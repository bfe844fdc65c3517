----------------------------- MODULE Ultrasonic -----------------------------
(***************************************************************************)
(* The HC-SR04 driver (Drivers/Src/ultrasonic.c) on top of the kernel: the *)
(* radar task reads again and again, TIM2 captures both edges of the echo, *)
(* and its interrupt handler posts echo_ready.                             *)
(*                                                                         *)
(* TIM2 has a higher priority than SysTick and PendSV, so its handler may  *)
(* run between any two steps of the kernel, the accesses of TickIsr too.   *)
(* Time is counted in SysTick periods, the unit of TIM2's counter too:     *)
(* what matters is that the counter wraps and that echoes and timeouts are *)
(* measured by one clock.                                                  *)
(***************************************************************************)
EXTENDS TickIsr

CONSTANTS
  RadarTask,     \* the task that calls ultrasonic_read_cm
  EchoReady,     \* the semaphore echo_ready
  ReadTimeout,   \* the timeout radar_task passes (60 ms)
  RadarPeriod,   \* RADAR_PERIOD_MS
  US_PER_CM,     \* counter units in a centimetre
  CounterSize,   \* TIM2 counts modulo this (2^32)
  MaxEcho        \* the sensor ends its echo at most this long after the trigger

ASSUME UltrasonicAssumption ==
  /\ RadarTask \in Tasks \ {IdleTask}
  /\ EchoReady \in Sems /\ SemInitial[EchoReady] = 0 /\ SemMax[EchoReady] = 1
  /\ ReadTimeout \in Nat \ {0} /\ RadarPeriod \in Nat \ {0}
  /\ US_PER_CM \in Nat \ {0, 1} /\ CounterSize \in Nat /\ MaxEcho \in Nat
  /\ MaxEcho < CounterSize /\ CounterSize > 2
  /\ NULL \notin Nat   \* NULL is no time and no distance

ULTRASONIC_NO_ECHO == CounterSize - 1

VARIABLES
  \* ultrasonic.c, and the value ultrasonic_read_cm returned last
  waiting_for_rising, time_start, time_end, distance,
  \* where the radar task is in its loop, and the values of time_end and
  \* time_start that it has loaded (NULL: not yet)
  step, seen_end, seen_start,
  \* TIM2: the counter, the capture flag and the capture register
  cnt, cc2if, ccr2,
  \* the sensor: "idle", "armed" (triggered) or "high" (echo), since when it is
  \* not idle, and for how long the echo is high
  sensor, age, high,
  \* does the pulse answer the trigger of the current read, and how long was it
  \* (NULL: no such pulse has ended)?
  fresh, answer

driverVars == <<waiting_for_rising, time_start, time_end, distance>>
readVars   == <<step, seen_end, seen_start>>
timerVars  == <<cnt, cc2if, ccr2>>
sensorVars == <<sensor, age, high>>
ghostVars  == <<fresh, answer>>
echoVars   == <<driverVars, readVars, timerVars, sensorVars, ghostVars>>
radarVars  == <<vars, tickVars, echoVars>>

\* After ultrasonic_init and os_semaphore_init; the counter runs.
RadarInit ==
  /\ Init /\ TickInit
  /\ waiting_for_rising = TRUE
  /\ time_start = 0 /\ time_end = 0
  /\ distance = ULTRASONIC_NO_ECHO
  /\ step = "out" /\ seen_end = NULL /\ seen_start = NULL
  /\ cnt \in 0 .. CounterSize - 1 /\ cc2if = FALSE /\ ccr2 = 0
  /\ sensor = "idle" /\ age = 0 /\ high = 0
  /\ fresh = FALSE /\ answer = NULL

-----------------------------------------------------------------------------
(* radar_task and ultrasonic_read_cm.                                      *)

\* ultrasonic_trigger, its critical section.
TriggerReset ==
  /\ App(RadarTask) /\ step = "out"
  /\ waiting_for_rising' = TRUE
  /\ step' = "trigger"
  /\ fresh' = FALSE /\ answer' = NULL
  /\ UNCHANGED <<vars, time_start, time_end, distance, seen_end, seen_start,
                 timerVars, sensorVars>>

\* The trigger pulse.  The sensor ignores it unless it is idle, and it may be
\* that no sound comes back.
TriggerPulse ==
  /\ App(RadarTask) /\ step = "trigger"
  /\ step' = "acquire"
  /\ \/ sensor = "idle" /\ sensor' = "armed" /\ age' = 0 /\ fresh' = TRUE
     \/ UNCHANGED <<sensor, age, fresh>>
  /\ UNCHANGED <<vars, driverVars, seen_end, seen_start, timerVars, high, answer>>

\* os_semaphore_acquire of echo_ready.
EchoTake ==
  /\ step = "acquire" /\ SemTake(RadarTask, EchoReady)
  /\ step' = "read"
  /\ UNCHANGED <<driverVars, seen_end, seen_start, timerVars, sensorVars, ghostVars>>

EchoBlock ==
  /\ step = "acquire" /\ SemBlock(RadarTask, EchoReady, ReadTimeout)
  /\ step' = "wait"
  /\ UNCHANGED <<driverVars, seen_end, seen_start, timerVars, sensorVars, ghostVars>>

EchoWoken ==
  /\ step = "wait" /\ Return(RadarTask)
  /\ IF wait_result[RadarTask] = OS_SUCCESS
     THEN step' = "read" /\ UNCHANGED distance
     ELSE step' = "done" /\ distance' = ULTRASONIC_NO_ECHO
  /\ UNCHANGED <<waiting_for_rising, time_start, time_end, seen_end, seen_start,
                 timerVars, sensorVars, ghostVars>>

\* The two volatile loads of the subtraction, in the order the compiler likes.
LoadEnd ==
  /\ App(RadarTask) /\ step = "read" /\ seen_end = NULL
  /\ seen_end' = time_end
  /\ UNCHANGED <<vars, driverVars, step, seen_start, timerVars, sensorVars, ghostVars>>

LoadStart ==
  /\ App(RadarTask) /\ step = "read" /\ seen_start = NULL
  /\ seen_start' = time_start
  /\ UNCHANGED <<vars, driverVars, step, seen_end, timerVars, sensorVars, ghostVars>>

\* Mutant: the subtraction does not wrap.
Elapsed_NoWrap(from, to) == IF to >= from THEN to - from ELSE from - to

\* Unsigned subtraction.
Elapsed(from, to) == (to - from) % CounterSize

ReturnDistance ==
  /\ App(RadarTask) /\ step = "read" /\ seen_end # NULL /\ seen_start # NULL
  /\ distance' = Elapsed(seen_start, seen_end) \div US_PER_CM
  /\ step' = "done" /\ seen_end' = NULL /\ seen_start' = NULL
  /\ UNCHANGED <<vars, waiting_for_rising, time_start, time_end, timerVars,
                 sensorVars, ghostVars>>

\* radar_task rests before the next read.  What it does with the distance, a
\* poll of the queue and a line on the UART, takes no part here.
Rest ==
  /\ step = "done" /\ Delay(RadarTask, RadarPeriod)
  /\ step' = "out"
  /\ UNCHANGED <<driverVars, seen_end, seen_start, timerVars, sensorVars, ghostVars>>

\* os_yield, and the return of a call that is not the acquire.
Proceed ==
  /\ Yield(RadarTask) \/ (step # "wait" /\ Return(RadarTask))
  /\ UNCHANGED echoVars

ReadStep ==
  \/ TriggerReset \/ TriggerPulse \/ EchoTake \/ EchoBlock \/ EchoWoken
  \/ LoadEnd \/ LoadStart \/ ReturnDistance \/ Rest \/ Proceed

-----------------------------------------------------------------------------
(* TIM2_IRQHandler.                                                        *)

CaptureRising ==
  /\ kernel_running /\ cc2if /\ waiting_for_rising
  /\ cc2if' = FALSE
  /\ time_start' = ccr2
  /\ waiting_for_rising' = FALSE
  /\ UNCHANGED <<vars, time_end, distance, readVars, cnt, ccr2, sensorVars, ghostVars>>

\* Mutant: the semaphore is not posted.
CaptureFalling_Silent ==
  /\ kernel_running /\ cc2if /\ ~waiting_for_rising
  /\ cc2if' = FALSE
  /\ time_end' = ccr2
  /\ waiting_for_rising' = TRUE
  /\ UNCHANGED <<vars, time_start, distance, readVars, cnt, ccr2, sensorVars, ghostVars>>

CaptureFalling ==
  /\ kernel_running /\ cc2if /\ ~waiting_for_rising
  /\ cc2if' = FALSE
  /\ time_end' = ccr2
  /\ waiting_for_rising' = TRUE
  /\ IsrRelease(EchoReady)
  /\ UNCHANGED <<time_start, distance, readVars, cnt, ccr2, sensorVars, ghostVars>>

CaptureIsr == CaptureRising \/ CaptureFalling

-----------------------------------------------------------------------------
(* The sensor and TIM2's capture unit.  An edge follows the previous one   *)
(* only after its interrupt was served: the shortest echo is longer than   *)
(* any critical section.                                                   *)

EchoRise ==
  /\ sensor = "armed" /\ ~cc2if
  /\ sensor' = "high" /\ high' = 0
  /\ cc2if' = TRUE /\ ccr2' = cnt
  /\ UNCHANGED <<vars, driverVars, readVars, cnt, age, ghostVars>>

EchoFall ==
  /\ sensor = "high" /\ ~cc2if
  /\ sensor' = "idle" /\ age' = 0 /\ high' = 0
  /\ cc2if' = TRUE /\ ccr2' = cnt
  /\ answer' = IF fresh THEN high ELSE answer
  /\ fresh' = FALSE
  /\ UNCHANGED <<vars, driverVars, readVars, cnt>>

\* A SysTick period goes by; an interrupt of TIM2 never waits that long.
PeriodEnds ==
  /\ ~cc2if /\ (sensor # "idle" => age < MaxEcho)
  /\ SysTick
  /\ cnt' = (cnt + 1) % CounterSize
  /\ age' = IF sensor = "idle" THEN 0 ELSE age + 1
  /\ high' = IF sensor = "high" THEN high + 1 ELSE 0
  /\ UNCHANGED <<driverVars, readVars, cc2if, ccr2, sensor, ghostVars>>

KernelGoesOn ==
  /\ TickAccess \/ ((Launch \/ PendSV) /\ UNCHANGED tickVars)
  /\ UNCHANGED echoVars

Environment == EchoRise \/ EchoFall \/ PeriodEnds

RadarNext ==
  KernelGoesOn \/ ((ReadStep \/ CaptureIsr \/ Environment) /\ UNCHANGED tickVars)

RadarSpec == RadarInit /\ [][RadarNext]_radarVars
=============================================================================
