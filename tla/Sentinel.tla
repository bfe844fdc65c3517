------------------------------ MODULE Sentinel ------------------------------
(***************************************************************************)
(* The application (Tasks/tasks.c): sweep_task turns the servo and sends   *)
(* each angle to sweep_queue, radar_task pings, takes an angle from the    *)
(* queue and logs it, on the kernel and the queue of the modules below.    *)
(* The driver of the sensor is reduced to its semaphore: a ping may be     *)
(* answered by a post of echo_ready from the handler (module Ultrasonic    *)
(* has the rest).  An angle is named by the number of its message.         *)
(***************************************************************************)
EXTENDS Queue

CONSTANTS
  Sweep, Radar,          \* the two tasks
  UartLock, EchoReady,   \* the shared mutex and the binary semaphore of main()
  SWEEP_STEP_DEG,
  SWEEP_PERIOD_MS, RADAR_PERIOD_MS, HomeDelay, ReadTimeout  \* in ticks

\* What main() sets up: the radar task is above the sweep.
ASSUME SentinelAssumption ==
  /\ Producers = {Sweep} /\ Consumers = {Radar}
  /\ BasePriority[Sweep] < BasePriority[Radar]
  /\ UartLock \in Mutexes \ {QLock}
  /\ EchoReady \in Sems \ {EmptySlots, FilledSlots}
  /\ SemInitial[EchoReady] = 0 /\ SemMax[EchoReady] = 1
  /\ SendTimeouts = {0} /\ ReceiveTimeouts = {0}
  /\ SWEEP_STEP_DEG \in 1 .. 90
  /\ {SWEEP_PERIOD_MS, RADAR_PERIOD_MS, HomeDelay, ReadTimeout} \subseteq Nat \ {0}

SERVO_MIN_US == 1000
SERVO_MAX_US == 2000
pwm_period_us == 20000   \* set by servo_init

VARIABLES
  place,        \* where each task is in its function
  angle, step,  \* the variables of sweep_task; angle is also a of its first loop
  pulse,        \* TIM3's CCR1: the pulse the servo sees, in microseconds
  pinged        \* a ping is out that has not been answered

sweepVars == <<angle, step, pulse>>
appVars   == <<place, sweepVars, pinged>>
sysVars   == <<allVars, appVars>>

Move(t, p) == place' = [place EXCEPT ![t] = p]

-----------------------------------------------------------------------------
(* The servo.                                                              *)

\* What pwm_set_pulse_us writes to CCR1.
PwmPulse(us) == IF us > pwm_period_us THEN pwm_period_us ELSE us

\* The pulse of servo_set_angle((uint16_t)a): a negative angle wraps and is then
\* clamped to the far end.
PulseOf(a) ==
  LET cast == a % 65536
      degrees == IF cast > 180 THEN 180 ELSE cast
  IN PwmPulse(SERVO_MIN_US + (degrees * (SERVO_MAX_US - SERVO_MIN_US)) \div 180)

\* servo_init centres the servo.
SysInit ==
  /\ QInit
  /\ place = [t \in Users |-> IF t = Sweep THEN "home_lock" ELSE "read"]
  /\ angle = 90 /\ step = SWEEP_STEP_DEG
  /\ pulse = PwmPulse((SERVO_MIN_US + SERVO_MAX_US) \div 2)
  /\ pinged = FALSE

-----------------------------------------------------------------------------
(* The UART: a line is printed under uart_lock.                            *)

\* os_mutex_acquire of a free uart_lock; UartUncontended shows it always is.
LockUart(t, from, to) ==
  /\ place[t] = from /\ stage[t] = "out" /\ MutexTake(t, UartLock)
  /\ Move(t, to)
  /\ UNCHANGED <<queueData, sweepVars, pinged>>

\* Mutant: the lock is kept.
UnlockUart_Forgets(t, from, to) ==
  /\ place[t] = from /\ App(t)
  /\ Move(t, to)
  /\ UNCHANGED <<vars, queueData, sweepVars, pinged>>

\* The line is out, and os_mutex_release.
UnlockUart(t, from, to) ==
  /\ place[t] = from /\ MutexRelease(t, UartLock)
  /\ Move(t, to)
  /\ UNCHANGED <<queueData, sweepVars, pinged>>

-----------------------------------------------------------------------------
(* sweep_task.                                                             *)

\* Mutant: the loop goes one step too far.
HomeAgain_OneMore == angle >= -SWEEP_STEP_DEG

\* The condition of the homing loop.
HomeAgain == angle >= 0

\* An iteration of the homing loop: the servo moves, then os_delay.
HomeStep ==
  /\ place[Sweep] = "home" /\ HomeAgain /\ Delay(Sweep, HomeDelay)
  /\ pulse' = PulseOf(angle)
  /\ angle' = angle - SWEEP_STEP_DEG
  /\ UNCHANGED <<queueData, place, step, pinged>>

\* The end of the loop, the last os_delay and the start of the sweep.
HomeEnd ==
  /\ place[Sweep] = "home" /\ ~HomeAgain /\ Delay(Sweep, HomeDelay)
  /\ angle' = 0 /\ step' = SWEEP_STEP_DEG
  /\ Move(Sweep, "servo")
  /\ UNCHANGED <<queueData, pulse, pinged>>

SetAngle ==
  /\ place[Sweep] = "servo" /\ App(Sweep)
  /\ pulse' = PulseOf(angle)
  /\ Move(Sweep, "send")
  /\ UNCHANGED <<vars, queueData, angle, step, pinged>>

\* Mutant: the sweep waits for a slot.
SendAngle_Waits ==
  /\ place[Sweep] = "send"
  /\ \/ SendTake(Sweep)
     \/ /\ NewMessage(Sweep) /\ SemBlock(Sweep, EmptySlots, WAIT_FOREVER)
        /\ Token(Sweep, FALSE) /\ GoTo(Sweep, "token")
  /\ Move(Sweep, "sent")
  /\ UNCHANGED <<sweepVars, pinged>>

\* os_queue_send with timeout 0; the rest of the call is in Queue.
SendAngle ==
  /\ place[Sweep] = "send" /\ (SendTake(Sweep) \/ SendPoll(Sweep))
  /\ Move(Sweep, "sent")
  /\ UNCHANGED <<sweepVars, pinged>>

\* The next angle, turned at both ends, and os_delay.
Turn ==
  /\ place[Sweep] = "sent" /\ stage[Sweep] = "out" /\ Delay(Sweep, SWEEP_PERIOD_MS)
  /\ LET next == angle + step IN
     /\ angle' = IF next >= 180 THEN 180 ELSE IF next <= 0 THEN 0 ELSE next
     /\ step' = IF next >= 180 THEN -SWEEP_STEP_DEG
                ELSE IF next <= 0 THEN SWEEP_STEP_DEG ELSE step
  /\ Move(Sweep, "servo")
  /\ UNCHANGED <<queueData, pulse, pinged>>

SweepStep ==
  \/ LockUart(Sweep, "home_lock", "home_print")
  \/ UnlockUart(Sweep, "home_print", "home")
  \/ HomeStep \/ HomeEnd \/ SetAngle \/ SendAngle \/ Turn

-----------------------------------------------------------------------------
(* radar_task.                                                             *)

\* ultrasonic_trigger.
Ping ==
  /\ place[Radar] = "read" /\ App(Radar)
  /\ pinged' = TRUE
  /\ Move(Radar, "acquire")
  /\ UNCHANGED <<vars, queueData, sweepVars>>

EchoTake ==
  /\ place[Radar] = "acquire" /\ SemTake(Radar, EchoReady)
  /\ Move(Radar, "receive")
  /\ UNCHANGED <<queueData, sweepVars, pinged>>

EchoBlock ==
  /\ place[Radar] = "acquire" /\ SemBlock(Radar, EchoReady, ReadTimeout)
  /\ Move(Radar, "wait")
  /\ UNCHANGED <<queueData, sweepVars, pinged>>

\* A read that timed out is not logged.
EchoWoken ==
  /\ place[Radar] = "wait" /\ Return(Radar)
  /\ Move(Radar, IF wait_result[Radar] = OS_SUCCESS THEN "receive" ELSE "rest")
  /\ UNCHANGED <<queueData, sweepVars, pinged>>

\* os_queue_receive with timeout 0: without an angle nothing is logged.
ReceiveAngle ==
  /\ place[Radar] = "receive"
  /\ \/ ReceiveTake(Radar) /\ Move(Radar, "log")
     \/ ReceivePoll(Radar) /\ Move(Radar, "rest")
  /\ UNCHANGED <<sweepVars, pinged>>

Rest ==
  /\ place[Radar] = "rest" /\ Delay(Radar, RADAR_PERIOD_MS)
  /\ Move(Radar, "read")
  /\ UNCHANGED <<queueData, sweepVars, pinged>>

RadarStep ==
  \/ Ping \/ EchoTake \/ EchoBlock \/ EchoWoken \/ ReceiveAngle \/ Rest
  \/ LockUart(Radar, "log", "print")
  \/ UnlockUart(Radar, "print", "rest")

-----------------------------------------------------------------------------
\* TIM2_IRQHandler at the end of an echo.
EchoIsr ==
  /\ kernel_running /\ pinged /\ IsrRelease(EchoReady)
  /\ pinged' = FALSE
  /\ UNCHANGED <<queueData, place, sweepVars>>

\* The steps inside a queue call, and the returns of all calls but EchoWoken.
CallStep(t) ==
  /\ InCall(t)
  /\ place[t] = "wait" => pc[t] = "yield"
  /\ UNCHANGED appVars

KernelRuns == KernelStep /\ UNCHANGED <<queueData, appVars>>

TaskRuns == SweepStep \/ RadarStep \/ \E t \in Users : CallStep(t)

SysNext == KernelRuns \/ EchoIsr \/ TaskRuns

SysSpec == SysInit /\ [][SysNext]_sysVars
=============================================================================
