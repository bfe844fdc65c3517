-------------------------- MODULE UltrasonicProofs --------------------------
(***************************************************************************)
(* Proofs about the driver of the sensor: if the longest echo is shorter   *)
(* than the timeout of a read, every distance is that of its own ping, and *)
(* the handler of TIM2 never meets the tick at a bad moment.               *)
(***************************************************************************)
EXTENDS UltrasonicProps, KernelProofs

-----------------------------------------------------------------------------
(* The inductive invariant.  Only the radar task makes calls, so the kernel *)
(* under the driver is simpler than in KernelProofs; what is not simple is  *)
(* the tick, split into accesses, against the handler of TIM2.              *)

\* The values of the variables.
RadarTypes ==
  /\ state \in [Tasks -> {"READY", "RUNNING", "BLOCKED"}]
  /\ sleep_time \in [Tasks -> Nat]
  /\ wait_on \in [Tasks -> {EchoReady, NULL}]
  /\ wait_result \in [Tasks -> {OS_SUCCESS, OS_TIMEOUT}]
  /\ current_tcb \in Tasks /\ kernel_running \in BOOLEAN /\ pendsv \in BOOLEAN
  /\ scan_k \in -1 .. NTasks /\ best \in Tasks \cup {NULL} /\ tick_i \in -1 .. NTasks - 1
  /\ count \in [Sems -> Nat]
  /\ wait_queue \in [Objs -> [Slots -> Tasks \cup {NULL}]]
  /\ wait_count \in [Objs -> Nat]
  /\ pc \in [Tasks -> {"run", "yield", "resume"}]

\* No one but the radar task ever blocks, and no object but echo_ready is used.
OnlyRadarCalls ==
  /\ current_priority = BasePriority
  /\ lock = [m \in Mutexes |-> 0] /\ owner = [m \in Mutexes |-> NULL]
  /\ \A t \in Tasks \ {RadarTask} :
       state[t] # "BLOCKED" /\ sleep_time[t] = 0 /\ wait_on[t] = NULL
  /\ \A o \in Objs \ {EchoReady} : wait_count[o] = 0

\* The wait queue of echo_ready: the radar task is in it if it says so.
EchoQueue ==
  /\ wait_count[EchoReady] = IF wait_on[RadarTask] = EchoReady THEN 1 ELSE 0
  /\ wait_on[RadarTask] = EchoReady =>
       wait_queue[EchoReady][0] = RadarTask /\ state[RadarTask] = "BLOCKED" /\ step = "wait"

\* The scan of PendSV: what it has passed is not better than best, but for a
\* radar task that was woken since, and then a switch is pended.
ScanInv ==
  /\ scan_k = -1 => best = NULL
  /\ best # NULL => state[best] # "BLOCKED"
  /\ \A k \in 0 .. scan_k - 1 :
       \/ ScanSlot(k) = RadarTask /\ (pendsv \/ tick_i # -1 \/ state[RadarTask] = "BLOCKED")
       \/ best # NULL /\ BasePriority[ScanSlot(k)] <= BasePriority[best]

\* The radar task executes only if it is not blocked, but for its os_yield.
Executes ==
  current_tcb = RadarTask /\ scan_k = -1 /\ ~pendsv /\ pc[RadarTask] # "yield"
    => state[RadarTask] # "BLOCKED"

\* The places of an iteration at which the radar task is blocked for sure: what
\* the tick found out is still true.
TickInv ==
  /\ tick_at \in {"load", "store", "check", "find", "remove", "result", "ready"}
  /\ tick_at # "load" => tick_i = RadarTask
  /\ removing = IF tick_at = "remove" THEN EchoReady ELSE NULL
  /\ loaded \in Nat
  /\ tick_at = "store" => loaded > 0
  /\ tick_at \in {"find", "remove"} => wait_on[RadarTask] = EchoReady
  /\ tick_at = "remove" => loaded = 1
  /\ tick_at \in {"check", "find", "remove", "result", "ready"} => sleep_time[RadarTask] = 0
  /\ tick_at = "result" =>
       state[RadarTask] = "BLOCKED" /\ step = "wait" /\ wait_on[RadarTask] = NULL
  /\ tick_at = "ready" => wait_on[RadarTask] = NULL

\* What wakes the radar task; and a deadline is over when the task goes on, but
\* for the one the tick stores after the handler has woken the task.
SleepInv ==
  /\ state[RadarTask] = "BLOCKED" =>
       /\ step \in {"wait", "out"}
       /\ \/ sleep_time[RadarTask] > 0 /\ tick_at \in {"load", "store"}
          \/ sleep_time[RadarTask] = 0 /\ tick_at \notin {"load", "store"}
       /\ tick_at = "store" => loaded = sleep_time[RadarTask]
       /\ step = "wait" /\ tick_at \notin {"result", "ready"} => wait_on[RadarTask] = EchoReady
  /\ step = "trigger" \/ step = "acquire" \/ (step = "out" /\ state[RadarTask] # "BLOCKED") =>
       sleep_time[RadarTask] = 0 /\ tick_at = "load"

\* The tick has still to count for the radar task.
Pending == IF tick_i \in 0 .. RadarTask /\ tick_at \in {"load", "store"} THEN 1 ELSE 0

\* A radar task that waits while the pulse is on its way has its entry in the
\* queue and enough ticks left.
InTime(ticks) ==
  step = "wait" =>
    /\ wait_on[RadarTask] = EchoReady /\ tick_at \in {"load", "store"}
    /\ sleep_time[RadarTask] >= ticks + Pending

\* to is n counts after from, on a counter that wraps.
Spans(from, to, n) ==
  /\ from \in 0 .. CounterSize - 1 /\ to \in 0 .. CounterSize - 1 /\ n \in 0 .. CounterSize - 1
  /\ to = from + n \/ to + CounterSize = from + n

\* No pulse is on its way.
Silent == sensor = "idle" /\ ~cc2if /\ waiting_for_rising /\ ~fresh

\* The answer is in: time_start and time_end are those of the pulse.
Answered == Silent /\ answer \in Nat /\ Spans(time_start, time_end, answer)

\* The stages of an echo while the radar task waits for it, or is about to.
NoSound ==
  /\ Silent /\ answer = NULL /\ count[EchoReady] = 0
  /\ step = "wait" /\ (state[RadarTask] # "BLOCKED" \/ tick_at = "ready")
       => wait_result[RadarTask] = OS_TIMEOUT
  /\ step = "wait" /\ state[RadarTask] # "BLOCKED" => sleep_time[RadarTask] = 0 /\ tick_at = "load"
Armed ==
  /\ sensor = "armed" /\ ~cc2if /\ waiting_for_rising
  /\ fresh /\ answer = NULL /\ count[EchoReady] = 0
  /\ age \in 0 .. MaxEcho /\ InTime(ReadTimeout - age)
High ==
  /\ sensor = "high" /\ (cc2if <=> waiting_for_rising)
  /\ fresh /\ answer = NULL /\ count[EchoReady] = 0
  /\ age \in 0 .. MaxEcho /\ high \in 0 .. age /\ InTime(ReadTimeout - age)
  /\ Spans(IF cc2if THEN ccr2 ELSE time_start, cnt, high)
Fallen ==
  /\ sensor = "idle" /\ cc2if /\ ~waiting_for_rising
  /\ ~fresh /\ answer \in Nat /\ count[EchoReady] = 0
  /\ Spans(time_start, ccr2, answer) /\ InTime(1)
Posted ==
  /\ Answered
  /\ \/ step = "acquire" /\ count[EchoReady] = 1
     \/ /\ step = "wait" /\ count[EchoReady] = 0
        /\ state[RadarTask] # "BLOCKED" /\ wait_result[RadarTask] = OS_SUCCESS

\* What each step of ultrasonic_read_cm knows of the echo.
EchoInv ==
  /\ step \in {"out", "trigger", "acquire", "wait", "read", "done"}
  /\ step \in {"out", "trigger"} => Silent /\ count[EchoReady] = 0
  /\ step = "trigger" => answer = NULL
  /\ step \in {"acquire", "wait"} => NoSound \/ Armed \/ High \/ Fallen \/ Posted
  /\ step = "read" => Answered /\ count[EchoReady] = 0
  /\ step = "read" => seen_end \in {NULL, time_end} /\ seen_start \in {NULL, time_start}
  /\ step # "read" => seen_end = NULL /\ seen_start = NULL
  /\ step = "done" =>
       /\ Silent /\ count[EchoReady] = 0
       /\ \/ distance = ULTRASONIC_NO_ECHO /\ answer = NULL
          \/ /\ answer \in Nat /\ distance = answer \div US_PER_CM
             /\ distance # ULTRASONIC_NO_ECHO
  /\ cnt \in 0 .. CounterSize - 1
  /\ cc2if \in BOOLEAN /\ waiting_for_rising \in BOOLEAN /\ fresh \in BOOLEAN

RadarInv ==
  /\ RadarTypes /\ OnlyRadarCalls /\ EchoQueue /\ ScanInv /\ Executes
  /\ TickInv /\ SleepInv /\ EchoInv

\* The constants.
LEMMA RadarConstants ==
  /\ RadarTask \in Tasks /\ RadarTask # IdleTask /\ IdleTask \in Tasks /\ NULL \notin Tasks
  /\ Tasks = 0 .. NTasks - 1 /\ NTasks \in Nat \ {0} /\ RadarTask \in Nat
  /\ EchoReady \in Sems /\ EchoReady \in Objs /\ EchoReady # NULL /\ EchoReady \notin Mutexes
  /\ SemMax[EchoReady] = 1 /\ SemInitial[EchoReady] = 0
  /\ 0 \in Slots /\ MAX_TASKS \in Nat \ {0} /\ QueueMax(EchoReady) = MAX_TASKS
  /\ ReadTimeout \in Nat \ {0} /\ RadarPeriod \in Nat \ {0} /\ MaxEcho \in Nat
  /\ US_PER_CM \in Nat \ {0, 1} /\ CounterSize \in Nat /\ MaxEcho < CounterSize /\ CounterSize > 2
  /\ BasePriority \in [Tasks -> Nat] /\ NULL \notin Nat
  /\ Mutexes \subseteq Objs /\ Sems \subseteq Objs
BY KernelAssumption, UltrasonicAssumption DEF Tasks, Objs, Slots, QueueMax

\* main() and the sensor at rest.
LEMMA RadarInitInv == RadarInit => RadarInv
<1> SUFFICES ASSUME RadarInit
             PROVE  RadarInv
  OBVIOUS
<1>1. /\ current_tcb \in Tasks
      /\ state = [t \in Tasks |-> IF t = current_tcb THEN "RUNNING" ELSE "READY"]
      /\ current_priority = BasePriority /\ sleep_time = [t \in Tasks |-> 0]
      /\ wait_on = [t \in Tasks |-> NULL] /\ wait_result = [t \in Tasks |-> OS_SUCCESS]
      /\ kernel_running = FALSE /\ pendsv = FALSE /\ scan_k = -1 /\ best = NULL /\ tick_i = -1
      /\ lock = [m \in Mutexes |-> 0] /\ owner = [m \in Mutexes |-> NULL] /\ count = SemInitial
      /\ wait_queue = [o \in Objs |-> [i \in Slots |-> NULL]] /\ wait_count = [o \in Objs |-> 0]
      /\ pc = [t \in Tasks |-> "run"]
  BY DEF RadarInit, Init, TaskInit, CpuInit, MutexInit, SemaphoreInit, QueueInit, Highest
<1>2. RadarTypes
  <2>1. /\ state \in [Tasks -> {"READY", "RUNNING", "BLOCKED"}] /\ sleep_time \in [Tasks -> Nat]
        /\ wait_on \in [Tasks -> {EchoReady, NULL}] /\ wait_result \in [Tasks -> {OS_SUCCESS, OS_TIMEOUT}]
        /\ pc \in [Tasks -> {"run", "yield", "resume"}]
    BY <1>1
  <2>2. wait_queue \in [Objs -> [Slots -> Tasks \cup {NULL}]] /\ wait_count \in [Objs -> Nat]
    BY <1>1
  <2>3. count \in [Sems -> Nat]
    BY <1>1, KernelAssumption
  <2>4. scan_k \in -1 .. NTasks /\ tick_i \in -1 .. NTasks - 1
    BY <1>1, RadarConstants
  <2> QED BY <1>1, <2>1, <2>2, <2>3, <2>4 DEF RadarTypes
<1>3. OnlyRadarCalls /\ EchoQueue
  BY <1>1, RadarConstants DEF OnlyRadarCalls, EchoQueue
<1>4. ScanInv /\ Executes
  BY <1>1, RadarConstants DEF ScanInv, Executes
<1>5. TickInv /\ SleepInv
  BY <1>1, RadarConstants DEF RadarInit, TickInit, TickInv, SleepInv
<1>6. EchoInv
  BY <1>1, RadarConstants DEF RadarInit, EchoInv, Silent
<1> QED BY <1>2, <1>3, <1>4, <1>5, <1>6 DEF RadarInv

-----------------------------------------------------------------------------
(* Launch and PendSV.                                                      *)

\* The parts that speak of the radar task's call, under a step that leaves alone
\* all they mention.
LEMMA CallStays ==
  ASSUME RadarInv,
         UNCHANGED <<sleep_time, wait_on, wait_result, queueVars, tick_i, count, tickVars, echoVars>>,
         state'[RadarTask] = "BLOCKED" <=> state[RadarTask] = "BLOCKED"
  PROVE  EchoQueue' /\ TickInv' /\ SleepInv' /\ EchoInv'
<1>1. /\ UNCHANGED <<tick_at, loaded, removing, wait_queue, wait_count>>
      /\ UNCHANGED <<waiting_for_rising, time_start, time_end, distance, step, seen_end, seen_start>>
      /\ UNCHANGED <<cnt, cc2if, ccr2, sensor, age, high, fresh, answer>>
  BY DEF tickVars, queueVars, echoVars, driverVars, readVars, timerVars, sensorVars, ghostVars
<1>2. EchoQueue' /\ TickInv' /\ SleepInv'
  BY <1>1 DEF RadarInv, EchoQueue, TickInv, SleepInv
<1>3. UNCHANGED <<Silent, Answered, Pending>>
  BY <1>1 DEF Silent, Answered, Pending, Spans
<1>4. \A n : InTime(n)' <=> InTime(n)
  BY <1>1, <1>3 DEF InTime
<1>5. (NoSound \/ Armed \/ High \/ Fallen \/ Posted) => (NoSound \/ Armed \/ High \/ Fallen \/ Posted)'
  <2>1. NoSound => NoSound'
    BY <1>1, <1>3 DEF NoSound
  <2>2. Armed => Armed'
    BY <1>1, <1>4 DEF Armed
  <2>3. High => High'
    BY <1>1, <1>4 DEF High, Spans
  <2>4. Fallen => Fallen'
    BY <1>1, <1>4 DEF Fallen, Spans
  <2>5. Posted => Posted'
    BY <1>1, <1>3 DEF Posted
  <2> QED BY <2>1, <2>2, <2>3, <2>4, <2>5
<1>6. EchoInv'
  BY <1>1, <1>3, <1>5 DEF RadarInv, EchoInv
<1> QED BY <1>2, <1>6

\* At the end of the scan best is a task that can run, and the best of them unless
\* a switch is pended.
LEMMA ScanFinds ==
  ASSUME RadarInv, scan_k = NTasks, tick_i = -1
  PROVE  /\ best \in Tasks /\ state[best] # "BLOCKED"
         /\ ~pendsv => \A t \in Tasks : state[t] # "BLOCKED" => BasePriority[t] <= BasePriority[best]
<1>1. current_tcb \in Tasks /\ best \in Tasks \cup {NULL}
  BY DEF RadarInv, RadarTypes
<1>2. PICK k \in 0 .. NTasks - 1 : ScanSlot(k) = IdleTask
  BY <1>1, ScanCovers, RadarConstants
<1>3. best # NULL
  BY <1>2, RadarConstants DEF RadarInv, ScanInv
<1>4. ASSUME ~pendsv, NEW t \in Tasks, state[t] # "BLOCKED"
      PROVE  BasePriority[t] <= BasePriority[best]
  <2>1. PICK j \in 0 .. NTasks - 1 : ScanSlot(j) = t
    BY <1>1, ScanCovers
  <2> QED BY <1>4, <2>1 DEF RadarInv, ScanInv
<1> QED BY <1>1, <1>3, <1>4 DEF RadarInv, ScanInv

\* The launch, and every step of PendSV.
LEMMA PendSVKeeps ==
  ASSUME RadarInv, (Launch \/ PendSV) /\ UNCHANGED tickVars, UNCHANGED echoVars
  PROVE  RadarInv'
<1>0. RadarTypes /\ OnlyRadarCalls /\ ScanInv /\ Executes
  BY DEF RadarInv
<1>1. /\ UNCHANGED <<current_priority, sleep_time, wait_on, wait_result, queueVars, tick_i, objVars>>
      /\ UNCHANGED <<clientVars, tickVars, echoVars>>
  BY DEF Launch, PendSV, PendSVEnter, ScanStep, SwitchTo, tcbVars
<1>2. UNCHANGED <<lock, owner, count, wait_queue, wait_count, pc>>
  BY <1>1 DEF objVars, queueVars, clientVars
<1>3. CASE Launch \/ PendSVEnter
  <2>1. UNCHANGED <<state, current_tcb>> /\ scan_k' = 0 /\ best' = NULL /\ kernel_running' \in BOOLEAN
        /\ pendsv' \in BOOLEAN
    BY <1>0, <1>3 DEF Launch, PendSVEnter, tcbVars, ScanInv, RadarTypes
  <2>2. RadarTypes' /\ OnlyRadarCalls'
    BY <1>0, <1>1, <1>2, <2>1, RadarConstants DEF RadarTypes, OnlyRadarCalls
  <2>3. ScanInv' /\ Executes'
    BY <2>1 DEF ScanInv, Executes
  <2> QED BY <1>1, <1>2, <2>1, <2>2, <2>3, CallStays DEF RadarInv
<1>4. CASE ScanStep
  <2> DEFINE u == ScanSlot(scan_k)
  <2>1. /\ UNCHANGED <<state, current_tcb, kernel_running, pendsv>> /\ scan_k \in 0 .. NTasks - 1
        /\ tick_i = -1 /\ scan_k' = scan_k + 1 /\ u \in Tasks
        /\ best' = IF Runnable(u) /\ Better(u) THEN u ELSE best
    BY <1>0, <1>4, ScanCovers DEF ScanStep, tcbVars, RadarTypes
  <2>2. RadarTypes' /\ OnlyRadarCalls'
    <3>1. scan_k' \in -1 .. NTasks /\ best' \in Tasks \cup {NULL}
      <4>1. best' \in Tasks \cup {NULL}
        BY <1>0, <2>1 DEF RadarTypes
      <4> HIDE DEF u
      <4>2. scan_k' \in -1 .. NTasks
        BY <2>1, RadarConstants
      <4> QED BY <4>1, <4>2
    <3> HIDE DEF u
    <3> QED BY <1>0, <1>1, <1>2, <2>1, <3>1 DEF RadarTypes, OnlyRadarCalls
  <2>3. /\ Runnable(u) <=> state[u] # "BLOCKED"
        /\ best = NULL \/ (best \in Tasks /\ state[best] # "BLOCKED")
    BY <1>0, <2>1 DEF RadarTypes, Runnable, ScanInv
  <2>4. best' # NULL => state'[best'] # "BLOCKED"
    BY <2>1, <2>3
  <2>5. /\ best # NULL => best' # NULL /\ BasePriority[best] <= BasePriority[best']
        /\ state[u] # "BLOCKED" => best' # NULL /\ BasePriority[u] <= BasePriority[best']
    BY <1>0, <2>1, <2>3, RadarConstants DEF Better, OnlyRadarCalls
  <2>6. \A k \in Nat : ScanSlot(k)' = ScanSlot(k)
    BY <2>1 DEF ScanSlot
  <2> HIDE DEF u
  <2>7. ASSUME NEW k \in 0 .. scan_k' - 1
        PROVE  \/ ScanSlot(k)' = RadarTask /\ (pendsv' \/ tick_i' # -1 \/ state'[RadarTask] = "BLOCKED")
               \/ best' # NULL /\ BasePriority[ScanSlot(k)'] <= BasePriority[best']
    <3>0. k \in 0 .. NTasks - 1 /\ ScanSlot(k)' = ScanSlot(k) /\ ScanSlot(k) \in Tasks
      <4>1. k \in Nat /\ k \in 0 .. NTasks - 1
        BY <2>1, RadarConstants
      <4>2. current_tcb \in Tasks
        BY <1>0 DEF RadarTypes
      <4> QED BY <2>6, <4>1, <4>2, ScanCovers
    <3>1. CASE k = scan_k
      <4>1. ScanSlot(k) = u
        BY <3>1 DEF u
      <4>2. state[u] = "BLOCKED" => u = RadarTask
        BY <1>0, <2>1 DEF OnlyRadarCalls
      <4> QED BY <2>1, <2>5, <3>0, <4>1, <4>2
    <3>2. CASE k < scan_k
      <4>1. k \in 0 .. scan_k - 1
        BY <2>1, <3>0, <3>2
      <4>2. \/ ScanSlot(k) = RadarTask /\ (pendsv \/ tick_i # -1 \/ state[RadarTask] = "BLOCKED")
            \/ best # NULL /\ BasePriority[ScanSlot(k)] <= BasePriority[best]
        BY <1>0, <4>1 DEF ScanInv
      <4>3. best # NULL => BasePriority[best] \in Nat /\ BasePriority[best'] \in Nat
                           /\ BasePriority[ScanSlot(k)] \in Nat
        BY <2>1, <2>3, <3>0, RadarConstants
      <4> QED BY <1>1, <2>1, <2>5, <3>0, <4>2, <4>3
    <3> QED BY <2>1, <3>0, <3>1, <3>2
  <2>8. ScanInv'
    BY <1>0, <2>1, <2>4, <2>7 DEF ScanInv
  <2>9. Executes'
    BY <2>1 DEF Executes
  <2> QED BY <1>1, <1>2, <2>1, <2>2, <2>8, <2>9, CallStays DEF RadarInv
<1>5. CASE SwitchTo
  <2>1. /\ scan_k' = -1 /\ best' = NULL /\ kernel_running' = TRUE /\ UNCHANGED pendsv
        /\ best \in Tasks /\ state[best] # "BLOCKED"
        /\ state' = SwitchedStates(best) /\ current_tcb' = best
    BY <1>5, ScanFinds, RadarConstants DEF SwitchTo
  <2>2. /\ state' \in [Tasks -> {"READY", "RUNNING", "BLOCKED"}]
        /\ \A t \in Tasks : state'[t] = "BLOCKED" <=> state[t] = "BLOCKED"
    BY <1>0, <2>1 DEF SwitchedStates, RadarTypes
  <2>3. RadarTypes' /\ OnlyRadarCalls'
    BY <1>0, <1>1, <1>2, <2>1, <2>2, RadarConstants DEF RadarTypes, OnlyRadarCalls
  <2>4. ScanInv' /\ Executes'
    BY <2>1, <2>2, RadarConstants DEF ScanInv, Executes
  <2> QED BY <1>1, <1>2, <2>2, <2>3, <2>4, CallStays, RadarConstants DEF RadarInv
<1> QED BY <1>3, <1>4, <1>5 DEF PendSV

-----------------------------------------------------------------------------
(* The tick, one access at a time.                                         *)

\* The scan does not mind that the radar task becomes ready, if a switch follows.
LEMMA ScanStays ==
  ASSUME RadarInv, UNCHANGED <<current_tcb, scan_k, best, pc>>, pendsv => pendsv',
         state' = state \/ state' = [state EXCEPT ![RadarTask] = "READY"],
         pendsv' \/ tick_i' # -1 \/ UNCHANGED <<tick_i, state>>
  PROVE  ScanInv' /\ Executes'
<1>0. RadarTypes /\ ScanInv /\ Executes
  BY DEF RadarInv
<1>1. /\ \A t \in Tasks : state[t] # "BLOCKED" => state'[t] # "BLOCKED"
      /\ best \in Tasks \cup {NULL} /\ best' = best
  BY <1>0, RadarConstants DEF RadarTypes
<1>2. \A k : ScanSlot(k)' = ScanSlot(k)
  BY DEF ScanSlot
<1>3. ASSUME NEW k \in 0 .. scan_k - 1
      PROVE  \/ ScanSlot(k) = RadarTask /\ (pendsv' \/ tick_i' # -1 \/ state'[RadarTask] = "BLOCKED")
             \/ best # NULL /\ BasePriority[ScanSlot(k)] <= BasePriority[best]
  BY <1>0 DEF ScanInv
<1>4. ScanInv'
  BY <1>0, <1>1, <1>2, <1>3 DEF ScanInv
<1>5. Executes'
  BY <1>0, <1>1, RadarConstants DEF Executes
<1> QED BY <1>4, <1>5

\* What a step that leaves the driver and the sensor alone has to show of the
\* echo: only a waiting radar task is concerned.
LEMMA EchoStays ==
  ASSUME RadarInv, UNCHANGED <<count, echoVars>>,
         step = "wait" /\ NoSound =>
           /\ state'[RadarTask] # "BLOCKED" \/ tick_at' = "ready" => wait_result'[RadarTask] = OS_TIMEOUT
           /\ state'[RadarTask] # "BLOCKED" => sleep_time'[RadarTask] = 0 /\ tick_at' = "load",
         step = "wait" /\ (Armed \/ High \/ Fallen) =>
           /\ wait_on'[RadarTask] = EchoReady /\ tick_at' \in {"load", "store"}
           /\ sleep_time'[RadarTask] \in Nat
           /\ sleep_time'[RadarTask] - Pending' >= sleep_time[RadarTask] - Pending,
         step = "wait" /\ Posted =>
           state'[RadarTask] # "BLOCKED" /\ wait_result'[RadarTask] = OS_SUCCESS
  PROVE  EchoInv'
<1>0. RadarTypes /\ EchoInv
  BY DEF RadarInv
<1>1. /\ UNCHANGED <<waiting_for_rising, time_start, time_end, distance, step, seen_end, seen_start>>
      /\ UNCHANGED <<cnt, cc2if, ccr2, sensor, age, high, fresh, answer>>
  BY DEF echoVars, driverVars, readVars, timerVars, sensorVars, ghostVars
<1>2. UNCHANGED <<Silent, Answered>>
  BY <1>1 DEF Silent, Answered, Spans
<1>3. /\ Pending \in {0, 1} /\ Pending' \in {0, 1} /\ sleep_time[RadarTask] \in Nat
      /\ ReadTimeout \in Nat /\ MaxEcho \in Nat
  BY <1>0, RadarConstants DEF Pending, RadarTypes
<1>4. ASSUME Armed \/ High \/ Fallen, NEW n \in Int, InTime(n)
      PROVE  InTime(n)'
  BY <1>1, <1>3, <1>4 DEF InTime
<1>5. ASSUME step \in {"acquire", "wait"}, NoSound \/ Armed \/ High \/ Fallen \/ Posted
      PROVE  (NoSound \/ Armed \/ High \/ Fallen \/ Posted)'
  <2>1. NoSound => NoSound'
    BY <1>1, <1>2 DEF NoSound
  <2>2. Armed => Armed'
    <3> HAVE Armed
    <3>1. InTime(ReadTimeout - age) /\ ReadTimeout - age \in Int
      BY <1>3 DEF Armed
    <3>2. InTime(ReadTimeout - age)'
      BY <1>1, <1>4, <3>1
    <3> QED BY <1>1, <3>2 DEF Armed
  <2>3. High => High'
    <3> HAVE High
    <3>1. InTime(ReadTimeout - age) /\ ReadTimeout - age \in Int
      BY <1>3 DEF High
    <3>2. InTime(ReadTimeout - age)'
      BY <1>1, <1>4, <3>1
    <3> QED BY <1>1, <3>2 DEF High, Spans
  <2>4. Fallen => Fallen'
    <3> HAVE Fallen
    <3>1. InTime(1)'
      BY <1>4 DEF Fallen
    <3> QED BY <1>1, <3>1 DEF Fallen, Spans
  <2>5. Posted => Posted'
    BY <1>1, <1>2, <1>5 DEF Posted
  <2> QED BY <1>5, <2>1, <2>2, <2>3, <2>4, <2>5
<1> QED BY <1>0, <1>1, <1>2, <1>5 DEF EchoInv

\* What every access of the tick leaves alone, and that the tick has something to
\* do only for the radar task.
LEMMA TickFrame ==
  ASSUME RadarInv, TickAccess, UNCHANGED echoVars
  PROVE  /\ UNCHANGED <<current_priority, lock, owner, count, pc, current_tcb, kernel_running, scan_k, best>>
         /\ UNCHANGED <<step, echoVars>> /\ tick_i \in Tasks /\ tick_i' \in -1 .. NTasks - 1
         /\ pendsv' \in BOOLEAN /\ (pendsv => pendsv') /\ (pendsv' \/ tick_i' # -1)
         /\ tick_i # RadarTask => LoadNoDeadline
         /\ state' = state \/ state' = [state EXCEPT ![RadarTask] = "READY"]
<1>0. RadarTypes /\ OnlyRadarCalls /\ TickInv
  BY DEF RadarInv
<1>1. tick_i \in Tasks /\ (tick_at # "load" => tick_i = RadarTask)
  BY <1>0 DEF TickInv, TickAccess, Iteration, LoadNoDeadline, LoadDeadline, StoreDeadline,
              CheckQueue, FindEntry, RemoveEntry, StoreResult, StoreReady
<1>2. tick_i # RadarTask => sleep_time[tick_i] = 0
  BY <1>0, <1>1 DEF OnlyRadarCalls
<1>3. tick_i # RadarTask => LoadNoDeadline
  BY <1>1, <1>2 DEF TickAccess, Iteration, LoadDeadline, StoreDeadline, CheckQueue, FindEntry,
                    RemoveEntry, StoreResult, StoreReady
<1>4. \/ IterationEnds
      \/ UNCHANGED <<current_priority, cpuVars, objVars, clientVars>>
  BY DEF TickAccess, LoadNoDeadline, LoadDeadline, StoreDeadline, CheckQueue, FindEntry,
         RemoveEntry, StoreResult, StoreReady, TickGoesOn
<1>5. UNCHANGED <<current_priority, objVars, clientVars, current_tcb, kernel_running, scan_k, best>>
  BY <1>4 DEF IterationEnds, TickAdvance, cpuVars
<1>6. /\ tick_i' \in -1 .. NTasks - 1
      /\ pendsv' \in BOOLEAN /\ (pendsv => pendsv') /\ (pendsv' \/ tick_i' # -1)
  <2>1. CASE IterationEnds
    <3>1. /\ tick_i' = IF tick_i = NTasks - 1 THEN -1 ELSE tick_i + 1
          /\ pendsv' = (pendsv \/ tick_i = NTasks - 1)
      BY <2>1 DEF IterationEnds, TickAdvance
    <3>2. tick_i' \in -1 .. NTasks - 1 /\ (tick_i' = -1 <=> tick_i = NTasks - 1)
      BY <1>1, <3>1, RadarConstants
    <3>3. pendsv' \in BOOLEAN
      BY <3>1
    <3> QED BY <3>1, <3>2, <3>3
  <2>2. CASE UNCHANGED cpuVars
    BY <1>0, <1>1, <2>2, RadarConstants DEF cpuVars, RadarTypes
  <2> QED BY <1>4, <2>1, <2>2
<1>7. state' = state \/ state' = [state EXCEPT ![RadarTask] = "READY"]
  BY <1>1 DEF TickAccess, LoadNoDeadline, LoadDeadline, StoreDeadline, CheckQueue, FindEntry,
              RemoveEntry, StoreResult, StoreReady, Iteration
<1> QED BY <1>1, <1>3, <1>5, <1>6, <1>7 DEF objVars, clientVars, echoVars, readVars

\* The parts of the invariant that an access of the tick can touch.
CallInv == RadarTypes /\ OnlyRadarCalls /\ EchoQueue /\ TickInv /\ SleepInv /\ EchoInv

\* A task without a deadline.
LEMMA LoadNoDeadlineKeeps ==
  ASSUME RadarInv, LoadNoDeadline, UNCHANGED echoVars
  PROVE  CallInv'
<1>0. RadarTypes /\ OnlyRadarCalls /\ EchoQueue /\ TickInv /\ SleepInv
  BY DEF RadarInv
<1>1. TickAccess
  BY DEF TickAccess
<1>2. /\ UNCHANGED <<state, sleep_time, wait_on, wait_result, wait_queue, wait_count, removing>>
      /\ tick_at = "load" /\ tick_at' = "load" /\ loaded' = 0
      /\ tick_i' = IF tick_i = NTasks - 1 THEN -1 ELSE tick_i + 1
  BY DEF LoadNoDeadline, Iteration, IterationEnds, TickAdvance, queueVars
<1>3. RadarTypes' /\ OnlyRadarCalls' /\ EchoQueue'
  BY <1>0, <1>1, <1>2, TickFrame DEF RadarTypes, OnlyRadarCalls, EchoQueue
<1>4. TickInv' /\ SleepInv'
  BY <1>0, <1>1, <1>2, TickFrame DEF TickInv, SleepInv
<1>5. sleep_time[RadarTask] \in Nat /\ Pending \in {0, 1} /\ Pending' \in {0, 1} /\ Pending' <= Pending
  BY <1>0, <1>1, <1>2, TickFrame, RadarConstants, SMTT(30) DEF Pending, RadarTypes
<1>6. EchoInv'
  BY <1>1, <1>2, <1>5, TickFrame, EchoStays DEF NoSound, InTime, Armed, High, Fallen, Posted
<1> QED BY <1>3, <1>4, <1>6 DEF CallInv

\* The radar task's deadline is loaded.
LEMMA LoadDeadlineKeeps ==
  ASSUME RadarInv, LoadDeadline, UNCHANGED echoVars
  PROVE  CallInv'
<1>0. RadarTypes /\ OnlyRadarCalls /\ EchoQueue /\ TickInv /\ SleepInv
  BY DEF RadarInv
<1>1. TickAccess
  BY DEF TickAccess
<1>2. tick_i = RadarTask
  BY <1>0, <1>1, TickFrame DEF LoadDeadline, OnlyRadarCalls
<1>3. /\ UNCHANGED <<state, sleep_time, wait_on, wait_result, wait_queue, wait_count, removing, tick_i>>
      /\ tick_at = "load" /\ tick_at' = "store"
      /\ loaded' = sleep_time[RadarTask] /\ sleep_time[RadarTask] \in Nat /\ sleep_time[RadarTask] > 0
  BY <1>0, <1>2, RadarConstants
     DEF LoadDeadline, Iteration, TickGoesOn, queueVars, cpuVars, RadarTypes
<1>4. RadarTypes' /\ OnlyRadarCalls' /\ EchoQueue'
  BY <1>0, <1>1, <1>3, TickFrame DEF RadarTypes, OnlyRadarCalls, EchoQueue
<1>5. TickInv' /\ SleepInv'
  BY <1>0, <1>1, <1>2, <1>3, TickFrame DEF TickInv, SleepInv
<1>6. Pending \in {0, 1} /\ Pending' = Pending
  BY <1>3 DEF Pending
<1>7. EchoInv'
  BY <1>1, <1>3, <1>6, TickFrame, EchoStays DEF NoSound, InTime, Armed, High, Fallen, Posted
<1> QED BY <1>4, <1>5, <1>7 DEF CallInv

\* The deadline is stored.  While a pulse is on its way it is more than one tick
\* ahead, so that the tick does not go on to the queue.
LEMMA StoreDeadlineKeeps ==
  ASSUME RadarInv, MaxEcho < ReadTimeout, StoreDeadline, UNCHANGED echoVars
  PROVE  CallInv'
<1>0. RadarTypes /\ OnlyRadarCalls /\ EchoQueue /\ TickInv /\ SleepInv
  BY DEF RadarInv
<1>1. TickAccess
  BY DEF TickAccess
<1>2. tick_i = RadarTask /\ RadarTask \in Tasks /\ tick_at = "store" /\ loaded \in Nat /\ loaded > 0
  BY <1>0, RadarConstants DEF StoreDeadline, Iteration, TickInv
<1>3. /\ UNCHANGED <<state, wait_on, wait_result, wait_queue, wait_count, removing>>
      /\ sleep_time' = [sleep_time EXCEPT ![RadarTask] = loaded - 1]
      /\ \/ loaded = 1 /\ tick_at' = "check" /\ loaded' = 0 /\ tick_i' = tick_i
         \/ /\ loaded > 1 /\ tick_at' = "load" /\ loaded' = 0
            /\ tick_i' = IF tick_i = NTasks - 1 THEN -1 ELSE tick_i + 1
  BY <1>2 DEF StoreDeadline, TickGoesOn, IterationEnds, TickAdvance, queueVars, cpuVars
<1>4. sleep_time' \in [Tasks -> Nat] /\ sleep_time'[RadarTask] = loaded - 1
  BY <1>0, <1>2, <1>3 DEF RadarTypes
<1>5. RadarTypes'
  BY <1>0, <1>1, <1>3, <1>4, TickFrame DEF RadarTypes
<1>6. OnlyRadarCalls' /\ EchoQueue'
  BY <1>0, <1>1, <1>2, <1>3, TickFrame DEF RadarTypes, OnlyRadarCalls, EchoQueue
<1>7. TickInv' /\ SleepInv'
  BY <1>0, <1>1, <1>2, <1>3, <1>4, TickFrame DEF TickInv, SleepInv
<1>8. Pending = 1 /\ Pending' = 0 /\ sleep_time[RadarTask] \in Nat
  BY <1>0, <1>2, <1>3, RadarConstants, SMTT(30) DEF Pending, RadarTypes
<1>9. ASSUME step = "wait", Armed \/ High \/ Fallen
      PROVE  /\ wait_on[RadarTask] = EchoReady /\ sleep_time[RadarTask] >= 2
             /\ loaded = sleep_time[RadarTask]
  <2>1. wait_on[RadarTask] = EchoReady /\ sleep_time[RadarTask] >= 2
    BY <1>8, <1>9, RadarConstants DEF Armed, High, Fallen, InTime
  <2> QED BY <1>0, <1>2, <2>1 DEF EchoQueue, SleepInv
<1>10. EchoInv'
  <2>1. step = "wait" /\ NoSound =>
           /\ state'[RadarTask] # "BLOCKED" \/ tick_at' = "ready" => wait_result'[RadarTask] = OS_TIMEOUT
           /\ state'[RadarTask] # "BLOCKED" => sleep_time'[RadarTask] = 0 /\ tick_at' = "load"
    BY <1>2, <1>3 DEF NoSound
  <2>2. step = "wait" /\ (Armed \/ High \/ Fallen) =>
           /\ wait_on'[RadarTask] = EchoReady /\ tick_at' \in {"load", "store"}
           /\ sleep_time'[RadarTask] \in Nat
           /\ sleep_time'[RadarTask] - Pending' >= sleep_time[RadarTask] - Pending
    BY <1>2, <1>3, <1>4, <1>8, <1>9
  <2>3. step = "wait" /\ Posted =>
           state'[RadarTask] # "BLOCKED" /\ wait_result'[RadarTask] = OS_SUCCESS
    BY <1>3 DEF Posted
  <2> QED BY <1>1, <2>1, <2>2, <2>3, TickFrame, EchoStays
<1> QED BY <1>5, <1>6, <1>7, <1>10 DEF CallInv

\* After the deadline: no pulse is on its way, or the radar task does not wait.
LEMMA LateTick ==
  ASSUME RadarInv, tick_at \notin {"load", "store"}, step = "wait"
  PROVE  ~(Armed \/ High \/ Fallen)
BY DEF Armed, High, Fallen, InTime

\* Is the task in a queue?
LEMMA CheckQueueKeeps ==
  ASSUME RadarInv, CheckQueue, UNCHANGED echoVars
  PROVE  CallInv'
<1>0. RadarTypes /\ OnlyRadarCalls /\ EchoQueue /\ TickInv /\ SleepInv
  BY DEF RadarInv
<1>1. TickAccess
  BY DEF TickAccess
<1>2. tick_i = RadarTask /\ RadarTask \in Tasks /\ tick_at = "check" /\ sleep_time[RadarTask] = 0
  BY <1>0, RadarConstants DEF CheckQueue, Iteration, TickInv
<1>3. /\ UNCHANGED <<state, sleep_time, wait_on, wait_result, wait_queue, wait_count, removing, loaded, tick_i>>
      /\ tick_at' = IF wait_on[RadarTask] = NULL THEN "ready" ELSE "find"
  BY <1>2 DEF CheckQueue, TickGoesOn, queueVars, cpuVars
<1>4. RadarTypes' /\ OnlyRadarCalls' /\ EchoQueue'
  BY <1>0, <1>1, <1>3, TickFrame DEF RadarTypes, OnlyRadarCalls, EchoQueue
<1>5. wait_on[RadarTask] \in {EchoReady, NULL} /\ EchoReady # NULL
  BY <1>0, RadarConstants DEF RadarTypes
<1>6. TickInv' /\ SleepInv'
  BY <1>0, <1>1, <1>2, <1>3, <1>5, TickFrame DEF TickInv, SleepInv
<1>7. step = "wait" /\ NoSound => state[RadarTask] = "BLOCKED" /\ tick_at' = "find"
  BY <1>0, <1>2, <1>3, <1>5 DEF NoSound, SleepInv
<1>8. EchoInv'
  BY <1>1, <1>2, <1>3, <1>7, LateTick, TickFrame, EchoStays DEF Posted
<1> QED BY <1>4, <1>6, <1>8 DEF CallInv

\* The entry is found: it is the only one.
LEMMA FindEntryKeeps ==
  ASSUME RadarInv, FindEntry, UNCHANGED echoVars
  PROVE  CallInv'
<1>0. RadarTypes /\ OnlyRadarCalls /\ EchoQueue /\ TickInv /\ SleepInv
  BY DEF RadarInv
<1>1. TickAccess
  BY DEF TickAccess
<1>2. /\ tick_i = RadarTask /\ RadarTask \in Tasks /\ tick_at = "find" /\ sleep_time[RadarTask] = 0
      /\ wait_on[RadarTask] = EchoReady /\ EchoReady # NULL
  BY <1>0, RadarConstants DEF FindEntry, Iteration, TickInv
<1>3. /\ wait_count[EchoReady] = 1 /\ wait_queue[EchoReady][0] = RadarTask
      /\ state[RadarTask] = "BLOCKED" /\ step = "wait"
  BY <1>0, <1>2 DEF EchoQueue
<1>4. 0 \in 0 .. wait_count[EchoReady] - 1
  BY <1>3
<1>5. /\ UNCHANGED <<state, sleep_time, wait_on, wait_result, wait_queue, wait_count, tick_i>>
      /\ tick_at' = "remove" /\ removing' = EchoReady /\ loaded' = 1
  BY <1>2, <1>3, <1>4 DEF FindEntry, TickGoesOn, queueVars, cpuVars
<1>6. RadarTypes' /\ OnlyRadarCalls' /\ EchoQueue'
  BY <1>0, <1>1, <1>5, TickFrame DEF RadarTypes, OnlyRadarCalls, EchoQueue
<1>7. TickInv' /\ SleepInv'
  BY <1>0, <1>1, <1>2, <1>3, <1>5, TickFrame DEF TickInv, SleepInv
<1>8. EchoInv'
  BY <1>1, <1>2, <1>3, <1>5, LateTick, TickFrame, EchoStays DEF Posted, NoSound
<1> QED BY <1>6, <1>7, <1>8 DEF CallInv

\* The entry goes.
LEMMA RemoveEntryKeeps ==
  ASSUME RadarInv, RemoveEntry, UNCHANGED echoVars
  PROVE  CallInv'
<1>0. RadarTypes /\ OnlyRadarCalls /\ EchoQueue /\ TickInv /\ SleepInv
  BY DEF RadarInv
<1>1. TickAccess
  BY DEF TickAccess
<1>2. /\ tick_i = RadarTask /\ RadarTask \in Tasks /\ tick_at = "remove" /\ sleep_time[RadarTask] = 0
      /\ wait_on[RadarTask] = EchoReady /\ EchoReady # NULL /\ removing = EchoReady /\ loaded = 1
  BY <1>0, RadarConstants DEF RemoveEntry, Iteration, TickInv
<1>3. wait_count[EchoReady] = 1 /\ state[RadarTask] = "BLOCKED" /\ step = "wait"
  BY <1>0, <1>2 DEF EchoQueue
<1>4. /\ UNCHANGED <<state, sleep_time, wait_result, tick_i>>
      /\ tick_at' = "result" /\ removing' = NULL /\ loaded' = 0
      /\ wait_on' = [wait_on EXCEPT ![RadarTask] = NULL]
      /\ wait_count' = [wait_count EXCEPT ![EchoReady] = 0]
      /\ wait_queue' = [wait_queue EXCEPT ![EchoReady] = Without(wait_queue[EchoReady], 1, RadarTask)]
  <2>1. PICK n \in {loaded, wait_count[removing]} :
             wait_count' = [wait_count EXCEPT ![removing] = (n - 1) % 256]
    BY DEF RemoveEntry
  <2>2. n = 1 /\ (1 - 1) % 256 = 0
    BY <1>2, <1>3
  <2>3. wait_count' = [wait_count EXCEPT ![EchoReady] = 0]
    BY <1>2, <2>1, <2>2
  <2> QED BY <1>2, <2>3 DEF RemoveEntry, TickGoesOn, cpuVars
<1>5. wait_queue' \in [Objs -> [Slots -> Tasks \cup {NULL}]]
  <2>1. wait_queue[EchoReady] \in [Slots -> Tasks \cup {NULL}]
    BY <1>0, RadarConstants DEF RadarTypes
  <2>2. Without(wait_queue[EchoReady], 1, RadarTask) \in [Slots -> Tasks \cup {NULL}]
    <3>1. \A j \in Slots : j + 1 >= 1 /\ ~(j + 1 < 1)
      BY RadarConstants DEF Slots
    <3> QED BY <2>1, <3>1 DEF Without
  <2> QED BY <1>0, <1>4, <2>2 DEF RadarTypes
<1>6. RadarTypes'
  <2>1. wait_on' \in [Tasks -> {EchoReady, NULL}] /\ wait_count' \in [Objs -> Nat]
    BY <1>0, <1>4 DEF RadarTypes
  <2> QED BY <1>0, <1>1, <1>4, <1>5, <2>1, TickFrame DEF RadarTypes
<1>7. wait_on'[RadarTask] = NULL /\ wait_count'[EchoReady] = 0
  BY <1>0, <1>2, <1>4, RadarConstants DEF RadarTypes
<1>8. OnlyRadarCalls' /\ EchoQueue'
  BY <1>0, <1>1, <1>2, <1>4, <1>7, TickFrame DEF RadarTypes, OnlyRadarCalls, EchoQueue
<1>9. TickInv' /\ SleepInv'
  BY <1>0, <1>1, <1>2, <1>3, <1>4, <1>7, TickFrame DEF TickInv, SleepInv
<1>10. EchoInv'
  BY <1>1, <1>2, <1>3, <1>4, LateTick, TickFrame, EchoStays DEF Posted, NoSound
<1> QED BY <1>6, <1>8, <1>9, <1>10 DEF CallInv

\* The radar task is told that its wait is over.
LEMMA StoreResultKeeps ==
  ASSUME RadarInv, StoreResult, UNCHANGED echoVars
  PROVE  CallInv'
<1>0. RadarTypes /\ OnlyRadarCalls /\ EchoQueue /\ TickInv /\ SleepInv
  BY DEF RadarInv
<1>1. TickAccess
  BY DEF TickAccess
<1>2. /\ tick_i = RadarTask /\ RadarTask \in Tasks /\ tick_at = "result" /\ sleep_time[RadarTask] = 0
      /\ wait_on[RadarTask] = NULL /\ state[RadarTask] = "BLOCKED" /\ step = "wait"
  BY <1>0, RadarConstants DEF StoreResult, Iteration, TickInv
<1>3. /\ UNCHANGED <<state, sleep_time, wait_on, wait_queue, wait_count, removing, loaded, tick_i>>
      /\ tick_at' = "ready"
      /\ wait_result' = [wait_result EXCEPT ![RadarTask] = OS_TIMEOUT]
  BY <1>2 DEF StoreResult, TickGoesOn, queueVars, cpuVars
<1>4. wait_result' \in [Tasks -> {OS_SUCCESS, OS_TIMEOUT}] /\ wait_result'[RadarTask] = OS_TIMEOUT
  BY <1>0, <1>2, <1>3 DEF RadarTypes
<1>5. RadarTypes' /\ OnlyRadarCalls' /\ EchoQueue'
  BY <1>0, <1>1, <1>3, <1>4, TickFrame DEF RadarTypes, OnlyRadarCalls, EchoQueue
<1>6. TickInv' /\ SleepInv'
  BY <1>0, <1>1, <1>2, <1>3, TickFrame DEF TickInv, SleepInv
<1>7. EchoInv'
  BY <1>1, <1>2, <1>3, <1>4, LateTick, TickFrame, EchoStays DEF Posted, NoSound
<1> QED BY <1>5, <1>6, <1>7 DEF CallInv

\* The radar task is ready.
LEMMA StoreReadyKeeps ==
  ASSUME RadarInv, StoreReady, UNCHANGED echoVars
  PROVE  CallInv'
<1>0. RadarTypes /\ OnlyRadarCalls /\ EchoQueue /\ TickInv /\ SleepInv
  BY DEF RadarInv
<1>1. TickAccess
  BY DEF TickAccess
<1>2. /\ tick_i = RadarTask /\ RadarTask \in Tasks /\ tick_at = "ready" /\ sleep_time[RadarTask] = 0
      /\ wait_on[RadarTask] = NULL /\ EchoReady # NULL
  BY <1>0, RadarConstants DEF StoreReady, Iteration, TickInv
<1>3. /\ UNCHANGED <<sleep_time, wait_on, wait_result, wait_queue, wait_count, removing>>
      /\ tick_at' = "load" /\ loaded' = 0
      /\ state' = [state EXCEPT ![RadarTask] = "READY"]
  BY <1>2 DEF StoreReady, IterationEnds, queueVars
<1>4. /\ state' \in [Tasks -> {"READY", "RUNNING", "BLOCKED"}] /\ state'[RadarTask] = "READY"
      /\ \A t \in Tasks \ {RadarTask} : state'[t] = state[t]
  BY <1>0, <1>2, <1>3 DEF RadarTypes
<1>5. RadarTypes'
  BY <1>0, <1>1, <1>3, <1>4, TickFrame DEF RadarTypes
<1>6. OnlyRadarCalls' /\ EchoQueue'
  BY <1>0, <1>1, <1>2, <1>3, <1>4, TickFrame DEF OnlyRadarCalls, EchoQueue
<1>7. TickInv' /\ SleepInv'
  BY <1>0, <1>1, <1>2, <1>3, <1>4, TickFrame DEF TickInv, SleepInv
<1>8. EchoInv'
  BY <1>1, <1>2, <1>3, <1>4, LateTick, TickFrame, EchoStays DEF Posted, NoSound
<1> QED BY <1>5, <1>6, <1>7, <1>8 DEF CallInv

\* Every access of the tick.
LEMMA TickKeeps ==
  ASSUME RadarInv, MaxEcho < ReadTimeout, TickAccess, UNCHANGED echoVars
  PROVE  RadarInv'
<1>1. CallInv'
  BY LoadNoDeadlineKeeps, LoadDeadlineKeeps, StoreDeadlineKeeps, CheckQueueKeeps, FindEntryKeeps,
     RemoveEntryKeeps, StoreResultKeeps, StoreReadyKeeps DEF TickAccess
<1>2. ScanInv' /\ Executes'
  BY TickFrame, ScanStays
<1> QED BY <1>1, <1>2 DEF CallInv, RadarInv

-----------------------------------------------------------------------------
(* radar_task and ultrasonic_read_cm.                                      *)

\* A radar task that executes is in no queue, and no tick is at work.
LEMMA RadarExecutes ==
  ASSUME RadarInv, Thread(RadarTask), pc[RadarTask] # "yield"
  PROVE  /\ current_tcb = RadarTask /\ ~pendsv /\ scan_k = -1 /\ best = NULL
         /\ tick_i = -1 /\ tick_at = "load" /\ Pending = 0
         /\ state[RadarTask] # "BLOCKED" /\ wait_on[RadarTask] = NULL /\ wait_count[EchoReady] = 0
<1>1. /\ current_tcb = RadarTask /\ ~pendsv /\ scan_k = -1 /\ tick_i = -1
      /\ state[RadarTask] # "BLOCKED" /\ best = NULL
  BY DEF Thread, RadarInv, Executes, ScanInv
<1>2. tick_at = "load" /\ Pending = 0
  BY <1>1, RadarConstants DEF RadarInv, TickInv, Pending
<1>3. wait_on[RadarTask] = NULL /\ wait_count[EchoReady] = 0
  BY <1>1, RadarConstants DEF RadarInv, EchoQueue, RadarTypes
<1> QED BY <1>1, <1>2, <1>3

\* A step of the radar task that does not block.
LEMMA ReadFrame ==
  ASSUME RadarInv, Thread(RadarTask), pc[RadarTask] # "yield",
         UNCHANGED <<tcbVars, cpuVars, lock, owner, queueVars, tickVars>>,
         count' \in [Sems -> Nat], pc' \in [Tasks -> {"run", "yield", "resume"}],
         step' \in {"out", "trigger", "acquire"} => step \in {"out", "trigger", "acquire"},
         EchoInv'
  PROVE  RadarInv'
<1>0. RadarTypes /\ OnlyRadarCalls /\ EchoQueue /\ ScanInv /\ Executes /\ TickInv /\ SleepInv
  BY DEF RadarInv
<1>1. /\ UNCHANGED <<state, current_priority, sleep_time, wait_on, wait_result, wait_queue, wait_count>>
      /\ UNCHANGED <<current_tcb, kernel_running, pendsv, scan_k, best, tick_i>>
      /\ UNCHANGED <<tick_at, loaded, removing>>
  BY DEF tcbVars, cpuVars, queueVars, tickVars
<1>2. RadarTypes' /\ OnlyRadarCalls'
  BY <1>0, <1>1 DEF RadarTypes, OnlyRadarCalls
<1>3. EchoQueue' /\ TickInv' /\ Executes'
  BY <1>0, <1>1, RadarExecutes, RadarConstants DEF EchoQueue, TickInv, Executes
<1>4. ScanInv'
  BY <1>1, RadarExecutes DEF ScanInv
<1>5. SleepInv'
  BY <1>0, <1>1, RadarExecutes DEF SleepInv
<1> QED BY <1>2, <1>3, <1>4, <1>5 DEF RadarInv

\* The two halves of ultrasonic_trigger.
LEMMA TriggerKeeps ==
  ASSUME RadarInv, TriggerReset \/ TriggerPulse, UNCHANGED tickVars
  PROVE  RadarInv'
<1>0. EchoInv /\ RadarTypes
  BY DEF RadarInv
<1>1. Thread(RadarTask) /\ pc[RadarTask] # "yield" /\ step \in {"out", "trigger"} /\ UNCHANGED vars
  BY DEF TriggerReset, TriggerPulse, App
<1>2. /\ UNCHANGED <<tcbVars, cpuVars, lock, owner, queueVars, count, pc>>
      /\ count \in [Sems -> Nat] /\ pc \in [Tasks -> {"run", "yield", "resume"}]
  BY <1>0, <1>1 DEF vars, objVars, clientVars, RadarTypes
<1>3. CASE TriggerReset
  <2>1. EchoInv'
    BY <1>0, <1>2, <1>3 DEF EchoInv, TriggerReset, Silent, timerVars, sensorVars
  <2> QED BY <1>1, <1>2, <2>1, ReadFrame
<1>4. CASE TriggerPulse
  <2>1. /\ step = "trigger" /\ step' = "acquire" /\ Silent /\ answer = NULL /\ count[EchoReady] = 0
        /\ UNCHANGED <<waiting_for_rising, cc2if, cnt, answer, count, seen_end, seen_start>>
        /\ seen_end = NULL /\ seen_start = NULL
    BY <1>0, <1>2, <1>4 DEF EchoInv, TriggerPulse, driverVars, timerVars
  <2>2. \/ sensor' = "armed" /\ age' = 0 /\ fresh' = TRUE
        \/ UNCHANGED <<sensor, age, fresh>>
    BY <1>4 DEF TriggerPulse
  <2>3. Armed' \/ NoSound'
    BY <2>1, <2>2, RadarConstants DEF Armed, NoSound, Silent, InTime
  <2>4. EchoInv'
    BY <1>0, <2>1, <2>2, <2>3 DEF EchoInv
  <2> QED BY <1>1, <1>2, <2>1, <2>4, ReadFrame
<1> QED BY <1>3, <1>4

\* The token is there.
LEMMA EchoTakeKeeps ==
  ASSUME RadarInv, EchoTake, UNCHANGED tickVars
  PROVE  RadarInv'
<1>0. EchoInv /\ RadarTypes
  BY DEF RadarInv
<1>1. /\ Thread(RadarTask) /\ pc[RadarTask] # "yield" /\ step = "acquire" /\ step' = "read"
      /\ count[EchoReady] > 0 /\ count' = [count EXCEPT ![EchoReady] = @ - 1]
  BY DEF EchoTake, SemTake, App
<1>2. /\ UNCHANGED <<tcbVars, cpuVars, lock, owner, queueVars, pc>>
      /\ pc \in [Tasks -> {"run", "yield", "resume"}]
      /\ UNCHANGED <<waiting_for_rising, time_start, time_end, distance, seen_end, seen_start>>
      /\ UNCHANGED <<cnt, cc2if, sensor, fresh, answer>>
  BY <1>0 DEF EchoTake, SemTake, clientVars, RadarTypes, driverVars, timerVars, sensorVars, ghostVars
<1>3. Posted
  BY <1>0, <1>1 DEF EchoInv, NoSound, Armed, High, Fallen
<1>4. count' \in [Sems -> Nat] /\ count'[EchoReady] = 0
  BY <1>0, <1>1, <1>3, RadarConstants DEF Posted, RadarTypes
<1>5. Answered'
  BY <1>2, <1>3 DEF Posted, Answered, Silent, Spans
<1>6. EchoInv'
  BY <1>0, <1>1, <1>2, <1>4, <1>5 DEF EchoInv
<1> QED BY <1>1, <1>2, <1>4, <1>6, ReadFrame

\* The wait is over.
LEMMA EchoWokenKeeps ==
  ASSUME RadarInv, EchoWoken, UNCHANGED tickVars
  PROVE  RadarInv'
<1>0. EchoInv /\ RadarTypes
  BY DEF RadarInv
<1>1. /\ Thread(RadarTask) /\ pc[RadarTask] # "yield" /\ step = "wait"
      /\ pc' = [pc EXCEPT ![RadarTask] = "run"] /\ UNCHANGED count
      /\ UNCHANGED <<tcbVars, cpuVars, lock, owner, queueVars>>
  BY DEF EchoWoken, Return, objVars
<1>2. /\ UNCHANGED <<waiting_for_rising, time_start, time_end, seen_end, seen_start>>
      /\ UNCHANGED <<cnt, cc2if, sensor, fresh, answer>>
  BY DEF EchoWoken, timerVars, sensorVars, ghostVars
<1>3. /\ wait_result[RadarTask] = OS_SUCCESS => step' = "read"
      /\ wait_result[RadarTask] # OS_SUCCESS => step' = "done" /\ distance' = ULTRASONIC_NO_ECHO
  BY DEF EchoWoken
<1>4. pc' \in [Tasks -> {"run", "yield", "resume"}] /\ count' \in [Sems -> Nat]
  BY <1>0, <1>1 DEF RadarTypes
<1>5. NoSound \/ Posted
  BY <1>0, <1>1, RadarExecutes, RadarConstants DEF EchoInv, Armed, High, Fallen, InTime
<1>6. EchoInv'
  <2>1. CASE NoSound
    <3>1. step' = "done" /\ distance' = ULTRASONIC_NO_ECHO
      BY <1>1, <1>3, <2>1, RadarExecutes DEF NoSound, OS_SUCCESS, OS_TIMEOUT
    <3>2. Silent' /\ answer' = NULL
      BY <1>2, <2>1 DEF NoSound, Silent
    <3> QED BY <1>0, <1>1, <1>2, <2>1, <3>1, <3>2 DEF EchoInv, NoSound
  <2>2. CASE Posted
    <3>1. step' = "read" /\ count[EchoReady] = 0
      BY <1>1, <1>3, <2>2 DEF Posted
    <3>2. Answered'
      BY <1>2, <2>2 DEF Posted, Answered, Silent, Spans
    <3> QED BY <1>0, <1>1, <1>2, <3>1, <3>2 DEF EchoInv
  <2> QED BY <1>5, <2>1, <2>2
<1>7. step' \notin {"out", "trigger", "acquire"}
  BY <1>3
<1> QED BY <1>1, <1>4, <1>6, <1>7, ReadFrame

\* The two loads.
LEMMA LoadsKeep ==
  ASSUME RadarInv, LoadEnd \/ LoadStart, UNCHANGED tickVars
  PROVE  RadarInv'
<1>0. EchoInv /\ RadarTypes
  BY DEF RadarInv
<1>1. /\ Thread(RadarTask) /\ pc[RadarTask] # "yield" /\ step = "read" /\ step' = "read"
      /\ UNCHANGED vars
      /\ \/ seen_end' = time_end /\ UNCHANGED seen_start
         \/ seen_start' = time_start /\ UNCHANGED seen_end
  BY DEF LoadEnd, LoadStart, App
<1>2. /\ UNCHANGED <<tcbVars, cpuVars, lock, owner, queueVars, count, pc>>
      /\ count \in [Sems -> Nat] /\ pc \in [Tasks -> {"run", "yield", "resume"}]
      /\ UNCHANGED <<waiting_for_rising, time_start, time_end, cnt, cc2if, sensor, fresh, answer>>
  BY <1>0, <1>1 DEF LoadEnd, LoadStart, vars, objVars, clientVars, RadarTypes,
                    driverVars, timerVars, sensorVars, ghostVars
<1>3. Answered'
  BY <1>0, <1>1, <1>2 DEF EchoInv, Answered, Silent, Spans
<1>4. EchoInv'
  BY <1>0, <1>1, <1>2, <1>3 DEF EchoInv
<1> QED BY <1>1, <1>2, <1>4, ReadFrame

\* The subtraction gives the length of the pulse, also across a wrap of the
\* counter, and the quotient is not ULTRASONIC_NO_ECHO.
LEMMA ElapsedIsSpan ==
  ASSUME NEW from, NEW to, NEW n, Spans(from, to, n)
  PROVE  /\ Elapsed(from, to) = n
         /\ n \div US_PER_CM # ULTRASONIC_NO_ECHO
<1>1. /\ CounterSize \in Nat /\ CounterSize > 2 /\ US_PER_CM \in Nat /\ US_PER_CM >= 2
      /\ from \in Int /\ to \in Int /\ n \in Nat /\ n <= CounterSize - 1
      /\ to - from = n \/ to - from = n - CounterSize
  BY RadarConstants DEF Spans
<1>2. n % CounterSize = n /\ (n - CounterSize) % CounterSize = n
  BY <1>1
<1>3. Elapsed(from, to) = n
  BY <1>1, <1>2 DEF Elapsed
<1>4. n \div US_PER_CM \in Nat /\ US_PER_CM * (n \div US_PER_CM) <= n
  BY <1>1
<1>5. n \div US_PER_CM # CounterSize - 1
  <2> DEFINE d == n \div US_PER_CM
  <2>1. d \in Nat /\ US_PER_CM * d <= n
    BY <1>4
  <2> HIDE DEF d
  <2>2. 2 * d <= US_PER_CM * d
    BY <1>1, <2>1
  <2>3. US_PER_CM * d \in Nat
    BY <1>1, <2>1
  <2>4. d # CounterSize - 1
    BY <1>1, <2>1, <2>2, <2>3
  <2> QED BY <2>4 DEF d
<1> QED BY <1>3, <1>5 DEF ULTRASONIC_NO_ECHO

\* ultrasonic_read_cm returns a distance.
LEMMA ReturnDistanceKeeps ==
  ASSUME RadarInv, ReturnDistance, UNCHANGED tickVars
  PROVE  RadarInv'
<1>0. EchoInv /\ RadarTypes
  BY DEF RadarInv
<1>1. /\ Thread(RadarTask) /\ pc[RadarTask] # "yield" /\ step = "read" /\ step' = "done"
      /\ UNCHANGED vars /\ seen_end' = NULL /\ seen_start' = NULL
      /\ distance' = Elapsed(seen_start, seen_end) \div US_PER_CM
      /\ seen_end # NULL /\ seen_start # NULL
  BY DEF ReturnDistance, App
<1>2. /\ UNCHANGED <<tcbVars, cpuVars, lock, owner, queueVars, count, pc>>
      /\ count \in [Sems -> Nat] /\ pc \in [Tasks -> {"run", "yield", "resume"}]
      /\ UNCHANGED <<waiting_for_rising, cnt, cc2if, sensor, fresh, answer>>
  BY <1>0, <1>1 DEF ReturnDistance, vars, objVars, clientVars, RadarTypes,
                    timerVars, sensorVars, ghostVars
<1>3. /\ Answered /\ count[EchoReady] = 0
      /\ seen_end = time_end /\ seen_start = time_start
  BY <1>0, <1>1 DEF EchoInv
<1>4. /\ answer \in Nat /\ distance' = answer \div US_PER_CM
      /\ distance' # ULTRASONIC_NO_ECHO
  BY <1>1, <1>3, ElapsedIsSpan DEF Answered
<1>5. Silent'
  BY <1>2, <1>3 DEF Answered, Silent
<1>6. ULTRASONIC_NO_ECHO' = ULTRASONIC_NO_ECHO
  BY DEF ULTRASONIC_NO_ECHO
<1>7. EchoInv'
  BY <1>0, <1>1, <1>2, <1>3, <1>4, <1>5, <1>6 DEF EchoInv
<1> QED BY <1>1, <1>2, <1>7, ReadFrame

\* The radar task blocks in a step of its own: what the kernel is left with.
LEMMA BlocksFrame ==
  ASSUME RadarInv, App(RadarTask), NEW d \in Nat \ {0}, NEW o \in {EchoReady, NULL},
         state' = [state EXCEPT ![RadarTask] = "BLOCKED"],
         sleep_time' = [sleep_time EXCEPT ![RadarTask] = d],
         wait_on' = [wait_on EXCEPT ![RadarTask] = o],
         pc' = [pc EXCEPT ![RadarTask] = "yield"],
         UNCHANGED <<current_priority, cpuVars, objVars, tickVars>>
  PROVE  /\ state' \in [Tasks -> {"READY", "RUNNING", "BLOCKED"}] /\ sleep_time' \in [Tasks -> Nat]
         /\ wait_on' \in [Tasks -> {EchoReady, NULL}] /\ pc' \in [Tasks -> {"run", "yield", "resume"}]
         /\ state'[RadarTask] = "BLOCKED" /\ sleep_time'[RadarTask] = d /\ wait_on'[RadarTask] = o
         /\ UNCHANGED <<current_tcb, kernel_running, pendsv, scan_k, best, tick_i, tick_at, loaded, removing>>
         /\ UNCHANGED <<lock, owner, count>>
         /\ \A t \in Tasks \ {RadarTask} :
              state'[t] = state[t] /\ sleep_time'[t] = sleep_time[t] /\ wait_on'[t] = wait_on[t]
         /\ ScanInv' /\ Executes' /\ TickInv' /\ tick_at = "load" /\ Pending' = 0
         /\ state[RadarTask] # "BLOCKED" /\ wait_on[RadarTask] = NULL /\ wait_count[EchoReady] = 0
<1>0. RadarTypes /\ TickInv /\ RadarTask \in Tasks
  BY RadarConstants DEF RadarInv
<1>1. Thread(RadarTask) /\ pc[RadarTask] # "yield"
  BY DEF App
<1>2. /\ UNCHANGED <<current_tcb, kernel_running, pendsv, scan_k, best, tick_i, tick_at, loaded, removing>>
      /\ UNCHANGED <<lock, owner, count>>
  BY DEF cpuVars, objVars, tickVars
<1>3. /\ state' \in [Tasks -> {"READY", "RUNNING", "BLOCKED"}] /\ sleep_time' \in [Tasks -> Nat]
      /\ wait_on' \in [Tasks -> {EchoReady, NULL}] /\ pc' \in [Tasks -> {"run", "yield", "resume"}]
      /\ state'[RadarTask] = "BLOCKED" /\ sleep_time'[RadarTask] = d /\ wait_on'[RadarTask] = o
      /\ pc'[RadarTask] = "yield"
  BY <1>0 DEF RadarTypes
<1>4. \A t \in Tasks \ {RadarTask} :
         state'[t] = state[t] /\ sleep_time'[t] = sleep_time[t] /\ wait_on'[t] = wait_on[t]
  BY <1>0 DEF RadarTypes
<1>5. ScanInv' /\ Executes'
  BY <1>1, <1>2, <1>3, RadarExecutes DEF ScanInv, Executes
<1>6. TickInv'
  BY <1>0, <1>1, <1>2, RadarExecutes DEF TickInv
<1>7. Pending' = 0
  BY <1>1, <1>2, RadarExecutes, RadarConstants DEF Pending
<1> QED BY <1>1, <1>2, <1>3, <1>4, <1>5, <1>6, <1>7, RadarExecutes

\* No token: the wait begins, with the whole timeout ahead.
LEMMA EchoBlockKeeps ==
  ASSUME RadarInv, MaxEcho < ReadTimeout, ReadTimeout # WAIT_FOREVER, EchoBlock, UNCHANGED tickVars
  PROVE  RadarInv'
<1>0. RadarTypes /\ OnlyRadarCalls /\ EchoQueue /\ SleepInv /\ EchoInv
  BY DEF RadarInv
<1>1. /\ App(RadarTask) /\ step = "acquire" /\ step' = "wait" /\ count[EchoReady] = 0
      /\ state' = [state EXCEPT ![RadarTask] = "BLOCKED"]
      /\ sleep_time' = [sleep_time EXCEPT ![RadarTask] = ReadTimeout]
      /\ wait_on' = [wait_on EXCEPT ![RadarTask] = EchoReady]
      /\ wait_result' = [wait_result EXCEPT ![RadarTask] = OS_SUCCESS]
      /\ pc' = [pc EXCEPT ![RadarTask] = "yield"]
      /\ wait_queue' = [wait_queue EXCEPT ![EchoReady] = [@ EXCEPT ![wait_count[EchoReady]] = RadarTask]]
      /\ wait_count' = [wait_count EXCEPT ![EchoReady] = @ + 1]
      /\ UNCHANGED <<current_priority, cpuVars, objVars>>
  BY DEF EchoBlock, SemBlock, BlockCurrent
<1>2. /\ UNCHANGED <<waiting_for_rising, time_start, time_end, distance, seen_end, seen_start>>
      /\ UNCHANGED <<cnt, cc2if, ccr2, sensor, age, high, fresh, answer>>
  BY DEF EchoBlock, driverVars, timerVars, sensorVars, ghostVars
<1>3. ReadTimeout \in Nat \ {0} /\ EchoReady \in {EchoReady, NULL} /\ EchoReady # NULL
  BY RadarConstants
<1>4. /\ state' \in [Tasks -> {"READY", "RUNNING", "BLOCKED"}] /\ sleep_time' \in [Tasks -> Nat]
      /\ wait_on' \in [Tasks -> {EchoReady, NULL}] /\ pc' \in [Tasks -> {"run", "yield", "resume"}]
      /\ state'[RadarTask] = "BLOCKED" /\ sleep_time'[RadarTask] = ReadTimeout
      /\ wait_on'[RadarTask] = EchoReady
      /\ UNCHANGED <<current_tcb, kernel_running, pendsv, scan_k, best, tick_i, tick_at, loaded, removing>>
      /\ UNCHANGED <<lock, owner, count>>
      /\ \A t \in Tasks \ {RadarTask} :
           state'[t] = state[t] /\ sleep_time'[t] = sleep_time[t] /\ wait_on'[t] = wait_on[t]
      /\ ScanInv' /\ Executes' /\ TickInv' /\ tick_at = "load" /\ Pending' = 0
      /\ wait_count[EchoReady] = 0
  BY <1>1, <1>3, BlocksFrame
<1>5. /\ wait_count' \in [Objs -> Nat] /\ wait_count'[EchoReady] = 1
      /\ \A o \in Objs \ {EchoReady} : wait_count'[o] = wait_count[o]
      /\ wait_queue' \in [Objs -> [Slots -> Tasks \cup {NULL}]] /\ wait_queue'[EchoReady][0] = RadarTask
      /\ wait_result' \in [Tasks -> {OS_SUCCESS, OS_TIMEOUT}]
  <2>1. wait_count' \in [Objs -> Nat] /\ wait_count'[EchoReady] = 1
        /\ \A o \in Objs \ {EchoReady} : wait_count'[o] = wait_count[o]
    BY <1>0, <1>1, <1>4, RadarConstants DEF RadarTypes
  <2>2. [wait_queue[EchoReady] EXCEPT ![0] = RadarTask] \in [Slots -> Tasks \cup {NULL}]
    BY <1>0, RadarConstants DEF RadarTypes
  <2>3. wait_queue' = [wait_queue EXCEPT ![EchoReady] = [wait_queue[EchoReady] EXCEPT ![0] = RadarTask]]
    BY <1>1, <1>4
  <2>4. wait_queue' \in [Objs -> [Slots -> Tasks \cup {NULL}]]
        /\ wait_queue'[EchoReady] = [wait_queue[EchoReady] EXCEPT ![0] = RadarTask]
    BY <1>0, <2>2, <2>3, RadarConstants DEF RadarTypes
  <2>5. wait_queue'[EchoReady][0] = RadarTask
    BY <1>0, <2>4, RadarConstants DEF RadarTypes
  <2>6. wait_result' \in [Tasks -> {OS_SUCCESS, OS_TIMEOUT}]
    BY <1>0, <1>1 DEF RadarTypes
  <2> QED BY <2>1, <2>4, <2>5, <2>6
<1>6. RadarTypes' /\ OnlyRadarCalls' /\ EchoQueue'
  BY <1>0, <1>1, <1>4, <1>5 DEF RadarTypes, OnlyRadarCalls, EchoQueue
<1>7. SleepInv'
  BY <1>1, <1>3, <1>4 DEF SleepInv
<1>8. \A n \in Int : n <= ReadTimeout => InTime(n)'
  BY <1>3, <1>4 DEF InTime
<1>9. NoSound \/ Armed \/ High \/ Fallen
  BY <1>0, <1>1 DEF EchoInv, Posted
<1>10. (NoSound \/ Armed \/ High \/ Fallen)'
  <2>1. NoSound => NoSound'
    BY <1>1, <1>2, <1>4 DEF NoSound, Silent
  <2>2. age \in 0 .. MaxEcho => InTime(ReadTimeout - age)'
    BY <1>2, <1>8, <1>3, RadarConstants
  <2>3. Armed => Armed'
    BY <1>2, <1>4, <2>2 DEF Armed
  <2>4. High => High'
    BY <1>2, <1>4, <2>2 DEF High, Spans
  <2>5. Fallen => Fallen'
    <3>1. InTime(1)'
      BY <1>3, <1>8
    <3> QED BY <1>2, <1>4, <3>1 DEF Fallen, Spans
  <2> QED BY <1>9, <2>1, <2>3, <2>4, <2>5
<1>11. EchoInv'
  BY <1>0, <1>1, <1>2, <1>10 DEF EchoInv
<1> QED BY <1>4, <1>6, <1>7, <1>11 DEF RadarInv

\* The radar task rests.
LEMMA RestKeeps ==
  ASSUME RadarInv, Rest, UNCHANGED tickVars
  PROVE  RadarInv'
<1>0. RadarTypes /\ OnlyRadarCalls /\ EchoQueue /\ SleepInv /\ EchoInv
  BY DEF RadarInv
<1>1. /\ App(RadarTask) /\ step = "done" /\ step' = "out"
      /\ state' = [state EXCEPT ![RadarTask] = "BLOCKED"]
      /\ sleep_time' = [sleep_time EXCEPT ![RadarTask] = RadarPeriod]
      /\ wait_on' = [wait_on EXCEPT ![RadarTask] = NULL]
      /\ pc' = [pc EXCEPT ![RadarTask] = "yield"]
      /\ UNCHANGED <<current_priority, wait_result, cpuVars, objVars, queueVars>>
  BY DEF Rest, Delay
<1>2. /\ UNCHANGED <<waiting_for_rising, time_start, time_end, distance, seen_end, seen_start>>
      /\ UNCHANGED <<cnt, cc2if, sensor, fresh, answer, wait_queue, wait_count>>
  BY <1>1 DEF Rest, driverVars, timerVars, sensorVars, ghostVars, queueVars
<1>3. RadarPeriod \in Nat \ {0} /\ NULL \in {EchoReady, NULL} /\ EchoReady # NULL
  BY RadarConstants
<1>4. /\ state' \in [Tasks -> {"READY", "RUNNING", "BLOCKED"}] /\ sleep_time' \in [Tasks -> Nat]
      /\ wait_on' \in [Tasks -> {EchoReady, NULL}] /\ pc' \in [Tasks -> {"run", "yield", "resume"}]
      /\ state'[RadarTask] = "BLOCKED" /\ sleep_time'[RadarTask] = RadarPeriod
      /\ wait_on'[RadarTask] = NULL
      /\ UNCHANGED <<current_tcb, kernel_running, pendsv, scan_k, best, tick_i, tick_at, loaded, removing>>
      /\ UNCHANGED <<lock, owner, count>>
      /\ \A t \in Tasks \ {RadarTask} :
           state'[t] = state[t] /\ sleep_time'[t] = sleep_time[t] /\ wait_on'[t] = wait_on[t]
      /\ ScanInv' /\ Executes' /\ TickInv' /\ tick_at = "load"
      /\ wait_count[EchoReady] = 0
  BY <1>1, <1>3, BlocksFrame
<1>5. RadarTypes' /\ OnlyRadarCalls' /\ EchoQueue'
  BY <1>0, <1>1, <1>2, <1>3, <1>4 DEF RadarTypes, OnlyRadarCalls, EchoQueue
<1>6. SleepInv'
  BY <1>1, <1>3, <1>4 DEF SleepInv
<1>7. EchoInv'
  BY <1>0, <1>1, <1>2, <1>4 DEF EchoInv, Silent
<1> QED BY <1>4, <1>5, <1>6, <1>7 DEF RadarInv

\* os_yield, and the return of os_delay.
LEMMA ProceedKeeps ==
  ASSUME RadarInv, Proceed, UNCHANGED tickVars
  PROVE  RadarInv'
<1>0. RadarTypes /\ OnlyRadarCalls /\ ScanInv /\ Executes
  BY DEF RadarInv
<1>1. UNCHANGED <<state, current_priority, sleep_time, wait_on, wait_result, queueVars, tick_i, lock, owner,
                  count, tickVars, echoVars, current_tcb, kernel_running, scan_k, best>>
  BY DEF Proceed, Yield, Return, tcbVars, cpuVars, objVars
<1>2. EchoQueue' /\ TickInv' /\ SleepInv' /\ EchoInv'
  BY <1>1, CallStays
<1>3. Thread(RadarTask) /\ scan_k = -1 /\ RadarTask \in Tasks /\ UNCHANGED <<wait_queue, wait_count>>
  BY <1>1, RadarConstants DEF Proceed, Yield, Return, Thread, queueVars
<1>4. ScanInv'
  BY <1>0, <1>1, <1>3 DEF ScanInv
<1>5. CASE Yield(RadarTask)
  <2>1. pendsv' = TRUE /\ pc' = [pc EXCEPT ![RadarTask] = "resume"]
    BY <1>5 DEF Yield
  <2>2. RadarTypes' /\ OnlyRadarCalls'
    BY <1>0, <1>1, <1>3, <2>1 DEF RadarTypes, OnlyRadarCalls
  <2>3. Executes'
    BY <2>1 DEF Executes
  <2> QED BY <1>2, <1>4, <2>2, <2>3 DEF RadarInv
<1>6. CASE Return(RadarTask)
  <2>1. UNCHANGED pendsv /\ pc' = [pc EXCEPT ![RadarTask] = "run"] /\ pc[RadarTask] = "resume"
    BY <1>6 DEF Return, cpuVars
  <2>2. RadarTypes' /\ OnlyRadarCalls'
    BY <1>0, <1>1, <1>3, <2>1 DEF RadarTypes, OnlyRadarCalls
  <2>3. state[RadarTask] # "BLOCKED"
    BY <1>3, <2>1, RadarExecutes
  <2>4. Executes'
    BY <1>1, <2>3 DEF Executes
  <2> QED BY <1>2, <1>4, <2>2, <2>4 DEF RadarInv
<1> QED BY <1>5, <1>6 DEF Proceed

\* Every step of the radar task.
LEMMA ReadStepKeeps ==
  ASSUME RadarInv, MaxEcho < ReadTimeout, ReadTimeout # WAIT_FOREVER, ReadStep, UNCHANGED tickVars
  PROVE  RadarInv'
BY TriggerKeeps, EchoTakeKeeps, EchoBlockKeeps, EchoWokenKeeps, LoadsKeep, ReturnDistanceKeeps,
   RestKeeps, ProceedKeeps DEF ReadStep

-----------------------------------------------------------------------------
(* The handler of TIM2, the sensor and the clock.                          *)

\* The stage of the echo, as the sensor and the capture unit show it.
LEMMA EchoStage ==
  ASSUME RadarInv
  PROVE  /\ cc2if /\ waiting_for_rising => step \in {"acquire", "wait"} /\ High
         /\ cc2if /\ ~waiting_for_rising => step \in {"acquire", "wait"} /\ Fallen
         /\ sensor = "armed" => step \in {"acquire", "wait"} /\ Armed
         /\ sensor = "high" => step \in {"acquire", "wait"} /\ High
BY DEF RadarInv, EchoInv, Silent, Answered, NoSound, Armed, High, Fallen, Posted

\* A step of the hardware that the kernel does not notice.
LEMMA HardwareFrame ==
  ASSUME RadarInv, UNCHANGED <<vars, tickVars, step>>, EchoInv'
  PROVE  RadarInv'
<1>1. /\ UNCHANGED <<state, current_priority, sleep_time, wait_on, wait_result, wait_queue, wait_count>>
      /\ UNCHANGED <<current_tcb, kernel_running, pendsv, scan_k, best, tick_i, lock, owner, count, pc>>
      /\ UNCHANGED <<tick_at, loaded, removing>>
  BY DEF vars, tcbVars, cpuVars, objVars, queueVars, clientVars, tickVars
<1>2. RadarTypes' /\ OnlyRadarCalls' /\ EchoQueue'
  BY <1>1 DEF RadarInv, RadarTypes, OnlyRadarCalls, EchoQueue
<1>3. ScanInv' /\ Executes'
  BY <1>1, ScanStays
<1>4. TickInv' /\ SleepInv'
  BY <1>1 DEF RadarInv, TickInv, SleepInv
<1> QED BY <1>2, <1>3, <1>4 DEF RadarInv

\* The deadline of a waiting radar task does not depend on the hardware.
LEMMA InTimeFrame ==
  ASSUME UNCHANGED <<vars, tickVars, step>>, NEW n, InTime(n)
  PROVE  InTime(n)'
BY DEF InTime, Pending, vars, tcbVars, cpuVars, tickVars

\* The rising edge: time_start is the count at which the echo began.
LEMMA CaptureRisingKeeps ==
  ASSUME RadarInv, CaptureRising, UNCHANGED tickVars
  PROVE  RadarInv'
<1>0. EchoInv /\ High /\ step \in {"acquire", "wait"} /\ cc2if
  BY EchoStage DEF RadarInv, CaptureRising
<1>1. /\ cc2if' = FALSE /\ time_start' = ccr2 /\ waiting_for_rising' = FALSE
      /\ UNCHANGED <<vars, tickVars, count, step, seen_end, seen_start>>
      /\ UNCHANGED <<cnt, sensor, age, high, fresh, answer>>
  BY DEF CaptureRising, readVars, sensorVars, ghostVars, vars, objVars
<1>2. InTime(ReadTimeout - age)'
  BY <1>0, <1>1, InTimeFrame DEF High
<1>3. High'
  BY <1>0, <1>1, <1>2 DEF High, Spans
<1>4. EchoInv'
  BY <1>0, <1>1, <1>3 DEF EchoInv
<1> QED BY <1>1, <1>4, HardwareFrame

\* The echo begins.
LEMMA EchoRiseKeeps ==
  ASSUME RadarInv, EchoRise, UNCHANGED tickVars
  PROVE  RadarInv'
<1>0. EchoInv /\ Armed /\ step \in {"acquire", "wait"}
  BY EchoStage DEF RadarInv, EchoRise
<1>1. /\ sensor' = "high" /\ high' = 0 /\ cc2if' = TRUE /\ ccr2' = cnt
      /\ UNCHANGED <<vars, tickVars, count, step, seen_end, seen_start>>
      /\ UNCHANGED <<waiting_for_rising, cnt, age, fresh, answer>>
  BY DEF EchoRise, readVars, driverVars, ghostVars, vars, objVars
<1>2. InTime(ReadTimeout - age)'
  BY <1>0, <1>1, InTimeFrame DEF Armed
<1>3. Spans(cnt, cnt, 0) /\ cnt \in 0 .. CounterSize - 1
  BY <1>0, RadarConstants DEF EchoInv, Spans
<1>4. High'
  BY <1>0, <1>1, <1>2, <1>3, RadarConstants DEF High, Armed, Spans
<1>5. EchoInv'
  BY <1>0, <1>1, <1>4 DEF EchoInv
<1> QED BY <1>1, <1>5, HardwareFrame

\* The echo ends, at least one tick before the deadline.
LEMMA EchoFallKeeps ==
  ASSUME RadarInv, MaxEcho < ReadTimeout, EchoFall, UNCHANGED tickVars
  PROVE  RadarInv'
<1>0. EchoInv /\ RadarTypes /\ High /\ step \in {"acquire", "wait"} /\ ~cc2if /\ ~waiting_for_rising
  BY EchoStage DEF RadarInv, EchoFall, High
<1>1. /\ sensor' = "idle" /\ cc2if' = TRUE /\ ccr2' = cnt /\ answer' = high /\ fresh' = FALSE
      /\ UNCHANGED <<vars, tickVars, count, step, seen_end, seen_start>>
      /\ UNCHANGED <<waiting_for_rising, time_start, cnt>>
  BY <1>0 DEF EchoFall, readVars, driverVars, vars, objVars, High
<1>2. InTime(1)
  <2>1. Pending \in {0, 1} /\ sleep_time[RadarTask] \in Nat
    BY <1>0, RadarConstants DEF Pending, RadarTypes
  <2> QED BY <1>0, <2>1, RadarConstants DEF High, InTime
<1>3. InTime(1)'
  BY <1>1, <1>2, InTimeFrame
<1>4. Spans(time_start, cnt, high) /\ high \in Nat
  BY <1>0, RadarConstants DEF High
<1>5. Fallen'
  BY <1>0, <1>1, <1>3, <1>4 DEF High, Fallen, Spans
<1>6. EchoInv'
  BY <1>0, <1>1, <1>5 DEF EchoInv
<1> QED BY <1>1, <1>6, HardwareFrame

\* The falling edge: the pulse is in, and the radar task has it or will find the
\* token.
LEMMA CaptureFallingKeeps ==
  ASSUME RadarInv, CaptureFalling, UNCHANGED tickVars
  PROVE  RadarInv'
<1>0. /\ RadarTypes /\ OnlyRadarCalls /\ EchoQueue /\ TickInv /\ SleepInv
      /\ EchoInv /\ Fallen /\ step \in {"acquire", "wait"}
  BY EchoStage DEF RadarInv, CaptureFalling
<1>1. /\ cc2if' = FALSE /\ time_end' = ccr2 /\ waiting_for_rising' = TRUE
      /\ UNCHANGED <<step, seen_end, seen_start, time_start, distance, cnt, sensor, fresh, answer>>
      /\ UNCHANGED <<tick_at, loaded, removing>>
  BY DEF CaptureFalling, readVars, sensorVars, ghostVars, tickVars
<1>2. Answered'
  BY <1>0, <1>1 DEF Fallen, Answered, Silent, Spans
<1>3. CASE IsrHandoff(EchoReady)
  <2>1. PICK i \in 0 .. wait_count[EchoReady] - 1 : WakeTask(wait_queue[EchoReady][i])
    BY <1>3 DEF IsrHandoff
  <2>2. wait_on[RadarTask] = EchoReady /\ wait_count[EchoReady] = 1 /\ i = 0
    BY <1>0, <2>1 DEF EchoQueue
  <2>3. wait_queue[EchoReady][0] = RadarTask /\ state[RadarTask] = "BLOCKED" /\ step = "wait"
    BY <1>0, <2>2 DEF EchoQueue
  <2>4. WakeTask(RadarTask) /\ EchoReady # NULL /\ RadarTask \in Tasks
    BY <2>1, <2>2, <2>3, RadarConstants
  <2>5. /\ wait_on' = [wait_on EXCEPT ![RadarTask] = NULL]
        /\ sleep_time' = [sleep_time EXCEPT ![RadarTask] = 0]
        /\ wait_result' = [wait_result EXCEPT ![RadarTask] = OS_SUCCESS]
        /\ state' = [state EXCEPT ![RadarTask] = "READY"]
    BY <2>4 DEF WakeTask
  <2>6. /\ wait_queue' = [wait_queue EXCEPT ![EchoReady] = Without(wait_queue[EchoReady], 1, RadarTask)]
        /\ wait_count' = [wait_count EXCEPT ![EchoReady] = 0]
    <3>1. RemoveFromQueue(RadarTask)
      BY <2>4 DEF WakeTask
    <3>2. 0 \in 0 .. wait_count[EchoReady] - 1
      BY <2>2
    <3> QED BY <2>2, <2>3, <2>4, <3>1, <3>2 DEF RemoveFromQueue
  <2>7. /\ pendsv' = TRUE
        /\ UNCHANGED <<current_priority, current_tcb, kernel_running, scan_k, best, tick_i, lock, owner, count, pc>>
    BY <1>3 DEF IsrHandoff, objVars, clientVars
  <2>8. wait_queue' \in [Objs -> [Slots -> Tasks \cup {NULL}]]
    <3>1. wait_queue[EchoReady] \in [Slots -> Tasks \cup {NULL}]
      BY <1>0, RadarConstants DEF RadarTypes
    <3>2. \A j \in Slots : ~(j + 1 < 1)
      BY RadarConstants DEF Slots
    <3>3. Without(wait_queue[EchoReady], 1, RadarTask) \in [Slots -> Tasks \cup {NULL}]
      BY <3>1, <3>2 DEF Without
    <3> QED BY <1>0, <2>6, <3>3 DEF RadarTypes
  <2>9. /\ wait_on' \in [Tasks -> {EchoReady, NULL}] /\ wait_count' \in [Objs -> Nat]
        /\ sleep_time' \in [Tasks -> Nat] /\ wait_result' \in [Tasks -> {OS_SUCCESS, OS_TIMEOUT}]
        /\ state' \in [Tasks -> {"READY", "RUNNING", "BLOCKED"}]
    BY <1>0, <2>5, <2>6 DEF RadarTypes
  <2>10. /\ wait_on'[RadarTask] = NULL /\ sleep_time'[RadarTask] = 0
         /\ wait_result'[RadarTask] = OS_SUCCESS /\ state'[RadarTask] = "READY"
         /\ wait_count'[EchoReady] = 0
    BY <1>0, <2>4, <2>5, <2>6, RadarConstants DEF RadarTypes
  <2>11. /\ \A t \in Tasks \ {RadarTask} :
              state'[t] = state[t] /\ sleep_time'[t] = sleep_time[t] /\ wait_on'[t] = wait_on[t]
         /\ \A o \in Objs \ {EchoReady} : wait_count'[o] = wait_count[o]
    BY <1>0, <2>5, <2>6 DEF RadarTypes
  <2>12. RadarTypes' /\ OnlyRadarCalls' /\ EchoQueue'
    BY <1>0, <2>4, <2>7, <2>8, <2>9, <2>10, <2>11 DEF RadarTypes, OnlyRadarCalls, EchoQueue
  <2>13. ScanInv' /\ Executes'
    BY <2>5, <2>7, ScanStays
  <2>14. tick_at \in {"load", "store"}
    BY <1>0, <2>3 DEF Fallen, InTime
  <2>15. TickInv' /\ SleepInv'
    BY <1>0, <1>1, <2>3, <2>7, <2>10, <2>14 DEF TickInv, SleepInv
  <2>16. Posted'
    BY <1>0, <1>1, <1>2, <2>3, <2>7, <2>10 DEF Posted, Fallen
  <2>17. EchoInv'
    BY <1>0, <1>1, <2>3, <2>16 DEF EchoInv
  <2> QED BY <2>12, <2>13, <2>15, <2>17 DEF RadarInv
<1>4. CASE IsrGive(EchoReady)
  <2>1. /\ wait_count[EchoReady] = 0 /\ count[EchoReady] = 0
        /\ count' = [count EXCEPT ![EchoReady] = IF @ < SemMax[EchoReady] THEN @ + 1 ELSE @]
        /\ UNCHANGED <<tcbVars, cpuVars, lock, owner, queueVars, clientVars>>
    BY <1>0, <1>4 DEF IsrGive, Fallen
  <2>2. step = "acquire"
    BY <1>0, <2>1 DEF Fallen, InTime, EchoQueue
  <2>3. count' \in [Sems -> Nat] /\ count'[EchoReady] = 1
    BY <1>0, <2>1, RadarConstants DEF RadarTypes
  <2>4. /\ UNCHANGED <<state, current_priority, sleep_time, wait_on, wait_result, wait_queue, wait_count>>
        /\ UNCHANGED <<current_tcb, kernel_running, pendsv, scan_k, best, tick_i, pc>>
    BY <2>1 DEF tcbVars, cpuVars, queueVars, clientVars
  <2>5. RadarTypes' /\ OnlyRadarCalls' /\ EchoQueue'
    BY <1>0, <1>1, <2>1, <2>3, <2>4 DEF RadarTypes, OnlyRadarCalls, EchoQueue
  <2>6. ScanInv' /\ Executes'
    BY <2>4, ScanStays
  <2>7. TickInv' /\ SleepInv'
    BY <1>0, <1>1, <2>4 DEF TickInv, SleepInv
  <2>8. Posted'
    BY <1>1, <1>2, <2>2, <2>3 DEF Posted
  <2>9. EchoInv'
    BY <1>0, <1>1, <2>2, <2>8 DEF EchoInv
  <2> QED BY <2>5, <2>6, <2>7, <2>9 DEF RadarInv
<1> QED BY <1>3, <1>4 DEF CaptureFalling, IsrRelease

\* The counter and the pulse grow together, and the pulse is shorter than a turn.
LEMMA SpansGrow ==
  ASSUME NEW from, NEW to \in 0 .. CounterSize - 1, NEW to2 \in 0 .. CounterSize - 1,
         NEW n \in Nat, NEW n2 \in 0 .. CounterSize - 1, n2 = n + 1,
         to2 = to + 1 \/ to2 + CounterSize = to + 1, Spans(from, to, n)
  PROVE  Spans(from, to2, n2)
<1>1. /\ CounterSize \in Nat /\ from \in 0 .. CounterSize - 1
      /\ to = from + n \/ to + CounterSize = from + n
  BY RadarConstants DEF Spans
<1>2. to2 = from + n2 \/ to2 + CounterSize = from + n2
  BY <1>1
<1> QED BY <1>1, <1>2 DEF Spans

\* A tick begins: the counter, the pulse and its age grow together, and what the
\* pulse may still last shrinks as the deadline does.
LEMMA PeriodEndsKeeps ==
  ASSUME RadarInv, PeriodEnds, UNCHANGED tickVars
  PROVE  RadarInv'
<1>0. RadarTypes /\ OnlyRadarCalls /\ EchoQueue /\ TickInv /\ SleepInv /\ EchoInv
  BY DEF RadarInv
<1>1. /\ ~cc2if /\ (sensor # "idle" => age < MaxEcho) /\ tick_i = -1 /\ tick_i' = 0
      /\ cnt' = (cnt + 1) % CounterSize
      /\ age' = (IF sensor = "idle" THEN 0 ELSE age + 1)
      /\ high' = (IF sensor = "high" THEN high + 1 ELSE 0)
      /\ UNCHANGED <<tcbVars, current_tcb, kernel_running, pendsv, scan_k, best, objVars, queueVars, clientVars>>
  BY DEF PeriodEnds, SysTick
<1>2. /\ UNCHANGED <<waiting_for_rising, time_start, time_end, distance, step, seen_end, seen_start>>
      /\ UNCHANGED <<cc2if, ccr2, sensor, fresh, answer, tick_at, loaded, removing>>
  BY DEF PeriodEnds, driverVars, readVars, ghostVars, tickVars
<1>3. UNCHANGED <<state, current_priority, sleep_time, wait_on, wait_result, wait_queue, wait_count,
                  lock, owner, count, pc>>
  BY <1>1 DEF tcbVars, objVars, queueVars, clientVars
<1>4. tick_at = "load" /\ Pending = 0 /\ Pending' = 1 /\ tick_i' \in -1 .. NTasks - 1
  BY <1>0, <1>1, <1>2, RadarConstants DEF TickInv, Pending
<1>5. RadarTypes' /\ OnlyRadarCalls' /\ EchoQueue'
  BY <1>0, <1>1, <1>2, <1>3, <1>4 DEF RadarTypes, OnlyRadarCalls, EchoQueue
<1>6. ScanInv' /\ Executes'
  BY <1>1, <1>3, ScanStays
<1>7. TickInv' /\ SleepInv'
  BY <1>0, <1>2, <1>3, <1>4 DEF TickInv, SleepInv
<1>8. /\ cnt \in 0 .. CounterSize - 1 /\ cnt' \in 0 .. CounterSize - 1
      /\ cnt' = cnt + 1 \/ cnt' + CounterSize = cnt + 1
  <2>1. cnt \in 0 .. CounterSize - 1 /\ CounterSize \in Nat /\ CounterSize > 2
    BY <1>0, RadarConstants DEF EchoInv
  <2>2. CASE cnt = CounterSize - 1
    BY <1>1, <2>1, <2>2
  <2>3. CASE cnt < CounterSize - 1
    BY <1>1, <2>1, <2>3
  <2> QED BY <2>1, <2>2, <2>3
<1>9. sleep_time[RadarTask] \in Nat
  BY <1>0, RadarConstants DEF RadarTypes
<1>10. ASSUME age \in 0 .. MaxEcho, age' = age + 1, InTime(ReadTimeout - age)
       PROVE  InTime(ReadTimeout - age)'
  BY <1>2, <1>3, <1>4, <1>9, <1>10, RadarConstants DEF InTime
<1>11. UNCHANGED <<Silent, Answered>>
  BY <1>2 DEF Silent, Answered, Spans
<1>12. ASSUME NoSound \/ Armed \/ High \/ Fallen \/ Posted
       PROVE  (NoSound \/ Armed \/ High \/ Fallen \/ Posted)'
  <2>1. NoSound => NoSound'
    BY <1>2, <1>3, <1>11 DEF NoSound
  <2>2. Armed => Armed'
    <3> HAVE Armed
    <3>1. age \in 0 .. MaxEcho /\ age' = age + 1 /\ age' \in 0 .. MaxEcho
      BY <1>1, RadarConstants DEF Armed
    <3>2. InTime(ReadTimeout - age)'
      BY <1>10, <3>1 DEF Armed
    <3> QED BY <1>2, <1>3, <3>1, <3>2 DEF Armed
  <2>3. High => High'
    <3> HAVE High
    <3>1. /\ age \in 0 .. MaxEcho /\ age' = age + 1 /\ age' \in 0 .. MaxEcho
          /\ high' = high + 1 /\ high' \in 0 .. age' /\ high \in Nat /\ high' \in 0 .. CounterSize - 1
      BY <1>1, RadarConstants DEF High
    <3>2. InTime(ReadTimeout - age)'
      BY <1>10, <3>1 DEF High
    <3>3. Spans(time_start, cnt, high) /\ CounterSize \in Nat
      BY <1>1, RadarConstants DEF High
    <3>4. Spans(time_start, cnt', high')
      BY <1>8, <3>1, <3>3, SpansGrow
    <3>5. Spans(time_start, cnt, high)'
      BY <1>2, <3>4 DEF Spans
    <3> QED BY <1>1, <1>2, <1>3, <3>1, <3>2, <3>5 DEF High
  <2>4. ~Fallen
    BY <1>1 DEF Fallen
  <2>5. Posted => Posted'
    BY <1>2, <1>3, <1>11 DEF Posted
  <2> QED BY <1>12, <2>1, <2>2, <2>3, <2>4, <2>5
<1>13. EchoInv'
  BY <1>0, <1>2, <1>3, <1>8, <1>11, <1>12 DEF EchoInv
<1> QED BY <1>5, <1>6, <1>7, <1>13 DEF RadarInv

-----------------------------------------------------------------------------
(* The theorems.  The read has a timeout, as in radar_task, and the sensor *)
(* ends its echo before it; the runs radar_late_echo and                   *)
(* radar_timeout_race show what happens if it does not.                    *)

\* Every step of the radar system keeps the invariant.
LEMMA RadarNextInv ==
  ASSUME MaxEcho < ReadTimeout, ReadTimeout # WAIT_FOREVER, RadarInv, [RadarNext]_radarVars
  PROVE  RadarInv'
<1>1. CASE KernelGoesOn
  BY <1>1, TickKeeps, PendSVKeeps DEF KernelGoesOn
<1>2. CASE ReadStep /\ UNCHANGED tickVars
  BY <1>2, ReadStepKeeps
<1>3. CASE CaptureIsr /\ UNCHANGED tickVars
  BY <1>3, CaptureRisingKeeps, CaptureFallingKeeps DEF CaptureIsr
<1>4. CASE Environment /\ UNCHANGED tickVars
  BY <1>4, EchoRiseKeeps, EchoFallKeeps, PeriodEndsKeeps DEF Environment
<1>5. CASE UNCHANGED radarVars
  <2>1. UNCHANGED <<vars, tickVars, echoVars, step>>
    BY <1>5 DEF radarVars, echoVars, readVars
  <2>2. UNCHANGED <<state, sleep_time, wait_on, wait_result, queueVars, tick_i, count, tickVars, echoVars>>
    BY <2>1 DEF vars, tcbVars, cpuVars, objVars
  <2>3. EchoInv'
    BY <2>2, CallStays
  <2> QED BY <2>1, <2>3, HardwareFrame
<1> QED BY <1>1, <1>2, <1>3, <1>4, <1>5 DEF RadarNext

\* RadarInv is an invariant.
THEOREM RadarInvariance ==
  ASSUME MaxEcho < ReadTimeout, ReadTimeout # WAIT_FOREVER
  PROVE  RadarSpec => []RadarInv
<1>1. RadarInit => RadarInv
  BY RadarInitInv
<1>2. RadarInv /\ [RadarNext]_radarVars => RadarInv'
  BY RadarNextInv
<1> QED BY <1>1, <1>2, PTL DEF RadarSpec

\* The distance that ultrasonic_read_cm returns is the one of the echo to its own
\* trigger, for every counter, timeout and instant of the two captures
\* (ultrasonic.c).
THEOREM PingSound ==
  ASSUME MaxEcho < ReadTimeout, ReadTimeout # WAIT_FOREVER
  PROVE  RadarSpec => []DistanceIsOfThisPing
<1>1. RadarInv => DistanceIsOfThisPing
  BY RadarConstants DEF RadarInv, EchoInv, DistanceIsOfThisPing
<1> QED BY <1>1, RadarInvariance, PTL

\* ultrasonic_read_cm returns ULTRASONIC_NO_ECHO only if no echo came back: the
\* timeout does not swallow one (ultrasonic.c, SysTick_Handler).
THEOREM NoEchoSound ==
  ASSUME MaxEcho < ReadTimeout, ReadTimeout # WAIT_FOREVER
  PROVE  RadarSpec => []NoEchoMeansNone
<1>1. RadarInv => NoEchoMeansNone
  BY DEF RadarInv, EchoInv, NoEchoMeansNone
<1> QED BY <1>1, RadarInvariance, PTL

\* The handler of TIM2 and the tick, which it may interrupt between any two of its
\* accesses, leave the wait queues consistent (os_kernel.c, SysTick_Handler and
\* os_semaphore_release).
THEOREM IsrSound ==
  ASSUME MaxEcho < ReadTimeout, ReadTimeout # WAIT_FOREVER
  PROVE  RadarSpec => []QueueIntegrityWithIsr
<1>1. RadarInv => QueueIntegrityWithIsr
  <2> SUFFICES ASSUME RadarInv
               PROVE  QueueIntegrityWithIsr
    OBVIOUS
  <2>0. RadarTypes /\ OnlyRadarCalls /\ EchoQueue /\ TickInv /\ SleepInv /\ EchoInv
    BY DEF RadarInv
  <2>1. K!Tasks = Tasks /\ K!Objs = Objs
    BY DEF K!Tasks, Tasks, K!Objs, Objs
  <2>2. ASSUME NEW o \in Objs
        PROVE  /\ \A i \in 0 .. wait_count[o] - 1 :
                    wait_queue[o][i] \in Tasks /\ wait_on[wait_queue[o][i]] = o
               /\ \A i, j \in 0 .. wait_count[o] - 1 :
                    wait_queue[o][i] = wait_queue[o][j] => i = j
               /\ \A t \in Tasks :
                    wait_on[t] = o => \E i \in 0 .. wait_count[o] - 1 : wait_queue[o][i] = t
    <3>1. o # NULL /\ RadarTask \in Tasks
      BY KernelAssumption, RadarConstants
    <3>2. \A t \in Tasks : wait_on[t] = o => t = RadarTask /\ o = EchoReady
      BY <2>0, <3>1 DEF RadarTypes, OnlyRadarCalls
    <3>3. \/ wait_count[o] = 0 /\ \A t \in Tasks : wait_on[t] # o
          \/ /\ o = EchoReady /\ wait_count[o] = 1
             /\ wait_on[RadarTask] = o /\ wait_queue[o][0] = RadarTask
      BY <2>0, <3>2 DEF OnlyRadarCalls, EchoQueue
    <3>4. 0 .. 0 - 1 = {} /\ 0 .. 1 - 1 = {0}
      OBVIOUS
    <3> QED BY <3>1, <3>2, <3>3, <3>4
  <2>3. K!QueueIntegrity
    BY <2>1, <2>2 DEF K!QueueIntegrity
  <2>4. \A t \in Tasks : state[t] = "BLOCKED" =>
          sleep_time[t] > 0 \/ wait_on[t] # NULL \/ tick_i = t
    BY <2>0 DEF OnlyRadarCalls, SleepInv, TickInv
  <2>5. \A m \in Mutexes : lock[m] = 0 => wait_count[m] = 0 /\ owner[m] = NULL
    BY <2>0, RadarConstants DEF OnlyRadarCalls
  <2>6. count[EchoReady] > 0 => wait_count[EchoReady] = 0
    BY <2>0 DEF EchoQueue, EchoInv, NoSound, Armed, High, Fallen, Posted
  <2>7. \A s \in Sems : count[s] > 0 => wait_count[s] = 0
    BY <2>0, <2>6, RadarConstants DEF OnlyRadarCalls
  <2> QED BY <2>3, <2>4, <2>5, <2>7 DEF QueueIntegrityWithIsr, K!NoMissedRelease
<1> QED BY <1>1, RadarInvariance, PTL

\* PendSV chooses the highest task that can run; if the handler of TIM2 wakes one
\* that the scan has passed, another switch is pended (os_scheduler, PendSV_Handler).
THEOREM IsrSwitchSound ==
  ASSUME MaxEcho < ReadTimeout, ReadTimeout # WAIT_FOREVER
  PROVE  RadarSpec => SwitchPicksHighestWithIsr
<1> DEFINE Picks == SwitchTo /\ ~pendsv =>
                      \A t \in Tasks : state'[t] # "BLOCKED"
                        => current_priority[t] <= current_priority[current_tcb']
<1>1. RadarInv => Picks
  <2> SUFFICES ASSUME RadarInv, SwitchTo, ~pendsv, NEW t \in Tasks, state'[t] # "BLOCKED"
               PROVE  current_priority[t] <= current_priority[current_tcb']
    OBVIOUS
  <2>1. scan_k = NTasks /\ tick_i = -1
    BY DEF SwitchTo
  <2>2. best \in Tasks /\ \A u \in Tasks : state[u] # "BLOCKED" => BasePriority[u] <= BasePriority[best]
    BY <2>1, ScanFinds
  <2>3. state' = SwitchedStates(best) /\ current_tcb' = best
    BY <2>2, RadarConstants DEF SwitchTo
  <2>4. state[best] # "BLOCKED"
    BY <2>1, ScanFinds
  <2>5. state[t] # "BLOCKED"
    BY <2>3, <2>4 DEF SwitchedStates
  <2> QED BY <2>2, <2>3, <2>5 DEF RadarInv, OnlyRadarCalls
<1> HIDE DEF Picks
<1>2. RadarSpec => [][Picks]_radarVars
  BY <1>1, RadarInvariance, PTL
<1> QED BY <1>2 DEF Picks, SwitchPicksHighestWithIsr

\* A radar task that was handed the token is never told OS_TIMEOUT: with the echo
\* in time, the tick and the handler of TIM2 do not race for the task
\* (SysTick_Handler, wake_task).
THEOREM TimeoutSound ==
  ASSUME MaxEcho < ReadTimeout, ReadTimeout # WAIT_FOREVER
  PROVE  RadarSpec => TimeoutOnlyWhileWaiting
<1> DEFINE Late == \A t \in Tasks : wait_result[t] = OS_SUCCESS /\ wait_result'[t] = OS_TIMEOUT
                     => state[t] = "BLOCKED"
<1>1. RadarInv /\ [RadarNext]_radarVars => Late
  <2> SUFFICES ASSUME RadarInv, [RadarNext]_radarVars
               PROVE  Late
    OBVIOUS
  <2>0. OS_SUCCESS # OS_TIMEOUT /\ wait_result \in [Tasks -> {OS_SUCCESS, OS_TIMEOUT}]
    BY DEF OS_SUCCESS, OS_TIMEOUT, RadarInv, RadarTypes
  <2>1. CASE StoreResult
    <3>1. tick_i = RadarTask /\ state[RadarTask] = "BLOCKED"
      BY <2>1 DEF StoreResult, Iteration, RadarInv, TickInv
    <3>2. wait_result' = [wait_result EXCEPT ![RadarTask] = OS_TIMEOUT]
      BY <2>1, <3>1 DEF StoreResult
    <3> QED BY <2>0, <3>1, <3>2
  <2>2. CASE IsrHandoff(EchoReady) \/ EchoBlock
    <3>1. \E w : wait_result' = [wait_result EXCEPT ![w] = OS_SUCCESS]
      BY <2>2 DEF IsrHandoff, WakeTask, EchoBlock, SemBlock, BlockCurrent
    <3> QED BY <2>0, <3>1
  <2>3. CASE UNCHANGED wait_result
    BY <2>0, <2>3
  <2>4. StoreResult \/ IsrHandoff(EchoReady) \/ EchoBlock \/ UNCHANGED wait_result
    <3>1. KernelGoesOn => StoreResult \/ UNCHANGED wait_result
      BY DEF KernelGoesOn, TickAccess, LoadNoDeadline, LoadDeadline, StoreDeadline, CheckQueue,
             FindEntry, RemoveEntry, StoreReady, Launch, PendSV, PendSVEnter, ScanStep, SwitchTo, tcbVars
    <3>2. ReadStep => EchoBlock \/ UNCHANGED wait_result
      BY DEF ReadStep, TriggerReset, TriggerPulse, EchoTake, EchoWoken, LoadEnd, LoadStart,
             ReturnDistance, Rest, Proceed, SemTake, Return, Yield, Delay, vars, tcbVars
    <3>3. CaptureIsr => IsrHandoff(EchoReady) \/ UNCHANGED wait_result
      BY DEF CaptureIsr, CaptureRising, CaptureFalling, IsrRelease, IsrGive, vars, tcbVars
    <3>4. Environment => UNCHANGED wait_result
      BY DEF Environment, EchoRise, EchoFall, PeriodEnds, SysTick, vars, tcbVars
    <3> QED BY <3>1, <3>2, <3>3, <3>4 DEF RadarNext, radarVars, vars, tcbVars
  <2> QED BY <2>1, <2>2, <2>3, <2>4
<1> HIDE DEF Late
<1>2. RadarSpec => [][Late]_radarVars
  BY <1>1, RadarInvariance, PTL DEF RadarSpec
<1> QED BY <1>2 DEF Late, TimeoutOnlyWhileWaiting
=============================================================================
