--------------------------- MODULE SentinelProofs ---------------------------
(***************************************************************************)
(* Proofs about the application, for any periods, timeouts and step of the *)
(* sweep, any capacity of sweep_queue, and any tasks beside the two.       *)
(***************************************************************************)
EXTENDS SentinelProps, QueueProofs

\* The two tasks are distinct tasks of the kernel.
LEMMA TwoTasks ==
  /\ Users = {Sweep, Radar} /\ Sweep # Radar
  /\ Sweep \in Tasks /\ Radar \in Tasks /\ Sweep # NULL /\ Radar # NULL
  /\ Sweep \in Producers /\ Sweep \notin Consumers
  /\ Radar \in Consumers /\ Radar \notin Producers
BY SentinelAssumption, QueueAssumption, KernelAssumption DEF Users

-----------------------------------------------------------------------------
(* The servo.                                                              *)

\* The places of the two tasks.
Places ==
  {"home_lock", "home_print", "home", "servo", "send", "sent",
   "read", "acquire", "wait", "receive", "log", "print", "rest"}

\* The places of sweep_task before its main loop.
Homing == {"home_lock", "home_print", "home"}

\* The variables of sweep_task keep to their ranges, and the pulse is that of an
\* angle one step away from the variable angle at most; after servo_set_angle and
\* before the next turn it is that of angle itself.
ServoInv ==
  /\ place \in [Users -> Places]
  /\ step \in {SWEEP_STEP_DEG, -SWEEP_STEP_DEG}
  /\ place[Sweep] \in Homing => angle \in -SWEEP_STEP_DEG .. 90
  /\ place[Sweep] \notin Homing => angle \in 0 .. 180
  /\ \E p \in 0 .. 180 :
       /\ pulse = PulseOf(p)
       /\ p - angle \in -SWEEP_STEP_DEG .. SWEEP_STEP_DEG
       /\ place[Sweep] \in {"send", "sent"} => p = angle

\* The pulse of an angle of the servo's range, without its fraction.
LEMMA PulseBounds ==
  ASSUME NEW a \in 0 .. 180
  PROVE  /\ PulseOf(a) \in Int /\ 1000 <= PulseOf(a) /\ PulseOf(a) <= 2000
         /\ 180 * (PulseOf(a) - 1000) <= 1000 * a
         /\ 1000 * a < 180 * (PulseOf(a) - 1000) + 180
<1>1. a % 65536 = a
  OBVIOUS
<1>2. PulseOf(a) = 1000 + (a * 1000) \div 180
  BY <1>1 DEF PulseOf, PwmPulse, pwm_period_us, SERVO_MIN_US, SERVO_MAX_US
<1> DEFINE q == (a * 1000) \div 180
<1>3. q \in Int /\ 180 * q <= 1000 * a /\ 1000 * a < 180 * q + 180
  OBVIOUS
<1> HIDE DEF q
<1>4. q \in 0 .. 1000
  BY <1>3
<1> QED BY <1>2, <1>3, <1>4 DEF q

\* Angles at most one step apart have pulses at most StepUs apart.
LEMMA PulseStep ==
  ASSUME NEW a \in 0 .. 180, NEW p \in 0 .. 180,
         p - a \in -SWEEP_STEP_DEG .. SWEEP_STEP_DEG
  PROVE  PulseOf(a) - PulseOf(p) \in -StepUs .. StepUs
<1> DEFINE S == SWEEP_STEP_DEG
           q == (S * 1000) \div 180
           x == PulseOf(a)
           y == PulseOf(p)
<1>1. S \in 1 .. 90
  BY SentinelAssumption
<1>2. StepUs = q + 1
  BY DEF StepUs, SERVO_MIN_US, SERVO_MAX_US
<1>3. q \in Int /\ 1000 * S < 180 * q + 180
  BY <1>1
<1>4. x \in Int /\ 180 * (x - 1000) <= 1000 * a /\ 1000 * a < 180 * (x - 1000) + 180
  BY PulseBounds DEF x
<1>5. y \in Int /\ 180 * (y - 1000) <= 1000 * p /\ 1000 * p < 180 * (y - 1000) + 180
  BY PulseBounds DEF y
<1>6. p - a <= S /\ a - p <= S
  BY <1>1
<1> HIDE DEF q, x, y, S
<1>7. x - y \in -(q + 1) .. q + 1
  BY <1>1, <1>3, <1>4, <1>5, <1>6
<1> QED BY <1>2, <1>7, Zenon DEF x, y

\* What ServoGradual says of a step.
Gradual ==
  /\ pulse' - pulse \in -StepUs .. StepUs
  /\ pulse' \in SERVO_MIN_US .. SERVO_MAX_US

\* The servo starts where the homing loop starts.
LEMMA ServoInit == SysInit => ServoInv
<1> SUFFICES ASSUME SysInit
             PROVE  ServoInv
  OBVIOUS
<1>1. /\ place \in [Users -> Places] /\ place[Sweep] = "home_lock"
      /\ angle = 90 /\ step = SWEEP_STEP_DEG /\ pulse = 1500
  BY TwoTasks DEF SysInit, PwmPulse, pwm_period_us, SERVO_MIN_US, SERVO_MAX_US, Places
<1>2. PulseOf(90) = 1500
  BY DEF PulseOf, PwmPulse, pwm_period_us, SERVO_MIN_US, SERVO_MAX_US
<1>3. SWEEP_STEP_DEG \in 1 .. 90
  BY SentinelAssumption
<1>4. \E p \in 0 .. 180 :
        /\ pulse = PulseOf(p)
        /\ p - angle \in -SWEEP_STEP_DEG .. SWEEP_STEP_DEG
        /\ place[Sweep] \in {"send", "sent"} => p = angle
  <2>1. 90 \in 0 .. 180 /\ 90 - angle \in -SWEEP_STEP_DEG .. SWEEP_STEP_DEG
    BY <1>1, <1>3
  <2> WITNESS 90 \in 0 .. 180
  <2> QED BY <1>1, <1>2, <2>1
<1> QED BY <1>1, <1>3, <1>4 DEF ServoInv, Homing

\* The step of the sweep.
LEMMA StepDegrees ==
  /\ SWEEP_STEP_DEG \in 1 .. 90 /\ -SWEEP_STEP_DEG \in Int
  /\ \A d : d \in -SWEEP_STEP_DEG .. SWEEP_STEP_DEG
            <=> d \in Int /\ 0 <= d + SWEEP_STEP_DEG /\ d <= SWEEP_STEP_DEG
<1>1. SWEEP_STEP_DEG \in 1 .. 90
  BY SentinelAssumption, Zenon
<1> QED BY <1>1

\* A step that leaves the servo alone.
LEMMA ServoRests ==
  ASSUME ServoInv, pulse' = pulse
  PROVE  Gradual
<1>1. PICK p \in 0 .. 180 : pulse = PulseOf(p)
  BY DEF ServoInv
<1>2. p - p \in -SWEEP_STEP_DEG .. SWEEP_STEP_DEG
  <2>1. p - p = 0
    OBVIOUS
  <2> QED BY <2>1, StepDegrees
<1>3. PulseOf(p) - PulseOf(p) \in -StepUs .. StepUs
  BY <1>2, PulseStep, ZenonT(60)
<1>4. pulse \in Int /\ 1000 <= pulse /\ pulse <= 2000
  BY <1>1, PulseBounds
<1>5. pulse' \in SERVO_MIN_US .. SERVO_MAX_US
  BY <1>4 DEF SERVO_MIN_US, SERVO_MAX_US
<1> QED BY <1>1, <1>3, <1>5 DEF Gradual

\* A step that leaves the servo alone and sweep_task in the same part of its code.
LEMMA ServoFrame ==
  ASSUME ServoInv, UNCHANGED sweepVars, place' \in [Users -> Places],
         place'[Sweep] \in Homing <=> place[Sweep] \in Homing,
         place'[Sweep] \in {"send", "sent"} => place[Sweep] \in {"send", "sent"}
  PROVE  ServoInv' /\ Gradual
<1>1. PICK p \in 0 .. 180 :
        /\ pulse = PulseOf(p)
        /\ p - angle \in -SWEEP_STEP_DEG .. SWEEP_STEP_DEG
        /\ place[Sweep] \in {"send", "sent"} => p = angle
  BY ZenonT(60) DEF ServoInv
<1>2. angle' = angle /\ step' = step /\ pulse' = pulse
  BY DEF sweepVars
<1>3. ServoInv'
  <2>1. /\ step \in {SWEEP_STEP_DEG, -SWEEP_STEP_DEG}
        /\ place[Sweep] \in Homing => angle \in -SWEEP_STEP_DEG .. 90
        /\ place[Sweep] \notin Homing => angle \in 0 .. 180
    BY DEF ServoInv
  <2> QED BY <1>1, <1>2, <2>1, ZenonT(60) DEF ServoInv
<1> QED BY <1>2, <1>3, ServoRests

\* A step that gives the servo the pulse of angle.
LEMMA ServoMoves ==
  ASSUME ServoInv, angle \in 0 .. 180, pulse' = PulseOf(angle)
  PROVE  Gradual
<1>1. PICK p \in 0 .. 180 :
        pulse = PulseOf(p) /\ p - angle \in -SWEEP_STEP_DEG .. SWEEP_STEP_DEG
  BY DEF ServoInv
<1>2. PulseOf(angle) - PulseOf(p) \in -StepUs .. StepUs
  BY <1>1, PulseStep, ZenonT(60)
<1> QED BY <1>1, <1>2, PulseBounds DEF Gradual, SERVO_MIN_US, SERVO_MAX_US

\* The state after a step that chose the angle a for the servo to be at.
LEMMA ServoAt ==
  ASSUME ServoInv, NEW a \in 0 .. 180, pulse' = PulseOf(a),
         a - angle' \in -SWEEP_STEP_DEG .. SWEEP_STEP_DEG,
         place'[Sweep] \in {"send", "sent"} => a = angle',
         place' \in [Users -> Places],
         step' \in {SWEEP_STEP_DEG, -SWEEP_STEP_DEG},
         place'[Sweep] \in Homing => angle' \in -SWEEP_STEP_DEG .. 90,
         place'[Sweep] \notin Homing => angle' \in 0 .. 180
  PROVE  ServoInv'
BY ZenonT(60) DEF ServoInv

\* sweep_task takes the servo from one angle to the next.
LEMMA ServoSteps ==
  ASSUME ServoInv, HomeStep \/ HomeEnd \/ SetAngle \/ Turn
  PROVE  ServoInv' /\ Gradual
<1> DEFINE S == SWEEP_STEP_DEG
<1>0. /\ S \in 1 .. 90 /\ place \in [Users -> Places] /\ Sweep \in Users
      /\ step \in {S, -S}
      /\ place[Sweep] \in Homing => angle \in -S .. 90
      /\ place[Sweep] \notin Homing => angle \in 0 .. 180
  BY SentinelAssumption, TwoTasks DEF ServoInv
<1>1. PICK p \in 0 .. 180 :
        /\ pulse = PulseOf(p) /\ p - angle \in -S .. S
        /\ place[Sweep] \in {"send", "sent"} => p = angle
  BY ZenonT(60) DEF ServoInv
<1>2. CASE HomeStep
  <2>1. /\ place[Sweep] = "home" /\ angle >= 0 /\ pulse' = PulseOf(angle)
        /\ angle' = angle - S /\ place' = place /\ step' = step
    BY <1>2 DEF HomeStep, HomeAgain
  <2>2. angle \in 0 .. 180 /\ angle' \in -S .. 90 /\ angle - angle' \in -S .. S
    <3>1. angle \in -S .. 90
      BY <1>0, <2>1 DEF Homing
    <3> QED BY <2>1, <3>1, StepDegrees
  <2>3. Gradual
    BY <2>1, <2>2, ServoMoves
  <2>4. ServoInv'
    BY <1>0, <2>1, <2>2, ServoAt, SMTT(30) DEF Homing
  <2> QED BY <2>3, <2>4
<1>3. CASE HomeEnd
  <2>1. /\ place[Sweep] = "home" /\ ~(angle >= 0) /\ pulse' = pulse
        /\ angle' = 0 /\ step' = S /\ place' = [place EXCEPT ![Sweep] = "servo"]
    BY <1>3 DEF HomeEnd, HomeAgain, Move
  <2>2. angle \in -S .. 90
    BY <1>0, <2>1 DEF Homing
  <2>3. p - angle' \in -S .. S
    BY <1>0, <1>1, <2>1, <2>2
  <2>4. place' \in [Users -> Places] /\ place'[Sweep] = "servo"
    BY <1>0, <2>1 DEF Places
  <2>5. ServoInv'
    BY <1>0, <1>1, <2>1, <2>3, <2>4, ServoAt DEF Homing
  <2> QED BY <2>1, <2>5, ServoRests
<1>4. CASE SetAngle
  <2>1. /\ place[Sweep] = "servo" /\ pulse' = PulseOf(angle)
        /\ angle' = angle /\ step' = step /\ place' = [place EXCEPT ![Sweep] = "send"]
    BY <1>4 DEF SetAngle, Move
  <2>2. angle \in 0 .. 180
    BY <1>0, <2>1 DEF Homing
  <2>3. place' \in [Users -> Places] /\ place'[Sweep] = "send"
    BY <1>0, <2>1 DEF Places
  <2>4. angle - angle' \in -S .. S
    <3>1. angle' = angle
      BY <2>1
    <3> QED BY <2>2, <3>1, StepDegrees
  <2>5. ServoInv'
    BY <1>0, <2>1, <2>2, <2>3, <2>4, ServoAt, ZenonT(60) DEF Homing
  <2> QED BY <2>1, <2>2, <2>5, ServoMoves
<1>5. CASE Turn
  <2>1. /\ place[Sweep] = "sent" /\ pulse' = pulse
        /\ place' = [place EXCEPT ![Sweep] = "servo"]
        /\ angle' = IF angle + step >= 180 THEN 180
                    ELSE IF angle + step <= 0 THEN 0 ELSE angle + step
        /\ step' = IF angle + step >= 180 THEN -S
                   ELSE IF angle + step <= 0 THEN S ELSE step
    BY <1>5 DEF Turn, Move
  <2>2. p = angle /\ angle \in 0 .. 180
    BY <1>0, <1>1, <2>1 DEF Homing
  <2>3. place' \in [Users -> Places] /\ place'[Sweep] = "servo"
    BY <1>0, <2>1 DEF Places
  <2>4. step' \in {S, -S}
    BY <1>0, <2>1
  <2>5. angle' \in 0 .. 180 /\ p - angle' \in -S .. S
    <3>1. step \in {S, -S} /\ angle' = IF angle + step >= 180 THEN 180
                                       ELSE IF angle + step <= 0 THEN 0 ELSE angle + step
      BY <1>0, <2>1
    <3> QED BY <2>2, <3>1, StepDegrees
  <2>6. ServoInv'
    BY <1>0, <1>1, <2>1, <2>3, <2>4, <2>5, ServoAt, ZenonT(60) DEF Homing
  <2> QED BY <2>1, <2>6, ServoRests
<1> QED BY <1>2, <1>3, <1>4, <1>5

\* A step of radar_task, of the kernel, of the handler or inside a queue call
\* leaves sweep_task where it is.
LEMMA NotTheSweep ==
  ASSUME place \in [Users -> Places],
         RadarStep \/ KernelRuns \/ EchoIsr \/ (\E t \in Users : CallStep(t))
  PROVE  UNCHANGED sweepVars /\ place'[Sweep] = place[Sweep] /\ place' \in [Users -> Places]
<1>1. CASE RadarStep
  <2>1. UNCHANGED sweepVars
    BY <1>1 DEF RadarStep, Ping, EchoTake, EchoBlock, EchoWoken, ReceiveAngle, Rest,
                LockUart, UnlockUart
  <2>2. \E q \in Places : place' = [place EXCEPT ![Radar] = q]
    BY <1>1 DEF RadarStep, Ping, EchoTake, EchoBlock, EchoWoken, ReceiveAngle, Rest,
                LockUart, UnlockUart, Move, Places
  <2> QED BY <2>1, <2>2, TwoTasks
<1>2. CASE KernelRuns \/ EchoIsr \/ \E t \in Users : CallStep(t)
  BY <1>2 DEF KernelRuns, EchoIsr, CallStep, appVars
<1> QED BY <1>1, <1>2

\* Every step moves the servo by one step of the sweep at most.
LEMMA ServoNext == ServoInv /\ [SysNext]_sysVars => ServoInv' /\ [Gradual]_sysVars
<1> SUFFICES ASSUME ServoInv, [SysNext]_sysVars
             PROVE  ServoInv' /\ [Gradual]_sysVars
  OBVIOUS
<1>0. place \in [Users -> Places] /\ Sweep \in Users
  BY TwoTasks DEF ServoInv
<1>1. CASE UNCHANGED sysVars
  <2>1. UNCHANGED sweepVars /\ place' = place
    BY <1>1 DEF sysVars, appVars
  <2> QED BY <1>0, <2>1, ServoFrame
<1>2. CASE RadarStep \/ KernelRuns \/ EchoIsr \/ \E t \in Users : CallStep(t)
  BY <1>0, <1>2, NotTheSweep, ServoFrame
<1>3. CASE HomeStep \/ HomeEnd \/ SetAngle \/ Turn
  BY <1>3, ServoSteps
<1>4. CASE LockUart(Sweep, "home_lock", "home_print") \/ UnlockUart(Sweep, "home_print", "home")
  <2>1. /\ UNCHANGED sweepVars /\ place[Sweep] \in Homing
        /\ \E q \in {"home_print", "home"} : place' = [place EXCEPT ![Sweep] = q]
    BY <1>4 DEF LockUart, UnlockUart, Move, Homing
  <2>2. /\ place' \in [Users -> Places] /\ place'[Sweep] \in Homing
        /\ place'[Sweep] \notin {"send", "sent"}
    BY <1>0, <2>1 DEF Homing, Places
  <2> QED BY <2>1, <2>2, ServoFrame
<1>5. CASE SendAngle
  <2>1. /\ UNCHANGED sweepVars /\ place[Sweep] = "send"
        /\ place' = [place EXCEPT ![Sweep] = "sent"]
    BY <1>5 DEF SendAngle, Move
  <2>2. place' \in [Users -> Places] /\ place'[Sweep] = "sent"
    BY <1>0, <2>1 DEF Places
  <2> QED BY <2>1, <2>2, ServoFrame DEF Homing
<1> QED BY <1>1, <1>2, <1>3, <1>4, <1>5 DEF SysNext, TaskRuns, SweepStep

\* From power-up on, through homing and both ends of the sweep, two pulses in a
\* row are never further apart than one step of the sweep.
THEOREM ServoSound == SysSpec => ServoGradual
<1>1. SysSpec => []ServoInv
  BY ServoInit, ServoNext, PTL DEF SysSpec
<1>2. SysSpec => [][Gradual]_sysVars
  BY <1>1, ServoNext, PTL DEF SysSpec
<1>3. ServoGradual <=> [][Gradual]_sysVars
  BY PTL DEF ServoGradual, Gradual
<1> QED BY <1>2, <1>3, PTL

-----------------------------------------------------------------------------
(* The kernel under the application: the calls of the two tasks, with the  *)
(* timeouts and delays of tasks.c, and the post of echo_ready from the     *)
(* handler keep the kernel's invariant.                                    *)

\* A call of t to the kernel, with any timeout, or none.
KernelCall(t) ==
  \/ Yield(t) \/ Return(t) \/ UNCHANGED vars
  \/ \E ms \in Nat \ {0} : Delay(t, ms)
  \/ \E m \in Mutexes :
       \/ MutexTake(t, m) \/ MutexRelease(t, m)
       \/ \E timeout \in Nat : MutexBlock(t, m, timeout) \/ MutexFull(t, m, timeout)
  \/ \E s \in Sems :
       SemTake(t, s) \/ SemRelease(t, s) \/ \E timeout \in Nat : SemBlock(t, s, timeout)

\* Whatever a task calls, the kernel's invariant stays.
LEMMA KernelCallKeeps ==
  ASSUME IInv, NEW t \in Tasks, KernelCall(t)
  PROVE  IInv'
<1>1. CASE Yield(t) \/ Return(t)
  BY <1>1, YieldKeeps, ReturnKeeps
<1>2. CASE UNCHANGED vars
  BY <1>2, NextInv
<1>3. ASSUME NEW ms \in Nat \ {0}, Delay(t, ms)
      PROVE  IInv'
  BY <1>3, DelayKeeps
<1>4. ASSUME NEW m \in Mutexes, MutexTake(t, m) \/ MutexRelease(t, m)
      PROVE  IInv'
  BY <1>4, MutexTakeKeeps, MutexHandoffKeeps, MutexFreeKeeps DEF MutexRelease
<1>5. ASSUME NEW m \in Mutexes, NEW timeout \in Nat,
             MutexBlock(t, m, timeout) \/ MutexFull(t, m, timeout)
      PROVE  IInv'
  BY <1>5, MutexBlockKeeps, MutexFullKeeps
<1>6. ASSUME NEW s \in Sems, SemTake(t, s) \/ SemRelease(t, s)
      PROVE  IInv'
  BY <1>6, SemCountKeeps, SemHandoffKeeps DEF SemRelease
<1>7. ASSUME NEW s \in Sems, NEW timeout \in Nat, SemBlock(t, s, timeout)
      PROVE  IInv'
  BY <1>7, SemBlockKeeps
<1> QED BY <1>1, <1>2, <1>3, <1>4, <1>5, <1>6, <1>7 DEF KernelCall

\* The objects of the application are objects of the kernel, and differ.
LEMMA AppObjects ==
  /\ QLock \in Mutexes /\ UartLock \in Mutexes /\ QLock # UartLock
  /\ QLock \in Objs /\ UartLock \in Objs /\ QLock # NULL /\ UartLock # NULL
  /\ EmptySlots \in Sems /\ FilledSlots \in Sems /\ EchoReady \in Sems
  /\ EmptySlots # FilledSlots /\ EchoReady # FilledSlots
  /\ EchoReady \in Objs /\ EchoReady # QLock /\ EchoReady # UartLock
  /\ WAIT_FOREVER \in Nat
  /\ SWEEP_PERIOD_MS \in Nat \ {0} /\ RADAR_PERIOD_MS \in Nat \ {0}
  /\ HomeDelay \in Nat \ {0} /\ ReadTimeout \in Nat \ {0}
BY SentinelAssumption, QueueAssumption, KernelAssumption DEF Objs

\* A step inside a queue call is a kernel call of its task.
LEMMA InCallCalls ==
  ASSUME NEW t \in Users, InCall(t)
  PROVE  KernelCall(t)
<1>1. CASE SendWoken(t) \/ ReceiveWoken(t) \/ LockWoken(t) \/ Resume(t)
  BY <1>1 DEF SendWoken, ReceiveWoken, LockWoken, Resume, KernelCall
<1>2. CASE LockTake(t) \/ LockBlock(t) \/ LockFail(t) \/ Unlock(t)
  BY <1>2, AppObjects DEF LockTake, LockBlock, LockFail, Unlock, KernelCall
<1>3. CASE Undo(t) \/ Post(t)
  BY <1>3, AppObjects DEF Undo, Post, Wants, Gives, KernelCall
<1>4. CASE SendWrite(t) \/ SendAdvance(t) \/ ReceiveRead(t) \/ ReceiveAdvance(t)
  BY <1>4 DEF SendWrite, SendAdvance, ReceiveRead, ReceiveAdvance, KernelCall
<1> QED BY <1>1, <1>2, <1>3, <1>4 DEF InCall

\* So is a step of the application's own code.
LEMMA AppCalls ==
  ASSUME SweepStep \/ RadarStep
  PROVE  \E t \in Users : KernelCall(t)
<1>1. CASE SweepStep
  <2>1. CASE LockUart(Sweep, "home_lock", "home_print") \/ UnlockUart(Sweep, "home_print", "home")
    BY <2>1, AppObjects, TwoTasks DEF LockUart, UnlockUart, KernelCall
  <2>2. CASE HomeStep \/ HomeEnd \/ Turn
    BY <2>2, AppObjects, TwoTasks DEF HomeStep, HomeEnd, Turn, KernelCall
  <2>3. CASE SetAngle \/ SendAngle
    BY <2>3, AppObjects, TwoTasks DEF SetAngle, SendAngle, SendTake, SendPoll, SemPoll, KernelCall
  <2> QED BY <1>1, <2>1, <2>2, <2>3 DEF SweepStep
<1>2. CASE RadarStep
  <2>1. CASE LockUart(Radar, "log", "print") \/ UnlockUart(Radar, "print", "rest")
    BY <2>1, AppObjects, TwoTasks DEF LockUart, UnlockUart, KernelCall
  <2>2. CASE Ping \/ EchoTake \/ EchoWoken
    BY <2>2, AppObjects, TwoTasks DEF Ping, EchoTake, EchoWoken, KernelCall
  <2>3. CASE EchoBlock \/ Rest
    BY <2>3, AppObjects, TwoTasks DEF EchoBlock, Rest, KernelCall
  <2>4. CASE ReceiveAngle
    BY <2>4, AppObjects, TwoTasks DEF ReceiveAngle, ReceiveTake, ReceivePoll, SemPoll, KernelCall
  <2> QED BY <1>2, <2>1, <2>2, <2>3, <2>4 DEF RadarStep
<1> QED BY <1>1, <1>2

\* The kernel's invariant holds under the application.
LEMMA SysKernel == IInv /\ [SysNext]_sysVars => IInv'
<1> SUFFICES ASSUME IInv, [SysNext]_sysVars
             PROVE  IInv'
  OBVIOUS
<1>1. CASE UNCHANGED sysVars
  <2>1. UNCHANGED vars
    BY <1>1 DEF sysVars, allVars
  <2> QED BY <2>1, NextInv
<1>2. CASE KernelRuns
  BY <1>2, NextInv DEF KernelRuns, Next
<1>3. CASE EchoIsr
  BY <1>3, IsrReleaseKeeps, AppObjects DEF EchoIsr
<1>4. CASE TaskRuns
  <2>1. \E t \in Users : KernelCall(t)
    BY <1>4, AppCalls, InCallCalls DEF TaskRuns, CallStep
  <2> QED BY <2>1, KernelCallKeeps, TwoTasks
<1> QED BY <1>1, <1>2, <1>3, <1>4 DEF SysNext

-----------------------------------------------------------------------------
(* Who owns the two mutexes, and when.                                     *)

AppTypes == place \in [Users -> Places] /\ stage \in [Users -> Stages]

\* Before the sweep starts, nothing was sent: the radar has nothing to log.
Homed ==
  place[Sweep] \in Homing =>
    /\ stage[Sweep] = "out" /\ stage[Radar] = "out"
    /\ place[Radar] \notin {"log", "print"}
    /\ count[FilledSlots] = 0

\* uart_lock is owned by the task that prints, and no one waits for it.
UartOwner ==
  /\ owner[UartLock] # NULL =>
       \/ owner[UartLock] = Sweep /\ place[Sweep] = "home_print"
       \/ owner[UartLock] = Radar /\ place[Radar] = "print"
  /\ wait_count[UartLock] = 0

\* The queue's lock is owned by a user of the queue, if any, and only the radar
\* ever waits for it; other mutexes are not used.
LockOwner ==
  /\ \A m \in Mutexes \ {QLock, UartLock} : owner[m] = NULL
  /\ owner[QLock] \in {NULL, Sweep, Radar}
  /\ owner[QLock] = Radar => stage[Radar] \in Inside \cup {"wait"}
  /\ \A t \in Tasks : wait_on[t] = QLock => t = Radar
  /\ call[Radar] = QLock <=> stage[Radar] = "wait"

\* While the radar owns the queue's lock it can run, and the sweep does not
\* execute, but for the os_yield of the release that handed the lock over.
RadarFirst ==
  owner[QLock] = Radar =>
    /\ state[Radar] # "BLOCKED"
    /\ current_tcb = Sweep /\ ~pendsv /\ scan_k = -1 => pc[Sweep] = "yield"

\* Where the tasks are in their queue calls; the sweep never waits in one.
QueueCalls ==
  /\ stage[Radar] # "token"
  /\ stage[Radar] # "out" => place[Radar] = "log"
  /\ stage[Sweep] \notin {"token", "wait"}
  /\ stage[Sweep] # "out" => state[Sweep] # "BLOCKED"

AppInv == AppTypes /\ Homed /\ UartOwner /\ LockOwner /\ RadarFirst /\ QueueCalls

SysInv == IInv /\ AppInv

\* A step of the kernel wakes tasks and takes entries out of queues; it never
\* does the opposite.
Milder ==
  /\ \A u \in Tasks : state'[u] = "BLOCKED" => state[u] = "BLOCKED"
  /\ \A u \in Tasks : wait_on'[u] = wait_on[u] \/ wait_on'[u] = NULL
  /\ \A o \in Objs : wait_count'[o] <= wait_count[o]

\* SysTick, PendSV and the launch are such steps, and leave owners and callers alone.
LEMMA KernelMilder ==
  ASSUME IInv, KernelStep
  PROVE  Milder /\ UNCHANGED <<objVars, clientVars>>
<1>0. TypeOK /\ ScanBest /\ QueueType /\ QueueIntegrity /\ MAX_TASKS \in Nat
  BY KernelAssumption DEF IInv, CpuInv, ObjectInv, TypeOK, QueueType
<1>1. \A o \in Objs : wait_count[o] <= wait_count[o]
  BY <1>0 DEF TypeOK
<1>2. CASE Launch \/ PendSVEnter \/ ScanStep \/ SysTick \/ TickSkip
  BY <1>1, <1>2 DEF Launch, PendSVEnter, ScanStep, SysTick, TickSkip, TickAdvance, Milder, tcbVars,
                    queueVars
<1>3. CASE TickCount
  BY <1>1, <1>3 DEF TickCount, TickAdvance, Milder, queueVars
<1>4. CASE TickExpire
  <2>1. /\ tick_i \in Tasks /\ RemoveFromQueue(tick_i)
        /\ wait_on' = [wait_on EXCEPT ![tick_i] = NULL]
        /\ state' = [state EXCEPT ![tick_i] = "READY"]
        /\ UNCHANGED <<objVars, clientVars>>
    BY <1>4 DEF TickExpire, TickAdvance
  <2>2. \A o \in Objs : wait_count'[o] <= wait_count[o]
    BY <1>0, <2>1, RemoveKeeps
  <2> QED BY <1>0, <2>1, <2>2 DEF Milder, TypeOK
<1>5. CASE SwitchTo
  <2>1. UNCHANGED <<wait_on, queueVars, objVars, clientVars>>
    BY <1>5 DEF SwitchTo
  <2>2. \A u \in Tasks : state'[u] = "BLOCKED" => state[u] = "BLOCKED"
    BY <1>0, <1>5 DEF SwitchTo, SwitchedStates, TypeOK
  <2> QED BY <1>1, <2>1, <2>2 DEF Milder, queueVars
<1> QED BY <1>2, <1>3, <1>4, <1>5 DEF KernelStep, PendSV, TickStep

\* The release of a semaphore too, by a task or by a handler.
LEMMA ReleaseMilder ==
  ASSUME IInv, NEW s \in Sems, NEW t \in Tasks, SemRelease(t, s) \/ IsrRelease(s)
  PROVE  /\ Milder /\ UNCHANGED <<lock, owner, call, holds>>
         /\ \A x \in Sems : x # s => count'[x] = count[x]
         /\ SemRelease(t, s) => App(t) /\ UNCHANGED cpuVars
         /\ IsrRelease(s) => UNCHANGED <<current_tcb, scan_k, pc>> /\ (pendsv => pendsv')
<1>0. TypeOK /\ s \in Objs /\ MAX_TASKS \in Nat
  BY KernelAssumption DEF IInv, Objs
<1>1. CASE SemHandoff(t, s) \/ IsrHandoff(s)
  <2>1. PICK i \in 0 .. wait_count[s] - 1 : WakeTask(wait_queue[s][i])
    BY <1>1 DEF SemHandoff, IsrHandoff
  <2>2. /\ \A u \in Tasks : state'[u] = IF u = wait_queue[s][i] THEN "READY" ELSE state[u]
        /\ \A u \in Tasks : wait_on'[u] = IF u = wait_queue[s][i] THEN NULL ELSE wait_on[u]
        /\ \A o \in Objs : wait_count'[o] <= wait_count[o]
    BY <1>0, <2>1, WakeTaskKeeps
  <2>3. Milder
    BY <2>2 DEF Milder
  <2> QED BY <1>1, <2>3 DEF SemHandoff, IsrHandoff, SemRelease, IsrRelease, IsrGive, SemGive, objVars,
                            clientVars, cpuVars
<1>2. CASE SemGive(t, s) \/ IsrGive(s)
  <2>1. \A o \in Objs : wait_count[o] <= wait_count[o]
    BY <1>0 DEF TypeOK
  <2>2. Milder
    BY <1>2, <2>1 DEF SemGive, IsrGive, Milder, tcbVars, queueVars
  <2>3. \A x \in Sems : x # s => count'[x] = count[x]
    BY <1>0, <1>2 DEF SemGive, IsrGive, TypeOK
  <2> QED BY <1>2, <2>2, <2>3
          DEF SemHandoff, IsrHandoff, SemRelease, IsrRelease, SemGive, IsrGive, clientVars, cpuVars
<1> QED BY <1>1, <1>2 DEF SemRelease, IsrRelease

\* The parts of the invariant that speak of owners, under a step that leaves them
\* and the places of the tasks alone.
LEMMA OwnersStay ==
  ASSUME IInv, IInv', AppInv, Milder, UNCHANGED <<owner, call, place, stage>>
  PROVE  UartOwner' /\ LockOwner' /\ QueueCalls'
<1>1. wait_count[UartLock] = 0 /\ wait_count'[UartLock] \in Nat
  BY AppObjects, KernelAssumption DEF IInv, TypeOK, AppInv, UartOwner
<1>2. wait_count'[UartLock] <= wait_count[UartLock]
  BY AppObjects DEF Milder
<1>3. UartOwner'
  BY <1>1, <1>2 DEF AppInv, UartOwner
<1>4. LockOwner'
  BY AppObjects DEF Milder, AppInv, LockOwner
<1>5. QueueCalls'
  BY TwoTasks DEF Milder, AppInv, QueueCalls
<1> QED BY <1>3, <1>4, <1>5

\* PendSV never gives the CPU to the sweep while the radar owns the queue's lock:
\* the radar can run, its priority is higher, and nothing is lent to the sweep.
LEMMA SwitchSparesRadar ==
  ASSUME SysInv, SwitchTo, ~pendsv, owner[QLock] = Radar
  PROVE  current_tcb' # Sweep
<1>0. TypeOK /\ BoostOnlyOwners /\ scan_k = NTasks /\ tick_i = -1
  BY DEF SysInv, IInv, ObjectInv, SwitchTo
<1>1. best \in Tasks /\ \A t \in Tasks : state[t] # "BLOCKED"
                          => current_priority[t] <= current_priority[best]
  BY <1>0, ScanEnd DEF SysInv
<1>2. current_tcb' = best
  BY <1>1, KernelAssumption DEF SwitchTo
<1>3. state[Radar] # "BLOCKED" /\ stage[Radar] # "out"
  BY DEF SysInv, AppInv, RadarFirst, LockOwner, Inside
<1>4. \A m \in Mutexes : owner[m] # Sweep
  <2>1. place[Sweep] # "home_print"
    BY <1>3 DEF SysInv, AppInv, Homed, Homing
  <2>2. owner[UartLock] # Sweep /\ owner[QLock] # Sweep
    BY <2>1, TwoTasks DEF SysInv, AppInv, UartOwner
  <2> QED BY <2>2, TwoTasks DEF SysInv, AppInv, LockOwner
<1>5. ~(current_priority[Sweep] > BasePriority[Sweep]) /\ current_priority[Radar] >= BasePriority[Radar]
  BY <1>0, <1>4, TwoTasks DEF BoostOnlyOwners
<1>6. /\ BasePriority[Sweep] \in Nat /\ BasePriority[Radar] \in Nat
      /\ current_priority[Sweep] \in Nat /\ current_priority[Radar] \in Nat
      /\ BasePriority[Sweep] < BasePriority[Radar]
  BY <1>0, TwoTasks, KernelAssumption, SentinelAssumption DEF TypeOK
<1>7. current_priority[Sweep] < current_priority[Radar]
  BY <1>5, <1>6
<1>8. current_priority[Radar] <= current_priority[best]
  BY <1>1, <1>3, TwoTasks
<1>9. best # Sweep
  BY <1>6, <1>7, <1>8
<1> QED BY <1>2, <1>9

\* The kernel's own steps keep the invariant.
LEMMA KernelKeepsApp ==
  ASSUME SysInv, IInv', KernelRuns
  PROVE  AppInv'
<1>1. /\ Milder /\ UNCHANGED <<objVars, clientVars>> /\ KernelStep
      /\ UNCHANGED <<place, stage>>
  BY KernelMilder DEF SysInv, KernelRuns, appVars, queueData
<1>2. AppTypes' /\ Homed'
  BY <1>1 DEF SysInv, AppInv, AppTypes, Homed, objVars
<1>3. UartOwner' /\ LockOwner' /\ QueueCalls'
  BY <1>1, OwnersStay DEF SysInv, objVars, clientVars
<1>4. RadarFirst'
  <2> SUFFICES ASSUME owner'[QLock] = Radar
               PROVE  /\ state'[Radar] # "BLOCKED"
                      /\ current_tcb' = Sweep /\ ~pendsv' /\ scan_k' = -1 => pc'[Sweep] = "yield"
    BY DEF RadarFirst
  <2>1. owner[QLock] = Radar /\ pc' = pc
    BY <1>1 DEF objVars, clientVars
  <2>2. state'[Radar] # "BLOCKED"
    BY <1>1, <2>1, TwoTasks DEF Milder, SysInv, AppInv, RadarFirst
  <2>3. CASE SwitchTo
    <3>1. pendsv' = pendsv
      BY <2>3 DEF SwitchTo
    <3> QED BY <2>1, <2>2, <2>3, <3>1, SwitchSparesRadar
  <2>4. CASE Launch \/ PendSVEnter \/ ScanStep
    <3>1. scan_k' # -1
      BY <2>4 DEF Launch, PendSVEnter, ScanStep
    <3> QED BY <2>2, <3>1
  <2>5. CASE SysTick \/ TickStep
    <3>1. UNCHANGED <<current_tcb, scan_k>> /\ (~pendsv' => ~pendsv)
      <4>1. CASE SysTick
        BY <4>1 DEF SysTick
      <4>2. CASE TickStep
        BY <4>2, Zenon DEF TickStep, TickSkip, TickCount, TickExpire, TickAdvance
      <4> QED BY <2>5, <4>1, <4>2
    <3> QED BY <2>1, <2>2, <3>1 DEF SysInv, AppInv, RadarFirst
  <2> QED BY <1>1, <2>3, <2>4, <2>5 DEF KernelStep, PendSV
<1> QED BY <1>2, <1>3, <1>4 DEF AppInv

\* So does the post of echo_ready from the handler.
LEMMA IsrKeepsApp ==
  ASSUME SysInv, IInv', EchoIsr
  PROVE  AppInv'
<1>1. /\ Milder /\ UNCHANGED <<owner, call, place, stage, current_tcb, scan_k, pc>>
      /\ (pendsv => pendsv') /\ count'[FilledSlots] = count[FilledSlots]
  BY ReleaseMilder, TwoTasks, AppObjects DEF SysInv, EchoIsr, queueData
<1>2. AppTypes' /\ Homed'
  BY <1>1 DEF SysInv, AppInv, AppTypes, Homed
<1>3. UartOwner' /\ LockOwner' /\ QueueCalls'
  BY <1>1, OwnersStay DEF SysInv
<1>4. RadarFirst'
  BY <1>1, TwoTasks DEF Milder, SysInv, AppInv, RadarFirst
<1> QED BY <1>2, <1>3, <1>4 DEF AppInv

\* The sweep executes its own code only while the radar does not own the lock.
LEMMA SweepRuns ==
  ASSUME SysInv, Thread(Sweep), pc[Sweep] # "yield"
  PROVE  owner[QLock] # Radar /\ state[Sweep] = "RUNNING"
<1>1. state[Sweep] = "RUNNING"
  BY CallerRuns, TwoTasks DEF SysInv
<1> QED BY <1>1 DEF Thread, SysInv, AppInv, RadarFirst

\* A step of the sweep that leaves the owners and the radar alone.
LEMMA SweepCalm ==
  ASSUME SysInv, IInv', owner' = owner, owner[QLock] # Radar, call'[Radar] = call[Radar],
         \A u \in Tasks : wait_on'[u] = wait_on[u] \/ wait_on'[u] = NULL,
         wait_count'[UartLock] <= wait_count[UartLock],
         AppTypes', Homed', place'[Radar] = place[Radar], stage'[Radar] = stage[Radar],
         place[Sweep] = "home_print" => place'[Sweep] = "home_print",
         stage'[Sweep] \notin {"token", "wait"},
         stage'[Sweep] # "out" => state'[Sweep] # "BLOCKED"
  PROVE  AppInv'
<1>1. wait_count[UartLock] = 0 /\ wait_count'[UartLock] \in Nat
  BY AppObjects, KernelAssumption DEF SysInv, IInv, TypeOK, AppInv, UartOwner
<1>2. UartOwner'
  BY <1>1 DEF SysInv, AppInv, UartOwner
<1>3. LockOwner'
  BY AppObjects DEF SysInv, AppInv, LockOwner
<1>4. QueueCalls'
  BY DEF SysInv, AppInv, QueueCalls
<1>5. RadarFirst'
  BY DEF RadarFirst
<1> QED BY <1>2, <1>3, <1>4, <1>5 DEF AppInv

\* A step of the radar that leaves the owners and the sweep alone.
LEMMA RadarCalm ==
  ASSUME SysInv, IInv', Thread(Radar), current_tcb' = current_tcb, owner' = owner,
         \A u \in Tasks : wait_on'[u] = QLock => u = Radar \/ wait_on[u] = QLock,
         wait_count'[UartLock] <= wait_count[UartLock],
         AppTypes', Homed', place'[Sweep] = place[Sweep], stage'[Sweep] = stage[Sweep],
         state'[Sweep] = "BLOCKED" => state[Sweep] = "BLOCKED",
         place[Radar] = "print" => place'[Radar] = "print",
         owner[QLock] = Radar =>
           stage'[Radar] \in Inside \cup {"wait"} /\ state'[Radar] # "BLOCKED",
         call'[Radar] = QLock <=> stage'[Radar] = "wait",
         stage'[Radar] # "token", stage'[Radar] # "out" => place'[Radar] = "log"
  PROVE  AppInv'
<1>1. wait_count[UartLock] = 0 /\ wait_count'[UartLock] \in Nat
  BY AppObjects, KernelAssumption DEF SysInv, IInv, TypeOK, AppInv, UartOwner
<1>2. UartOwner'
  BY <1>1 DEF SysInv, AppInv, UartOwner
<1>3. LockOwner'
  BY AppObjects DEF SysInv, AppInv, LockOwner
<1>4. QueueCalls'
  BY DEF SysInv, AppInv, QueueCalls
<1>5. RadarFirst'
  BY TwoTasks DEF RadarFirst, Thread
<1> QED BY <1>2, <1>3, <1>4, <1>5 DEF AppInv

\* os_yield keeps the invariant, whoever calls it.
LEMMA YieldKeepsApp ==
  ASSUME SysInv, IInv', NEW t \in Users, Yield(t), UNCHANGED <<place, stage>>
  PROVE  AppInv'
<1>1. UNCHANGED <<tcbVars, objVars, queueVars, call>> /\ pendsv' = TRUE
  BY DEF Yield
<1>2. \A o \in Objs : wait_count[o] <= wait_count[o]
  BY KernelAssumption DEF SysInv, IInv, TypeOK
<1>3. Milder
  BY <1>1, <1>2 DEF Milder, tcbVars, queueVars
<1>4. AppTypes' /\ Homed'
  BY <1>1 DEF SysInv, AppInv, AppTypes, Homed, objVars
<1>5. UartOwner' /\ LockOwner' /\ QueueCalls'
  BY <1>1, <1>3, OwnersStay DEF SysInv, objVars
<1>6. RadarFirst'
  BY <1>1 DEF SysInv, AppInv, RadarFirst, tcbVars, objVars
<1> QED BY <1>4, <1>5, <1>6 DEF AppInv

-----------------------------------------------------------------------------
(* The steps that take and release a mutex.                                *)

\* uart_lock taken for a line.
LEMMA LockUartKeepsApp ==
  ASSUME SysInv, IInv',
         \/ LockUart(Sweep, "home_lock", "home_print")
         \/ LockUart(Radar, "log", "print")
  PROVE  AppInv'
<1>0. place \in [Users -> Places] /\ owner \in [Mutexes -> Tasks \cup {NULL}]
  BY DEF SysInv, AppInv, AppTypes, IInv, TypeOK
<1>1. /\ UNCHANGED <<state, wait_on, queueVars, cpuVars, count, call, pc, stage>>
  BY DEF LockUart, MutexTake, tcbVars, queueData
<1>2. CASE LockUart(Sweep, "home_lock", "home_print")
  <2>1. /\ place[Sweep] = "home_lock" /\ place' = [place EXCEPT ![Sweep] = "home_print"]
        /\ owner' = [owner EXCEPT ![UartLock] = Sweep]
    BY <1>2 DEF LockUart, MutexTake, Move
  <2>2. /\ place'[Sweep] = "home_print" /\ place'[Radar] = place[Radar]
        /\ owner'[UartLock] = Sweep /\ \A m \in Mutexes \ {UartLock} : owner'[m] = owner[m]
    BY <1>0, <2>1, TwoTasks, AppObjects
  <2>3. AppTypes'
    BY <1>0, <1>1, <2>1 DEF SysInv, AppInv, AppTypes, Places
  <2>4. Homed' /\ UartOwner'
    BY <1>1, <2>1, <2>2 DEF SysInv, AppInv, Homed, UartOwner, Homing, queueVars
  <2>5. LockOwner' /\ RadarFirst' /\ QueueCalls'
    BY <1>1, <2>2, AppObjects DEF SysInv, AppInv, LockOwner, RadarFirst, QueueCalls, cpuVars
  <2> QED BY <2>3, <2>4, <2>5 DEF AppInv
<1>3. CASE LockUart(Radar, "log", "print")
  <2>1. /\ place[Radar] = "log" /\ place' = [place EXCEPT ![Radar] = "print"]
        /\ owner' = [owner EXCEPT ![UartLock] = Radar] /\ stage[Radar] = "out"
    BY <1>3 DEF LockUart, MutexTake, Move
  <2>2. /\ place'[Radar] = "print" /\ place'[Sweep] = place[Sweep]
        /\ owner'[UartLock] = Radar /\ \A m \in Mutexes \ {UartLock} : owner'[m] = owner[m]
    BY <1>0, <2>1, TwoTasks, AppObjects
  <2>3. AppTypes'
    BY <1>0, <1>1, <2>1 DEF SysInv, AppInv, AppTypes, Places
  <2>4. Homed' /\ UartOwner'
    BY <1>1, <2>1, <2>2 DEF SysInv, AppInv, Homed, UartOwner, Homing, queueVars
  <2>5. LockOwner' /\ RadarFirst' /\ QueueCalls'
    BY <1>1, <2>1, <2>2, AppObjects DEF SysInv, AppInv, LockOwner, RadarFirst, QueueCalls, cpuVars
  <2> QED BY <2>3, <2>4, <2>5 DEF AppInv
<1> QED BY <1>2, <1>3

\* uart_lock released after a line: no one waits for it.
LEMMA UnlockUartKeepsApp ==
  ASSUME SysInv, IInv',
         \/ UnlockUart(Sweep, "home_print", "home")
         \/ UnlockUart(Radar, "print", "rest")
  PROVE  AppInv'
<1>0. /\ place \in [Users -> Places] /\ owner \in [Mutexes -> Tasks \cup {NULL}]
      /\ wait_count[UartLock] = 0
  BY DEF SysInv, AppInv, AppTypes, UartOwner, IInv, TypeOK
<1>1. PICK t \in Users : MutexFree(t, UartLock)
  BY <1>0, TwoTasks DEF UnlockUart, MutexRelease, MutexHandoff
<1>2. /\ owner' = [owner EXCEPT ![UartLock] = NULL]
      /\ UNCHANGED <<state, wait_on, queueVars, cpuVars, count, call, pc, stage>>
  BY <1>1 DEF UnlockUart, MutexFree, queueData
<1>3. owner'[UartLock] = NULL /\ \A m \in Mutexes \ {UartLock} : owner'[m] = owner[m]
  BY <1>0, <1>2, AppObjects
<1>4. UartOwner'
  BY <1>0, <1>2, <1>3 DEF UartOwner, queueVars
<1>5. CASE UnlockUart(Sweep, "home_print", "home")
  <2>1. place[Sweep] = "home_print" /\ place' = [place EXCEPT ![Sweep] = "home"]
    BY <1>5 DEF UnlockUart, Move
  <2>2. place'[Sweep] = "home" /\ place'[Radar] = place[Radar]
    BY <1>0, <2>1, TwoTasks
  <2>3. AppTypes'
    BY <1>0, <1>2, <2>1 DEF SysInv, AppInv, AppTypes, Places
  <2>4. Homed'
    BY <1>2, <2>1, <2>2 DEF SysInv, AppInv, Homed, Homing
  <2>5. LockOwner' /\ RadarFirst' /\ QueueCalls'
    BY <1>2, <1>3, <2>2, AppObjects DEF SysInv, AppInv, LockOwner, RadarFirst, QueueCalls, cpuVars
  <2> QED BY <1>4, <2>3, <2>4, <2>5 DEF AppInv
<1>6. CASE UnlockUart(Radar, "print", "rest")
  <2>1. place[Radar] = "print" /\ place' = [place EXCEPT ![Radar] = "rest"]
    BY <1>6 DEF UnlockUart, Move
  <2>2. place'[Radar] = "rest" /\ place'[Sweep] = place[Sweep]
    BY <1>0, <2>1, TwoTasks
  <2>3. AppTypes'
    BY <1>0, <1>2, <2>1 DEF SysInv, AppInv, AppTypes, Places
  <2>4. Homed'
    BY <1>2, <2>1, <2>2 DEF SysInv, AppInv, Homed, Homing
  <2>5. LockOwner' /\ RadarFirst' /\ QueueCalls'
    BY <1>2, <1>3, <2>1, <2>2, AppObjects
       DEF SysInv, AppInv, LockOwner, RadarFirst, QueueCalls, cpuVars
  <2> QED BY <1>4, <2>3, <2>4, <2>5 DEF AppInv
<1> QED BY <1>5, <1>6

\* A task that is inside a queue call is past the homing of the sweep.
LEMMA CallsAfterHoming ==
  ASSUME SysInv, NEW t \in Users, stage[t] # "out"
  PROVE  place[Sweep] \notin Homing
BY TwoTasks DEF SysInv, AppInv, Homed

\* The queue's lock found free.
LEMMA LockTakeKeepsApp ==
  ASSUME SysInv, IInv', NEW t \in Users, LockTake(t), UNCHANGED place
  PROVE  AppInv'
<1>0. /\ stage \in [Users -> Stages] /\ owner \in [Mutexes -> Tasks \cup {NULL}]
      /\ place[Sweep] \notin Homing
  BY CallsAfterHoming DEF SysInv, AppInv, AppTypes, IInv, TypeOK, LockTake
<1>1. /\ App(t) /\ stage[t] = "lock" /\ stage' = [stage EXCEPT ![t] = "data"]
      /\ owner' = [owner EXCEPT ![QLock] = t]
      /\ UNCHANGED <<state, wait_on, queueVars, cpuVars, count, call, pc>>
  BY DEF LockTake, MutexTake, GoTo, tcbVars
<1>2. /\ stage'[t] = "data" /\ \A u \in Users \ {t} : stage'[u] = stage[u]
      /\ owner'[QLock] = t /\ \A m \in Mutexes \ {QLock} : owner'[m] = owner[m]
  BY <1>0, <1>1, AppObjects
<1>3. state[t] = "RUNNING" /\ current_tcb = t
  BY <1>1, CallerRuns, TwoTasks DEF SysInv, App, Thread
<1>4. AppTypes'
  BY <1>0, <1>1 DEF SysInv, AppInv, AppTypes, Stages
<1>5. Homed' /\ UartOwner'
  BY <1>0, <1>1, <1>2, AppObjects DEF SysInv, AppInv, Homed, UartOwner, queueVars
<1>6. CASE t = Sweep
  <2>1. LockOwner' /\ RadarFirst' /\ QueueCalls'
    BY <1>1, <1>2, <1>3, <1>6, TwoTasks, AppObjects
       DEF SysInv, AppInv, LockOwner, RadarFirst, QueueCalls
  <2> QED BY <1>4, <1>5, <2>1 DEF AppInv
<1>7. CASE t = Radar
  <2>1. LockOwner'
    BY <1>1, <1>2, <1>7, TwoTasks, AppObjects DEF SysInv, AppInv, LockOwner, Inside
  <2>2. RadarFirst' /\ QueueCalls'
    BY <1>1, <1>2, <1>3, <1>7, TwoTasks
       DEF SysInv, AppInv, RadarFirst, QueueCalls, cpuVars
  <2> QED BY <1>4, <1>5, <2>1, <2>2 DEF AppInv
<1> QED BY <1>6, <1>7, TwoTasks

\* The queue's lock released: only the sweep finds a waiter, the radar.
LEMMA UnlockKeepsApp ==
  ASSUME SysInv, IInv', NEW t \in Users, Unlock(t), UNCHANGED place
  PROVE  AppInv'
<1>0. /\ stage \in [Users -> Stages] /\ owner \in [Mutexes -> Tasks \cup {NULL}]
      /\ place[Sweep] \notin Homing
      /\ pc \in [Tasks -> {"run", "yield", "resume"}]
      /\ wait_count[UartLock] = 0 /\ wait_count'[UartLock] \in Nat
  BY CallsAfterHoming, AppObjects, KernelAssumption
     DEF SysInv, AppInv, AppTypes, UartOwner, IInv, TypeOK, Unlock
<1>1. /\ App(t) /\ QLock \in holds[t] /\ stage[t] = "unlock"
      /\ stage' = [stage EXCEPT ![t] = IF had_token[t] THEN "post" ELSE "out"]
      /\ UNCHANGED <<count, call, cpuVars>>
  BY DEF Unlock, MutexRelease, MutexHandoff, MutexFree, GoTo
<1>2. owner[QLock] = t /\ state[t] = "RUNNING" /\ current_tcb = t
  BY <1>1, CallerRuns, TwoTasks DEF SysInv, IInv, ObjectInv, MutualExclusion, App, Thread
<1>3. /\ stage'[t] \in {"post", "out"} /\ \A u \in Users \ {t} : stage'[u] = stage[u]
  BY <1>0, <1>1
<1>4. AppTypes'
  BY <1>0, <1>1 DEF SysInv, AppInv, AppTypes, Stages
<1>5. Homed'
  BY <1>0 DEF Homed
<1>6. CASE MutexFree(t, QLock)
  <2>1. /\ owner' = [owner EXCEPT ![QLock] = NULL]
        /\ UNCHANGED <<state, wait_on, queueVars>>
    BY <1>6 DEF MutexFree
  <2>2. owner'[QLock] = NULL /\ \A m \in Mutexes \ {QLock} : owner'[m] = owner[m]
    BY <1>0, <2>1, AppObjects
  <2>3. UartOwner'
    BY <1>0, <2>1, <2>2, AppObjects DEF SysInv, AppInv, UartOwner, queueVars
  <2>4. LockOwner'
    BY <1>1, <1>3, <2>1, <2>2, TwoTasks, AppObjects DEF SysInv, AppInv, LockOwner
  <2>5. RadarFirst' /\ QueueCalls'
    BY <1>1, <1>2, <1>3, <2>1, <2>2, TwoTasks DEF SysInv, AppInv, RadarFirst, QueueCalls
  <2> QED BY <1>4, <1>5, <2>3, <2>4, <2>5 DEF AppInv
<1>7. CASE MutexHandoff(t, QLock)
  <2>1. PICK i \in 0 .. wait_count[QLock] - 1 :
          /\ owner' = [owner EXCEPT ![QLock] = wait_queue[QLock][i]]
          /\ WakeTask(wait_queue[QLock][i])
    BY <1>7 DEF MutexHandoff
  <2> DEFINE w == wait_queue[QLock][i]
  <2>2. /\ w \in Tasks /\ w # t /\ wait_on[w] = QLock /\ call[w] = QLock
        /\ \A o \in Objs : wait_count'[o] <= wait_count[o]
        /\ \A u \in Tasks : state'[u] = IF u = w THEN "READY" ELSE state[u]
        /\ \A u \in Tasks : wait_on'[u] = IF u = w THEN NULL ELSE wait_on[u]
    BY <1>1, <2>1, WakeKeeps, TwoTasks, AppObjects DEF SysInv
  <2> HIDE DEF w
  <2>3. w = Radar /\ t = Sweep
    BY <2>2, TwoTasks DEF SysInv, AppInv, LockOwner
  <2>4. pc'[Sweep] = "yield"
    BY <1>0, <1>7, <2>3, TwoTasks DEF MutexHandoff
  <2>5. owner'[QLock] = Radar /\ \A m \in Mutexes \ {QLock} : owner'[m] = owner[m]
    BY <1>0, <2>1, <2>3, AppObjects DEF w
  <2>6. wait_count'[UartLock] = 0
    BY <1>0, <2>2, AppObjects
  <2>7. UartOwner'
    BY <2>5, <2>6, AppObjects DEF SysInv, AppInv, UartOwner
  <2>8. LockOwner'
    BY <1>1, <1>3, <2>2, <2>3, <2>5, TwoTasks, AppObjects DEF SysInv, AppInv, LockOwner
  <2>9. RadarFirst' /\ QueueCalls'
    BY <1>2, <1>3, <2>2, <2>3, <2>4, TwoTasks DEF SysInv, AppInv, RadarFirst, QueueCalls
  <2> QED BY <1>4, <1>5, <2>7, <2>8, <2>9 DEF AppInv
<1> QED BY <1>6, <1>7 DEF Unlock, MutexRelease

-----------------------------------------------------------------------------
(* The other steps of the sweep.                                           *)

\* What a task's own step or its os_delay leaves alone.
LEMMA DelayEffect ==
  ASSUME IInv, NEW t \in Tasks, NEW ms, Delay(t, ms)
  PROVE  /\ App(t) /\ UNCHANGED <<owner, count, call, cpuVars, queueVars>>
         /\ \A u \in Tasks : wait_on'[u] = wait_on[u] \/ wait_on'[u] = NULL
         /\ \A u \in Tasks \ {t} : state'[u] = state[u]
         /\ \A o \in Objs : wait_count'[o] <= wait_count[o]
<1>1. wait_on \in [Tasks -> Objs \cup {NULL}] /\ state \in [Tasks -> {"READY", "RUNNING", "BLOCKED"}]
  BY DEF IInv, TypeOK
<1>2. \A o \in Objs : wait_count[o] <= wait_count[o]
  BY KernelAssumption DEF IInv, TypeOK
<1> QED BY <1>1, <1>2 DEF Delay, objVars, queueVars

\* The steps of sweep_task itself.
LEMMA SweepKeepsApp ==
  ASSUME SysInv, IInv', HomeStep \/ HomeEnd \/ Turn \/ SetAngle \/ SendAngle
  PROVE  AppInv'
<1>0. /\ place \in [Users -> Places] /\ stage \in [Users -> Stages]
      /\ \A o \in Objs : wait_count[o] <= wait_count[o]
  BY KernelAssumption DEF SysInv, AppInv, AppTypes, IInv, TypeOK
<1>1. CASE HomeStep \/ HomeEnd \/ Turn
  <2>1. /\ App(Sweep) /\ UNCHANGED <<owner, count, call, stage>>
        /\ \A u \in Tasks : wait_on'[u] = wait_on[u] \/ wait_on'[u] = NULL
        /\ \A o \in Objs : wait_count'[o] <= wait_count[o]
    BY <1>1, DelayEffect, TwoTasks DEF SysInv, HomeStep, HomeEnd, Turn, queueData
  <2>2. /\ place[Sweep] \in {"home", "sent"} /\ stage[Sweep] = "out"
        /\ place' = place \/ place' = [place EXCEPT ![Sweep] = "servo"]
    BY <1>1 DEF HomeStep, HomeEnd, Turn, Move, SysInv, AppInv, Homed, Homing
  <2>3. /\ AppTypes' /\ place'[Radar] = place[Radar]
        /\ place'[Sweep] = place[Sweep] \/ place'[Sweep] = "servo"
    BY <1>0, <2>1, <2>2, TwoTasks DEF AppTypes, Places
  <2>4. Homed'
    BY <2>1, <2>2, <2>3, TwoTasks DEF SysInv, AppInv, Homed, Homing
  <2>5. owner[QLock] # Radar
    BY <2>1, SweepRuns DEF App
  <2> QED BY <2>1, <2>2, <2>3, <2>4, <2>5, SweepCalm, AppObjects
<1>2. CASE SetAngle \/ SendAngle
  <2>1. /\ App(Sweep) /\ UNCHANGED <<owner, call, state, wait_on, wait_count>>
        /\ place[Sweep] \in {"servo", "send"}
        /\ \E q \in {"send", "sent"} : place' = [place EXCEPT ![Sweep] = q]
        /\ stage' = stage \/ stage' = [stage EXCEPT ![Sweep] = "lock"]
    BY <1>2 DEF SetAngle, SendAngle, SendTake, SendPoll, SemTake, SemPoll, GoTo, Move,
                vars, tcbVars, objVars, queueVars, clientVars, queueData
  <2>2. /\ AppTypes' /\ place'[Radar] = place[Radar] /\ place'[Sweep] \in {"send", "sent"}
        /\ stage'[Radar] = stage[Radar]
        /\ stage'[Sweep] = stage[Sweep] \/ stage'[Sweep] = "lock"
    BY <1>0, <2>1, TwoTasks DEF AppTypes, Places, Stages
  <2>3. Homed'
    BY <2>2 DEF Homed, Homing
  <2>4. owner[QLock] # Radar /\ state[Sweep] = "RUNNING"
    BY <2>1, SweepRuns DEF App
  <2>5. stage[Sweep] \notin {"token", "wait"}
    BY DEF SysInv, AppInv, QueueCalls
  <2> QED BY <1>0, <2>1, <2>2, <2>3, <2>4, <2>5, SweepCalm, AppObjects
<1> QED BY <1>1, <1>2

\* The sweep never finds the queue's lock taken.
LEMMA SweepFindsLockFree ==
  ASSUME SysInv, App(Sweep), lock[QLock] # 0, owner[QLock] # Sweep
  PROVE  FALSE
<1>1. lock[QLock] = 1 /\ owner[QLock] \in Tasks
  BY AppObjects DEF SysInv, IInv, TypeOK, ObjectInv, LockedIsOwned
<1>2. owner[QLock] = Radar
  BY <1>1, KernelAssumption DEF SysInv, AppInv, LockOwner
<1> QED BY <1>2, SweepRuns DEF App

\* The steps of the sweep inside os_queue_send.
LEMMA SweepCallKeepsApp ==
  ASSUME SysInv, IInv', InCall(Sweep), UNCHANGED place
  PROVE  AppInv'
<1>0. /\ place \in [Users -> Places] /\ stage \in [Users -> Stages] /\ call \in [Tasks -> Objs \cup {NULL}]
      /\ \A o \in Objs : wait_count[o] <= wait_count[o]
      /\ stage[Sweep] \notin {"token", "wait"} /\ Sweep \in Users /\ Radar \in Users
  BY KernelAssumption, TwoTasks DEF SysInv, AppInv, AppTypes, QueueCalls, IInv, TypeOK
<1>1. CASE LockTake(Sweep) \/ Unlock(Sweep)
  BY <1>0, <1>1, LockTakeKeepsApp, UnlockKeepsApp
<1>2. CASE LockBlock(Sweep) \/ LockFail(Sweep)
  BY <1>2, SweepFindsLockFree DEF LockBlock, LockFail, MutexBlock, MutexFull
<1>3. CASE SendWrite(Sweep) \/ SendAdvance(Sweep) \/ Undo(Sweep) \/ Post(Sweep)
  <2>1. /\ App(Sweep) /\ UNCHANGED <<owner, call>> /\ Milder
        /\ stage[Sweep] # "out"
        /\ \E s \in {"advance", "unlock", "out"} : stage' = [stage EXCEPT ![Sweep] = s]
    <3>1. CASE SendWrite(Sweep) \/ SendAdvance(Sweep)
      BY <1>0, <3>1 DEF SendWrite, SendAdvance, GoTo, Milder, vars, tcbVars, objVars, queueVars,
                        clientVars
    <3>2. CASE Undo(Sweep) \/ Post(Sweep)
      <4>1. Wants(Sweep) \in Sems /\ Gives(Sweep) \in Sems
        BY AppObjects DEF Wants, Gives
      <4> QED BY <3>2, <4>1, ReleaseMilder, TwoTasks DEF SysInv, Undo, Post, GoTo
    <3> QED BY <1>3, <3>1, <3>2
  <2>2. /\ AppTypes' /\ stage'[Radar] = stage[Radar]
        /\ stage'[Sweep] \in {"advance", "unlock", "out"}
    BY <1>0, <2>1, TwoTasks DEF AppTypes, Stages
  <2>3. Homed'
    BY <1>0, <2>1, CallsAfterHoming DEF Homed
  <2>4. owner[QLock] # Radar /\ state[Sweep] = "RUNNING"
    BY <2>1, SweepRuns DEF App
  <2>5. state'[Sweep] # "BLOCKED"
    BY <2>1, <2>4, TwoTasks DEF Milder
  <2> QED BY <1>0, <2>1, <2>2, <2>3, <2>4, <2>5, SweepCalm, AppObjects DEF Milder
<1>4. CASE Resume(Sweep)
  <2>1. CASE Yield(Sweep)
    BY <1>0, <1>4, <2>1, YieldKeepsApp DEF Resume, queueData
  <2>2. CASE Return(Sweep)
    <3>1. /\ Thread(Sweep) /\ pc[Sweep] = "resume" /\ UNCHANGED <<owner, count, state, wait_on, wait_count, stage>>
          /\ call' = [call EXCEPT ![Sweep] = NULL]
      BY <1>4, <2>2 DEF Resume, Return, tcbVars, objVars, queueVars, queueData
    <3>2. call'[Radar] = call[Radar]
      BY <1>0, <3>1, TwoTasks
    <3>3. AppTypes' /\ Homed'
      BY <3>1 DEF SysInv, AppInv, AppTypes, Homed
    <3>4. owner[QLock] # Radar /\ state[Sweep] = "RUNNING"
      BY <3>1, SweepRuns
    <3> QED BY <1>0, <3>1, <3>2, <3>3, <3>4, SweepCalm, AppObjects
  <2> QED BY <1>4, <2>1, <2>2 DEF Resume
<1> QED BY <1>0, <1>1, <1>2, <1>3, <1>4, TwoTasks
        DEF InCall, SendWoken, ReceiveWoken, LockWoken, ReceiveRead, ReceiveAdvance

-----------------------------------------------------------------------------
(* The other steps of the radar.                                           *)

\* What os_semaphore_acquire and os_mutex_acquire leave when they block.
LEMMA BlockEffect ==
  ASSUME IInv, NEW t \in Tasks, NEW o \in Objs, NEW timeout, BlockCurrent(t, o, timeout)
  PROVE  /\ call'[t] = o
         /\ \A u \in Tasks \ {t} : state'[u] = state[u] /\ wait_on'[u] = wait_on[u]
         /\ wait_on'[t] = o
         /\ \A x \in Objs \ {o} : wait_count'[x] = wait_count[x]
BY DEF BlockCurrent, IInv, TypeOK

\* The steps of radar_task itself.
LEMMA RadarKeepsApp ==
  ASSUME SysInv, IInv',
         Ping \/ EchoTake \/ EchoBlock \/ EchoWoken \/ ReceiveAngle \/ Rest
  PROVE  AppInv'
<1>0. /\ place \in [Users -> Places] /\ stage \in [Users -> Stages]
      /\ call \in [Tasks -> Objs \cup {NULL}] /\ count \in [Sems -> Nat]
      /\ \A o \in Objs : wait_count[o] \in Nat /\ wait_count[o] <= wait_count[o]
  BY KernelAssumption DEF SysInv, AppInv, AppTypes, IInv, TypeOK
<1>1. /\ place[Radar] \notin {"log", "print"} /\ Thread(Radar) /\ pc[Radar] # "yield"
      /\ \E q \in Places : place' = [place EXCEPT ![Radar] = q]
  BY DEF Ping, EchoTake, EchoBlock, EchoWoken, ReceiveAngle, ReceiveTake, ReceivePoll, Rest,
         SemTake, SemPoll, SemBlock, Delay, Return, App, Move, Places
<1>2. stage[Radar] = "out" /\ owner[QLock] # Radar /\ call[Radar] # QLock
  BY <1>1 DEF SysInv, AppInv, QueueCalls, LockOwner, Inside
<1>3. place' \in [Users -> Places] /\ place'[Sweep] = place[Sweep]
  BY <1>0, <1>1, TwoTasks
<1>4. CASE Ping \/ EchoTake \/ ReceiveAngle
  <2>1. /\ UNCHANGED <<owner, call, state, wait_on, wait_count, current_tcb>>
        /\ stage' = stage \/ (stage' = [stage EXCEPT ![Radar] = "lock"]
                              /\ place' = [place EXCEPT ![Radar] = "log"])
    BY <1>4 DEF Ping, EchoTake, ReceiveAngle, ReceiveTake, ReceivePoll, SemTake, SemPoll, GoTo, Move,
                vars, tcbVars, cpuVars, objVars, queueVars, clientVars, queueData
  <2>2. /\ stage' \in [Users -> Stages] /\ stage'[Sweep] = stage[Sweep]
        /\ stage'[Radar] = "out" \/ (stage'[Radar] = "lock" /\ place'[Radar] = "log")
    BY <1>0, <1>2, <2>1, TwoTasks DEF Stages
  <2>3. Homed'
    <3>1. CASE ReceiveTake(Radar)
      <4>1. count[FilledSlots] > 0
        BY <3>1 DEF ReceiveTake, SemTake
      <4>2. place[Sweep] \notin Homing
        BY <1>0, <4>1, AppObjects DEF SysInv, AppInv, Homed
      <4> QED BY <1>3, <4>2 DEF Homed
    <3>2. CASE Ping \/ EchoTake \/ (ReceivePoll(Radar) /\ Move(Radar, "rest"))
      <4>1. /\ count'[FilledSlots] = count[FilledSlots] /\ stage' = stage
            /\ \E q \in {"acquire", "receive", "rest"} : place' = [place EXCEPT ![Radar] = q]
        BY <1>0, <3>2, AppObjects
           DEF Ping, EchoTake, ReceivePoll, SemTake, SemPoll, Move, vars, objVars, queueData
      <4>2. place'[Radar] \notin {"log", "print"}
        BY <1>0, <4>1, TwoTasks
      <4> QED BY <1>3, <4>1, <4>2 DEF SysInv, AppInv, Homed
    <3> QED BY <1>4, <3>1, <3>2 DEF ReceiveAngle
  <2>4. AppTypes'
    BY <1>3, <2>2 DEF AppTypes
  <2> QED BY <1>0, <1>1, <1>2, <1>3, <2>1, <2>2, <2>3, <2>4, RadarCalm, AppObjects
<1>5. CASE EchoBlock \/ EchoWoken \/ Rest
  <2>1. /\ UNCHANGED <<owner, count, current_tcb, stage>>
        /\ \E q \in {"wait", "receive", "rest", "read"} : place' = [place EXCEPT ![Radar] = q]
    BY <1>5 DEF EchoBlock, EchoWoken, Rest, SemBlock, Delay, Return, Move, objVars, cpuVars, queueData
  <2>2. place'[Radar] \in {"wait", "receive", "rest", "read"}
    BY <1>0, <2>1, TwoTasks
  <2>3. AppTypes' /\ Homed'
    BY <1>0, <1>3, <2>1, <2>2 DEF SysInv, AppInv, AppTypes, Homed
  <2>4. /\ \A u \in Tasks : wait_on'[u] = QLock => wait_on[u] = QLock
        /\ wait_count'[UartLock] <= wait_count[UartLock]
        /\ state'[Sweep] = state[Sweep] /\ call'[Radar] # QLock
    <3>1. CASE EchoBlock
      <4>1. BlockCurrent(Radar, EchoReady, ReadTimeout)
        BY <3>1 DEF EchoBlock, SemBlock
      <4> QED BY <1>0, <4>1, BlockEffect, TwoTasks, AppObjects DEF SysInv
    <3>2. CASE EchoWoken
      <4>1. UNCHANGED <<wait_on, wait_count, state>> /\ call' = [call EXCEPT ![Radar] = NULL]
        BY <3>2 DEF EchoWoken, Return, tcbVars, queueVars
      <4> QED BY <1>0, <4>1, TwoTasks, AppObjects
    <3>3. CASE Rest
      BY <1>2, <3>3, DelayEffect, TwoTasks, AppObjects DEF SysInv, Rest
    <3> QED BY <1>5, <3>1, <3>2, <3>3
  <2> QED BY <1>1, <1>2, <1>3, <2>1, <2>2, <2>3, <2>4, RadarCalm
<1> QED BY <1>4, <1>5

\* The steps of the radar inside os_queue_receive.
LEMMA RadarCallKeepsApp ==
  ASSUME SysInv, IInv', InCall(Radar), UNCHANGED place
  PROVE  AppInv'
<1>0. /\ stage \in [Users -> Stages] /\ call \in [Tasks -> Objs \cup {NULL}]
      /\ \A o \in Objs : wait_count[o] \in Nat /\ wait_count[o] <= wait_count[o]
      /\ stage[Radar] # "token" /\ Sweep \in Users /\ Radar \in Users
      /\ place \in [Users -> Places]
  BY KernelAssumption, TwoTasks DEF SysInv, AppInv, AppTypes, QueueCalls, IInv, TypeOK
<1>1. CASE LockTake(Radar) \/ Unlock(Radar)
  BY <1>0, <1>1, LockTakeKeepsApp, UnlockKeepsApp
<1>2. CASE Resume(Radar)
  <2>1. CASE Yield(Radar)
    BY <1>0, <1>2, <2>1, YieldKeepsApp DEF Resume, queueData
  <2>2. CASE Return(Radar) /\ stage[Radar] # "wait"
    <3>1. /\ Thread(Radar) /\ pc[Radar] = "resume"
          /\ UNCHANGED <<owner, count, state, wait_on, wait_count, stage, current_tcb>>
          /\ call' = [call EXCEPT ![Radar] = NULL]
      BY <1>2, <2>2 DEF Resume, Return, tcbVars, objVars, cpuVars, queueVars, queueData
    <3>2. call'[Radar] # QLock
      BY <1>0, <3>1, TwoTasks, AppObjects
    <3>3. AppTypes' /\ Homed'
      BY <3>1 DEF SysInv, AppInv, AppTypes, Homed
    <3>4. state[Radar] = "RUNNING"
      BY <3>1, CallerRuns, TwoTasks DEF SysInv
    <3>5. /\ owner[QLock] = Radar => stage[Radar] \in Inside \cup {"wait"}
          /\ stage[Radar] # "out" => place[Radar] = "log"
      BY DEF SysInv, AppInv, LockOwner, QueueCalls
    <3> QED BY <1>0, <2>2, <3>1, <3>2, <3>3, <3>4, <3>5, RadarCalm, AppObjects
  <2> QED BY <1>2, <2>1, <2>2 DEF Resume
<1>3. CASE LockBlock(Radar) \/ LockFail(Radar) \/ LockWoken(Radar) \/ Undo(Radar) \/ Post(Radar)
           \/ ReceiveRead(Radar) \/ ReceiveAdvance(Radar)
  <2>1. /\ Thread(Radar) /\ pc[Radar] # "yield" /\ stage[Radar] # "out"
        /\ \E s \in Stages : stage' = [stage EXCEPT ![Radar] = s]
    BY <1>3 DEF LockBlock, LockFail, LockWoken, Undo, Post, ReceiveRead, ReceiveAdvance, MutexBlock,
                MutexFull, SemRelease, SemHandoff, SemGive, App, Return, GoTo, Undone, Stages
  <2>2. /\ state[Radar] = "RUNNING" /\ place[Radar] = "log" /\ place'[Radar] = "log"
        /\ owner[QLock] = Radar => stage[Radar] \in Inside \cup {"wait"}
        /\ call[Radar] = QLock <=> stage[Radar] = "wait"
    BY <2>1, CallerRuns, TwoTasks DEF SysInv, AppInv, LockOwner, QueueCalls
  <2>3. /\ stage'[Sweep] = stage[Sweep] /\ stage' \in [Users -> Stages]
    BY <1>0, <2>1, TwoTasks
  <2>4. AppTypes' /\ Homed'
    BY <1>0, <2>1, <2>3, CallsAfterHoming DEF AppTypes, Homed
  <2>5. CASE LockBlock(Radar)
    <3>1. /\ BlockCurrent(Radar, QLock, WAIT_FOREVER) /\ owner[QLock] # Radar
          /\ UNCHANGED <<owner, current_tcb>> /\ stage' = [stage EXCEPT ![Radar] = "wait"]
      BY <2>5 DEF LockBlock, MutexBlock, GoTo, objVars, cpuVars
    <3>2. /\ call'[Radar] = QLock /\ state'[Sweep] = state[Sweep]
          /\ \A u \in Tasks \ {Radar} : wait_on'[u] = wait_on[u]
          /\ wait_count'[UartLock] = wait_count[UartLock]
      BY <3>1, BlockEffect, TwoTasks, AppObjects DEF SysInv
    <3>3. stage'[Radar] = "wait"
      BY <1>0, <3>1
    <3>4. \A u \in Tasks : wait_on'[u] = QLock => u = Radar \/ wait_on[u] = QLock
      BY <3>2
    <3> QED BY <1>0, <2>1, <2>2, <2>3, <2>4, <3>1, <3>2, <3>3, <3>4, RadarCalm, AppObjects
  <2>6. CASE LockFail(Radar)
    <3>1. /\ owner[QLock] # Radar /\ stage[Radar] = "lock"
          /\ UNCHANGED <<owner, current_tcb, call, state, wait_on, wait_count>>
          /\ \E s \in {"undo", "out"} : stage' = [stage EXCEPT ![Radar] = s]
      BY <2>6 DEF LockFail, MutexFull, GoTo, Undone, objVars, cpuVars, queueVars, clientVars
    <3>2. stage'[Radar] \in {"undo", "out"}
      BY <1>0, <3>1
    <3> QED BY <1>0, <2>1, <2>2, <2>3, <2>4, <3>1, <3>2, RadarCalm, AppObjects
  <2>7. CASE LockWoken(Radar)
    <3>1. /\ UNCHANGED <<owner, current_tcb, state, wait_on, wait_count>> /\ stage[Radar] = "wait"
          /\ call' = [call EXCEPT ![Radar] = NULL]
          /\ stage' = [stage EXCEPT ![Radar] = IF wait_result[Radar] = OS_SUCCESS THEN "data"
                                               ELSE Undone(Radar)]
      BY <2>7 DEF LockWoken, Return, GoTo, tcbVars, objVars, cpuVars, queueVars
    <3>2. owner[QLock] = Radar => wait_result[Radar] = OS_SUCCESS
      BY <2>2, <3>1, TwoTasks, AppObjects DEF SysInv, IInv, ObjectInv, AcquireTellsTruth
    <3>3. /\ stage'[Radar] \in {"data", "undo", "out"}
          /\ wait_result[Radar] = OS_SUCCESS => stage'[Radar] = "data"
      BY <1>0, <3>1 DEF Undone
    <3>4. call'[Radar] # QLock
      BY <1>0, <3>1, TwoTasks, AppObjects
    <3> QED BY <1>0, <2>1, <2>2, <2>3, <2>4, <3>1, <3>2, <3>3, <3>4, RadarCalm, AppObjects DEF Inside
  <2>8. CASE Undo(Radar) \/ Post(Radar)
    <3>1. Wants(Radar) \in Sems /\ Gives(Radar) \in Sems
      BY AppObjects DEF Wants, Gives
    <3>2. /\ Milder /\ UNCHANGED <<owner, call, cpuVars>> /\ stage[Radar] \in {"undo", "post"}
          /\ stage' = [stage EXCEPT ![Radar] = "out"]
      BY <2>8, <3>1, ReleaseMilder, TwoTasks DEF SysInv, Undo, Post, GoTo
    <3>3. stage'[Radar] = "out" /\ current_tcb' = current_tcb
      BY <1>0, <3>2 DEF cpuVars
    <3>4. owner[QLock] # Radar
      BY <2>2, <3>2 DEF Inside
    <3>5. /\ \A u \in Tasks : wait_on'[u] = QLock => wait_on[u] = QLock
          /\ wait_count'[UartLock] <= wait_count[UartLock]
          /\ state'[Sweep] = "BLOCKED" => state[Sweep] = "BLOCKED"
      BY <3>2, TwoTasks, AppObjects DEF Milder
    <3> QED BY <2>1, <2>2, <2>3, <2>4, <3>2, <3>3, <3>4, <3>5, RadarCalm
  <2>9. CASE ReceiveRead(Radar) \/ ReceiveAdvance(Radar)
    <3>1. /\ UNCHANGED <<owner, call, current_tcb, state, wait_on, wait_count>>
          /\ stage[Radar] \in {"data", "advance"}
          /\ \E s \in {"advance", "unlock"} : stage' = [stage EXCEPT ![Radar] = s]
      BY <2>9 DEF ReceiveRead, ReceiveAdvance, GoTo, vars, tcbVars, cpuVars, objVars, queueVars,
                  clientVars
    <3>2. stage'[Radar] \in {"advance", "unlock"}
      BY <1>0, <3>1
    <3> QED BY <1>0, <2>1, <2>2, <2>3, <2>4, <3>1, <3>2, RadarCalm, AppObjects DEF Inside
  <2> QED BY <1>3, <2>5, <2>6, <2>7, <2>8, <2>9
<1> QED BY <1>0, <1>1, <1>2, <1>3, TwoTasks
        DEF InCall, SendWoken, ReceiveWoken, SendWrite, SendAdvance

-----------------------------------------------------------------------------
(* The invariant of the application.                                       *)

\* main() starts the application with both mutexes free and nothing sent.
LEMMA SysInitInv == SysInit => SysInv
<1> SUFFICES ASSUME SysInit
             PROVE  SysInv
  OBVIOUS
<1>0. /\ Init /\ stage = [t \in Users |-> "out"]
      /\ place = [t \in Users |-> IF t = Sweep THEN "home_lock" ELSE "read"]
  BY DEF SysInit, QInit
<1>1. IInv
  BY <1>0, InitInv
<1>2. /\ owner = [m \in Mutexes |-> NULL] /\ wait_count = [o \in Objs |-> 0]
      /\ count[FilledSlots] = 0 /\ wait_on = [t \in Tasks |-> NULL]
      /\ call = [t \in Tasks |-> NULL]
  BY <1>0, QueueAssumption DEF Init, TaskInit, MutexInit, SemaphoreInit, QueueInit
<1>3. AppTypes /\ Homed /\ QueueCalls
  BY <1>0, <1>2, TwoTasks DEF AppTypes, Homed, QueueCalls, Places, Stages, Homing
<1>4. UartOwner /\ LockOwner /\ RadarFirst
  BY <1>0, <1>2, TwoTasks, AppObjects DEF UartOwner, LockOwner, RadarFirst
<1> QED BY <1>1, <1>3, <1>4 DEF SysInv, AppInv

\* Every step of the application keeps the invariant.
LEMMA SysNextInv == SysInv /\ [SysNext]_sysVars => SysInv'
<1> SUFFICES ASSUME SysInv, [SysNext]_sysVars
             PROVE  SysInv'
  OBVIOUS
<1>1. IInv'
  BY SysKernel DEF SysInv
<1>2. CASE UNCHANGED sysVars
  BY <1>1, <1>2 DEF SysInv, AppInv, AppTypes, Homed, UartOwner, LockOwner, RadarFirst, QueueCalls,
                    sysVars, allVars, appVars, queueData, vars, tcbVars, cpuVars, objVars, queueVars,
                    clientVars
<1>3. CASE KernelRuns \/ EchoIsr
  BY <1>1, <1>3, KernelKeepsApp, IsrKeepsApp DEF SysInv
<1>4. CASE SweepStep
  BY <1>1, <1>4, LockUartKeepsApp, UnlockUartKeepsApp, SweepKeepsApp DEF SysInv, SweepStep
<1>5. CASE RadarStep
  BY <1>1, <1>5, LockUartKeepsApp, UnlockUartKeepsApp, RadarKeepsApp DEF SysInv, RadarStep
<1>6. ASSUME NEW t \in Users, CallStep(t)
      PROVE  SysInv'
  BY <1>1, <1>6, SweepCallKeepsApp, RadarCallKeepsApp, TwoTasks DEF SysInv, CallStep, appVars
<1> QED BY <1>2, <1>3, <1>4, <1>5, <1>6 DEF SysNext, TaskRuns

\* The inductive invariant of the application holds in every reachable state.
THEOREM SysInvariance == SysSpec => []SysInv
BY SysInitInv, SysNextInv, PTL DEF SysSpec

\* sweep_task never blocks in os_queue_send, although that takes the queue's lock
\* with WAIT_FOREVER: the radar, of the higher priority, keeps the CPU while it
\* owns the lock.
THEOREM SweepSound == SysSpec => []SweepNeverStalls
<1>1. SysInv => SweepNeverStalls
  BY DEF SysInv, AppInv, QueueCalls, SweepNeverStalls
<1> QED BY <1>1, SysInvariance, PTL

\* Each task is in its own function.
SweepPlaces == {"home_lock", "home_print", "home", "servo", "send", "sent"}
RadarPlaces == {"read", "acquire", "wait", "receive", "log", "print", "rest"}
OwnPlaces ==
  /\ place \in [Users -> Places]
  /\ place[Sweep] \in SweepPlaces /\ place[Radar] \in RadarPlaces

\* No step takes a task out of its function.
LEMMA OwnPlacesNext == OwnPlaces /\ [SysNext]_sysVars => OwnPlaces'
<1> SUFFICES ASSUME OwnPlaces, [SysNext]_sysVars
             PROVE  OwnPlaces'
  OBVIOUS
<1>1. SweepPlaces \subseteq Places /\ RadarPlaces \subseteq Places
  BY DEF SweepPlaces, RadarPlaces, Places
<1>2. CASE SweepStep
  <2>1. place' = place \/ \E q \in SweepPlaces : place' = [place EXCEPT ![Sweep] = q]
    BY <1>2 DEF SweepStep, LockUart, UnlockUart, HomeStep, HomeEnd, SetAngle, SendAngle, Turn, Move,
                SweepPlaces
  <2> QED BY <1>1, <2>1, TwoTasks DEF OwnPlaces
<1>3. CASE RadarStep
  <2>1. \E q \in RadarPlaces : place' = [place EXCEPT ![Radar] = q]
    BY <1>3 DEF RadarStep, Ping, EchoTake, EchoBlock, EchoWoken, ReceiveAngle, Rest, LockUart,
                UnlockUart, Move, RadarPlaces
  <2> QED BY <1>1, <2>1, TwoTasks DEF OwnPlaces
<1>4. CASE UNCHANGED sysVars \/ KernelRuns \/ EchoIsr \/ \E t \in Users : CallStep(t)
  BY <1>4 DEF KernelRuns, EchoIsr, CallStep, appVars, sysVars, OwnPlaces
<1> QED BY <1>2, <1>3, <1>4 DEF SysNext, TaskRuns

\* A task that wants uart_lock always finds it free.
THEOREM UartSound == SysSpec => []UartUncontended
<1>1. SysInv /\ OwnPlaces => UartUncontended
  <2> SUFFICES ASSUME SysInv, OwnPlaces, NEW t \in Users, place[t] \in {"home_lock", "log"}
               PROVE  lock[UartLock] = 0
    BY DEF UartUncontended
  <2>1. place[Sweep] = "home_lock" \/ place[Radar] = "log"
    BY TwoTasks DEF OwnPlaces, SweepPlaces, RadarPlaces
  <2>2. owner[UartLock] = NULL
    BY <2>1 DEF SysInv, AppInv, Homed, Homing, UartOwner
  <2>3. lock[UartLock] \in {0, 1} /\ (lock[UartLock] = 1 => owner[UartLock] \in Tasks)
    BY AppObjects DEF SysInv, IInv, TypeOK, ObjectInv, LockedIsOwned
  <2> QED BY <2>2, <2>3, KernelAssumption
<1>2. SysInit => OwnPlaces
  BY TwoTasks DEF SysInit, OwnPlaces, Places, SweepPlaces, RadarPlaces
<1>3. SysSpec => []OwnPlaces
  BY <1>2, OwnPlacesNext, PTL DEF SysSpec
<1> QED BY <1>1, <1>3, SysInvariance, PTL

-----------------------------------------------------------------------------
(* The angles in sweep_queue.                                              *)

\* The index d entries before index h of the ring.
Back(h, d) == IF d <= h THEN h - d ELSE h - d + Capacity

\* The last of w angles written lie before index h of buffer b, one by one.
Window(w, h, b) == \A d \in 1 .. Capacity : d <= w => b[Back(h, d)] = w - d + 1

\* u of the w angles written are unread and f slots are free; h and t are head and
\* tail of the ring, b is its buffer, g the last angle the radar got, which is none
\* of the unread ones.
RingHolds(u, f, w, h, t, b, g) ==
  /\ u \in Nat /\ f \in Nat /\ w \in Nat /\ g \in Nat
  /\ h \in Indices /\ t \in Indices /\ b \in [Indices -> Nat]
  /\ u + f = Capacity
  /\ u <= w
  /\ t + u = h \/ t + u = h + Capacity
  /\ Window(w, h, b)
  /\ g <= w - u

Bit(b) == IF b THEN 1 ELSE 0

\* The tokens of unread angles and of free slots, those in the hands of the two
\* tasks included.
UnreadAngles ==
  count[FilledSlots] + Bit(stage[Radar] \in {"lock", "wait", "data", "undo"})
                     + Bit(had_token[Sweep] /\ stage[Sweep] \in {"advance", "unlock", "post"})
FreeSlots ==
  count[EmptySlots] + Bit(had_token[Sweep] /\ stage[Sweep] \in {"lock", "data"})
                    + Bit(stage[Radar] \in {"advance", "unlock", "post"})

\* The number of angles that are in the ring or were.
Written == IF stage[Sweep] \in {"lock", "data"} THEN sent - 1 ELSE sent

\* The index after i.
Wrap(i) == IF i + 1 = Capacity THEN 0 ELSE i + 1

\* head and tail as the call in the critical section will leave them.
RingHead == IF stage[Sweep] = "advance" THEN Wrap(head) ELSE head
RingTail ==
  IF (stage[Sweep] = "advance" /\ ~had_token[Sweep]) \/ stage[Radar] = "advance"
  THEN Wrap(tail) ELSE tail

RingOfAngles ==
  RingHolds(UnreadAngles, FreeSlots, Written, RingHead, RingTail, buffer, got[Radar])

RingTypes ==
  /\ head \in Indices /\ tail \in Indices
  /\ had_token \in [Users -> BOOLEAN]
  /\ message \in [Producers -> Nat] /\ got \in [Consumers -> Nat] /\ sent \in Nat

\* The sweep always gets the lock, so every angle it sends is written; the radar
\* is in no call without a token; who touches the ring holds the lock; no one
\* waits for a token.
AngleCalls ==
  /\ stage[Sweep] # "undo"
  /\ stage[Sweep] \in {"lock", "data"} => sent > 0
  /\ stage[Sweep] = "post" => had_token[Sweep]
  /\ stage[Radar] # "out" => had_token[Radar]
  /\ message[Sweep] = sent
  /\ \A t \in Users : stage[t] \in Inside => QLock \in holds[t]
  /\ wait_count[EmptySlots] = 0 /\ wait_count[FilledSlots] = 0

FreshInv == RingTypes /\ AngleCalls /\ RingOfAngles

-----------------------------------------------------------------------------
(* What a write and a read do to the ring.                                 *)

\* Wrap is the addition of the code.
LEMMA WrapIsMod ==
  \A i \in Indices : (i + 1) % Capacity = Wrap(i) /\ Wrap(i) \in Indices
BY ModNext DEF Wrap

\* The entries before an index, seen from the next one.
LEMMA BackOfWrap ==
  ASSUME NEW h \in Indices, NEW d \in 1 .. Capacity
  PROVE  /\ Back(h, d) \in Indices
         /\ d = 1 => Back(Wrap(h), d) = h
         /\ d > 1 => Back(Wrap(h), d) = Back(h, d - 1) /\ Back(h, d - 1) # h
<1>1. Capacity \in Nat \ {0}
  BY QueueAssumption
<1> QED BY <1>1 DEF Back, Wrap, Indices

\* The window of written angles after one more was written at the head.
LEMMA WindowMoves ==
  ASSUME NEW w \in Nat, NEW h \in Indices, NEW b \in [Indices -> Nat],
         Window(w, h, b),
         NEW c, c = [b EXCEPT ![h] = w + 1]
  PROVE  c \in [Indices -> Nat] /\ Window(w + 1, Wrap(h), c)
<1>1. Capacity \in Nat \ {0}
  BY QueueAssumption
<1>2. c \in [Indices -> Nat] /\ c[h] = w + 1 /\ \A i \in Indices : i # h => c[i] = b[i]
  OBVIOUS
<1>3. ASSUME NEW d \in 1 .. Capacity, d <= w + 1
      PROVE  c[Back(Wrap(h), d)] = (w + 1) - d + 1
  <2>1. CASE d = 1
    BY <1>2, <2>1, BackOfWrap
  <2>2. CASE d > 1
    <3> DEFINE e == d - 1
    <3>1. e \in 1 .. Capacity /\ e <= w /\ (w + 1) - d + 1 = w - e + 1
      BY <1>1, <1>3, <2>2
    <3>2. Back(Wrap(h), d) = Back(h, e) /\ Back(h, e) # h
      BY <2>2, BackOfWrap
    <3> HIDE DEF e
    <3>3. Back(h, e) \in Indices
      BY <3>1, BackOfWrap
    <3>4. b[Back(h, e)] = w - e + 1
      BY <3>1 DEF Window
    <3> QED BY <1>2, <3>1, <3>2, <3>3, <3>4
  <2> QED BY <1>1, <2>1, <2>2
<1> QED BY <1>2, <1>3 DEF Window

\* A write with the token of a free slot.
LEMMA RingWrite ==
  ASSUME NEW u, NEW f, NEW w, NEW h, NEW t, NEW b, NEW g,
         RingHolds(u, f, w, h, t, b, g), f > 0
  PROVE  RingHolds(u + 1, f - 1, w + 1, Wrap(h), t, [b EXCEPT ![h] = w + 1], g)
<1>1. Capacity \in Nat \ {0}
  BY QueueAssumption
<1> DEFINE c == [b EXCEPT ![h] = w + 1]
<1>2. c \in [Indices -> Nat] /\ Window(w + 1, Wrap(h), c)
  <2>1. w \in Nat /\ h \in Indices /\ b \in [Indices -> Nat] /\ Window(w, h, b)
    BY DEF RingHolds
  <2>2. c = [b EXCEPT ![h] = w + 1]
    OBVIOUS
  <2> HIDE DEF c
  <2> QED BY <2>1, <2>2, WindowMoves
<1> HIDE DEF c
<1>3. Wrap(h) \in Indices
  BY WrapIsMod DEF RingHolds
<1>4. t + (u + 1) = Wrap(h) \/ t + (u + 1) = Wrap(h) + Capacity
  BY <1>1 DEF RingHolds, Wrap, Indices
<1>5. RingHolds(u + 1, f - 1, w + 1, Wrap(h), t, c, g)
  BY <1>1, <1>2, <1>3, <1>4 DEF RingHolds
<1> QED BY <1>5 DEF c

\* A write without: the tail moves as well.
LEMMA RingOverwrite ==
  ASSUME NEW u, NEW f, NEW w, NEW h, NEW t, NEW b, NEW g,
         RingHolds(u, f, w, h, t, b, g)
  PROVE  RingHolds(u, f, w + 1, Wrap(h), Wrap(t), [b EXCEPT ![h] = w + 1], g)
<1>1. Capacity \in Nat \ {0}
  BY QueueAssumption
<1> DEFINE c == [b EXCEPT ![h] = w + 1]
<1>2. c \in [Indices -> Nat] /\ Window(w + 1, Wrap(h), c)
  <2>1. w \in Nat /\ h \in Indices /\ b \in [Indices -> Nat] /\ Window(w, h, b)
    BY DEF RingHolds
  <2>2. c = [b EXCEPT ![h] = w + 1]
    OBVIOUS
  <2> HIDE DEF c
  <2> QED BY <2>1, <2>2, WindowMoves
<1> HIDE DEF c
<1>3. Wrap(h) \in Indices /\ Wrap(t) \in Indices
  BY WrapIsMod DEF RingHolds
<1>4. Wrap(t) + u = Wrap(h) \/ Wrap(t) + u = Wrap(h) + Capacity
  BY <1>1 DEF RingHolds, Wrap, Indices
<1>5. RingHolds(u, f, w + 1, Wrap(h), Wrap(t), c, g)
  BY <1>1, <1>2, <1>3, <1>4 DEF RingHolds
<1> QED BY <1>5 DEF c

\* A read gets the oldest unread angle.
LEMMA RingRead ==
  ASSUME NEW u, NEW f, NEW w, NEW h, NEW t, NEW b, NEW g,
         RingHolds(u, f, w, h, t, b, g), u > 0
  PROVE  /\ b[t] = w - u + 1
         /\ RingHolds(u - 1, f + 1, w, h, Wrap(t), b, b[t])
<1>1. Capacity \in Nat \ {0}
  BY QueueAssumption
<1>2. u \in 1 .. Capacity /\ u <= w /\ w \in Nat
  BY <1>1 DEF RingHolds
<1>3. Back(h, u) = t
  BY <1>1, <1>2 DEF RingHolds, Back, Indices
<1>4. b[t] = w - u + 1
  BY <1>2, <1>3 DEF RingHolds, Window
<1>5. Wrap(t) \in Indices
  BY WrapIsMod DEF RingHolds
<1>6. Wrap(t) + (u - 1) = h \/ Wrap(t) + (u - 1) = h + Capacity
  BY <1>1, <1>2 DEF RingHolds, Wrap, Indices
<1>7. RingHolds(u - 1, f + 1, w, h, Wrap(t), b, b[t])
  BY <1>1, <1>2, <1>4, <1>5, <1>6 DEF RingHolds
<1> QED BY <1>4, <1>7

-----------------------------------------------------------------------------
(* The steps that leave the queue alone.                                   *)

\* The queue's semaphores, and the objects of the application.
LEMMA QueueSems ==
  /\ EmptySlots \in Sems /\ FilledSlots \in Sems /\ EchoReady \in Sems
  /\ EmptySlots \in Objs /\ FilledSlots \in Objs
  /\ EmptySlots # FilledSlots /\ EchoReady # FilledSlots /\ EchoReady # EmptySlots
  /\ EmptySlots # QLock /\ FilledSlots # QLock
  /\ Capacity \in Nat \ {0} /\ SemMax[EmptySlots] = Capacity /\ SemMax[FilledSlots] = Capacity
BY SentinelAssumption, QueueAssumption, KernelAssumption DEF Objs

\* A step that changes no token of the queue, wakes or parks no one at its
\* semaphores, and lets no task lose the queue's lock.
Quiet ==
  /\ count'[EmptySlots] = count[EmptySlots] /\ count'[FilledSlots] = count[FilledSlots]
  /\ wait_count'[EmptySlots] <= wait_count[EmptySlots]
  /\ wait_count'[FilledSlots] <= wait_count[FilledSlots]
  /\ \A t \in Users : QLock \in holds[t] => QLock \in holds'[t]

\* No one waits for a token after a quiet step, or one that only frees waiters.
LEMMA NoTokenWaiters ==
  ASSUME AngleCalls, IInv',
         wait_count'[EmptySlots] <= wait_count[EmptySlots],
         wait_count'[FilledSlots] <= wait_count[FilledSlots]
  PROVE  wait_count'[EmptySlots] = 0 /\ wait_count'[FilledSlots] = 0
<1>1. wait_count'[EmptySlots] \in Nat /\ wait_count'[FilledSlots] \in Nat
  BY QueueSems, KernelAssumption DEF IInv, TypeOK
<1> QED BY <1>1 DEF AngleCalls

\* A quiet step outside the queue's code.
LEMMA FreshCalm ==
  ASSUME FreshInv, IInv', Quiet, UNCHANGED queueData
  PROVE  FreshInv'
<1>1. wait_count'[EmptySlots] = 0 /\ wait_count'[FilledSlots] = 0
  BY NoTokenWaiters DEF FreshInv, Quiet
<1>2. UNCHANGED <<buffer, head, tail, stage, had_token, message, got, sent>>
  BY DEF queueData, ringVars
<1>3. RingTypes' /\ AngleCalls'
  BY <1>1, <1>2 DEF FreshInv, RingTypes, AngleCalls, Quiet
<1>4. /\ UnreadAngles' = UnreadAngles /\ FreeSlots' = FreeSlots /\ Written' = Written
      /\ RingHead' = RingHead /\ RingTail' = RingTail
  BY <1>2 DEF UnreadAngles, FreeSlots, Written, RingHead, RingTail, Quiet
<1>5. RingOfAngles'
  BY <1>2, <1>4 DEF FreshInv, RingOfAngles
<1> QED BY <1>3, <1>5 DEF FreshInv

\* The kernel's own steps and the handler are quiet.
LEMMA KernelQuiet ==
  ASSUME SysInv, KernelRuns \/ EchoIsr
  PROVE  Quiet /\ UNCHANGED queueData
<1>1. CASE KernelRuns
  <2>1. Milder /\ UNCHANGED <<objVars, clientVars>> /\ UNCHANGED queueData
    BY <1>1, KernelMilder DEF SysInv, KernelRuns
  <2> QED BY <2>1, QueueSems DEF Quiet, Milder, objVars, clientVars
<1>2. CASE EchoIsr
  <2>1. /\ Milder /\ UNCHANGED <<lock, owner, call, holds>>
        /\ \A x \in Sems : x # EchoReady => count'[x] = count[x]
    BY <1>2, ReleaseMilder, QueueSems, TwoTasks DEF SysInv, EchoIsr
  <2> QED BY <1>2, <2>1, QueueSems DEF Quiet, Milder, EchoIsr
<1> QED BY <1>1, <1>2

\* The steps of the two tasks outside the queue are quiet.
LEMMA TasksQuiet ==
  ASSUME SysInv,
         \/ LockUart(Sweep, "home_lock", "home_print") \/ UnlockUart(Sweep, "home_print", "home")
         \/ LockUart(Radar, "log", "print") \/ UnlockUart(Radar, "print", "rest")
         \/ HomeStep \/ HomeEnd \/ SetAngle \/ Turn
         \/ Ping \/ EchoTake \/ EchoBlock \/ EchoWoken \/ Rest
         \/ (ReceivePoll(Radar) /\ Move(Radar, "rest"))
  PROVE  Quiet /\ UNCHANGED queueData
<1>0. /\ \A o \in Objs : wait_count[o] <= wait_count[o]
      /\ wait_count[UartLock] = 0 /\ holds \in [Tasks -> SUBSET Mutexes] /\ count \in [Sems -> Nat]
  BY KernelAssumption DEF SysInv, AppInv, UartOwner, IInv, TypeOK
<1>1. CASE \E t \in Users : \E from, to : LockUart(t, from, to) \/ UnlockUart(t, from, to)
  <2>1. PICK t \in Users : /\ MutexTake(t, UartLock) \/ MutexFree(t, UartLock)
                           /\ UNCHANGED queueData
    BY <1>0, <1>1 DEF LockUart, UnlockUart, MutexRelease, MutexHandoff
  <2>2. \A u \in Users : QLock \in holds[u] => QLock \in holds'[u]
    BY <1>0, <2>1, TwoTasks, AppObjects DEF MutexTake, MutexFree
  <2>3. UNCHANGED <<count, wait_count>>
    BY <2>1 DEF MutexTake, MutexFree, queueVars
  <2> QED BY <1>0, <2>1, <2>2, <2>3, QueueSems DEF Quiet
<1>2. CASE HomeStep \/ HomeEnd \/ Turn \/ Rest
  <2>1. UNCHANGED <<count, wait_count, holds, queueData>>
    BY <1>2 DEF HomeStep, HomeEnd, Turn, Rest, Delay, objVars, queueVars
  <2> QED BY <1>0, <2>1, QueueSems DEF Quiet
<1>3. CASE SetAngle \/ Ping \/ (ReceivePoll(Radar) /\ Move(Radar, "rest"))
  <2>1. UNCHANGED <<count, wait_count, holds, queueData>>
    BY <1>3 DEF SetAngle, Ping, ReceivePoll, SemPoll, vars, objVars, queueVars, clientVars
  <2> QED BY <1>0, <2>1, QueueSems DEF Quiet
<1>4. CASE EchoTake
  <2>1. /\ UNCHANGED <<wait_count, holds, queueData>>
        /\ count' = [count EXCEPT ![EchoReady] = @ - 1]
    BY <1>4 DEF EchoTake, SemTake, queueVars, clientVars
  <2> QED BY <1>0, <2>1, QueueSems DEF Quiet
<1>5. CASE EchoBlock
  <2>1. /\ UNCHANGED <<count, holds, queueData>> /\ BlockCurrent(Radar, EchoReady, ReadTimeout)
    BY <1>5 DEF EchoBlock, SemBlock, objVars
  <2>2. \A x \in Objs \ {EchoReady} : wait_count'[x] = wait_count[x]
    BY <2>1, BlockEffect, TwoTasks, AppObjects DEF SysInv
  <2> QED BY <1>0, <2>1, <2>2, QueueSems DEF Quiet
<1>6. CASE EchoWoken
  <2>1. UNCHANGED <<count, wait_count, queueData>> /\ Return(Radar)
    BY <1>6 DEF EchoWoken, Return, objVars, queueVars
  <2>2. \A u \in Users : QLock \in holds[u] => QLock \in holds'[u]
    BY <1>0, <2>1, TwoTasks DEF Return
  <2> QED BY <1>0, <2>1, <2>2, QueueSems DEF Quiet
<1> QED BY <1>1, <1>2, <1>3, <1>4, <1>5, <1>6, TwoTasks

-----------------------------------------------------------------------------
(* The steps of the queue.                                                 *)

\* The two tasks are not both inside the critical section.
LEMMA OneInside ==
  ASSUME SysInv, FreshInv
  PROVE  ~(stage[Sweep] \in Inside /\ stage[Radar] \in Inside)
<1>1. \A t \in Tasks : \A m \in holds[t] : owner[m] = t
  BY DEF SysInv, IInv, ObjectInv, MutualExclusion
<1> QED BY <1>1, TwoTasks DEF FreshInv, AngleCalls

\* What the invariants say of the variables below.
LEMMA FreshFacts ==
  ASSUME SysInv, FreshInv
  PROVE  /\ stage \in [Users -> Stages] /\ count \in [Sems -> Nat]
         /\ holds \in [Tasks -> SUBSET Mutexes] /\ RingTypes
         /\ UnreadAngles \in Nat /\ FreeSlots \in Nat /\ UnreadAngles + FreeSlots = Capacity
         /\ \A o \in Objs : wait_count[o] <= wait_count[o]
BY KernelAssumption
   DEF SysInv, AppInv, AppTypes, IInv, TypeOK, FreshInv, RingOfAngles, RingHolds

\* A step that only moves a task on in its call: no angle changes hands.
LEMMA FreshMove ==
  ASSUME FreshInv, RingTypes', AngleCalls',
         UnreadAngles' = UnreadAngles, FreeSlots' = FreeSlots, Written' = Written,
         RingHead' = RingHead, RingTail' = RingTail, UNCHANGED <<buffer, got>>
  PROVE  FreshInv'
BY DEF FreshInv, RingOfAngles

\* os_queue_send takes the token of a slot, or goes on without.
LEMMA SendFresh ==
  ASSUME SysInv, IInv', FreshInv, SendAngle
  PROVE  FreshInv'
<1>0. /\ stage \in [Users -> Stages] /\ count \in [Sems -> Nat] /\ RingTypes
      /\ \A o \in Objs : wait_count[o] <= wait_count[o]
  BY FreshFacts
<1>1. /\ stage[Sweep] = "out" /\ stage' = [stage EXCEPT ![Sweep] = "lock"]
      /\ sent' = sent + 1 /\ message' = [message EXCEPT ![Sweep] = sent + 1]
      /\ UNCHANGED <<buffer, head, tail, got, wait_count, holds>>
      /\ \/ /\ count[EmptySlots] > 0 /\ count' = [count EXCEPT ![EmptySlots] = @ - 1]
            /\ had_token' = [had_token EXCEPT ![Sweep] = TRUE]
         \/ /\ UNCHANGED count /\ had_token' = [had_token EXCEPT ![Sweep] = FALSE]
  BY DEF SendAngle, SendTake, SendPoll, NewMessage, SemTake, SemPoll, Token, GoTo, ringVars, vars,
         objVars, queueVars, clientVars
<1>2. /\ stage'[Sweep] = "lock" /\ stage'[Radar] = stage[Radar]
      /\ had_token'[Radar] = had_token[Radar] /\ message'[Sweep] = sent'
  BY <1>0, <1>1, TwoTasks DEF RingTypes
<1>3. wait_count'[EmptySlots] = 0 /\ wait_count'[FilledSlots] = 0
  BY <1>0, <1>1, NoTokenWaiters, QueueSems DEF FreshInv
<1>4. RingTypes'
  <2>1. had_token' \in [Users -> BOOLEAN]
    BY <1>0, <1>1 DEF RingTypes
  <2>2. sent' \in Nat /\ message' = [message EXCEPT ![Sweep] = sent']
    BY <1>0, <1>1 DEF RingTypes
  <2>3. message' \in [Producers -> Nat]
    BY <1>0, <2>2 DEF RingTypes
  <2> QED BY <1>0, <1>1, <2>1, <2>2, <2>3 DEF RingTypes
<1>5. AngleCalls'
  BY <1>0, <1>1, <1>2, <1>3, TwoTasks DEF FreshInv, AngleCalls, RingTypes, Inside
<1>6. /\ Written' = Written /\ RingHead' = RingHead /\ RingTail' = RingTail
  BY <1>0, <1>1, <1>2 DEF Written, RingHead, RingTail, RingTypes
<1>7. UnreadAngles' = UnreadAngles /\ FreeSlots' = FreeSlots
  <2>1. /\ count'[FilledSlots] = count[FilledSlots]
        /\ count'[EmptySlots] + Bit(had_token'[Sweep]) = count[EmptySlots]
    BY <1>0, <1>1, TwoTasks, QueueSems DEF Bit, RingTypes
  <2>2. count[EmptySlots] \in Nat /\ count'[EmptySlots] \in Nat /\ Bit(had_token'[Sweep]) \in Nat
    BY <1>0, <1>1, QueueSems DEF Bit
  <2>3. UnreadAngles' = UnreadAngles
    BY <1>1, <1>2, <2>1 DEF UnreadAngles, Bit
  <2>4. /\ FreeSlots = count[EmptySlots] + Bit(stage[Radar] \in {"advance", "unlock", "post"})
        /\ FreeSlots' = count'[EmptySlots] + Bit(had_token'[Sweep])
                                           + Bit(stage[Radar] \in {"advance", "unlock", "post"})
    BY <1>1, <1>2, <2>2 DEF FreeSlots, Bit
  <2> QED BY <2>1, <2>2, <2>3, <2>4 DEF Bit
<1> QED BY <1>1, <1>4, <1>5, <1>6, <1>7, FreshMove

\* os_queue_receive takes the token of an unread angle.
LEMMA ReceiveFresh ==
  ASSUME SysInv, IInv', FreshInv, ReceiveTake(Radar)
  PROVE  FreshInv'
<1>0. /\ stage \in [Users -> Stages] /\ count \in [Sems -> Nat] /\ RingTypes
      /\ \A o \in Objs : wait_count[o] <= wait_count[o]
  BY FreshFacts
<1>1. /\ stage[Radar] = "out" /\ stage' = [stage EXCEPT ![Radar] = "lock"]
      /\ UNCHANGED <<buffer, head, tail, message, got, sent, wait_count, holds>>
      /\ count[FilledSlots] > 0 /\ count' = [count EXCEPT ![FilledSlots] = @ - 1]
      /\ had_token' = [had_token EXCEPT ![Radar] = TRUE]
  BY DEF ReceiveTake, SemTake, Token, GoTo, ringVars, queueVars, clientVars
<1>2. /\ stage'[Radar] = "lock" /\ stage'[Sweep] = stage[Sweep]
      /\ had_token'[Radar] /\ had_token'[Sweep] = had_token[Sweep]
  BY <1>0, <1>1, TwoTasks DEF RingTypes
<1>3. wait_count'[EmptySlots] = 0 /\ wait_count'[FilledSlots] = 0
  BY <1>0, <1>1, NoTokenWaiters, QueueSems DEF FreshInv
<1>4. RingTypes'
  BY <1>0, <1>1, TwoTasks DEF RingTypes
<1>5. AngleCalls'
  BY <1>0, <1>1, <1>2, <1>3, TwoTasks DEF FreshInv, AngleCalls, RingTypes, Inside
<1>6. /\ Written' = Written /\ RingHead' = RingHead /\ RingTail' = RingTail
  BY <1>0, <1>1, <1>2 DEF Written, RingHead, RingTail, RingTypes
<1>7. UnreadAngles' = UnreadAngles /\ FreeSlots' = FreeSlots
  <2>1. /\ count'[EmptySlots] = count[EmptySlots] /\ count'[FilledSlots] = count[FilledSlots] - 1
        /\ count[FilledSlots] \in Nat
    BY <1>0, <1>1, QueueSems
  <2> QED BY <1>1, <1>2, <2>1 DEF UnreadAngles, FreeSlots, Bit
<1> QED BY <1>1, <1>4, <1>5, <1>6, <1>7, FreshMove

\* The steps that lead a task to the lock, and from a wait for it: its token stays
\* in its hand.
LEMMA LockFresh ==
  ASSUME SysInv, IInv', FreshInv, NEW t \in Users, NEW s \in {"wait", "data", "undo"},
         stage[t] \in {"lock", "wait"}, stage' = [stage EXCEPT ![t] = s],
         t = Sweep => s = "data",
         s = "data" => QLock \in holds'[t],
         Quiet, UNCHANGED <<ringVars, had_token, message, got, sent>>
  PROVE  FreshInv'
<1>0. /\ stage \in [Users -> Stages] /\ count \in [Sems -> Nat] /\ RingTypes
  BY FreshFacts
<1>1. UNCHANGED <<buffer, head, tail>>
  BY DEF ringVars
<1>2. stage'[t] = s /\ \A u \in Users : u # t => stage'[u] = stage[u]
  BY <1>0
<1>3. wait_count'[EmptySlots] = 0 /\ wait_count'[FilledSlots] = 0
  BY NoTokenWaiters DEF FreshInv, Quiet
<1>4. RingTypes'
  BY <1>0, <1>1 DEF RingTypes
<1>5. stage[Sweep] \notin {"token", "wait"}
  BY DEF SysInv, AppInv, QueueCalls
<1>6. CASE t = Sweep
  <2>1. /\ stage[Sweep] = "lock" /\ stage'[Sweep] = "data" /\ stage'[Radar] = stage[Radar]
    BY <1>2, <1>5, <1>6, TwoTasks
  <2>2. AngleCalls'
    BY <1>3, <1>6, <2>1, TwoTasks DEF FreshInv, AngleCalls, Quiet
  <2>3. /\ UnreadAngles' = UnreadAngles /\ FreeSlots' = FreeSlots /\ Written' = Written
        /\ RingHead' = RingHead /\ RingTail' = RingTail
    BY <1>1, <2>1 DEF UnreadAngles, FreeSlots, Written, RingHead, RingTail, Bit, Quiet
  <2> QED BY <1>1, <1>4, <2>2, <2>3, FreshMove
<1>7. CASE t = Radar
  <2>1. /\ stage[Radar] \in {"lock", "wait"} /\ stage'[Radar] = s /\ stage'[Sweep] = stage[Sweep]
    BY <1>2, <1>7, TwoTasks
  <2>2. AngleCalls'
    BY <1>3, <1>7, <2>1, TwoTasks DEF FreshInv, AngleCalls, Quiet, Inside
  <2>3. /\ UnreadAngles' = UnreadAngles /\ FreeSlots' = FreeSlots /\ Written' = Written
        /\ RingHead' = RingHead /\ RingTail' = RingTail
    BY <1>1, <2>1 DEF UnreadAngles, FreeSlots, Written, RingHead, RingTail, Bit, Quiet
  <2> QED BY <1>1, <1>4, <2>2, <2>3, FreshMove
<1> QED BY <1>6, <1>7, TwoTasks

\* The lock released.
LEMMA UnlockFresh ==
  ASSUME SysInv, IInv', FreshInv, NEW t \in Users, Unlock(t)
  PROVE  FreshInv'
<1>0. /\ stage \in [Users -> Stages] /\ holds \in [Tasks -> SUBSET Mutexes] /\ RingTypes
      /\ \A o \in Objs : wait_count[o] <= wait_count[o]
  BY FreshFacts
<1>1. /\ stage[t] = "unlock" /\ App(t)
      /\ stage' = [stage EXCEPT ![t] = IF had_token[t] THEN "post" ELSE "out"]
      /\ UNCHANGED <<buffer, head, tail, had_token, message, got, sent, count>>
      /\ holds' = [holds EXCEPT ![t] = @ \ {QLock}]
  BY DEF Unlock, MutexRelease, MutexHandoff, MutexFree, GoTo, ringVars
<1>2. \A o \in Objs : wait_count'[o] <= wait_count[o]
  <2>1. CASE MutexFree(t, QLock)
    BY <1>0, <2>1 DEF MutexFree, queueVars
  <2>2. CASE MutexHandoff(t, QLock)
    <3>1. PICK i \in 0 .. wait_count[QLock] - 1 : WakeTask(wait_queue[QLock][i])
      BY <2>2 DEF MutexHandoff
    <3> QED BY <1>1, <3>1, WakeKeeps, TwoTasks, AppObjects DEF SysInv
  <2> QED BY <2>1, <2>2 DEF Unlock, MutexRelease
<1>3. wait_count'[EmptySlots] = 0 /\ wait_count'[FilledSlots] = 0
  BY <1>2, NoTokenWaiters, QueueSems DEF FreshInv
<1>4. /\ stage'[t] = IF had_token[t] THEN "post" ELSE "out"
      /\ \A u \in Users : u # t => stage'[u] = stage[u] /\ holds'[u] = holds[u]
  BY <1>0, <1>1, TwoTasks
<1>5. RingTypes'
  BY <1>0, <1>1 DEF RingTypes
<1>6. CASE t = Sweep
  <2>1. /\ stage[Sweep] = "unlock" /\ stage'[Sweep] = (IF had_token[Sweep] THEN "post" ELSE "out")
        /\ stage'[Radar] = stage[Radar] /\ holds'[Radar] = holds[Radar]
    BY <1>1, <1>4, <1>6, TwoTasks
  <2>2. AngleCalls'
    BY <1>1, <1>3, <2>1, TwoTasks DEF FreshInv, AngleCalls, Inside
  <2>3. /\ UnreadAngles' = UnreadAngles /\ FreeSlots' = FreeSlots /\ Written' = Written
        /\ RingHead' = RingHead /\ RingTail' = RingTail
    BY <1>1, <2>1 DEF UnreadAngles, FreeSlots, Written, RingHead, RingTail, Bit
  <2> QED BY <1>1, <1>5, <2>2, <2>3, FreshMove
<1>7. CASE t = Radar
  <2>1. /\ stage[Radar] = "unlock" /\ stage'[Radar] = "post"
        /\ stage'[Sweep] = stage[Sweep] /\ holds'[Sweep] = holds[Sweep]
    BY <1>1, <1>4, <1>7, TwoTasks DEF FreshInv, AngleCalls
  <2>2. AngleCalls'
    BY <1>1, <1>3, <2>1, TwoTasks DEF FreshInv, AngleCalls, Inside
  <2>3. /\ UnreadAngles' = UnreadAngles /\ FreeSlots' = FreeSlots /\ Written' = Written
        /\ RingHead' = RingHead /\ RingTail' = RingTail
    BY <1>1, <2>1 DEF UnreadAngles, FreeSlots, Written, RingHead, RingTail, Bit
  <2> QED BY <1>1, <1>5, <2>2, <2>3, FreshMove
<1> QED BY <1>6, <1>7, TwoTasks

\* The token for the other side, or the one taken in vain, given back.
LEMMA PostFresh ==
  ASSUME SysInv, IInv', FreshInv, NEW t \in Users, Post(t) \/ (t = Radar /\ Undo(t))
  PROVE  FreshInv'
<1>0. /\ stage \in [Users -> Stages] /\ count \in [Sems -> Nat] /\ RingTypes
      /\ UnreadAngles \in Nat /\ FreeSlots \in Nat /\ UnreadAngles + FreeSlots = Capacity
      /\ \A o \in Objs : wait_count[o] <= wait_count[o]
  BY FreshFacts
<1> DEFINE s == IF Post(t) THEN Gives(t) ELSE Wants(t)
<1>1. /\ s = EmptySlots \/ s = FilledSlots
      /\ SemRelease(t, s) /\ stage' = [stage EXCEPT ![t] = "out"]
      /\ UNCHANGED <<buffer, head, tail, had_token, message, got, sent>>
  BY DEF Post, Undo, GoTo, ringVars, Gives, Wants
<1>2. \/ t = Sweep /\ stage[t] = "post" /\ s = FilledSlots
      \/ t = Radar /\ stage[t] = "post" /\ s = EmptySlots
      \/ t = Radar /\ stage[t] = "undo" /\ s = FilledSlots
  BY TwoTasks DEF Post, Undo, Gives, Wants
<1> HIDE DEF s
<1>3. SemGive(t, s)
  BY <1>1 DEF SemRelease, SemHandoff, FreshInv, AngleCalls
<1>4. /\ count' = [count EXCEPT ![s] = IF @ < SemMax[s] THEN @ + 1 ELSE @]
      /\ UNCHANGED <<wait_count, holds>>
  BY <1>3 DEF SemGive, queueVars, clientVars
<1>5. stage'[t] = "out" /\ \A u \in Users : u # t => stage'[u] = stage[u]
  BY <1>0, <1>1
<1>6. RingTypes'
  BY <1>0, <1>1 DEF RingTypes
<1>7. count[EmptySlots] \in Nat /\ count[FilledSlots] \in Nat
  BY <1>0, QueueSems
<1>8. CASE t = Sweep
  <2>1. /\ stage[Sweep] = "post" /\ stage'[Sweep] = "out" /\ stage'[Radar] = stage[Radar]
        /\ had_token[Sweep] /\ s = FilledSlots
    BY <1>2, <1>5, <1>8, TwoTasks DEF FreshInv, AngleCalls
  <2>2. AngleCalls'
    BY <1>1, <1>4, <2>1, TwoTasks DEF FreshInv, AngleCalls, Inside
  <2>3. count[FilledSlots] < Capacity
    BY <1>0, <1>7, <2>1 DEF UnreadAngles, Bit
  <2>4. count'[FilledSlots] = count[FilledSlots] + 1 /\ count'[EmptySlots] = count[EmptySlots]
    BY <1>0, <1>4, <2>1, <2>3, QueueSems
  <2>5. UnreadAngles' = UnreadAngles /\ FreeSlots' = FreeSlots
    BY <1>1, <1>7, <2>1, <2>4 DEF UnreadAngles, FreeSlots, Bit
  <2>6. Written' = Written /\ RingHead' = RingHead /\ RingTail' = RingTail
    BY <1>1, <2>1 DEF Written, RingHead, RingTail
  <2> QED BY <1>1, <1>6, <2>2, <2>5, <2>6, FreshMove
<1>9. CASE t = Radar
  <2>1. /\ stage'[Radar] = "out" /\ stage'[Sweep] = stage[Sweep]
        /\ \/ stage[Radar] = "post" /\ s = EmptySlots
           \/ stage[Radar] = "undo" /\ s = FilledSlots
    BY <1>2, <1>5, <1>9, TwoTasks
  <2>2. AngleCalls'
    BY <1>1, <1>4, <2>1, TwoTasks DEF FreshInv, AngleCalls, Inside
  <2>3. count[s] < Capacity
    BY <1>0, <1>7, <2>1 DEF UnreadAngles, FreeSlots, Bit
  <2>4. /\ s = FilledSlots => /\ count'[FilledSlots] = count[FilledSlots] + 1
                              /\ count'[EmptySlots] = count[EmptySlots]
        /\ s = EmptySlots => /\ count'[EmptySlots] = count[EmptySlots] + 1
                             /\ count'[FilledSlots] = count[FilledSlots]
    BY <1>0, <1>4, <2>1, <2>3, QueueSems
  <2>5. UnreadAngles' = UnreadAngles /\ FreeSlots' = FreeSlots
    BY <1>1, <1>7, <2>1, <2>4 DEF UnreadAngles, FreeSlots, Bit
  <2>6. Written' = Written /\ RingHead' = RingHead /\ RingTail' = RingTail
    BY <1>1, <2>1 DEF Written, RingHead, RingTail
  <2> QED BY <1>1, <1>6, <2>2, <2>5, <2>6, FreshMove
<1> QED BY <1>8, <1>9, TwoTasks

\* The indices advanced: they are where the invariant expected them.
LEMMA AdvanceFresh ==
  ASSUME SysInv, IInv', FreshInv, SendAdvance(Sweep) \/ ReceiveAdvance(Radar)
  PROVE  FreshInv'
<1>0. /\ stage \in [Users -> Stages] /\ RingTypes
      /\ \A o \in Objs : wait_count[o] <= wait_count[o]
  BY FreshFacts
<1>1. UNCHANGED <<buffer, had_token, message, got, sent, count, wait_count, holds>>
  BY DEF SendAdvance, ReceiveAdvance, vars, objVars, queueVars, clientVars
<1>2. ~(stage[Sweep] \in Inside /\ stage[Radar] \in Inside)
  BY OneInside
<1>3. CASE SendAdvance(Sweep)
  <2>1. /\ stage[Sweep] = "advance" /\ stage' = [stage EXCEPT ![Sweep] = "unlock"]
        /\ head' = Wrap(head) /\ tail' = IF had_token[Sweep] THEN tail ELSE Wrap(tail)
    BY <1>0, <1>3, WrapIsMod DEF SendAdvance, GoTo, RingTypes
  <2>2. /\ stage'[Sweep] = "unlock" /\ stage'[Radar] = stage[Radar] /\ stage[Radar] # "advance"
    BY <1>0, <1>2, <2>1, TwoTasks DEF Inside
  <2>3. RingTypes'
    BY <1>0, <1>1, <2>1, WrapIsMod DEF RingTypes
  <2>4. AngleCalls'
    BY <1>1, <2>1, <2>2, TwoTasks DEF FreshInv, AngleCalls, Inside
  <2>5. /\ UnreadAngles' = UnreadAngles /\ FreeSlots' = FreeSlots /\ Written' = Written
        /\ RingHead' = RingHead /\ RingTail' = RingTail
    BY <1>1, <2>1, <2>2 DEF UnreadAngles, FreeSlots, Written, RingHead, RingTail, Bit
  <2> QED BY <1>1, <2>3, <2>4, <2>5, FreshMove
<1>4. CASE ReceiveAdvance(Radar)
  <2>1. /\ stage[Radar] = "advance" /\ stage' = [stage EXCEPT ![Radar] = "unlock"]
        /\ head' = head /\ tail' = Wrap(tail)
    BY <1>0, <1>4, WrapIsMod DEF ReceiveAdvance, GoTo, RingTypes
  <2>2. /\ stage'[Radar] = "unlock" /\ stage'[Sweep] = stage[Sweep] /\ stage[Sweep] # "advance"
    BY <1>0, <1>2, <2>1, TwoTasks DEF Inside
  <2>3. RingTypes'
    BY <1>0, <1>1, <2>1, WrapIsMod DEF RingTypes
  <2>4. AngleCalls'
    BY <1>1, <2>1, <2>2, TwoTasks DEF FreshInv, AngleCalls, Inside
  <2>5. /\ UnreadAngles' = UnreadAngles /\ FreeSlots' = FreeSlots /\ Written' = Written
        /\ RingHead' = RingHead /\ RingTail' = RingTail
    BY <1>1, <2>1, <2>2 DEF UnreadAngles, FreeSlots, Written, RingHead, RingTail, Bit
  <2> QED BY <1>1, <2>3, <2>4, <2>5, FreshMove
<1> QED BY <1>3, <1>4

\* The write of an angle.
LEMMA WriteFresh ==
  ASSUME SysInv, IInv', FreshInv, SendWrite(Sweep)
  PROVE  FreshInv'
<1>0. /\ stage \in [Users -> Stages] /\ count \in [Sems -> Nat] /\ RingTypes
  BY FreshFacts
<1>1. /\ stage[Sweep] = "data" /\ stage' = [stage EXCEPT ![Sweep] = "advance"]
      /\ buffer' = [buffer EXCEPT ![head] = message[Sweep]]
      /\ UNCHANGED <<head, tail, had_token, message, got, sent, count, wait_count, holds>>
  BY DEF SendWrite, GoTo, vars, objVars, queueVars, clientVars
<1>2. /\ stage'[Sweep] = "advance" /\ stage'[Radar] = stage[Radar]
      /\ stage[Radar] # "advance"
  BY <1>0, <1>1, OneInside, TwoTasks DEF Inside
<1>3. RingTypes'
  BY <1>0, <1>1 DEF RingTypes
<1>4. AngleCalls'
  BY <1>1, <1>2, TwoTasks DEF FreshInv, AngleCalls, Inside
<1>5. /\ Written' = Written + 1 /\ message[Sweep] = Written + 1 /\ RingHead = head
      /\ RingHead' = Wrap(head) /\ RingTail = tail
      /\ RingTail' = IF had_token[Sweep] THEN tail ELSE Wrap(tail)
  BY <1>0, <1>1, <1>2 DEF FreshInv, AngleCalls, RingTypes, Written, RingHead, RingTail
<1>6. RingHolds(UnreadAngles, FreeSlots, Written, head, tail, buffer, got[Radar])
  BY <1>5 DEF FreshInv, RingOfAngles
<1>7. buffer' = [buffer EXCEPT ![head] = Written + 1] /\ got' = got
  BY <1>1, <1>5
<1>8. count[EmptySlots] \in Nat /\ count[FilledSlots] \in Nat
  BY <1>0, QueueSems
<1>9. CASE had_token[Sweep]
  <2>1. UnreadAngles' = UnreadAngles + 1 /\ FreeSlots' = FreeSlots - 1 /\ FreeSlots > 0
    BY <1>1, <1>2, <1>8, <1>9 DEF UnreadAngles, FreeSlots, Bit
  <2>2. RingHolds(UnreadAngles + 1, FreeSlots - 1, Written + 1, Wrap(head), tail,
                  [buffer EXCEPT ![head] = Written + 1], got[Radar])
    BY <1>6, <2>1, RingWrite
  <2>3. RingOfAngles'
    BY <1>5, <1>7, <1>9, <2>1, <2>2 DEF RingOfAngles
  <2> QED BY <1>3, <1>4, <2>3 DEF FreshInv
<1>10. CASE ~had_token[Sweep]
  <2>1. UnreadAngles' = UnreadAngles /\ FreeSlots' = FreeSlots
    BY <1>1, <1>2, <1>10 DEF UnreadAngles, FreeSlots, Bit
  <2>2. RingHolds(UnreadAngles, FreeSlots, Written + 1, Wrap(head), Wrap(tail),
                  [buffer EXCEPT ![head] = Written + 1], got[Radar])
    BY <1>6, RingOverwrite
  <2>3. RingOfAngles'
    BY <1>5, <1>7, <1>10, <2>1, <2>2 DEF RingOfAngles
  <2> QED BY <1>3, <1>4, <2>3 DEF FreshInv
<1> QED BY <1>9, <1>10

\* The step AnglesFresh speaks of.
Fresh ==
  got'[Radar] # got[Radar] =>
    got'[Radar] > got[Radar] /\ sent - got'[Radar] <= Capacity

\* The read of an angle: it is newer than the last one, and the oldest of the
\* unread ones, of which there are no more than the ring has slots.
LEMMA ReadFresh ==
  ASSUME SysInv, IInv', FreshInv, ReceiveRead(Radar)
  PROVE  FreshInv' /\ Fresh
<1>0. /\ stage \in [Users -> Stages] /\ count \in [Sems -> Nat] /\ RingTypes
      /\ UnreadAngles \in Nat /\ FreeSlots \in Nat /\ UnreadAngles + FreeSlots = Capacity
  BY FreshFacts
<1>1. /\ stage[Radar] = "data" /\ stage' = [stage EXCEPT ![Radar] = "advance"]
      /\ got' = [got EXCEPT ![Radar] = buffer[tail]]
      /\ UNCHANGED <<buffer, head, tail, had_token, message, sent, count, wait_count, holds>>
  BY DEF ReceiveRead, GoTo, ringVars, vars, objVars, queueVars, clientVars
<1>2. /\ stage'[Radar] = "advance" /\ stage'[Sweep] = stage[Sweep]
      /\ stage[Sweep] \notin {"data", "advance"}
  BY <1>0, <1>1, OneInside, TwoTasks DEF Inside
<1>3. /\ UNCHANGED <<Written, RingHead>> /\ RingTail = tail /\ RingTail' = Wrap(tail)
      /\ Written \in {sent - 1, sent}
  BY <1>1, <1>2 DEF Written, RingHead, RingTail
<1>4. count[EmptySlots] \in Nat /\ count[FilledSlots] \in Nat
  BY <1>0, QueueSems
<1>5. UnreadAngles' = UnreadAngles - 1 /\ FreeSlots' = FreeSlots + 1 /\ UnreadAngles > 0
  BY <1>1, <1>2, <1>4 DEF UnreadAngles, FreeSlots, Bit
<1>6. RingHolds(UnreadAngles, FreeSlots, Written, RingHead, tail, buffer, got[Radar])
  BY <1>3 DEF FreshInv, RingOfAngles
<1>7. /\ buffer[tail] = Written - UnreadAngles + 1
      /\ RingHolds(UnreadAngles - 1, FreeSlots + 1, Written, RingHead, Wrap(tail), buffer, buffer[tail])
  BY <1>5, <1>6, RingRead
<1>8. got'[Radar] = buffer[tail]
  BY <1>0, <1>1, TwoTasks DEF RingTypes
<1>9. RingOfAngles'
  BY <1>1, <1>3, <1>5, <1>7, <1>8 DEF RingOfAngles
<1>10. RingTypes'
  <2>1. buffer[tail] \in Nat
    BY <1>7 DEF RingHolds
  <2>2. got' \in [Consumers -> Nat]
    BY <1>0, <1>1, <2>1 DEF RingTypes
  <2> QED BY <1>0, <1>1, <2>2 DEF RingTypes
<1>11. AngleCalls'
  BY <1>1, <1>2, TwoTasks DEF FreshInv, AngleCalls, Inside
<1>12. Fresh
  <2>1. got[Radar] <= Written - UnreadAngles /\ got[Radar] \in Nat /\ Written \in Nat
    BY <1>6 DEF RingHolds
  <2>2. sent \in Nat /\ Capacity \in Nat /\ UnreadAngles <= Capacity
    BY <1>0, QueueSems DEF RingTypes
  <2> QED BY <1>0, <1>3, <1>7, <1>8, <2>1, <2>2 DEF Fresh
<1> QED BY <1>9, <1>10, <1>11, <1>12 DEF FreshInv

\* A call that returns, or yields, inside the queue.
LEMMA ResumeQuiet ==
  ASSUME SysInv, FreshInv, NEW t \in Users, Yield(t) \/ Return(t)
  PROVE  Quiet
<1>0. /\ holds \in [Tasks -> SUBSET Mutexes] /\ \A o \in Objs : wait_count[o] <= wait_count[o]
  BY FreshFacts
<1>1. UNCHANGED <<count, wait_count>>
  BY DEF Yield, Return, objVars, queueVars
<1>2. \A u \in Users : QLock \in holds[u] => QLock \in holds'[u]
  BY <1>0, TwoTasks DEF Yield, Return
<1> QED BY <1>0, <1>1, <1>2, QueueSems DEF Quiet

\* The lock found free.
LEMMA LockTakeFresh ==
  ASSUME SysInv, IInv', FreshInv, NEW t \in Users, LockTake(t)
  PROVE  FreshInv'
<1>0. /\ holds \in [Tasks -> SUBSET Mutexes] /\ \A o \in Objs : wait_count[o] <= wait_count[o]
  BY FreshFacts
<1>1. /\ stage[t] = "lock" /\ stage' = [stage EXCEPT ![t] = "data"]
      /\ holds' = [holds EXCEPT ![t] = @ \cup {QLock}]
      /\ UNCHANGED <<ringVars, had_token, message, got, sent, count, wait_count>>
  BY DEF LockTake, MutexTake, GoTo, queueVars
<1>2. QLock \in holds'[t] /\ \A u \in Users : QLock \in holds[u] => QLock \in holds'[u]
  BY <1>0, <1>1, TwoTasks
<1>3. Quiet
  BY <1>0, <1>1, <1>2, QueueSems DEF Quiet
<1> QED BY <1>1, <1>2, <1>3, LockFresh

\* The steps of the sweep inside os_queue_send.
LEMMA SweepCallFresh ==
  ASSUME SysInv, IInv', FreshInv, InCall(Sweep)
  PROVE  FreshInv' /\ UNCHANGED got
<1>0. /\ stage[Sweep] \notin {"token", "wait", "undo"} /\ Sweep \in Users /\ Sweep \notin Consumers
  BY TwoTasks DEF SysInv, AppInv, QueueCalls, FreshInv, AngleCalls
<1>1. UNCHANGED got
  BY <1>0 DEF InCall, SendWoken, ReceiveWoken, LockTake, LockBlock, LockWoken, LockFail, Undo,
              SendWrite, SendAdvance, ReceiveRead, ReceiveAdvance, Unlock, Post, Resume, queueData
<1>2. CASE LockBlock(Sweep) \/ LockFail(Sweep)
  <2>1. App(Sweep) /\ lock[QLock] # 0 /\ owner[QLock] # Sweep
    BY <1>2 DEF LockBlock, LockFail, MutexBlock, MutexFull
  <2> QED BY <2>1, SweepFindsLockFree
<1>3. CASE LockTake(Sweep) \/ Unlock(Sweep) \/ Post(Sweep)
  BY <1>0, <1>1, <1>3, LockTakeFresh, UnlockFresh, PostFresh
<1>4. CASE SendWrite(Sweep) \/ SendAdvance(Sweep)
  BY <1>1, <1>4, WriteFresh, AdvanceFresh
<1>5. CASE Resume(Sweep)
  <2>1. (Yield(Sweep) \/ Return(Sweep)) /\ UNCHANGED queueData
    BY <1>5 DEF Resume
  <2> QED BY <1>0, <1>1, <2>1, ResumeQuiet, FreshCalm
<1> QED BY <1>0, <1>2, <1>3, <1>4, <1>5
        DEF InCall, SendWoken, ReceiveWoken, LockWoken, Undo, ReceiveRead, ReceiveAdvance

\* The steps of the radar inside os_queue_receive.
LEMMA RadarCallFresh ==
  ASSUME SysInv, IInv', FreshInv, InCall(Radar)
  PROVE  FreshInv' /\ Fresh
<1>0. /\ stage[Radar] # "token" /\ Radar \in Users /\ Radar \in Tasks /\ Radar \notin Producers
      /\ Radar # Sweep
      /\ stage[Radar] # "out" => had_token[Radar]
      /\ holds \in [Tasks -> SUBSET Mutexes] /\ \A o \in Objs : wait_count[o] <= wait_count[o]
  BY TwoTasks, FreshFacts DEF SysInv, AppInv, QueueCalls, FreshInv, AngleCalls
<1>1. CASE ReceiveRead(Radar)
  BY <1>1, ReadFresh
<1>2. CASE ~ReceiveRead(Radar)
  <2>1. Fresh
    <3>1. UNCHANGED got
      BY <1>0, <1>2 DEF InCall, SendWoken, ReceiveWoken, LockTake, LockBlock, LockWoken, LockFail, Undo,
                        SendWrite, SendAdvance, ReceiveAdvance, Unlock, Post, Resume, queueData
    <3> QED BY <3>1 DEF Fresh
  <2>2. CASE LockTake(Radar) \/ Unlock(Radar) \/ Post(Radar) \/ Undo(Radar)
    BY <1>0, <2>1, <2>2, LockTakeFresh, UnlockFresh, PostFresh
  <2>3. CASE ReceiveAdvance(Radar)
    BY <2>1, <2>3, AdvanceFresh
  <2>4. CASE Resume(Radar)
    <3>1. (Yield(Radar) \/ Return(Radar)) /\ UNCHANGED queueData
      BY <2>4 DEF Resume
    <3> QED BY <1>0, <2>1, <3>1, ResumeQuiet, FreshCalm
  <2>5. CASE LockBlock(Radar)
    <3>1. /\ stage[Radar] = "lock" /\ stage' = [stage EXCEPT ![Radar] = "wait"]
          /\ UNCHANGED <<ringVars, had_token, message, got, sent, count, holds>>
          /\ BlockCurrent(Radar, QLock, WAIT_FOREVER)
      BY <2>5 DEF LockBlock, MutexBlock, GoTo, objVars
    <3>2. \A x \in Objs \ {QLock} : wait_count'[x] = wait_count[x]
      BY <1>0, <3>1, BlockEffect, AppObjects DEF SysInv
    <3>3. Quiet
      BY <1>0, <3>1, <3>2, QueueSems DEF Quiet
    <3> QED BY <1>0, <2>1, <3>1, <3>3, LockFresh
  <2>6. CASE LockFail(Radar)
    <3>1. /\ stage[Radar] = "lock" /\ stage' = [stage EXCEPT ![Radar] = "undo"]
          /\ UNCHANGED <<ringVars, had_token, message, got, sent, count, holds, wait_count>>
      BY <1>0, <2>6 DEF LockFail, MutexFull, GoTo, Undone, objVars, queueVars, clientVars
    <3>2. Quiet
      BY <1>0, <3>1, QueueSems DEF Quiet
    <3> QED BY <1>0, <2>1, <3>1, <3>2, LockFresh
  <2>7. CASE LockWoken(Radar)
    <3>1. /\ stage[Radar] = "wait" /\ Return(Radar)
          /\ stage' = [stage EXCEPT ![Radar] = IF wait_result[Radar] = OS_SUCCESS THEN "data" ELSE "undo"]
          /\ UNCHANGED <<ringVars, had_token, message, got, sent>>
      BY <1>0, <2>7 DEF LockWoken, GoTo, Undone
    <3>2. Quiet
      BY <1>0, <3>1, ResumeQuiet
    <3>3. wait_result[Radar] = OS_SUCCESS => QLock \in holds'[Radar]
      BY <1>0, <3>1, AppObjects DEF Return, SysInv, AppInv, LockOwner
    <3>4. CASE wait_result[Radar] = OS_SUCCESS
      <4>1. stage' = [stage EXCEPT ![Radar] = "data"]
        BY <3>1, <3>4
      <4> QED BY <1>0, <2>1, <3>1, <3>2, <3>3, <3>4, <4>1, LockFresh
    <3>5. CASE wait_result[Radar] # OS_SUCCESS
      <4>1. stage' = [stage EXCEPT ![Radar] = "undo"]
        BY <3>1, <3>5
      <4> QED BY <1>0, <2>1, <3>1, <3>2, <4>1, LockFresh
    <3> QED BY <3>4, <3>5
  <2> QED BY <1>0, <1>2, <2>2, <2>3, <2>4, <2>5, <2>6, <2>7
          DEF InCall, SendWoken, ReceiveWoken, SendWrite, SendAdvance
<1> QED BY <1>1, <1>2

-----------------------------------------------------------------------------
(* The invariant of the angles.                                            *)

\* The ring is empty at first.
LEMMA FreshInit == SysInit => FreshInv
<1> SUFFICES ASSUME SysInit
             PROVE  FreshInv
  OBVIOUS
<1>1. /\ stage = [t \in Users |-> "out"] /\ had_token = [t \in Users |-> FALSE]
      /\ message = [t \in Producers |-> 0] /\ got = [t \in Consumers |-> 0] /\ sent = 0
      /\ buffer = [i \in Indices |-> 0] /\ head = 0 /\ tail = 0
      /\ count = SemInitial /\ wait_count = [o \in Objs |-> 0] /\ holds = [t \in Tasks |-> {}]
  BY DEF SysInit, QInit, Init, SemaphoreInit, QueueInit
<1>2. 0 \in Indices
  BY QueueSems DEF Indices
<1>3. RingTypes
  BY <1>1, <1>2 DEF RingTypes
<1>4. stage[Sweep] = "out" /\ stage[Radar] = "out" /\ message[Sweep] = 0 /\ got[Radar] = 0
  BY <1>1, TwoTasks
<1>5. AngleCalls
  BY <1>1, <1>4, TwoTasks, QueueSems DEF AngleCalls, Inside
<1>6. /\ UnreadAngles = 0 /\ FreeSlots = Capacity /\ Written = 0 /\ RingHead = 0 /\ RingTail = 0
  BY <1>1, <1>4, QueueAssumption DEF UnreadAngles, FreeSlots, Written, RingHead, RingTail, Bit
<1>7. buffer \in [Indices -> Nat]
  BY <1>1
<1>8. RingOfAngles
  BY <1>2, <1>4, <1>6, <1>7, QueueSems DEF RingOfAngles, RingHolds, Window
<1> QED BY <1>3, <1>5, <1>8 DEF FreshInv

\* Every step of the application keeps the invariant, and if it brings the radar
\* an angle, it is a fresh one.
LEMMA FreshNext ==
  SysInv /\ SysInv' /\ FreshInv /\ [SysNext]_sysVars => FreshInv' /\ Fresh
<1> SUFFICES ASSUME SysInv, IInv', FreshInv, [SysNext]_sysVars
             PROVE  FreshInv' /\ Fresh
  BY DEF SysInv
<1>1. CASE UNCHANGED sysVars
  <2>1. /\ UNCHANGED <<count, wait_count, holds, queueData>> /\ UNCHANGED got
    BY <1>1 DEF sysVars, allVars, vars, objVars, queueVars, clientVars, queueData
  <2>2. \A o \in Objs : wait_count[o] <= wait_count[o]
    BY FreshFacts
  <2>3. Quiet
    BY <2>1, <2>2, QueueSems DEF Quiet
  <2> QED BY <2>1, <2>3, FreshCalm DEF Fresh
<1>2. CASE KernelRuns \/ EchoIsr
  <2>1. Quiet /\ UNCHANGED queueData /\ UNCHANGED got
    BY <1>2, KernelQuiet DEF queueData
  <2> QED BY <2>1, FreshCalm DEF Fresh
<1>3. CASE SendAngle
  <2>1. UNCHANGED got
    BY <1>3 DEF SendAngle, SendTake, SendPoll, NewMessage
  <2> QED BY <1>3, <2>1, SendFresh DEF Fresh
<1>4. CASE ReceiveTake(Radar)
  <2>1. UNCHANGED got
    BY <1>4 DEF ReceiveTake
  <2> QED BY <1>4, <2>1, ReceiveFresh DEF Fresh
<1>5. CASE (SweepStep \/ RadarStep) /\ ~SendAngle /\ ~ReceiveTake(Radar)
  <2>1. Quiet /\ UNCHANGED queueData
    BY <1>5, TasksQuiet DEF SweepStep, RadarStep, ReceiveAngle
  <2>2. UNCHANGED got
    BY <2>1 DEF queueData
  <2> QED BY <2>1, <2>2, FreshCalm DEF Fresh
<1>6. ASSUME NEW t \in Users, CallStep(t)
      PROVE  FreshInv' /\ Fresh
  <2>1. CASE t = Sweep
    <3>1. FreshInv' /\ UNCHANGED got
      BY <1>6, <2>1, SweepCallFresh DEF CallStep
    <3> QED BY <3>1 DEF Fresh
  <2>2. CASE t = Radar
    BY <1>6, <2>2, RadarCallFresh DEF CallStep
  <2> QED BY <2>1, <2>2, TwoTasks
<1> QED BY <1>1, <1>2, <1>3, <1>4, <1>5, <1>6 DEF SysNext, TaskRuns

\* The angles reach the radar in the order of the sweep, each at most once, and
\* none is older than the last Capacity ones sent, for any capacity, although the
\* sweep overwrites what the radar is slow to read.
THEOREM FreshSound == SysSpec => AnglesFresh
<1>1. SysSpec => []FreshInv
  BY FreshInit, FreshNext, SysInvariance, PTL DEF SysSpec
<1>2. SysSpec => [][Fresh]_sysVars
  BY <1>1, FreshNext, SysInvariance, PTL DEF SysSpec
<1>3. AnglesFresh <=> [][Fresh]_sysVars
  BY PTL DEF AnglesFresh, Fresh
<1> QED BY <1>2, <1>3, PTL
=============================================================================
