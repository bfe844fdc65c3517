----------------------------- MODULE QueueProofs -----------------------------
(***************************************************************************)
(* The message queue is a client of the kernel: every step of Queue is a   *)
(* step of Kernel or leaves the kernel alone.  So what KernelProofs shows  *)
(* holds under the queue, and the queue's critical section is exclusive.   *)
(***************************************************************************)
EXTENDS QueueProps, KernelProofs

\* Where a user is in its queue call decides which kernel call it is in and
\* which mutex it holds.
Bound(t) ==
  /\ call[t] = IF stage[t] = "token" THEN Wants(t)
               ELSE IF stage[t] = "wait" THEN QLock ELSE NULL
  /\ holds[t] = IF stage[t] \in Inside THEN {QLock} ELSE {}

QInv ==
  /\ call \in [Tasks -> Objs \cup {NULL}]
  /\ holds \in [Tasks -> SUBSET Mutexes]
  /\ stage \in [Users -> Stages]
  /\ \A t \in Users : Bound(t)

\* The objects of the queue are objects of the kernel, and differ.
LEMMA QueueObjects ==
  /\ Users \subseteq Tasks
  /\ QLock \in Mutexes /\ QLock \in Objs /\ QLock # NULL
  /\ NULL \notin Mutexes
  /\ \A t : Wants(t) \in Sems /\ Wants(t) \in Objs /\ Wants(t) \notin Mutexes /\ Wants(t) # NULL
BY QueueAssumption, KernelAssumption DEF Users, Objs, Wants

\* The queue starts with no one in a call.
LEMMA QInitInv == QInit => QInv
BY QueueObjects DEF QInit, Init, QInv, Bound, Inside, Stages

\* A step of one user that moves only its own stage, call and holdings keeps
\* QInv if they still fit together.
LEMMA UserKeeps ==
  ASSUME QInv, NEW t \in Users, NEW s \in Stages, NEW c \in Objs \cup {NULL},
         NEW h \in SUBSET Mutexes,
         GoTo(t, s),
         call' = [call EXCEPT ![t] = c],
         holds' = [holds EXCEPT ![t] = h],
         c = IF s = "token" THEN Wants(t) ELSE IF s = "wait" THEN QLock ELSE NULL,
         h = IF s \in Inside THEN {QLock} ELSE {}
  PROVE  QInv'
<1>1. t \in Tasks
  BY QueueObjects
<1>2. /\ call' \in [Tasks -> Objs \cup {NULL}]
      /\ holds' \in [Tasks -> SUBSET Mutexes]
      /\ stage' \in [Users -> Stages]
  BY <1>1 DEF QInv, GoTo
<1>3. ASSUME NEW u \in Users PROVE Bound(u)'
  <2>1. CASE u = t
    BY <1>1, <2>1 DEF QInv, Bound, GoTo, Wants
  <2>2. CASE u # t
    BY <1>1, <2>2, QueueObjects DEF QInv, Bound, GoTo, Wants
  <2> QED BY <2>1, <2>2
<1> QED BY <1>2, <1>3 DEF QInv

\* A user outside the critical section that waits for nothing.
LEMMA OutsideKeeps ==
  ASSUME QInv, NEW t \in Users, NEW s \in {"out", "lock", "undo", "post"}, GoTo(t, s),
         call' = [call EXCEPT ![t] = NULL], holds' = [holds EXCEPT ![t] = {}]
  PROVE  QInv'
<1>1. s \in Stages /\ s \notin Inside /\ s # "token" /\ s # "wait"
  BY DEF Stages, Inside
<1>2. NULL \in Objs \cup {NULL} /\ {} \in SUBSET Mutexes
  OBVIOUS
<1> QED BY <1>1, <1>2, UserKeeps

\* A user that waits for a token or for the lock.
LEMMA WaitingKeeps ==
  ASSUME QInv, NEW t \in Users, NEW s \in {"token", "wait"}, GoTo(t, s),
         call' = [call EXCEPT ![t] = IF s = "token" THEN Wants(t) ELSE QLock],
         holds' = [holds EXCEPT ![t] = {}]
  PROVE  QInv'
<1>1. s \in Stages /\ s \notin Inside
  BY DEF Stages, Inside
<1>2. (IF s = "token" THEN Wants(t) ELSE QLock) \in Objs \cup {NULL} /\ {} \in SUBSET Mutexes
  BY QueueObjects
<1> QED BY <1>1, <1>2, UserKeeps

\* The calls that take a token, or find none.
LEMMA TokenKeeps ==
  ASSUME QInv, NEW t \in Users,
         SendTake(t) \/ SendPoll(t) \/ ReceiveTake(t) \/ ReceivePoll(t)
  PROVE  QInv' /\ TaskStep(t)
<1>1. Bound(t) /\ stage[t] = "out"
  BY DEF QInv, SendTake, SendPoll, ReceiveTake, ReceivePoll, NewMessage
<1>2. call[t] = NULL /\ holds[t] = {}
  BY <1>1 DEF Bound, Inside
<1>3. UNCHANGED <<call, holds>>
  BY DEF SendTake, SendPoll, ReceiveTake, ReceivePoll, SemTake, SemPoll, vars, clientVars
<1>4. call' = [call EXCEPT ![t] = NULL] /\ holds' = [holds EXCEPT ![t] = {}]
  BY <1>2, <1>3, QueueObjects DEF QInv
<1>5. TaskStep(t)
  BY QueueAssumption DEF SendTake, SendPoll, ReceiveTake, ReceivePoll, TaskStep, SemAcquire, Refused
<1>6. CASE SendTake(t) \/ SendPoll(t) \/ ReceiveTake(t)
  <2>1. GoTo(t, "lock")
    BY <1>6 DEF SendTake, SendPoll, ReceiveTake
  <2> QED BY <1>4, <1>5, <2>1, OutsideKeeps
<1>7. CASE ReceivePoll(t)
  BY <1>3, <1>5, <1>7 DEF ReceivePoll, queueData, QInv, Bound, Wants
<1> QED BY <1>6, <1>7

\* The calls that wait for a token.
LEMMA WaitKeeps ==
  ASSUME QInv, NEW t \in Users, SendBlock(t) \/ ReceiveBlock(t)
  PROVE  QInv' /\ TaskStep(t)
<1>1. Bound(t) /\ stage[t] = "out"
  BY DEF QInv, SendBlock, ReceiveBlock, NewMessage
<1>2. holds[t] = {}
  BY <1>1 DEF Bound, Inside
<1>3. PICK timeout \in Timeouts : SemBlock(t, Wants(t), timeout)
  BY QueueAssumption DEF SendBlock, ReceiveBlock, NewMessage, Wants
<1>4. call' = [call EXCEPT ![t] = Wants(t)] /\ holds' = [holds EXCEPT ![t] = {}]
  BY <1>2, <1>3, QueueObjects DEF SemBlock, BlockCurrent, QInv
<1>5. TaskStep(t)
  BY <1>3, QueueObjects DEF TaskStep, SemAcquire
<1>6. GoTo(t, "token")
  BY DEF SendBlock, ReceiveBlock
<1> QED BY <1>4, <1>5, <1>6, WaitingKeeps

\* The return from a wait, for a token or for the lock.
LEMMA WokenKeeps ==
  ASSUME QInv, NEW t \in Users, SendWoken(t) \/ ReceiveWoken(t) \/ LockWoken(t)
  PROVE  QInv' /\ TaskStep(t)
<1>1. Bound(t) /\ Return(t) /\ TaskStep(t)
  BY DEF QInv, SendWoken, ReceiveWoken, LockWoken, TaskStep
<1>2. call' = [call EXCEPT ![t] = NULL]
  BY <1>1 DEF Return
<1>3. CASE SendWoken(t) \/ ReceiveWoken(t)
  <2>1. stage[t] = "token" /\ call[t] \notin Mutexes /\ holds[t] = {}
    BY <1>1, <1>3, QueueObjects DEF SendWoken, ReceiveWoken, Bound, Inside
  <2>2. holds' = [holds EXCEPT ![t] = {}]
    BY <1>1, <2>1, QueueObjects DEF Return, QInv
  <2>3. GoTo(t, "lock") \/ GoTo(t, "out")
    BY <1>3 DEF SendWoken, ReceiveWoken
  <2> QED BY <1>1, <1>2, <2>2, <2>3, OutsideKeeps
<1>4. CASE LockWoken(t)
  <2>1. stage[t] = "wait" /\ call[t] = QLock /\ holds[t] = {}
    BY <1>1, <1>4 DEF LockWoken, Bound, Inside
  <2>2. CASE wait_result[t] = OS_SUCCESS
    <3>1. holds' = [holds EXCEPT ![t] = {QLock}] /\ GoTo(t, "data")
      BY <1>1, <1>4, <2>1, <2>2, QueueObjects DEF Return, LockWoken
    <3> QED BY <1>1, <1>2, <3>1, UserKeeps, QueueObjects DEF Stages, Inside
  <2>3. CASE wait_result[t] # OS_SUCCESS
    <3>1. holds' = [holds EXCEPT ![t] = {}]
      BY <1>1, <2>1, <2>3, QueueObjects DEF Return, QInv
    <3>2. GoTo(t, "undo") \/ GoTo(t, "out")
      BY <1>4, <2>3 DEF LockWoken, Undone
    <3> QED BY <1>1, <1>2, <3>1, <3>2, OutsideKeeps
  <2> QED BY <2>2, <2>3
<1> QED BY <1>3, <1>4

\* os_mutex_acquire of the queue's lock; the caller holds nothing, so it may.
LEMMA LockKeeps ==
  ASSUME QInv, NEW t \in Users, LockTake(t) \/ LockBlock(t) \/ LockFail(t)
  PROVE  QInv' /\ TaskStep(t)
<1>1. Bound(t) /\ stage[t] = "lock"
  BY DEF QInv, LockTake, LockBlock, LockFail
<1>2. holds[t] = {} /\ call[t] = NULL
  BY <1>1 DEF Bound, Inside
<1>3. TaskStep(t)
  BY <1>2, QueueAssumption DEF LockTake, LockBlock, LockFail, TaskStep, MutexAcquire, MayAcquire
<1>4. CASE LockTake(t)
  <2>1. holds' = [holds EXCEPT ![t] = {QLock}] /\ call' = [call EXCEPT ![t] = NULL]
    BY <1>2, <1>4, QueueObjects DEF LockTake, MutexTake, QInv
  <2>2. GoTo(t, "data")
    BY <1>4 DEF LockTake
  <2> QED BY <1>3, <2>1, <2>2, UserKeeps, QueueObjects DEF Stages, Inside
<1>5. CASE LockBlock(t)
  <2>1. holds' = [holds EXCEPT ![t] = {}] /\ call' = [call EXCEPT ![t] = QLock]
    BY <1>2, <1>5, QueueObjects DEF LockBlock, MutexBlock, BlockCurrent, QInv
  <2>2. GoTo(t, "wait")
    BY <1>5 DEF LockBlock
  <2> QED BY <1>3, <2>1, <2>2, WaitingKeeps
<1>6. CASE LockFail(t)
  <2>1. holds' = [holds EXCEPT ![t] = {}] /\ call' = [call EXCEPT ![t] = NULL]
    BY <1>2, <1>6, QueueObjects DEF LockFail, MutexFull, clientVars, QInv
  <2>2. GoTo(t, "undo") \/ GoTo(t, "out")
    BY <1>6 DEF LockFail, Undone
  <2> QED BY <1>3, <2>1, <2>2, OutsideKeeps
<1> QED BY <1>4, <1>5, <1>6

\* The accesses to the ring leave the kernel alone.
LEMMA RingKeeps ==
  ASSUME QInv, NEW t \in Users,
         SendWrite(t) \/ SendAdvance(t) \/ ReceiveRead(t) \/ ReceiveAdvance(t)
  PROVE  QInv' /\ UNCHANGED vars
<1>1. Bound(t) /\ stage[t] \in Inside /\ UNCHANGED vars
  BY DEF QInv, SendWrite, SendAdvance, ReceiveRead, ReceiveAdvance, Inside
<1>2. call[t] = NULL /\ holds[t] = {QLock}
  BY <1>1 DEF Bound, Inside
<1>3. call' = [call EXCEPT ![t] = NULL] /\ holds' = [holds EXCEPT ![t] = {QLock}]
  BY <1>1, <1>2, QueueObjects DEF QInv, vars, clientVars
<1>4. GoTo(t, "advance") \/ GoTo(t, "unlock")
  BY DEF SendWrite, SendAdvance, ReceiveRead, ReceiveAdvance
<1> QED BY <1>1, <1>3, <1>4, UserKeeps, QueueObjects, ZenonT(60) DEF Stages, Inside

\* The releases: of the lock, and of a token.
LEMMA ReleaseKeeps ==
  ASSUME QInv, NEW t \in Users, Unlock(t) \/ Post(t) \/ Undo(t)
  PROVE  QInv' /\ TaskStep(t)
<1>1. Bound(t)
  BY DEF QInv
<1>2. TaskStep(t)
  BY QueueAssumption DEF Unlock, Post, Undo, TaskStep, Wants, Gives
<1>3. CASE Unlock(t)
  <2>1. holds[t] = {QLock} /\ call[t] = NULL
    BY <1>1, <1>3 DEF Unlock, Bound, Inside
  <2>2. holds' = [holds EXCEPT ![t] = {}] /\ call' = [call EXCEPT ![t] = NULL]
    BY <1>3, <2>1, QueueObjects DEF Unlock, MutexRelease, MutexHandoff, MutexFree, QInv
  <2>3. GoTo(t, "post") \/ GoTo(t, "out")
    BY <1>3 DEF Unlock
  <2> QED BY <1>2, <2>2, <2>3, OutsideKeeps
<1>4. CASE Post(t) \/ Undo(t)
  <2>1. holds[t] = {} /\ call[t] = NULL
    BY <1>1, <1>4 DEF Post, Undo, Bound, Inside
  <2>2. UNCHANGED <<call, holds>>
    BY <1>4 DEF Post, Undo, SemRelease, SemHandoff, SemGive, clientVars
  <2>3. holds' = [holds EXCEPT ![t] = {}] /\ call' = [call EXCEPT ![t] = NULL]
    BY <2>1, <2>2, QueueObjects DEF QInv
  <2>4. GoTo(t, "out")
    BY <1>4 DEF Post, Undo
  <2> QED BY <1>2, <2>3, <2>4, OutsideKeeps
<1> QED BY <1>3, <1>4

\* os_yield, other returns, and os_delay.
LEMMA PauseKeeps ==
  ASSUME QInv, NEW t \in Users, Resume(t) \/ Pause(t)
  PROVE  QInv' /\ TaskStep(t)
<1>1. Bound(t) /\ t \in Tasks
  BY QueueObjects DEF QInv
<1>2. TaskStep(t)
  BY DEF Resume, Pause, TaskStep
<1>3. UNCHANGED <<call, holds>>
  <2>1. CASE Yield(t) \/ \E ms \in Delays : Delay(t, ms)
    BY <2>1 DEF Yield, Delay
  <2>2. CASE Return(t) /\ stage[t] \notin {"token", "wait"}
    <3>1. call[t] = NULL
      BY <1>1, <2>2 DEF Bound
    <3> QED BY <1>1, <2>2, <3>1, QueueObjects DEF Return, QInv
  <2> QED BY <2>1, <2>2 DEF Resume, Pause
<1>4. stage' = stage
  BY DEF Resume, Pause, queueData
<1> QED BY <1>2, <1>3, <1>4 DEF QInv, Bound, Wants

\* Every step of Queue is a step of Kernel or leaves its variables alone.
LEMMA QNextKeeps ==
  ASSUME QInv, [QNext]_allVars
  PROVE  QInv' /\ [Next]_vars
<1>1. CASE KernelStep /\ UNCHANGED queueData
  <2>1. UNCHANGED <<call, holds>>
    BY <1>1 DEF KernelStep, Launch, PendSV, PendSVEnter, ScanStep, SwitchTo, SysTick,
                TickStep, TickSkip, TickCount, TickExpire, TickAdvance, clientVars
  <2> QED BY <1>1, <2>1 DEF QInv, Bound, Wants, queueData, Next
<1>2. ASSUME NEW t \in Users, QTask(t) PROVE QInv' /\ [Next]_vars
  <2>1. QInv' /\ (TaskStep(t) \/ UNCHANGED vars)
    BY <1>2, TokenKeeps, WaitKeeps, WokenKeeps, LockKeeps, RingKeeps, ReleaseKeeps, PauseKeeps
       DEF QTask, InCall
  <2> QED BY <2>1, QueueObjects DEF Next
<1>3. CASE UNCHANGED allVars
  BY <1>3 DEF allVars, queueData, vars, clientVars, QInv, Bound, Wants
<1> QED BY <1>1, <1>2, <1>3 DEF QNext

\* os_queue_send and os_queue_receive use the kernel as any client may: they
\* release only the mutex they hold and never hold two.
THEOREM QueueUsesKernel == QSpec => Spec
<1>1. QInit => Init
  BY DEF QInit
<1> QED BY <1>1, QInitInv, QNextKeeps, PTL DEF QSpec, Spec

\* At most one task works on the ring, for any number of producers, consumers,
\* slots, timeouts and priorities.
THEOREM RingSound == QSpec => []RingExclusive
<1>1. QInv /\ MutualExclusion => RingExclusive
  <2> SUFFICES ASSUME QInv, MutualExclusion, NEW t \in Users, NEW u \in Users,
                      stage[t] \in Inside, stage[u] \in Inside
               PROVE  t = u
    BY DEF RingExclusive
  <2>1. QLock \in holds[t] /\ QLock \in holds[u]
    BY DEF QInv, Bound
  <2> QED BY <2>1, QueueObjects DEF MutualExclusion
<1>2. QSpec => []QInv
  BY QInitInv, QNextKeeps, PTL DEF QSpec
<1> QED BY <1>1, <1>2, QueueUsesKernel, MutexSound, PTL

-----------------------------------------------------------------------------
(* Arithmetic of the ring.                                                 *)

\* An index that is at most one round too far.
LEMMA ModOnce ==
  \A x \in 0 .. 2 * Capacity - 1 :
    x % Capacity = IF x < Capacity THEN x ELSE x - Capacity
<1> TAKE x \in 0 .. 2 * Capacity - 1
<1>1. Capacity \in Nat /\ Capacity > 0
  BY QueueAssumption
<1>2. \A y \in 0 .. Capacity - 1 : y % Capacity = y /\ (y + Capacity) % Capacity = y
  BY <1>1
<1>3. CASE x < Capacity
  BY <1>1, <1>2, <1>3
<1>4. CASE x >= Capacity
  <2>1. x - Capacity \in 0 .. Capacity - 1 /\ (x - Capacity) + Capacity = x
    BY <1>1, <1>4
  <2> QED BY <1>1, <1>2, <1>4, <2>1
<1> QED BY <1>1, <1>3, <1>4

\* The next index.
LEMMA ModNext ==
  \A x \in Indices :
    /\ (x + 1) % Capacity \in Indices
    /\ (x + 1) % Capacity = IF x + 1 = Capacity THEN 0 ELSE x + 1
<1> TAKE x \in Indices
<1>1. Capacity \in Nat /\ Capacity > 0
  BY QueueAssumption
<1> DEFINE y == x + 1
<1>2. y \in 0 .. 2 * Capacity - 1 /\ y = x + 1 /\ x \in 0 .. Capacity - 1
  BY <1>1 DEF Indices
<1> HIDE DEF y
<1>3. y % Capacity = IF y < Capacity THEN y ELSE y - Capacity
  BY <1>2, ModOnce
<1>4. y % Capacity \in Indices /\ y % Capacity = IF y = Capacity THEN 0 ELSE y
  BY <1>1, <1>2, <1>3 DEF Indices
<1> QED BY <1>4 DEF y
=============================================================================
