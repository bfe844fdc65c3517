-------------------------- MODULE InheritanceProofs --------------------------
(***************************************************************************)
(* Priority inheritance for tasks that do not nest mutexes, and the size   *)
(* of the wait queues.                                                     *)
(***************************************************************************)
EXTENDS KernelProofs, FiniteSetTheorems

-----------------------------------------------------------------------------
(* The inductive invariant, on top of IInv.                                *)

\* The owner of a mutex knows of it, or will when its os_mutex_acquire returns.
OwnedIsHeld ==
  \A m \in Mutexes : \A t \in Tasks :
    owner[m] = t => m \in holds[t] \/ call[t] = m

\* Without nesting a task owns at most one mutex, and none while it waits.
OwnsOne == \A m, n \in Mutexes : owner[m] = owner[n] /\ owner[m] \in Tasks => m = n
WaitersOwnNone ==
  \A t \in Tasks : wait_on[t] \in Mutexes => \A m \in Mutexes : owner[m] # t

\* InheritedPriority, in terms of the tasks' back pointers.
LentByAll ==
  \A m \in Mutexes : \A t \in Tasks :
    wait_on[t] = m => current_priority[owner[m]] >= current_priority[t]

NInv == OwnedIsHeld /\ OwnsOne /\ WaitersOwnNone /\ LentByAll

\* The variables that NInv looks at.
nVars == <<wait_on, owner, current_priority, holds, call>>

\* A step that changes no priority, owner, holding or queue of a mutex keeps NInv.
LEMMA NFrame ==
  ASSUME NInv, UNCHANGED nVars
  PROVE  NInv'
BY DEF NInv, OwnedIsHeld, OwnsOne, WaitersOwnNone, LentByAll, nVars

\* A task that waits for a mutex finds an owner.
LEMMA WaitedIsOwned ==
  ASSUME IInv, NEW t \in Tasks, NEW m \in Mutexes, wait_on[t] = m
  PROVE  owner[m] \in Tasks
<1>1. wait_count[m] \in Nat /\ wait_count[m] > 0 /\ m \in Objs
  BY KernelAssumption DEF IInv, TypeOK, ObjectInv, QueueIntegrity, Objs
<1> QED BY <1>1 DEF IInv, TypeOK, ObjectInv, NoMissedRelease, LockedIsOwned

\* A task in its own code that holds no mutex owns none.
LEMMA FreeCallerOwnsNone ==
  ASSUME IInv, NInv, NEW t \in Tasks, App(t), holds[t] = {}
  PROVE  \A m \in Mutexes : owner[m] # t
BY KernelAssumption DEF IInv, ObjectInv, CallMatches, NInv, OwnedIsHeld, App, Objs

\* Tasks that leave a queue, as TickExpire and wake_task make them.
LEMMA LeaveKeeps ==
  ASSUME IInv, NInv, NEW t \in Tasks, wait_on' = [wait_on EXCEPT ![t] = NULL],
         UNCHANGED <<owner, current_priority, holds, call>>
  PROVE  NInv'
<1>1. \A u \in Tasks : wait_on'[u] # NULL => wait_on'[u] = wait_on[u]
  BY DEF IInv, TypeOK
<1>2. NULL \notin Mutexes
  BY KernelAssumption DEF Objs
<1> QED BY <1>1, <1>2 DEF NInv, OwnedIsHeld, OwnsOne, WaitersOwnNone, LentByAll

\* The return of a call keeps NInv: the mutex it brings is the only one held.
LEMMA NReturn ==
  ASSUME IInv, NInv, NEW t \in Tasks, Return(t)
  PROVE  NInv'
<1>1. /\ Thread(t) /\ pc[t] = "resume"
      /\ call' = [call EXCEPT ![t] = NULL]
      /\ holds' = IF call[t] \in Mutexes /\ wait_result[t] = OS_SUCCESS
                  THEN [holds EXCEPT ![t] = @ \cup {call[t]}] ELSE holds
      /\ UNCHANGED <<wait_on, owner, current_priority>>
  BY DEF Return, tcbVars, objVars
<1>2. state[t] # "BLOCKED"
  BY <1>1, CallerRuns
<1>3. \A m \in Mutexes : owner[m] = t /\ call[t] = m => wait_result[t] = OS_SUCCESS
  BY <1>2 DEF IInv, ObjectInv, AcquireTellsTruth
<1>4. OwnedIsHeld'
  BY <1>1, <1>3 DEF NInv, OwnedIsHeld, IInv, TypeOK
<1> QED BY <1>1, <1>4 DEF NInv, OwnsOne, WaitersOwnNone, LentByAll

\* os_mutex_acquire of a free mutex keeps NInv: the caller held none.
LEMMA NTake ==
  ASSUME IInv, NInv, NEW t \in Tasks, NEW m \in Mutexes, holds[t] = {}, MutexTake(t, m)
  PROVE  NInv'
<1>0. TypeOK /\ NULL \notin Mutexes /\ NULL \notin Tasks /\ m \in Objs
  BY KernelAssumption DEF IInv, Objs
<1>1. /\ App(t) /\ lock[m] = 0
      /\ owner' = [owner EXCEPT ![m] = t]
      /\ holds' = [holds EXCEPT ![t] = @ \cup {m}]
      /\ UNCHANGED <<wait_on, current_priority, call>>
  BY DEF MutexTake, tcbVars
<1>2. \A n \in Mutexes : owner[n] # t
  BY <1>1, FreeCallerOwnsNone
<1>3. \A u \in Tasks : wait_on[u] # m
  <2>1. wait_count[m] = 0
    BY <1>1 DEF IInv, ObjectInv, NoMissedRelease
  <2> QED BY <1>0, <2>1 DEF IInv, ObjectInv, QueueIntegrity
<1>4. wait_on[t] = NULL
  BY <1>1, CallerRuns DEF App
<1>5. OwnedIsHeld'
  BY <1>0, <1>1 DEF NInv, OwnedIsHeld, TypeOK
<1>6. OwnsOne'
  BY <1>0, <1>1, <1>2 DEF NInv, OwnsOne, TypeOK
<1>7. WaitersOwnNone' /\ LentByAll'
  BY <1>0, <1>1, <1>3, <1>4 DEF NInv, WaitersOwnNone, LentByAll, TypeOK
<1> QED BY <1>5, <1>6, <1>7 DEF NInv

\* The donation of os_mutex_acquire reaches the owner, who waits for nothing.
LEMMA NDonate ==
  ASSUME IInv, NInv, NEW t \in Tasks, NEW m \in Mutexes, lock[m] # 0,
         \A n \in Mutexes : owner[n] # t,
         current_priority' = Donated(t, m), owner' = owner
  PROVE  /\ \A n \in Mutexes : \A u \in Tasks :
              wait_on[u] = n => current_priority'[owner[n]] >= current_priority'[u]
         /\ current_priority'[owner[m]] >= current_priority'[t]
<1>1. owner[m] \in Tasks /\ current_priority' \in [Tasks -> Nat]
  BY DonatedKeeps
<1>2. /\ current_priority \in [Tasks -> Nat]
      /\ \A u \in Tasks : current_priority'[u] >= current_priority[u]
      /\ \A u \in Tasks : u # owner[m] => current_priority'[u] = current_priority[u]
      /\ current_priority'[owner[m]] >= current_priority[t]
  BY <1>1 DEF IInv, TypeOK, Donated
<1>3. ASSUME NEW n \in Mutexes, NEW u \in Tasks, wait_on[u] = n
      PROVE  current_priority'[owner[n]] >= current_priority'[u]
  <2>1. owner[n] \in Tasks
    BY <1>3, WaitedIsOwned
  <2>2. u # owner[m] /\ current_priority[owner[n]] >= current_priority[u]
    BY <1>3 DEF NInv, WaitersOwnNone, LentByAll
  <2> QED BY <1>1, <1>2, <2>1, <2>2
<1> QED BY <1>1, <1>2, <1>3

\* os_mutex_acquire that blocks keeps NInv: it lends its priority to the owner.
LEMMA NBlock ==
  ASSUME IInv, NInv, NEW t \in Tasks, NEW m \in Mutexes, holds[t] = {},
         NEW timeout, MutexBlock(t, m, timeout)
  PROVE  NInv'
<1>0. TypeOK /\ NULL \notin Mutexes /\ m \in Objs
  BY KernelAssumption DEF IInv, Objs
<1>1. /\ App(t) /\ lock[m] # 0
      /\ current_priority' = Donated(t, m)
      /\ wait_on' = [wait_on EXCEPT ![t] = m]
      /\ call' = [call EXCEPT ![t] = m]
      /\ owner' = owner /\ holds' = holds
  BY DEF MutexBlock, BlockCurrent, objVars
<1>2. \A n \in Mutexes : owner[n] # t
  BY <1>1, FreeCallerOwnsNone
<1>3. /\ \A n \in Mutexes : \A u \in Tasks :
           wait_on[u] = n => current_priority'[owner[n]] >= current_priority'[u]
      /\ current_priority'[owner[m]] >= current_priority'[t]
  BY <1>1, <1>2, NDonate
<1>4. OwnedIsHeld' /\ OwnsOne' /\ WaitersOwnNone'
  BY <1>0, <1>1, <1>2 DEF NInv, OwnedIsHeld, OwnsOne, WaitersOwnNone, TypeOK
<1>5. LentByAll'
  BY <1>0, <1>1, <1>3 DEF LentByAll, TypeOK
<1> QED BY <1>4, <1>5 DEF NInv

\* os_mutex_acquire that finds the queue full keeps NInv: the owner's priority
\* only grows.
LEMMA NFull ==
  ASSUME IInv, NInv, NEW t \in Tasks, NEW m \in Mutexes, holds[t] = {},
         NEW timeout, MutexFull(t, m, timeout)
  PROVE  NInv'
<1>1. /\ App(t) /\ lock[m] # 0
      /\ current_priority' = Donated(t, m)
      /\ UNCHANGED <<wait_on, call, owner, holds>>
  BY DEF MutexFull, objVars, clientVars
<1>2. \A n \in Mutexes : owner[n] # t
  BY <1>1, FreeCallerOwnsNone
<1>3. \A n \in Mutexes : \A u \in Tasks :
        wait_on[u] = n => current_priority'[owner[n]] >= current_priority'[u]
  BY <1>1, <1>2, NDonate
<1> QED BY <1>1, <1>3 DEF NInv, OwnedIsHeld, OwnsOne, WaitersOwnNone, LentByAll

\* The drop of os_mutex_release takes nothing from the waiters of other mutexes.
LEMMA NDrop ==
  ASSUME IInv, NInv, NEW t \in Tasks, NEW m \in Mutexes, owner[m] = t,
         wait_on[t] = NULL, NEW n \in Mutexes, n # m, NEW u \in Tasks, wait_on[u] = n
  PROVE  Dropped(m)[owner[n]] >= Dropped(m)[u]
<1>1. owner[n] \in Tasks /\ owner[n] # t
  BY WaitedIsOwned DEF NInv, OwnsOne
<1>2. u # t
  BY KernelAssumption DEF Objs
<1>3. current_priority[owner[n]] >= current_priority[u]
  BY DEF NInv, LentByAll
<1> QED BY <1>1, <1>2, <1>3, DroppedKeeps

\* os_mutex_release with a waiter keeps NInv: the new owner is the waiter of the
\* highest priority, so it needs nothing lent.
LEMMA NHandoff ==
  ASSUME IInv, NInv, NEW t \in Tasks, NEW m \in Mutexes, MutexHandoff(t, m)
  PROVE  NInv'
<1>0. /\ TypeOK /\ ObjectInv /\ NULL \notin Mutexes /\ m \in Objs /\ Mutexes \subseteq Objs
      /\ NULL \notin Tasks /\ wait_count[m] \in Nat
  BY KernelAssumption DEF IInv, Objs, TypeOK
<1>1. PICK i \in 0 .. wait_count[m] - 1 :
        /\ Picked(m, i, Dropped(m))
        /\ owner' = [owner EXCEPT ![m] = wait_queue[m][i]]
        /\ WakeTask(wait_queue[m][i])
  BY DEF MutexHandoff
<1>2. /\ App(t) /\ m \in holds[t]
      /\ current_priority' = Dropped(m)
      /\ holds' = [holds EXCEPT ![t] = @ \ {m}]
      /\ call' = call
  BY DEF MutexHandoff
<1> DEFINE w == wait_queue[m][i]
<1>3. /\ w \in Tasks /\ w # t /\ wait_on[w] = m /\ call[w] = m
      /\ \A u \in Tasks : wait_on'[u] = IF u = w THEN NULL ELSE wait_on[u]
  BY <1>0, <1>1, <1>2, WakeKeeps
<1>4. owner' = [owner EXCEPT ![m] = w]
  BY <1>1
<1>5. owner[m] = t /\ wait_on[t] = NULL
  BY <1>0, <1>2, CallerRuns DEF ObjectInv, MutualExclusion, App
<1>6. ASSUME NEW u \in Tasks, wait_on[u] = m
      PROVE  Dropped(m)[w] >= Dropped(m)[u]
  <2>1. PICK j \in 0 .. wait_count[m] - 1 : wait_queue[m][j] = u
    BY <1>0, <1>6 DEF ObjectInv, QueueIntegrity
  <2>2. Dropped(m) \in [Tasks -> Nat]
    BY <1>5, DroppedKeeps
  <2> QED BY <1>0, <1>1, <1>3, <2>1, <2>2 DEF Picked
<1> HIDE DEF w
<1>7. OwnedIsHeld'
  BY <1>0, <1>2, <1>3, <1>4 DEF NInv, OwnedIsHeld, TypeOK
<1>8. \A n \in Mutexes : owner[n] # w
  BY <1>3 DEF NInv, WaitersOwnNone
<1>9. OwnsOne'
  BY <1>0, <1>3, <1>4, <1>8 DEF NInv, OwnsOne, TypeOK
<1>10. WaitersOwnNone'
  BY <1>0, <1>3, <1>4 DEF NInv, WaitersOwnNone, TypeOK
<1>11. ASSUME NEW n \in Mutexes, NEW u \in Tasks, wait_on'[u] = n
       PROVE  current_priority'[owner'[n]] >= current_priority'[u]
  <2>1. u # w /\ wait_on[u] = n
    BY <1>0, <1>3, <1>11
  <2>2. CASE n = m
    <3>1. owner'[n] = w
      BY <1>0, <1>4, <2>2 DEF TypeOK
    <3> QED BY <1>2, <1>6, <2>1, <2>2, <3>1
  <2>3. CASE n # m
    <3>1. owner'[n] = owner[n]
      BY <1>0, <1>4, <2>3 DEF TypeOK
    <3>2. Dropped(m)[owner[n]] >= Dropped(m)[u]
      BY <1>5, <2>1, <2>3, NDrop
    <3> QED BY <1>2, <3>1, <3>2
  <2> QED BY <2>2, <2>3
<1>12. LentByAll'
  BY <1>11 DEF LentByAll
<1> QED BY <1>7, <1>9, <1>10, <1>12 DEF NInv

\* os_mutex_release without a waiter keeps NInv.
LEMMA NFree ==
  ASSUME IInv, NInv, NEW t \in Tasks, NEW m \in Mutexes, MutexFree(t, m)
  PROVE  NInv'
<1>0. TypeOK /\ ObjectInv /\ NULL \notin Mutexes /\ NULL \notin Tasks /\ m \in Objs
  BY KernelAssumption DEF IInv, Objs
<1>1. /\ App(t) /\ m \in holds[t] /\ wait_count[m] = 0
      /\ owner' = [owner EXCEPT ![m] = NULL]
      /\ current_priority' = Dropped(m)
      /\ holds' = [holds EXCEPT ![t] = @ \ {m}]
      /\ UNCHANGED <<wait_on, call>>
  BY DEF MutexFree
<1>2. owner[m] = t /\ wait_on[t] = NULL
  BY <1>0, <1>1, CallerRuns DEF ObjectInv, MutualExclusion, App
<1>3. \A u \in Tasks : wait_on[u] # m
  BY <1>0, <1>1 DEF ObjectInv, QueueIntegrity
<1>4. OwnedIsHeld' /\ OwnsOne' /\ WaitersOwnNone'
  BY <1>0, <1>1 DEF NInv, OwnedIsHeld, OwnsOne, WaitersOwnNone, TypeOK
<1>5. ASSUME NEW n \in Mutexes, NEW u \in Tasks, wait_on'[u] = n
      PROVE  current_priority'[owner'[n]] >= current_priority'[u]
  <2>1. n # m /\ wait_on[u] = n
    BY <1>1, <1>3, <1>5
  <2>2. owner'[n] = owner[n]
    BY <1>0, <1>1, <2>1 DEF TypeOK
  <2>3. Dropped(m)[owner[n]] >= Dropped(m)[u]
    BY <1>2, <2>1, NDrop
  <2> QED BY <1>1, <2>2, <2>3
<1>6. LentByAll'
  BY <1>5 DEF LentByAll
<1> QED BY <1>4, <1>6 DEF NInv

\* Every step keeps NInv when tasks do not nest mutexes.
LEMMA NNext ==
  ASSUME Nested = FALSE, IInv, NInv, [Next]_vars
  PROVE  NInv'
<1>1. CASE UNCHANGED nVars
  BY <1>1, NFrame
<1>2. CASE UNCHANGED vars
  BY <1>1, <1>2 DEF vars, nVars, tcbVars, objVars, clientVars
<1>3. CASE KernelStep
  <2>1. CASE TickExpire
    <3>1. /\ tick_i \in Tasks /\ wait_on' = [wait_on EXCEPT ![tick_i] = NULL]
          /\ UNCHANGED <<owner, current_priority, holds, call>>
      BY <2>1 DEF TickExpire, TickAdvance, objVars, clientVars
    <3> QED BY <3>1, LeaveKeeps
  <2>2. CASE ~TickExpire
    <3>1. UNCHANGED nVars
      BY <1>3, <2>2 DEF KernelStep, Launch, PendSV, PendSVEnter, ScanStep, SwitchTo, SysTick,
                        TickStep, TickSkip, TickCount, TickAdvance,
                        nVars, tcbVars, objVars, clientVars
    <3> QED BY <1>1, <3>1
  <2> QED BY <2>1, <2>2
<1>4. ASSUME NEW t \in Tasks, TaskStep(t)
      PROVE  NInv'
  <2>1. CASE Yield(t)
    BY <1>1, <2>1 DEF Yield, nVars, tcbVars, objVars
  <2>2. CASE Return(t)
    BY <2>2, NReturn
  <2>3. CASE Refused(t)
    BY <1>2, <2>3 DEF Refused, MutexRecursive, MutexPoll, SemPoll
  <2>4. ASSUME NEW ms \in Delays, Delay(t, ms)
        PROVE  NInv'
    BY <2>4, LeaveKeeps DEF Delay, objVars
  <2>5. ASSUME NEW m \in Mutexes, MutexAcquire(t, m)
        PROVE  NInv'
    BY <2>5, NTake, NBlock, NFull DEF MutexAcquire, MayAcquire
  <2>6. ASSUME NEW m \in Mutexes, MutexRelease(t, m)
        PROVE  NInv'
    BY <2>6, NHandoff, NFree DEF MutexRelease
  <2>7. ASSUME NEW s \in Sems, SemTake(t, s) \/ SemGive(t, s)
        PROVE  NInv'
    BY <1>1, <2>7 DEF SemTake, SemGive, nVars, tcbVars, clientVars
  <2>8. ASSUME NEW s \in Sems, NEW timeout, SemBlock(t, s, timeout)
        PROVE  NInv'
    <3>1. s \notin Mutexes
      BY KernelAssumption
    <3>2. call[t] = NULL /\ wait_on[t] = NULL /\ NULL \notin Mutexes
      BY <2>8, CallerRuns, KernelAssumption
         DEF SemBlock, App, IInv, ObjectInv, CallMatches, Objs
    <3>3. /\ wait_on' = [wait_on EXCEPT ![t] = s] /\ call' = [call EXCEPT ![t] = s]
          /\ UNCHANGED <<owner, current_priority, holds>>
      BY <2>8 DEF SemBlock, BlockCurrent, objVars
    <3> QED BY <3>1, <3>2, <3>3
               DEF NInv, OwnedIsHeld, OwnsOne, WaitersOwnNone, LentByAll, IInv, TypeOK
  <2>9. ASSUME NEW s \in Sems, SemHandoff(t, s)
        PROVE  NInv'
    <3>1. PICK i \in 0 .. wait_count[s] - 1 : WakeTask(wait_queue[s][i])
      BY <2>9 DEF SemHandoff
    <3>2. s \in Objs /\ wait_queue[s][i] \in Tasks
      BY DEF Objs, IInv, ObjectInv, QueueIntegrity
    <3>3. wait_on' = [wait_on EXCEPT ![wait_queue[s][i]] = NULL]
      BY <3>1 DEF WakeTask
    <3>4. UNCHANGED <<owner, current_priority, holds, call>>
      BY <2>9 DEF SemHandoff, objVars
    <3> QED BY <3>2, <3>3, <3>4, LeaveKeeps
  <2> QED BY <1>4, <2>1, <2>2, <2>3, <2>4, <2>5, <2>6, <2>7, <2>8, <2>9
             DEF TaskStep, SemAcquire, SemRelease
<1> QED BY <1>2, <1>3, <1>4 DEF Next

\* The initial state satisfies NInv.
LEMMA NInit == Init => NInv
BY KernelAssumption DEF Init, TaskInit, CpuInit, MutexInit, SemaphoreInit, QueueInit, NInv, OwnedIsHeld, OwnsOne, WaitersOwnNone, LentByAll, Objs

\* Priority inheritance works for any number of tasks and mutexes, as long as
\* no task acquires a mutex while it holds another.
THEOREM InheritanceSound ==
  ASSUME Nested = FALSE
  PROVE  Spec => []InheritedPriority
<1>1. IInv /\ NInv /\ [Next]_vars => NInv'
  BY NNext
<1>2. IInv /\ NInv => InheritedPriority
  BY DEF IInv, ObjectInv, QueueIntegrity, NInv, LentByAll, InheritedPriority, Objs
<1> QED BY <1>1, <1>2, NInit, Invariance, PTL DEF Spec

-----------------------------------------------------------------------------
(* Inheritance with nested mutexes.                                        *)

\* The reasons for which the owner of m may run below its waiter w after a step.
Excused(w, m) ==
  \/ Lags(w, m) /\ owner'[m] = owner[m]
  \/ \E n \in Mutexes \ {m} : MutexRelease(owner[m], n)
  \/ current_priority'[w] > current_priority[w]

\* A step that leaves the owner of m alone, raises priorities at most, and makes
\* no one wait for m, opens no gap.
LEMMA GapRaise ==
  ASSUME IInv, NEW w \in Tasks, NEW m \in Mutexes, wait_on[w] = m,
         owner'[m] = owner[m], current_priority' \in [Tasks -> Nat],
         \A u \in Tasks : current_priority'[u] >= current_priority[u],
         current_priority'[owner[m]] < current_priority'[w]
  PROVE  Excused(w, m)
<1>1. owner[m] \in Tasks
  BY WaitedIsOwned
<1>2. current_priority \in [Tasks -> Nat]
  BY DEF IInv, TypeOK
<1>3. CASE current_priority'[w] > current_priority[w]
  BY <1>3 DEF Excused
<1>4. CASE ~(current_priority'[w] > current_priority[w])
  <2>1. current_priority[owner[m]] < current_priority[w]
    BY <1>1, <1>2, <1>4
  <2> QED BY <2>1 DEF Excused, Lags
<1> QED BY <1>3, <1>4

\* os_mutex_acquire that lends opens no gap on the mutex it is called for: the
\* owner has at least the caller's priority afterwards.
LEMMA GapDonate ==
  ASSUME IInv, NEW t \in Tasks, NEW n \in Mutexes, lock[n] # 0, owner[n] # t,
         current_priority' = Donated(t, n), owner' = owner
  PROVE  /\ current_priority' \in [Tasks -> Nat]
         /\ \A u \in Tasks : current_priority'[u] >= current_priority[u]
         /\ current_priority'[owner[n]] >= current_priority'[t]
<1>1. owner[n] \in Tasks /\ current_priority' \in [Tasks -> Nat]
  BY DonatedKeeps
<1> QED BY <1>1 DEF IInv, TypeOK, Donated

\* os_mutex_release opens a gap on the mutexes its caller goes on owning only.
LEMMA GapRelease ==
  ASSUME IInv, NEW t \in Tasks, NEW n \in Mutexes, MutexRelease(t, n),
         NEW w \in Tasks, NEW m \in Mutexes, n # m, wait_on'[w] = m,
         current_priority'[owner'[m]] < current_priority'[w]
  PROVE  Excused(w, m)
<1>0. /\ TypeOK /\ ObjectInv /\ NULL \notin Mutexes /\ NULL \notin Tasks
  BY KernelAssumption DEF IInv, Objs
<1>1. /\ App(t) /\ n \in holds[t] /\ current_priority' = Dropped(n)
      /\ owner'[m] = owner[m] /\ wait_on[w] = m
  <2>1. CASE MutexFree(t, n)
    BY <1>0, <2>1 DEF MutexFree, TypeOK
  <2>2. CASE MutexHandoff(t, n)
    <3>1. PICK i \in 0 .. wait_count[n] - 1 :
            /\ owner' = [owner EXCEPT ![n] = wait_queue[n][i]]
            /\ wait_on' = [wait_on EXCEPT ![wait_queue[n][i]] = NULL]
      BY <2>2 DEF MutexHandoff, WakeTask
    <3>2. App(t) /\ n \in holds[t] /\ current_priority' = Dropped(n)
      BY <2>2 DEF MutexHandoff
    <3> QED BY <1>0, <3>1, <3>2 DEF TypeOK
  <2> QED BY <2>1, <2>2 DEF MutexRelease
<1>2. owner[n] = t
  BY <1>0, <1>1 DEF ObjectInv, MutualExclusion
<1>3. CASE owner[m] = t
  BY <1>3 DEF Excused
<1>4. CASE owner[m] # t
  <2>1. w # t
    BY <1>0, <1>1, CallerRuns DEF App
  <2>2. owner[m] \in Tasks
    BY <1>1, WaitedIsOwned
  <2>3. /\ current_priority'[w] = current_priority[w]
        /\ current_priority'[owner[m]] = current_priority[owner[m]]
    BY <1>0, <1>1, <1>2, <1>4, <2>1, <2>2 DEF Dropped, TypeOK
  <2> QED BY <1>1, <2>3 DEF Excused, Lags
<1> QED BY <1>3, <1>4

\* A direct handoff opens no gap: the new owner is the highest of the waiters.
LEMMA GapHandoff ==
  ASSUME IInv, NEW t \in Tasks, NEW m \in Mutexes, MutexRelease(t, m),
         NEW w \in Tasks, wait_on'[w] = m
  PROVE  ~(current_priority'[owner'[m]] < current_priority'[w])
<1>0. /\ TypeOK /\ ObjectInv /\ NULL \notin Mutexes /\ m \in Objs
  BY KernelAssumption DEF IInv, Objs
<1>1. CASE MutexFree(t, m)
  <2>1. wait_on'[w] = wait_on[w] /\ wait_count[m] = 0
    BY <1>1 DEF MutexFree
  <2> QED BY <1>0, <2>1 DEF ObjectInv, QueueIntegrity
<1>2. CASE MutexHandoff(t, m)
  <2>1. PICK i \in 0 .. wait_count[m] - 1 :
          /\ Picked(m, i, Dropped(m))
          /\ owner' = [owner EXCEPT ![m] = wait_queue[m][i]]
          /\ wait_on' = [wait_on EXCEPT ![wait_queue[m][i]] = NULL]
    BY <1>2 DEF MutexHandoff, WakeTask
  <2>2. current_priority' = Dropped(m) /\ owner[m] = t
    BY <1>0, <1>2 DEF MutexHandoff, ObjectInv, MutualExclusion
  <2>3. Dropped(m) \in [Tasks -> Nat]
    BY <2>2, DroppedKeeps
  <2>4. wait_on[w] = m
    BY <1>0, <2>1 DEF TypeOK
  <2>5. PICK j \in 0 .. wait_count[m] - 1 : wait_queue[m][j] = w
    BY <1>0, <2>4 DEF ObjectInv, QueueIntegrity
  <2>6. wait_queue[m][i] \in Tasks /\ owner'[m] = wait_queue[m][i]
    BY <1>0, <2>1 DEF ObjectInv, QueueIntegrity, TypeOK
  <2>7. Dropped(m)[w] <= Dropped(m)[wait_queue[m][i]]
    BY <2>1, <2>3, <2>5, <2>6 DEF Picked
  <2> QED BY <2>2, <2>3, <2>6, <2>7
<1> QED BY <1>1, <1>2 DEF MutexRelease

\* Every step of the kernel.
LEMMA GapStep ==
  ASSUME IInv, [Next]_vars, NEW w \in Tasks, NEW m \in Mutexes, wait_on'[w] = m,
         current_priority'[owner'[m]] < current_priority'[w]
  PROVE  Excused(w, m)
<1>0. /\ TypeOK /\ ObjectInv /\ NULL \notin Mutexes /\ m \in Objs
  BY KernelAssumption DEF IInv, Objs
<1>1. CASE UNCHANGED <<owner, current_priority>> /\ wait_on'[w] = wait_on[w]
  BY <1>1 DEF Excused, Lags
<1>2. CASE UNCHANGED vars
  BY <1>1, <1>2 DEF vars, tcbVars, objVars
<1>3. CASE KernelStep
  <2>1. UNCHANGED <<owner, current_priority>>
    BY <1>3 DEF KernelStep, Launch, PendSV, PendSVEnter, ScanStep, SwitchTo, SysTick,
                TickStep, TickSkip, TickCount, TickExpire, TickAdvance, tcbVars, objVars
  <2>2. wait_on'[w] = wait_on[w]
    <3>1. CASE TickExpire
      BY <1>0, <3>1 DEF TickExpire, TypeOK
    <3>2. CASE ~TickExpire
      BY <1>3, <3>2 DEF KernelStep, Launch, PendSV, PendSVEnter, ScanStep, SwitchTo, SysTick,
                        TickStep, TickSkip, TickCount, tcbVars
    <3> QED BY <3>1, <3>2
  <2> QED BY <1>1, <2>1, <2>2
<1>4. ASSUME NEW t \in Tasks, TaskStep(t)
      PROVE  Excused(w, m)
  <2>1. CASE Yield(t) \/ Return(t) \/ Refused(t)
    BY <1>1, <2>1 DEF Yield, Return, Refused, MutexRecursive, MutexPoll, SemPoll,
                      vars, tcbVars, objVars
  <2>2. ASSUME NEW ms \in Delays, Delay(t, ms)
        PROVE  Excused(w, m)
    BY <1>0, <1>1, <2>2 DEF Delay, objVars, TypeOK
  <2>3. ASSUME NEW n \in Mutexes, MutexTake(t, n)
        PROVE  Excused(w, m)
    <3>1. lock[n] = 0 /\ owner' = [owner EXCEPT ![n] = t] /\ UNCHANGED tcbVars
      BY <2>3 DEF MutexTake
    <3>2. n # m
      BY <1>0, <3>1 DEF tcbVars, ObjectInv, NoMissedRelease, QueueIntegrity
    <3> QED BY <1>0, <3>1, <3>2 DEF tcbVars, Excused, Lags, TypeOK
  <2>4. ASSUME NEW n \in Mutexes, NEW timeout, MutexBlock(t, n, timeout)
        PROVE  Excused(w, m)
    <3>1. /\ lock[n] # 0 /\ owner[n] # t /\ current_priority' = Donated(t, n)
          /\ wait_on' = [wait_on EXCEPT ![t] = n] /\ owner' = owner
      BY <2>4 DEF MutexBlock, BlockCurrent, objVars
    <3>2. /\ current_priority' \in [Tasks -> Nat]
          /\ \A u \in Tasks : current_priority'[u] >= current_priority[u]
          /\ current_priority'[owner[n]] >= current_priority'[t]
      BY <3>1, GapDonate
    <3>3. owner[n] \in Tasks
      BY <1>0, <3>1 DEF ObjectInv, LockedIsOwned, TypeOK
    <3>4. w # t
      <4> SUFFICES ASSUME w = t PROVE FALSE
        OBVIOUS
      <4>1. n = m
        BY <1>0, <3>1 DEF TypeOK
      <4>2. current_priority'[owner[m]] < current_priority'[t]
        BY <3>1
      <4>3. current_priority'[owner[m]] \in Nat /\ current_priority'[t] \in Nat
        BY <3>2, <3>3, <4>1
      <4> QED BY <3>2, <4>1, <4>2, <4>3
    <3>5. wait_on[w] = m
      BY <1>0, <3>1, <3>4 DEF TypeOK
    <3> QED BY <3>1, <3>2, <3>5, GapRaise
  <2>5. ASSUME NEW n \in Mutexes, NEW timeout, MutexFull(t, n, timeout)
        PROVE  Excused(w, m)
    <3>1. /\ lock[n] # 0 /\ owner[n] # t /\ current_priority' = Donated(t, n)
          /\ wait_on' = wait_on /\ owner' = owner
      BY <2>5 DEF MutexFull, objVars
    <3>2. /\ current_priority' \in [Tasks -> Nat]
          /\ \A u \in Tasks : current_priority'[u] >= current_priority[u]
      BY <3>1, GapDonate
    <3> QED BY <3>1, <3>2, GapRaise
  <2>6. ASSUME NEW n \in Mutexes, MutexRelease(t, n)
        PROVE  Excused(w, m)
    BY <2>6, GapRelease, GapHandoff
  <2>7. ASSUME NEW s \in Sems, SemTake(t, s) \/ SemGive(t, s)
        PROVE  Excused(w, m)
    BY <1>1, <2>7 DEF SemTake, SemGive, tcbVars
  <2>8. ASSUME NEW s \in Sems, NEW timeout, SemBlock(t, s, timeout)
        PROVE  Excused(w, m)
    BY <1>0, <1>1, <2>8, KernelAssumption DEF SemBlock, BlockCurrent, objVars, TypeOK
  <2>9. ASSUME NEW s \in Sems, SemHandoff(t, s)
        PROVE  Excused(w, m)
    BY <1>0, <1>1, <2>9 DEF SemHandoff, WakeTask, objVars, TypeOK
  <2> QED BY <1>4, <2>1, <2>2, <2>3, <2>4, <2>5, <2>6, <2>7, <2>8, <2>9
             DEF TaskStep, MutexAcquire, SemAcquire, SemRelease
<1> QED BY <1>2, <1>3, <1>4 DEF Next

\* With nested mutexes too, the owner of a mutex falls below its waiters only when
\* it releases another mutex, or when a waiter is lent a priority (os_mutex_release,
\* os_mutex_acquire).
THEOREM GapsSound == Spec => InheritanceGaps
<1> DEFINE Gaps ==
      \A w \in Tasks, m \in Mutexes :
        Lags(w, m)' =>
          \/ Lags(w, m) /\ owner'[m] = owner[m]
          \/ \E n \in Mutexes \ {m} : MutexRelease(owner[m], n)
          \/ current_priority'[w] > current_priority[w]
<1>1. IInv /\ [Next]_vars => [Gaps]_vars
  BY GapStep DEF Lags, Excused
<1> HIDE DEF Gaps
<1>2. Spec => [][Gaps]_vars
  BY <1>1, Invariance, PTL DEF Spec
<1> QED BY <1>2 DEF InheritanceGaps, Gaps

-----------------------------------------------------------------------------
(* The size of the wait queues.                                            *)

\* Tasks in a queue are distinct: a queue whose entries all lie in T is not
\* longer than T is large.
LEMMA QueueAtMost ==
  ASSUME IInv, NEW o \in Objs, NEW T, IsFiniteSet(T),
         \A i \in 0 .. wait_count[o] - 1 : wait_queue[o][i] \in T
  PROVE  wait_count[o] <= Cardinality(T)
<1>0. wait_count[o] \in Nat
  BY KernelAssumption DEF IInv, TypeOK
<1> DEFINE n == wait_count[o]
           S == 0 .. wait_count[o] - 1
           f == [i \in S |-> wait_queue[o][i]]
<1>1. IsFiniteSet(S) /\ Cardinality(S) = wait_count[o]
  <2>1. /\ IsFiniteSet(0 .. n - 1)
        /\ Cardinality(0 .. n - 1) = IF 0 > n - 1 THEN 0 ELSE n - 1 - 0 + 1
    <3>1. 0 \in Int /\ n - 1 \in Int
      BY <1>0
    <3> HIDE DEF n
    <3> QED BY ONLY <3>1, FS_Interval
  <2>2. (IF 0 > n - 1 THEN 0 ELSE n - 1 - 0 + 1) = n
    BY ONLY <1>0, n = wait_count[o]
  <2> QED BY ONLY <2>1, <2>2, S = 0 .. n - 1, n = wait_count[o]
<1>2. f \in [S -> T]
  OBVIOUS
<1>3. \A x, y \in S : f[x] = f[y] => x = y
  BY DEF IInv, ObjectInv, QueueIntegrity
<1>4. Cardinality(T) \in Nat
  BY FS_CardinalityType
<1> HIDE DEF S, f
<1>5. ~(Cardinality(T) < Cardinality(S))
  BY <1>1, <1>2, <1>3, FS_PigeonHole
<1> QED BY <1>0, <1>1, <1>4, <1>5

\* There are NTasks tasks: the bound on how many of them can wait (pigeonhole).
LEMMA TasksCount == IsFiniteSet(Tasks) /\ Cardinality(Tasks) = NTasks
BY KernelAssumption, FS_Interval DEF Tasks

\* With room for every other task, a queue is never full when a task blocks: the
\* OS_FAIL of block_current is unreachable.
THEOREM QueuesNeverFull ==
  ASSUME MAX_WAITING_TASKS >= NTasks - 1
  PROVE  Spec => []QueuesFit
<1>1. IInv => QueuesFit
  <2> SUFFICES ASSUME IInv, NEW t \in Tasks, App(t), NEW o \in Objs,
                      o \in Mutexes => lock[o] = 1 /\ owner[o] # t
               PROVE  wait_count[o] < QueueMax(o)
    BY DEF QueuesFit
  <2>0. /\ wait_count[o] \in Nat /\ NTasks \in Nat /\ MAX_TASKS \in Nat
        /\ MAX_WAITING_TASKS \in Nat /\ NTasks <= MAX_TASKS /\ NULL \notin Objs
    BY KernelAssumption DEF IInv, TypeOK
  <2>1. \A i \in 0 .. wait_count[o] - 1 :
          wait_queue[o][i] \in Tasks /\ wait_on[wait_queue[o][i]] = o
    BY DEF IInv, ObjectInv, QueueIntegrity
  <2>2. \A i \in 0 .. wait_count[o] - 1 : wait_queue[o][i] \in Tasks \ {t}
    BY <2>0, <2>1, CallerRuns DEF App
  <2>3. IsFiniteSet(Tasks \ {t}) /\ Cardinality(Tasks \ {t}) = NTasks - 1
    BY TasksCount, FS_RemoveElement
  <2>4. CASE o \in Mutexes
    <3>1. owner[o] \in Tasks \ {t}
      BY <2>4 DEF IInv, ObjectInv, LockedIsOwned
    <3> DEFINE T == (Tasks \ {t}) \ {owner[o]}
    <3>2. \A i \in 0 .. wait_count[o] - 1 : wait_queue[o][i] \in T
      BY <2>1, <2>2, <2>4 DEF IInv, ObjectInv, WaiterNotOwner
    <3>3. IsFiniteSet(T) /\ Cardinality(T) = NTasks - 2
      <4> DEFINE U == Tasks \ {t}
                 x == owner[o]
      <4>1. IsFiniteSet(U) /\ Cardinality(U) = NTasks - 1 /\ x \in U
        BY <2>3, <3>1
      <4> HIDE DEF U, x
      <4>2. IsFiniteSet(U \ {x}) /\ Cardinality(U \ {x}) = Cardinality(U) - 1
        BY <4>1, FS_RemoveElement
      <4>3. Cardinality(U \ {x}) = NTasks - 2
        BY <2>0, <4>1, <4>2
      <4> QED BY <4>2, <4>3 DEF U, x
    <3> HIDE DEF T
    <3>4. wait_count[o] <= NTasks - 2
      BY <3>2, <3>3, QueueAtMost
    <3> QED BY <2>0, <2>4, <3>4 DEF QueueMax
  <2>5. CASE o \notin Mutexes
    <3>1. wait_count[o] <= NTasks - 1
      BY <2>2, <2>3, QueueAtMost
    <3> QED BY <2>0, <2>5, <3>1 DEF QueueMax
  <2> QED BY <2>4, <2>5
<1> QED BY <1>1, Invariance, PTL
=============================================================================
