---------------------------- MODULE KernelProofs ----------------------------
(***************************************************************************)
(* Proofs about module Kernel, for every number of tasks, mutexes and      *)
(* semaphores and every assignment of priorities.                          *)
(***************************************************************************)
EXTENDS KernelProps, TLAPS

-----------------------------------------------------------------------------
(* The inductive invariant.                                                *)

\* A locked mutex has an owner.
LockedIsOwned == \A m \in Mutexes : lock[m] = 1 => owner[m] \in Tasks

\* A task in its own code is in no call, and a blocked task is in the acquire
\* of the object whose queue it is in (in none if it sleeps).
CallMatches ==
  \A t \in Tasks :
    /\ pc[t] = "run" => call[t] = NULL
    /\ state[t] = "BLOCKED" => call[t] = wait_on[t]

\* No task waits for a mutex it owns.
WaiterNotOwner == \A t \in Tasks : \A m \in Mutexes : wait_on[t] = m => owner[m] # t

\* The scheduler always has a task to run.
IdleRuns == state[IdleTask] # "BLOCKED"

\* What the scheduler remembers between the iterations of its loop.
ScanBest ==
  /\ scan_k = -1 => best = NULL
  /\ best # NULL => state[best] # "BLOCKED"

\* Unless a tick has interfered, best dominates the part already scanned.
ScanPrefix ==
  scan_k >= 0 /\ ~pendsv /\ tick_i = -1 =>
    \A k \in 0 .. scan_k - 1 :
      Runnable(ScanSlot(k)) =>
        best # NULL /\ current_priority[ScanSlot(k)] <= current_priority[best]

\* The part of the invariant that is about the tasks and the objects, and the
\* part that is about the processor.
ObjectInv ==
  /\ QueueIntegrity /\ BlockedIsWakeable /\ NoMissedRelease
  /\ LockedIsOwned /\ MutualExclusion /\ CallMatches /\ WaiterNotOwner
  /\ AcquireTellsTruth /\ BoostOnlyOwners /\ IdleRuns

CpuInv == ExecutingIsRunning /\ ScanBest /\ ScanPrefix

IInv == TypeOK /\ ObjectInv /\ CpuInv

-----------------------------------------------------------------------------
(* Wait queues.                                                            *)

\* The part of QueueIntegrity and of the types that is about the queues.
QueueType ==
  /\ wait_on \in [Tasks -> Objs \cup {NULL}]
  /\ wait_queue \in [Objs -> [Slots -> Tasks \cup {NULL}]]
  /\ wait_count \in [Objs -> 0 .. MAX_TASKS]

\* What wait_queue_remove does to an array that holds t once, at p.
LEMMA WithoutAt ==
  ASSUME NEW q \in [Slots -> Tasks \cup {NULL}], NEW n \in 0 .. MAX_TASKS,
         NEW t \in Tasks, NEW p \in 0 .. n - 1, q[p] = t,
         \A i \in 0 .. n - 1 : q[i] = t => i = p
  PROVE  /\ Without(q, n, t) \in [Slots -> Tasks \cup {NULL}]
         /\ \A j \in 0 .. n - 2 :
              Without(q, n, t)[j] = IF j < p THEN q[j] ELSE q[j + 1]
<1>1. n \in Nat /\ n <= MAX_TASKS /\ MAX_TASKS \in Nat
  BY KernelAssumption
<1>2. \A j \in Slots : j + 1 < n => q[j + 1] \in Tasks \cup {NULL}
  BY <1>1 DEF Slots
<1>3. Without(q, n, t) \in [Slots -> Tasks \cup {NULL}]
  BY <1>2 DEF Without
<1>4. ASSUME NEW j \in 0 .. n - 2
      PROVE  Without(q, n, t)[j] = IF j < p THEN q[j] ELSE q[j + 1]
  <2>1. j \in Slots /\ j + 1 < n
    BY <1>1 DEF Slots
  <2>2. (\E i \in 0 .. j : q[i] = t) <=> p <= j
    BY <1>1
  <2> QED BY <2>1, <2>2, <1>1 DEF Without
<1> QED BY <1>3, <1>4

\* A wait queue changes only by removing the task that leaves it.  The new
\* array is the old one with the entries after position p moved down.
LEMMA RemoveShape ==
  ASSUME QueueType, QueueIntegrity, NEW t \in Tasks, NEW o \in Objs,
         wait_on[t] = o, RemoveFromQueue(t)
  PROVE  \E p \in 0 .. wait_count[o] - 1 :
           /\ wait_queue[o][p] = t
           /\ wait_count' = [wait_count EXCEPT ![o] = wait_count[o] - 1]
           /\ wait_queue' = [wait_queue EXCEPT ![o] = wait_queue'[o]]
           /\ wait_queue'[o] \in [Slots -> Tasks \cup {NULL}]
           /\ \A j \in 0 .. wait_count[o] - 2 :
                wait_queue'[o][j] = IF j < p THEN wait_queue[o][j]
                                    ELSE wait_queue[o][j + 1]
<1>1. o # NULL
  BY KernelAssumption
<1>2. PICK p \in 0 .. wait_count[o] - 1 : wait_queue[o][p] = t
  BY DEF QueueIntegrity
<1>3. /\ wait_queue[o] \in [Slots -> Tasks \cup {NULL}]
      /\ wait_count[o] \in 0 .. MAX_TASKS
  BY DEF QueueType
<1>4. \A i \in 0 .. wait_count[o] - 1 : wait_queue[o][i] = t => i = p
  BY <1>2 DEF QueueIntegrity
<1> DEFINE W == Without(wait_queue[o], wait_count[o], t)
<1>5. /\ W \in [Slots -> Tasks \cup {NULL}]
      /\ \A j \in 0 .. wait_count[o] - 2 :
           W[j] = IF j < p THEN wait_queue[o][j] ELSE wait_queue[o][j + 1]
  BY <1>2, <1>3, <1>4, WithoutAt
<1>6. wait_count' = [wait_count EXCEPT ![o] = wait_count[o] - 1]
  BY <1>1, <1>2 DEF RemoveFromQueue
<1>7. wait_queue' = [wait_queue EXCEPT ![o] = W]
  BY <1>1 DEF RemoveFromQueue
<1>8. wait_queue'[o] = W
  BY <1>7 DEF QueueType
<1> HIDE DEF W
<1> QED BY <1>2, <1>5, <1>6, <1>7, <1>8, ZenonT(60)

\* Removing a task from its queue keeps the queues consistent and in order, and
\* adds no entry.
LEMMA RemoveKeeps ==
  ASSUME QueueType, QueueIntegrity, NEW t \in Tasks,
         RemoveFromQueue(t), wait_on' = [wait_on EXCEPT ![t] = NULL]
  PROVE  /\ QueueType' /\ QueueIntegrity'
         /\ \A o \in Objs : wait_count'[o] <= wait_count[o]
         /\ \A o \in Objs : \A i \in 0 .. wait_count'[o] - 1 :
              \E j \in 0 .. wait_count[o] - 1 :
                i <= j /\ j <= i + 1 /\ wait_queue'[o][i] = wait_queue[o][j]
         /\ \A o \in Objs : \A i, j \in 0 .. wait_count'[o] - 1 :
              \A k, l \in 0 .. wait_count[o] - 1 :
                wait_queue'[o][i] = wait_queue[o][k] /\ wait_queue'[o][j] = wait_queue[o][l] /\ k < l
                  => i < j
<1>0. /\ NULL \notin Objs /\ MAX_TASKS \in Nat
      /\ \A o \in Objs : wait_count[o] \in 0 .. MAX_TASKS
  BY KernelAssumption DEF QueueType
<1>1. CASE wait_on[t] = NULL
  <2>1. wait_queue' = wait_queue /\ wait_count' = wait_count /\ wait_on' = wait_on
    BY <1>1 DEF RemoveFromQueue, queueVars, QueueType
  <2>2. QueueType' /\ QueueIntegrity'
    BY <2>1 DEF QueueType, QueueIntegrity
  <2>3. \A o \in Objs : \A i, j \in 0 .. wait_count[o] - 1 :
          wait_queue[o][i] = wait_queue[o][j] => i = j
    BY DEF QueueIntegrity
  <2>4. \A o \in Objs : \A i, j \in 0 .. wait_count[o] - 1 :
          \A k, l \in 0 .. wait_count[o] - 1 :
            wait_queue[o][i] = wait_queue[o][k] /\ wait_queue[o][j] = wait_queue[o][l] /\ k < l
              => i < j
    BY <2>3, <1>0
  <2> QED BY <2>1, <2>2, <2>4, <1>0
<1>2. CASE wait_on[t] # NULL
  <2>1. PICK o \in Objs : wait_on[t] = o
    BY <1>2 DEF QueueType
  <2>2. PICK p \in 0 .. wait_count[o] - 1 :
           /\ wait_queue[o][p] = t
           /\ wait_count' = [wait_count EXCEPT ![o] = wait_count[o] - 1]
           /\ wait_queue' = [wait_queue EXCEPT ![o] = wait_queue'[o]]
           /\ wait_queue'[o] \in [Slots -> Tasks \cup {NULL}]
           /\ \A j \in 0 .. wait_count[o] - 2 :
                wait_queue'[o][j] = IF j < p THEN wait_queue[o][j]
                                    ELSE wait_queue[o][j + 1]
    BY <2>1, RemoveShape
  <2> DEFINE n == wait_count[o]
             q == wait_queue[o]
             r == wait_queue'[o]
  <2>3. /\ n \in 1 .. MAX_TASKS
        /\ wait_count'[o] = n - 1
        /\ \A x \in Objs \ {o} : wait_count'[x] = wait_count[x] /\ wait_queue'[x] = wait_queue[x]
        /\ \A i, j \in 0 .. n - 1 : q[i] = q[j] => i = j
    BY <2>2, <1>0 DEF QueueType, QueueIntegrity
  <2>4. \A j \in 0 .. n - 2 : r[j] = IF j < p THEN q[j] ELSE q[j + 1]
    BY <2>2
  <2>5. QueueType'
    BY <2>2, <2>3, <1>0 DEF QueueType
  <2>6. ASSUME NEW x \in Objs
        PROVE  /\ \A i \in 0 .. wait_count'[x] - 1 :
                    wait_queue'[x][i] \in Tasks /\ wait_on'[wait_queue'[x][i]] = x
               /\ \A i, j \in 0 .. wait_count'[x] - 1 :
                    wait_queue'[x][i] = wait_queue'[x][j] => i = j
               /\ \A u \in Tasks :
                    wait_on'[u] = x
                      => \E i \in 0 .. wait_count'[x] - 1 : wait_queue'[x][i] = u
    <3>1. CASE x = o
      <4>0. q[p] = t /\ p \in 0 .. n - 1 /\ n \in Nat /\ p \in Nat
        BY <2>2, <2>3
      <4>1. ASSUME NEW i \in 0 .. n - 2
            PROVE  r[i] \in Tasks /\ r[i] # t /\ wait_on[r[i]] = o
        <5>1. i \in 0 .. n - 1 /\ i + 1 \in 0 .. n - 1
          BY <2>3
        <5>2. r[i] = IF i < p THEN q[i] ELSE q[i + 1]
          BY <2>4
        <5>3. \A k \in 0 .. n - 1 : q[k] \in Tasks /\ wait_on[q[k]] = o
          BY DEF QueueIntegrity
        <5>4. (i < p => q[i] # t) /\ (~(i < p) => q[i + 1] # t)
          BY <5>1, <4>0, <2>3
        <5> QED BY <5>1, <5>2, <5>3, <5>4
      <4>2. ASSUME NEW i \in 0 .. n - 2, NEW j \in 0 .. n - 2, r[i] = r[j]
            PROVE  i = j
        BY <4>2, <2>3, <2>4, <4>0
      <4>3. ASSUME NEW u \in Tasks, wait_on'[u] = o
            PROVE  \E i \in 0 .. n - 2 : r[i] = u
        <5>1. wait_on[u] = o /\ u # t
          BY <4>3, <1>0 DEF QueueType
        <5>2. PICK k \in 0 .. n - 1 : q[k] = u
          BY <5>1 DEF QueueIntegrity
        <5>3. k # p
          BY <5>1, <5>2, <4>0
        <5>4. CASE k < p
          <6>1. k \in 0 .. n - 2 /\ r[k] = u
            BY <5>2, <5>4, <2>4, <4>0
          <6> QED BY <6>1
        <5>5. CASE k > p
          <6>1. k - 1 \in 0 .. n - 2 /\ ~(k - 1 < p) /\ (k - 1) + 1 = k
            BY <5>2, <5>5, <4>0
          <6>2. r[k - 1] = u
            BY <6>1, <5>2, <2>4
          <6> QED BY <6>1, <6>2
        <5> QED BY <5>2, <5>3, <5>4, <5>5, <4>0
      <4>4. (n - 1) - 1 = n - 2
        BY <4>0
      <4> QED BY <3>1, <2>3, <4>1, <4>2, <4>3, <4>4 DEF QueueType
    <3>2. CASE x # o
      <4>1. wait_count'[x] = wait_count[x] /\ wait_queue'[x] = wait_queue[x]
        BY <3>2, <2>3
      <4>2. \A u \in Tasks : wait_on'[u] = x <=> wait_on[u] = x
        BY <3>2, <2>1, <1>0 DEF QueueType
      <4> QED BY <4>1, <4>2 DEF QueueIntegrity
    <3> QED BY <3>1, <3>2
  <2>7. QueueIntegrity'
    BY <2>6 DEF QueueIntegrity
  <2>8. \A x \in Objs : wait_count'[x] <= wait_count[x]
    BY <2>3, <1>0
  <2>9. ASSUME NEW x \in Objs, NEW i \in 0 .. wait_count'[x] - 1
        PROVE  \E j \in 0 .. wait_count[x] - 1 :
                 i <= j /\ j <= i + 1 /\ wait_queue'[x][i] = wait_queue[x][j]
    <3>1. CASE x = o
      <4>1. i \in 0 .. n - 2 /\ i \in 0 .. n - 1 /\ i + 1 \in 0 .. n - 1
        BY <3>1, <2>3
      <4>2. r[i] = q[i] \/ r[i] = q[i + 1]
        BY <4>1, <2>4
      <4> QED BY <4>1, <4>2, <3>1
    <3>2. CASE x # o
      BY <3>2, <2>3, <1>0
    <3> QED BY <3>1, <3>2
  <2>10. ASSUME NEW x \in Objs, NEW i \in 0 .. wait_count'[x] - 1,
                NEW j \in 0 .. wait_count'[x] - 1,
                NEW k \in 0 .. wait_count[x] - 1, NEW l \in 0 .. wait_count[x] - 1,
                wait_queue'[x][i] = wait_queue[x][k],
                wait_queue'[x][j] = wait_queue[x][l], k < l
         PROVE  i < j
    <3>1. CASE x = o
      <4>1. i \in 0 .. n - 2 /\ j \in 0 .. n - 2 /\ p \in Nat
        BY <3>1, <2>3, <2>2
      <4>2. k = (IF i < p THEN i ELSE i + 1) /\ l = (IF j < p THEN j ELSE j + 1)
        BY <3>1, <4>1, <2>3, <2>4, <2>10
      <4> QED BY <4>1, <4>2, <2>10
    <3>2. CASE x # o
      <4>1. wait_count'[x] = wait_count[x] /\ wait_queue'[x] = wait_queue[x]
        BY <3>2, <2>3
      <4>2. i = k /\ j = l
        BY <4>1, <2>10 DEF QueueIntegrity
      <4> QED BY <4>2, <2>10
    <3> QED BY <3>1, <3>2
  <2> QED BY <2>5, <2>7, <2>8, <2>9, <2>10
<1> QED BY <1>1, <1>2

\* block_current puts the caller at the end of the queue.
LEMMA BlockKeeps ==
  ASSUME QueueType, QueueIntegrity, NEW t \in Tasks, NEW o \in Objs, NEW timeout,
         wait_on[t] = NULL, BlockCurrent(t, o, timeout)
  PROVE  /\ QueueType' /\ QueueIntegrity'
         /\ wait_count[o] \in Slots
         /\ wait_count' = [wait_count EXCEPT ![o] = wait_count[o] + 1]
         /\ wait_queue'[o][wait_count[o]] = t
         /\ \A x \in Objs : \A i \in 0 .. wait_count[x] - 1 :
              wait_queue'[x][i] = wait_queue[x][i]
<1>0. /\ NULL \notin Objs /\ MAX_TASKS \in Nat
      /\ \A x \in Objs : wait_count[x] \in 0 .. MAX_TASKS
      /\ NULL \notin Tasks
  BY KernelAssumption DEF QueueType
<1>1. wait_count[o] \in Slots
  BY KernelAssumption, <1>0 DEF BlockCurrent, QueueMax, Slots
<1> DEFINE n == wait_count[o]
           q == wait_queue[o]
           r == [q EXCEPT ![n] = t]
<1>2. /\ wait_count' = [wait_count EXCEPT ![o] = n + 1]
      /\ wait_queue' = [wait_queue EXCEPT ![o] = r]
      /\ wait_on' = [wait_on EXCEPT ![t] = o]
  BY DEF BlockCurrent
<1>3. /\ n \in Nat /\ n + 1 <= MAX_TASKS
      /\ q \in [Slots -> Tasks \cup {NULL}]
      /\ r \in [Slots -> Tasks \cup {NULL}]
      /\ r[n] = t
      /\ \A i \in 0 .. n - 1 : r[i] = q[i]
  BY <1>1, <1>0 DEF QueueType, Slots
<1>4. /\ wait_queue'[o] = r /\ wait_count'[o] = n + 1
      /\ \A x \in Objs \ {o} : wait_queue'[x] = wait_queue[x] /\ wait_count'[x] = wait_count[x]
      /\ \A u \in Tasks \ {t} : wait_on'[u] = wait_on[u]
      /\ wait_on'[t] = o
  BY <1>2 DEF QueueType
<1>5. QueueType'
  BY <1>2, <1>3, <1>0 DEF QueueType
<1>6. \A i \in 0 .. n - 1 : q[i] \in Tasks /\ q[i] # t /\ wait_on[q[i]] = o
  BY <1>0 DEF QueueIntegrity
<1>7. ASSUME NEW x \in Objs
      PROVE  /\ \A i \in 0 .. wait_count'[x] - 1 :
                  wait_queue'[x][i] \in Tasks /\ wait_on'[wait_queue'[x][i]] = x
             /\ \A i, j \in 0 .. wait_count'[x] - 1 :
                  wait_queue'[x][i] = wait_queue'[x][j] => i = j
             /\ \A u \in Tasks :
                  wait_on'[u] = x
                    => \E i \in 0 .. wait_count'[x] - 1 : wait_queue'[x][i] = u
  <2>1. CASE x = o
    <3>1. \A i \in 0 .. (n + 1) - 1 : i \in 0 .. n - 1 \/ i = n
      BY <1>3
    <3>2. \A i \in 0 .. (n + 1) - 1 : r[i] \in Tasks /\ wait_on'[r[i]] = o
      BY <3>1, <1>3, <1>4, <1>6
    <3>3. \A i, j \in 0 .. n - 1 : q[i] = q[j] => i = j
      BY DEF QueueIntegrity
    <3>4. \A i, j \in 0 .. (n + 1) - 1 : r[i] = r[j] => i = j
      BY <3>1, <3>3, <1>3, <1>6
    <3>5. ASSUME NEW u \in Tasks, wait_on'[u] = o
          PROVE  \E i \in 0 .. (n + 1) - 1 : r[i] = u
      <4>1. CASE u = t
        BY <4>1, <1>3
      <4>2. CASE u # t
        <5>1. PICK i \in 0 .. n - 1 : q[i] = u
          BY <4>2, <3>5, <1>4 DEF QueueIntegrity
        <5> QED BY <5>1, <1>3
      <4> QED BY <4>1, <4>2
    <3> QED BY <2>1, <3>2, <3>4, <3>5, <1>4
  <2>2. CASE x # o
    <3>1. \A u \in Tasks : wait_on'[u] = x <=> wait_on[u] = x
      BY <2>2, <1>4, <1>0
    <3>2. wait_queue'[x] = wait_queue[x] /\ wait_count'[x] = wait_count[x]
      BY <2>2, <1>4
    <3> QED BY <3>1, <3>2 DEF QueueIntegrity
  <2> QED BY <2>1, <2>2
<1>8. QueueIntegrity'
  BY <1>7 DEF QueueIntegrity
<1>9. \A x \in Objs : \A i \in 0 .. wait_count[x] - 1 :
        wait_queue'[x][i] = wait_queue[x][i]
  <2>1. wait_queue'[o] = r /\ \A i \in 0 .. n - 1 : r[i] = q[i]
    BY <1>3, <1>4
  <2> HIDE DEF r
  <2> QED BY <2>1, <1>4
<1> HIDE DEF r
<1> QED BY <1>1, <1>2, <1>3, <1>4, <1>5, <1>8, <1>9

-----------------------------------------------------------------------------
(* The steps of the processor.                                             *)

\* The k-th slot of the scan is a task, and the scan visits every task.
LEMMA ScanCovers ==
  ASSUME current_tcb \in Tasks
  PROVE  /\ \A k \in 0 .. NTasks - 1 : ScanSlot(k) \in Tasks
         /\ \A t \in Tasks : \E k \in 0 .. NTasks - 1 : ScanSlot(k) = t
<1>1. NTasks \in Nat /\ NTasks > 0
  BY KernelAssumption
<1>2. \A x \in 0 .. NTasks - 1 : x % NTasks = x /\ (x + NTasks) % NTasks = x
  BY <1>1
<1>3. \A k \in 0 .. NTasks - 1 : ScanSlot(k) \in Tasks
  BY <1>1 DEF ScanSlot, Tasks
<1>4. ASSUME NEW t \in Tasks
      PROVE  \E k \in 0 .. NTasks - 1 : ScanSlot(k) = t
  <2> DEFINE k == IF t > current_tcb THEN t - current_tcb - 1
                  ELSE t - current_tcb - 1 + NTasks
  <2>1. k \in 0 .. NTasks - 1
    BY <1>1 DEF Tasks
  <2>2. current_tcb + 1 + k = t \/ current_tcb + 1 + k = t + NTasks
    BY <1>1 DEF Tasks
  <2>3. t \in 0 .. NTasks - 1
    BY DEF Tasks
  <2> HIDE DEF k
  <2> QED BY <2>1, <2>2, <2>3, <1>2 DEF ScanSlot
<1> QED BY <1>3, <1>4

\* A step of the processor alone leaves the tasks and the objects as they are.
LEMMA ObjectFrame ==
  ASSUME ObjectInv, UNCHANGED <<tcbVars, objVars, queueVars, clientVars>>
  PROVE  ObjectInv'
BY DEF ObjectInv, QueueIntegrity, BlockedIsWakeable, NoMissedRelease,
       LockedIsOwned, MutualExclusion, CallMatches, WaiterNotOwner,
       AcquireTellsTruth, BoostOnlyOwners, IdleRuns,
       tcbVars, objVars, queueVars, clientVars

\* os_kernel_launch, up to its call of os_scheduler, keeps the invariant.
LEMMA LaunchKeeps ==
  ASSUME IInv, Launch
  PROVE  IInv'
<1>0. NTasks \in Nat \ {0} /\ TypeOK /\ ObjectInv /\ CpuInv
  BY KernelAssumption DEF IInv
<1>1. TypeOK'
  BY <1>0 DEF Launch, TypeOK, tcbVars, objVars, queueVars, clientVars
<1>2. ObjectInv'
  BY <1>0, ObjectFrame DEF Launch
<1>3. ExecutingIsRunning' /\ ScanBest'
  BY <1>0 DEF Launch, CpuInv, ExecutingIsRunning, ScanBest, Thread, tcbVars, clientVars
<1>4. ScanPrefix'
  BY <1>0 DEF Launch, ScanPrefix
<1> QED BY <1>1, <1>2, <1>3, <1>4 DEF IInv, CpuInv

\* The start of PendSV_Handler keeps the invariant.
LEMMA PendSVEnterKeeps ==
  ASSUME IInv, PendSVEnter
  PROVE  IInv'
<1>0. NTasks \in Nat \ {0} /\ TypeOK /\ ObjectInv /\ CpuInv
  BY KernelAssumption DEF IInv
<1>1. TypeOK'
  <2>1. scan_k' \in -1 .. NTasks /\ best' \in Tasks \cup {NULL}
    BY <1>0 DEF PendSVEnter
  <2>2. pendsv' \in BOOLEAN
    BY DEF PendSVEnter
  <2> QED BY <1>0, <2>1, <2>2 DEF PendSVEnter, TypeOK, tcbVars, objVars, queueVars, clientVars
<1>2. ObjectInv'
  BY <1>0, ObjectFrame DEF PendSVEnter
<1>3. ExecutingIsRunning' /\ ScanBest'
  BY <1>0 DEF PendSVEnter, CpuInv, ExecutingIsRunning, ScanBest, Thread, tcbVars, clientVars
<1>4. ScanPrefix'
  BY <1>0 DEF PendSVEnter, ScanPrefix
<1> QED BY <1>1, <1>2, <1>3, <1>4 DEF IInv, CpuInv

\* An iteration of os_scheduler keeps the invariant: it extends the prefix of
\* tasks that best dominates by one.
LEMMA ScanStepKeeps ==
  ASSUME IInv, ScanStep
  PROVE  IInv'
<1>0. /\ NTasks \in Nat \ {0} /\ TypeOK /\ ObjectInv /\ CpuInv
      /\ NULL \notin Tasks
  BY KernelAssumption DEF IInv
<1>1. scan_k \in 0 .. NTasks - 1 /\ ScanSlot(scan_k) \in Tasks
  BY <1>0, ScanCovers DEF ScanStep, TypeOK
<1>2. TypeOK'
  BY <1>0, <1>1 DEF ScanStep, TypeOK, tcbVars, objVars, queueVars, clientVars
<1>3. ObjectInv'
  BY <1>0, ObjectFrame DEF ScanStep
<1>4. ExecutingIsRunning' /\ ScanBest'
  BY <1>0, <1>1 DEF ScanStep, CpuInv, ExecutingIsRunning, ScanBest, Thread, Runnable,
                    tcbVars, clientVars, TypeOK
<1>5. ScanPrefix'
  <2> SUFFICES ASSUME ~pendsv, NEW k \in 0 .. scan_k, Runnable(ScanSlot(k))
               PROVE  best' # NULL /\ current_priority[ScanSlot(k)] <= current_priority[best']
    BY <1>1 DEF ScanPrefix, ScanStep, Runnable, ScanSlot, tcbVars
  <2>1. ScanSlot(k) \in Tasks /\ current_priority \in [Tasks -> Nat]
    BY <1>0, <1>1, ScanCovers DEF TypeOK
  <2>2. ASSUME NEW j \in 0 .. scan_k - 1, Runnable(ScanSlot(j))
        PROVE  best # NULL /\ current_priority[ScanSlot(j)] <= current_priority[best]
    BY <1>0, <1>1, <2>2 DEF CpuInv, ScanPrefix, ScanStep
  <2>3. best' = IF Runnable(ScanSlot(scan_k)) /\ Better(ScanSlot(scan_k))
                THEN ScanSlot(scan_k) ELSE best
    BY DEF ScanStep
  <2>4. best \in Tasks \cup {NULL}
    BY <1>0 DEF TypeOK
  <2>5. CASE k = scan_k
    BY <2>1, <2>3, <2>4, <2>5, <1>0 DEF Better
  <2>6. CASE k # scan_k
    <3>1. best # NULL /\ current_priority[ScanSlot(k)] <= current_priority[best]
      BY <2>2, <2>6, <1>1
    <3> QED BY <3>1, <2>1, <2>3, <2>4, <1>0, <1>1 DEF Better
  <2> QED BY <2>5, <2>6
<1> QED BY <1>2, <1>3, <1>4, <1>5 DEF IInv, CpuInv

\* At the end of an undisturbed scan, best is a task that can run and has the
\* highest priority of those that can.
LEMMA ScanEnd ==
  ASSUME IInv, scan_k = NTasks, ~pendsv, tick_i = -1
  PROVE  /\ best \in Tasks /\ state[best] # "BLOCKED"
         /\ \A t \in Tasks : state[t] # "BLOCKED"
              => current_priority[t] <= current_priority[best]
<1>0. /\ NTasks \in Nat \ {0} /\ TypeOK /\ ObjectInv /\ CpuInv
      /\ IdleTask \in Tasks /\ NULL \notin Tasks
  BY KernelAssumption DEF IInv
<1>1. ASSUME NEW t \in Tasks, state[t] # "BLOCKED"
      PROVE  best # NULL /\ current_priority[t] <= current_priority[best]
  <2>1. PICK k \in 0 .. NTasks - 1 : ScanSlot(k) = t
    BY <1>0, ScanCovers DEF TypeOK
  <2>2. Runnable(t)
    BY <1>0, <1>1 DEF Runnable, TypeOK
  <2> QED BY <1>0, <2>1, <2>2 DEF CpuInv, ScanPrefix
<1>2. state[IdleTask] # "BLOCKED"
  BY <1>0 DEF ObjectInv, IdleRuns
<1> QED BY <1>0, <1>1, <1>2 DEF CpuInv, ScanBest, TypeOK

\* The end of os_scheduler keeps the invariant: best exists because idle can run.
LEMMA SwitchToKeeps ==
  ASSUME IInv, SwitchTo
  PROVE  IInv'
<1>0. /\ NTasks \in Nat \ {0} /\ TypeOK /\ ObjectInv /\ CpuInv
      /\ NULL \notin Tasks
  BY KernelAssumption DEF IInv
<1>1. /\ current_tcb' \in Tasks
      /\ state' \in [Tasks -> {"READY", "RUNNING", "BLOCKED"}]
      /\ \A t \in Tasks : state'[t] = "BLOCKED" <=> state[t] = "BLOCKED"
      /\ \A t \in Tasks : state'[t] = "RUNNING" => t = current_tcb'
  <2>1. CASE best = NULL
    BY <1>0, <2>1 DEF SwitchTo, TypeOK, CpuInv, ExecutingIsRunning
  <2>2. CASE best # NULL
    <3>1. best \in Tasks /\ state[best] # "BLOCKED"
      BY <1>0, <2>2 DEF CpuInv, ScanBest, TypeOK
    <3>2. state' = SwitchedStates(best) /\ current_tcb' = best
      BY <2>2 DEF SwitchTo
    <3> QED BY <1>0, <3>1, <3>2 DEF SwitchedStates, TypeOK, CpuInv, ExecutingIsRunning
  <2> QED BY <2>1, <2>2
<1>2. TypeOK'
  BY <1>0, <1>1 DEF SwitchTo, TypeOK, objVars, queueVars, clientVars
<1>3. ObjectInv'
  BY <1>0, <1>1, KernelAssumption
     DEF SwitchTo, ObjectInv, QueueIntegrity, BlockedIsWakeable,
         NoMissedRelease, LockedIsOwned, MutualExclusion, CallMatches,
         WaiterNotOwner, AcquireTellsTruth, BoostOnlyOwners, IdleRuns,
         objVars, queueVars, clientVars
<1>4. ExecutingIsRunning'
  <2>1. ASSUME NEW t \in Tasks, Thread(t)'
        PROVE  state'[t] = "RUNNING"
    <3>1. ~pendsv /\ tick_i = -1 /\ scan_k = NTasks /\ t = current_tcb'
      BY <2>1 DEF Thread, SwitchTo
    <3>2. best \in Tasks
      BY <3>1, ScanEnd
    <3> QED BY <1>0, <3>1, <3>2 DEF SwitchTo, SwitchedStates
  <2> QED BY <1>1, <2>1 DEF ExecutingIsRunning
<1>5. ScanBest' /\ ScanPrefix'
  BY <1>0 DEF SwitchTo, ScanBest, ScanPrefix
<1> QED BY <1>2, <1>3, <1>4, <1>5 DEF IInv, CpuInv

-----------------------------------------------------------------------------
(* The tick.                                                               *)

\* The start of SysTick_Handler keeps the invariant.
LEMMA SysTickKeeps ==
  ASSUME IInv, SysTick
  PROVE  IInv'
<1>0. NTasks \in Nat \ {0} /\ TypeOK /\ ObjectInv /\ CpuInv
  BY KernelAssumption DEF IInv
<1>1. TypeOK'
  BY <1>0 DEF SysTick, TypeOK, tcbVars, objVars, queueVars, clientVars
<1>2. ObjectInv'
  BY <1>0, ObjectFrame DEF SysTick
<1>3. CpuInv'
  BY <1>0 DEF SysTick, CpuInv, ExecutingIsRunning, ScanBest, ScanPrefix, Thread,
              tcbVars, clientVars
<1> QED BY <1>1, <1>2, <1>3 DEF IInv

\* While the tick runs no task executes, and after it a PendSV is due; it may
\* unblock a task, and touches no other state that the scheduler looks at.
LEMMA TickCpu ==
  ASSUME IInv, TickAdvance, tick_i \in Tasks,
         \A t \in Tasks : state'[t] = state[t] \/ state'[t] = "READY"
  PROVE  /\ tick_i' \in -1 .. NTasks - 1 /\ pendsv' \in BOOLEAN
         /\ CpuInv' /\ IdleRuns'
<1>0. /\ NTasks \in Nat \ {0} /\ TypeOK /\ ObjectInv /\ CpuInv
      /\ NULL \notin Tasks /\ IdleTask \in Tasks
  BY KernelAssumption DEF IInv
<1>1. tick_i' \in -1 .. NTasks - 1
  BY <1>0 DEF TickAdvance, Tasks
<1>2. pendsv' \in BOOLEAN
  BY DEF TickAdvance
<1>3. tick_i' = -1 => pendsv'
  <2>1. tick_i' = -1 => tick_i = NTasks - 1
    BY <1>0 DEF TickAdvance, Tasks
  <2> QED BY <2>1, Zenon DEF TickAdvance
<1>4. CpuInv'
  BY <1>0, <1>3 DEF TickAdvance, CpuInv, ExecutingIsRunning, ScanBest, ScanPrefix, Thread,
                    TypeOK
<1>5. IdleRuns'
  BY <1>0 DEF ObjectInv, IdleRuns
<1> QED BY <1>1, <1>2, <1>4, <1>5

\* SysTick_Handler passing over a task without a deadline keeps the invariant.
LEMMA TickSkipKeeps ==
  ASSUME IInv, TickSkip
  PROVE  IInv'
<1>0. TypeOK /\ ObjectInv
  BY DEF IInv
<1>1. tick_i' \in -1 .. NTasks - 1 /\ pendsv' \in BOOLEAN /\ CpuInv'
  BY TickCpu DEF TickSkip
<1>2. UNCHANGED <<tcbVars, objVars, queueVars, clientVars, current_tcb, kernel_running, scan_k, best>>
  BY DEF TickSkip, TickAdvance, tcbVars
<1>3. TypeOK'
  BY <1>0, <1>1, <1>2 DEF TypeOK, tcbVars, objVars, queueVars, clientVars
<1>4. ObjectInv'
  BY <1>0, <1>2, ObjectFrame
<1> QED BY <1>1, <1>3, <1>4 DEF IInv

\* SysTick_Handler counting a deadline down keeps the invariant.
LEMMA TickCountKeeps ==
  ASSUME IInv, TickCount
  PROVE  IInv'
<1>0. TypeOK /\ ObjectInv
  BY DEF IInv
<1>1. tick_i' \in -1 .. NTasks - 1 /\ pendsv' \in BOOLEAN /\ CpuInv'
  BY TickCpu DEF TickCount
<1>2. /\ tick_i \in Tasks /\ sleep_time[tick_i] > 1
      /\ sleep_time' = [sleep_time EXCEPT ![tick_i] = @ - 1]
      /\ UNCHANGED <<state, current_priority, wait_on, wait_result, objVars, queueVars,
                     clientVars, current_tcb, kernel_running, scan_k, best>>
  BY DEF TickCount, TickAdvance
<1>3. TypeOK'
  BY <1>0, <1>1, <1>2 DEF TypeOK, objVars, queueVars, clientVars
<1>4. BlockedIsWakeable'
  BY <1>0, <1>2 DEF ObjectInv, BlockedIsWakeable, TypeOK
<1>5. ObjectInv'
  BY <1>0, <1>2, <1>4
     DEF ObjectInv, QueueIntegrity, NoMissedRelease, LockedIsOwned, MutualExclusion,
         CallMatches, WaiterNotOwner, AcquireTellsTruth, BoostOnlyOwners, IdleRuns,
         objVars, queueVars, clientVars
<1> QED BY <1>1, <1>3, <1>5 DEF IInv

\* SysTick_Handler ending a delay or a wait keeps the invariant: the task leaves
\* its queue and is told of the timeout in one step.
LEMMA TickExpireKeeps ==
  ASSUME IInv, TickExpire
  PROVE  IInv'
<1>0. /\ TypeOK /\ ObjectInv /\ QueueType /\ QueueIntegrity
      /\ NULL \notin Objs /\ NULL \notin Tasks
  BY KernelAssumption DEF IInv, ObjectInv, TypeOK, QueueType
<1> DEFINE t == tick_i
<1>1. /\ t \in Tasks
      /\ sleep_time' = [sleep_time EXCEPT ![t] = 0]
      /\ wait_on' = [wait_on EXCEPT ![t] = NULL]
      /\ wait_result' = IF wait_on[t] = NULL THEN wait_result
                        ELSE [wait_result EXCEPT ![t] = OS_TIMEOUT]
      /\ state' = [state EXCEPT ![t] = "READY"]
      /\ UNCHANGED <<current_priority, objVars, clientVars, current_tcb, kernel_running,
                     scan_k, best>>
      /\ RemoveFromQueue(t)
      /\ sleep_time[t] = 1
  BY DEF TickExpire, TickAdvance
<1>2. /\ QueueType' /\ QueueIntegrity'
      /\ \A o \in Objs : wait_count'[o] <= wait_count[o]
  BY <1>0, <1>1, RemoveKeeps
<1>3. \A u \in Tasks : state'[u] = state[u] \/ state'[u] = "READY"
  BY <1>0, <1>1 DEF TypeOK
<1>4. tick_i' \in -1 .. NTasks - 1 /\ pendsv' \in BOOLEAN /\ CpuInv' /\ IdleRuns'
  BY <1>1, <1>3, TickCpu DEF TickExpire
<1>5. TypeOK'
  BY <1>0, <1>1, <1>2, <1>4 DEF TypeOK, QueueType, objVars, clientVars, OS_SUCCESS, OS_TIMEOUT
<1>6. NoMissedRelease'
  BY <1>0, <1>1, <1>2 DEF ObjectInv, NoMissedRelease, QueueType, objVars, Objs
<1>7. BlockedIsWakeable' /\ WaiterNotOwner' /\ CallMatches'
  BY <1>0, <1>1 DEF ObjectInv, BlockedIsWakeable, WaiterNotOwner, CallMatches, TypeOK,
                    objVars, clientVars, Objs
<1>8. AcquireTellsTruth'
  <2> SUFFICES ASSUME NEW u \in Tasks, NEW m \in Mutexes, call[u] = m,
                      state'[u] # "BLOCKED"
               PROVE  wait_result'[u] = OS_SUCCESS <=> owner[m] = u
    BY <1>1 DEF AcquireTellsTruth, objVars, clientVars
  <2>1. CASE u # t
    BY <1>0, <1>1, <2>1 DEF ObjectInv, AcquireTellsTruth, TypeOK
  <2>2. CASE u = t
    <3>1. state[t] = "BLOCKED" /\ wait_on[t] = m
      BY <1>0, <1>1, <2>2 DEF ObjectInv, BlockedIsWakeable, CallMatches, TypeOK
    <3>2. owner[m] # t /\ wait_result'[t] = OS_TIMEOUT
      BY <1>0, <1>1, <3>1 DEF ObjectInv, WaiterNotOwner, TypeOK, Objs
    <3> QED BY <2>2, <3>2 DEF OS_TIMEOUT, OS_SUCCESS
  <2> QED BY <2>1, <2>2
<1>9. LockedIsOwned' /\ MutualExclusion' /\ BoostOnlyOwners'
  BY <1>0, <1>1 DEF ObjectInv, LockedIsOwned, MutualExclusion, BoostOnlyOwners,
                    objVars, clientVars
<1> QED BY <1>2, <1>4, <1>5, <1>6, <1>7, <1>8, <1>9 DEF IInv, ObjectInv

-----------------------------------------------------------------------------
(* The calls of the tasks.                                                 *)

\* A task that makes a call, or returns from one, is not blocked.
LEMMA CallerRuns ==
  ASSUME IInv, NEW t \in Tasks, Thread(t), pc[t] # "yield"
  PROVE  state[t] = "RUNNING" /\ wait_on[t] = NULL /\ sleep_time[t] = 0
BY DEF IInv, TypeOK, CpuInv, ExecutingIsRunning, ObjectInv, BlockedIsWakeable

\* A step of the executing task leaves the scheduler alone.
LEMMA ThreadCpu ==
  ASSUME IInv, NEW t \in Tasks, Thread(t), UNCHANGED cpuVars,
         \A u \in Tasks : state'[u] = "RUNNING" => state[u] = "RUNNING",
         state'[t] = "RUNNING" \/ (state'[t] = "BLOCKED" /\ pc'[t] = "yield")
  PROVE  CpuInv'
<1>1. scan_k' = -1 /\ best' = NULL /\ current_tcb' = t
  BY DEF Thread, cpuVars, IInv, CpuInv, ScanBest
<1>2. \A u \in Tasks : state'[u] = "RUNNING" => u = t
  BY DEF Thread, IInv, CpuInv, ExecutingIsRunning
<1> QED BY <1>1, <1>2 DEF CpuInv, ExecutingIsRunning, ScanBest, ScanPrefix, Thread

\* os_yield at the end of a call keeps the invariant.
LEMMA YieldKeeps ==
  ASSUME IInv, NEW t \in Tasks, Yield(t)
  PROVE  IInv'
<1>0. TypeOK /\ ObjectInv /\ CpuInv
  BY DEF IInv
<1>1. pendsv' \in BOOLEAN /\ pendsv' = TRUE
  BY DEF Yield
<1>2. /\ pc' = [pc EXCEPT ![t] = "resume"]
      /\ UNCHANGED <<tcbVars, current_tcb, kernel_running, scan_k, best, tick_i,
                     objVars, queueVars, call, holds>>
      /\ Thread(t)
  BY DEF Yield
<1>3. TypeOK'
  BY <1>0, <1>1, <1>2 DEF TypeOK, tcbVars, objVars, queueVars
<1>4. ObjectInv'
  BY <1>0, <1>2
     DEF TypeOK, ObjectInv, QueueIntegrity, BlockedIsWakeable, NoMissedRelease,
         LockedIsOwned, MutualExclusion, CallMatches, WaiterNotOwner,
         AcquireTellsTruth, BoostOnlyOwners, IdleRuns, tcbVars, objVars, queueVars
<1>5. CpuInv'
  BY <1>0, <1>1, <1>2 DEF CpuInv, ExecutingIsRunning, ScanBest, ScanPrefix, Thread, tcbVars
<1> QED BY <1>3, <1>4, <1>5 DEF IInv

\* The return of a call keeps the invariant: a task that is told OS_SUCCESS owns
\* the mutex.
LEMMA ReturnKeeps ==
  ASSUME IInv, NEW t \in Tasks, Return(t)
  PROVE  IInv'
<1>0. TypeOK /\ ObjectInv /\ NULL \notin Objs
  BY KernelAssumption DEF IInv
<1>1. /\ Thread(t) /\ pc[t] = "resume"
      /\ pc' = [pc EXCEPT ![t] = "run"]
      /\ call' = [call EXCEPT ![t] = NULL]
      /\ holds' = IF call[t] \in Mutexes /\ wait_result[t] = OS_SUCCESS
                  THEN [holds EXCEPT ![t] = @ \cup {call[t]}] ELSE holds
      /\ UNCHANGED <<tcbVars, cpuVars, objVars, queueVars>>
  BY DEF Return
<1>2. state[t] = "RUNNING" /\ wait_on[t] = NULL
  BY <1>1, CallerRuns
<1>3. TypeOK'
  BY <1>0, <1>1 DEF TypeOK, tcbVars, cpuVars, objVars, queueVars
<1>4. MutualExclusion'
  <2> SUFFICES ASSUME NEW u \in Tasks, NEW m \in holds'[u]
               PROVE  owner[m] = u /\ lock[m] = 1
    BY <1>1 DEF MutualExclusion, objVars
  <2>1. CASE m \in holds[u]
    BY <1>0, <2>1 DEF ObjectInv, MutualExclusion
  <2>2. CASE m \notin holds[u]
    <3>1. u = t /\ m \in Mutexes /\ call[t] = m /\ wait_result[t] = OS_SUCCESS
      BY <1>0, <1>1, <2>2 DEF TypeOK
    <3>2. owner[m] = t
      BY <1>0, <1>2, <3>1 DEF ObjectInv, AcquireTellsTruth
    <3>3. lock[m] # 0
      BY <3>1, <3>2, <1>0, KernelAssumption DEF ObjectInv, NoMissedRelease
    <3> QED BY <1>0, <3>1, <3>2, <3>3 DEF TypeOK
  <2> QED BY <2>1, <2>2
<1>5. CallMatches' /\ AcquireTellsTruth'
  BY <1>0, <1>1, <1>2 DEF ObjectInv, CallMatches, AcquireTellsTruth, TypeOK, tcbVars, objVars, Objs
<1>6. ObjectInv'
  BY <1>0, <1>1, <1>4, <1>5
     DEF ObjectInv, QueueIntegrity, BlockedIsWakeable, NoMissedRelease,
         LockedIsOwned, WaiterNotOwner, BoostOnlyOwners, IdleRuns, tcbVars, objVars, queueVars
<1>7. CpuInv'
  BY <1>1, <1>2, ThreadCpu DEF tcbVars
<1> QED BY <1>3, <1>6, <1>7 DEF IInv

\* os_delay keeps the invariant.
LEMMA DelayKeeps ==
  ASSUME IInv, NEW t \in Tasks, NEW ms \in Nat \ {0}, Delay(t, ms)
  PROVE  IInv'
<1>0. TypeOK /\ ObjectInv /\ NULL \notin Objs /\ ms \in Nat /\ ms > 0
  BY KernelAssumption DEF IInv
<1>1. /\ Thread(t) /\ pc[t] = "run" /\ t # IdleTask
      /\ sleep_time' = [sleep_time EXCEPT ![t] = ms]
      /\ wait_on' = [wait_on EXCEPT ![t] = NULL]
      /\ state' = [state EXCEPT ![t] = "BLOCKED"]
      /\ pc' = [pc EXCEPT ![t] = "yield"]
      /\ UNCHANGED <<current_priority, wait_result, cpuVars, objVars, queueVars,
                     call, holds>>
  BY DEF Delay, App
<1>2. state[t] = "RUNNING" /\ wait_on[t] = NULL
  BY <1>1, CallerRuns
<1>3. wait_on' = wait_on
  BY <1>0, <1>1, <1>2 DEF TypeOK
<1>4. TypeOK'
  BY <1>0, <1>1 DEF TypeOK, cpuVars, objVars, queueVars
<1>5. BlockedIsWakeable' /\ CallMatches' /\ AcquireTellsTruth' /\ IdleRuns'
  BY <1>0, <1>1, <1>2, <1>3, KernelAssumption
     DEF ObjectInv, BlockedIsWakeable, CallMatches, AcquireTellsTruth, IdleRuns, TypeOK, objVars
<1>6. ObjectInv'
  BY <1>0, <1>1, <1>3, <1>5
     DEF ObjectInv, QueueIntegrity, NoMissedRelease, LockedIsOwned, MutualExclusion,
         WaiterNotOwner, BoostOnlyOwners, objVars, queueVars
<1>7. CpuInv'
  BY <1>0, <1>1, ThreadCpu DEF TypeOK
<1> QED BY <1>4, <1>6, <1>7 DEF IInv

\* os_mutex_acquire of a free mutex keeps the invariant.
LEMMA MutexTakeKeeps ==
  ASSUME IInv, NEW t \in Tasks, NEW m \in Mutexes, MutexTake(t, m)
  PROVE  IInv'
<1>0. TypeOK /\ ObjectInv /\ NULL \notin Objs /\ NULL \notin Tasks
  BY KernelAssumption DEF IInv
<1>1. /\ Thread(t) /\ pc[t] = "run" /\ lock[m] = 0
      /\ lock' = [lock EXCEPT ![m] = 1]
      /\ owner' = [owner EXCEPT ![m] = t]
      /\ holds' = [holds EXCEPT ![t] = @ \cup {m}]
      /\ UNCHANGED <<tcbVars, cpuVars, count, queueVars, pc, call>>
  BY DEF MutexTake, App
<1>2. state[t] = "RUNNING" /\ wait_on[t] = NULL
  BY <1>1, CallerRuns
<1>3. owner[m] = NULL /\ wait_count[m] = 0 /\ call[t] = NULL
  BY <1>0, <1>1 DEF ObjectInv, NoMissedRelease, CallMatches
<1>4. TypeOK'
  BY <1>0, <1>1 DEF TypeOK, tcbVars, cpuVars, queueVars
<1>5. NoMissedRelease' /\ LockedIsOwned' /\ MutualExclusion'
  BY <1>0, <1>1, <1>3 DEF ObjectInv, NoMissedRelease, LockedIsOwned, MutualExclusion, TypeOK,
                          queueVars
<1>6. WaiterNotOwner'
  BY <1>0, <1>1, <1>2 DEF ObjectInv, WaiterNotOwner, TypeOK, tcbVars, Objs
<1>7. AcquireTellsTruth'
  BY <1>0, <1>1, <1>3 DEF ObjectInv, AcquireTellsTruth, TypeOK, tcbVars, Objs
<1>8. BoostOnlyOwners'
  BY <1>0, <1>1, <1>3 DEF ObjectInv, BoostOnlyOwners, TypeOK, tcbVars
<1>9. ObjectInv'
  BY <1>0, <1>1, <1>5, <1>6, <1>7, <1>8
     DEF ObjectInv, QueueIntegrity, BlockedIsWakeable, CallMatches, IdleRuns, tcbVars, queueVars
<1>10. CpuInv'
  BY <1>1, <1>2, ThreadCpu DEF tcbVars
<1> QED BY <1>4, <1>9, <1>10 DEF IInv

\* What block_current leaves for both kinds of object; prio' is the caller's.
LEMMA BlockingKeeps ==
  ASSUME IInv, NEW t \in Tasks, NEW o \in Objs, NEW timeout \in Nat,
         App(t), timeout # 0, BlockCurrent(t, o, timeout),
         o \in Mutexes => lock[o] # 0 /\ owner[o] # t,
         o \in Sems => count[o] = 0,
         UNCHANGED <<cpuVars, objVars, holds>>,
         current_priority' \in [Tasks -> Nat], BoostOnlyOwners'
  PROVE  IInv'
<1>0. /\ TypeOK /\ ObjectInv /\ QueueType /\ QueueIntegrity
      /\ NULL \notin Objs /\ NULL \notin Tasks
      /\ timeout \in Nat /\ WAIT_FOREVER \in Nat
  BY KernelAssumption DEF IInv, ObjectInv, TypeOK, QueueType
<1>1. /\ Thread(t) /\ pc[t] = "run" /\ t # IdleTask
      /\ wait_on' = [wait_on EXCEPT ![t] = o]
      /\ wait_result' = [wait_result EXCEPT ![t] = OS_SUCCESS]
      /\ sleep_time' = [sleep_time EXCEPT ![t] =
                          IF timeout = WAIT_FOREVER THEN 0 ELSE timeout]
      /\ state' = [state EXCEPT ![t] = "BLOCKED"]
      /\ pc' = [pc EXCEPT ![t] = "yield"]
      /\ call' = [call EXCEPT ![t] = o]
  BY DEF App, BlockCurrent
<1>2. state[t] = "RUNNING" /\ wait_on[t] = NULL
  BY <1>1, CallerRuns
<1>3. /\ QueueType' /\ QueueIntegrity'
      /\ wait_count' = [wait_count EXCEPT ![o] = wait_count[o] + 1]
  BY <1>0, <1>2, BlockKeeps
<1>4. TypeOK'
  BY <1>0, <1>1, <1>3 DEF TypeOK, QueueType, cpuVars, objVars, OS_SUCCESS, OS_TIMEOUT
<1>5. NoMissedRelease'
  <2>1. \A x \in Objs \ {o} : wait_count'[x] = wait_count[x]
    BY <1>3, <1>0 DEF QueueType
  <2>2. \A m \in Mutexes : lock[m] = 0 => wait_count'[m] = 0 /\ owner[m] = NULL
    BY <1>0, <2>1 DEF ObjectInv, NoMissedRelease, Objs
  <2>3. \A s \in Sems : count[s] > 0 => wait_count'[s] = 0
    BY <1>0, <2>1 DEF ObjectInv, NoMissedRelease, Objs
  <2> QED BY <2>2, <2>3 DEF NoMissedRelease, objVars
<1>6. BlockedIsWakeable' /\ CallMatches' /\ IdleRuns'
  BY <1>0, <1>1, KernelAssumption
     DEF ObjectInv, BlockedIsWakeable, CallMatches, IdleRuns, TypeOK
<1>7. WaiterNotOwner' /\ AcquireTellsTruth'
  BY <1>0, <1>1 DEF ObjectInv, WaiterNotOwner, AcquireTellsTruth, TypeOK, objVars
<1>8. LockedIsOwned' /\ MutualExclusion'
  BY <1>0 DEF ObjectInv, LockedIsOwned, MutualExclusion, objVars
<1>9. CpuInv'
  BY <1>0, <1>1, ThreadCpu DEF TypeOK
<1> QED BY <1>3, <1>4, <1>5, <1>6, <1>7, <1>8, <1>9 DEF IInv, ObjectInv

\* Lending a priority raises only a mutex owner.
LEMMA DonatedKeeps ==
  ASSUME IInv, NEW t \in Tasks, NEW m \in Mutexes, lock[m] # 0,
         current_priority' = Donated(t, m), owner' = owner
  PROVE  /\ owner[m] \in Tasks
         /\ current_priority' \in [Tasks -> Nat]
         /\ BoostOnlyOwners'
<1>0. TypeOK /\ ObjectInv /\ BasePriority \in [Tasks -> Nat]
  BY KernelAssumption DEF IInv
<1>1. owner[m] \in Tasks
  BY <1>0 DEF TypeOK, ObjectInv, LockedIsOwned
<1>2. /\ current_priority \in [Tasks -> Nat] /\ current_priority' \in [Tasks -> Nat]
      /\ \A u \in Tasks : current_priority'[u] >= current_priority[u]
      /\ \A u \in Tasks : u # owner[m] => current_priority'[u] = current_priority[u]
  BY <1>0, <1>1 DEF TypeOK, Donated
<1>3. BoostOnlyOwners'
  BY <1>0, <1>1, <1>2 DEF ObjectInv, BoostOnlyOwners
<1> QED BY <1>1, <1>2, <1>3

\* os_mutex_acquire that blocks keeps the invariant.
LEMMA MutexBlockKeeps ==
  ASSUME IInv, NEW t \in Tasks, NEW m \in Mutexes, NEW timeout \in Nat,
         MutexBlock(t, m, timeout)
  PROVE  IInv'
<1>1. current_priority' \in [Tasks -> Nat] /\ BoostOnlyOwners'
  BY DonatedKeeps DEF MutexBlock, objVars
<1>2. m \in Objs /\ m \notin Sems
  BY KernelAssumption DEF Objs
<1> QED BY <1>1, <1>2, BlockingKeeps DEF MutexBlock

\* os_mutex_acquire that finds the queue full keeps the invariant.
LEMMA MutexFullKeeps ==
  ASSUME IInv, NEW t \in Tasks, NEW m \in Mutexes, NEW timeout \in Nat,
         MutexFull(t, m, timeout)
  PROVE  IInv'
<1>0. TypeOK /\ ObjectInv
  BY DEF IInv
<1>1. current_priority' \in [Tasks -> Nat] /\ BoostOnlyOwners'
  BY DonatedKeeps DEF MutexFull, objVars
<1>2. /\ UNCHANGED <<state, sleep_time, wait_on, wait_result, cpuVars, objVars,
                     queueVars, clientVars>>
      /\ Thread(t) /\ pc[t] = "run"
  BY DEF MutexFull, App
<1>3. TypeOK'
  BY <1>0, <1>1, <1>2 DEF TypeOK, cpuVars, objVars, queueVars, clientVars
<1>4. ObjectInv'
  BY <1>0, <1>1, <1>2
     DEF ObjectInv, QueueIntegrity, BlockedIsWakeable, NoMissedRelease, LockedIsOwned,
         MutualExclusion, CallMatches, WaiterNotOwner, AcquireTellsTruth, IdleRuns,
         objVars, queueVars, clientVars
<1>5. CpuInv'
  BY <1>2, CallerRuns, ThreadCpu
<1> QED BY <1>3, <1>4, <1>5 DEF IInv

\* wake_task for an entry w of the queue of o, whoever calls it.
LEMMA WakeTaskKeeps ==
  ASSUME IInv, NEW o \in Objs,
         NEW i \in 0 .. wait_count[o] - 1, WakeTask(wait_queue[o][i])
  PROVE  LET w == wait_queue[o][i] IN
         /\ w \in Tasks /\ wait_on[w] = o /\ call[w] = o /\ state[w] = "BLOCKED"
         /\ QueueType' /\ QueueIntegrity' /\ BlockedIsWakeable' /\ IdleRuns'
         /\ \A x \in Objs : wait_count'[x] <= wait_count[x]
         /\ state' \in [Tasks -> {"READY", "RUNNING", "BLOCKED"}]
         /\ sleep_time' \in [Tasks -> Nat]
         /\ wait_result' \in [Tasks -> {OS_SUCCESS, OS_TIMEOUT}]
         /\ \A u \in Tasks : state'[u] = IF u = w THEN "READY" ELSE state[u]
         /\ \A u \in Tasks : wait_result'[u] = IF u = w THEN OS_SUCCESS ELSE wait_result[u]
         /\ \A u \in Tasks : wait_on'[u] = IF u = w THEN NULL ELSE wait_on[u]
<1> DEFINE w == wait_queue[o][i]
<1>0. /\ TypeOK /\ ObjectInv /\ QueueType /\ QueueIntegrity
      /\ NULL \notin Objs
  BY KernelAssumption DEF IInv, ObjectInv, TypeOK, QueueType
<1>1. w \in Tasks /\ wait_on[w] = o
  BY <1>0 DEF QueueIntegrity
<1>3. state[w] = "BLOCKED" /\ call[w] = o
  BY <1>0, <1>1 DEF ObjectInv, BlockedIsWakeable, CallMatches
<1>4. /\ wait_on' = [wait_on EXCEPT ![w] = NULL]
      /\ sleep_time' = [sleep_time EXCEPT ![w] = 0]
      /\ wait_result' = [wait_result EXCEPT ![w] = OS_SUCCESS]
      /\ state' = [state EXCEPT ![w] = "READY"]
      /\ RemoveFromQueue(w)
  BY DEF WakeTask
<1> HIDE DEF w
<1>5. QueueType' /\ QueueIntegrity' /\ \A x \in Objs : wait_count'[x] <= wait_count[x]
  BY <1>0, <1>1, <1>4, RemoveKeeps
<1>6. /\ state' \in [Tasks -> {"READY", "RUNNING", "BLOCKED"}]
      /\ sleep_time' \in [Tasks -> Nat]
      /\ wait_result' \in [Tasks -> {OS_SUCCESS, OS_TIMEOUT}]
      /\ \A u \in Tasks : state'[u] = IF u = w THEN "READY" ELSE state[u]
      /\ \A u \in Tasks : wait_result'[u] = IF u = w THEN OS_SUCCESS ELSE wait_result[u]
      /\ \A u \in Tasks : wait_on'[u] = IF u = w THEN NULL ELSE wait_on[u]
  BY <1>0, <1>1, <1>4 DEF TypeOK
<1>7. BlockedIsWakeable' /\ IdleRuns'
  BY <1>0, <1>4, <1>6, KernelAssumption DEF TypeOK, ObjectInv, BlockedIsWakeable, IdleRuns
<1> QED BY <1>1, <1>3, <1>5, <1>6, <1>7 DEF w

\* wake_task, called by t for an entry w of the queue of o.
LEMMA WakeKeeps ==
  ASSUME IInv, NEW t \in Tasks, App(t), NEW o \in Objs,
         NEW i \in 0 .. wait_count[o] - 1, WakeTask(wait_queue[o][i])
  PROVE  LET w == wait_queue[o][i] IN
         /\ w \in Tasks /\ w # t /\ wait_on[w] = o /\ call[w] = o /\ state[w] = "BLOCKED"
         /\ QueueType' /\ QueueIntegrity' /\ BlockedIsWakeable' /\ IdleRuns'
         /\ \A x \in Objs : wait_count'[x] <= wait_count[x]
         /\ state' \in [Tasks -> {"READY", "RUNNING", "BLOCKED"}]
         /\ sleep_time' \in [Tasks -> Nat]
         /\ wait_result' \in [Tasks -> {OS_SUCCESS, OS_TIMEOUT}]
         /\ \A u \in Tasks : state'[u] = IF u = w THEN "READY" ELSE state[u]
         /\ \A u \in Tasks : wait_result'[u] = IF u = w THEN OS_SUCCESS ELSE wait_result[u]
         /\ \A u \in Tasks : wait_on'[u] = IF u = w THEN NULL ELSE wait_on[u]
<1> DEFINE w == wait_queue[o][i]
<1>1. w \in Tasks /\ wait_on[w] = o
  BY WakeTaskKeeps
<1>2. w # t
  BY <1>1, CallerRuns, KernelAssumption DEF App
<1> QED BY <1>2, WakeTaskKeeps

\* The owner that releases a mutex drops to its base priority.
LEMMA DroppedKeeps ==
  ASSUME IInv, NEW t \in Tasks, NEW m \in Mutexes, owner[m] = t
  PROVE  /\ Dropped(m) = [current_priority EXCEPT ![t] = BasePriority[t]]
         /\ Dropped(m) \in [Tasks -> Nat]
         /\ \A u \in Tasks : u # t => Dropped(m)[u] = current_priority[u]
         /\ Dropped(m)[t] = BasePriority[t]
BY KernelAssumption DEF Dropped, IInv, TypeOK

\* os_mutex_release with a waiter keeps the invariant.
LEMMA MutexHandoffKeeps ==
  ASSUME IInv, NEW t \in Tasks, NEW m \in Mutexes, MutexHandoff(t, m)
  PROVE  IInv'
<1>0. /\ TypeOK /\ ObjectInv /\ NULL \notin Objs /\ NULL \notin Tasks
      /\ m \in Objs /\ BasePriority \in [Tasks -> Nat]
  BY KernelAssumption DEF IInv, Objs
<1>1. PICK i \in 0 .. wait_count[m] - 1 :
        /\ owner' = [owner EXCEPT ![m] = wait_queue[m][i]]
        /\ WakeTask(wait_queue[m][i])
  BY DEF MutexHandoff
<1>2. /\ App(t) /\ m \in holds[t]
      /\ current_priority' = Dropped(m)
      /\ pc' = [pc EXCEPT ![t] = "yield"]
      /\ holds' = [holds EXCEPT ![t] = @ \ {m}]
      /\ UNCHANGED <<cpuVars, lock, count, call>>
  BY DEF MutexHandoff
<1> DEFINE w == wait_queue[m][i]
<1>3. /\ w \in Tasks /\ w # t /\ wait_on[w] = m /\ call[w] = m /\ state[w] = "BLOCKED"
      /\ QueueType' /\ QueueIntegrity' /\ BlockedIsWakeable' /\ IdleRuns'
      /\ \A x \in Objs : wait_count'[x] <= wait_count[x]
      /\ state' \in [Tasks -> {"READY", "RUNNING", "BLOCKED"}]
      /\ sleep_time' \in [Tasks -> Nat]
      /\ wait_result' \in [Tasks -> {OS_SUCCESS, OS_TIMEOUT}]
      /\ \A u \in Tasks : state'[u] = IF u = w THEN "READY" ELSE state[u]
      /\ \A u \in Tasks : wait_result'[u] = IF u = w THEN OS_SUCCESS ELSE wait_result[u]
      /\ \A u \in Tasks : wait_on'[u] = IF u = w THEN NULL ELSE wait_on[u]
  BY <1>0, <1>1, <1>2, WakeKeeps
<1>4. owner' = [owner EXCEPT ![m] = w]
  BY <1>1
<1> HIDE DEF w
<1>5. owner[m] = t /\ lock[m] = 1 /\ call[t] = NULL
  BY <1>0, <1>2 DEF ObjectInv, MutualExclusion, CallMatches, App
<1>6. state[t] = "RUNNING" /\ wait_on[t] = NULL
  BY <1>2, CallerRuns DEF App
<1>7. /\ current_priority' \in [Tasks -> Nat]
      /\ \A u \in Tasks : u # t => current_priority'[u] = current_priority[u]
      /\ current_priority'[t] = BasePriority[t]
  BY <1>2, <1>5, DroppedKeeps
<1>8. TypeOK'
  BY <1>0, <1>2, <1>3, <1>4, <1>7 DEF TypeOK, QueueType, cpuVars
<1>9. NoMissedRelease' /\ LockedIsOwned'
  <2>1. \A x \in Objs : wait_count[x] \in Nat /\ wait_count'[x] \in Nat
    BY <1>0, <1>8, KernelAssumption DEF TypeOK
  <2> QED BY <1>0, <1>2, <1>3, <1>4, <1>5, <2>1
             DEF ObjectInv, NoMissedRelease, LockedIsOwned, TypeOK, Objs
<1>10. MutualExclusion'
  BY <1>0, <1>2, <1>4, <1>5 DEF ObjectInv, MutualExclusion, TypeOK
<1>11. CallMatches'
  BY <1>0, <1>2, <1>3 DEF ObjectInv, CallMatches, TypeOK
<1>12. WaiterNotOwner'
  BY <1>0, <1>3, <1>4 DEF ObjectInv, WaiterNotOwner, TypeOK, Objs
<1>13. AcquireTellsTruth'
  BY <1>0, <1>2, <1>3, <1>4, <1>5
     DEF ObjectInv, AcquireTellsTruth, TypeOK
<1>14. BoostOnlyOwners'
  BY <1>0, <1>4, <1>5, <1>7 DEF ObjectInv, BoostOnlyOwners, TypeOK
<1>15. CpuInv'
  BY <1>2, <1>3, <1>6, ThreadCpu DEF App
<1> QED BY <1>3, <1>8, <1>9, <1>10, <1>11, <1>12, <1>13, <1>14, <1>15 DEF IInv, ObjectInv

\* os_mutex_release without a waiter keeps the invariant.
LEMMA MutexFreeKeeps ==
  ASSUME IInv, NEW t \in Tasks, NEW m \in Mutexes, MutexFree(t, m)
  PROVE  IInv'
<1>0. /\ TypeOK /\ ObjectInv /\ NULL \notin Objs /\ NULL \notin Tasks
      /\ m \in Objs /\ BasePriority \in [Tasks -> Nat]
  BY KernelAssumption DEF IInv, Objs
<1>1. /\ App(t) /\ m \in holds[t] /\ wait_count[m] = 0
      /\ lock' = [lock EXCEPT ![m] = 0]
      /\ owner' = [owner EXCEPT ![m] = NULL]
      /\ current_priority' = Dropped(m)
      /\ holds' = [holds EXCEPT ![t] = @ \ {m}]
      /\ UNCHANGED <<state, sleep_time, wait_on, wait_result, cpuVars, count,
                     queueVars, pc, call>>
  BY DEF MutexFree
<1>2. owner[m] = t /\ lock[m] = 1 /\ call[t] = NULL
  BY <1>0, <1>1 DEF ObjectInv, MutualExclusion, CallMatches, App
<1>3. state[t] = "RUNNING" /\ wait_on[t] = NULL
  BY <1>1, CallerRuns DEF App
<1>4. /\ current_priority' \in [Tasks -> Nat]
      /\ \A u \in Tasks : u # t => current_priority'[u] = current_priority[u]
      /\ current_priority'[t] = BasePriority[t]
  BY <1>1, <1>2, DroppedKeeps
<1>5. TypeOK'
  BY <1>0, <1>1, <1>4 DEF TypeOK, cpuVars, queueVars
<1>6. NoMissedRelease' /\ LockedIsOwned'
  BY <1>0, <1>1 DEF ObjectInv, NoMissedRelease, LockedIsOwned, TypeOK, queueVars
<1>7. MutualExclusion'
  BY <1>0, <1>1, <1>2 DEF ObjectInv, MutualExclusion, TypeOK
<1>8. WaiterNotOwner' /\ AcquireTellsTruth'
  BY <1>0, <1>1, <1>2 DEF ObjectInv, WaiterNotOwner, AcquireTellsTruth, TypeOK
<1>9. BoostOnlyOwners'
  BY <1>0, <1>1, <1>2, <1>4 DEF ObjectInv, BoostOnlyOwners, TypeOK
<1>10. ObjectInv'
  BY <1>0, <1>1, <1>6, <1>7, <1>8, <1>9
     DEF ObjectInv, QueueIntegrity, BlockedIsWakeable, CallMatches, IdleRuns, queueVars
<1>11. CpuInv'
  BY <1>1, <1>3, ThreadCpu DEF App
<1> QED BY <1>5, <1>10, <1>11 DEF IInv

\* A step that changes only the count of a semaphore.
LEMMA CountKeeps ==
  ASSUME IInv, count' \in [Sems -> Nat],
         \A s \in Sems : count'[s] > 0 => wait_count[s] = 0,
         UNCHANGED <<tcbVars, cpuVars, lock, owner, queueVars, clientVars>>
  PROVE  IInv'
<1>0. TypeOK /\ ObjectInv
  BY DEF IInv
<1>1. TypeOK'
  BY <1>0 DEF TypeOK, tcbVars, cpuVars, queueVars, clientVars
<1>2. NoMissedRelease'
  BY <1>0 DEF ObjectInv, NoMissedRelease, queueVars
<1>3. ObjectInv'
  BY <1>0, <1>2
     DEF ObjectInv, QueueIntegrity, BlockedIsWakeable, LockedIsOwned, MutualExclusion,
         CallMatches, WaiterNotOwner, AcquireTellsTruth, BoostOnlyOwners, IdleRuns,
         tcbVars, queueVars, clientVars
<1>4. CpuInv'
  BY DEF IInv, CpuInv, ExecutingIsRunning, ScanBest, ScanPrefix, Thread, Runnable,
         ScanSlot, tcbVars, clientVars, cpuVars
<1> QED BY <1>1, <1>3, <1>4 DEF IInv

\* The semaphore calls that only change the count keep the invariant.
LEMMA SemCountKeeps ==
  ASSUME IInv, NEW t \in Tasks, NEW s \in Sems, SemTake(t, s) \/ SemGive(t, s)
  PROVE  IInv'
<1>0. /\ count \in [Sems -> Nat] /\ SemMax \in [Sems -> Nat]
      /\ \A x \in Sems : count[x] > 0 => wait_count[x] = 0
  BY KernelAssumption DEF IInv, TypeOK, ObjectInv, NoMissedRelease
<1>1. CASE SemTake(t, s)
  <2>1. count' \in [Sems -> Nat] /\ \A x \in Sems : count'[x] > 0 => count[x] > 0
    BY <1>0, <1>1 DEF SemTake
  <2> QED BY <1>0, <1>1, <2>1, CountKeeps DEF SemTake
<1>2. CASE SemGive(t, s)
  <2>1. /\ count' \in [Sems -> Nat]
        /\ \A x \in Sems : count'[x] > 0 => count[x] > 0 \/ x = s
    BY <1>0, <1>2 DEF SemGive
  <2> QED BY <1>0, <1>2, <2>1, CountKeeps DEF SemGive
<1> QED BY <1>1, <1>2

\* os_semaphore_acquire that blocks keeps the invariant.
LEMMA SemBlockKeeps ==
  ASSUME IInv, NEW t \in Tasks, NEW s \in Sems, NEW timeout \in Nat,
         SemBlock(t, s, timeout)
  PROVE  IInv'
<1>1. current_priority' \in [Tasks -> Nat] /\ BoostOnlyOwners'
  BY DEF SemBlock, IInv, TypeOK, ObjectInv, BoostOnlyOwners, objVars
<1>2. s \in Objs /\ s \notin Mutexes
  BY KernelAssumption DEF Objs
<1> QED BY <1>1, <1>2, BlockingKeeps DEF SemBlock

\* os_semaphore_release with a waiter keeps the invariant.
LEMMA SemHandoffKeeps ==
  ASSUME IInv, NEW t \in Tasks, NEW s \in Sems, SemHandoff(t, s)
  PROVE  IInv'
<1>0. /\ TypeOK /\ ObjectInv /\ NULL \notin Objs
      /\ s \in Objs /\ s \notin Mutexes
  BY KernelAssumption DEF IInv, Objs
<1>1. PICK i \in 0 .. wait_count[s] - 1 : WakeTask(wait_queue[s][i])
  BY DEF SemHandoff
<1>2. /\ App(t)
      /\ pc' = [pc EXCEPT ![t] = "yield"]
      /\ UNCHANGED <<current_priority, cpuVars, objVars, call, holds>>
  BY DEF SemHandoff
<1> DEFINE w == wait_queue[s][i]
<1>3. /\ w \in Tasks /\ w # t /\ wait_on[w] = s /\ call[w] = s /\ state[w] = "BLOCKED"
      /\ QueueType' /\ QueueIntegrity' /\ BlockedIsWakeable' /\ IdleRuns'
      /\ \A x \in Objs : wait_count'[x] <= wait_count[x]
      /\ state' \in [Tasks -> {"READY", "RUNNING", "BLOCKED"}]
      /\ sleep_time' \in [Tasks -> Nat]
      /\ wait_result' \in [Tasks -> {OS_SUCCESS, OS_TIMEOUT}]
      /\ \A u \in Tasks : state'[u] = IF u = w THEN "READY" ELSE state[u]
      /\ \A u \in Tasks : wait_result'[u] = IF u = w THEN OS_SUCCESS ELSE wait_result[u]
      /\ \A u \in Tasks : wait_on'[u] = IF u = w THEN NULL ELSE wait_on[u]
  BY <1>0, <1>1, <1>2, WakeKeeps
<1> HIDE DEF w
<1>4. state[t] = "RUNNING"
  BY <1>2, CallerRuns DEF App
<1>5. TypeOK'
  BY <1>0, <1>2, <1>3 DEF TypeOK, QueueType, cpuVars, objVars
<1>6. NoMissedRelease'
  <2>1. \A x \in Objs : wait_count[x] \in Nat /\ wait_count'[x] \in Nat
    BY <1>0, <1>5, KernelAssumption DEF TypeOK
  <2> QED BY <1>0, <1>2, <1>3, <2>1 DEF ObjectInv, NoMissedRelease, Objs, objVars
<1>7. CallMatches' /\ WaiterNotOwner'
  <2>1. CallMatches'
    BY <1>0, <1>2, <1>3 DEF ObjectInv, CallMatches, TypeOK
  <2>2. WaiterNotOwner'
    BY <1>0, <1>2, <1>3 DEF ObjectInv, WaiterNotOwner, Objs, objVars
  <2> QED BY <2>1, <2>2
<1>8. AcquireTellsTruth'
  BY <1>0, <1>2, <1>3, SMTT(30) DEF ObjectInv, AcquireTellsTruth, TypeOK, objVars
<1>9. LockedIsOwned' /\ MutualExclusion' /\ BoostOnlyOwners'
  BY <1>0, <1>2 DEF ObjectInv, LockedIsOwned, MutualExclusion, BoostOnlyOwners, objVars
<1>10. CpuInv'
  BY <1>2, <1>3, <1>4, ThreadCpu DEF App
<1> QED BY <1>3, <1>5, <1>6, <1>7, <1>8, <1>9, <1>10 DEF IInv, ObjectInv

\* os_semaphore_release from a handler keeps the invariant, although it may come
\* between two steps of the tick or of the scheduler: the PendSV it pends makes
\* the scheduler look again.
LEMMA IsrReleaseKeeps ==
  ASSUME IInv, NEW s \in Sems, IsrRelease(s)
  PROVE  IInv'
<1>0. /\ TypeOK /\ ObjectInv /\ CpuInv /\ NULL \notin Objs
      /\ s \in Objs /\ s \notin Mutexes
  BY KernelAssumption DEF IInv, Objs
<1>1. CASE IsrGive(s)
  <2>0. /\ count \in [Sems -> Nat] /\ SemMax \in [Sems -> Nat]
        /\ \A x \in Sems : count[x] > 0 => wait_count[x] = 0
    BY <1>0, KernelAssumption DEF TypeOK, ObjectInv, NoMissedRelease
  <2>1. /\ count' \in [Sems -> Nat]
        /\ \A x \in Sems : count'[x] > 0 => count[x] > 0 \/ x = s
    BY <1>1, <2>0 DEF IsrGive
  <2> QED BY <1>1, <2>0, <2>1, CountKeeps DEF IsrGive
<1>2. CASE IsrHandoff(s)
  <2>1. PICK i \in 0 .. wait_count[s] - 1 : WakeTask(wait_queue[s][i])
    BY <1>2 DEF IsrHandoff
  <2>2. /\ pendsv' = TRUE
        /\ UNCHANGED <<current_priority, current_tcb, kernel_running, scan_k, best,
                       tick_i, objVars, clientVars>>
    BY <1>2 DEF IsrHandoff
  <2> DEFINE w == wait_queue[s][i]
  <2>3. /\ w \in Tasks /\ wait_on[w] = s /\ call[w] = s /\ state[w] = "BLOCKED"
        /\ QueueType' /\ QueueIntegrity' /\ BlockedIsWakeable' /\ IdleRuns'
        /\ \A x \in Objs : wait_count'[x] <= wait_count[x]
        /\ state' \in [Tasks -> {"READY", "RUNNING", "BLOCKED"}]
        /\ sleep_time' \in [Tasks -> Nat]
        /\ wait_result' \in [Tasks -> {OS_SUCCESS, OS_TIMEOUT}]
        /\ \A u \in Tasks : state'[u] = IF u = w THEN "READY" ELSE state[u]
        /\ \A u \in Tasks : wait_result'[u] = IF u = w THEN OS_SUCCESS ELSE wait_result[u]
        /\ \A u \in Tasks : wait_on'[u] = IF u = w THEN NULL ELSE wait_on[u]
    BY <1>0, <2>1, WakeTaskKeeps
  <2> HIDE DEF w
  <2>4. TypeOK'
    BY <1>0, <2>2, <2>3 DEF TypeOK, QueueType, objVars, clientVars
  <2>5. NoMissedRelease'
    <3>1. \A x \in Objs : wait_count[x] \in Nat /\ wait_count'[x] \in Nat
      BY <1>0, <2>4, KernelAssumption DEF TypeOK
    <3> QED BY <1>0, <2>2, <2>3, <3>1 DEF ObjectInv, NoMissedRelease, Objs, objVars
  <2>6. CallMatches'
    BY <1>0, <2>2, <2>3 DEF ObjectInv, CallMatches, TypeOK, clientVars
  <2>7. WaiterNotOwner'
    BY <1>0, <2>2, <2>3 DEF ObjectInv, WaiterNotOwner, Objs, objVars
  <2>8. AcquireTellsTruth'
    BY <1>0, <2>2, <2>3 DEF ObjectInv, AcquireTellsTruth, TypeOK, objVars, clientVars
  <2>9. LockedIsOwned' /\ MutualExclusion' /\ BoostOnlyOwners'
    BY <1>0, <2>2 DEF ObjectInv, LockedIsOwned, MutualExclusion, BoostOnlyOwners, objVars,
                      clientVars
  <2>10. CpuInv'
    <3>1. ExecutingIsRunning'
      BY <1>0, <2>2, <2>3 DEF CpuInv, ExecutingIsRunning, Thread
    <3>2. ScanBest' /\ ScanPrefix'
      BY <1>0, <2>2, <2>3 DEF CpuInv, ScanBest, ScanPrefix, TypeOK
    <3> QED BY <3>1, <3>2 DEF CpuInv
  <2> QED BY <2>3, <2>4, <2>5, <2>6, <2>7, <2>8, <2>9, <2>10 DEF IInv, ObjectInv
<1> QED BY <1>1, <1>2 DEF IsrRelease

-----------------------------------------------------------------------------
(* The invariant.                                                          *)

\* The state that main() hands to os_kernel_launch satisfies the invariant.
LEMMA InitInv == Init => IInv
<1> SUFFICES ASSUME Init
             PROVE  IInv
  OBVIOUS
<1>0. /\ NTasks \in Nat \ {0} /\ MAX_TASKS \in Nat /\ NULL \notin Tasks /\ NULL \notin Objs
      /\ IdleTask \in Tasks /\ BasePriority \in [Tasks -> Nat]
      /\ SemInitial \in [Sems -> Nat] /\ Mutexes \subseteq Objs /\ Sems \subseteq Objs
  BY KernelAssumption DEF Objs
<1>1. current_tcb \in Tasks
  BY DEF Init, TaskInit, Highest
<1>2. kernel_running \in BOOLEAN /\ pendsv \in BOOLEAN
  BY DEF Init, TaskInit, CpuInit, MutexInit, SemaphoreInit, QueueInit
<1>3. TypeOK
  BY <1>0, <1>1, <1>2 DEF Init, TaskInit, CpuInit, MutexInit, SemaphoreInit, QueueInit, TypeOK, OS_SUCCESS, OS_TIMEOUT
<1>4. QueueIntegrity
  BY <1>0 DEF Init, TaskInit, CpuInit, MutexInit, SemaphoreInit, QueueInit, QueueIntegrity
<1>5. BlockedIsWakeable /\ NoMissedRelease /\ LockedIsOwned /\ MutualExclusion
  BY <1>0 DEF Init, TaskInit, CpuInit, MutexInit, SemaphoreInit, QueueInit, BlockedIsWakeable, NoMissedRelease, LockedIsOwned, MutualExclusion
<1>6. CallMatches /\ WaiterNotOwner /\ AcquireTellsTruth /\ BoostOnlyOwners /\ IdleRuns
  BY <1>0 DEF Init, TaskInit, CpuInit, MutexInit, SemaphoreInit, QueueInit, CallMatches, WaiterNotOwner, AcquireTellsTruth, BoostOnlyOwners, IdleRuns, Objs
<1>7. CpuInv
  BY <1>0, <1>1 DEF Init, TaskInit, CpuInit, MutexInit, SemaphoreInit, QueueInit, CpuInv, ExecutingIsRunning, ScanBest, ScanPrefix, Thread
<1> QED BY <1>3, <1>4, <1>5, <1>6, <1>7 DEF IInv, ObjectInv

\* Every step of the kernel and of its tasks keeps the invariant.
LEMMA NextInv == IInv /\ [Next]_vars => IInv'
<1> SUFFICES ASSUME IInv, [Next]_vars
             PROVE  IInv'
  OBVIOUS
<1>1. CASE UNCHANGED vars
  <2>1. UNCHANGED <<tcbVars, objVars, queueVars, clientVars, cpuVars>>
    BY <1>1 DEF vars
  <2>2. TypeOK'
    BY <2>1 DEF IInv, TypeOK, tcbVars, objVars, queueVars, clientVars, cpuVars
  <2>3. ObjectInv'
    BY <2>1, ObjectFrame DEF IInv
  <2>4. CpuInv'
    BY <2>1 DEF IInv, CpuInv, ExecutingIsRunning, ScanBest, ScanPrefix, Thread, Runnable,
                ScanSlot, tcbVars, clientVars, cpuVars
  <2> QED BY <2>2, <2>3, <2>4 DEF IInv
<1>2. CASE KernelStep
  BY <1>2, LaunchKeeps, PendSVEnterKeeps, ScanStepKeeps, SwitchToKeeps, SysTickKeeps,
     TickSkipKeeps, TickCountKeeps, TickExpireKeeps DEF KernelStep, PendSV, TickStep
<1>3. ASSUME NEW t \in Tasks, TaskStep(t)
      PROVE  IInv'
  <2>0. \A timeout \in Timeouts : timeout \in Nat
    BY KernelAssumption
  <2>1. CASE Yield(t) \/ Return(t)
    BY <2>1, YieldKeeps, ReturnKeeps
  <2>2. CASE Refused(t)
    BY <2>2, <1>1 DEF Refused, MutexRecursive, MutexPoll, SemPoll
  <2>3. ASSUME NEW ms \in Delays, Delay(t, ms)
        PROVE  IInv'
    <3>1. ms \in Nat \ {0}
      BY KernelAssumption
    <3> QED BY <2>3, <3>1, DelayKeeps
  <2>4. ASSUME NEW m \in Mutexes, MutexAcquire(t, m) \/ MutexRelease(t, m)
        PROVE  IInv'
    BY <2>0, <2>4, MutexTakeKeeps, MutexBlockKeeps, MutexFullKeeps, MutexHandoffKeeps,
       MutexFreeKeeps DEF MutexAcquire, MutexRelease
  <2>5. ASSUME NEW s \in Sems, SemAcquire(t, s) \/ SemRelease(t, s)
        PROVE  IInv'
    BY <2>0, <2>5, SemCountKeeps, SemBlockKeeps, SemHandoffKeeps DEF SemAcquire, SemRelease
  <2> QED BY <1>3, <2>1, <2>2, <2>3, <2>4, <2>5 DEF TaskStep
<1> QED BY <1>1, <1>2, <1>3 DEF Next

\* The invariant holds in every reachable state of the kernel.
THEOREM Invariance == Spec => []IInv
BY InitInv, NextInv, PTL DEF Spec

\* The variables of the kernel keep their types.
THEOREM TypeCorrect == Spec => []TypeOK
<1>1. IInv => TypeOK
  BY DEF IInv
<1> QED BY <1>1, Invariance, PTL

\* Wait queues and the tasks' back pointers agree through every block, release
\* and timeout.
THEOREM QueuesSound == Spec => []QueueIntegrity
<1>1. IInv => QueueIntegrity
  BY DEF IInv, ObjectInv
<1> QED BY <1>1, Invariance, PTL

\* A task is blocked exactly when a deadline or a queue will wake it.
THEOREM WakeSound == Spec => []BlockedIsWakeable
<1>1. IInv => BlockedIsWakeable
  BY DEF IInv, ObjectInv
<1> QED BY <1>1, Invariance, PTL

\* No release overlooks a waiter.
THEOREM ReleaseSound == Spec => []NoMissedRelease
<1>1. IInv => NoMissedRelease
  BY DEF IInv, ObjectInv
<1> QED BY <1>1, Invariance, PTL

\* os_mutex_acquire gives mutual exclusion.
THEOREM MutexSound == Spec => []MutualExclusion
<1>1. IInv => MutualExclusion
  BY DEF IInv, ObjectInv
<1> QED BY <1>1, Invariance, PTL

\* What os_mutex_acquire returns is true, whatever the race of release and timeout.
THEOREM ResultSound == Spec => []AcquireTellsTruth
<1>1. IInv => AcquireTellsTruth
  BY DEF IInv, ObjectInv
<1> QED BY <1>1, Invariance, PTL

\* A lent priority never outlives the ownership it was lent for.
THEOREM BoostSound == Spec => []BoostOnlyOwners
<1>1. IInv => BoostOnlyOwners
  BY DEF IInv, ObjectInv
<1> QED BY <1>1, Invariance, PTL

\* No call returns to a blocked task, and only one task is RUNNING.
THEOREM SchedulerSound == Spec => []ExecutingIsRunning
<1>1. IInv => ExecutingIsRunning
  BY DEF IInv, CpuInv
<1> QED BY <1>1, Invariance, PTL

\* A switch that no tick disturbs goes to a task of the highest priority.
THEOREM SwitchSound == Spec => SwitchPicksHighest
<1> DEFINE Chosen ==
      \A t \in Tasks : state'[t] # "BLOCKED"
        => current_priority[t] <= current_priority[current_tcb']
<1>1. ASSUME IInv, SwitchTo, ~pendsv
      PROVE  Chosen
  <2>1. /\ best \in Tasks /\ state[best] # "BLOCKED"
        /\ \A t \in Tasks : state[t] # "BLOCKED"
             => current_priority[t] <= current_priority[best]
    BY <1>1, ScanEnd DEF SwitchTo
  <2>2. state' = SwitchedStates(best) /\ current_tcb' = best
    BY <1>1, <2>1, KernelAssumption DEF SwitchTo
  <2>3. \A t \in Tasks : state'[t] # "BLOCKED" => state[t] # "BLOCKED"
    BY <2>1, <2>2 DEF SwitchedStates
  <2> QED BY <2>1, <2>2, <2>3
<1>2. IInv /\ [Next]_vars => [SwitchTo /\ ~pendsv => Chosen]_vars
  BY <1>1
<1> QED BY <1>2, Invariance, PTL DEF Spec, SwitchPicksHighest

\* Steps that keep the order of a queue: nothing moves, a task is appended, or
\* one is removed.
LEMMA OrderKept ==
  ASSUME IInv, [Next]_vars
  PROVE  \A o \in Objs :
           \A i, j \in 0 .. wait_count[o] - 1 :
             \A k, l \in 0 .. wait_count'[o] - 1 :
               (i < j /\ wait_queue[o][i] = wait_queue'[o][k]
                      /\ wait_queue[o][j] = wait_queue'[o][l]) => k < l
<1> DEFINE Stable ==
      \A o \in Objs :
        \A i, j \in 0 .. wait_count[o] - 1 :
          \A k, l \in 0 .. wait_count'[o] - 1 :
            (i < j /\ wait_queue[o][i] = wait_queue'[o][k]
                   /\ wait_queue[o][j] = wait_queue'[o][l]) => k < l
<1> SUFFICES Stable
  OBVIOUS
<1>0. /\ QueueType /\ QueueIntegrity
      /\ \A o \in Objs : wait_count[o] \in Nat
  BY KernelAssumption DEF IInv, ObjectInv, TypeOK, QueueType
<1>1. CASE UNCHANGED queueVars
  <2>1. wait_queue' = wait_queue /\ wait_count' = wait_count
    BY <1>1 DEF queueVars
  <2> QED BY <2>1, <1>0 DEF QueueIntegrity
<1>2. ASSUME NEW t \in Tasks, RemoveFromQueue(t), wait_on' = [wait_on EXCEPT ![t] = NULL]
      PROVE  Stable
  BY <1>0, <1>2, RemoveKeeps
<1>3. ASSUME NEW t \in Tasks, NEW o \in Objs, NEW timeout, App(t),
             BlockCurrent(t, o, timeout)
      PROVE  Stable
  <2>1. wait_on[t] = NULL
    BY <1>3, CallerRuns DEF App
  <2>2. /\ wait_count' = [wait_count EXCEPT ![o] = wait_count[o] + 1]
        /\ wait_queue'[o][wait_count[o]] = t
        /\ \A x \in Objs : \A i \in 0 .. wait_count[x] - 1 :
             wait_queue'[x][i] = wait_queue[x][i]
    BY <1>0, <1>3, <2>1, BlockKeeps
  <2>3. ASSUME NEW x \in Objs, NEW i \in 0 .. wait_count[x] - 1,
               NEW k \in 0 .. wait_count'[x] - 1, wait_queue[x][i] = wait_queue'[x][k]
        PROVE  i = k
    <3>1. wait_on[wait_queue[x][i]] = x /\ wait_queue[x][i] # t
      BY <1>0, <2>1, KernelAssumption DEF QueueIntegrity
    <3>2. k \in 0 .. wait_count[x] - 1
      <4>1. CASE x # o
        BY <2>2, <4>1 DEF QueueType
      <4>2. CASE x = o
        <5>1. wait_count'[o] = wait_count[o] + 1 /\ wait_count[o] \in Nat
          BY <1>0, <2>2 DEF QueueType
        <5>2. k # wait_count[o]
          BY <2>2, <2>3, <3>1, <4>2
        <5> QED BY <4>2, <5>1, <5>2
      <4> QED BY <4>1, <4>2
    <3> QED BY <1>0, <2>2, <2>3, <3>2 DEF QueueIntegrity
  <2> QED BY <2>3
<1> HIDE DEF Stable
<1>4. CASE UNCHANGED vars
  BY <1>1, <1>4 DEF vars
<1>5. CASE KernelStep
  <2>1. CASE TickExpire
    <3>1. /\ tick_i \in Tasks /\ RemoveFromQueue(tick_i)
          /\ wait_on' = [wait_on EXCEPT ![tick_i] = NULL]
      BY <2>1 DEF TickExpire
    <3> QED BY <1>2, <3>1
  <2>2. CASE ~TickExpire
    BY <1>1, <1>5, <2>2 DEF KernelStep, Launch, PendSV, PendSVEnter, ScanStep, SwitchTo,
                            SysTick, TickStep, TickSkip, TickCount
  <2> QED BY <2>1, <2>2
<1>6. ASSUME NEW t \in Tasks, NEW o \in Objs, NEW i \in 0 .. wait_count[o] - 1,
             WakeTask(wait_queue[o][i])
      PROVE  Stable
  BY <1>0, <1>2, <1>6 DEF WakeTask, QueueIntegrity
<1>7. ASSUME NEW t \in Tasks, TaskStep(t)
      PROVE  Stable
  <2>1. CASE Yield(t) \/ Return(t) \/ Refused(t) \/ \E ms \in Delays : Delay(t, ms)
    <3>1. UNCHANGED queueVars
      BY <2>1 DEF Yield, Return, Refused, MutexRecursive, MutexPoll, SemPoll, Delay, vars
    <3> QED BY <1>1, <3>1
  <2>2. ASSUME NEW m \in Mutexes, MutexAcquire(t, m) \/ MutexRelease(t, m)
        PROVE  Stable
    <3>1. m \in Objs
      BY DEF Objs
    <3>2. CASE MutexTake(t, m) \/ MutexFree(t, m) \/ \E x \in Timeouts : MutexFull(t, m, x)
      <4>1. UNCHANGED queueVars
        BY <3>2 DEF MutexTake, MutexFree, MutexFull
      <4> QED BY <1>1, <4>1
    <3>3. CASE \E x \in Timeouts : MutexBlock(t, m, x)
      BY <1>3, <3>1, <3>3 DEF MutexBlock
    <3>4. CASE MutexHandoff(t, m)
      BY <1>6, <3>1, <3>4 DEF MutexHandoff
    <3> QED BY <2>2, <3>2, <3>3, <3>4 DEF MutexAcquire, MutexRelease
  <2>3. ASSUME NEW s \in Sems, SemAcquire(t, s) \/ SemRelease(t, s)
        PROVE  Stable
    <3>1. s \in Objs
      BY DEF Objs
    <3>2. CASE SemTake(t, s) \/ SemGive(t, s)
      <4>1. UNCHANGED queueVars
        BY <3>2 DEF SemTake, SemGive
      <4> QED BY <1>1, <4>1
    <3>3. CASE \E x \in Timeouts : SemBlock(t, s, x)
      BY <1>3, <3>1, <3>3 DEF SemBlock
    <3>4. CASE SemHandoff(t, s)
      BY <1>6, <3>1, <3>4 DEF SemHandoff
    <3> QED BY <2>3, <3>2, <3>3, <3>4 DEF SemAcquire, SemRelease
  <2> QED BY <1>7, <2>1, <2>2, <2>3 DEF TaskStep
<1> QED BY <1>4, <1>5, <1>7 DEF Next

\* Tasks that wait in a queue never overtake each other in it.
THEOREM OrderSound == Spec => QueueOrderStable
<1> DEFINE Stable ==
      \A o \in Objs :
        \A i, j \in 0 .. wait_count[o] - 1 :
          \A k, l \in 0 .. wait_count'[o] - 1 :
            (i < j /\ wait_queue[o][i] = wait_queue'[o][k]
                   /\ wait_queue[o][j] = wait_queue'[o][l]) => k < l
<1>1. IInv /\ [Next]_vars => [Stable]_vars
  BY OrderKept
<1> HIDE DEF Stable
<1>2. Spec => [][Stable]_vars
  BY <1>1, Invariance, PTL DEF Spec
<1> QED BY <1>2 DEF QueueOrderStable, Stable

\* First come, first served among equals: when the object passes from a waiter's
\* queue to u, every task before u in it has a lower priority and every task
\* after it no higher one.
LEMMA PickedFirst ==
  ASSUME IInv, NEW o \in Objs, NEW k \in 0 .. wait_count[o] - 1, NEW prio,
         Picked(o, k, prio), WakeTask(wait_queue[o][k]),
         \A i \in 0 .. wait_count[o] - 1 :
           prio[wait_queue[o][i]] = current_priority[wait_queue[o][i]],
         NEW x \in Objs, NEW i \in 0 .. wait_count[x] - 1,
         NEW j \in 0 .. wait_count[x] - 1, i < j,
         current_priority[wait_queue[x][i]] >= current_priority[wait_queue[x][j]]
  PROVE  wait_on'[wait_queue[x][j]] # NULL
<1>1. /\ QueueIntegrity /\ QueueType
      /\ current_priority \in [Tasks -> Nat]
  BY DEF IInv, ObjectInv, TypeOK, QueueType
<1>2. /\ wait_queue[x][i] \in Tasks /\ wait_queue[x][j] \in Tasks
      /\ wait_on[wait_queue[x][j]] = x /\ x # NULL
      /\ wait_queue[o][k] \in Tasks /\ wait_on[wait_queue[o][k]] = o
  BY <1>1, KernelAssumption DEF QueueIntegrity
<1>3. SUFFICES ASSUME wait_queue[x][j] = wait_queue[o][k] PROVE FALSE
  BY <1>1, <1>2 DEF WakeTask, QueueType
<1>4. x = o /\ j = k
  BY <1>1, <1>2, <1>3 DEF QueueIntegrity
<1>5. current_priority[wait_queue[o][i]] < current_priority[wait_queue[o][k]]
  BY <1>4 DEF Picked
<1> QED BY <1>1, <1>2, <1>4, <1>5

\* Only a handoff or a timeout ends a wait, and only a handoff reports success.
LEMMA NoOvertakingStep ==
  ASSUME IInv, [Next]_vars, NEW o \in Objs, NEW i \in 0 .. wait_count[o] - 1,
         NEW j \in 0 .. wait_count[o] - 1, i < j,
         current_priority[wait_queue[o][i]] >= current_priority[wait_queue[o][j]]
  PROVE  ~(wait_on'[wait_queue[o][j]] = NULL /\ wait_result'[wait_queue[o][j]] = OS_SUCCESS)
<1> DEFINE u == wait_queue[o][j]
           Waits == ~(wait_on'[u] = NULL /\ wait_result'[u] = OS_SUCCESS)
<1> SUFFICES Waits
  OBVIOUS
<1>1. /\ QueueIntegrity /\ QueueType /\ BlockedIsWakeable /\ WaiterNotOwner
      /\ wait_result \in [Tasks -> {OS_SUCCESS, OS_TIMEOUT}]
  BY DEF IInv, ObjectInv, TypeOK, QueueType
<1>2. u \in Tasks /\ wait_on[u] = o /\ o # NULL
  BY <1>1, KernelAssumption DEF QueueIntegrity
<1> HIDE DEF u
<1>3. CASE UNCHANGED wait_on
  BY <1>2, <1>3
<1>4. CASE TickExpire
  BY <1>1, <1>2, <1>4 DEF TickExpire, QueueType, OS_SUCCESS, OS_TIMEOUT
<1>5. ASSUME NEW t \in Tasks, NEW ms \in Delays, Delay(t, ms)
      PROVE  Waits
  <2>1. Thread(t) /\ pc[t] # "yield" /\ wait_on' = [wait_on EXCEPT ![t] = NULL]
    BY <1>5 DEF Delay, App
  <2>2. t # u
    BY <1>2, <2>1, CallerRuns
  <2> QED BY <1>1, <1>2, <2>1, <2>2 DEF QueueType
<1>6. ASSUME NEW t \in Tasks, NEW x \in Objs, NEW timeout, BlockCurrent(t, x, timeout)
      PROVE  Waits
  BY <1>1, <1>2, <1>6, KernelAssumption DEF BlockCurrent, QueueType
<1>7. ASSUME NEW t \in Tasks, NEW m \in Mutexes, MutexHandoff(t, m)
      PROVE  Waits
  <2>1. PICK k \in 0 .. wait_count[m] - 1 :
          Picked(m, k, Dropped(m)) /\ WakeTask(wait_queue[m][k])
    BY <1>7 DEF MutexHandoff
  <2>2. m \in Objs
    BY DEF Objs
  <2>3. \A l \in 0 .. wait_count[m] - 1 :
          Dropped(m)[wait_queue[m][l]] = current_priority[wait_queue[m][l]]
    <3>1. \A l \in 0 .. wait_count[m] - 1 :
            wait_queue[m][l] \in Tasks /\ owner[m] # wait_queue[m][l]
      BY <1>1, <2>2 DEF QueueIntegrity, WaiterNotOwner
    <3>2. current_priority \in [Tasks -> Nat]
      BY DEF IInv, TypeOK
    <3> QED BY <3>1, <3>2 DEF Dropped
  <2> QED BY <2>1, <2>2, <2>3, PickedFirst DEF u
<1>8. ASSUME NEW t \in Tasks, NEW s \in Sems, SemHandoff(t, s)
      PROVE  Waits
  <2>1. PICK k \in 0 .. wait_count[s] - 1 :
          Picked(s, k, current_priority) /\ WakeTask(wait_queue[s][k])
    BY <1>8 DEF SemHandoff
  <2>2. s \in Objs
    BY DEF Objs
  <2> QED BY <2>1, <2>2, PickedFirst DEF u
<1>9. CASE KernelStep
  <2>1. CASE ~TickExpire
    <3>1. UNCHANGED wait_on
      BY <1>9, <2>1 DEF KernelStep, Launch, PendSV, PendSVEnter, ScanStep, SwitchTo,
                        SysTick, TickStep, TickSkip, TickCount, tcbVars
    <3> QED BY <1>3, <3>1
  <2> QED BY <1>4, <2>1
<1>10. ASSUME NEW t \in Tasks, TaskStep(t)
       PROVE  Waits
  <2>1. CASE Yield(t) \/ Return(t) \/ Refused(t)
    <3>1. UNCHANGED wait_on
      BY <2>1 DEF Yield, Return, Refused, MutexRecursive, MutexPoll, SemPoll, vars, tcbVars
    <3> QED BY <1>3, <3>1
  <2>2. ASSUME NEW m \in Mutexes, MutexAcquire(t, m) \/ MutexRelease(t, m)
        PROVE  Waits
    <3>1. CASE MutexTake(t, m) \/ MutexFree(t, m) \/ \E y \in Timeouts : MutexFull(t, m, y)
      <4>1. UNCHANGED wait_on
        BY <3>1 DEF MutexTake, MutexFree, MutexFull, tcbVars
      <4> QED BY <1>3, <4>1
    <3>2. CASE \E y \in Timeouts : MutexBlock(t, m, y)
      BY <1>6, <3>2 DEF MutexBlock, Objs
    <3> QED BY <1>7, <2>2, <3>1, <3>2 DEF MutexAcquire, MutexRelease
  <2>3. ASSUME NEW s \in Sems, SemAcquire(t, s) \/ SemRelease(t, s)
        PROVE  Waits
    <3>1. CASE SemTake(t, s) \/ SemGive(t, s)
      <4>1. UNCHANGED wait_on
        BY <3>1 DEF SemTake, SemGive, tcbVars
      <4> QED BY <1>3, <4>1
    <3>2. CASE \E y \in Timeouts : SemBlock(t, s, y)
      BY <1>6, <3>2 DEF SemBlock, Objs
    <3> QED BY <1>8, <2>3, <3>1, <3>2 DEF SemAcquire, SemRelease
  <2> QED BY <1>5, <1>10, <2>1, <2>2, <2>3 DEF TaskStep
<1>11. CASE UNCHANGED vars
  BY <1>3, <1>11 DEF vars, tcbVars
<1> QED BY <1>9, <1>10, <1>11 DEF Next

\* A release never hands an object to a task past one that has waited longer at
\* the same or a higher priority (pick_waiter, wait_queue_remove).
THEOREM FairHandoff == Spec => NoOvertaking
<1> DEFINE Fair ==
      \A o \in Objs : \A i, j \in 0 .. wait_count[o] - 1 :
        LET t == wait_queue[o][i]
            u == wait_queue[o][j]
        IN i < j /\ current_priority[t] >= current_priority[u]
             => ~(wait_on'[t] = o /\ wait_on'[u] = NULL /\ wait_result'[u] = OS_SUCCESS)
<1>1. IInv /\ [Next]_vars => [Fair]_vars
  BY NoOvertakingStep
<1> HIDE DEF Fair
<1>2. Spec => [][Fair]_vars
  BY <1>1, Invariance, PTL DEF Spec
<1> QED BY <1>2 DEF NoOvertaking, Fair

-----------------------------------------------------------------------------
(* Deadlines.                                                              *)

\* The deadline of t comes nearer: it stays while the tick is elsewhere, the tick
\* does not leave t before it has taken one off, and a wait that ends takes its
\* deadline with it.
Nearer(t) ==
  sleep_time[t] > 0 =>
    \/ /\ sleep_time'[t] = sleep_time[t] /\ state'[t] = "BLOCKED"
       /\ tick_i = t => tick_i' = t
    \/ /\ sleep_time'[t] = sleep_time[t] - 1 /\ state'[t] = "BLOCKED"
       /\ tick_i = t /\ tick_i' # t
    \/ sleep_time'[t] = 0 /\ state'[t] = "READY"

\* No step postpones a deadline or loses it, whatever the tick interrupts
\* (SysTick_Handler, block_current, wake_task, os_delay): the part of
\* DeadlineEndsWait that needs no fairness.
DeadlineNearer == [][\A t \in Tasks : Nearer(t)]_vars

LEMMA NearerStep ==
  ASSUME IInv, [Next]_vars, NEW u \in Tasks
  PROVE  Nearer(u)
<1> SUFFICES ASSUME sleep_time[u] > 0
             PROVE  \/ /\ sleep_time'[u] = sleep_time[u] /\ state'[u] = "BLOCKED"
                       /\ tick_i = u => tick_i' = u
                    \/ /\ sleep_time'[u] = sleep_time[u] - 1 /\ state'[u] = "BLOCKED"
                       /\ tick_i = u /\ tick_i' # u
                    \/ sleep_time'[u] = 0 /\ state'[u] = "READY"
  BY DEF Nearer
<1> DEFINE Stays == /\ sleep_time'[u] = sleep_time[u] /\ state'[u] = "BLOCKED"
                    /\ tick_i = u => tick_i' = u
           Woken == sleep_time'[u] = 0 /\ state'[u] = "READY"
<1>0. /\ state[u] = "BLOCKED" /\ u \in Nat /\ NTasks \in Nat
      /\ state \in [Tasks -> {"READY", "RUNNING", "BLOCKED"}]
      /\ sleep_time \in [Tasks -> Nat] /\ tick_i \in -1 .. NTasks - 1
      /\ current_tcb \in Tasks
  BY KernelAssumption DEF IInv, ObjectInv, TypeOK, BlockedIsWakeable, Tasks
<1>1. ASSUME UNCHANGED <<state, sleep_time, tick_i>>
      PROVE  Stays
  BY <1>0, <1>1
<1>2. ASSUME NEW w \in Tasks, WakeTask(w), tick_i' = tick_i
      PROVE  Stays \/ Woken
  <2>1. /\ sleep_time' = [sleep_time EXCEPT ![w] = 0]
        /\ state' = [state EXCEPT ![w] = "READY"]
    BY <1>2 DEF WakeTask
  <2>2. CASE w = u
    BY <1>0, <2>1, <2>2
  <2>3. CASE w # u
    BY <1>0, <1>2, <2>1, <2>3
  <2> QED BY <2>2, <2>3
<1>3. ASSUME NEW t \in Tasks, App(t)
      PROVE  t # u
  <2>1. state[t] = "RUNNING"
    BY <1>3 DEF App, IInv, CpuInv, ExecutingIsRunning
  <2> QED BY <1>0, <2>1
<1>4. ASSUME NEW t \in Tasks, t # u, NEW x, sleep_time' = [sleep_time EXCEPT ![t] = x],
             state' = [state EXCEPT ![t] = "BLOCKED"], tick_i' = tick_i
      PROVE  Stays
  BY <1>0, <1>4
<1>5. ASSUME NEW o \in Objs, NEW i \in 0 .. wait_count[o] - 1,
             WakeTask(wait_queue[o][i]), tick_i' = tick_i
      PROVE  Stays \/ Woken
  <2>1. wait_queue[o][i] \in Tasks
    BY DEF IInv, ObjectInv, QueueIntegrity
  <2> QED BY <1>2, <1>5, <2>1
<1>6. CASE KernelStep
  <2>1. CASE Launch \/ PendSVEnter \/ ScanStep
    BY <1>1, <2>1 DEF Launch, PendSVEnter, ScanStep, tcbVars
  <2>2. CASE SysTick
    BY <1>0, <2>2 DEF SysTick, tcbVars
  <2>3. CASE SwitchTo
    <3>1. sleep_time' = sleep_time /\ tick_i' = tick_i
      BY <2>3 DEF SwitchTo
    <3>2. state'[u] = "BLOCKED"
      <4>1. CASE best = NULL
        BY <1>0, <2>3, <4>1 DEF SwitchTo
      <4>2. CASE best # NULL
        <5>1. best # u /\ state' = SwitchedStates(best)
          BY <1>0, <2>3, <4>2 DEF SwitchTo, IInv, CpuInv, ScanBest
        <5> QED BY <1>0, <5>1 DEF SwitchedStates
      <4> QED BY <4>1, <4>2
    <3> QED BY <3>1, <3>2
  <2>4. CASE TickSkip
    <3>1. tick_i # u
      BY <1>0, <2>4 DEF TickSkip
    <3> QED BY <1>0, <2>4, <3>1 DEF TickSkip
  <2>5. CASE TickCount
    <3>1. /\ tick_i \in Tasks /\ sleep_time' = [sleep_time EXCEPT ![tick_i] = @ - 1]
          /\ state' = state /\ tick_i' = IF tick_i = NTasks - 1 THEN -1 ELSE tick_i + 1
      BY <2>5 DEF TickCount, TickAdvance
    <3>2. tick_i' # tick_i
      <4>1. tick_i \in Nat
        BY <1>0, <3>1 DEF Tasks
      <4>2. CASE tick_i = NTasks - 1
        BY <3>1, <4>1, <4>2
      <4>3. CASE tick_i # NTasks - 1
        <5>1. tick_i' = tick_i + 1
          BY <3>1, <4>3
        <5>2. tick_i + 1 # tick_i
          BY <4>1
        <5> QED BY <5>1, <5>2
      <4> QED BY <4>2, <4>3
    <3>3. CASE tick_i = u
      BY <1>0, <3>1, <3>2, <3>3
    <3>4. CASE tick_i # u
      BY <1>0, <3>1, <3>4
    <3> QED BY <3>3, <3>4
  <2>6. CASE TickExpire
    <3>1. /\ tick_i \in Tasks /\ sleep_time' = [sleep_time EXCEPT ![tick_i] = 0]
          /\ state' = [state EXCEPT ![tick_i] = "READY"]
      BY <2>6 DEF TickExpire
    <3>2. CASE tick_i = u
      BY <1>0, <3>1, <3>2
    <3>3. CASE tick_i # u
      BY <1>0, <3>1, <3>3
    <3> QED BY <3>2, <3>3
  <2> QED BY <1>6, <2>1, <2>2, <2>3, <2>4, <2>5, <2>6 DEF KernelStep, PendSV, TickStep
<1>7. ASSUME NEW t \in Tasks, TaskStep(t)
      PROVE  Stays \/ Woken
  <2>1. CASE Yield(t) \/ Return(t) \/ Refused(t)
    <3>1. UNCHANGED <<state, sleep_time, tick_i>>
      BY <2>1 DEF Yield, Return, Refused, MutexRecursive, MutexPoll, SemPoll, vars, tcbVars,
                  cpuVars
    <3> QED BY <1>1, <3>1
  <2>2. ASSUME NEW ms \in Delays, Delay(t, ms)
        PROVE  Stays
    <3>1. /\ App(t) /\ sleep_time' = [sleep_time EXCEPT ![t] = ms]
          /\ state' = [state EXCEPT ![t] = "BLOCKED"] /\ tick_i' = tick_i
      BY <2>2 DEF Delay, cpuVars
    <3> QED BY <1>3, <1>4, <3>1
  <2>3. ASSUME NEW o \in Objs, NEW x, App(t), BlockCurrent(t, o, x), tick_i' = tick_i
        PROVE  Stays
    <3>1. /\ sleep_time' = [sleep_time EXCEPT ![t] = IF x = WAIT_FOREVER THEN 0 ELSE x]
          /\ state' = [state EXCEPT ![t] = "BLOCKED"]
      BY <2>3 DEF BlockCurrent
    <3> QED BY <1>3, <1>4, <2>3, <3>1
  <2>4. ASSUME NEW m \in Mutexes, MutexAcquire(t, m) \/ MutexRelease(t, m)
        PROVE  Stays \/ Woken
    <3>0. m \in Objs
      BY DEF Objs
    <3>1. CASE MutexTake(t, m) \/ MutexFree(t, m) \/ \E x \in Timeouts : MutexFull(t, m, x)
      <4>1. UNCHANGED <<state, sleep_time, tick_i>>
        BY <3>1 DEF MutexTake, MutexFree, MutexFull, tcbVars, cpuVars
      <4> QED BY <1>1, <4>1
    <3>2. CASE \E x \in Timeouts : MutexBlock(t, m, x)
      <4>1. PICK x \in Timeouts : App(t) /\ BlockCurrent(t, m, x) /\ tick_i' = tick_i
        BY <3>2 DEF MutexBlock, cpuVars
      <4> QED BY <2>3, <3>0, <4>1
    <3>3. CASE MutexHandoff(t, m)
      <4>1. PICK i \in 0 .. wait_count[m] - 1 : WakeTask(wait_queue[m][i])
        BY <3>3 DEF MutexHandoff
      <4>2. tick_i' = tick_i
        BY <3>3 DEF MutexHandoff, cpuVars
      <4> QED BY <1>5, <3>0, <4>1, <4>2
    <3> QED BY <2>4, <3>1, <3>2, <3>3 DEF MutexAcquire, MutexRelease
  <2>5. ASSUME NEW s \in Sems, SemAcquire(t, s) \/ SemRelease(t, s)
        PROVE  Stays \/ Woken
    <3>0. s \in Objs
      BY DEF Objs
    <3>1. CASE SemTake(t, s) \/ SemGive(t, s)
      <4>1. UNCHANGED <<state, sleep_time, tick_i>>
        BY <3>1 DEF SemTake, SemGive, tcbVars, cpuVars
      <4> QED BY <1>1, <4>1
    <3>2. CASE \E x \in Timeouts : SemBlock(t, s, x)
      <4>1. PICK x \in Timeouts : App(t) /\ BlockCurrent(t, s, x) /\ tick_i' = tick_i
        BY <3>2 DEF SemBlock, cpuVars
      <4> QED BY <2>3, <3>0, <4>1
    <3>3. CASE SemHandoff(t, s)
      <4>1. PICK i \in 0 .. wait_count[s] - 1 : WakeTask(wait_queue[s][i])
        BY <3>3 DEF SemHandoff
      <4>2. tick_i' = tick_i
        BY <3>3 DEF SemHandoff, cpuVars
      <4> QED BY <1>5, <3>0, <4>1, <4>2
    <3> QED BY <2>5, <3>1, <3>2, <3>3 DEF SemAcquire, SemRelease
  <2> QED BY <1>7, <2>1, <2>2, <2>4, <2>5 DEF TaskStep
<1>8. CASE UNCHANGED vars
  BY <1>1, <1>8 DEF vars, tcbVars, cpuVars
<1> QED BY <1>6, <1>7, <1>8 DEF Next

\* A deadline comes nearer with every tick and nothing else moves it.
THEOREM DeadlineSound == Spec => DeadlineNearer
<1> DEFINE All == \A t \in Tasks : Nearer(t)
<1>1. IInv /\ [Next]_vars => [All]_vars
  BY NearerStep
<1> HIDE DEF All
<1>2. Spec => [][All]_vars
  BY <1>1, Invariance, PTL DEF Spec
<1> QED BY <1>2 DEF DeadlineNearer, All
=============================================================================
