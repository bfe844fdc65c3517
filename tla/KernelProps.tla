----------------------------- MODULE KernelProps -----------------------------
(***************************************************************************)
(* What the kernel promises: the type invariant, the safety invariants,    *)
(* the action properties and the liveness properties of module Kernel.     *)
(***************************************************************************)
EXTENDS Kernel

\* The values the variables of the kernel can take.
TypeOK ==
  /\ state \in [Tasks -> {"READY", "RUNNING", "BLOCKED"}]
  /\ current_priority \in [Tasks -> Nat]
  /\ sleep_time \in [Tasks -> Nat]
  /\ wait_on \in [Tasks -> Objs \cup {NULL}]
  /\ wait_result \in [Tasks -> {OS_SUCCESS, OS_TIMEOUT}]
  /\ current_tcb \in Tasks
  /\ kernel_running \in BOOLEAN
  /\ pendsv \in BOOLEAN
  /\ scan_k \in -1 .. NTasks
  /\ best \in Tasks \cup {NULL}
  /\ tick_i \in -1 .. NTasks - 1
  /\ lock \in [Mutexes -> {0, 1}]
  /\ owner \in [Mutexes -> Tasks \cup {NULL}]
  /\ count \in [Sems -> Nat]
  /\ wait_queue \in [Objs -> [Slots -> Tasks \cup {NULL}]]
  /\ wait_count \in [Objs -> 0 .. MAX_TASKS]
  /\ pc \in [Tasks -> {"run", "yield", "resume"}]
  /\ call \in [Tasks -> Objs \cup {NULL}]
  /\ holds \in [Tasks -> SUBSET Mutexes]

-----------------------------------------------------------------------------
(* Safety.                                                                 *)

\* The entries of a wait queue below its count are distinct tasks that point
\* back to that queue, and a task that points to a queue is in it: block_current,
\* wake_task and the timeout in SysTick_Handler never leave a stale entry.
QueueIntegrity ==
  \A o \in Objs :
    /\ \A i \in 0 .. wait_count[o] - 1 :
         wait_queue[o][i] \in Tasks /\ wait_on[wait_queue[o][i]] = o
    /\ \A i, j \in 0 .. wait_count[o] - 1 :
         wait_queue[o][i] = wait_queue[o][j] => i = j
    /\ \A t \in Tasks :
         wait_on[t] = o => \E i \in 0 .. wait_count[o] - 1 : wait_queue[o][i] = t

\* A task is BLOCKED exactly when something will wake it: a deadline that
\* SysTick counts down, or a queue that a release looks into.
BlockedIsWakeable ==
  \A t \in Tasks :
    state[t] = "BLOCKED" <=> (sleep_time[t] > 0 \/ wait_on[t] # NULL)

\* No task waits for a mutex that is free or a semaphore that has a token: a
\* release never misses a waiter, an acquire never blocks without need.
NoMissedRelease ==
  /\ \A m \in Mutexes : lock[m] = 0 => wait_count[m] = 0 /\ owner[m] = NULL
  /\ \A s \in Sems : count[s] > 0 => wait_count[s] = 0

\* A mutex that the API reported as acquired, and that was not released since,
\* is owned by that task; so two tasks never both believe they hold it.
MutualExclusion ==
  \A t \in Tasks : \A m \in holds[t] : owner[m] = t /\ lock[m] = 1

\* An os_mutex_acquire that is no longer blocked reports OS_SUCCESS if and only
\* if the caller owns the mutex, whatever the order of release and timeout.
AcquireTellsTruth ==
  \A t \in Tasks : \A m \in Mutexes :
    call[t] = m /\ state[t] # "BLOCKED"
      => (wait_result[t] = OS_SUCCESS <=> owner[m] = t)

\* The task that executes is the RUNNING one, except between the critical
\* section that blocks it and its os_yield: no call returns to a blocked task.
ExecutingIsRunning ==
  \A t \in Tasks :
    /\ state[t] = "RUNNING" => t = current_tcb
    /\ Thread(t) => state[t] = "RUNNING" \/ (state[t] = "BLOCKED" /\ pc[t] = "yield")

\* A lent priority lives only as long as its borrower owns a mutex.
BoostOnlyOwners ==
  \A t \in Tasks :
    /\ current_priority[t] >= BasePriority[t]
    /\ current_priority[t] > BasePriority[t] => \E m \in Mutexes : owner[m] = t

\* Priority inheritance: the owner of a mutex runs at least at the priority of
\* every waiter, when tasks do not nest mutexes (as the application's do not).
InheritedPriority ==
  \A m \in Mutexes : \A i \in 0 .. wait_count[m] - 1 :
    current_priority[owner[m]] >= current_priority[wait_queue[m][i]]

\* With nested mutexes an owner can run below a task that waits for it, but only
\* for one of two reasons: its os_mutex_release of another mutex dropped all that
\* was lent to it, or the waiter was lent a priority while it waited.
Lags(w, m) ==
  wait_on[w] = m /\ current_priority[owner[m]] < current_priority[w]
InheritanceGaps ==
  [][\A w \in Tasks, m \in Mutexes :
       Lags(w, m)' =>
         \/ Lags(w, m) /\ owner'[m] = owner[m]
         \/ \E n \in Mutexes \ {m} : MutexRelease(owner[m], n)
         \/ current_priority'[w] > current_priority[w]]_vars

\* FIFO among equals: a release never hands an object to a task while another
\* that has waited longer, at the same or a higher priority, goes on waiting.
NoOvertaking ==
  [][\A o \in Objs : \A i, j \in 0 .. wait_count[o] - 1 :
       LET t == wait_queue[o][i]
           u == wait_queue[o][j]
       IN i < j /\ current_priority[t] >= current_priority[u]
            => ~(wait_on'[t] = o /\ wait_on'[u] = NULL /\ wait_result'[u] = OS_SUCCESS)]_vars

\* A task that is about to block finds room in the wait queue: the OS_FAIL of a
\* full queue cannot happen with MAX_WAITING_TASKS = MAX_TASKS - 1.
QueuesFit ==
  \A t \in Tasks : App(t) =>
    \A o \in Objs :
      (o \in Mutexes => lock[o] = 1 /\ owner[o] # t) => wait_count[o] < QueueMax(o)

\* PendSV switches to a task of the highest priority among those that can run,
\* unless a tick during its scan has already pended the next PendSV.
SwitchPicksHighest ==
  [][SwitchTo /\ ~pendsv =>
       \A t \in Tasks : state'[t] # "BLOCKED"
         => current_priority[t] <= current_priority[current_tcb']]_vars

\* Two tasks that wait in the same queue never change places, whoever leaves it
\* by a release or a timeout: FIFO among equal priorities rests on this.
QueueOrderStable ==
  [][\A o \in Objs :
       \A i, j \in 0 .. wait_count[o] - 1 :
         \A k, l \in 0 .. wait_count'[o] - 1 :
           (i < j /\ wait_queue[o][i] = wait_queue'[o][k]
                  /\ wait_queue[o][j] = wait_queue'[o][l]) => k < l]_vars

-----------------------------------------------------------------------------
(* Fairness.  The core always runs, and the tick fires once in a           *)
(* millisecond while its handler and PendSV take microseconds: a switch is *)
(* always completed before the period is over, so the core is in thread    *)
(* mode again and again, and the task that keeps getting it advances.      *)
ThreadMode == \E t \in Tasks : Thread(t)

TickSpec == Spec /\ WF_vars(KernelStep) /\ WF_vars(SysTick)

CpuSpec == TickSpec /\ []<>ThreadMode

FairSpec ==
  /\ CpuSpec
  /\ \A t \in Tasks \ {IdleTask} : SF_vars(Yield(t) \/ Return(t))

\* A wait with a deadline ends, whatever the other tasks do: with finite
\* timeouts even tasks that wait for each other's mutexes come loose.
DeadlineEndsWait ==
  \A t \in Tasks : sleep_time[t] > 0 ~> state[t] # "BLOCKED"

\* No unbounded priority inversion: while a task of the highest priority waits for a
\* mutex, the owner of a low priority gets the CPU, even if another task that is
\* above the owner never gives it up.
TopTasks ==
  {t \in Tasks : \A u \in Tasks : BasePriority[u] <= BasePriority[t]}
OwnerGetsCpu ==
  \A t \in TopTasks, m \in Mutexes :
    wait_on[t] = m ~> (wait_on[t] # m \/ current_tcb = owner[m])

\* Time slicing: a task does not stay READY for ever while another task of its
\* own priority keeps getting the CPU.
RoundRobin ==
  \A a, b \in Tasks :
    a # b /\ BasePriority[a] = BasePriority[b] =>
      ([]<>(Thread(b) /\ pc[b] = "run") => []<>(state[a] # "READY"))
=============================================================================
