------------------------------- MODULE Kernel -------------------------------
(***************************************************************************)
(* The SENTINEL kernel after main() has created its tasks: the TCB table,  *)
(* os_kernel_launch, the scheduler that PendSV runs, the SysTick handler,  *)
(* os_delay, mutexes with priority inheritance and semaphores              *)
(* (Kernel/os_kernel.c, Kernel/os_kernel_asm.s, Inc/os_kernel.h).          *)
(*                                                                         *)
(* Granularity.  A critical section (PRIMASK set) is one step.  SysTick    *)
(* may arrive before any step of a task and before any iteration of the    *)
(* scan that PendSV makes, because PendSV has the lowest priority and does *)
(* not mask interrupts.  Nothing in this module preempts SysTick, so its   *)
(* loop runs its iterations one after the other; module TickIsr splits     *)
(* them for systems with a handler of a higher priority.                   *)
(*                                                                         *)
(* The tasks are arbitrary clients: the task that has the CPU makes any    *)
(* call of the API, except that it releases only mutexes it acquired.      *)
(***************************************************************************)
EXTENDS Integers

CONSTANTS
  NTasks,             \* number of tasks created before the launch (task_count)
  IdleTask,           \* index of os_idle_task, which makes no kernel call
  BasePriority,       \* base_priority of every task
  Mutexes, Sems,      \* the mutexes and the semaphores of the application
  SemInitial, SemMax, \* arguments of os_semaphore_init
  MAX_TASKS,          \* size of os_tasks and of a semaphore's wait_queue
  MAX_WAITING_TASKS,  \* size of a mutex's wait_queue
  Timeouts,           \* bound: the timeouts passed to the acquire calls
  WAIT_FOREVER,       \* the timeout that never expires
  Delays,             \* bound: the arguments of os_delay (0 returns at once)
  Nested,             \* may a task acquire a mutex while it holds another?
  NULL                \* the null pointer

Tasks == 0 .. NTasks - 1
Objs  == Mutexes \cup Sems
Slots == 0 .. MAX_TASKS - 1

OS_SUCCESS == 0
OS_TIMEOUT == 1
OS_FAIL    == 2

\* Mutant: the mutex's queue is one entry too short.
QueueMax_Short(o) == IF o \in Mutexes THEN MAX_WAITING_TASKS - 1 ELSE MAX_TASKS

\* The length of the wait_queue array of an object.
QueueMax(o) == IF o \in Mutexes THEN MAX_WAITING_TASKS ELSE MAX_TASKS

\* What main() and the types of the code guarantee about the parameters.
ASSUME KernelAssumption ==
  /\ NTasks \in Nat \ {0} /\ MAX_TASKS \in Nat /\ NTasks <= MAX_TASKS
  /\ MAX_WAITING_TASKS \in 0 .. MAX_TASKS
  /\ IdleTask \in Tasks
  /\ BasePriority \in [Tasks -> Nat]
  /\ \A t \in Tasks \ {IdleTask} : BasePriority[IdleTask] < BasePriority[t]
  /\ Mutexes \cap Sems = {}
  /\ SemInitial \in [Sems -> Nat] /\ SemMax \in [Sems -> Nat]
  /\ \A s \in Sems : SemInitial[s] <= SemMax[s]
  /\ Timeouts \subseteq Nat /\ WAIT_FOREVER \in Nat \ {0}
  /\ Delays \subseteq Nat \ {0}
  /\ Nested \in BOOLEAN
  /\ NULL \notin Tasks /\ NULL \notin Objs

VARIABLES
  \* os_tasks[t]: wait_on stands for the pair wait_queue/wait_count, which the
  \* code always sets together.
  state, current_priority, sleep_time, wait_on, wait_result,
  \* the processor: current_tcb, the PENDSVSET bit, the loop of the scheduler
  \* (scan_k = -1: not running) and the loop of SysTick (tick_i = -1: idem)
  current_tcb, kernel_running, pendsv, scan_k, best, tick_i,
  \* os_mutex_t and os_semaphore_t
  lock, owner, count, wait_queue, wait_count,
  \* the tasks: where each is in a kernel call ("run": in its own code,
  \* "yield": between os_exit_critical and os_yield, "resume": after os_yield),
  \* the object of the acquire it is in, and the mutexes the API told it it has
  pc, call, holds

tcbVars    == <<state, current_priority, sleep_time, wait_on, wait_result>>
cpuVars    == <<current_tcb, kernel_running, pendsv, scan_k, best, tick_i>>
objVars    == <<lock, owner, count>>
queueVars  == <<wait_queue, wait_count>>
clientVars == <<pc, call, holds>>
vars == <<tcbVars, cpuVars, objVars, queueVars, clientVars>>

-----------------------------------------------------------------------------
(* os_kernel_init, the init functions of the objects, os_task_create and    *)
(* microbench_run_all have run, os_kernel_launch has not.                  *)

\* The tasks os_scheduler may choose when all can run.
Highest == {t \in Tasks : \A u \in Tasks : BasePriority[u] <= BasePriority[t]}

\* os_task_create, for every task; then the calls of os_scheduler that
\* bench_scheduler_decision times have made one of the highest current.
TaskInit ==
  /\ current_tcb \in Highest
  /\ state = [t \in Tasks |-> IF t = current_tcb THEN "RUNNING" ELSE "READY"]
  /\ current_priority = BasePriority
  /\ sleep_time = [t \in Tasks |-> 0]
  /\ wait_on = [t \in Tasks |-> NULL]
  /\ wait_result = [t \in Tasks |-> OS_SUCCESS]

\* os_kernel_init; the PendSV and SysTick of the core are not active.
CpuInit ==
  /\ kernel_running = FALSE
  /\ pendsv = FALSE
  /\ scan_k = -1
  /\ best = NULL
  /\ tick_i = -1

\* os_mutex_init, os_semaphore_init.
MutexInit ==
  /\ lock = [m \in Mutexes |-> 0]
  /\ owner = [m \in Mutexes |-> NULL]
SemaphoreInit == count = SemInitial
QueueInit ==
  /\ wait_queue = [o \in Objs |-> [i \in Slots |-> NULL]]
  /\ wait_count = [o \in Objs |-> 0]

Init ==
  /\ TaskInit /\ CpuInit /\ MutexInit /\ SemaphoreInit /\ QueueInit
  /\ pc = [t \in Tasks |-> "run"]
  /\ call = [t \in Tasks |-> NULL]
  /\ holds = [t \in Tasks |-> {}]

-----------------------------------------------------------------------------
(* The scheduler.  os_scheduler is called by os_kernel_launch, with        *)
(* interrupts masked, and by PendSV_Handler, without.                      *)

Runnable(t) == state[t] \in {"READY", "RUNNING"}

\* The k-th task of the scan, which starts one slot past the running task.
ScanSlot(k) == (current_tcb + 1 + k) % NTasks

\* Mutant: the scan keeps the first runnable task.
Better_First(t) == best = NULL

\* Does the scan prefer t to the best task it has seen?
Better(t) == best = NULL \/ current_priority[t] > current_priority[best]

\* os_kernel_launch up to its call of os_scheduler.
Launch ==
  /\ ~kernel_running /\ scan_k = -1
  /\ scan_k' = 0
  /\ UNCHANGED <<tcbVars, current_tcb, kernel_running, pendsv, best, tick_i,
                 objVars, queueVars, clientVars>>

\* PendSV is taken: it saves the outgoing context and calls os_scheduler.
PendSVEnter ==
  /\ kernel_running /\ pendsv /\ scan_k = -1 /\ tick_i = -1
  /\ pendsv' = FALSE
  /\ scan_k' = 0
  /\ best' = NULL
  /\ UNCHANGED <<tcbVars, current_tcb, kernel_running, tick_i, objVars,
                 queueVars, clientVars>>

\* One iteration of the loop of os_scheduler.
ScanStep ==
  /\ scan_k \in 0 .. NTasks - 1 /\ tick_i = -1
  /\ best' = IF Runnable(ScanSlot(scan_k)) /\ Better(ScanSlot(scan_k))
             THEN ScanSlot(scan_k) ELSE best
  /\ scan_k' = scan_k + 1
  /\ UNCHANGED <<tcbVars, current_tcb, kernel_running, pendsv, tick_i,
                 objVars, queueVars, clientVars>>

\* Mutant: the outgoing task stays RUNNING.
SwitchedStates_NotReset(b) == [state EXCEPT ![b] = "RUNNING"]

\* The states os_scheduler leaves when it switches to b.
SwitchedStates(b) ==
  [t \in Tasks |->
     IF t = b THEN "RUNNING"
     ELSE IF t = current_tcb /\ state[t] = "RUNNING" THEN "READY"
     ELSE state[t]]

\* The end of os_scheduler, and the return into the chosen task.  The first
\* time it is os_kernel_launch that returns into os_start_first_task.
SwitchTo ==
  /\ scan_k = NTasks /\ tick_i = -1
  /\ IF best = NULL
     THEN UNCHANGED <<state, current_tcb>>
     ELSE state' = SwitchedStates(best) /\ current_tcb' = best
  /\ scan_k' = -1
  /\ best' = NULL
  /\ kernel_running' = TRUE
  /\ UNCHANGED <<current_priority, sleep_time, wait_on, wait_result, pendsv,
                 tick_i, objVars, queueVars, clientVars>>

-----------------------------------------------------------------------------
(* Wait queues.                                                            *)

\* A wait_queue of length n without t: the entries after t move down by one.
\* The code leaves stale pointers at and above the count; they are never read.
Without(q, n, t) ==
  [j \in Slots |->
     IF \E i \in 0 .. j : q[i] = t
     THEN IF j + 1 < n THEN q[j + 1] ELSE NULL
     ELSE q[j]]

\* Mutant: the back pointer is cleared, the entry stays.
RemoveFromQueue_KeepsEntry(t) == UNCHANGED queueVars

\* wait_queue_remove: pulls t out of the queue it is parked in, if any.
RemoveFromQueue(t) ==
  IF wait_on[t] = NULL
  THEN UNCHANGED queueVars
  ELSE LET o == wait_on[t]
           found == \E i \in 0 .. wait_count[o] - 1 : wait_queue[o][i] = t
       IN /\ wait_queue' = [wait_queue EXCEPT ![o] = Without(@, wait_count[o], t)]
          /\ wait_count' = [wait_count EXCEPT ![o] = IF found THEN @ - 1 ELSE @]

\* block_current, for a queue that is not full, up to the caller's os_yield.
BlockCurrent(t, o, timeout) ==
  /\ wait_count[o] < QueueMax(o)
  /\ wait_queue' = [wait_queue EXCEPT ![o] = [@ EXCEPT ![wait_count[o]] = t]]
  /\ wait_count' = [wait_count EXCEPT ![o] = @ + 1]
  /\ wait_on' = [wait_on EXCEPT ![t] = o]
  /\ wait_result' = [wait_result EXCEPT ![t] = OS_SUCCESS]
  /\ sleep_time' = [sleep_time EXCEPT ![t] =
                      IF timeout = WAIT_FOREVER THEN 0 ELSE timeout]
  /\ state' = [state EXCEPT ![t] = "BLOCKED"]
  /\ pc' = [pc EXCEPT ![t] = "yield"]
  /\ call' = [call EXCEPT ![t] = o]

\* Mutant: the deadline of the wait survives the handoff.
WakeTask_KeepsDeadline(w) ==
  /\ RemoveFromQueue(w)
  /\ wait_on' = [wait_on EXCEPT ![w] = NULL]
  /\ wait_result' = [wait_result EXCEPT ![w] = OS_SUCCESS]
  /\ state' = [state EXCEPT ![w] = "READY"]
  /\ UNCHANGED sleep_time

\* wake_task: hands w the object it waits for.
WakeTask(w) ==
  /\ RemoveFromQueue(w)
  /\ wait_on' = [wait_on EXCEPT ![w] = NULL]
  /\ sleep_time' = [sleep_time EXCEPT ![w] = 0]
  /\ wait_result' = [wait_result EXCEPT ![w] = OS_SUCCESS]
  /\ state' = [state EXCEPT ![w] = "READY"]

\* Mutant: the last of the equals.
Picked_Last(o, i, prio) ==
  \A j \in 0 .. wait_count[o] - 1 :
    LET pj == prio[wait_queue[o][j]]
        pi == prio[wait_queue[o][i]]
    IN IF j > i THEN pj < pi ELSE pj <= pi

\* pick_waiter returns the entry i of o's queue: the first of those with the
\* highest priority, prio being the priorities at that point of the caller.
Picked(o, i, prio) ==
  \A j \in 0 .. wait_count[o] - 1 :
    LET pj == prio[wait_queue[o][j]]
        pi == prio[wait_queue[o][i]]
    IN IF j < i THEN pj < pi ELSE pj <= pi

-----------------------------------------------------------------------------
(* SysTick_Handler.  os_ticks only feeds os_get_ticks and is left out.     *)

\* Mutant: the loop starts at the second task.
SysTick_SkipsFirst ==
  /\ kernel_running /\ tick_i = -1
  /\ tick_i' = 1
  /\ UNCHANGED <<tcbVars, current_tcb, kernel_running, pendsv, scan_k, best,
                 objVars, queueVars, clientVars>>

\* The tick interrupts whatever runs, the scan of the scheduler included.
SysTick ==
  /\ kernel_running /\ tick_i = -1
  /\ tick_i' = 0
  /\ UNCHANGED <<tcbVars, current_tcb, kernel_running, pendsv, scan_k, best,
                 objVars, queueVars, clientVars>>

\* Mutant: the loop runs one task too far.
TickAdvance_PastEnd ==
  /\ tick_i' = IF tick_i = NTasks THEN -1 ELSE tick_i + 1
  /\ pendsv' = (pendsv \/ tick_i = NTasks)
  /\ UNCHANGED <<current_priority, current_tcb, kernel_running, scan_k, best,
                 objVars, clientVars>>

\* The end of an iteration; after the last one comes the handler's os_yield.
TickAdvance ==
  /\ tick_i' = IF tick_i = NTasks - 1 THEN -1 ELSE tick_i + 1
  /\ pendsv' = (pendsv \/ tick_i = NTasks - 1)
  /\ UNCHANGED <<current_priority, current_tcb, kernel_running, scan_k, best,
                 objVars, clientVars>>

\* A task without a deadline.
TickSkip ==
  /\ tick_i \in Tasks /\ sleep_time[tick_i] = 0
  /\ TickAdvance
  /\ UNCHANGED <<state, sleep_time, wait_on, wait_result, queueVars>>

\* A deadline that is still ahead.
TickCount ==
  /\ tick_i \in Tasks /\ sleep_time[tick_i] > 1
  /\ sleep_time' = [sleep_time EXCEPT ![tick_i] = @ - 1]
  /\ TickAdvance
  /\ UNCHANGED <<state, wait_on, wait_result, queueVars>>

\* Mutant: a timed-out task is not told so.
TickExpire_Silent ==
  /\ tick_i \in Tasks /\ sleep_time[tick_i] = 1
  /\ sleep_time' = [sleep_time EXCEPT ![tick_i] = 0]
  /\ RemoveFromQueue(tick_i)
  /\ wait_on' = [wait_on EXCEPT ![tick_i] = NULL]
  /\ state' = [state EXCEPT ![tick_i] = "READY"]
  /\ TickAdvance
  /\ UNCHANGED wait_result

\* A deadline that expires: the end of an os_delay, or a timeout that pulls
\* the task out of the queue it waits in.
TickExpire ==
  /\ tick_i \in Tasks /\ sleep_time[tick_i] = 1
  /\ sleep_time' = [sleep_time EXCEPT ![tick_i] = 0]
  /\ RemoveFromQueue(tick_i)
  /\ wait_on' = [wait_on EXCEPT ![tick_i] = NULL]
  /\ wait_result' = IF wait_on[tick_i] = NULL THEN wait_result
                    ELSE [wait_result EXCEPT ![tick_i] = OS_TIMEOUT]
  /\ state' = [state EXCEPT ![tick_i] = "READY"]
  /\ TickAdvance

TickStep == TickSkip \/ TickCount \/ TickExpire

-----------------------------------------------------------------------------
(* The API, called by the task that has the CPU.                           *)

\* t executes: it is current, in thread mode, and no PendSV is due.
Thread(t) ==
  kernel_running /\ current_tcb = t /\ ~pendsv /\ scan_k = -1 /\ tick_i = -1

\* t executes its own code and may make a call.
App(t) == Thread(t) /\ pc[t] = "run" /\ t # IdleTask

\* os_yield at the end of a call, and the PendSV it pends.
Yield(t) ==
  /\ Thread(t) /\ pc[t] = "yield"
  /\ pendsv' = TRUE
  /\ pc' = [pc EXCEPT ![t] = "resume"]
  /\ UNCHANGED <<tcbVars, current_tcb, kernel_running, scan_k, best, tick_i,
                 objVars, queueVars, call, holds>>

\* The call returns to its caller; an acquire returns wait_result.
Return(t) ==
  /\ Thread(t) /\ pc[t] = "resume"
  /\ pc' = [pc EXCEPT ![t] = "run"]
  /\ call' = [call EXCEPT ![t] = NULL]
  /\ holds' = IF call[t] \in Mutexes /\ wait_result[t] = OS_SUCCESS
              THEN [holds EXCEPT ![t] = @ \cup {call[t]}] ELSE holds
  /\ UNCHANGED <<tcbVars, cpuVars, objVars, queueVars>>

\* os_delay.
Delay(t, ms) ==
  /\ App(t)
  /\ sleep_time' = [sleep_time EXCEPT ![t] = ms]
  /\ wait_on' = [wait_on EXCEPT ![t] = NULL]
  /\ state' = [state EXCEPT ![t] = "BLOCKED"]
  /\ pc' = [pc EXCEPT ![t] = "yield"]
  /\ UNCHANGED <<current_priority, wait_result, cpuVars, objVars, queueVars,
                 call, holds>>

\* Mutant: a taken mutex is taken again.
MutexTake_Unchecked(t, m) ==
  /\ App(t)
  /\ lock' = [lock EXCEPT ![m] = 1]
  /\ owner' = [owner EXCEPT ![m] = t]
  /\ holds' = [holds EXCEPT ![t] = @ \cup {m}]
  /\ UNCHANGED <<tcbVars, cpuVars, count, queueVars, pc, call>>

\* os_mutex_acquire of a free mutex: OS_SUCCESS.
MutexTake(t, m) ==
  /\ App(t) /\ lock[m] = 0
  /\ lock' = [lock EXCEPT ![m] = 1]
  /\ owner' = [owner EXCEPT ![m] = t]
  /\ holds' = [holds EXCEPT ![t] = @ \cup {m}]
  /\ UNCHANGED <<tcbVars, cpuVars, count, queueVars, pc, call>>

\* os_mutex_acquire of a mutex the caller owns: OS_FAIL.
MutexRecursive(t, m) ==
  /\ App(t) /\ lock[m] # 0 /\ owner[m] = t
  /\ UNCHANGED vars

\* os_mutex_acquire of a taken mutex with timeout 0: OS_TIMEOUT.
MutexPoll(t, m) ==
  /\ App(t) /\ lock[m] # 0 /\ owner[m] # t
  /\ UNCHANGED vars

\* Mutant: no priority inheritance.
Donated_Never(t, m) == current_priority

\* Priority inheritance: t lends the owner of m its priority.
Donated(t, m) ==
  IF current_priority[t] > current_priority[owner[m]]
  THEN [current_priority EXCEPT ![owner[m]] = current_priority[t]]
  ELSE current_priority

\* os_mutex_acquire of a taken mutex, up to the os_yield.
MutexBlock(t, m, timeout) ==
  /\ App(t) /\ lock[m] # 0 /\ owner[m] # t /\ timeout # 0
  /\ current_priority' = Donated(t, m)
  /\ BlockCurrent(t, m, timeout)
  /\ UNCHANGED <<cpuVars, objVars, holds>>

\* os_mutex_acquire that finds the wait queue full: OS_FAIL, after the
\* priority was lent.
MutexFull(t, m, timeout) ==
  /\ App(t) /\ lock[m] # 0 /\ owner[m] # t /\ timeout # 0
  /\ wait_count[m] >= QueueMax(m)
  /\ current_priority' = Donated(t, m)
  /\ UNCHANGED <<state, sleep_time, wait_on, wait_result, cpuVars, objVars,
                 queueVars, clientVars>>

\* Mutant: a lent priority is kept.
Dropped_Never(m) == current_priority

\* The priorities after the owner of m has dropped what was lent to it.
Dropped(m) ==
  IF owner[m] = NULL THEN current_priority
  ELSE [current_priority EXCEPT ![owner[m]] = BasePriority[owner[m]]]

\* Mutant: the release unlocks before the new owner runs.
MutexHandoff_Unlocks(t, m) ==
  /\ App(t) /\ m \in holds[t]
  /\ \E i \in 0 .. wait_count[m] - 1 :
       /\ Picked(m, i, Dropped(m))
       /\ owner' = [owner EXCEPT ![m] = wait_queue[m][i]]
       /\ WakeTask(wait_queue[m][i])
  /\ lock' = [lock EXCEPT ![m] = 0]
  /\ current_priority' = Dropped(m)
  /\ pc' = [pc EXCEPT ![t] = "yield"]
  /\ holds' = [holds EXCEPT ![t] = @ \ {m}]
  /\ UNCHANGED <<cpuVars, count, call>>

\* os_mutex_release with a waiter: direct handoff, up to the os_yield.
MutexHandoff(t, m) ==
  /\ App(t) /\ m \in holds[t]
  /\ \E i \in 0 .. wait_count[m] - 1 :
       /\ Picked(m, i, Dropped(m))
       /\ owner' = [owner EXCEPT ![m] = wait_queue[m][i]]
       /\ WakeTask(wait_queue[m][i])
  /\ current_priority' = Dropped(m)
  /\ pc' = [pc EXCEPT ![t] = "yield"]
  /\ holds' = [holds EXCEPT ![t] = @ \ {m}]
  /\ UNCHANGED <<cpuVars, lock, count, call>>

\* os_mutex_release without a waiter: no os_yield.
MutexFree(t, m) ==
  /\ App(t) /\ m \in holds[t] /\ wait_count[m] = 0
  /\ lock' = [lock EXCEPT ![m] = 0]
  /\ owner' = [owner EXCEPT ![m] = NULL]
  /\ current_priority' = Dropped(m)
  /\ holds' = [holds EXCEPT ![t] = @ \ {m}]
  /\ UNCHANGED <<state, sleep_time, wait_on, wait_result, cpuVars, count,
                 queueVars, pc, call>>

\* os_semaphore_acquire with a token left: OS_SUCCESS.
SemTake(t, s) ==
  /\ App(t) /\ count[s] > 0
  /\ count' = [count EXCEPT ![s] = @ - 1]
  /\ UNCHANGED <<tcbVars, cpuVars, lock, owner, queueVars, clientVars>>

\* os_semaphore_acquire without a token, with timeout 0 (OS_TIMEOUT) or a full
\* wait queue (OS_FAIL; QueuesFit shows that it is never full).
SemPoll(t, s) ==
  /\ App(t) /\ count[s] = 0
  /\ UNCHANGED vars

\* os_semaphore_acquire without a token, up to the os_yield.
SemBlock(t, s, timeout) ==
  /\ App(t) /\ count[s] = 0 /\ timeout # 0
  /\ BlockCurrent(t, s, timeout)
  /\ UNCHANGED <<current_priority, cpuVars, objVars, holds>>

\* os_semaphore_release with a waiter: the token passes to it; os_yield.
SemHandoff(t, s) ==
  /\ App(t)
  /\ \E i \in 0 .. wait_count[s] - 1 :
       /\ Picked(s, i, current_priority)
       /\ WakeTask(wait_queue[s][i])
  /\ pc' = [pc EXCEPT ![t] = "yield"]
  /\ UNCHANGED <<current_priority, cpuVars, objVars, call, holds>>

\* Mutant: the count grows although a task waits.
SemGive_Overlooks(t, s) ==
  /\ App(t)
  /\ count' = [count EXCEPT ![s] = IF @ < SemMax[s] THEN @ + 1 ELSE @]
  /\ UNCHANGED <<tcbVars, cpuVars, lock, owner, queueVars, clientVars>>

\* os_semaphore_release without a waiter: the count saturates.
SemGive(t, s) ==
  /\ App(t) /\ wait_count[s] = 0
  /\ count' = [count EXCEPT ![s] = IF @ < SemMax[s] THEN @ + 1 ELSE @]
  /\ UNCHANGED <<tcbVars, cpuVars, lock, owner, queueVars, clientVars>>

-----------------------------------------------------------------------------
(* os_semaphore_release from an interrupt handler, for the modules that    *)
(* have one.  It may come while the tick or the scan of PendSV is at work. *)

\* Mutant: the handler does not ask for a switch.
IsrHandoff_NoYield(s) ==
  /\ \E i \in 0 .. wait_count[s] - 1 :
       /\ Picked(s, i, current_priority)
       /\ WakeTask(wait_queue[s][i])
  /\ UNCHANGED <<current_priority, cpuVars, objVars, clientVars>>

\* With a waiter a PendSV is pended; it is taken when the handlers are done.
IsrHandoff(s) ==
  /\ \E i \in 0 .. wait_count[s] - 1 :
       /\ Picked(s, i, current_priority)
       /\ WakeTask(wait_queue[s][i])
  /\ pendsv' = TRUE
  /\ UNCHANGED <<current_priority, current_tcb, kernel_running, scan_k, best,
                 tick_i, objVars, clientVars>>

IsrGive(s) ==
  /\ wait_count[s] = 0
  /\ count' = [count EXCEPT ![s] = IF @ < SemMax[s] THEN @ + 1 ELSE @]
  /\ UNCHANGED <<tcbVars, cpuVars, lock, owner, queueVars, clientVars>>

IsrRelease(s) == IsrHandoff(s) \/ IsrGive(s)

-----------------------------------------------------------------------------
MayAcquire(t) == Nested \/ holds[t] = {}

MutexAcquire(t, m) ==
  /\ MayAcquire(t)
  /\ \/ MutexTake(t, m)
     \/ \E timeout \in Timeouts : MutexBlock(t, m, timeout)
     \/ \E timeout \in Timeouts : MutexFull(t, m, timeout)

\* The calls that are refused at once change nothing.
Refused(t) ==
  \/ \E m \in Mutexes : MutexRecursive(t, m) \/ MutexPoll(t, m)
  \/ \E s \in Sems : SemPoll(t, s)

MutexRelease(t, m) == MutexHandoff(t, m) \/ MutexFree(t, m)

SemAcquire(t, s) ==
  SemTake(t, s) \/ \E timeout \in Timeouts : SemBlock(t, s, timeout)

SemRelease(t, s) == SemHandoff(t, s) \/ SemGive(t, s)

PendSV == PendSVEnter \/ ScanStep \/ SwitchTo

KernelStep == Launch \/ PendSV \/ SysTick \/ TickStep

TaskStep(t) ==
  \/ Yield(t) \/ Return(t) \/ Refused(t)
  \/ \E ms \in Delays : Delay(t, ms)
  \/ \E m \in Mutexes : MutexAcquire(t, m) \/ MutexRelease(t, m)
  \/ \E s \in Sems : SemAcquire(t, s) \/ SemRelease(t, s)

Next == KernelStep \/ \E t \in Tasks : TaskStep(t)

Spec == Init /\ [][Next]_vars
=============================================================================
