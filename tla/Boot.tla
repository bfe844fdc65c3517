-------------------------------- MODULE Boot --------------------------------
(***************************************************************************)
(* From reset to the first task and beyond (stm32f411_startup.c, Src/main.c,*)
(* Kernel/os_tests.c, Bench/microbench.c): Reset_Handler, the power-on     *)
(* self-test, the objects, the tasks, the benchmarks and os_kernel_launch; *)
(* then the switching of module Context.  The board may be reset at any    *)
(* moment, and must be once the overflow hook has halted it.               *)
(*                                                                         *)
(* os_kernel_init masks the interrupts and only os_start_first_task enables*)
(* them, so everything before it is sequential: a call is one step.  The   *)
(* objects of the self-test and of the benchmarks are locals, with any     *)
(* contents before they are initialised.                                   *)
(***************************************************************************)
EXTENDS Context

CONSTANTS
  Priorities,        \* of the tasks main() creates, in their order; idle is last
  MAX_TASKS,
  BENCH_ITERATIONS,
  CYCLES_PER_US,
  WordSize,          \* a uint32_t counts modulo this
  DigitsMax,         \* the size of the buffer of uart_print_number
  Cycles             \* bound: the cycle counts a measurement may show

\* The powers of ten.
Pow10[n \in Nat] == IF n = 0 THEN 1 ELSE 10 * Pow10[n - 1]

ASSUME BootAssumption ==
  /\ Priorities \in [Tasks -> Nat] /\ MAX_TASKS \in Nat /\ NTasks <= MAX_TASKS
  /\ BENCH_ITERATIONS \in Nat \ {0} /\ CYCLES_PER_US \in Nat \ {0}
  /\ WordSize \in Nat \ {0} /\ DigitsMax \in Nat \ {0}
  /\ WordSize <= Pow10[DigitsMax]   \* the buffer has room for every number
  /\ Cycles \subseteq 0 .. WordSize - 1

OS_SUCCESS == 0
OS_TIMEOUT == 1
OS_FAIL    == 2

AppMutexes == {"uart_lock", "sweep_queue.lock"}
BenchSems  == {"ping_sem", "pong_sem"}
AppSems    == BenchSems \cup
              {"echo_ready", "sweep_queue.empty_slots", "sweep_queue.filled_slots"}
SweepQueueCapacity == 8

VARIABLES
  at,                       \* where main() is
  line, iter,               \* the call of the self-test, the iteration of a benchmark
  task_count, tcb, kernel_running,
  mutexes, sems,            \* the objects of the application
  m, s, q,                  \* the mutex, semaphore and queue of a test
  todo,                     \* the numbers of a line that are still to be printed
  num, digits, out          \* uart_print_number: num, buffer, digits sent

kernelData == <<task_count, tcb, kernel_running, mutexes, sems>>
locals     == <<m, s, q>>
printVars  == <<todo, num, digits, out>>
mainVars   == <<at, line, iter>>
bootVars   == <<contextVars, mainVars, kernelData, locals, printVars>>

-----------------------------------------------------------------------------
(* Objects, as the calls made before the launch see them.                  *)

\* os_mutex_init of an object with the contents old.
NewMutex(old) == [lock |-> 0, owner |-> NULL, wait_count |-> 0]

\* os_semaphore_init.
NewSemaphore(initial, max) == [count |-> initial, max_count |-> max, wait_count |-> 0]

\* os_queue_init.
NewQueue(buffer, capacity, old) ==
  [buffer |-> buffer, head |-> 0, tail |-> 0, lock |-> NewMutex(old),
   empty_slots |-> NewSemaphore(capacity, capacity),
   filled_slots |-> NewSemaphore(0, capacity)]

\* What a local mutex may hold before os_mutex_init.
Garbage == [lock : {0, 1}, owner : {NULL, 0}, wait_count : {0, 1}]

\* os_mutex_acquire before the launch: <<mutex, result>>.
MutexAcquired(x) ==
  IF x.lock = 0 THEN <<[x EXCEPT !.lock = 1, !.owner = current_tcb], OS_SUCCESS>>
  ELSE IF x.owner = current_tcb THEN <<x, OS_FAIL>> ELSE <<x, OS_TIMEOUT>>

\* os_mutex_release of a mutex without waiters: before the launch no task waits, and
\* every mutex is initialised before it is used.
MutexReleased(x) ==
  IF x.wait_count = 0 THEN [x EXCEPT !.lock = 0, !.owner = NULL] ELSE x

\* os_semaphore_acquire before the launch, and os_semaphore_release.
SemAcquired(x) ==
  IF x.count > 0 THEN <<[x EXCEPT !.count = @ - 1], OS_SUCCESS>> ELSE <<x, OS_TIMEOUT>>

\* Mutant: the count is not bounded.
SemReleased_Unbounded(x) == [x EXCEPT !.count = @ + 1]

SemReleased(x) == [x EXCEPT !.count = IF @ < x.max_count THEN @ + 1 ELSE @]

\* os_queue_send and os_queue_receive with timeout 0 on a free lock.
QueueSent(x, message) ==
  LET slot == SemAcquired(x.empty_slots)
      had_slot == slot[2] = OS_SUCCESS
      next(i) == (i + 1) % x.empty_slots.max_count
  IN [x EXCEPT !.empty_slots = slot[1],
               !.lock = MutexReleased(MutexAcquired(@)[1]),
               !.buffer[x.head] = message,
               !.head = next(@),
               !.tail = IF had_slot THEN @ ELSE next(@),
               !.filled_slots = IF had_slot THEN SemReleased(@) ELSE @]

QueueReceived(x) ==
  [x EXCEPT !.filled_slots = SemAcquired(@)[1],
            !.lock = MutexReleased(MutexAcquired(@)[1]),
            !.tail = (@ + 1) % x.empty_slots.max_count,
            !.empty_slots = SemReleased(@)]

-----------------------------------------------------------------------------
(* os_run_post: a list of calls, each with what the test accepts: the      *)
(* result of the call and the lock, the count or the message after it.     *)

Call(do, arg, results, values) ==
  [do |-> do, arg |-> arg, results |-> results, values |-> values]

Any  == 0 .. 6
Sends(n)    == [i \in 1 .. n |-> Call("send", i, {OS_SUCCESS}, Any)]
Receives(n) == [i \in 1 .. n |-> Call("receive", 0, {OS_SUCCESS}, {i})]

PostScript ==
  << Call("acquire", 0, {OS_SUCCESS}, {1}),
     Call("acquire", 0, {OS_TIMEOUT, OS_FAIL}, Any),
     Call("release", 0, {OS_SUCCESS}, {0}),
     Call("take", 0, {OS_SUCCESS}, {1}),
     Call("take", 0, {OS_SUCCESS}, {0}),
     Call("take", 0, {OS_TIMEOUT}, Any),
     Call("give", 0, {OS_SUCCESS}, {1}),
     Call("give", 0, {OS_SUCCESS}, Any),
     Call("give", 0, {OS_SUCCESS}, {2}),
     Call("send", 5, {OS_SUCCESS}, Any),
     Call("receive", 0, {OS_SUCCESS}, {5}) >>
  \o Sends(4) \o Receives(4)
  \o << Call("receive", 0, {OS_TIMEOUT}, Any) >>
  \o Sends(6) \o << Call("receive", 0, {OS_SUCCESS}, {3}) >>

\* What a call returns, and the value the test looks at; a released mutex must have
\* neither lock nor owner.
Seen(c) ==
  CASE c.do = "acquire" -> <<MutexAcquired(m)[2], MutexAcquired(m)[1].lock>>
    [] c.do = "release" -> <<OS_SUCCESS, IF MutexReleased(m).owner = NULL
                                        THEN MutexReleased(m).lock ELSE 1>>
    [] c.do = "take"    -> <<SemAcquired(s)[2], SemAcquired(s)[1].count>>
    [] c.do = "give"    -> <<OS_SUCCESS, SemReleased(s).count>>
    [] c.do = "send"    -> <<OS_SUCCESS, 0>>
    [] c.do = "receive" -> <<SemAcquired(q.filled_slots)[2], q.buffer[q.tail]>>

\* What a call does to the local objects.
Applied(c) ==
  /\ m' = CASE c.do = "acquire" -> MutexAcquired(m)[1]
            [] c.do = "release" -> MutexReleased(m)
            [] OTHER -> m
  /\ s' = CASE c.do = "take" -> SemAcquired(s)[1]
            [] c.do = "give" -> SemReleased(s)
            [] OTHER -> s
  /\ q' = CASE c.do = "send" -> QueueSent(q, c.arg)
            [] c.do = "receive" /\ q.filled_slots.count > 0 -> QueueReceived(q)
            [] OTHER -> q

\* The objects of os_run_post are declared and initialised.
PostInit ==
  /\ at = "init"
  /\ \E old \in Garbage :
       m' = NewMutex(old) /\ q' = NewQueue([i \in 0 .. 3 |-> JUNK], 4, old)
  /\ s' = NewSemaphore(2, 2)
  /\ at' = "post" /\ line' = 1
  /\ UNCHANGED <<contextVars, iter, kernelData, printVars>>

\* A call of the self-test; fail() never returns.
PostCall ==
  /\ at = "post" /\ line <= Len(PostScript)
  /\ LET c == PostScript[line]
         seen == Seen(c)
     IN at' = IF seen[1] \in c.results /\ seen[2] \in c.values THEN "post" ELSE "fail"
  /\ Applied(PostScript[line])
  /\ line' = line + 1
  /\ UNCHANGED <<contextVars, iter, kernelData, printVars>>

-----------------------------------------------------------------------------
(* main().                                                                 *)

Blank == [base_priority |-> 0, current_priority |-> 0, state |-> "READY",
          sleep_time |-> 0, wait_on |-> NULL, wait_result |-> OS_SUCCESS]

\* The semaphores before main() initialises them: .bss is zero, microbench_init
\* has run.
EarlySems ==
  [x \in AppSems |-> IF x \in BenchSems THEN NewSemaphore(0, 1) ELSE NewSemaphore(0, 0)]

\* Reset_Handler zeroes .bss, the stacks, the TCBs and the objects included, and
\* calls main(), which calls os_kernel_init and microbench_init.
Reset ==
  /\ at = "reset"
  /\ mem' = [a \in Memory |-> 0]
  /\ stackPtr' = [t \in Tasks |-> 0]
  /\ tcb' = [t \in Tasks |-> Blank]
  /\ mutexes' = [x \in AppMutexes |-> NewMutex(NULL)]
  /\ sems' = EarlySems
  /\ task_count' = 0 /\ current_tcb' = NULL /\ kernel_running' = FALSE
  /\ own' = [t \in Tasks |-> NULL]
  /\ at' = "init"
  /\ UNCHANGED <<psp, regs, mode, line, iter, locals, printVars>>

\* The objects of the application; the self-test and its locals are gone.
InitObjects ==
  /\ at = "post" /\ line > Len(PostScript)
  /\ mutexes' = [x \in AppMutexes |-> NewMutex(mutexes[x])]
  /\ sems' = [x \in AppSems |->
                CASE x = "echo_ready" -> NewSemaphore(0, 1)
                  [] x = "sweep_queue.empty_slots" ->
                       NewSemaphore(SweepQueueCapacity, SweepQueueCapacity)
                  [] x = "sweep_queue.filled_slots" -> NewSemaphore(0, SweepQueueCapacity)
                  [] OTHER -> sems[x]]
  /\ m' = NULL /\ s' = NULL /\ q' = NULL
  /\ at' = "create" /\ line' = 0
  /\ UNCHANGED <<contextVars, iter, task_count, tcb, kernel_running, printVars>>

\* The TCB os_task_create fills in.
Created(t) ==
  [Blank EXCEPT !.base_priority = Priorities[t], !.current_priority = Priorities[t]]

\* os_task_create; the first task becomes the current one.
TaskCreate ==
  /\ at = "create" /\ task_count < NTasks /\ task_count < MAX_TASKS
  /\ tcb' = [tcb EXCEPT ![task_count] = Created(task_count)]
  /\ CreateStack(task_count)
  /\ current_tcb' = IF current_tcb = NULL THEN task_count ELSE current_tcb
  /\ task_count' = task_count + 1
  /\ UNCHANGED <<mainVars, kernel_running, mutexes, sems, locals, printVars>>

-----------------------------------------------------------------------------
(* microbench_run_all.                                                     *)

Benches == <<"mutex", "semaphore", "queue", "scheduler">>

\* A benchmark starts: its local object is new.
BenchStart(b) ==
  /\ \E old \in Garbage :
       /\ m' = IF b = "mutex" THEN NewMutex(old) ELSE NULL
       /\ q' = IF b = "queue" THEN NewQueue([i \in 0 .. 7 |-> JUNK], 8, old) ELSE NULL
  /\ s' = IF b = "semaphore" THEN NewSemaphore(1, 1) ELSE NULL
  /\ at' = b /\ iter' = 0

BenchBegin ==
  /\ at = "create" /\ task_count = NTasks
  /\ BenchStart(Benches[1]) /\ line' = 1
  /\ UNCHANGED <<contextVars, kernelData, printVars>>

\* One more iteration of the loop of b.
Again(b) == at = b /\ iter < BENCH_ITERATIONS /\ iter' = iter + 1

\* An iteration: the object is acquired and released, a message sent and received.
BenchPair ==
  /\ \/ Again("mutex") /\ m' = MutexReleased(MutexAcquired(m)[1]) /\ UNCHANGED <<s, q>>
     \/ Again("semaphore") /\ s' = SemReleased(SemAcquired(s)[1]) /\ UNCHANGED <<m, q>>
     \/ Again("queue") /\ q' = QueueReceived(QueueSent(q, iter)) /\ UNCHANGED <<m, s>>
  /\ UNCHANGED <<contextVars, at, line, kernelData, printVars>>

\* os_scheduler's choice, all tasks being runnable: the first of the highest
\* priority, from the slot after the current task on.
Scheduled(t) ==
  LET slot(k) == (current_tcb + 1 + k) % NTasks
      priority(u) == tcb[u].current_priority IN
  \E k \in 0 .. NTasks - 1 :
    /\ t = slot(k)
    /\ \A j \in 0 .. NTasks - 1 :
         IF j < k THEN priority(slot(j)) < priority(t)
         ELSE priority(slot(j)) <= priority(t)

\* Mutant: the task that ran before stays RUNNING.
OutgoingState_Kept(old) == old

\* The state os_scheduler leaves the outgoing task in.
OutgoingState(old) == IF old = "RUNNING" THEN "READY" ELSE old

\* A call of os_scheduler from main(): no context is switched.
ScheduleTo(t) ==
  /\ Scheduled(t)
  /\ tcb' = [u \in Tasks |->
               [tcb[u] EXCEPT !.state = IF u = t THEN "RUNNING"
                                        ELSE IF u = current_tcb THEN OutgoingState(@)
                                        ELSE @]]
  /\ current_tcb' = t
  /\ UNCHANGED <<mem, stackPtr, psp, regs, own, task_count, mutexes, sems>>

BenchSchedule ==
  /\ Again("scheduler")
  /\ \E t \in Tasks : ScheduleTo(t)
  /\ UNCHANGED <<mode, at, line, kernel_running, locals, printVars>>

\* The tenths of a microsecond in a number of cycles.
Tenths(cycles) == ((cycles % CYCLES_PER_US) * 10) \div CYCLES_PER_US

\* cycles - measure_overhead_cycles(), as a uint32_t.
Net(measured, overhead) == (measured - overhead) % WordSize

\* report: three numbers are printed.
Report ==
  /\ line \in DOMAIN Benches /\ at = Benches[line] /\ iter = BENCH_ITERATIONS
  /\ \E measured, overhead \in Cycles :
       LET cycles == Net(measured, overhead) IN
       /\ todo' = <<cycles, cycles \div CYCLES_PER_US, Tenths(cycles)>>
       /\ num' = cycles
  /\ digits' = <<>> /\ out' = <<>>
  /\ at' = "print"
  /\ UNCHANGED <<contextVars, line, iter, kernelData, locals>>

\* uart_print_number: the digits from the right; 0 has one.
StoreDigit ==
  /\ at = "print" /\ todo # <<>> /\ (num > 0 \/ (Head(todo) = 0 /\ digits = <<>>))
  /\ digits' = Append(digits, num % 10)
  /\ num' = num \div 10
  /\ UNCHANGED <<contextVars, mainVars, kernelData, locals, todo, out>>

\* Mutant: the digits go out as they were stored.
SentDigit_Forward == digits[1 + Len(out)]

\* The digit that is sent next: the one stored last.
SentDigit == digits[Len(digits) - Len(out)]

SendDigit ==
  /\ at = "print" /\ num = 0 /\ Len(out) < Len(digits)
  /\ out' = Append(out, SentDigit)
  /\ UNCHANGED <<contextVars, mainVars, kernelData, locals, todo, num, digits>>

\* The number is out.
Printed == at = "print" /\ num = 0 /\ digits # <<>> /\ Len(out) = Len(digits)

\* The next number of the line.
NumberNext ==
  /\ Printed
  /\ todo' = Tail(todo) /\ num' = (IF Len(todo) > 1 THEN todo[2] ELSE 0)
  /\ digits' = <<>> /\ out' = <<>>
  /\ UNCHANGED <<contextVars, mainVars, kernelData, locals>>

\* The line is out: the next benchmark, or the launch.
BenchNext ==
  /\ at = "print" /\ todo = <<>>
  /\ IF line < Len(Benches)
     THEN line' = line + 1 /\ BenchStart(Benches[line + 1])
     ELSE /\ at' = "launch" /\ line' = 0 /\ iter' = 0
          /\ m' = NULL /\ s' = NULL /\ q' = NULL
  /\ UNCHANGED <<contextVars, kernelData, printVars>>

-----------------------------------------------------------------------------
\* What main() has in the registers.
MainRegs == [low |-> 0, high |-> 0, pc |-> 0, psr |-> THUMB]

\* os_kernel_launch up to os_start_first_task.
Launch ==
  /\ at = "launch" /\ ~kernel_running
  /\ \E t \in Tasks : ScheduleTo(t)
  /\ kernel_running' = TRUE
  /\ UNCHANGED <<mode, mainVars, locals, printVars>>

FirstTask ==
  /\ at = "launch" /\ kernel_running /\ StartFirstTask
  /\ UNCHANGED <<mainVars, kernelData, locals, printVars>>

\* The tasks and their switches; module Kernel says what the TCBs do meanwhile.
Running ==
  /\ at = "launch" /\ ContextStep
  /\ UNCHANGED <<mainVars, kernelData, locals, printVars>>

\* The reset button: the core is reset, the memory keeps what it held.
Restart ==
  /\ at # "reset"
  /\ mode' = "main" /\ at' = "reset"
  /\ psp' = 0 /\ regs' = MainRegs
  /\ line' = 0 /\ iter' = 0
  /\ m' = NULL /\ s' = NULL /\ q' = NULL
  /\ todo' = <<>> /\ num' = 0 /\ digits' = <<>> /\ out' = <<>>
  /\ UNCHANGED <<mem, stackPtr, current_tcb, own, kernelData>>

Boots ==
  \/ Reset \/ PostInit \/ PostCall \/ InitObjects \/ TaskCreate
  \/ BenchBegin \/ BenchPair \/ BenchSchedule \/ Report
  \/ StoreDigit \/ SendDigit \/ NumberNext \/ BenchNext \/ Launch \/ FirstTask

BootNext == Boots \/ Running \/ Restart

\* The power is switched on.
BootInit ==
  /\ mem = [a \in Memory |-> JUNK]
  /\ stackPtr = [t \in Tasks |-> 0] /\ own = [t \in Tasks |-> NULL]
  /\ current_tcb = NULL /\ psp = 0 /\ mode = "main" /\ regs = MainRegs
  /\ at = "reset" /\ line = 0 /\ iter = 0
  /\ task_count = 0 /\ tcb = [t \in Tasks |-> Blank]
  /\ kernel_running = FALSE
  /\ \E old \in Garbage : mutexes = [x \in AppMutexes |-> old]
  /\ sems = [x \in AppSems |-> NewSemaphore(0, 0)]
  /\ m = NULL /\ s = NULL /\ q = NULL
  /\ todo = <<>> /\ num = 0 /\ digits = <<>> /\ out = <<>>

BootSpec == BootInit /\ [][BootNext]_bootVars

\* main() waits for nobody but the serial line, which empties its register.
BootFairSpec == BootSpec /\ WF_bootVars(Boots)
=============================================================================
