----------------------------- MODULE BootProps -----------------------------
(* What must hold from reset to the first task, and of the stacks after it. *)
EXTENDS Boot

\* The arguments main() must give the semaphores, whatever calls it makes.
SemInitialOf == [x \in AppSems |-> IF x = "sweep_queue.empty_slots" THEN 8 ELSE 0]
SemMaxOf == [x \in AppSems |->
               IF x \in {"echo_ready", "ping_sem", "pong_sem"} THEN 1 ELSE 8]

\* The kernel of module Kernel, as the code before the launch leaves it.
K == INSTANCE Kernel WITH
  IdleTask <- NTasks - 1, BasePriority <- Priorities,
  Mutexes <- AppMutexes, Sems <- AppSems,
  SemInitial <- SemInitialOf, SemMax <- SemMaxOf,
  MAX_WAITING_TASKS <- MAX_TASKS - 1,
  Timeouts <- {0}, WAIT_FOREVER <- 1, Delays <- {1}, Nested <- FALSE,
  state <- [t \in Tasks |-> tcb[t].state],
  current_priority <- [t \in Tasks |-> tcb[t].current_priority],
  sleep_time <- [t \in Tasks |-> tcb[t].sleep_time],
  wait_on <- [t \in Tasks |-> tcb[t].wait_on],
  wait_result <- [t \in Tasks |-> tcb[t].wait_result],
  pendsv <- FALSE, scan_k <- -1, best <- NULL, tick_i <- -1,
  lock <- [x \in AppMutexes |-> mutexes[x].lock],
  owner <- [x \in AppMutexes |-> mutexes[x].owner],
  count <- [x \in AppSems |-> sems[x].count],
  wait_queue <- [x \in AppMutexes \cup AppSems |-> [i \in 0 .. MAX_TASKS - 1 |-> NULL]],
  wait_count <- [x \in AppMutexes \cup AppSems |->
                   IF x \in AppMutexes THEN mutexes[x].wait_count ELSE sems[x].wait_count],
  pc <- [t \in Tasks |-> "run"], call <- [t \in Tasks |-> NULL],
  holds <- [t \in Tasks |-> {}]

\* When main() calls os_kernel_launch the kernel is in an initial state of module
\* Kernel: the self-test and the benchmarks, which take and give objects and call
\* os_scheduler, leave nothing behind, after a reset in any state as well.
BootReachesInit ==
  at = "launch" /\ ~kernel_running =>
    /\ K!Init
    /\ [x \in AppSems |-> sems[x].max_count] = SemMaxOf

\* The number a sequence of decimal digits stands for.
Decimal(ds) ==
  LET value[i \in 0 .. Len(ds)] == IF i = 0 THEN 0 ELSE 10 * value[i - 1] + ds[i]
  IN value[Len(ds)]

\* uart_print_number sends the decimal representation of its argument, without
\* leading zeros, and report's tenths are one digit, so that the line reads as a
\* decimal fraction (uart.c, microbench.c), for differences that wrapped as well;
\* the digits stay within the buffer.
NumbersPrinted ==
  /\ Len(digits) <= DigitsMax
  /\ Printed => /\ Decimal(out) = Head(todo)
                /\ Len(out) > 1 => out[1] # 0
                /\ Len(todo) = 1 => Len(out) = 1

\* The task that runs has its own registers and its own stack, although others
\* have overflowed theirs into it: PendSV saved them where it restores them from,
\* and an overflow is noticed before the victim runs (os_kernel_asm.s,
\* os_kernel.c:87).
OwnContext ==
  mode = "thread" =>
    LET o == own[current_tcb] IN
    /\ regs = o.regs
    /\ psp = stackTop(current_tcb) - Len(o.stack)
    /\ \A i \in DOMAIN o.stack : mem[stackTop(current_tcb) - i] = o.stack[i]

\* The halted board names the task that overflowed: a canary is lost only while
\* the task that ran over it, which has lost its own too, is current, and PendSV
\* restores no task after that (os_stack_overflow_hook).
HaltNamesCulprit ==
  mode # "main" =>
    \A t \in Tasks : mem[stackBase(t)] # STACK_CANARY =>
      /\ mode # "chosen"
      /\ mem[stackBase(current_tcb)] # STACK_CANARY
      /\ stackBase(t) <= stackBase(current_tcb)

\* A board that is not reset for ever ends up in its tasks.  The self-test never
\* stops at fail(): its calls are right for the implementation, whatever its
\* uninitialised locals held and although no task is current yet, so that the owner
\* of its mutex is NULL; and no loop of the self-test, the benchmarks or the
\* printing goes on for ever (os_run_post, microbench_run_all, uart_print_number).
BootEnds == (<>[][~Restart]_bootVars) => <>[](mode # "main")
=============================================================================
