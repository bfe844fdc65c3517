# A TLA+ model of SENTINEL RTOS

SENTINEL is a small preemptive real-time kernel for the STM32F411 with a radar
application on top: a task sweeps a servo, another measures distances with an
ultrasonic sensor. This directory models the parts of it in which an order of
events nobody tried could do harm, checks them with TLC on small instances and
proves the safety of kernel, message queue, application, I2C driver, context switch and
boot with TLAPS for every instance. Paths below are relative to the root of the repository.

## The system

| Part | State | Operations | Talks to |
|---|---|---|---|
| Scheduler, context switch (`Kernel/os_kernel.c`, `os_kernel_asm.s`) | `os_tasks[]` (TCBs), `current_tcb`, `kernel_running`, PENDSVSET | `os_task_create`, `os_kernel_launch`, `os_scheduler`, `PendSV_Handler`, `os_yield` | every task |
| Tick and timeouts | `sleep_time`, `wait_queue`/`wait_count`, `wait_result` of a TCB, `os_ticks` | `SysTick_Handler`, `os_delay` | wait queues, scheduler |
| Mutex with priority inheritance | `lock`, `owner`, `wait_queue`, the owner's `current_priority` | `os_mutex_acquire`, `os_mutex_release` | scheduler, tick |
| Semaphore | `count`, `max_count`, `wait_queue` | `os_semaphore_acquire`, `os_semaphore_release` (also from a handler) | scheduler, tick |
| Message queue (`Kernel/os_queue.c`) | `buffer`, `head`, `tail`, a lock, two semaphores | `os_queue_send`, `os_queue_receive` | mutex, semaphores |
| Ultrasonic driver (`Drivers/Src/ultrasonic.c`) | `waiting_for_rising`, `time_start`, `time_end`, `echo_ready` | `ultrasonic_read_cm`, `ultrasonic_trigger`, `TIM2_IRQHandler` | semaphore, TIM2, sensor |
| I2C driver (`Drivers/Src/i2c.c`) | the registers of I2C1 | `i2c_write`, `i2c_read`, `i2c_read_reg` | the peripheral and the slave |
| Application (`Tasks/tasks.c`, `Src/main.c`) | the sweep angle, `sweep_queue`, `uart_lock` | `sweep_task`, `radar_task`, `log_line`, `main` | all of the above |
| Startup, self-test, benchmarks (`stm32f411_startup.c`, `Kernel/os_tests.c`, `Bench/microbench.c`) | `.bss`, local objects, cycle counts | `Reset_Handler`, `os_run_post`, `microbench_run_all` | kernel calls before the launch |
| UART, PWM, servo (`Drivers/Src/`) | registers, the pulse width | `uart_print_number`, `servo_set_angle`, `pwm_set_pulse_us` | hardware |
| GPIO, SPI, ADC (`Drivers/Src/`) | registers | configuration, transfers by spinning | hardware |

What is hard here:

* **Interleaving.** A task can be switched out between any two instructions
  outside a critical section (PRIMASK); a tick can arrive during PendSV's scan,
  which does not mask interrupts; TIM2 preempts the tick and PendSV.
* **Timeouts.** The tick pulls a task out of a wait queue while another task may
  be about to hand it the mutex or the token. The echo may come after the read
  has given up.
* **Decisions that age.** `os_queue_send` decides that the queue is full before
  it takes the lock. `i2c_read` turns ACK off after the slave has begun to send.
* **Stacks.** A task that overflows its stack writes into its neighbour's and is
  noticed at its next switch only. Its context is saved in two parts, by the core
  and by PendSV.
* **Before the launch.** The self-test and the benchmarks use the kernel while no
  task is current or none runs, on uninitialised locals; the board may be reset at
  any moment.
* **Priorities.** Inversion, lent priorities that outlive their reason, equals
  that should share the CPU.

What makes each part correct is listed with the runs below; `PROJECT.json` has
the list of hazards with the line where each one bites.

## Modules

| Module | What it is |
|---|---|
| `Kernel` | scheduler, PendSV, SysTick, delay, mutexes, semaphores; arbitrary tasks as clients |
| `KernelProps` | the kernel's invariants, action properties, fairness and liveness |
| `MCKernel` | instances for TLC |
| `KernelProofs` | inductive invariant and theorems about `Kernel` |
| `InheritanceProofs` | priority inheritance and the size of the wait queues |
| `Queue` | the message queue, composed with `Kernel` (EXTENDS) |
| `LossyFifo` | abstract specification of the queue |
| `QueueProps`, `MCQueue`, `QueueProofs` | properties with the refinement mapping, instances, theorems |
| `QueueFifoProofs` | tokens, ring and the refinement of `LossyFifo`, proved |
| `TickIsr` | SysTick's handler one memory access at a time, for clients of `Kernel` with a handler above it |
| `Ultrasonic`, `UltrasonicProps`, `MCUltrasonic`, `UltrasonicProofs` | driver, TIM2 handler and sensor, composed with `TickIsr` and `Kernel` |
| `Sentinel`, `SentinelProps`, `MCSentinel` | the application: sweep and radar on `Queue` and `Kernel` |
| `SentinelProofs` | theorems about the application |
| `Context` | stacks, frames, PendSV's saving and restoring, the canary |
| `Boot`, `BootProps`, `MCBoot` | from reset to the first task, composed with `Context`; its end is an initial state of `Kernel` |
| `BootProofs` | theorems about stacks, switches, the boot, the self-test and the printing of numbers |
| `I2C`, `I2CProps`, `MCI2C`, `I2CProofs` | the I2C master against its peripheral; the bus invariant, proved |

Definitions called `X_Something` marked *Mutant* are deliberately wrong variants
of `X`, one for each property, used to show that the property can fail.

### Kernel

A TCB field is a function on task indices (`state`, `current_priority`,
`sleep_time`, `wait_result`); `wait_queue` and `wait_count` of a TCB, which the
code sets together, are one pointer `wait_on`. A mutex or semaphore has its
fields (`lock`, `owner`, `count`) and a wait queue, an array with a count as in the
code. The processor is `current_tcb`, the PENDSVSET bit `pendsv`, the loop index
of the scheduler `scan_k` with its `best`, and that of the tick `tick_i`.
`pc` says where a task is in a call: `"run"` in its own code, `"yield"` after
`os_exit_critical` and before `os_yield`, `"resume"` after it.

Granularity: a critical section is one step, since nothing can interrupt it. An
iteration of the scan is one step, since ticks may come in between; an iteration
of the tick's loop is one step, since nothing in this module preempts the tick. The
task in thread mode (`Thread`) makes any call
of the API with any argument, except that it releases only mutexes it holds; so
every program that keeps that rule is covered, not only the radar application.
Initially one of the highest tasks is RUNNING and current: the calls of
`os_scheduler` that the benchmark times have chosen it before the launch.

| Action | Code |
|---|---|
| `Launch`, `SwitchTo` | `os_kernel_launch`; the end of `os_scheduler` and the return into the task |
| `PendSVEnter`, `ScanStep` | `PendSV_Handler`, the loop of `os_scheduler` |
| `SysTick`, `TickSkip`, `TickCount`, `TickExpire` | `SysTick_Handler` and the cases of its loop |
| `Yield`, `Return` | `os_yield` at the end of a call; the return with `wait_result` |
| `Delay` | `os_delay` |
| `MutexTake`, `MutexRecursive`, `MutexPoll`, `MutexBlock`, `MutexFull` | the return paths of `os_mutex_acquire` |
| `MutexHandoff`, `MutexFree` | `os_mutex_release` with and without a waiter |
| `SemTake`, `SemPoll`, `SemBlock`, `SemHandoff`, `SemGive` | the semaphore calls |
| `IsrHandoff`, `IsrGive` | `os_semaphore_release` from a handler |

### TickIsr

The iteration of SysTick's loop is split into the accesses that another handler can
come between: the load and the store of `sleep_time` (`LoadDeadline`, `StoreDeadline`),
the test of `wait_queue` (`CheckQueue`), `wait_queue_remove` (`FindEntry`,
`RemoveEntry`), and the stores of `wait_result` and `state`. The fields are not
volatile, so `*wait_count` may be decremented from the value the loop loaded or from
memory; the model does either.

### Queue

`stage` says where a task is in `os_queue_send` or `os_queue_receive`; the kernel
calls in them are the actions of `Kernel`, and the write or read of the buffer and
the update of the indices are separate steps, because a tick may come between
them. Messages are numbered in the order of the calls. `LossyFifo` is a bounded
sequence in which a send appends, replaces the oldest entry, or loses its own
message, and a receive returns the oldest. The mapping (`QueueProps`) counts a
token in the hands of a task as an unread message or a free slot, and lets a
write or read take effect when the buffer is accessed.

### Sentinel

`place` is the position in `sweep_task` and `radar_task`; the steps of a queue call are
those of `Queue`. The state is the angle and its step, the pulse width in TIM3 and
whether a ping is out. The driver is reduced to its semaphore: a ping may be answered
by a post from the handler at any later moment, or never. `PulseOf` has the cast to
`uint16_t`, the clamp and the division of `servo_set_angle`, and `PwmPulse` the clamp of
`pwm_set_pulse_us`.

| Action | Code |
|---|---|
| `LockUart`, `UnlockUart` | `log_line` and the first line of `sweep_task` |
| `HomeStep`, `HomeEnd` | the homing loop |
| `SetAngle`, `SendAngle`, `Turn` | the loop of `sweep_task` |
| `Ping`, `EchoTake`, `EchoBlock`, `EchoWoken` | `ultrasonic_read_cm` |
| `ReceiveAngle`, `Rest` | the loop of `radar_task` |
| `EchoIsr` | the falling edge in `TIM2_IRQHandler` |

### Context and Boot

`mem` is the memory of the stacks, word by word, with the stacks next to each other.
The frames are scaled down: one word stands for R0-R3, R12 and LR, one for R4-R11, and
PC and xPSR have one each. A running task computes, pushes and pops; it may push more
than its stack holds. The core stacks the hardware frame (`Exception`), then PendSV
pushes R4-R11 and stores the pointer (`SaveContext`), `os_scheduler` looks at the
canary (`ChooseTask` or `OverflowHook`), and the incoming context is restored
(`RestoreContext`). Which task is chosen is left open: `Kernel` says which. A tick that
interrupts PendSV runs on the main stack and touches none of this. `own` remembers what
each task had in its registers and on its stack.

`Boot` runs `Reset_Handler`, the self-test as the list of its calls and of what each
must return, the objects and tasks of `main`, the four benchmarks with the printing of
their lines, and `os_kernel_launch`; then the tasks of `Context`. Before the launch
interrupts are masked, so a call is one step (`BENCHMARKS.md:93` says of the benchmarks
that they run with interrupts enabled; `os_kernel_init` masks them before, and the model
follows the code). Locals hold any of the contents in
`Garbage` before they are initialised. `Restart` resets the board at any moment; the
memory keeps what it held.

### Ultrasonic

`step` is the position in the loop of `radar_task` and `ultrasonic_read_cm`. The
sensor (external) answers a trigger with a pulse that ends at most `MaxEcho` after
it, or not at all, and ignores a trigger while it is busy. The unit of time is a
SysTick period for the counter too: a period ends only when pending captures are
served. The ghost variables `fresh` and `answer` remember whether the pulse belongs
to the current read and how long it was.

### I2C

`at` is the position in a call. Every `wait_flag` is one step that sees the flag
or runs out of budget. The receiver has two registers (data and shift) and stretches
the clock when both are full; a byte is acknowledged according to ACK at the moment
it arrives. The BUSY test (`BusFree`) and the write of ACK and START (`SetStart`) are two
steps: a START that did not come out within the budget of its own call stays set, and may
come out between them or at any later time (`late`, `LateStart`). The environment `env`,
chosen at the start, says which functions are called, which flags
may fail to come, and whether the task is `prompt`: never held up for the time of a byte.
`i2c_write` of no bytes waits for a BTF that need not come, so it is called only where
BTF may fail.

## Runs

| Run | Result | What it shows |
|---|---|---|
| `kernel_mutex` | pass | a low task and two equals above it on one mutex: queue integrity, mutual exclusion, truthful results, inheritance, the scheduler's choice, first come first served among equals, and the owner gets the CPU while one of the highest tasks waits, although another task above it hogs the CPU |
| `kernel_nested` | pass | two tasks nest two mutexes in any order and use a semaphore: nobody waits for what is free, lent priorities end with ownership, an owner runs below its waiters only for one of two reasons, and deadlines end the deadlock |
| `kernel_starvation` | **violated** | equals around a higher periodic task do not share the CPU |
| `queue_contention` | pass | two writers and a reader, wrap-around and overwriting, at a lock that blocks them or, its queue being full, fails: an exclusive ring, no lost token, ring and tokens agree, still a FIFO |
| `queue_newest` | **violated** | a send may lose its own message |
| `radar_reads` | pass | a distance belongs to its own ping if echoes end before the timeout; `ULTRASONIC_NO_ECHO` means none came; the kernel survives releases from a handler between any two accesses of the tick; reads go on for ever |
| `radar_late_echo` | **violated** | an echo after the timeout spoils later reads |
| `radar_timeout_race` | **violated** | a token handed over during the tick that times the reader out is lost |
| `app` | pass | the application: the sweep never blocks in its send, the serial line is never contended, the servo never jumps, angles are logged in order, once, and from the last 8 (here 2), the radar goes on for ever |
| `boot_switch` | pass | the self-test passes, the launch finds an initial state of `Kernel`, numbers are printed right, every task gets its own context back, the halted board names the culprit, the boot ends |
| `i2c_bus` | pass | a prompt task passes the bus on clean from call to call and gets exact bytes; in any environment no START is set into a STOP or a transfer, and every call ends |
| `i2c_read_reg` | **violated** | `i2c_read_reg` does not read a register, though slave and bus are in order |

The violated runs are disagreements between the code and its own comments:

1. *Round robin* (`os_kernel.c:79`): the scan starts after the task that ran last. If
   that is a higher task placed between two equals in the table, each switch back
   finds the same equal first, and the other starves.
2. *Overwrite the oldest* (`os_queue.c:20`): when the reader drains the queue
   between the failed `os_semaphore_acquire` and the lock, the "oldest entry" the
   sender skips is its own message.
3. *Drop half-finished captures* (`ultrasonic.c:48`): the falling edge that is still
   to come is not dropped.
4. *Handed over or timed out* (`os_task.h:30`): the tick handler masks nothing and TIM2
   is above it. A release between the tick's test of `wait_queue` (`os_kernel.c:153`) and its store of
   `OS_TIMEOUT` (`os_kernel.c:157`) passes the token to a task that is then told it timed out; the echo is lost and, if
   `*wait_count` is loaded late, the count is decremented twice. If the release comes
   between the load and the store of `sleep_time`, a stale deadline stays on a task that
   is READY; the tick that ends it only sets READY again, and so does no harm.
5. *Register reads* (`i2c.h:18`, "Write a register address then read len bytes back
   (repeated start)", and `i2c.c:104`): `i2c_read_reg` keeps the bus and calls `i2c_read`,
   which first waits for the bus to become free. With `RegSent` going straight to the START
   instead, `RegisterRead` holds.

`ExactBytes` is claimed only for a task that is never held up for the time of a byte. If
`i2c_read` is preempted for that long between clearing ADDR (or reading the last byte but
one) and turning ACK off, the last byte is acknowledged and the slave sends one more,
whatever the comment at `i2c.c:82` intends.

### Bounds

Three tasks and idle are the smallest set with an owner, a waiter and a hog, or
with an owner and two waiters of one priority; two tasks and idle suffice for nested deadlock and
for a queue's two sides. Timeouts are 1 or 2 ticks and "for ever" (`WAIT_FOREVER`
is the value 9): a timeout of 1 expires at the next tick, 2 also exercises the
countdown, and longer ones only add ticks that change nothing else. Queues have one
or two slots and up to four messages, so that the ring fills, wraps and is
overwritten; a wait queue of one entry (`queue_contention`) is the
shortest that both takes a waiter and refuses one. In `kernel_mutex` it has two,
the fewest that are enough for three tasks and idle. The counter starts anywhere, so TIM2
wraps at every point of a pulse (`CounterSize` 5 with echoes up to 2, 7 with up to 4). In `app`
every delay is one tick, which allows every order of the two tasks that the real
periods allow and more; the servo moves in steps of 90 degrees, the queue has two slots
and four angles are sent, so that homing, the turns at both ends of the sweep and overwriting
are all reached. A step that does not divide 180 is cut short at an end;
`ServoSound` is proved for every step up to 90 degrees and covers that. In `boot_switch` three stacks of seven words (an odd size,
so that the rounding of the top matters) hold a frame of four and one or two words more,
and a task pushes up to three: it overflows by up to two words, over its own canary into
its neighbour's first word. Cycle counts are chosen so that differences wrap, are zero
and have one to four digits, in words of 1024. Three bytes are a first, a middle and a last one. Symmetry is not used: task
indices are ordered by the scan, and several runs check liveness.

### Fairness

`TickSpec`: the hardware goes on: what the kernel's handlers can do they do, and
ticks keep coming. `CpuSpec` adds that the core is in thread mode again and again (a
tick's handler and PendSV take microseconds of the millisecond), and `FairSpec` that a task
that gets the CPU again and again finishes the call it is in. `SysFairSpec` is `FairSpec` for the application,
whose radar task also leaves its own code; the echo need not come. `BootFairSpec` only
says that `main` goes on; `BootEnds` asks nothing of a board that is reset for ever. Tasks are never assumed to make calls, and a
task in its own code may run for ever. The queue, radar and I2C specifications assume
the same of the calls they model; the I2C hardware completes what it began, but for a
START whose call gave up, which need not come out.

## Proofs

`KernelProofs` proves, for any number of tasks, objects, priorities and timeouts that
satisfy `KernelAssumption` (idle has the lowest priority, initial counts do not exceed
the maximum, there are no more tasks than table entries):

| Theorem | Statement |
|---|---|
| `TypeCorrect` | `Spec => []TypeOK` |
| `QueuesSound` | queue integrity |
| `WakeSound` | blocked tasks, and only they, will be woken |
| `ReleaseSound` | no one waits for what is free |
| `MutexSound` | mutual exclusion |
| `ResultSound` | the result of an acquire is the truth |
| `BoostSound` | lent priorities end with ownership |
| `SchedulerSound`, `SwitchSound` | who executes is RUNNING; an undisturbed switch picks the highest |
| `OrderSound` | waiting tasks never change places |
| `FairHandoff` | a release never passes over a longer waiter of the same or a higher priority |
| `DeadlineSound` | a deadline comes nearer with each pass of the tick, and nothing postpones or loses it |

The invariants are not inductive by themselves. `IInv` adds: a locked mutex has an
owner; a task in an acquire waits for the object it called with, or for nothing; no
task waits for a mutex it owns; idle is always runnable (so the scan finds someone);
`best` is runnable; and `best` dominates the part of the table already scanned, unless
a tick has pended another switch, which is what makes an interruptible scan correct.
`RemoveShape` says what `wait_queue_remove` leaves of a queue, and `RemoveKeeps` and
`BlockKeeps` carry integrity through it; every action has a lemma of its own.
`FairHandoff` rests on `PickedFirst`: `wait_queue_pick_highest` returns the earliest of
the highest, so only a timeout, which does not report success, can wake a later one.
`DeadlineSound` needs `IInv` as well: the task that calls is RUNNING and has no deadline
to overwrite, and `best`, which a switch makes RUNNING, is never a blocked task.

`InheritanceProofs` adds `NInv` (an owner is a task that holds the mutex or is about
to be told so; without nesting it owns one and waits for none; it has the priority of
all its waiters) and proves `InheritanceSound` for `Nested = FALSE`, and, by the
pigeonhole principle, `QueuesNeverFull` for `MAX_WAITING_TASKS >= NTasks - 1`, which
the code's 5 and 6 satisfy. `GapsSound` is about nested mutexes: it needs `IInv` and, of
every step, which owners and priorities it changes.

`QueueProofs` proves `QueueUsesKernel`, that the queue's specification implies the
kernel's, so everything above holds under it, and `RingSound`, that the ring is never
touched by two tasks. Its invariant ties the position in the queue call to the kernel
call and the mutex held.

`QueueFifoProofs` proves, for any capacity, any number of readers and writers and any
timeouts, `QueueTypes`, `TokensSound`, `RingTokensSound` and the refinement,
`FifoSound`: `QSpec => QueueIsLossyFifo`. The invariant `TInv` adds to the conserved
tokens: who has a token to give back has one; a reader does not get as far as the lock
without; every send has a message of its own; and tail and unread messages add up to
the head, or to the head and one turn of the ring (`RingSpans`), which is
`RingMatchesTokens` without a remainder, as the arithmetic of a wrapping index needs. A
token on its way to a woken task counts for that task from the moment it is handed
over, so every step is *calm* (no sum, no index as the calls under way will leave it and no
entry changes) but the write and the read of an entry, and only these two are steps of
`LossyFifo`.

`I2CProofs` proves `StartSound`, `ReleaseOfBusSound`, `BytesSound` and
`RegisterReadsFail` for any environment of the driver (`BusReleased` speaks of the calls that succeed or that
no slave answers, `ExactBytes` of those in which the task is prompt too;
`RegisterReadsFail` says that `i2c_read_reg` of one byte or more returns `I2C_ERROR` every
time). `BusInv` adds which flags of the peripheral go with
which place in the driver, and who holds the bus.

`BootProofs` proves, for any number of tasks, size of stacks and depth of overflow that
`ContextAssumption` allows (a stack has room for a frame and its canary; no push leaves
the memory of the model):

| Theorem | Statement |
|---|---|
| `ContextSound` | the task that runs has its own registers, stack pointer and words |
| `CulpritSound` | the halted board names the task that overflowed |
| `BootSound` | `os_kernel_launch` finds an initial state of `Kernel` |
| `NumbersSound` | every number is printed as its decimal representation, inside the buffer |
| `PostPasses` | the self-test never stops in `fail()` |

The invariant of the first two is `StackInv`. Its idea: as long as the canary of the
current task is in place, all other tasks are parked (canary, words and both frames are
where their stack pointer says), and a lost canary lies below one the current task has
lost too. It is kept because words go onto a stack without a gap (`WritesAbove`): a
write cannot reach the neighbour without going over the canary first, with a word that
is no canary (`Clean`), and pushing a canary back is impossible. `Layout` is the
arithmetic of the addresses, with the rounding of the top to 8 bytes. `BootSound` rests
on `LaunchInv`: what every object and TCB holds at each place of `main()`, and that the
calls of `os_scheduler` in the benchmark leave exactly one task RUNNING, one of the
highest priority (`Elected`, since the scan visits every slot).

`NumbersSound` is about words of any size and any buffer that has room for their digits
(`BootAssumption`: `WordSize <= Pow10[DigitsMax]`; the code has 10 digits for a
`uint32_t`). Its invariant `PrintInv` knows what was left of the number after each digit
stored (`Trail`), and that what is left, times the power of ten of the digits stored, is
at most the number, so there is room for the next digit (`RoomForDigit`). `DecimalIs` is
what the recursive function `Decimal` computes for the digits sent in reverse. The library's
induction theorems take a predicate, which the provers cannot instantiate;
`SetInduction` is induction for a set of naturals, derived from the library's theorem
that every non-empty set of naturals has a least element.

`PostPasses` rests on `PostInv`: the mutex, the semaphore and the queue before each of the
27 calls of the self-test. The locals may hold anything before they are initialised, and
the queue of a test is any ring with the messages *a* + 1 to *b* in the slots they belong
in (`Holds`), which a send and a receive preserve, the sends into a full queue too. That
the second acquire returns `OS_FAIL` needs `StackInv`: no task is current before the
launch.

`SentinelProofs` proves, for any periods and timeouts, any step of the sweep up to 90
degrees, any capacity of `sweep_queue` and any tasks beside the two:

| Theorem | Statement |
|---|---|
| `ServoSound` | two pulses in a row are at most one step of the sweep apart |
| `SweepSound` | the sweep never blocks in `os_queue_send` |
| `UartSound` | `uart_lock` is free when a task wants it |
| `FreshSound` | the radar gets angles in order, each once, and recent ones |

The kernel's invariant `IInv` holds under the application too; the post of `echo_ready`
from the handler is the one step `Kernel` does not have, and `IsrReleaseKeeps` covers it.
`SysInv` adds `RadarFirst`: while the radar owns the queue's lock it can run, and the
sweep, which has a lower priority and nothing lent to it then, does not execute but for the
`os_yield` of the release that handed the lock over. So a sweep that asks for the lock finds
it free, although it asks with `WAIT_FOREVER`. `Homed` says that nothing was sent before
the sweep has printed its line, so the radar has nothing to log and `uart_lock` one user.
`ServoInv` is that the pulse is the one of an angle at most a step away from the variable
`angle`. `FreshInv` describes the ring: with *u* unread angles of *w* written, tail and *u*
add up to the head or to the head and a turn, the entries before the head are the last ones
written, and the radar has got none of the unread ones. Every angle sent is written, since
the sweep always gets the lock; a write without a slot moves the tail as well, so *u* stays
and the oldest angle is given up (or, when the queue was drained meanwhile, the new one: see
`queue_newest`). The radar reads entry *w - u + 1*.

`UltrasonicProofs` proves, for any timeout, period and size of the counter, any number of
tasks and any position of the radar task among them, under two hypotheses of the theorems:
the longest echo is shorter than the timeout of the read (`MaxEcho < ReadTimeout`) and that
timeout is not `WAIT_FOREVER`:

| Theorem | Statement |
|---|---|
| `PingSound` | a distance is that of the echo to its own trigger |
| `NoEchoSound` | `ULTRASONIC_NO_ECHO` means that none came back |
| `IsrSound` | the wait queues survive a release between any two accesses of the tick |
| `IsrSwitchSound` | an undisturbed switch picks the highest, whomever the handler wakes |
| `TimeoutSound` | who was handed the token is never told `OS_TIMEOUT` |

The first hypothesis is about the sensor, and needed: `radar_late_echo` and
`radar_timeout_race` violate `DistanceIsOfThisPing` and `TimeoutOnlyWhileWaiting` without it. With `WAIT_FOREVER`, which
`radar_task` does not pass, there is no deadline to speak of. `RadarInv` has the stages
of an echo (`NoSound`, `Armed`, `High`, `Fallen`, `Posted`) against the steps of
`ultrasonic_read_cm`. Its core is `InTime`: while a pulse is on its way, a waiting radar
task has at least `ReadTimeout - age` ticks left, one more if the tick has begun and not
yet counted for it. So the value the tick loads is at least 2 until the handler
has posted the token, and the tick never gets as far as the queue while the handler can
still come; if the handler comes between the load and the store, the store leaves a stale
deadline, which `SleepInv` allows exactly until the next rest. `TickInv` says that what an
access of the tick relies on is still true at the next. `Spans` ties the captured times to
the length of the pulse, without a remainder; `ElapsedIsSpan` is the unsigned subtraction.

Only model-checked: the liveness properties `DeadlineEndsWait`, `OwnerGetsCpu`,
`ReadsGoOn`, `CallsEnd`, `RadarGoesOn` and `BootEnds`, since the prover knows no fairness.
`DeadlineSound` and `PostPasses` are the safety part of `DeadlineEndsWait` and `BootEnds`:
a deadline can only run down, and the boot has no dead end in the self-test.

## Not modelled

* GPIO, SPI and ADC: writes of bit fields and one spin on a flag without a timeout for
  each transfer. No state is shared between two actors, and a model would repeat the
  assignments. The same goes for `uart_init` and `pwm_init`.
* The vector table and the linker script, which fix addresses; of the startup code only
  what `Reset_Handler` leaves in memory.
* `bench_ping_task` and `bench_pong_task`, which are clients of `Kernel` like any other.
* Stack frames that jump over the canary: stacks grow word by word in `Context`. A large
  frame whose low end is never written passes the tripwire unnoticed in the code as well.
* Calls of `os_mutex_release` by a task that does not hold the mutex, a misuse the code
  does not detect. `SUSPENDED`, a state no code sets. `os_ticks`, which nothing reads.
