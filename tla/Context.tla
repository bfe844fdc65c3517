------------------------------ MODULE Context ------------------------------
(***************************************************************************)
(* The stacks of the tasks and the context switch, word by word: the frame *)
(* that os_task_create builds, os_start_first_task, PendSV_Handler and the *)
(* canary that os_scheduler looks at (Kernel/os_kernel_asm.s and the stack *)
(* part of Kernel/os_kernel.c).  Which task os_scheduler chooses is module *)
(* Kernel's business; here it is any.                                      *)
(*                                                                         *)
(* The frames are scaled down: one word stands for R0-R3, R12 and LR, one  *)
(* for R4-R11.  The stacks are neighbours in memory, and a task may push   *)
(* more than its stack holds.                                              *)
(***************************************************************************)
EXTENDS Integers, Sequences

CONSTANTS
  NTasks,
  Lowest,      \* the address of the lowest stack, in words
  StackWords,  \* the size of every stack
  MaxDepth,    \* bound: the words a task has on its stack
  NULL

Tasks == 0 .. NTasks - 1

SW == 1         \* the software frame: R4-R11
HW == 3         \* the hardware frame: R0-R3, R12 and LR; PC; xPSR

stackBase(t) == Lowest + t * StackWords
Memory == 0 .. Lowest + NTasks * StackWords - 1

\* A task starts with room for its first frame, and no push of the model leaves
\* its memory.
ASSUME ContextAssumption ==
  /\ NTasks \in Nat \ {0} /\ NULL \notin Tasks
  /\ StackWords \in Nat /\ StackWords > HW + SW + 1
  /\ Lowest \in Nat /\ MaxDepth \in Nat
  /\ Lowest + StackWords >= MaxDepth + HW + SW + 1

\* The contents of words: what a task keeps in its registers and on its stack is
\* told apart by the task and by the place the word belongs in.
Word(t, place) == 10 * (t + 1) + place
Entry(t) == Word(t, 4)
Datum(t) == Word(t, 5)
THUMB            == 1   \* an xPSR with the Thumb bit
STACK_CANARY     == 2
JUNK             == 3   \* what a handler leaves in R0-R3

\* The registers of a task that has got somewhere.
Registers(t) ==
  [low |-> Word(t, 1), high |-> Word(t, 2), pc |-> Word(t, 3), psr |-> THUMB]

VARIABLES
  mem,          \* the memory of the stacks and the words below them
  stackPtr,     \* of every TCB
  current_tcb,
  psp, regs,    \* the process stack pointer and the registers of the core
  mode,         \* "main", "thread", "stacked" (in a handler), "saved" and
                \* "chosen" (in PendSV, before and after os_scheduler), "halted"
  own           \* what each task thinks it has: its registers and its stack

contextVars == <<mem, stackPtr, current_tcb, psp, regs, mode, own>>

-----------------------------------------------------------------------------
(* os_task_create.                                                         *)

\* The end of the stack, rounded down to 8 bytes.
stackTop(t) == ((stackBase(t) + StackWords) \div 2) * 2

\* The canary and the frame of os_task_init_stack.
CreateStack(t) ==
  /\ mem' = [mem EXCEPT ![stackBase(t)] = STACK_CANARY,
                        ![stackTop(t) - 1] = THUMB,
                        ![stackTop(t) - 2] = Entry(t),
                        ![stackTop(t) - 3] = 0,
                        ![stackTop(t) - 4] = 0]
  /\ stackPtr' = [stackPtr EXCEPT ![t] = stackTop(t) - HW - SW]
  /\ own' = [own EXCEPT ![t] =
               [regs |-> [low |-> 0, high |-> 0, pc |-> Entry(t), psr |-> THUMB],
                stack |-> <<>>]]
  /\ UNCHANGED <<psp, regs, mode>>

-----------------------------------------------------------------------------
\* os_start_first_task: the entry point is loaded from the frame, the frame is
\* skipped, the task starts with the registers of main().
StartFirstTask ==
  /\ mode = "main"
  /\ LET p == stackPtr[current_tcb] IN
     /\ regs' = [regs EXCEPT !.pc = mem[p + SW + HW - 2]]
     /\ psp' = p + SW + HW
  /\ own' = [own EXCEPT ![current_tcb].regs =
               [low |-> regs.low, high |-> regs.high, pc |-> Entry(current_tcb),
                psr |-> THUMB]]
  /\ mode' = "thread"
  /\ UNCHANGED <<mem, stackPtr, current_tcb>>

-----------------------------------------------------------------------------
(* A task: it computes, pushes and pops.                                   *)

Compute ==
  /\ mode = "thread" /\ regs # Registers(current_tcb)
  /\ regs' = Registers(current_tcb)
  /\ own' = [own EXCEPT ![current_tcb].regs = Registers(current_tcb)]
  /\ UNCHANGED <<mem, stackPtr, current_tcb, psp, mode>>

Push ==
  /\ mode = "thread" /\ Len(own[current_tcb].stack) < MaxDepth
  /\ psp' = psp - 1
  /\ mem' = [mem EXCEPT ![psp - 1] = Datum(current_tcb)]
  /\ own' = [own EXCEPT ![current_tcb].stack = Append(@, Datum(current_tcb))]
  /\ UNCHANGED <<stackPtr, current_tcb, regs, mode>>

Pop ==
  /\ mode = "thread" /\ own[current_tcb].stack # <<>>
  /\ psp' = psp + 1
  /\ own' = [own EXCEPT ![current_tcb].stack = SubSeq(@, 1, Len(@) - 1)]
  /\ UNCHANGED <<mem, stackPtr, current_tcb, regs, mode>>

-----------------------------------------------------------------------------
(* Exceptions.  The core stacks and unstacks the hardware frame on the     *)
(* PSP; handlers run on the MSP and may leave anything in R0-R3.           *)

Exception ==
  /\ mode = "thread"
  /\ mem' = [mem EXCEPT ![psp - 1] = regs.psr, ![psp - 2] = regs.pc,
                        ![psp - 3] = regs.low]
  /\ psp' = psp - HW
  /\ regs' = [regs EXCEPT !.low = JUNK, !.pc = 0]
  /\ mode' = "stacked"
  /\ UNCHANGED <<stackPtr, current_tcb, own>>

\* The registers after an exception return that finds R4-R11 restored to high
\* and unstacks from p.
Unstacked(p, high) ==
  [low |-> mem[p], high |-> high, pc |-> mem[p + 1], psr |-> mem[p + 2]]

\* A handler that switches nothing.
ExceptionReturn ==
  /\ mode = "stacked"
  /\ regs' = Unstacked(psp, regs.high)
  /\ psp' = psp + HW
  /\ mode' = "thread"
  /\ UNCHANGED <<mem, stackPtr, current_tcb, own>>

\* Mutant: the stack pointer is stored before R4-R11 are pushed.
SaveContext_Early ==
  /\ mode = "stacked"
  /\ mem' = [mem EXCEPT ![psp - SW] = regs.high]
  /\ stackPtr' = [stackPtr EXCEPT ![current_tcb] = psp]
  /\ mode' = "saved"
  /\ UNCHANGED <<current_tcb, psp, regs, own>>

\* PendSV_Handler, part 1: R4-R11 go onto the stack of the outgoing task.
SaveContext ==
  /\ mode = "stacked"
  /\ mem' = [mem EXCEPT ![psp - SW] = regs.high]
  /\ stackPtr' = [stackPtr EXCEPT ![current_tcb] = psp - SW]
  /\ mode' = "saved"
  /\ UNCHANGED <<current_tcb, psp, regs, own>>

\* Mutant: the canary is looked for one word below the stack.
CanaryIntact_OffByOne == mem[stackBase(current_tcb) - 1] \in {0, STACK_CANARY}

\* Is the canary of the outgoing task in place?
CanaryIntact == mem[stackBase(current_tcb)] = STACK_CANARY

\* os_scheduler: os_stack_overflow_hook never returns.
ChooseTask(t) ==
  /\ mode = "saved" /\ CanaryIntact
  /\ current_tcb' = t
  /\ mode' = "chosen"
  /\ UNCHANGED <<mem, stackPtr, psp, regs, own>>

OverflowHook ==
  /\ mode = "saved" /\ ~CanaryIntact
  /\ mode' = "halted"
  /\ UNCHANGED <<mem, stackPtr, current_tcb, psp, regs, own>>

\* PendSV_Handler, part 3, and the exception return into the incoming task.
RestoreContext ==
  /\ mode = "chosen"
  /\ LET p == stackPtr[current_tcb] IN
     /\ regs' = Unstacked(p + SW, mem[p])
     /\ psp' = p + SW + HW
  /\ mode' = "thread"
  /\ UNCHANGED <<mem, stackPtr, current_tcb, own>>

Switch ==
  SaveContext \/ (\E t \in Tasks : ChooseTask(t)) \/ OverflowHook \/ RestoreContext

ContextStep ==
  \/ Compute \/ Push \/ Pop
  \/ Exception \/ ExceptionReturn \/ Switch
=============================================================================
