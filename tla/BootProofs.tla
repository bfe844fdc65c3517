----------------------------- MODULE BootProofs -----------------------------
(***************************************************************************)
(* The context switch and the boot, for every number of tasks, every size  *)
(* of the stacks and every depth to which they overflow.                   *)
(***************************************************************************)
EXTENDS BootProps, WellFoundedInduction, TLAPS

-----------------------------------------------------------------------------
(* The inductive invariant of the stacks.                                  *)

\* No register and no datum looks like a canary.
Clean == Nat \ {STACK_CANARY}
RegisterSet == [low : Clean, high : Clean, pc : Clean, psr : Clean]

Depth(t) == Len(own[t].stack)

\* What t has been told it has is of the right form.
OwnType(t) ==
  /\ own[t] \in [regs : RegisterSet, stack : Seq(Nat)]
  /\ Depth(t) <= MaxDepth
  /\ \A i \in 1 .. Depth(t) : own[t].stack[i] = Datum(t)

Intact(t) == mem[stackBase(t)] = STACK_CANARY

\* The words t has pushed are where it pushed them.
Pushed(t) == \A i \in 1 .. Depth(t) : mem[stackTop(t) - i] = Datum(t)

\* The hardware frame of t is at p, and the software frame below it.
HardFrame(t, p) ==
  /\ mem[p] = own[t].regs.low /\ mem[p + 1] = own[t].regs.pc
  /\ mem[p + 2] = own[t].regs.psr
Framed(t) ==
  /\ stackPtr[t] = stackTop(t) - Depth(t) - HW - SW
  /\ mem[stackPtr[t]] = own[t].regs.high
  /\ HardFrame(t, stackPtr[t] + SW)

\* A task that waits for PendSV to bring it back.
Parked(t) ==
  /\ Intact(t) /\ Pushed(t) /\ Framed(t)
  /\ stackPtr[t] > stackBase(t)

\* As long as the current task keeps to its stack the others are safe, and what
\* it destroys when it does not lies below.
OthersSafe ==
  /\ Intact(current_tcb) => \A t \in Tasks \ {current_tcb} : Parked(t)
  /\ \A t \in Tasks : ~Intact(t) => ~Intact(current_tcb) /\ t <= current_tcb

\* The current task on its way through PendSV; a frame that reached below the
\* stack has gone over the canary.
CurrentSafe ==
  LET c == current_tcb
      sp == stackTop(c) - Depth(c)
  IN /\ mode = "thread" => regs = own[c].regs /\ psp = sp /\ Pushed(c)
     /\ mode = "stacked" =>
          /\ psp = sp - HW /\ regs.high = own[c].regs.high
          /\ HardFrame(c, psp) /\ Pushed(c)
          /\ Intact(c) => psp > stackBase(c)
     /\ mode = "saved" =>
          /\ Framed(c) /\ Pushed(c)
          /\ Intact(c) => stackPtr[c] > stackBase(c)
     /\ mode = "chosen" => Parked(c)

\* The tasks run.
RunningInv ==
  mode # "main" =>
    /\ current_tcb \in Tasks
    /\ \A t \in Tasks : OwnType(t)
    /\ OthersSafe /\ CurrentSafe

Benching == {"mutex", "semaphore", "queue", "scheduler", "print", "launch"}

\* main() runs: the tasks created so far can be started.
MainInv ==
  mode = "main" =>
    /\ regs = MainRegs
    /\ at \in {"init", "post"} => task_count = 0 /\ current_tcb = NULL
    /\ at \in {"create"} \cup Benching =>
         /\ \A t \in 0 .. task_count - 1 :
              Parked(t) /\ OwnType(t) /\ Depth(t) = 0 /\ own[t].regs.pc = Entry(t)
         /\ task_count = 0 => current_tcb = NULL
         /\ task_count > 0 => current_tcb \in Tasks

StackInv ==
  /\ mem \in [Memory -> Nat] /\ stackPtr \in [Tasks -> Int]
  /\ DOMAIN own = Tasks
  /\ psp \in Int /\ regs \in RegisterSet
  /\ mode \in {"main", "thread", "stacked", "saved", "chosen", "halted"}
  /\ task_count \in 0 .. NTasks
  /\ mode # "main" => at = "launch" /\ kernel_running
  /\ at = "print" => line \in DOMAIN Benches
  /\ at \in {"reset", "init", "post", "fail", "create"} \cup Benching
  /\ at \in Benching => task_count = NTasks
  /\ MainInv /\ RunningInv

-----------------------------------------------------------------------------
(* The layout of the stacks.                                               *)

\* Multiples of the size of a stack are at least that far apart.
LEMMA Multiples == \A size, t, u \in Nat : t < u => t * size + size <= u * size
<1> TAKE size, t, u \in Nat
<1> HAVE t < u
<1>1. u - t - 1 \in Nat /\ (u - t - 1) * size \in Nat
  OBVIOUS
<1>2. u * size = t * size + size + (u - t - 1) * size
  OBVIOUS
<1>3. t * size \in Nat /\ u * size \in Nat
  OBVIOUS
<1> QED BY <1>1, <1>2, <1>3

\* Rounding down to 8 bytes costs at most one word.
LEMMA Rounding == \A x \in Nat : (x \div 2) * 2 \in Nat /\ (x \div 2) * 2 \in x - 1 .. x
OBVIOUS

\* The stacks lie in the memory, one above the other, each with room for its
\* canary and a frame; a full stack and its frames do not reach below address 0.
LEMMA Layout ==
  /\ \A t \in Tasks :
       /\ t \in Nat
       /\ stackBase(t) \in Nat /\ stackBase(t) \in Memory /\ stackTop(t) \in Nat
       /\ stackTop(t) > stackBase(t) + HW + SW
       /\ \A d \in 1 .. MaxDepth + HW + SW : stackTop(t) - d \in Memory
  /\ \A t, u \in Tasks : t < u => stackTop(t) <= stackBase(u)
<1>0. /\ NTasks \in Nat \ {0} /\ StackWords \in Nat /\ StackWords > 5
      /\ Lowest \in Nat /\ MaxDepth \in Nat /\ Lowest + StackWords >= MaxDepth + 5
  BY ContextAssumption DEF HW, SW
<1>1. ASSUME NEW t \in Tasks
      PROVE  /\ t \in Nat /\ t < NTasks /\ t * StackWords \in Nat
             /\ stackBase(t) = Lowest + t * StackWords
             /\ stackTop(t) \in Nat /\ stackTop(t) <= stackBase(t) + StackWords
             /\ stackTop(t) >= stackBase(t) + StackWords - 1
             /\ t * StackWords + StackWords <= NTasks * StackWords
             /\ NTasks * StackWords \in Nat
  <2>1. t \in Nat /\ t < NTasks /\ t * StackWords \in Nat /\ NTasks * StackWords \in Nat
    BY <1>0 DEF Tasks
  <2>2. t * StackWords + StackWords <= NTasks * StackWords
    BY <1>0, <2>1, Multiples
  <2>3. stackBase(t) = Lowest + t * StackWords
    BY DEF stackBase
  <2>4. stackBase(t) \in Nat /\ stackBase(t) + StackWords \in Nat
    BY <1>0, <2>1, <2>3
  <2>5. /\ stackTop(t) \in Nat /\ stackTop(t) <= stackBase(t) + StackWords
        /\ stackTop(t) >= stackBase(t) + StackWords - 1
    <3>1. PICK x \in Nat : x = stackBase(t) + StackWords
      BY <2>4
    <3>2. stackTop(t) = (x \div 2) * 2
      BY <3>1 DEF stackTop
    <3>3. stackTop(t) \in Nat /\ stackTop(t) >= x - 1 /\ stackTop(t) <= x
      BY <3>2, Rounding
    <3> QED BY <1>0, <2>4, <3>1, <3>3
  <2> QED BY <2>1, <2>2, <2>3, <2>5
<1>2. ASSUME NEW t \in Tasks
      PROVE  /\ t \in Nat
             /\ stackBase(t) \in Nat /\ stackBase(t) \in Memory /\ stackTop(t) \in Nat
             /\ stackTop(t) > stackBase(t) + HW + SW
             /\ \A d \in 1 .. MaxDepth + HW + SW : stackTop(t) - d \in Memory
  <2> DEFINE k == t * StackWords
             all == NTasks * StackWords
  <2>1. /\ t \in Nat /\ k \in Nat /\ all \in Nat /\ stackBase(t) = Lowest + k
        /\ k + StackWords <= all
        /\ stackTop(t) \in Nat /\ stackTop(t) <= stackBase(t) + StackWords
        /\ stackTop(t) >= stackBase(t) + StackWords - 1
    BY <1>1
  <2>2. Memory = 0 .. Lowest + all - 1
    BY DEF Memory
  <2> HIDE DEF k, all
  <2> QED BY <1>0, <2>1, <2>2 DEF HW, SW
<1>3. ASSUME NEW t \in Tasks, NEW u \in Tasks, t < u
      PROVE  stackTop(t) <= stackBase(u)
  <2> DEFINE k == t * StackWords
             l == u * StackWords
  <2>1. k + StackWords <= l
    BY <1>0, <1>1, <1>3, Multiples
  <2>2. /\ k \in Nat /\ l \in Nat /\ stackBase(t) = Lowest + k /\ stackBase(u) = Lowest + l
        /\ stackTop(t) \in Nat /\ stackTop(t) <= stackBase(t) + StackWords
        /\ stackTop(t) >= stackBase(t) + StackWords - 1
    BY <1>1
  <2> HIDE DEF k, l
  <2> QED BY <1>0, <2>1, <2>2
<1> QED BY <1>2, <1>3

\* Words are not canaries.
LEMMA WordsClean ==
  \A t \in Tasks : Entry(t) \in Clean /\ Datum(t) \in Clean /\ Registers(t) \in RegisterSet
<1>1. \A t \in Tasks : t \in Nat
  BY Layout
<1> QED BY <1>1 DEF Entry, Datum, Registers, RegisterSet, Word, Clean, THUMB, STACK_CANARY

\* main() starts the first task with registers that are no canaries.
LEMMA MainRegsClean == MainRegs \in RegisterSet
BY DEF MainRegs, RegisterSet, Clean, THUMB, STACK_CANARY

-----------------------------------------------------------------------------
(* What a write of the current task does to the others.                    *)

\* A parked task whose part of the memory, stack pointer and state stay.
LEMMA ParkedFrame ==
  ASSUME NEW t \in Tasks, OwnType(t), Parked(t),
         own'[t] = own[t], stackPtr'[t] = stackPtr[t],
         \A a \in Memory : stackBase(t) <= a /\ a < stackTop(t) => mem'[a] = mem[a]
  PROVE  Parked(t)'
<1> DEFINE b == stackBase(t)
           top == stackTop(t)
           d == Depth(t)
           p == stackPtr[t]
<1>1. /\ b \in Nat /\ top \in Nat /\ b \in Memory /\ b < top
      /\ \A i \in 1 .. MaxDepth + HW + SW : top - i \in Memory
      /\ MaxDepth \in Nat
  BY Layout, ContextAssumption DEF HW, SW
<1>2. d \in Nat /\ d <= MaxDepth /\ Depth(t)' = d
  BY DEF OwnType, Depth
<1>3. p = top - d - HW - SW /\ p > b
  BY DEF Parked, Framed
<1> HIDE DEF d, p, b, top
<1>4. \A a \in Memory : b <= a /\ a < top => mem'[a] = mem[a]
  BY DEF b, top
<1>5. \A i \in 1 .. d : mem'[top - i] = mem[top - i]
  <2> TAKE i \in 1 .. d
  <2>1. i \in 1 .. MaxDepth + HW + SW /\ b <= top - i /\ top - i < top
    BY <1>1, <1>2, <1>3 DEF HW, SW
  <2> QED BY <1>1, <1>4, <2>1
<1>6. \A i \in 0 .. 3 : mem'[p + i] = mem[p + i]
  <2> TAKE i \in 0 .. 3
  <2>1. d + 4 - i \in 1 .. MaxDepth + HW + SW /\ p + i = top - (d + 4 - i)
    BY <1>1, <1>2, <1>3 DEF HW, SW
  <2>2. p + i \in Memory /\ b <= p + i /\ p + i < top
    BY <1>1, <1>2, <1>3, <2>1 DEF HW, SW
  <2> QED BY <1>4, <2>2
<1>7. mem'[p] = mem[p] /\ mem'[p + 1] = mem[p + 1] /\ mem'[p + 2] = mem[p + 2]
      /\ mem'[p + 3] = mem[p + 3]
  <2>1. p + 0 = p /\ 0 \in 0 .. 3 /\ 1 \in 0 .. 3 /\ 2 \in 0 .. 3 /\ 3 \in 0 .. 3
    BY <1>1, <1>2, <1>3 DEF HW, SW
  <2> QED BY <1>6, <2>1
<1>8. mem'[b] = mem[b]
  BY <1>1, <1>4
<1>9. stackPtr[t] + 1 + 1 = p + 2 /\ stackPtr[t] + 1 + 2 = p + 3
  BY <1>1, <1>2, <1>3 DEF p, HW, SW
<1>10. Intact(t)' /\ Pushed(t)'
  BY <1>2, <1>5, <1>8 DEF Parked, Intact, Pushed, b, top, d
<1>11. Framed(t)'
  BY <1>2, <1>7, <1>9 DEF Parked, Framed, HardFrame, HW, SW, p, d
<1> QED BY <1>10, <1>11 DEF Parked

\* The current task writes above the stacks of the tasks before it and below
\* the top of its own; if its canary survives it has not reached the former.
LEMMA OthersStaySafe ==
  ASSUME current_tcb \in Tasks, \A t \in Tasks : OwnType(t), OthersSafe,
         current_tcb' = current_tcb,
         \A t \in Tasks \ {current_tcb} : own'[t] = own[t] /\ stackPtr'[t] = stackPtr[t],
         \A a \in Memory : a >= stackTop(current_tcb) => mem'[a] = mem[a],
         Intact(current_tcb)' =>
           /\ Intact(current_tcb)
           /\ \A a \in Memory : a <= stackBase(current_tcb) => mem'[a] = mem[a]
  PROVE  OthersSafe'
<1> DEFINE c == current_tcb
<1>0. c \in Tasks /\ c' = c
  OBVIOUS
<1>1. ASSUME NEW t \in Tasks, t # c, Intact(c)' PROVE Parked(t)'
  <2>1. Parked(t) /\ OwnType(t) /\ own'[t] = own[t] /\ stackPtr'[t] = stackPtr[t]
    BY <1>1 DEF OthersSafe
  <2>2. ASSUME NEW a \in Memory, stackBase(t) <= a, a < stackTop(t)
        PROVE  mem'[a] = mem[a]
    <3>1. a \in Nat /\ t \in Nat /\ c \in Nat
      BY Layout, ContextAssumption DEF Memory
    <3>2. CASE t < c
      <4>1. stackTop(t) <= stackBase(c) /\ stackTop(t) \in Nat /\ stackBase(c) \in Nat
        BY <3>2, Layout
      <4>2. a <= stackBase(c)
        BY <2>2, <3>1, <4>1
      <4> QED BY <1>1, <4>2
    <3>3. CASE c < t
      <4>1. stackTop(c) <= stackBase(t) /\ stackTop(c) \in Nat /\ stackBase(t) \in Nat
        BY <3>3, Layout
      <4>2. a >= stackTop(c)
        BY <2>2, <3>1, <4>1
      <4> QED BY <4>2
    <3> QED BY <1>1, <3>1, <3>2, <3>3
  <2> QED BY <2>1, <2>2, ParkedFrame
<1>2. ASSUME NEW t \in Tasks, ~Intact(t)' PROVE ~Intact(c)' /\ t <= c
  <2>0. t \in Nat /\ c \in Nat /\ stackBase(t) \in Memory
    BY Layout
  <2>1. CASE t = c
    BY <1>2, <2>0, <2>1
  <2>2. CASE t # c
    <3>1. ~Intact(c)'
      BY <1>1, <1>2, <2>2 DEF Parked
    <3>2. CASE c < t
      <4>1. stackTop(c) <= stackBase(t) /\ stackTop(c) \in Nat /\ stackBase(t) \in Nat
        BY <3>2, Layout
      <4>2. mem'[stackBase(t)] = mem[stackBase(t)]
        BY <2>0, <4>1
      <4>3. ~Intact(t)
        BY <1>2, <4>2 DEF Intact
      <4> QED BY <2>0, <3>2, <4>3 DEF OthersSafe
    <3> QED BY <2>0, <3>1, <3>2
  <2> QED BY <2>1, <2>2
<1> QED BY <1>0, <1>1, <1>2 DEF OthersSafe

-----------------------------------------------------------------------------
(* The steps of the tasks and of PendSV.                                   *)

\* Where the current task stands.
LEMMA Here ==
  ASSUME StackInv, mode # "main"
  PROVE  /\ current_tcb \in Tasks
         /\ stackBase(current_tcb) \in Nat /\ stackBase(current_tcb) \in Memory
         /\ stackTop(current_tcb) \in Nat
         /\ stackTop(current_tcb) > stackBase(current_tcb) + 4
         /\ MaxDepth \in Nat
         /\ \A i \in 1 .. MaxDepth + 4 : stackTop(current_tcb) - i \in Memory
         /\ Depth(current_tcb) \in Nat /\ Depth(current_tcb) <= MaxDepth
         /\ own[current_tcb] \in [regs : RegisterSet, stack : Seq(Nat)]
         /\ \A t \in Tasks : OwnType(t)
         /\ OthersSafe /\ CurrentSafe
         /\ Memory \subseteq Nat
<1>1. /\ current_tcb \in Tasks /\ OthersSafe /\ CurrentSafe
      /\ \A t \in Tasks : OwnType(t)
  BY DEF StackInv, RunningInv
<1>2. MaxDepth \in Nat
  BY ContextAssumption
<1>3. /\ stackBase(current_tcb) \in Nat /\ stackBase(current_tcb) \in Memory
      /\ stackTop(current_tcb) \in Nat
      /\ stackTop(current_tcb) > stackBase(current_tcb) + 4
      /\ \A i \in 1 .. MaxDepth + 4 : stackTop(current_tcb) - i \in Memory
  <2>1. HW + SW = 4 /\ MaxDepth + HW + SW = MaxDepth + 4
    BY <1>2 DEF HW, SW
  <2>2. stackBase(current_tcb) + HW + SW = stackBase(current_tcb) + 4
    BY <1>1, Layout DEF HW, SW
  <2> QED BY <1>1, <2>1, <2>2, Layout
<1>4. /\ own[current_tcb] \in [regs : RegisterSet, stack : Seq(Nat)]
      /\ Depth(current_tcb) <= MaxDepth
  BY <1>1 DEF OwnType
<1>5. Depth(current_tcb) \in Nat
  BY <1>4 DEF Depth
<1>6. Memory \subseteq Nat
  BY DEF Memory
<1> QED BY <1>1, <1>2, <1>3, <1>4, <1>5, <1>6

\* What is left to show of a step of the tasks.
LEMMA Continues ==
  ASSUME StackInv, mode # "main", UNCHANGED <<task_count, kernel_running, at>>,
         mem' \in [Memory -> Nat], stackPtr' \in [Tasks -> Int], DOMAIN own' = Tasks,
         psp' \in Int, regs' \in RegisterSet,
         mode' \in {"thread", "stacked", "saved", "chosen", "halted"},
         current_tcb' \in Tasks, \A t \in Tasks : OwnType(t)', OthersSafe', CurrentSafe'
  PROVE  StackInv'
<1>1. MainInv'
  BY DEF MainInv
<1>2. RunningInv'
  BY DEF RunningInv
<1>3. at' = "launch" /\ kernel_running'
  BY DEF StackInv
<1> QED BY <1>1, <1>2, <1>3 DEF StackInv, Benching

\* Words go onto the stack of the current task without a gap: when the canary is
\* there afterwards, all of them lie above it.
LEMMA WritesAbove ==
  ASSUME current_tcb \in Tasks, current_tcb' = current_tcb,
         NEW sp \in Int, NEW n \in Nat,
         mem \in [Memory -> Nat], mem' \in [Memory -> Nat],
         stackBase(current_tcb) >= sp => ~Intact(current_tcb),
         \A a \in Memory : (a < sp - n \/ a >= sp) => mem'[a] = mem[a],
         \A a \in Memory : sp - n <= a /\ a < sp => mem'[a] \in Clean,
         Intact(current_tcb)'
  PROVE  /\ Intact(current_tcb) /\ sp - n > stackBase(current_tcb)
         /\ \A a \in Memory : a <= stackBase(current_tcb) => mem'[a] = mem[a]
<1> DEFINE b == stackBase(current_tcb)
<1>1. b \in Nat /\ b \in Memory /\ Memory \subseteq Nat
  BY Layout DEF Memory
<1>2. mem'[b] = STACK_CANARY
  BY DEF Intact
<1>3. b < sp
  <2> SUFFICES ASSUME b >= sp PROVE FALSE
    BY <1>1
  <2>1. mem'[b] = mem[b]
    BY <1>1
  <2> QED BY <1>2, <2>1 DEF Intact
<1>4. b < sp - n
  <2> SUFFICES ASSUME b >= sp - n PROVE FALSE
    BY <1>1
  <2>1. mem'[b] \in Clean
    BY <1>1, <1>3
  <2> QED BY <1>2, <2>1 DEF Clean
<1>5. \A a \in Memory : a <= b => mem'[a] = mem[a]
  BY <1>1, <1>4
<1>6. Intact(current_tcb)
  BY <1>1, <1>2, <1>5 DEF Intact
<1> QED BY <1>1, <1>4, <1>5, <1>6

\* A task that has pushed down to its canary has lost it.
LEMMA PushedOver ==
  ASSUME NEW t \in Tasks, OwnType(t), Pushed(t), stackBase(t) >= stackTop(t) - Depth(t)
  PROVE  ~Intact(t)
<1> DEFINE i == stackTop(t) - stackBase(t)
<1>1. stackBase(t) \in Nat /\ stackTop(t) \in Nat /\ stackTop(t) > stackBase(t) + 4
  BY Layout DEF HW, SW
<1>2. Depth(t) \in Nat
  BY DEF OwnType, Depth
<1>3. i \in 1 .. Depth(t) /\ stackTop(t) - i = stackBase(t)
  BY <1>1, <1>2
<1>4. mem[stackBase(t)] = Datum(t)
  BY <1>3 DEF Pushed
<1> QED BY <1>4, WordsClean DEF Clean, Intact

\* A task that computes keeps the invariant: only its registers change.
LEMMA ComputeStep ==
  ASSUME StackInv, Compute, UNCHANGED <<task_count, kernel_running, at>> PROVE StackInv'
<1> DEFINE c == current_tcb
<1>0. mode = "thread"
  BY DEF Compute
<1>1. /\ c \in Tasks /\ Depth(c) \in Nat /\ OthersSafe /\ CurrentSafe
      /\ \A t \in Tasks : OwnType(t)
      /\ own[c] \in [regs : RegisterSet, stack : Seq(Nat)] /\ DOMAIN own = Tasks
  BY <1>0, Here DEF StackInv
<1>2. /\ mem' = mem /\ stackPtr' = stackPtr /\ c' = c /\ psp' = psp /\ mode' = mode
      /\ regs' = Registers(c) /\ Registers(c) \in RegisterSet
      /\ own' = [own EXCEPT ![c] = [own[c] EXCEPT !.regs = Registers(c)]]
  BY <1>1, WordsClean DEF Compute
<1>3. /\ DOMAIN own' = Tasks /\ \A t \in Tasks \ {c} : own'[t] = own[t]
      /\ own'[c] \in [regs : RegisterSet, stack : Seq(Nat)]
      /\ own'[c].regs = Registers(c) /\ own'[c].stack = own[c].stack
  BY <1>1, <1>2
<1>4. \A t \in Tasks : OwnType(t)'
  BY <1>1, <1>3, SMTT(30) DEF OwnType, Depth
<1>5. OthersSafe'
  BY <1>1, <1>2, <1>3, OthersStaySafe DEF Intact
<1>6. CurrentSafe'
  BY <1>0, <1>1, <1>2, <1>3 DEF CurrentSafe, Pushed, Depth
<1> QED BY <1>0, <1>1, <1>2, <1>3, <1>4, <1>5, <1>6, Continues DEF StackInv

\* The elements of a sequence with one more.
LEMMA Appended ==
  ASSUME NEW sq \in Seq(Nat), NEW x \in Nat
  PROVE  \A i \in 1 .. Len(sq) + 1 : Append(sq, x)[i] = IF i <= Len(sq) THEN sq[i] ELSE x
OBVIOUS

\* A push, of a full stack too: it goes over the canary before it reaches a
\* neighbour.
LEMMA PushStep ==
  ASSUME StackInv, Push, UNCHANGED <<task_count, kernel_running, at>> PROVE StackInv'
<1> DEFINE c == current_tcb
           top == stackTop(c)
           d == Depth(c)
           sp == top - d
           D == Datum(c)
<1>0. mode = "thread"
  BY DEF Push
<1>1. /\ c \in Tasks /\ OthersSafe /\ CurrentSafe
      /\ \A t \in Tasks : OwnType(t)
      /\ own[c] \in [regs : RegisterSet, stack : Seq(Nat)] /\ DOMAIN own = Tasks
      /\ mem \in [Memory -> Nat] /\ regs \in RegisterSet /\ stackPtr \in [Tasks -> Int]
  BY <1>0, Here DEF StackInv
<1>2. /\ d \in Nat /\ d < MaxDepth /\ top \in Nat /\ MaxDepth \in Nat
      /\ \A i \in 1 .. MaxDepth + 4 : top - i \in Memory
      /\ Memory \subseteq Nat /\ stackBase(c) \in Nat
  BY <1>0, Here DEF Push, Depth
<1>3. psp = sp /\ regs = own[c].regs /\ Pushed(c)
  BY <1>0, <1>1 DEF CurrentSafe
<1>4. sp \in Int /\ sp - 1 = top - (d + 1) /\ sp - 1 \in Memory /\ sp - 1 < top
  BY <1>2
<1>5. /\ stackPtr' = stackPtr /\ c' = c /\ psp' = sp - 1 /\ mode' = mode /\ regs' = regs
      /\ mem' = [mem EXCEPT ![sp - 1] = D] /\ D \in Clean
      /\ own' = [own EXCEPT ![c] = [own[c] EXCEPT !.stack = Append(own[c].stack, D)]]
  BY <1>1, <1>3, WordsClean DEF Push
<1>6. D \in Nat /\ Append(own[c].stack, D) \in Seq(Nat)
  <2>1. D \in Nat
    BY <1>5 DEF Clean
  <2>2. own[c].stack \in Seq(Nat)
    BY <1>1
  <2> QED BY <2>1, <2>2
<1>7. /\ DOMAIN own' = Tasks /\ \A t \in Tasks \ {c} : own'[t] = own[t]
      /\ own'[c] \in [regs : RegisterSet, stack : Seq(Nat)]
      /\ own'[c].regs = own[c].regs /\ own'[c].stack = Append(own[c].stack, D)
  BY <1>1, <1>5, <1>6
<1>8. Depth(c)' = d + 1
  BY <1>1, <1>5, <1>6, <1>7 DEF Depth
<1>9. OwnType(c)'
  <2>1. \A i \in 1 .. d : own[c].stack[i] = D
    BY <1>1 DEF OwnType
  <2>2. \A i \in 1 .. d + 1 : own'[c].stack[i] = D
    <3> TAKE i \in 1 .. d + 1
    <3>0. D \in Nat
      BY <1>6
    <3>1. own[c].stack \in Seq(Nat) /\ d = Len(own[c].stack)
      BY <1>1 DEF Depth
    <3>2. Append(own[c].stack, D)[i] = IF i <= d THEN own[c].stack[i] ELSE D
      BY <3>0, <3>1, Appended
    <3>3. i <= d => i \in 1 .. d
      BY <1>2
    <3> QED BY <1>7, <2>1, <3>2, <3>3
  <2>3. d + 1 <= MaxDepth
    BY <1>2
  <2> QED BY <1>5, <1>7, <1>8, <2>2, <2>3 DEF OwnType, Depth
<1>10. \A t \in Tasks : OwnType(t)'
  BY <1>1, <1>5, <1>7, <1>9 DEF OwnType, Depth
<1> HIDE DEF top, d, D, sp
<1>11. /\ mem' \in [Memory -> Nat] /\ mem'[sp - 1] = D
       /\ \A a \in Memory : a # sp - 1 => mem'[a] = mem[a]
  BY <1>1, <1>4, <1>5, <1>6
<1>12. stackBase(c) >= sp => ~Intact(c)
  BY <1>1, <1>3, PushedOver DEF sp, top, d
<1>13. \A a \in Memory : (a < sp - 1 \/ a >= sp) => mem'[a] = mem[a]
  BY <1>2, <1>4, <1>11
<1>14. \A a \in Memory : sp - 1 <= a /\ a < sp => mem'[a] \in Clean
  <2> SUFFICES ASSUME NEW a \in Memory, sp - 1 <= a, a < sp PROVE mem'[a] \in Clean
    OBVIOUS
  <2>1. a = sp - 1
    BY <1>2, <1>4
  <2> QED BY <1>5, <1>11, <2>1
<1>15. OthersSafe'
  <2>1. \A a \in Memory : a >= stackTop(c) => mem'[a] = mem[a]
    BY <1>2, <1>4, <1>13 DEF top, sp
  <2>2. Intact(c)' => Intact(c) /\ \A a \in Memory : a <= stackBase(c) => mem'[a] = mem[a]
    <3> HAVE Intact(c)'
    <3>1. 1 \in Nat
      OBVIOUS
    <3> QED BY <1>1, <1>4, <1>5, <1>11, <1>12, <1>13, <1>14, <3>1, WritesAbove
  <2> QED BY <1>1, <1>5, <1>7, <2>1, <2>2, OthersStaySafe
<1>16. \A i \in 1 .. d + 1 : mem'[top - i] = D
  <2> TAKE i \in 1 .. d + 1
  <2>1. CASE i <= d
    <3>1. top - i \in Memory /\ top - i # sp - 1 /\ i \in 1 .. d
      BY <1>2, <1>4, <2>1
    <3>2. mem[top - i] = D
      BY <1>3, <3>1 DEF Pushed, top, d, D
    <3> QED BY <1>11, <3>1, <3>2
  <2>2. CASE i = d + 1
    BY <1>4, <1>11, <2>2
  <2> QED BY <1>2, <2>1, <2>2
<1>17. Pushed(c)'
  BY <1>5, <1>8, <1>16 DEF Pushed, top, D, d
<1>18. CurrentSafe'
  <2>1. psp' = stackTop(c) - Depth(c)'
    BY <1>2, <1>5, <1>8 DEF sp, top
  <2> QED BY <1>0, <1>3, <1>5, <1>7, <1>17, <2>1 DEF CurrentSafe
<1>19. psp' \in Int
  BY <1>4, <1>5
<1> QED BY <1>0, <1>1, <1>5, <1>7, <1>10, <1>11, <1>15, <1>18, <1>19, Continues

\* A sequence without its last element.
LEMMA Shortened ==
  ASSUME NEW sq \in Seq(Nat), sq # <<>>
  PROVE  /\ SubSeq(sq, 1, Len(sq) - 1) \in Seq(Nat)
         /\ Len(SubSeq(sq, 1, Len(sq) - 1)) = Len(sq) - 1
         /\ \A i \in 1 .. Len(sq) - 1 : SubSeq(sq, 1, Len(sq) - 1)[i] = sq[i]
<1>1. Len(sq) \in Nat /\ Len(sq) > 0
  OBVIOUS
<1>2. SubSeq(sq, 1, Len(sq) - 1) \in Seq(Nat)
  BY <1>1
<1>3. Len(SubSeq(sq, 1, Len(sq) - 1)) = Len(sq) - 1
  <2>1. PICK k \in Nat : k = Len(sq) - 1
    BY <1>1
  <2>2. Len(SubSeq(sq, 1, k)) = k
    BY <1>1, <2>1
  <2> QED BY <2>1, <2>2
<1>4. \A i \in 1 .. Len(sq) - 1 : SubSeq(sq, 1, Len(sq) - 1)[i] = sq[i]
  BY <1>1
<1> QED BY <1>2, <1>3, <1>4

\* A pop leaves the words that remain where they are.
LEMMA PopStep ==
  ASSUME StackInv, Pop, UNCHANGED <<task_count, kernel_running, at>> PROVE StackInv'
<1> DEFINE c == current_tcb
           d == Depth(c)
           st == own[c].stack
<1>0. mode = "thread"
  BY DEF Pop
<1>1. /\ c \in Tasks /\ OthersSafe /\ CurrentSafe
      /\ \A t \in Tasks : OwnType(t)
      /\ own[c] \in [regs : RegisterSet, stack : Seq(Nat)] /\ DOMAIN own = Tasks
      /\ mem \in [Memory -> Nat] /\ regs \in RegisterSet /\ stackPtr \in [Tasks -> Int]
  BY <1>0, Here DEF StackInv
<1>2. d \in Nat /\ d <= MaxDepth /\ stackTop(c) \in Nat /\ MaxDepth \in Nat
  BY <1>0, Here
<1>3. psp = stackTop(c) - d /\ regs = own[c].regs /\ Pushed(c)
  BY <1>0, <1>1 DEF CurrentSafe
<1>4. st \in Seq(Nat) /\ st # <<>> /\ d = Len(st) /\ d > 0
  BY <1>1, <1>2 DEF Pop, Depth
<1>5. /\ mem' = mem /\ stackPtr' = stackPtr /\ c' = c /\ mode' = mode /\ regs' = regs
      /\ psp' = psp + 1
      /\ own' = [own EXCEPT ![c] = [own[c] EXCEPT !.stack = SubSeq(st, 1, Len(st) - 1)]]
  BY <1>1 DEF Pop
<1>6. /\ SubSeq(st, 1, Len(st) - 1) \in Seq(Nat) /\ Len(SubSeq(st, 1, Len(st) - 1)) = d - 1
      /\ \A i \in 1 .. d - 1 : SubSeq(st, 1, Len(st) - 1)[i] = st[i]
  <2>1. st \in Seq(Nat) /\ st # <<>> /\ d = Len(st)
    BY <1>4
  <2> HIDE DEF st, d
  <2> QED BY <2>1, Shortened
<1>7. /\ DOMAIN own' = Tasks /\ \A t \in Tasks \ {c} : own'[t] = own[t]
      /\ own'[c] \in [regs : RegisterSet, stack : Seq(Nat)]
      /\ own'[c].regs = own[c].regs /\ own'[c].stack = SubSeq(st, 1, Len(st) - 1)
  BY <1>1, <1>5, <1>6
<1>8. Depth(c)' = d - 1
  BY <1>5, <1>6, <1>7 DEF Depth
<1>9. OwnType(c)'
  <2>1. \A i \in 1 .. d : st[i] = Datum(c)
    BY <1>1 DEF OwnType
  <2>2. \A i \in 1 .. d - 1 : own'[c].stack[i] = Datum(c)
    BY <1>2, <1>6, <1>7, <2>1
  <2>3. d - 1 <= MaxDepth
    BY <1>2
  <2> QED BY <1>5, <1>7, <1>8, <2>2, <2>3 DEF OwnType, Depth
<1>10. \A t \in Tasks : OwnType(t)'
  BY <1>1, <1>5, <1>7, <1>9, SMTT(30) DEF OwnType, Depth
<1>11. OthersSafe'
  BY <1>1, <1>5, <1>7, OthersStaySafe DEF Intact
<1>12. Pushed(c)'
  <2>1. \A i \in 1 .. d - 1 : i \in 1 .. d
    BY <1>2
  <2> QED BY <1>3, <1>5, <1>8, <2>1 DEF Pushed
<1>13. CurrentSafe'
  <2>1. psp' = stackTop(c) - Depth(c)'
    BY <1>2, <1>3, <1>5, <1>8
  <2> QED BY <1>0, <1>3, <1>5, <1>7, <1>12, <2>1 DEF CurrentSafe
<1>14. psp' \in Int
  BY <1>2, <1>3, <1>5
<1> QED BY <1>0, <1>1, <1>5, <1>7, <1>10, <1>11, <1>13, <1>14, Continues

\* Three words of the memory are written.
LEMMA ThreeWords ==
  ASSUME mem \in [Memory -> Nat],
         NEW a1 \in Memory, NEW a2 \in Memory, NEW a3 \in Memory,
         a1 # a2, a1 # a3, a2 # a3,
         NEW v1 \in Nat, NEW v2 \in Nat, NEW v3 \in Nat,
         mem' = [mem EXCEPT ![a1] = v1, ![a2] = v2, ![a3] = v3]
  PROVE  /\ mem' \in [Memory -> Nat]
         /\ mem'[a1] = v1 /\ mem'[a2] = v2 /\ mem'[a3] = v3
         /\ \A a \in Memory : a \notin {a1, a2, a3} => mem'[a] = mem[a]
OBVIOUS

\* The core stacks a hardware frame, which may go over the canary as a push may.
LEMMA ExceptionStep ==
  ASSUME StackInv, Exception, UNCHANGED <<task_count, kernel_running, at>> PROVE StackInv'
<1> DEFINE c == current_tcb
           top == stackTop(c)
           d == Depth(c)
           sp == top - d
<1>0. mode = "thread"
  BY DEF Exception
<1>1. /\ c \in Tasks /\ OthersSafe /\ CurrentSafe
      /\ \A t \in Tasks : OwnType(t)
      /\ own[c] \in [regs : RegisterSet, stack : Seq(Nat)] /\ DOMAIN own = Tasks
      /\ mem \in [Memory -> Nat] /\ regs \in RegisterSet /\ stackPtr \in [Tasks -> Int]
  BY <1>0, Here DEF StackInv
<1>2. /\ d \in Nat /\ d <= MaxDepth /\ top \in Nat /\ MaxDepth \in Nat
      /\ \A i \in 1 .. MaxDepth + 4 : top - i \in Memory
      /\ Memory \subseteq Nat /\ stackBase(c) \in Nat
  BY <1>0, Here
<1>3. psp = sp /\ regs = own[c].regs /\ Pushed(c)
  BY <1>0, <1>1 DEF CurrentSafe
<1>4. /\ regs.low \in Clean /\ regs.high \in Clean /\ regs.pc \in Clean /\ regs.psr \in Clean
      /\ Clean \subseteq Nat
  BY <1>1 DEF RegisterSet, Clean
<1>5. /\ stackPtr' = stackPtr /\ c' = c /\ psp' = sp - 3 /\ mode' = "stacked" /\ own' = own
      /\ regs' = [regs EXCEPT !.low = JUNK, !.pc = 0]
      /\ mem' = [mem EXCEPT ![sp - 1] = regs.psr, ![sp - 2] = regs.pc, ![sp - 3] = regs.low]
  BY <1>3 DEF Exception, HW
<1>6. regs' \in RegisterSet /\ regs'.high = own[c].regs.high
  <2>1. regs' = [low |-> JUNK, high |-> regs.high, pc |-> 0, psr |-> regs.psr]
    BY <1>1, <1>5 DEF RegisterSet
  <2>2. JUNK \in Clean /\ 0 \in Clean
    BY DEF Clean, JUNK, STACK_CANARY
  <2> QED BY <1>3, <1>4, <2>1, <2>2 DEF RegisterSet
<1> HIDE DEF top, d, sp
<1>7. /\ sp \in Int /\ sp <= top
      /\ sp - 1 \in Memory /\ sp - 2 \in Memory /\ sp - 3 \in Memory
  <2>1. /\ d + 1 \in 1 .. MaxDepth + 4 /\ d + 2 \in 1 .. MaxDepth + 4
        /\ d + 3 \in 1 .. MaxDepth + 4
        /\ sp - 1 = top - (d + 1) /\ sp - 2 = top - (d + 2) /\ sp - 3 = top - (d + 3)
    BY <1>2 DEF sp
  <2>2. sp \in Int /\ sp <= top
    BY <1>2 DEF sp
  <2> QED BY <1>2, <2>1, <2>2
<1>8. /\ mem' \in [Memory -> Nat]
      /\ mem'[sp - 1] = regs.psr /\ mem'[sp - 2] = regs.pc /\ mem'[sp - 3] = regs.low
      /\ \A a \in Memory : a \notin {sp - 1, sp - 2, sp - 3} => mem'[a] = mem[a]
  <2>1. sp - 1 # sp - 2 /\ sp - 1 # sp - 3 /\ sp - 2 # sp - 3
    BY <1>7
  <2>2. regs.psr \in Nat /\ regs.pc \in Nat /\ regs.low \in Nat
    BY <1>4
  <2> QED BY <1>1, <1>5, <1>7, <2>1, <2>2, ThreeWords, ZenonT(60)
<1>9. \A a \in Memory : (a < sp - 3 \/ a >= sp) => mem'[a] = mem[a]
  BY <1>2, <1>7, <1>8
<1>10. \A a \in Memory : sp - 3 <= a /\ a < sp => mem'[a] \in Clean
  <2> SUFFICES ASSUME NEW a \in Memory, sp - 3 <= a, a < sp PROVE mem'[a] \in Clean
    OBVIOUS
  <2>1. a = sp - 1 \/ a = sp - 2 \/ a = sp - 3
    BY <1>2, <1>7
  <2> QED BY <1>4, <1>8, <2>1
<1>11. stackBase(c) >= sp => ~Intact(c)
  BY <1>1, <1>3, PushedOver DEF sp, top, d
<1>12. Intact(c)' =>
         /\ Intact(c) /\ sp - 3 > stackBase(c)
         /\ \A a \in Memory : a <= stackBase(c) => mem'[a] = mem[a]
  <2> HAVE Intact(c)'
  <2>1. 3 \in Nat
    OBVIOUS
  <2> QED BY <1>1, <1>5, <1>7, <1>8, <1>9, <1>10, <1>11, <2>1, WritesAbove
<1>13. OthersSafe'
  <2>1. \A a \in Memory : a >= stackTop(c) => mem'[a] = mem[a]
    BY <1>2, <1>7, <1>9 DEF top
  <2> QED BY <1>1, <1>5, <1>12, <2>1, OthersStaySafe
<1>14. Pushed(c)'
  <2>1. ASSUME NEW i \in 1 .. d PROVE mem'[top - i] = Datum(c)
    <3>1. top - i \in Memory /\ top - i >= sp
      BY <1>2 DEF sp
    <3> QED BY <1>3, <1>9, <3>1 DEF Pushed, top, d
  <2> QED BY <1>5, <2>1 DEF Pushed, Depth, top, d
<1>15. HardFrame(c, psp)'
  <2>1. sp - 3 + 1 = sp - 2 /\ sp - 3 + 2 = sp - 1
    BY <1>7
  <2> QED BY <1>3, <1>5, <1>8, <2>1 DEF HardFrame
<1>16. CurrentSafe'
  <2>1. psp' = stackTop(c) - Depth(c)' - HW /\ Depth(c)' = Depth(c)
    BY <1>5 DEF Depth, sp, top, d, HW
  <2> QED BY <1>5, <1>6, <1>12, <1>14, <1>15, <2>1 DEF CurrentSafe
<1>17. psp' \in Int
  BY <1>5, <1>7
<1>18. \A t \in Tasks : OwnType(t)'
  BY <1>1, <1>5 DEF OwnType, Depth
<1> QED BY <1>0, <1>1, <1>5, <1>6, <1>8, <1>13, <1>16, <1>17, <1>18, Continues

\* What is unstacked from a frame of the current task are its registers.
LEMMA FrameUnstacked ==
  ASSUME NEW t \in Tasks, OwnType(t), NEW p, HardFrame(t, p)
  PROVE  Unstacked(p, own[t].regs.high) = own[t].regs
<1>1. own[t].regs \in [low : Clean, high : Clean, pc : Clean, psr : Clean]
  BY DEF OwnType, RegisterSet
<1> QED BY <1>1 DEF Unstacked, HardFrame

\* A handler that switches nothing returns to the frame it found.
LEMMA ReturnStep ==
  ASSUME StackInv, ExceptionReturn, UNCHANGED <<task_count, kernel_running, at>> PROVE StackInv'
<1> DEFINE c == current_tcb
<1>0. mode = "stacked"
  BY DEF ExceptionReturn
<1>1. /\ c \in Tasks /\ OthersSafe /\ CurrentSafe
      /\ \A t \in Tasks : OwnType(t)
      /\ mem \in [Memory -> Nat] /\ stackPtr \in [Tasks -> Int] /\ DOMAIN own = Tasks
      /\ stackTop(c) \in Nat /\ Depth(c) \in Nat
      /\ own[c] \in [regs : RegisterSet, stack : Seq(Nat)]
  BY <1>0, Here DEF StackInv
<1>2. /\ psp = stackTop(c) - Depth(c) - HW /\ regs.high = own[c].regs.high
      /\ HardFrame(c, psp) /\ Pushed(c)
  BY <1>0, <1>1 DEF CurrentSafe
<1>3. /\ mem' = mem /\ stackPtr' = stackPtr /\ c' = c /\ own' = own /\ mode' = "thread"
      /\ regs' = own[c].regs /\ regs' \in RegisterSet
      /\ psp' = stackTop(c) - Depth(c) /\ psp' \in Int
  BY <1>1, <1>2, FrameUnstacked DEF ExceptionReturn, HW
<1>4. \A t \in Tasks : OwnType(t)'
  BY <1>1, <1>3 DEF OwnType, Depth
<1>5. OthersSafe'
  BY <1>1, <1>3, OthersStaySafe DEF Intact
<1>6. CurrentSafe'
  BY <1>2, <1>3 DEF CurrentSafe, Pushed, Depth
<1> QED BY <1>0, <1>1, <1>3, <1>4, <1>5, <1>6, Continues

\* PendSV_Handler pushes R4-R11 and stores the stack pointer below them.
LEMMA SaveStep ==
  ASSUME StackInv, SaveContext, UNCHANGED <<task_count, kernel_running, at>> PROVE StackInv'
<1> DEFINE c == current_tcb
           top == stackTop(c)
           d == Depth(c)
           h == regs.high
<1>0. mode = "stacked"
  BY DEF SaveContext
<1>1. /\ c \in Tasks /\ OthersSafe /\ CurrentSafe
      /\ \A t \in Tasks : OwnType(t)
      /\ own[c] \in [regs : RegisterSet, stack : Seq(Nat)] /\ DOMAIN own = Tasks
      /\ mem \in [Memory -> Nat] /\ regs \in RegisterSet /\ stackPtr \in [Tasks -> Int]
  BY <1>0, Here DEF StackInv
<1>2. /\ d \in Nat /\ d <= MaxDepth /\ top \in Nat /\ MaxDepth \in Nat
      /\ \A i \in 1 .. MaxDepth + 4 : top - i \in Memory
      /\ Memory \subseteq Nat /\ stackBase(c) \in Nat
  BY <1>0, Here
<1>3. /\ psp = top - d - HW /\ h = own[c].regs.high /\ HardFrame(c, psp) /\ Pushed(c)
      /\ Intact(c) => psp > stackBase(c)
  BY <1>0, <1>1 DEF CurrentSafe
<1>4. h \in Clean /\ h \in Nat
  BY <1>1 DEF RegisterSet, Clean
<1>5. /\ c' = c /\ psp' = psp /\ mode' = "saved" /\ own' = own /\ regs' = regs
      /\ stackPtr' = [stackPtr EXCEPT ![c] = psp - 1]
      /\ mem' = [mem EXCEPT ![psp - 1] = h]
  BY DEF SaveContext, SW
<1> HIDE DEF top, d, h
<1>6. /\ psp \in Int /\ psp <= top /\ psp - 1 = top - (d + 4)
      /\ psp = top - (d + 3) /\ psp + 1 = top - (d + 2) /\ psp + 2 = top - (d + 1)
  BY <1>2, <1>3 DEF HW
<1>7. psp - 1 \in Memory /\ psp \in Memory /\ psp + 1 \in Memory /\ psp + 2 \in Memory
  <2>1. /\ d + 4 \in 1 .. MaxDepth + 4 /\ d + 3 \in 1 .. MaxDepth + 4
        /\ d + 2 \in 1 .. MaxDepth + 4 /\ d + 1 \in 1 .. MaxDepth + 4
    BY <1>2
  <2> QED BY <1>2, <1>6, <2>1
<1>8. /\ mem' \in [Memory -> Nat] /\ mem'[psp - 1] = h
      /\ \A a \in Memory : a # psp - 1 => mem'[a] = mem[a]
      /\ stackPtr' \in [Tasks -> Int] /\ stackPtr'[c] = psp - 1
      /\ \A t \in Tasks \ {c} : stackPtr'[t] = stackPtr[t]
  <2>1. psp - 1 \in Int
    BY <1>6
  <2> QED BY <1>1, <1>4, <1>5, <1>7, <2>1
<1>9. \A a \in Memory : (a < psp - 1 \/ a >= psp) => mem'[a] = mem[a]
  BY <1>2, <1>6, <1>8
<1>10. \A a \in Memory : psp - 1 <= a /\ a < psp => mem'[a] \in Clean
  <2> SUFFICES ASSUME NEW a \in Memory, psp - 1 <= a, a < psp PROVE mem'[a] \in Clean
    OBVIOUS
  <2>1. a = psp - 1
    BY <1>2, <1>6
  <2> QED BY <1>4, <1>8, <2>1
<1>11. stackBase(c) >= psp => ~Intact(c)
  BY <1>2, <1>3, <1>6
<1>12. Intact(c)' =>
         /\ Intact(c) /\ psp - 1 > stackBase(c)
         /\ \A a \in Memory : a <= stackBase(c) => mem'[a] = mem[a]
  <2> HAVE Intact(c)'
  <2>1. 1 \in Nat
    OBVIOUS
  <2> QED BY <1>1, <1>5, <1>6, <1>8, <1>9, <1>10, <1>11, <2>1, WritesAbove
<1>13. OthersSafe'
  <2>0. psp \in Int /\ top \in Nat /\ psp <= top /\ Memory \subseteq Nat
    BY <1>2, <1>6
  <2>1. \A a \in Memory : a >= stackTop(c) => mem'[a] = mem[a]
    BY <1>9, <2>0 DEF top
  <2> QED BY <1>1, <1>5, <1>8, <1>12, <2>1, OthersStaySafe
<1>14. Pushed(c)'
  <2>1. ASSUME NEW i \in 1 .. d PROVE mem'[top - i] = Datum(c)
    <3>1. i \in 1 .. MaxDepth + 4 /\ top - i >= psp
      BY <1>2, <1>6
    <3> QED BY <1>2, <1>3, <1>9, <3>1 DEF Pushed, top, d
  <2> QED BY <1>5, <2>1 DEF Pushed, Depth, top, d
<1>15. Framed(c)'
  <2>1. psp >= psp /\ psp + 1 >= psp /\ psp + 2 >= psp
    BY <1>6
  <2>2. mem'[psp] = mem[psp] /\ mem'[psp + 1] = mem[psp + 1] /\ mem'[psp + 2] = mem[psp + 2]
    BY <1>7, <1>9, <2>1
  <2>3. HardFrame(c, psp)'
    BY <1>3, <1>5, <2>2 DEF HardFrame
  <2>4. /\ stackPtr'[c] + SW = psp /\ stackPtr'[c] = top - d - HW - SW
        /\ Depth(c)' = d
    BY <1>2, <1>5, <1>6, <1>8 DEF SW, HW, Depth, d
  <2>5. mem'[stackPtr'[c]] = own'[c].regs.high
    BY <1>3, <1>5, <1>8
  <2> QED BY <1>5, <2>3, <2>4, <2>5 DEF Framed, HardFrame, top
<1>16. CurrentSafe'
  BY <1>5, <1>8, <1>12, <1>14, <1>15 DEF CurrentSafe
<1>17. \A t \in Tasks : OwnType(t)'
  BY <1>1, <1>5 DEF OwnType, Depth
<1>18. psp' \in Int /\ regs' \in RegisterSet
  BY <1>1, <1>5, <1>6
<1> QED BY <1>0, <1>1, <1>5, <1>8, <1>13, <1>16, <1>17, <1>18, Continues

\* os_scheduler lets another task run only when all canaries are in place.
LEMMA ChooseStep ==
  ASSUME StackInv, NEW u \in Tasks, ChooseTask(u), UNCHANGED <<task_count, kernel_running, at>>
  PROVE  StackInv'
<1> DEFINE c == current_tcb
<1>0. mode = "saved" /\ Intact(c)
  BY DEF ChooseTask, CanaryIntact, Intact
<1>1. /\ c \in Tasks /\ OthersSafe /\ CurrentSafe
      /\ \A t \in Tasks : OwnType(t)
      /\ mem \in [Memory -> Nat] /\ stackPtr \in [Tasks -> Int] /\ DOMAIN own = Tasks
      /\ regs \in RegisterSet /\ psp \in Int
  BY <1>0, Here DEF StackInv
<1>2. /\ mem' = mem /\ stackPtr' = stackPtr /\ psp' = psp /\ regs' = regs /\ own' = own
      /\ current_tcb' = u /\ mode' = "chosen"
  BY DEF ChooseTask
<1>3. \A t \in Tasks : Parked(t)
  BY <1>0, <1>1 DEF OthersSafe, CurrentSafe, Parked
<1>4. \A t \in Tasks : Parked(t)' /\ Intact(t)' /\ OwnType(t)'
  BY <1>1, <1>2, <1>3 DEF Parked, Intact, Pushed, Framed, HardFrame, OwnType, Depth
<1>5. OthersSafe' /\ CurrentSafe'
  BY <1>2, <1>4 DEF OthersSafe, CurrentSafe
<1> QED BY <1>0, <1>1, <1>2, <1>4, <1>5, Continues

\* The overflow hook halts the board as it is.
LEMMA HookStep ==
  ASSUME StackInv, OverflowHook, UNCHANGED <<task_count, kernel_running, at>> PROVE StackInv'
<1> DEFINE c == current_tcb
<1>0. mode = "saved"
  BY DEF OverflowHook
<1>1. /\ c \in Tasks /\ OthersSafe
      /\ \A t \in Tasks : OwnType(t)
      /\ mem \in [Memory -> Nat] /\ stackPtr \in [Tasks -> Int] /\ DOMAIN own = Tasks
      /\ regs \in RegisterSet /\ psp \in Int
  BY <1>0, Here DEF StackInv
<1>2. /\ mem' = mem /\ stackPtr' = stackPtr /\ psp' = psp /\ regs' = regs /\ own' = own
      /\ c' = c /\ mode' = "halted"
  BY DEF OverflowHook
<1>3. \A t \in Tasks : OwnType(t)'
  BY <1>1, <1>2 DEF OwnType, Depth
<1>4. OthersSafe' /\ CurrentSafe'
  BY <1>1, <1>2, OthersStaySafe DEF CurrentSafe, Intact
<1> QED BY <1>0, <1>1, <1>2, <1>3, <1>4, Continues

\* PendSV_Handler finds the frame of the incoming task where it was left.
LEMMA RestoreStep ==
  ASSUME StackInv, RestoreContext, UNCHANGED <<task_count, kernel_running, at>> PROVE StackInv'
<1> DEFINE c == current_tcb
<1>0. mode = "chosen"
  BY DEF RestoreContext
<1>1. /\ c \in Tasks /\ OthersSafe /\ CurrentSafe
      /\ \A t \in Tasks : OwnType(t)
      /\ mem \in [Memory -> Nat] /\ stackPtr \in [Tasks -> Int] /\ DOMAIN own = Tasks
      /\ stackTop(c) \in Nat /\ Depth(c) \in Nat
      /\ own[c] \in [regs : RegisterSet, stack : Seq(Nat)]
  BY <1>0, Here DEF StackInv
<1>2. Parked(c)
  BY <1>0, <1>1 DEF CurrentSafe
<1>3. /\ stackPtr[c] = stackTop(c) - Depth(c) - HW - SW
      /\ mem[stackPtr[c]] = own[c].regs.high /\ HardFrame(c, stackPtr[c] + SW) /\ Pushed(c)
  BY <1>2 DEF Parked, Framed
<1>4. /\ mem' = mem /\ stackPtr' = stackPtr /\ c' = c /\ own' = own /\ mode' = "thread"
      /\ regs' = own[c].regs /\ psp' = stackPtr[c] + SW + HW
  BY <1>1, <1>3, FrameUnstacked DEF RestoreContext
<1>5. psp' = stackTop(c) - Depth(c) /\ psp' \in Int /\ regs' \in RegisterSet
  BY <1>1, <1>3, <1>4 DEF HW, SW
<1>6. \A t \in Tasks : OwnType(t)'
  BY <1>1, <1>4 DEF OwnType, Depth
<1>7. OthersSafe'
  BY <1>1, <1>4, OthersStaySafe DEF Intact
<1>8. CurrentSafe'
  BY <1>3, <1>4, <1>5 DEF CurrentSafe, Pushed, Depth
<1> QED BY <1>0, <1>1, <1>4, <1>5, <1>6, <1>7, <1>8, Continues

-----------------------------------------------------------------------------
(* The steps of main().                                                    *)

\* Steps that leave the stacks and the tasks alone.
LEMMA MainQuiet ==
  ASSUME StackInv, UNCHANGED <<contextVars, task_count>>, at # "launch",
         \/ /\ at \in {"init", "post"} /\ at' \in {"post", "fail", "create"}
         \/ /\ at \in {"create"} \cup Benching
            /\ at' \in Benching /\ task_count = NTasks
            /\ at' = "print" => line' \in DOMAIN Benches
  PROVE  StackInv'
<1>1. /\ mode = "main" /\ mode' = mode /\ mem' = mem /\ stackPtr' = stackPtr /\ psp' = psp
      /\ regs' = regs /\ own' = own /\ current_tcb' = current_tcb
      /\ task_count' = task_count
  BY DEF StackInv, contextVars
<1>2. \A t : /\ Parked(t)' <=> Parked(t)
             /\ OwnType(t)' <=> OwnType(t)
             /\ Depth(t)' = Depth(t)
  BY <1>1 DEF Parked, Intact, Pushed, Framed, HardFrame, OwnType, Depth
<1>3. CASE at \in {"init", "post"} /\ at' \in {"post", "fail", "create"}
  <2>1. task_count = 0 /\ current_tcb = NULL /\ regs = MainRegs
    BY <1>1, <1>3 DEF StackInv, MainInv
  <2>2. 0 .. task_count' - 1 = {}
    BY <1>1, <2>1
  <2>3. MainInv'
    BY <1>1, <1>3, <2>1, <2>2 DEF MainInv, Benching
  <2> QED BY <1>1, <1>3, <2>3 DEF StackInv, RunningInv, Benching
<1>4. CASE /\ at \in {"create"} \cup Benching
           /\ at' \in Benching /\ task_count = NTasks
           /\ at' = "print" => line' \in DOMAIN Benches
  <2>1. MainInv'
    <3>1. /\ regs = MainRegs
          /\ \A t \in 0 .. task_count - 1 :
               Parked(t) /\ OwnType(t) /\ Depth(t) = 0 /\ own[t].regs.pc = Entry(t)
          /\ task_count = 0 => current_tcb = NULL
          /\ task_count > 0 => current_tcb \in Tasks
      BY <1>1, <1>4 DEF StackInv, MainInv
    <3>2. at' \notin {"init", "post"}
      BY <1>4 DEF Benching
    <3> QED BY <1>1, <1>2, <3>1, <3>2 DEF MainInv
  <2> QED BY <1>1, <1>4, <2>1 DEF StackInv, RunningInv, Benching
<1> QED BY <1>3, <1>4

\* The self-test and the objects of the application.
LEMMA PostSteps ==
  ASSUME StackInv, PostInit \/ PostCall \/ InitObjects PROVE StackInv'
<1>1. CASE PostInit
  <2>1. UNCHANGED <<contextVars, task_count>> /\ at = "init" /\ at' = "post"
    BY <1>1 DEF PostInit, kernelData
  <2> QED BY <2>1, MainQuiet
<1>2. CASE PostCall
  <2>1. UNCHANGED <<contextVars, task_count>> /\ at = "post" /\ at' \in {"post", "fail"}
    BY <1>2 DEF PostCall, kernelData
  <2> QED BY <2>1, MainQuiet
<1>3. CASE InitObjects
  <2>1. UNCHANGED <<contextVars, task_count>> /\ at = "post" /\ at' = "create"
    BY <1>3 DEF InitObjects
  <2> QED BY <2>1, MainQuiet
<1> QED BY <1>1, <1>2, <1>3

\* The benchmarks and the printing, but for the calls of os_scheduler.
LEMMA BenchSteps ==
  ASSUME StackInv,
         \/ BenchBegin \/ BenchPair \/ Report
         \/ StoreDigit \/ SendDigit \/ NumberNext \/ BenchNext
  PROVE  StackInv'
<1>0. /\ DOMAIN Benches = 1 .. 4 /\ Len(Benches) = 4
      /\ \A i \in 1 .. 4 : Benches[i] \in {"mutex", "semaphore", "queue", "scheduler"}
  BY DEF Benches
<1>1. CASE BenchBegin
  <2>1. UNCHANGED <<contextVars, task_count>> /\ at = "create" /\ task_count = NTasks
    BY <1>1 DEF BenchBegin, kernelData
  <2>2. at' \in Benching /\ at' # "print"
    BY <1>0, <1>1 DEF BenchBegin, BenchStart, Benching
  <2> QED BY <2>1, <2>2, MainQuiet
<1>2. CASE BenchPair
  <2>1. UNCHANGED <<contextVars, task_count, at>> /\ at \in {"mutex", "semaphore", "queue"}
    BY <1>2 DEF BenchPair, Again, kernelData
  <2>2. at \in Benching /\ task_count = NTasks
    BY <2>1 DEF StackInv, Benching
  <2> QED BY <2>1, <2>2, MainQuiet
<1>3. CASE Report
  <2>1. /\ UNCHANGED <<contextVars, task_count, line>>
        /\ line \in DOMAIN Benches /\ at = Benches[line] /\ at' = "print"
    BY <1>3 DEF Report, kernelData
  <2>2. at \in {"mutex", "semaphore", "queue", "scheduler"}
    BY <1>0, <2>1
  <2>3. at \in Benching /\ at' \in Benching /\ task_count = NTasks
    BY <2>1, <2>2 DEF StackInv, Benching
  <2> QED BY <2>1, <2>2, <2>3, MainQuiet
<1>4. CASE StoreDigit \/ SendDigit \/ NumberNext
  <2>1. UNCHANGED <<contextVars, task_count, at, line>> /\ at = "print"
    BY <1>4 DEF StoreDigit, SendDigit, NumberNext, Printed, kernelData, mainVars
  <2>2. at \in Benching /\ task_count = NTasks /\ line \in DOMAIN Benches
    BY <2>1 DEF StackInv, Benching
  <2> QED BY <2>1, <2>2, MainQuiet
<1>5. CASE BenchNext
  <2>1. UNCHANGED <<contextVars, task_count>> /\ at = "print"
    BY <1>5 DEF BenchNext, kernelData
  <2>2. at \in Benching /\ task_count = NTasks /\ line \in 1 .. 4
    BY <1>0, <2>1 DEF StackInv, Benching
  <2>3. at' \in Benching /\ at' # "print"
    <3>1. CASE line < 4
      <4>1. line + 1 \in 1 .. 4
        BY <2>2, <3>1
      <4>2. at' = Benches[line + 1]
        BY <1>0, <1>5, <3>1 DEF BenchNext, BenchStart
      <4> QED BY <1>0, <4>1, <4>2 DEF Benching
    <3>2. CASE ~(line < 4)
      BY <1>0, <1>5, <3>2 DEF BenchNext, Benching
    <3> QED BY <3>1, <3>2
  <2> QED BY <2>1, <2>2, <2>3, MainQuiet
<1> QED BY <1>1, <1>2, <1>3, <1>4, <1>5

\* os_scheduler called from main(): the current task is another one.
LEMMA ScheduleSteps ==
  ASSUME StackInv, BenchSchedule \/ Launch PROVE StackInv'
<1>1. PICK u \in Tasks : ScheduleTo(u)
  BY DEF BenchSchedule, Launch
<1>2. /\ at \in {"scheduler", "launch"} /\ at' = at /\ mode' = mode /\ mode = "main"
      /\ kernel_running' \in {kernel_running, TRUE}
  BY DEF BenchSchedule, Launch, Again, mainVars, StackInv
<1>3. /\ mem' = mem /\ stackPtr' = stackPtr /\ psp' = psp /\ regs' = regs /\ own' = own
      /\ task_count' = task_count /\ current_tcb' = u
  BY <1>1 DEF ScheduleTo
<1>4. \A t : /\ Parked(t)' <=> Parked(t)
             /\ OwnType(t)' <=> OwnType(t)
             /\ Depth(t)' = Depth(t)
  BY <1>3 DEF Parked, Intact, Pushed, Framed, HardFrame, OwnType, Depth
<1>5. /\ task_count = NTasks /\ NTasks # 0 /\ regs = MainRegs
      /\ \A t \in 0 .. task_count - 1 :
           Parked(t) /\ OwnType(t) /\ Depth(t) = 0 /\ own[t].regs.pc = Entry(t)
  BY <1>2, ContextAssumption DEF StackInv, MainInv, Benching
<1>6. MainInv'
  BY <1>2, <1>3, <1>4, <1>5 DEF MainInv
<1> QED BY <1>2, <1>3, <1>5, <1>6 DEF StackInv, RunningInv, Benching

\* The reset button, and Reset_Handler after it, whatever the memory held.
LEMMA ResetSteps ==
  ASSUME StackInv, Reset \/ Restart PROVE StackInv'
<1>1. CASE Reset
  <2>1. /\ mode = "main" /\ mode' = "main" /\ regs = MainRegs /\ regs' = regs
        /\ psp' = psp /\ at' = "init" /\ task_count' = 0 /\ current_tcb' = NULL
    BY <1>1 DEF Reset, StackInv, MainInv
  <2>2. MainInv' /\ RunningInv'
    BY <2>1 DEF MainInv, RunningInv, Benching
  <2>3. mem' \in [Memory -> Nat] /\ stackPtr' \in [Tasks -> Int] /\ DOMAIN own' = Tasks
    BY <1>1 DEF Reset
  <2>4. 0 \in 0 .. NTasks
    BY ContextAssumption
  <2> QED BY <2>1, <2>2, <2>3, <2>4 DEF StackInv, Benching
<1>2. CASE Restart
  <2>1. /\ mode' = "main" /\ regs' = MainRegs /\ psp' = 0 /\ at' = "reset"
        /\ mem' = mem /\ stackPtr' = stackPtr /\ own' = own /\ task_count' = task_count
    BY <1>2 DEF Restart, kernelData
  <2>2. MainInv' /\ RunningInv'
    BY <2>1 DEF MainInv, RunningInv, Benching
  <2> QED BY <2>1, <2>2, MainRegsClean DEF StackInv, Benching
<1> QED BY <1>1, <1>2

\* os_task_create: the stack of the new task is its own, the others keep theirs.
LEMMA CreateStep ==
  ASSUME StackInv, TaskCreate PROVE StackInv'
<1>0. PICK n \in Tasks : n = task_count
  BY ContextAssumption DEF StackInv, TaskCreate, Tasks
<1> DEFINE b == stackBase(n)
           top == stackTop(n)
           E == Entry(n)
<1>1. /\ at = "create" /\ at' = at /\ mode = "main" /\ mode' = mode /\ psp' = psp
      /\ regs' = regs /\ regs = MainRegs /\ task_count' = n + 1 /\ kernel_running' = kernel_running
  BY <1>0 DEF TaskCreate, CreateStack, mainVars, StackInv, MainInv
<1>2. /\ n \in Tasks /\ n \in Nat /\ n + 1 \in 0 .. NTasks
      /\ mem \in [Memory -> Nat] /\ stackPtr \in [Tasks -> Int] /\ DOMAIN own = Tasks
  BY <1>0, ContextAssumption DEF StackInv, TaskCreate, Tasks
<1>3. /\ \A t \in 0 .. n - 1 :
           Parked(t) /\ OwnType(t) /\ Depth(t) = 0 /\ own[t].regs.pc = Entry(t)
      /\ n = 0 => current_tcb = NULL
      /\ n > 0 => current_tcb \in Tasks
  BY <1>0, <1>1 DEF StackInv, MainInv
<1>4. /\ b \in Nat /\ b \in Memory /\ top \in Nat /\ top > b + 4
      /\ \A i \in 1 .. MaxDepth + 4 : top - i \in Memory
      /\ MaxDepth \in Nat /\ Memory \subseteq Nat
  <2>1. MaxDepth \in Nat /\ Memory \subseteq Nat
    BY ContextAssumption DEF Memory
  <2>2. b + HW + SW = b + 4 /\ MaxDepth + HW + SW = MaxDepth + 4
    BY <1>2, <2>1, Layout DEF HW, SW
  <2> QED BY <1>2, <2>1, <2>2, Layout
<1>5. E \in Clean /\ E \in Nat
  BY <1>2, WordsClean DEF Clean
<1>6. /\ mem' = [mem EXCEPT ![b] = STACK_CANARY, ![top - 1] = THUMB, ![top - 2] = E,
                            ![top - 3] = 0, ![top - 4] = 0]
      /\ stackPtr' = [stackPtr EXCEPT ![n] = top - HW - SW]
      /\ own' = [own EXCEPT ![n] =
                   [regs |-> [low |-> 0, high |-> 0, pc |-> E, psr |-> THUMB],
                    stack |-> <<>>]]
      /\ current_tcb' = IF current_tcb = NULL THEN n ELSE current_tcb
  BY <1>0 DEF TaskCreate, CreateStack
<1>7. /\ DOMAIN own' = Tasks /\ \A t \in Tasks \ {n} : own'[t] = own[t]
      /\ own'[n] = [regs |-> [low |-> 0, high |-> 0, pc |-> E, psr |-> THUMB],
                    stack |-> <<>>]
  BY <1>2, <1>6
<1> HIDE DEF b, top, E
<1>8. /\ top - HW - SW = top - 4 /\ top - 4 \in Int
      /\ stackPtr' \in [Tasks -> Int] /\ stackPtr'[n] = top - 4
      /\ \A t \in Tasks \ {n} : stackPtr'[t] = stackPtr[t]
  <2>1. top - HW - SW = top - 4 /\ top - 4 \in Int
    BY <1>4 DEF HW, SW
  <2> QED BY <1>2, <1>6, <2>1
<1>9. top - 1 \in Memory /\ top - 2 \in Memory /\ top - 3 \in Memory /\ top - 4 \in Memory
  <2>1. /\ 1 \in 1 .. MaxDepth + 4 /\ 2 \in 1 .. MaxDepth + 4
        /\ 3 \in 1 .. MaxDepth + 4 /\ 4 \in 1 .. MaxDepth + 4
    BY <1>4
  <2> QED BY <1>4, <2>1
<1>10. /\ b # top - 1 /\ b # top - 2 /\ b # top - 3 /\ b # top - 4
       /\ top - 1 # top - 2 /\ top - 1 # top - 3 /\ top - 1 # top - 4
       /\ top - 2 # top - 3 /\ top - 2 # top - 4 /\ top - 3 # top - 4
  BY <1>4
<1>11. STACK_CANARY \in Nat /\ THUMB \in Clean /\ 0 \in Clean /\ THUMB \in Nat
  BY DEF STACK_CANARY, THUMB, Clean
<1>12. /\ mem' \in [Memory -> Nat]
       /\ mem'[b] = STACK_CANARY /\ mem'[top - 1] = THUMB /\ mem'[top - 2] = E
       /\ mem'[top - 3] = 0 /\ mem'[top - 4] = 0
       /\ \A a \in Memory : a \notin {b, top - 1, top - 2, top - 3, top - 4} =>
            mem'[a] = mem[a]
  BY <1>2, <1>4, <1>5, <1>6, <1>9, <1>10, <1>11
<1>13. /\ OwnType(n)' /\ Depth(n)' = 0 /\ own'[n].regs.pc = E
  <2>1. own'[n] \in [regs : RegisterSet, stack : Seq(Nat)]
    BY <1>5, <1>7, <1>11 DEF RegisterSet
  <2>2. own'[n].stack = <<>> /\ own'[n].regs.pc = E
    BY <1>7
  <2>3. Len(own'[n].stack) = 0
    BY <2>2
  <2>4. 0 <= MaxDepth /\ \A i \in 1 .. 0 : FALSE
    BY <1>4
  <2> QED BY <2>1, <2>2, <2>3, <2>4 DEF OwnType, Depth
<1>14. Parked(n)'
  <2>1. \A i \in 1 .. 0 : FALSE
    OBVIOUS
  <2>2. Intact(n)' /\ Pushed(n)'
    BY <1>12, <1>13, <2>1 DEF Intact, Pushed, b
  <2>3. /\ own'[n].regs.low = 0 /\ own'[n].regs.high = 0 /\ own'[n].regs.psr = THUMB
    BY <1>7
  <2>4. /\ top - 4 + SW = top - 3 /\ top - 3 + 1 = top - 2 /\ top - 3 + 2 = top - 1
        /\ top - 0 - HW - SW = top - 4 /\ top - 4 > b
    BY <1>4 DEF SW, HW
  <2>5. Framed(n)'
    BY <1>8, <1>12, <1>13, <2>3, <2>4 DEF Framed, HardFrame, top
  <2> QED BY <1>8, <2>2, <2>4, <2>5 DEF Parked, b
<1>15. ASSUME NEW t \in 0 .. n - 1
       PROVE  Parked(t)' /\ OwnType(t)' /\ Depth(t)' = 0 /\ own'[t].regs.pc = Entry(t)
  <2>1. t \in Tasks /\ t # n /\ t < n /\ t \in Nat
    BY <1>2, ContextAssumption DEF Tasks
  <2>2. Parked(t) /\ OwnType(t) /\ Depth(t) = 0 /\ own[t].regs.pc = Entry(t)
    BY <1>3
  <2>3. own'[t] = own[t] /\ stackPtr'[t] = stackPtr[t]
    BY <1>7, <1>8, <2>1
  <2>4. stackTop(t) <= b /\ stackTop(t) \in Nat
    BY <1>2, <2>1, Layout DEF b
  <2>5. ASSUME NEW a \in Memory, a < stackTop(t) PROVE mem'[a] = mem[a]
    <3>1. a \notin {b, top - 1, top - 2, top - 3, top - 4}
      BY <1>4, <2>4, <2>5
    <3> QED BY <1>12, <3>1
  <2>6. Parked(t)'
    BY <2>1, <2>2, <2>3, <2>5, ParkedFrame
  <2> QED BY <2>2, <2>3, <2>6 DEF OwnType, Depth
<1>16. \A t \in 0 .. task_count' - 1 :
         Parked(t)' /\ OwnType(t)' /\ Depth(t)' = 0 /\ own'[t].regs.pc = Entry(t)
  <2> TAKE t \in 0 .. task_count' - 1
  <2>1. t \in 0 .. n - 1 \/ t = n
    BY <1>1, <1>2
  <2>2. CASE t = n
    BY <1>13, <1>14, <2>2 DEF E
  <2> QED BY <1>15, <2>1, <2>2
<1>17. current_tcb' \in Tasks /\ task_count' # 0
  BY <1>1, <1>2, <1>3, <1>6
<1>18. MainInv'
  BY <1>1, <1>16, <1>17 DEF MainInv, Benching
<1> QED BY <1>1, <1>2, <1>7, <1>8, <1>12, <1>18 DEF StackInv, RunningInv, Benching

\* os_start_first_task: the frame is skipped, only the entry point is taken from
\* it; the task starts with the registers main() had.
LEMMA FirstStep ==
  ASSUME StackInv, FirstTask PROVE StackInv'
<1>0. /\ at = "launch" /\ at' = at /\ mode = "main" /\ task_count' = task_count
      /\ task_count = NTasks /\ kernel_running' /\ NTasks \in Nat \ {0}
  BY ContextAssumption
  DEF StackInv, FirstTask, StartFirstTask, mainVars, kernelData, Benching
<1>1. PICK c \in Tasks : c = current_tcb
  BY <1>0 DEF StackInv, MainInv, Benching
<1>2. \A t \in Tasks :
        Parked(t) /\ OwnType(t) /\ Depth(t) = 0 /\ own[t].regs.pc = Entry(t)
  BY <1>0 DEF StackInv, MainInv, Benching, Tasks
<1> DEFINE p == stackPtr[c]
           start == [low |-> 0, high |-> 0, pc |-> Entry(c), psr |-> THUMB]
<1>3. /\ stackTop(c) \in Nat /\ p = stackTop(c) - 0 - HW - SW /\ HardFrame(c, p + SW)
      /\ own[c] \in [regs : RegisterSet, stack : Seq(Nat)] /\ Len(own[c].stack) = 0
      /\ own[c].regs.pc = Entry(c)
  BY <1>2, Layout DEF Parked, Framed, OwnType, Depth
<1>4. p + SW + HW - 2 = p + SW + 1 /\ p + SW + HW = stackTop(c)
  BY <1>3 DEF HW, SW
<1>5. regs = MainRegs
  BY <1>0 DEF StackInv, MainInv
<1>6. /\ mem' = mem /\ stackPtr' = stackPtr /\ current_tcb' = c /\ mode' = "thread"
      /\ psp' = stackTop(c) /\ regs' = [regs EXCEPT !.pc = Entry(c)]
      /\ own' = [own EXCEPT ![c] = [own[c] EXCEPT !.regs =
                   [low |-> regs.low, high |-> regs.high, pc |-> Entry(c), psr |-> THUMB]]]
  BY <1>1, <1>3, <1>4 DEF FirstTask, StartFirstTask, HardFrame
<1>7. /\ regs' = start
      /\ own' = [own EXCEPT ![c] = [own[c] EXCEPT !.regs = start]]
  BY <1>5, <1>6 DEF MainRegs
<1>8. start \in RegisterSet
  <2>1. Entry(c) \in Clean /\ 0 \in Clean /\ THUMB \in Clean
    BY WordsClean DEF Clean, THUMB, STACK_CANARY
  <2> QED BY <2>1 DEF RegisterSet
<1> HIDE DEF start
<1>9. /\ DOMAIN own = Tasks /\ DOMAIN own' = Tasks
      /\ \A t \in Tasks \ {c} : own'[t] = own[t]
      /\ own'[c] = [own[c] EXCEPT !.regs = start]
  BY <1>7 DEF StackInv
<1>10. /\ own'[c] \in [regs : RegisterSet, stack : Seq(Nat)]
       /\ own'[c].regs = start /\ own'[c].stack = own[c].stack
  BY <1>3, <1>8, <1>9
<1>11. \A t \in Tasks : OwnType(t)'
  BY <1>2, <1>9, <1>10 DEF OwnType, Depth
<1>12. \A t \in Tasks : Intact(t)'
  BY <1>2, <1>6 DEF Parked, Intact
<1>13. ASSUME NEW t \in Tasks \ {c} PROVE Parked(t)'
  <2>1. own'[t] = own[t] /\ stackPtr'[t] = stackPtr[t] /\ Parked(t) /\ OwnType(t) /\ t \in Tasks
    BY <1>2, <1>6, <1>9
  <2>2. \A a \in Memory : stackBase(t) <= a /\ a < stackTop(t) => mem'[a] = mem[a]
    BY <1>6
  <2> QED BY <2>1, <2>2, ParkedFrame
<1>14. OthersSafe'
  BY <1>6, <1>12, <1>13 DEF OthersSafe
<1>15. Pushed(c)' /\ Depth(c)' = 0
  <2>1. Depth(c)' = 0
    BY <1>3, <1>10 DEF Depth
  <2>2. \A i \in 1 .. 0 : FALSE
    OBVIOUS
  <2> QED BY <2>1, <2>2 DEF Pushed
<1>16. CurrentSafe'
  <2>1. psp' = stackTop(c) - Depth(c)'
    BY <1>3, <1>6, <1>15
  <2> QED BY <1>6, <1>7, <1>10, <1>15, <2>1 DEF CurrentSafe, Pushed, Depth
<1>17. MainInv' /\ RunningInv'
  BY <1>6, <1>11, <1>14, <1>16 DEF MainInv, RunningInv
<1>18. psp' \in Int
  BY <1>3, <1>6
<1> QED BY <1>0, <1>6, <1>7, <1>8, <1>9, <1>17, <1>18 DEF StackInv, Benching

\* The invariant holds when the power is switched on.
LEMMA StackInit == BootInit => StackInv
<1> SUFFICES ASSUME BootInit PROVE StackInv
  OBVIOUS
<1>1. mem \in [Memory -> Nat] /\ stackPtr \in [Tasks -> Int] /\ DOMAIN own = Tasks
  BY DEF BootInit, JUNK
<1>2. regs \in RegisterSet
  BY MainRegsClean DEF BootInit
<1>3. task_count \in 0 .. NTasks
  BY ContextAssumption DEF BootInit
<1>4. MainInv /\ RunningInv
  BY DEF BootInit, MainInv, RunningInv, Benching
<1> QED BY <1>1, <1>2, <1>3, <1>4 DEF StackInv, BootInit, Benching

\* Every step keeps the invariant.
LEMMA StackNext == StackInv /\ [BootNext]_bootVars => StackInv'
<1> SUFFICES ASSUME StackInv, [BootNext]_bootVars PROVE StackInv'
  OBVIOUS
<1>1. CASE Running
  <2>1. ContextStep /\ UNCHANGED <<task_count, kernel_running, at>>
    BY <1>1 DEF Running, mainVars, kernelData
  <2>2. CASE Compute
    BY <2>1, <2>2, ComputeStep
  <2>3. CASE Push
    BY <2>1, <2>3, PushStep
  <2>4. CASE Pop
    BY <2>1, <2>4, PopStep
  <2>5. CASE Exception
    BY <2>1, <2>5, ExceptionStep
  <2>6. CASE ExceptionReturn
    BY <2>1, <2>6, ReturnStep
  <2>7. CASE Switch
    BY <2>1, <2>7, SaveStep, ChooseStep, HookStep, RestoreStep DEF Switch
  <2> QED BY <2>1, <2>2, <2>3, <2>4, <2>5, <2>6, <2>7 DEF ContextStep
<1>2. CASE Boots
  <2>1. CASE PostInit \/ PostCall \/ InitObjects
    BY <2>1, PostSteps
  <2>2. CASE \/ BenchBegin \/ BenchPair \/ Report
             \/ StoreDigit \/ SendDigit \/ NumberNext \/ BenchNext
    BY <2>2, BenchSteps
  <2>3. CASE BenchSchedule \/ Launch
    BY <2>3, ScheduleSteps
  <2>4. CASE Reset
    BY <2>4, ResetSteps
  <2>5. CASE TaskCreate
    BY <2>5, CreateStep
  <2>6. CASE FirstTask
    BY <2>6, FirstStep
  <2> QED BY <1>2, <2>1, <2>2, <2>3, <2>4, <2>5, <2>6 DEF Boots
<1>3. CASE Restart
  BY <1>3, ResetSteps
<1>4. CASE UNCHANGED bootVars
  <2>1. /\ mem' = mem /\ stackPtr' = stackPtr /\ psp' = psp /\ regs' = regs /\ own' = own
        /\ current_tcb' = current_tcb /\ mode' = mode /\ task_count' = task_count
        /\ kernel_running' = kernel_running /\ at' = at /\ line' = line
    BY <1>4 DEF bootVars, contextVars, mainVars, kernelData
  <2>2. \A t : /\ Parked(t)' <=> Parked(t)
               /\ OwnType(t)' <=> OwnType(t)
               /\ Depth(t)' = Depth(t)
    BY <2>1 DEF Parked, Intact, Pushed, Framed, HardFrame, OwnType, Depth
  <2>3. MainInv'
    BY <2>1, <2>2 DEF StackInv, MainInv
  <2>4. RunningInv'
    BY <2>1, <2>2
    DEF StackInv, RunningInv, OthersSafe, CurrentSafe, Intact, Pushed, Framed, HardFrame, Depth
  <2> QED BY <2>1, <2>3, <2>4 DEF StackInv
<1> QED BY <1>1, <1>2, <1>3, <1>4 DEF BootNext

-----------------------------------------------------------------------------
(* The theorems on the stacks.                                             *)

\* StackInv is invariant: in whatever order tasks push, pop, overflow and are
\* switched, and whenever the board is reset.
THEOREM StackInvariance == BootSpec => []StackInv
BY StackInit, StackNext, PTL DEF BootSpec

\* The task that runs has its own registers, its own stack pointer and its own
\* words: PendSV restores what it saved, and no task resumes after another has
\* written over its stack (os_kernel_asm.s, os_scheduler).
THEOREM ContextSound == BootSpec => []OwnContext
<1>1. StackInv => OwnContext
  <2> SUFFICES ASSUME StackInv, mode = "thread" PROVE OwnContext
    BY DEF OwnContext
  <2>1. /\ current_tcb \in Tasks /\ CurrentSafe /\ \A t \in Tasks : OwnType(t)
        /\ own[current_tcb] \in [regs : RegisterSet, stack : Seq(Nat)]
    BY Here
  <2>2. DOMAIN own[current_tcb].stack = 1 .. Depth(current_tcb)
    BY <2>1 DEF Depth
  <2>3. \A i \in 1 .. Depth(current_tcb) : own[current_tcb].stack[i] = Datum(current_tcb)
    BY <2>1 DEF OwnType
  <2> QED BY <2>1, <2>2, <2>3 DEF OwnContext, CurrentSafe, Pushed, Depth
<1> QED BY <1>1, StackInvariance, PTL

\* A canary is lost only while the task that ran over it is current and has lost
\* its own, and no task is chosen after that: the halted board names the culprit
\* (os_stack_overflow_hook).
THEOREM CulpritSound == BootSpec => []HaltNamesCulprit
<1>1. StackInv => HaltNamesCulprit
  <2> SUFFICES ASSUME StackInv, mode # "main",
                      NEW t \in Tasks, mem[stackBase(t)] # STACK_CANARY
               PROVE  /\ mode # "chosen"
                      /\ mem[stackBase(current_tcb)] # STACK_CANARY
                      /\ stackBase(t) <= stackBase(current_tcb)
    BY DEF HaltNamesCulprit
  <2>1. current_tcb \in Tasks /\ OthersSafe /\ CurrentSafe
    BY Here
  <2>2. ~Intact(current_tcb) /\ t <= current_tcb
    BY <2>1 DEF OthersSafe, Intact
  <2>3. mode # "chosen"
    BY <2>1, <2>2 DEF CurrentSafe, Parked
  <2>4. stackBase(t) <= stackBase(current_tcb)
    <3>1. /\ t \in Nat /\ current_tcb \in Nat /\ stackBase(t) \in Nat
          /\ stackTop(t) \in Nat /\ stackTop(t) > stackBase(t) + 4
          /\ stackBase(current_tcb) \in Nat
      BY <2>1, Layout DEF HW, SW
    <3>2. CASE t = current_tcb
      BY <3>1, <3>2
    <3>3. CASE t < current_tcb
      <4>1. stackTop(t) <= stackBase(current_tcb)
        BY <2>1, <3>3, Layout
      <4> QED BY <3>1, <4>1
    <3> QED BY <2>2, <3>1, <3>2, <3>3
  <2> QED BY <2>2, <2>3, <2>4 DEF Intact
<1> QED BY <1>1, StackInvariance, PTL

-----------------------------------------------------------------------------
(* The kernel's data, from reset to the launch.                            *)

\* The semaphores when main() has initialised them.
AppSemsReady == [x \in AppSems |-> NewSemaphore(SemInitialOf[x], SemMaxOf[x])]

ObjectsReady ==
  /\ at # "reset" => mutexes = [x \in AppMutexes |-> NewMutex(NULL)]
  /\ at \in {"init", "post"} => sems = EarlySems
  /\ at \in {"create"} \cup Benching => sems = AppSemsReady

\* The tasks as os_task_create leaves them, and after os_scheduler has chosen.
TopPriority == {t \in Tasks : \A u \in Tasks : Priorities[u] <= Priorities[t]}
AllReady == tcb = [t \in Tasks |-> Created(t)]
Chosen ==
  /\ current_tcb \in TopPriority
  /\ tcb = [t \in Tasks |->
              [Created(t) EXCEPT !.state = IF t = current_tcb THEN "RUNNING" ELSE "READY"]]

\* os_scheduler has been called.
Scheduling == (at = "scheduler" /\ iter > 0) \/ (at = "print" /\ line = 4) \/ at = "launch"

TasksReady ==
  /\ at \in {"init", "post", "create"} =>
       tcb = [t \in Tasks |-> IF t < task_count THEN Created(t) ELSE Blank]
  /\ at \in Benching /\ ~kernel_running => AllReady \/ Chosen
  /\ Scheduling /\ ~kernel_running => Chosen

LaunchInv ==
  /\ at \notin {"reset", "fail", "launch"} => ~kernel_running
  /\ at \in {"mutex", "semaphore", "queue", "scheduler"} =>
       iter \in Nat /\ line \in DOMAIN Benches /\ at = Benches[line]
  /\ ObjectsReady /\ TasksReady

\* The benchmarks, in their order.
LEMMA BenchOrder ==
  /\ DOMAIN Benches = 1 .. 4 /\ Len(Benches) = 4
  /\ Benches[1] = "mutex" /\ Benches[2] = "semaphore"
  /\ Benches[3] = "queue" /\ Benches[4] = "scheduler"
BY DEF Benches

\* The scan of os_scheduler visits every slot of os_tasks.
LEMMA SlotsCovered ==
  ASSUME current_tcb \in Tasks
  PROVE  \A t \in Tasks : \E k \in 0 .. NTasks - 1 : (current_tcb + 1 + k) % NTasks = t
<1>1. NTasks \in Nat /\ NTasks > 0
  BY ContextAssumption
<1>2. \A x \in 0 .. NTasks - 1 : x % NTasks = x /\ (x + NTasks) % NTasks = x
  BY <1>1
<1> TAKE t \in Tasks
<1> DEFINE k == IF t > current_tcb THEN t - current_tcb - 1
                ELSE t - current_tcb - 1 + NTasks
<1>3. k \in 0 .. NTasks - 1 /\ t \in 0 .. NTasks - 1
  BY <1>1 DEF Tasks
<1>4. current_tcb + 1 + k = t \/ current_tcb + 1 + k = t + NTasks
  BY <1>1 DEF Tasks
<1> HIDE DEF k
<1> QED BY <1>2, <1>3, <1>4

\* os_scheduler, called from main(), makes a task of the highest priority the
\* only one that is RUNNING.
LEMMA Elected ==
  ASSUME current_tcb \in Tasks, AllReady \/ Chosen, NEW u \in Tasks, ScheduleTo(u)
  PROVE  Chosen'
<1>1. \A t \in Tasks :
        /\ tcb[t].current_priority = Priorities[t]
        /\ tcb[t] = [Created(t) EXCEPT !.state = tcb[t].state]
        /\ tcb[t].state = "READY" \/ (tcb[t].state = "RUNNING" /\ t = current_tcb)
  <2> TAKE t \in Tasks
  <2>1. CASE AllReady
    <3>1. tcb[t] = Created(t)
      BY <2>1 DEF AllReady
    <3> QED BY <3>1 DEF Created, Blank
  <2>2. CASE Chosen
    <3>1. tcb[t] = [Created(t) EXCEPT !.state = IF t = current_tcb THEN "RUNNING" ELSE "READY"]
      BY <2>2 DEF Chosen
    <3> QED BY <3>1 DEF Created, Blank
  <2> QED BY <2>1, <2>2
<1>2. u \in TopPriority
  <2> SUFFICES ASSUME NEW t \in Tasks PROVE Priorities[t] <= Priorities[u]
    BY DEF TopPriority
  <2>1. PICK j \in 0 .. NTasks - 1 : (current_tcb + 1 + j) % NTasks = t
    BY SlotsCovered
  <2>2. \/ tcb[t].current_priority < tcb[u].current_priority
        \/ tcb[t].current_priority <= tcb[u].current_priority
    BY <2>1 DEF ScheduleTo, Scheduled
  <2>3. Priorities[t] \in Nat /\ Priorities[u] \in Nat
    BY BootAssumption
  <2>4. tcb[t].current_priority = Priorities[t] /\ tcb[u].current_priority = Priorities[u]
    BY <1>1
  <2> QED BY <2>2, <2>3, <2>4
<1>3. current_tcb' = u
  BY DEF ScheduleTo
<1>4. \A t \in Tasks :
        [tcb[t] EXCEPT !.state = IF t = u THEN "RUNNING"
                                 ELSE IF t = current_tcb THEN OutgoingState(@) ELSE @]
          = [Created(t) EXCEPT !.state = IF t = u THEN "RUNNING" ELSE "READY"]
  BY <1>1, ZenonT(60) DEF OutgoingState, Created, Blank
<1>5. tcb' = [t \in Tasks |->
               [Created(t) EXCEPT !.state = IF t = u THEN "RUNNING" ELSE "READY"]]
  BY <1>4 DEF ScheduleTo
<1> QED BY <1>2, <1>3, <1>5 DEF Chosen, TopPriority

\* Steps that touch nothing of this.
LEMMA LaunchQuiet ==
  ASSUME LaunchInv, UNCHANGED <<at, line, iter, current_tcb, kernelData>>
  PROVE  LaunchInv'
BY DEF LaunchInv, ObjectsReady, TasksReady, Scheduling, AllReady, Chosen, kernelData

\* The invariant of the kernel's data holds when the power is switched on.
LEMMA LaunchInit == BootInit => LaunchInv
BY DEF BootInit, LaunchInv, ObjectsReady, TasksReady, Scheduling, Benching

\* Reset, the self-test and the objects.
LEMMA LaunchPost ==
  ASSUME StackInv, LaunchInv, Reset \/ PostInit \/ PostCall \/ InitObjects \/ Restart
  PROVE  LaunchInv'
<1>0. \A t \in Tasks : t \in Nat
  BY Layout
<1>1. CASE Reset
  <2>1. \A t \in Tasks : ~(t < 0)
    BY <1>0
  <2>2. task_count' = 0 /\ tcb' = [t \in Tasks |-> Blank]
    BY <1>1 DEF Reset
  <2>3. tcb' = [t \in Tasks |-> IF t < task_count' THEN Created(t) ELSE Blank]
    BY <2>1, <2>2
  <2> QED BY <1>1, <2>3
          DEF Reset, LaunchInv, ObjectsReady, TasksReady, Scheduling, Benching
<1>2. CASE PostInit \/ PostCall
  <2>1. /\ at \in {"init", "post"} /\ at' \in {"post", "fail"} /\ UNCHANGED kernelData
    BY <1>2 DEF PostInit, PostCall
  <2> QED BY <2>1 DEF kernelData, LaunchInv, ObjectsReady, TasksReady, Scheduling, Benching
<1>3. CASE InitObjects
  <2>1. sems = EarlySems /\ mutexes = [x \in AppMutexes |-> NewMutex(NULL)]
    BY <1>3 DEF InitObjects, LaunchInv, ObjectsReady
  <2>2. mutexes' = [x \in AppMutexes |-> NewMutex(NULL)]
    BY <1>3 DEF InitObjects, NewMutex
  <2>3. ASSUME NEW x \in AppSems
        PROVE  (CASE x = "echo_ready" -> NewSemaphore(0, 1)
                  [] x = "sweep_queue.empty_slots" ->
                       NewSemaphore(SweepQueueCapacity, SweepQueueCapacity)
                  [] x = "sweep_queue.filled_slots" -> NewSemaphore(0, SweepQueueCapacity)
                  [] OTHER -> sems[x])
               = NewSemaphore(SemInitialOf[x], SemMaxOf[x])
    BY <2>1 DEF AppSems, BenchSems, EarlySems, SemInitialOf, SemMaxOf, SweepQueueCapacity,
                NewSemaphore
  <2>4. sems' = AppSemsReady
    BY <1>3, <2>3 DEF InitObjects, AppSemsReady
  <2> QED BY <1>3, <2>2, <2>4
          DEF InitObjects, LaunchInv, ObjectsReady, TasksReady, Scheduling, Benching
<1>4. CASE Restart
  BY <1>4 DEF Restart, LaunchInv, ObjectsReady, TasksReady, Scheduling, Benching
<1> QED BY <1>1, <1>2, <1>3, <1>4

\* os_task_create fills in the next TCB and no other.
LEMMA LaunchCreate == ASSUME StackInv, LaunchInv, TaskCreate PROVE LaunchInv'
<1>1. PICK n \in Tasks : n = task_count
  BY ContextAssumption DEF StackInv, TaskCreate, Tasks
<1>2. /\ at = "create" /\ at' = at /\ task_count' = n + 1
      /\ mutexes' = mutexes /\ sems' = sems /\ kernel_running' = kernel_running
      /\ tcb' = [tcb EXCEPT ![n] = Created(n)]
      /\ tcb = [t \in Tasks |-> IF t < n THEN Created(t) ELSE Blank]
  BY <1>1 DEF TaskCreate, mainVars, LaunchInv, TasksReady
<1>3. \A t \in Tasks : t < n + 1 <=> t < n \/ t = n
  BY Layout
<1>4. tcb' = [t \in Tasks |-> IF t < n + 1 THEN Created(t) ELSE Blank]
  BY <1>2, <1>3
<1> QED BY <1>2, <1>4 DEF LaunchInv, ObjectsReady, TasksReady, Scheduling, Benching

\* The benchmarks and the printing.
LEMMA LaunchBench ==
  ASSUME StackInv, LaunchInv,
         \/ BenchBegin \/ BenchPair \/ BenchSchedule \/ Report
         \/ StoreDigit \/ SendDigit \/ NumberNext \/ BenchNext
  PROVE  LaunchInv'
<1>1. CASE BenchBegin
  <2>1. /\ at = "create" /\ at' = "mutex" /\ line' = 1 /\ iter' = 0
        /\ UNCHANGED <<kernelData, contextVars>> /\ task_count = NTasks
    BY <1>1, BenchOrder DEF BenchBegin, BenchStart
  <2>2. \A t \in Tasks : t < task_count
    BY <2>1, ContextAssumption DEF Tasks
  <2>3. AllReady'
    BY <2>1, <2>2 DEF LaunchInv, TasksReady, AllReady, kernelData
  <2> QED BY <2>1, <2>3, BenchOrder
          DEF kernelData, LaunchInv, ObjectsReady, TasksReady, Scheduling, Benching
<1>2. CASE BenchPair
  <2>1. /\ at \in {"mutex", "semaphore", "queue"} /\ iter' = iter + 1 /\ at' = at
        /\ line' = line /\ UNCHANGED <<kernelData, contextVars>>
    BY <1>2 DEF BenchPair, Again
  <2>2. iter \in Nat /\ iter' \in Nat
    BY <2>1 DEF LaunchInv
  <2> QED BY <2>1, <2>2
          DEF kernelData, contextVars, LaunchInv, ObjectsReady, TasksReady, AllReady, Chosen,
              Scheduling, Benching
<1>3. CASE BenchSchedule
  <2>1. /\ at = "scheduler" /\ iter' = iter + 1 /\ at' = at /\ line' = line
        /\ kernel_running' = kernel_running /\ ~kernel_running
    BY <1>3 DEF BenchSchedule, Again, LaunchInv
  <2>2. PICK u \in Tasks : ScheduleTo(u)
    BY <1>3 DEF BenchSchedule
  <2>3. current_tcb \in Tasks /\ (AllReady \/ Chosen)
    BY <2>1, ContextAssumption DEF StackInv, MainInv, LaunchInv, TasksReady, Benching
  <2>4. Chosen'
    BY <2>2, <2>3, Elected
  <2>5. mutexes' = mutexes /\ sems' = sems
    BY <2>2 DEF ScheduleTo
  <2>6. iter' \in Nat
    BY <2>1 DEF LaunchInv
  <2> QED BY <2>1, <2>4, <2>5, <2>6
          DEF LaunchInv, ObjectsReady, TasksReady, Scheduling, Benching
<1>4. CASE Report
  <2>1. /\ line \in DOMAIN Benches /\ at = Benches[line] /\ iter = BENCH_ITERATIONS
        /\ at' = "print" /\ line' = line /\ UNCHANGED <<kernelData, contextVars>>
    BY <1>4 DEF Report
  <2>2. at \in {"mutex", "semaphore", "queue", "scheduler"}
    BY <2>1, BenchOrder
  <2>3. AllReady \/ Chosen
    BY <2>2 DEF LaunchInv, TasksReady, Benching
  <2>4. line = 4 => Chosen
    BY <2>1, <2>2, BenchOrder, BootAssumption DEF LaunchInv, TasksReady, Scheduling
  <2>5. ~kernel_running
    BY <2>2 DEF LaunchInv
  <2> QED BY <2>1, <2>2, <2>3, <2>4, <2>5
          DEF kernelData, contextVars, LaunchInv, ObjectsReady, TasksReady, AllReady, Chosen,
              Scheduling, Benching
<1>5. CASE StoreDigit \/ SendDigit \/ NumberNext
  <2>1. UNCHANGED <<at, line, iter, current_tcb, kernelData>>
    BY <1>5 DEF StoreDigit, SendDigit, NumberNext, mainVars, contextVars
  <2> QED BY <2>1, LaunchQuiet
<1>6. CASE BenchNext
  <2>1. at = "print" /\ UNCHANGED <<kernelData, contextVars>> /\ line \in 1 .. 4
        /\ ~kernel_running
    BY <1>6, BenchOrder DEF BenchNext, StackInv, LaunchInv
  <2>2. AllReady \/ Chosen
    BY <2>1 DEF LaunchInv, TasksReady, Benching
  <2>3. CASE line < 4
    <3>1. at' = Benches[line + 1] /\ line' = line + 1 /\ iter' = 0 /\ line + 1 \in 1 .. 4
      BY <1>6, <2>1, <2>3, BenchOrder DEF BenchNext, BenchStart
    <3>2. at' \in {"mutex", "semaphore", "queue", "scheduler"}
      BY <3>1, BenchOrder
    <3> QED BY <2>1, <2>2, <3>1, <3>2, BenchOrder
            DEF kernelData, contextVars, LaunchInv, ObjectsReady, TasksReady, AllReady,
                Chosen, Scheduling, Benching
  <2>4. CASE line = 4
    <3>1. at' = "launch"
      BY <1>6, <2>4, BenchOrder DEF BenchNext
    <3>2. Chosen
      BY <2>1, <2>4 DEF LaunchInv, TasksReady, Scheduling
    <3> QED BY <2>1, <3>1, <3>2
            DEF kernelData, contextVars, LaunchInv, ObjectsReady, TasksReady, AllReady,
                Chosen, Scheduling, Benching
  <2> QED BY <2>1, <2>3, <2>4
<1> QED BY <1>1, <1>2, <1>3, <1>4, <1>5, <1>6

\* The launch and what comes after it.
LEMMA LaunchRunning ==
  ASSUME StackInv, LaunchInv, Launch \/ FirstTask \/ Running
  PROVE  LaunchInv'
<1>1. at = "launch" /\ at' = at /\ mutexes' = mutexes /\ sems' = sems
  BY DEF Launch, ScheduleTo, FirstTask, Running, mainVars, kernelData
<1>2. kernel_running'
  <2>1. CASE Launch
    BY <2>1 DEF Launch
  <2>2. CASE FirstTask
    BY <2>2 DEF FirstTask, kernelData
  <2>3. CASE Running
    <3>1. mode # "main"
      BY <2>3 DEF Running, ContextStep, Compute, Push, Pop, Exception, ExceptionReturn, Switch,
                  SaveContext, ChooseTask, OverflowHook, RestoreContext
    <3> QED BY <2>3, <3>1 DEF Running, StackInv, kernelData
  <2> QED BY <2>1, <2>2, <2>3
<1> QED BY <1>1, <1>2 DEF LaunchInv, ObjectsReady, TasksReady, Scheduling, Benching

\* Every step keeps the invariant of the kernel's data.
LEMMA LaunchNext == StackInv /\ LaunchInv /\ [BootNext]_bootVars => LaunchInv'
<1> SUFFICES ASSUME StackInv, LaunchInv, [BootNext]_bootVars PROVE LaunchInv'
  OBVIOUS
<1>1. CASE BootNext
  BY <1>1, LaunchPost, LaunchCreate, LaunchBench, LaunchRunning DEF BootNext, Boots
<1>2. CASE UNCHANGED bootVars
  <2>1. UNCHANGED <<at, line, iter, current_tcb, kernelData>>
    BY <1>2 DEF bootVars, mainVars, contextVars
  <2> QED BY <2>1, LaunchQuiet
<1> QED BY <1>1, <1>2

\* LaunchInv is invariant, with StackInv.
THEOREM LaunchInvariance == BootSpec => []LaunchInv
<1>1. BootInit => StackInv /\ LaunchInv
  BY StackInit, LaunchInit
<1>2. StackInv /\ LaunchInv /\ [BootNext]_bootVars => (StackInv /\ LaunchInv)'
  BY StackNext, LaunchNext
<1> QED BY <1>1, <1>2, PTL DEF BootSpec

\* When main() calls os_kernel_launch the kernel is in an initial state of module
\* Kernel: whatever the memory held at power-on, and after a reset at any moment,
\* the self-test and the benchmarks leave nothing behind (main.c, microbench.c).
THEOREM BootSound == BootSpec => []BootReachesInit
<1>1. LaunchInv => BootReachesInit
  <2> SUFFICES ASSUME LaunchInv, at = "launch", ~kernel_running
               PROVE  K!Init /\ [x \in AppSems |-> sems[x].max_count] = SemMaxOf
    BY DEF BootReachesInit
  <2>1. Chosen /\ sems = AppSemsReady /\ mutexes = [x \in AppMutexes |-> NewMutex(NULL)]
        /\ kernel_running = FALSE
    BY DEF LaunchInv, ObjectsReady, TasksReady, Scheduling, Benching
  <2>2. K!TaskInit
    BY <2>1, BootAssumption
    DEF K!TaskInit, K!Highest, K!Tasks, Tasks, Chosen, TopPriority, Created, Blank,
        K!OS_SUCCESS, OS_SUCCESS
  <2>3. K!CpuInit
    BY <2>1 DEF K!CpuInit
  <2>4. K!MutexInit
    BY <2>1 DEF K!MutexInit, NewMutex
  <2>5. K!SemaphoreInit /\ [x \in AppSems |-> sems[x].max_count] = SemMaxOf
    BY <2>1 DEF K!SemaphoreInit, AppSemsReady, NewSemaphore, SemInitialOf, SemMaxOf
  <2>6. K!QueueInit
    BY <2>1 DEF K!QueueInit, K!Objs, K!Slots, AppSemsReady, NewSemaphore, NewMutex
  <2> QED BY <2>2, <2>3, <2>4, <2>5, <2>6 DEF K!Init, K!Tasks, Tasks
<1> QED BY <1>1, LaunchInvariance, PTL

-----------------------------------------------------------------------------
(* uart_print_number.  The library's induction takes an operator, which no *)
(* backend can instantiate; its least-element theorem takes a set.         *)

\* Induction over the natural numbers, for a set.
LEMMA SetInduction ==
  ASSUME NEW S \in SUBSET Nat, 0 \in S, \A n \in S : n + 1 \in S
  PROVE  S = Nat
<1> SUFFICES ASSUME S # Nat
             PROVE  FALSE
  OBVIOUS
<1> DEFINE T == Nat \ S
           R == OpToRel(<, Nat)
<1>1. T \subseteq Nat /\ T # {}
  OBVIOUS
<1>2. IsWellFoundedOn(R, Nat)
  BY NatLessThanWellFounded
<1>3. \A x, y \in Nat : <<y, x>> \in R <=> y < x
  BY DEF OpToRel
<1> HIDE DEF R, T
<1>4. PICK x \in T : \A y \in T : ~(<<y, x>> \in R)
  BY <1>1, <1>2, WFMin
<1>5. x \in Nat /\ x \notin S /\ \A y \in Nat \ S : ~(y < x)
  BY <1>1, <1>3, <1>4 DEF T
<1>6. x # 0 /\ x - 1 \in Nat /\ x - 1 < x
  BY <1>5
<1>7. x - 1 \in S
  BY <1>5, <1>6
<1> QED BY <1>5, <1>6, <1>7

\* A table of the first powers of ten.
IsPow(f, n) == f \in [0 .. n -> Nat] /\ f[0] = 1 /\ \A i \in 1 .. n : f[i] = 10 * f[i - 1]

\* Two tables agree where both have an entry.
LEMMA PowUnique ==
  ASSUME NEW a \in Nat, NEW b \in Nat, NEW f, NEW g, IsPow(f, a), IsPow(g, b),
         NEW i \in Nat, i <= a, i <= b
  PROVE  f[i] = g[i]
<1> DEFINE S == {n \in Nat : n <= a /\ n <= b => f[n] = g[n]}
<1>1. 0 \in S
  BY DEF IsPow
<1>2. ASSUME NEW n \in S
      PROVE  n + 1 \in S
  <2> SUFFICES ASSUME n + 1 <= a, n + 1 <= b
               PROVE  f[n + 1] = g[n + 1]
    OBVIOUS
  <2>1. n \in Nat /\ n + 1 \in 1 .. a /\ n + 1 \in 1 .. b /\ (n + 1) - 1 = n
    OBVIOUS
  <2>2. f[n] = g[n]
    BY <2>1
  <2>3. f[n + 1] = 10 * f[n] /\ g[n + 1] = 10 * g[n]
    BY <2>1 DEF IsPow
  <2> QED BY <2>2, <2>3
<1>3. S \in SUBSET Nat
  OBVIOUS
<1> HIDE DEF S
<1>4. S = Nat
  BY <1>1, <1>2, <1>3, SetInduction
<1> QED BY <1>4 DEF S

\* There is a table of every length.
LEMMA PowExists ==
  ASSUME NEW n \in Nat
  PROVE  \E f : IsPow(f, n)
<1> DEFINE S == {k \in Nat : \E f : IsPow(f, k)}
<1>1. 0 \in S
  <2>1. IsPow([i \in 0 .. 0 |-> 1], 0)
    BY DEF IsPow
  <2> QED BY <2>1
<1>2. ASSUME NEW k \in S
      PROVE  k + 1 \in S
  <2>1. k \in Nat
    OBVIOUS
  <2>2. PICK f : IsPow(f, k)
    OBVIOUS
  <2> DEFINE g == [i \in 0 .. k + 1 |-> IF i <= k THEN f[i] ELSE 10 * f[k]]
  <2>3. f[k] \in Nat
    BY <2>1, <2>2 DEF IsPow
  <2>4. g \in [0 .. k + 1 -> Nat] /\ g[0] = 1
    BY <2>1, <2>2, <2>3 DEF IsPow
  <2>5. ASSUME NEW i \in 1 .. k + 1
        PROVE  g[i] = 10 * g[i - 1]
    <3>1. CASE i <= k
      <4>1. i \in 1 .. k /\ i \in 0 .. k + 1 /\ i - 1 \in 0 .. k + 1 /\ i - 1 <= k
        BY <2>1, <3>1
      <4> QED BY <2>2, <3>1, <4>1 DEF IsPow
    <3>2. CASE i = k + 1
      BY <2>1, <3>2
    <3> QED BY <2>1, <3>1, <3>2
  <2> HIDE DEF g
  <2>6. IsPow(g, k + 1)
    BY <2>4, <2>5 DEF IsPow
  <2> QED BY <2>1, <2>6
<1>3. S \in SUBSET Nat
  OBVIOUS
<1> HIDE DEF S
<1>4. S = Nat
  BY <1>1, <1>2, <1>3, SetInduction
<1> QED BY <1>4 DEF S

\* Pow10 is what its definition says.
LEMMA Pow10Def ==
  /\ Pow10[0] = 1
  /\ \A n \in Nat : Pow10[n] \in Nat \ {0} /\ Pow10[n + 1] = 10 * Pow10[n]
<1> DEFINE P == [n \in Nat |-> (CHOOSE f : IsPow(f, n))[n]]
<1>1. ASSUME NEW n \in Nat
      PROVE  IsPow(CHOOSE f : IsPow(f, n), n)
  BY PowExists
<1>2. P[0] = 1
  BY <1>1 DEF IsPow
<1>3. ASSUME NEW n \in Nat
      PROVE  P[n] \in Nat /\ P[n + 1] = 10 * P[n]
  <2> DEFINE f == CHOOSE x : IsPow(x, n)
             g == CHOOSE x : IsPow(x, n + 1)
  <2>1. IsPow(f, n) /\ IsPow(g, n + 1) /\ n + 1 \in Nat
    BY <1>1
  <2>2. P[n] = f[n] /\ P[n + 1] = g[n + 1]
    OBVIOUS
  <2> HIDE DEF f, g, P
  <2>3. f[n] = g[n]
    BY <2>1, PowUnique
  <2>4. f[n] \in Nat /\ g[n + 1] = 10 * g[(n + 1) - 1] /\ (n + 1) - 1 = n
    BY <2>1 DEF IsPow
  <2> QED BY <2>2, <2>3, <2>4
<1>4. P = [n \in Nat |-> IF n = 0 THEN 1 ELSE 10 * P[n - 1]]
  <2>1. ASSUME NEW n \in Nat
        PROVE  P[n] = IF n = 0 THEN 1 ELSE 10 * P[n - 1]
    <3>1. CASE n = 0
      BY <1>2, <3>1
    <3>2. CASE n # 0
      <4>1. n - 1 \in Nat /\ (n - 1) + 1 = n
        BY <3>2
      <4>2. P[(n - 1) + 1] = 10 * P[n - 1]
        BY <1>3, <4>1
      <4> HIDE DEF P
      <4> QED BY <3>2, <4>1, <4>2
    <3> QED BY <3>1, <3>2
  <2>2. P = [n \in Nat |-> P[n]]
    OBVIOUS
  <2> HIDE DEF P
  <2> QED BY <2>1, <2>2
<1> HIDE DEF P
<1>5. Pow10 = CHOOSE f : f = [n \in Nat |-> IF n = 0 THEN 1 ELSE 10 * f[n - 1]]
  BY DEF Pow10
<1>6. Pow10 = [n \in Nat |-> IF n = 0 THEN 1 ELSE 10 * Pow10[n - 1]]
  BY <1>4, <1>5
<1>7. Pow10[0] = 1
  BY <1>6
<1>8. ASSUME NEW n \in Nat
      PROVE  Pow10[n + 1] = 10 * Pow10[n]
  <2>1. n + 1 \in Nat /\ n + 1 # 0 /\ (n + 1) - 1 = n
    OBVIOUS
  <2> QED BY <1>6, <2>1
<1> DEFINE S == {n \in Nat : Pow10[n] \in Nat \ {0}}
<1>9. 0 \in S /\ \A n \in S : n + 1 \in S
  BY <1>7, <1>8
<1>10. S \in SUBSET Nat
  OBVIOUS
<1> HIDE DEF S
<1>11. S = Nat
  BY <1>9, <1>10, SetInduction
<1> QED BY <1>7, <1>8, <1>11 DEF S

\* The powers grow.
LEMMA Pow10Grows ==
  ASSUME NEW i \in Nat, NEW k \in Nat
  PROVE  Pow10[i] <= Pow10[i + k]
<1> DEFINE S == {n \in Nat : Pow10[i] <= Pow10[i + n]}
<1>1. 0 \in S
  BY Pow10Def
<1>2. ASSUME NEW n \in S
      PROVE  n + 1 \in S
  <2>1. n \in Nat /\ i + n \in Nat /\ i + (n + 1) = (i + n) + 1
    OBVIOUS
  <2>2. Pow10[i] \in Nat /\ Pow10[i + n] \in Nat /\ Pow10[i + (n + 1)] = 10 * Pow10[i + n]
    BY <2>1, Pow10Def
  <2>3. Pow10[i] <= Pow10[i + n]
    OBVIOUS
  <2> QED BY <2>1, <2>2, <2>3
<1>3. S \in SUBSET Nat
  OBVIOUS
<1> HIDE DEF S
<1>4. S = Nat
  BY <1>1, <1>2, <1>3, SetInduction
<1> QED BY <1>4 DEF S

\* Decimal is what its definition says.
LEMMA DecimalIs ==
  ASSUME NEW ds \in Seq(Nat), NEW h \in [0 .. Len(ds) -> Nat], h[0] = 0,
         \A i \in 1 .. Len(ds) : h[i] = 10 * h[i - 1] + ds[i]
  PROVE  Decimal(ds) = h[Len(ds)]
<1> DEFINE v == CHOOSE f : f = [i \in 0 .. Len(ds) |-> IF i = 0 THEN 0 ELSE 10 * f[i - 1] + ds[i]]
<1>0. Len(ds) \in Nat
  OBVIOUS
<1>1. Decimal(ds) = v[Len(ds)]
  BY DEF Decimal
<1>2. h = [i \in 0 .. Len(ds) |-> IF i = 0 THEN 0 ELSE 10 * h[i - 1] + ds[i]]
  <2>1. \A i \in 0 .. Len(ds) : h[i] = IF i = 0 THEN 0 ELSE 10 * h[i - 1] + ds[i]
    BY <1>0
  <2> QED BY <2>1
<1>3. v = [i \in 0 .. Len(ds) |-> IF i = 0 THEN 0 ELSE 10 * v[i - 1] + ds[i]]
  BY <1>2
<1> HIDE DEF v
<1> DEFINE S == {n \in Nat : n <= Len(ds) => v[n] = h[n]}
<1>4. 0 \in S
  BY <1>0, <1>3
<1>5. ASSUME NEW n \in S
      PROVE  n + 1 \in S
  <2> SUFFICES ASSUME n + 1 <= Len(ds)
               PROVE  v[n + 1] = h[n + 1]
    OBVIOUS
  <2>1. n \in Nat /\ n + 1 \in 1 .. Len(ds) /\ n + 1 \in 0 .. Len(ds) /\ n + 1 # 0 /\ (n + 1) - 1 = n
    BY <1>0
  <2>2. v[n] = h[n]
    BY <1>0, <2>1
  <2>3. v[n + 1] = 10 * v[n] + ds[n + 1]
    BY <1>3, <2>1
  <2>4. h[n + 1] = 10 * h[n] + ds[n + 1]
    BY <2>1
  <2> QED BY <2>2, <2>3, <2>4
<1>6. S \in SUBSET Nat
  OBVIOUS
<1> HIDE DEF S
<1>7. S = Nat
  BY <1>4, <1>5, <1>6, SetInduction
<1> QED BY <1>0, <1>1, <1>7 DEF S

\* What is left of n after each of the digits ds has been taken off its right end.
Trail(g, n, ds) ==
  /\ g \in [0 .. Len(ds) -> Nat] /\ g[0] = n
  /\ \A i \in 1 .. Len(ds) :
       /\ g[i] = g[i - 1] \div 10 /\ ds[i] = g[i - 1] % 10
       /\ g[i - 1] > 0 \/ (i = 1 /\ n = 0)

\* The digits ds, from the right, have been stored of n, and left is still to do.
Stored(n, ds, left) ==
  /\ \E g : Trail(g, n, ds) /\ g[Len(ds)] = left
  /\ left * Pow10[Len(ds)] <= n

\* The inductive invariant of the printing.
PrintInv ==
  /\ todo \in Seq(Nat) /\ \A i \in 1 .. Len(todo) : todo[i] < Pow10[DigitsMax]
  /\ num \in Nat /\ digits \in Seq(Nat) /\ out \in Seq(Nat)
  /\ Len(digits) <= DigitsMax
  /\ todo # <<>> => todo[Len(todo)] < 10 /\ Stored(Head(todo), digits, num)
  /\ todo = <<>> => num = 0 /\ digits = <<>> /\ out = <<>>
  /\ Len(out) <= Len(digits)
  /\ \A j \in 1 .. Len(out) : out[j] = digits[Len(digits) + 1 - j]
  /\ out # <<>> => num = 0

\* Division by ten.
LEMMA Tens ==
  \A a \in Nat : /\ a \div 10 \in Nat /\ a % 10 \in 0 .. 9
                 /\ a = 10 * (a \div 10) + (a % 10)
                 /\ a > 0 /\ a < 10 => a \div 10 = 0 /\ a % 10 = a
                 /\ a \div 10 = 0 => a < 10
<1> TAKE a \in Nat
<1>1. a \div 10 \in Nat /\ a % 10 \in 0 .. 9 /\ a = 10 * (a \div 10) + (a % 10)
  OBVIOUS
<1> QED BY <1>1

\* Nothing is stored of a new number.
LEMMA StoredNothing ==
  ASSUME NEW n \in Nat
  PROVE  Stored(n, <<>>, n)
<1> DEFINE g == [i \in 0 .. 0 |-> n]
<1>1. Len(<<>>) = 0 /\ 1 .. 0 = {}
  OBVIOUS
<1>2. g \in [0 .. 0 -> Nat] /\ g[0] = n
  OBVIOUS
<1> HIDE DEF g
<1>3. Trail(g, n, <<>>) /\ g[Len(<<>>)] = n
  BY <1>1, <1>2 DEF Trail
<1>4. n * Pow10[Len(<<>>)] <= n
  BY <1>1, Pow10Def
<1> QED BY <1>3, <1>4 DEF Stored

\* One more digit.
LEMMA StoredMore ==
  ASSUME NEW n \in Nat, NEW ds \in Seq(Nat), NEW left \in Nat, Stored(n, ds, left),
         left > 0 \/ (n = 0 /\ ds = <<>>)
  PROVE  Stored(n, Append(ds, left % 10), left \div 10)
<1> DEFINE k == Len(ds)
           es == Append(ds, left % 10)
<1>0. /\ k \in Nat /\ k + 1 \in Nat /\ Len(es) = k + 1 /\ es[k + 1] = left % 10
      /\ \A i \in 1 .. k : es[i] = ds[i]
  OBVIOUS
<1>1. PICK g : Trail(g, n, ds) /\ g[k] = left
  BY DEF Stored
<1> DEFINE h == [i \in 0 .. k + 1 |-> IF i <= k THEN g[i] ELSE left \div 10]
<1>2. left \div 10 \in Nat /\ 10 * (left \div 10) <= left
  BY Tens
<1>3. g \in [0 .. k -> Nat] /\ g[0] = n
  BY <1>1 DEF Trail
<1>4. h \in [0 .. k + 1 -> Nat] /\ h[0] = n /\ h[k + 1] = left \div 10
  BY <1>0, <1>2, <1>3
<1>5. \A i \in 0 .. k : h[i] = g[i]
  BY <1>0
<1> HIDE DEF h
<1>6. ASSUME NEW i \in 1 .. k + 1
      PROVE  /\ h[i] = h[i - 1] \div 10 /\ es[i] = h[i - 1] % 10
             /\ h[i - 1] > 0 \/ (i = 1 /\ n = 0)
  <2>1. CASE i \in 1 .. k
    <3>1. i \in 0 .. k /\ i - 1 \in 0 .. k
      BY <1>0, <2>1
    <3>2. h[i] = g[i] /\ h[i - 1] = g[i - 1] /\ es[i] = ds[i]
      BY <1>0, <1>5, <2>1, <3>1
    <3>3. /\ g[i] = g[i - 1] \div 10 /\ ds[i] = g[i - 1] % 10
          /\ g[i - 1] > 0 \/ (i = 1 /\ n = 0)
      BY <1>1, <2>1 DEF Trail
    <3> QED BY <3>2, <3>3
  <2>2. CASE i = k + 1
    <3>1. i - 1 = k /\ k \in 0 .. k
      BY <1>0, <2>2
    <3>2. h[i - 1] = left
      BY <1>1, <1>5, <3>1
    <3>3. left > 0 \/ (i = 1 /\ n = 0)
      BY <2>2
    <3> QED BY <1>0, <1>4, <2>2, <3>2, <3>3
  <2> QED BY <1>0, <2>1, <2>2
<1>7. Trail(h, n, es) /\ h[Len(es)] = left \div 10
  BY <1>0, <1>4, <1>6 DEF Trail
<1>8. (left \div 10) * Pow10[Len(es)] <= n
  <2> DEFINE a == left \div 10
             p == Pow10[k]
  <2>1. p \in Nat /\ Pow10[Len(es)] = 10 * p
    BY <1>0, Pow10Def
  <2>2. left * p <= n
    BY DEF Stored
  <2>3. a \in Nat /\ left - 10 * a \in Nat
    BY <1>2
  <2> HIDE DEF a, p
  <2>4. (left - 10 * a) * p \in Nat /\ left * p = a * (10 * p) + (left - 10 * a) * p
    BY <2>1, <2>3
  <2>5. a * (10 * p) <= n
    BY <2>1, <2>2, <2>3, <2>4
  <2> QED BY <2>1, <2>5 DEF a
<1> QED BY <1>7, <1>8 DEF Stored

\* A number that fits into the buffer leaves room for its next digit.
LEMMA RoomForDigit ==
  ASSUME NEW n \in Nat, n < Pow10[DigitsMax], NEW ds \in Seq(Nat), NEW left \in Nat,
         Len(ds) <= DigitsMax, Stored(n, ds, left), left > 0 \/ (n = 0 /\ ds = <<>>)
  PROVE  Len(ds) < DigitsMax
<1>0. DigitsMax \in Nat \ {0} /\ Len(ds) \in Nat
  BY BootAssumption
<1>1. CASE left > 0
  <2> SUFFICES ASSUME Len(ds) = DigitsMax
               PROVE  FALSE
    BY <1>0
  <2>1. left * Pow10[DigitsMax] <= n
    BY DEF Stored
  <2>2. Pow10[DigitsMax] \in Nat
    BY <1>0, Pow10Def
  <2>3. (left - 1) * Pow10[DigitsMax] \in Nat
        /\ left * Pow10[DigitsMax] = Pow10[DigitsMax] + (left - 1) * Pow10[DigitsMax]
    BY <1>1, <2>2, SMTT(30)
  <2> QED BY <2>1, <2>2, <2>3
<1>2. CASE n = 0 /\ ds = <<>>
  BY <1>0, <1>2
<1> QED BY <1>1, <1>2

\* All digits stored and sent: the other end has the decimal representation.
LEMMA SentIsDecimal ==
  ASSUME NEW n \in Nat, NEW ds \in Seq(Nat), NEW os \in Seq(Nat), Stored(n, ds, 0),
         ds # <<>>, Len(os) = Len(ds),
         \A j \in 1 .. Len(os) : os[j] = ds[Len(ds) + 1 - j]
  PROVE  /\ Decimal(os) = n
         /\ Len(os) > 1 => os[1] # 0
         /\ n < 10 => Len(os) = 1
<1> DEFINE k == Len(ds)
<1>0. k \in Nat \ {0} /\ 1 \in 1 .. k /\ k \in 1 .. k /\ k - 1 \in 0 .. k
      /\ 0 \in 0 .. k
  OBVIOUS
<1>1. PICK g : Trail(g, n, ds) /\ g[k] = 0
  BY DEF Stored
<1>2. g \in [0 .. k -> Nat] /\ g[0] = n
  BY <1>1 DEF Trail
<1>3. ASSUME NEW i \in 1 .. k
      PROVE  /\ i - 1 \in 0 .. k /\ g[i - 1] \in Nat
             /\ g[i] = g[i - 1] \div 10 /\ ds[i] = g[i - 1] % 10
             /\ g[i - 1] > 0 \/ (i = 1 /\ n = 0)
  <2>1. i - 1 \in 0 .. k
    BY <1>0
  <2> QED BY <1>1, <1>2, <2>1 DEF Trail
<1>4. Decimal(os) = n
  <2> DEFINE h == [j \in 0 .. k |-> g[k - j]]
  <2>1. h \in [0 .. k -> Nat] /\ h[0] = 0 /\ h[k] = n
    <3>1. \A j \in 0 .. k : k - j \in 0 .. k
      BY <1>0
    <3>2. k - 0 = k /\ k - k = 0 /\ k \in 0 .. k
      BY <1>0
    <3> QED BY <1>0, <1>1, <1>2, <3>1, <3>2
  <2>2. ASSUME NEW j \in 1 .. k
        PROVE  h[j] = 10 * h[j - 1] + os[j]
    <3> DEFINE i == k + 1 - j
    <3>1. i \in 1 .. k /\ i - 1 = k - j /\ i = k - (j - 1) /\ j \in 0 .. k /\ j - 1 \in 0 .. k
      BY <1>0
    <3>2. h[j] = g[i - 1] /\ h[j - 1] = g[i]
      BY <3>1
    <3>3. os[j] = ds[i]
      OBVIOUS
    <3> HIDE DEF i, h
    <3>4. g[i] = g[i - 1] \div 10 /\ ds[i] = g[i - 1] % 10 /\ g[i - 1] \in Nat
      BY <1>3, <3>1
    <3>5. g[i - 1] = 10 * (g[i - 1] \div 10) + (g[i - 1] % 10)
      BY <3>4, Tens
    <3> QED BY <3>2, <3>3, <3>4, <3>5
  <2> HIDE DEF h
  <2>3. Decimal(os) = h[Len(os)]
    BY <2>1, <2>2, DecimalIs
  <2> QED BY <2>1, <2>3
<1>5. Len(os) > 1 => os[1] # 0
  <2> SUFFICES ASSUME k > 1
               PROVE  os[1] # 0
    OBVIOUS
  <2>1. os[1] = ds[k] /\ k # 1
    BY <1>0
  <2>2. g[k - 1] \in Nat /\ g[k - 1] > 0 /\ g[k - 1] \div 10 = 0 /\ ds[k] = g[k - 1] % 10
    BY <1>0, <1>1, <1>3, <2>1
  <2>3. ds[k] = g[k - 1]
    BY <2>2, Tens
  <2> QED BY <2>1, <2>2, <2>3
<1>6. n < 10 => Len(os) = 1
  <2> SUFFICES ASSUME n < 10, k > 1
               PROVE  FALSE
    BY <1>0
  <2>1. 1 \in 1 .. k /\ 2 \in 1 .. k /\ 1 - 1 = 0 /\ 2 - 1 = 1
    BY <1>0
  <2>2. g[1] = n \div 10
    BY <1>2, <1>3, <2>1
  <2>3. g[1] > 0
    BY <1>3, <2>1
  <2> QED BY <2>2, <2>3, Tens
<1> QED BY <1>4, <1>5, <1>6

\* A quotient is below what its dividend is a multiple below.
LEMMA QuotientBelow ==
  ASSUME NEW x \in Nat, NEW c \in Nat \ {0}, NEW b \in Nat
  PROVE  x \div c \in Nat /\ x \div c <= x /\ (x < b * c => x \div c < b)
<1> DEFINE y == x \div c
<1>1. y \in Nat /\ c * y <= x
  OBVIOUS
<1> HIDE DEF y
<1>2. (c - 1) * y \in Nat /\ c * y = y + (c - 1) * y
  BY <1>1
<1>3. y <= x
  BY <1>1, <1>2
<1>4. ASSUME x < b * c, y >= b
      PROVE  FALSE
  <2>1. (y - b) * c \in Nat /\ c * y = b * c + (y - b) * c /\ b * c \in Nat
    BY <1>1, <1>4
  <2> QED BY <1>1, <1>4, <2>1
<1>5. x < b * c => y < b
  BY <1>1, <1>4
<1> QED BY <1>1, <1>3, <1>5 DEF y

\* The three numbers report prints fit into the buffer, and the last is a digit.
LEMMA ReportedFit ==
  ASSUME NEW measured \in Cycles, NEW overhead \in Cycles, NEW cycles,
         cycles = Net(measured, overhead)
  PROVE  /\ cycles \in Nat /\ cycles < Pow10[DigitsMax]
         /\ cycles \div CYCLES_PER_US \in Nat
         /\ cycles \div CYCLES_PER_US < Pow10[DigitsMax]
         /\ Tenths(cycles) \in Nat /\ Tenths(cycles) < 10
         /\ Tenths(cycles) < Pow10[DigitsMax]
<1>0. /\ WordSize \in Nat \ {0} /\ WordSize <= Pow10[DigitsMax] /\ DigitsMax \in Nat \ {0}
      /\ CYCLES_PER_US \in Nat \ {0} /\ measured \in Int /\ overhead \in Int
  BY BootAssumption
<1>1. Pow10[DigitsMax] \in Nat /\ 10 <= Pow10[DigitsMax]
  <2>1. DigitsMax - 1 \in Nat /\ (DigitsMax - 1) + 1 = DigitsMax
    BY <1>0
  <2>2. Pow10[DigitsMax - 1] \in Nat \ {0} /\ Pow10[DigitsMax] = 10 * Pow10[DigitsMax - 1]
    BY <2>1, Pow10Def
  <2> QED BY <2>2
<1>2. cycles \in Nat /\ cycles < WordSize
  <2>1. measured - overhead \in Int
    BY <1>0
  <2> HIDE DEF Net
  <2>2. \A x \in Int : x % WordSize \in Nat /\ x % WordSize < WordSize
    BY <1>0
  <2> QED BY <2>1, <2>2 DEF Net
<1>3. cycles < Pow10[DigitsMax]
  BY <1>0, <1>1, <1>2
<1>4. cycles \div CYCLES_PER_US \in Nat /\ cycles \div CYCLES_PER_US <= cycles
  <2>1. 0 \in Nat
    OBVIOUS
  <2> QED BY <1>0, <1>2, <2>1, QuotientBelow
<1>5. cycles \div CYCLES_PER_US < Pow10[DigitsMax]
  BY <1>1, <1>3, <1>2, <1>4
<1>6. Tenths(cycles) \in Nat /\ Tenths(cycles) < 10
  <2> DEFINE r == cycles % CYCLES_PER_US
  <2>1. r \in Nat /\ r < CYCLES_PER_US
    BY <1>0, <1>2
  <2> HIDE DEF r
  <2>2. r * 10 \in Nat /\ r * 10 < 10 * CYCLES_PER_US /\ 10 \in Nat
    BY <1>0, <2>1
  <2>3. (r * 10) \div CYCLES_PER_US \in Nat /\ (r * 10) \div CYCLES_PER_US < 10
    BY <1>0, <2>2, QuotientBelow
  <2> QED BY <2>3 DEF Tenths, r
<1> QED BY <1>1, <1>2, <1>3, <1>4, <1>5, <1>6

\* A new line or a new number: nothing stored, nothing sent.
LEMMA FreshNumber ==
  ASSUME todo' \in Seq(Nat), \A i \in 1 .. Len(todo') : todo'[i] < Pow10[DigitsMax],
         todo' # <<>> => todo'[Len(todo')] < 10 /\ num' = Head(todo'),
         todo' = <<>> => num' = 0, digits' = <<>>, out' = <<>>
  PROVE  PrintInv'
<1>1. Len(digits') = 0 /\ Len(out') = 0 /\ digits' \in Seq(Nat) /\ out' \in Seq(Nat)
      /\ DigitsMax \in Nat
  BY BootAssumption
<1>2. todo' # <<>> => Head(todo') \in Nat
  OBVIOUS
<1>3. num' \in Nat
  BY <1>2
<1>4. todo' # <<>> => Stored(Head(todo'), digits', num')
  BY <1>2, StoredNothing
<1>5. \A j \in 1 .. Len(out') : out'[j] = digits'[Len(digits') + 1 - j]
  BY <1>1
<1> QED BY <1>1, <1>3, <1>4, <1>5 DEF PrintInv, Stored, Trail

LEMMA ReportPrints == ASSUME Report PROVE PrintInv'
<1>1. PICK measured \in Cycles, overhead \in Cycles :
        LET cycles == Net(measured, overhead) IN
        /\ todo' = <<cycles, cycles \div CYCLES_PER_US, Tenths(cycles)>>
        /\ num' = cycles
  BY DEF Report
<1> DEFINE cycles == Net(measured, overhead)
           a == cycles \div CYCLES_PER_US
           b == Tenths(cycles)
<1>2. todo' = <<cycles, a, b>> /\ num' = cycles
  BY <1>1
<1>3. /\ cycles \in Nat /\ cycles < Pow10[DigitsMax] /\ a \in Nat /\ a < Pow10[DigitsMax]
      /\ b \in Nat /\ b < 10 /\ b < Pow10[DigitsMax]
  BY ReportedFit
<1> HIDE DEF cycles, a, b
<1>4. todo' \in Seq(Nat) /\ Len(todo') = 3 /\ todo' # <<>> /\ Head(todo') = num'
      /\ todo'[1] = cycles /\ todo'[2] = a /\ todo'[3] = b
  BY <1>2, <1>3
<1>5. \A i \in 1 .. Len(todo') : todo'[i] < Pow10[DigitsMax]
  BY <1>3, <1>4
<1> QED BY <1>3, <1>4, <1>5, FreshNumber DEF Report

LEMMA NumberNextPrints == ASSUME PrintInv, NumberNext PROVE PrintInv'
<1>1. todo \in Seq(Nat) /\ todo # <<>> /\ todo[Len(todo)] < 10
      /\ \A i \in 1 .. Len(todo) : todo[i] < Pow10[DigitsMax]
  BY DEF PrintInv, NumberNext, Printed
<1> DEFINE k == Len(todo)
           rest == Tail(todo)
<1>2. k \in Nat \ {0} /\ rest \in Seq(Nat) /\ Len(rest) = k - 1
      /\ \A i \in 1 .. k - 1 : rest[i] = todo[i + 1]
  BY <1>1
<1>3. todo' = rest /\ num' = (IF k > 1 THEN todo[2] ELSE 0) /\ digits' = <<>> /\ out' = <<>>
  BY DEF NumberNext
<1> HIDE DEF k, rest
<1>4. \A i \in 1 .. Len(rest) : rest[i] < Pow10[DigitsMax]
  <2> TAKE i \in 1 .. Len(rest)
  <2>1. i \in 1 .. k - 1 /\ i + 1 \in 1 .. k
    BY <1>2
  <2> QED BY <1>1, <1>2, <2>1 DEF k
<1>5. rest # <<>> => k > 1
  BY <1>2
<1>6. k > 1 => Head(rest) = todo[2] /\ rest[Len(rest)] = todo[k]
  <2> SUFFICES ASSUME k > 1
               PROVE  Head(rest) = todo[2] /\ rest[Len(rest)] = todo[k]
    OBVIOUS
  <2>1. 1 \in 1 .. k - 1 /\ k - 1 \in 1 .. k - 1 /\ (k - 1) + 1 = k /\ 1 + 1 = 2
    BY <1>2
  <2>2. rest[1] = todo[2] /\ rest[k - 1] = todo[k]
    BY <1>2, <2>1
  <2>3. Head(rest) = rest[1]
    BY <1>2
  <2> QED BY <1>2, <2>2, <2>3
<1>7. rest = <<>> => ~(k > 1)
  BY <1>2
<1> QED BY <1>1, <1>2, <1>3, <1>4, <1>5, <1>6, <1>7, FreshNumber DEF k

LEMMA StoreDigitPrints == ASSUME PrintInv, StoreDigit PROVE PrintInv'
<1> DEFINE d == num % 10
<1>1. /\ todo # <<>> /\ (num > 0 \/ (Head(todo) = 0 /\ digits = <<>>))
      /\ digits' = Append(digits, d) /\ num' = num \div 10 /\ todo' = todo /\ out' = out
  BY DEF StoreDigit
<1>2. /\ todo \in Seq(Nat) /\ num \in Nat /\ digits \in Seq(Nat) /\ out \in Seq(Nat)
      /\ Head(todo) \in Nat /\ Head(todo) < Pow10[DigitsMax]
      /\ Stored(Head(todo), digits, num) /\ Len(digits) <= DigitsMax
      /\ \A i \in 1 .. Len(todo) : todo[i] < Pow10[DigitsMax]
      /\ todo[Len(todo)] < 10 /\ Len(out) <= Len(digits)
  <2>1. todo \in Seq(Nat) /\ todo # <<>>
    BY <1>1 DEF PrintInv
  <2>2. 1 \in 1 .. Len(todo) /\ Head(todo) = todo[1] /\ Head(todo) \in Nat
    BY <2>1
  <2> QED BY <1>1, <2>2 DEF PrintInv
<1>3. out = <<>>
  BY <1>1, <1>2 DEF PrintInv
<1>4. d \in Nat /\ num \div 10 \in Nat
  BY <1>2, Tens
<1>5. Stored(Head(todo), digits', num')
  BY <1>1, <1>2, StoredMore
<1>6. DigitsMax \in Nat /\ Len(digits) < DigitsMax
  BY <1>1, <1>2, RoomForDigit, BootAssumption
<1> HIDE DEF d
<1>7. digits' \in Seq(Nat) /\ Len(digits') = Len(digits) + 1 /\ Len(digits) \in Nat
  BY <1>1, <1>2, <1>4
<1>8. Len(out') = 0
  BY <1>1, <1>3
<1>9. Len(digits') <= DigitsMax /\ Len(out') <= Len(digits')
  BY <1>6, <1>7, <1>8
<1>10. \A j \in 1 .. Len(out') : out'[j] = digits'[Len(digits') + 1 - j]
  BY <1>8
<1>11. num' \in Nat
  BY <1>1, <1>4
<1> HIDE DEF Stored
<1>12. todo' = todo /\ todo # <<>> /\ out' = out
  BY <1>1
<1> QED BY <1>2, <1>3, <1>5, <1>7, <1>9, <1>10, <1>11, <1>12 DEF PrintInv

LEMMA SendDigitPrints == ASSUME PrintInv, SendDigit PROVE PrintInv'
<1> DEFINE o == digits[Len(digits) - Len(out)]
           l == Len(out)
<1>1. /\ num = 0 /\ Len(out) < Len(digits) /\ out' = Append(out, o)
      /\ UNCHANGED <<todo, num, digits>>
  BY DEF SendDigit, SentDigit
<1>2. digits \in Seq(Nat) /\ out \in Seq(Nat) /\ l \in Nat /\ Len(digits) \in Nat
      /\ \A j \in 1 .. Len(out) : out[j] = digits[Len(digits) + 1 - j]
  BY DEF PrintInv
<1>3. Len(digits) - l \in 1 .. Len(digits) /\ o \in Nat
  BY <1>1, <1>2
<1> HIDE DEF o
<1>4. /\ out' \in Seq(Nat) /\ Len(out') = l + 1 /\ out'[l + 1] = o
      /\ \A j \in 1 .. l : out'[j] = out[j]
  BY <1>1, <1>2, <1>3
<1>5. ASSUME NEW j \in 1 .. l + 1
      PROVE  out'[j] = digits[Len(digits) + 1 - j]
  <2>1. CASE j \in 1 .. l
    BY <1>2, <1>4, <2>1
  <2>2. CASE j = l + 1
    <3>1. Len(digits) + 1 - j = Len(digits) - l
      BY <1>2, <2>2
    <3> QED BY <1>4, <2>2, <3>1 DEF o
  <2> QED BY <1>2, <2>1, <2>2
<1>6. \A j \in 1 .. Len(out') : out'[j] = digits'[Len(digits') + 1 - j]
  BY <1>1, <1>4, <1>5
<1>7. Len(out') <= Len(digits') /\ digits # <<>>
  BY <1>1, <1>2, <1>4
<1>8. todo # <<>>
  BY <1>7 DEF PrintInv
<1> HIDE DEF l
<1>9. num' = num /\ todo' = todo /\ digits' = digits
  BY <1>1
<1>10. todo' # <<>> => Stored(Head(todo'), digits', num')
  BY <1>9 DEF PrintInv
<1>11. /\ todo' \in Seq(Nat) /\ \A i \in 1 .. Len(todo') : todo'[i] < Pow10[DigitsMax]
  BY <1>9 DEF PrintInv
<1>12. num' \in Nat /\ digits' \in Seq(Nat) /\ Len(digits') <= DigitsMax
  BY <1>9 DEF PrintInv
<1>13. todo' # <<>> => todo'[Len(todo')] < 10
  BY <1>9 DEF PrintInv
<1> HIDE DEF Stored
<1> QED BY <1>1, <1>4, <1>6, <1>7, <1>8, <1>9, <1>10, <1>11, <1>12, <1>13 DEF PrintInv

\* Whatever is printed, and wherever the button interrupts it.
THEOREM PrintInvariance == BootSpec => []PrintInv
<1>1. BootInit => PrintInv
  <2> SUFFICES ASSUME BootInit
               PROVE  PrintInv
    OBVIOUS
  <2>1. todo = <<>> /\ num = 0 /\ digits = <<>> /\ out = <<>> /\ DigitsMax \in Nat
    BY BootAssumption DEF BootInit
  <2> QED BY <2>1 DEF PrintInv
<1>2. PrintInv /\ [BootNext]_bootVars => PrintInv'
  <2> SUFFICES ASSUME PrintInv, [BootNext]_bootVars
               PROVE  PrintInv'
    OBVIOUS
  <2>1. CASE Report
    BY <2>1, ReportPrints
  <2>2. CASE StoreDigit
    BY <2>2, StoreDigitPrints
  <2>3. CASE SendDigit
    BY <2>3, SendDigitPrints
  <2>4. CASE NumberNext
    BY <2>4, NumberNextPrints
  <2>5. CASE Restart
    <3>1. todo' = <<>> /\ num' = 0 /\ digits' = <<>> /\ out' = <<>> /\ DigitsMax \in Nat
      BY <2>5, BootAssumption DEF Restart
    <3> QED BY <3>1 DEF PrintInv
  <2>6. ASSUME UNCHANGED printVars
        PROVE  PrintInv'
    <3>1. todo' = todo /\ num' = num /\ digits' = digits /\ out' = out
      BY <2>6 DEF printVars
    <3> QED BY <3>1 DEF PrintInv, Stored, Trail
  <2>7. CASE Reset \/ PostInit \/ PostCall \/ InitObjects \/ TaskCreate
    BY <2>6, <2>7 DEF Reset, PostInit, PostCall, InitObjects, TaskCreate
  <2>8. CASE BenchBegin \/ BenchPair \/ BenchSchedule \/ BenchNext
    BY <2>6, <2>8 DEF BenchBegin, BenchPair, BenchSchedule, BenchNext
  <2>9. CASE Launch \/ FirstTask \/ Running
    BY <2>6, <2>9 DEF Launch, FirstTask, Running
  <2>10. CASE UNCHANGED bootVars
    BY <2>6, <2>10 DEF bootVars
  <2> QED BY <2>1, <2>2, <2>3, <2>4, <2>5, <2>7, <2>8, <2>9, <2>10 DEF BootNext, Boots
<1> QED BY <1>1, <1>2, PTL DEF BootSpec

\* uart_print_number sends the decimal representation of any word, report's tenths
\* are one digit, and no number is too long for the buffer.
THEOREM NumbersSound == BootSpec => []NumbersPrinted
<1>1. PrintInv => NumbersPrinted
  <2> SUFFICES ASSUME PrintInv
               PROVE  NumbersPrinted
    OBVIOUS
  <2>1. Len(digits) <= DigitsMax
    BY DEF PrintInv
  <2>2. ASSUME Printed
        PROVE  /\ Decimal(out) = Head(todo)
               /\ Len(out) > 1 => out[1] # 0
               /\ Len(todo) = 1 => Len(out) = 1
    <3>1. num = 0 /\ digits # <<>> /\ Len(out) = Len(digits)
      BY <2>2 DEF Printed
    <3>2. /\ todo \in Seq(Nat) /\ todo # <<>> /\ todo[Len(todo)] < 10
          /\ digits \in Seq(Nat) /\ out \in Seq(Nat) /\ Stored(Head(todo), digits, 0)
          /\ \A j \in 1 .. Len(out) : out[j] = digits[Len(digits) + 1 - j]
      BY <3>1 DEF PrintInv
    <3>3. Head(todo) \in Nat /\ Head(todo) = todo[1]
      BY <3>2
    <3>4. /\ Decimal(out) = Head(todo)
          /\ Len(out) > 1 => out[1] # 0
          /\ Head(todo) < 10 => Len(out) = 1
      BY <3>1, <3>2, <3>3, SentIsDecimal
    <3>5. Len(todo) = 1 => Head(todo) < 10
      BY <3>2, <3>3
    <3> QED BY <3>4, <3>5
  <2> QED BY <2>1, <2>2 DEF NumbersPrinted
<1> QED BY <1>1, PrintInvariance, PTL

-----------------------------------------------------------------------------
(* os_run_post.                                                            *)

CallSet ==
  [do : {"acquire", "release", "take", "give", "send", "receive"}, arg : Nat,
   results : SUBSET Nat, values : SUBSET Nat]

\* The entries of a list that is made of two.
LEMMA JoinedAt ==
  ASSUME NEW a \in Seq(CallSet), NEW b \in Seq(CallSet)
  PROVE  /\ a \o b \in Seq(CallSet) /\ Len(a \o b) = Len(a) + Len(b)
         /\ \A i \in 1 .. Len(a) : (a \o b)[i] = a[i]
         /\ \A i \in 1 .. Len(b) : (a \o b)[Len(a) + i] = b[i]
OBVIOUS

\* The entries of a list that is given by a formula.
LEMMA ListedAt ==
  ASSUME NEW f, NEW k \in Nat, f \in [1 .. k -> CallSet]
  PROVE  f \in Seq(CallSet) /\ Len(f) = k
OBVIOUS

\* The calls of the self-test, by their number.
LEMMA ScriptIs ==
  /\ Len(PostScript) = 27
  /\ PostScript[1] = Call("acquire", 0, {OS_SUCCESS}, {1})
  /\ PostScript[2] = Call("acquire", 0, {OS_TIMEOUT, OS_FAIL}, Any)
  /\ PostScript[3] = Call("release", 0, {OS_SUCCESS}, {0})
  /\ PostScript[4] = Call("take", 0, {OS_SUCCESS}, {1})
  /\ PostScript[5] = Call("take", 0, {OS_SUCCESS}, {0})
  /\ PostScript[6] = Call("take", 0, {OS_TIMEOUT}, Any)
  /\ PostScript[7] = Call("give", 0, {OS_SUCCESS}, {1})
  /\ PostScript[8] = Call("give", 0, {OS_SUCCESS}, Any)
  /\ PostScript[9] = Call("give", 0, {OS_SUCCESS}, {2})
  /\ PostScript[10] = Call("send", 5, {OS_SUCCESS}, Any)
  /\ PostScript[11] = Call("receive", 0, {OS_SUCCESS}, {5})
  /\ \A i \in 1 .. 4 : PostScript[11 + i] = Call("send", i, {OS_SUCCESS}, Any)
  /\ \A i \in 1 .. 4 : PostScript[15 + i] = Call("receive", 0, {OS_SUCCESS}, {i})
  /\ PostScript[20] = Call("receive", 0, {OS_TIMEOUT}, Any)
  /\ \A i \in 1 .. 6 : PostScript[20 + i] = Call("send", i, {OS_SUCCESS}, Any)
  /\ PostScript[27] = Call("receive", 0, {OS_SUCCESS}, {3})
<1> DEFINE a1 == << Call("acquire", 0, {OS_SUCCESS}, {1}),
                    Call("acquire", 0, {OS_TIMEOUT, OS_FAIL}, Any),
                    Call("release", 0, {OS_SUCCESS}, {0}),
                    Call("take", 0, {OS_SUCCESS}, {1}),
                    Call("take", 0, {OS_SUCCESS}, {0}),
                    Call("take", 0, {OS_TIMEOUT}, Any),
                    Call("give", 0, {OS_SUCCESS}, {1}),
                    Call("give", 0, {OS_SUCCESS}, Any),
                    Call("give", 0, {OS_SUCCESS}, {2}),
                    Call("send", 5, {OS_SUCCESS}, Any),
                    Call("receive", 0, {OS_SUCCESS}, {5}) >>
           a4 == << Call("receive", 0, {OS_TIMEOUT}, Any) >>
           a6 == << Call("receive", 0, {OS_SUCCESS}, {3}) >>
           s4 == Sends(4)
           r4 == Receives(4)
           s6 == Sends(6)
           b2 == a1 \o s4
           b3 == b2 \o r4
           b4 == b3 \o a4
           b5 == b4 \o s6
<1>0. PostScript = b5 \o a6
  BY DEF PostScript
<1>1. \A i \in Nat : Call("send", i, {OS_SUCCESS}, Any) \in CallSet
  BY DEF Call, CallSet, Any, OS_SUCCESS, OS_TIMEOUT, OS_FAIL
<1>1a. \A i \in Nat : Call("receive", 0, {OS_SUCCESS}, {i}) \in CallSet
  BY DEF Call, CallSet, Any, OS_SUCCESS, OS_TIMEOUT, OS_FAIL
<1>2. /\ Call("acquire", 0, {OS_SUCCESS}, {1}) \in CallSet
      /\ Call("acquire", 0, {OS_TIMEOUT, OS_FAIL}, Any) \in CallSet
      /\ Call("release", 0, {OS_SUCCESS}, {0}) \in CallSet
      /\ Call("take", 0, {OS_SUCCESS}, {1}) \in CallSet
      /\ Call("take", 0, {OS_SUCCESS}, {0}) \in CallSet
      /\ Call("take", 0, {OS_TIMEOUT}, Any) \in CallSet
      /\ Call("give", 0, {OS_SUCCESS}, {1}) \in CallSet
      /\ Call("give", 0, {OS_SUCCESS}, Any) \in CallSet
      /\ Call("give", 0, {OS_SUCCESS}, {2}) \in CallSet
      /\ Call("send", 5, {OS_SUCCESS}, Any) \in CallSet
      /\ Call("receive", 0, {OS_SUCCESS}, {5}) \in CallSet
      /\ Call("receive", 0, {OS_SUCCESS}, {3}) \in CallSet
      /\ Call("receive", 0, {OS_TIMEOUT}, Any) \in CallSet
  BY DEF Call, CallSet, Any, OS_SUCCESS, OS_TIMEOUT, OS_FAIL
<1>3. /\ s4 \in Seq(CallSet) /\ Len(s4) = 4
      /\ \A i \in 1 .. 4 : s4[i] = Call("send", i, {OS_SUCCESS}, Any)
  <2>1. s4 \in [1 .. 4 -> CallSet]
    BY <1>1 DEF Sends
  <2>2. \A i \in 1 .. 4 : s4[i] = Call("send", i, {OS_SUCCESS}, Any)
    BY DEF Sends
  <2> QED BY <2>1, <2>2, ListedAt
<1>4. /\ s6 \in Seq(CallSet) /\ Len(s6) = 6
      /\ \A i \in 1 .. 6 : s6[i] = Call("send", i, {OS_SUCCESS}, Any)
  <2>1. s6 \in [1 .. 6 -> CallSet]
    BY <1>1 DEF Sends
  <2>2. \A i \in 1 .. 6 : s6[i] = Call("send", i, {OS_SUCCESS}, Any)
    BY DEF Sends
  <2> QED BY <2>1, <2>2, ListedAt
<1>5. /\ r4 \in Seq(CallSet) /\ Len(r4) = 4
      /\ \A i \in 1 .. 4 : r4[i] = Call("receive", 0, {OS_SUCCESS}, {i})
  <2>1. r4 \in [1 .. 4 -> CallSet]
    BY <1>1a DEF Receives
  <2>2. \A i \in 1 .. 4 : r4[i] = Call("receive", 0, {OS_SUCCESS}, {i})
    BY DEF Receives
  <2> QED BY <2>1, <2>2, ListedAt
<1>6. /\ a4 \in Seq(CallSet) /\ Len(a4) = 1 /\ a4[1] = Call("receive", 0, {OS_TIMEOUT}, Any)
      /\ a6 \in Seq(CallSet) /\ Len(a6) = 1 /\ a6[1] = Call("receive", 0, {OS_SUCCESS}, {3})
  BY <1>2
<1>7. a1 \in Seq(CallSet) /\ Len(a1) = 11
  BY <1>2
<1>8. /\ a1[1] = Call("acquire", 0, {OS_SUCCESS}, {1})
      /\ a1[2] = Call("acquire", 0, {OS_TIMEOUT, OS_FAIL}, Any)
      /\ a1[3] = Call("release", 0, {OS_SUCCESS}, {0})
      /\ a1[4] = Call("take", 0, {OS_SUCCESS}, {1})
      /\ a1[5] = Call("take", 0, {OS_SUCCESS}, {0})
      /\ a1[6] = Call("take", 0, {OS_TIMEOUT}, Any)
      /\ a1[7] = Call("give", 0, {OS_SUCCESS}, {1})
      /\ a1[8] = Call("give", 0, {OS_SUCCESS}, Any)
      /\ a1[9] = Call("give", 0, {OS_SUCCESS}, {2})
      /\ a1[10] = Call("send", 5, {OS_SUCCESS}, Any)
      /\ a1[11] = Call("receive", 0, {OS_SUCCESS}, {5})
  OBVIOUS
<1> HIDE DEF a1, a4, a6, s4, r4, s6
<1>9a. /\ b2 \in Seq(CallSet) /\ Len(b2) = 15
       /\ \A i \in 1 .. 11 : b2[i] = a1[i]
       /\ \A i \in 1 .. 4 : b2[11 + i] = s4[i]
  <2>1. a1 \in Seq(CallSet) /\ s4 \in Seq(CallSet) /\ Len(a1) = 11 /\ Len(s4) = 4
    BY <1>3, <1>7
  <2>2. /\ b2 = a1 \o s4
    BY DEF b2
  <2> HIDE DEF b2
  <2>3. /\ b2 \in Seq(CallSet) /\ Len(b2) = Len(a1) + Len(s4)
        /\ \A i \in 1 .. Len(a1) : b2[i] = a1[i]
        /\ \A i \in 1 .. Len(s4) : b2[Len(a1) + i] = s4[i]
    BY <2>1, <2>2, JoinedAt, ZenonT(60)
  <2> QED BY <2>1, <2>3
<1>9. b2 \in Seq(CallSet) /\ Len(b2) = 15
  BY <1>9a
<1>9e. /\ \A i \in 1 .. 11 : b2[i] = a1[i]
       /\ \A i \in 1 .. 4 : b2[11 + i] = s4[i]
  BY <1>9a
<1> HIDE DEF b2
<1>10a. /\ b3 \in Seq(CallSet) /\ Len(b3) = 19
        /\ \A i \in 1 .. 15 : b3[i] = b2[i]
        /\ \A i \in 1 .. 4 : b3[15 + i] = r4[i]
  <2>1. b2 \in Seq(CallSet) /\ r4 \in Seq(CallSet) /\ Len(b2) = 15 /\ Len(r4) = 4
    BY <1>5, <1>9
  <2>2. /\ b3 = b2 \o r4
    BY DEF b3
  <2> HIDE DEF b3
  <2>3. /\ b3 \in Seq(CallSet) /\ Len(b3) = Len(b2) + Len(r4)
        /\ \A i \in 1 .. Len(b2) : b3[i] = b2[i]
        /\ \A i \in 1 .. Len(r4) : b3[Len(b2) + i] = r4[i]
    BY <2>1, <2>2, JoinedAt, ZenonT(60)
  <2> QED BY <2>1, <2>3
<1>10. b3 \in Seq(CallSet) /\ Len(b3) = 19
  BY <1>10a
<1>10e. /\ \A i \in 1 .. 15 : b3[i] = b2[i]
        /\ \A i \in 1 .. 4 : b3[15 + i] = r4[i]
  BY <1>10a
<1> HIDE DEF b3
<1>11a. /\ b4 \in Seq(CallSet) /\ Len(b4) = 20
        /\ \A i \in 1 .. 19 : b4[i] = b3[i]
        /\ b4[20] = a4[1]
  <2>1. b3 \in Seq(CallSet) /\ a4 \in Seq(CallSet) /\ Len(b3) = 19 /\ Len(a4) = 1
    BY <1>6, <1>10
  <2>2. /\ b4 = b3 \o a4
    BY DEF b4
  <2> HIDE DEF b4
  <2>3. /\ b4 \in Seq(CallSet) /\ Len(b4) = Len(b3) + Len(a4)
        /\ \A i \in 1 .. Len(b3) : b4[i] = b3[i]
        /\ \A i \in 1 .. Len(a4) : b4[Len(b3) + i] = a4[i]
    BY <2>1, <2>2, JoinedAt
  <2> QED BY <2>1, <2>3
<1>11. b4 \in Seq(CallSet) /\ Len(b4) = 20
  BY <1>11a
<1>11e. /\ \A i \in 1 .. 19 : b4[i] = b3[i]
        /\ b4[20] = a4[1]
  BY <1>11a
<1> HIDE DEF b4
<1>12a. /\ b5 \in Seq(CallSet) /\ Len(b5) = 26
        /\ \A i \in 1 .. 20 : b5[i] = b4[i]
        /\ \A i \in 1 .. 6 : b5[20 + i] = s6[i]
  <2>1. b4 \in Seq(CallSet) /\ s6 \in Seq(CallSet) /\ Len(b4) = 20 /\ Len(s6) = 6
    BY <1>4, <1>11
  <2>2. /\ b5 = b4 \o s6
    BY DEF b5
  <2> HIDE DEF b5
  <2>3. /\ b5 \in Seq(CallSet) /\ Len(b5) = Len(b4) + Len(s6)
        /\ \A i \in 1 .. Len(b4) : b5[i] = b4[i]
        /\ \A i \in 1 .. Len(s6) : b5[Len(b4) + i] = s6[i]
    BY <2>1, <2>2, JoinedAt, ZenonT(60)
  <2> QED BY <2>1, <2>3
<1>12. b5 \in Seq(CallSet) /\ Len(b5) = 26
  BY <1>12a
<1>12e. /\ \A i \in 1 .. 20 : b5[i] = b4[i]
        /\ \A i \in 1 .. 6 : b5[20 + i] = s6[i]
  BY <1>12a
<1> HIDE DEF b5
<1>13. /\ Len(PostScript) = 27
       /\ \A i \in 1 .. 26 : PostScript[i] = b5[i]
       /\ PostScript[27] = a6[1]
  <2>1. b5 \in Seq(CallSet) /\ a6 \in Seq(CallSet) /\ Len(b5) = 26 /\ Len(a6) = 1
    BY <1>6, <1>12
  <2>2. /\ PostScript = b5 \o a6
    BY <1>0
  <2>3. /\ PostScript \in Seq(CallSet) /\ Len(PostScript) = Len(b5) + Len(a6)
        /\ \A i \in 1 .. Len(b5) : PostScript[i] = b5[i]
        /\ \A i \in 1 .. Len(a6) : PostScript[Len(b5) + i] = a6[i]
    BY <2>1, <2>2, JoinedAt, ZenonT(60)
  <2> QED BY <2>1, <2>3
<1>14. \A i \in 1 .. 11 : PostScript[i] = a1[i]
  BY <1>9e, <1>10e, <1>11e, <1>12e, <1>13
<1>15. \A i \in 1 .. 4 : PostScript[11 + i] = s4[i] /\ PostScript[15 + i] = r4[i]
  <2> TAKE i \in 1 .. 4
  <2>1. 11 + i \in 1 .. 15 /\ 15 + i \in 1 .. 19 /\ 11 + i \in 1 .. 19
    OBVIOUS
  <2> QED BY <1>9e, <1>10e, <1>11e, <1>12e, <1>13, <2>1
<1>16. \A i \in 1 .. 6 : PostScript[20 + i] = s6[i]
  BY <1>12e, <1>13
<1>17. PostScript[20] = a4[1]
  BY <1>11e, <1>12e, <1>13
<1>18. /\ \A i \in 1 .. 4 : s4[i] = Call("send", i, {OS_SUCCESS}, Any)
       /\ \A i \in 1 .. 4 : r4[i] = Call("receive", 0, {OS_SUCCESS}, {i})
       /\ \A i \in 1 .. 6 : s6[i] = Call("send", i, {OS_SUCCESS}, Any)
  BY <1>3, <1>4, <1>5
<1>19. /\ a4[1] = Call("receive", 0, {OS_TIMEOUT}, Any)
       /\ a6[1] = Call("receive", 0, {OS_SUCCESS}, {3})
  BY <1>6
<1>20. /\ \A i \in 1 .. 4 : PostScript[11 + i] = Call("send", i, {OS_SUCCESS}, Any)
       /\ \A i \in 1 .. 4 : PostScript[15 + i] = Call("receive", 0, {OS_SUCCESS}, {i})
       /\ \A i \in 1 .. 6 : PostScript[20 + i] = Call("send", i, {OS_SUCCESS}, Any)
  BY <1>15, <1>16, <1>18
<1>21. /\ 1 \in 1 .. 11 /\ 2 \in 1 .. 11 /\ 3 \in 1 .. 11 /\ 4 \in 1 .. 11 /\ 5 \in 1 .. 11
       /\ 6 \in 1 .. 11 /\ 7 \in 1 .. 11 /\ 8 \in 1 .. 11 /\ 9 \in 1 .. 11
       /\ 10 \in 1 .. 11 /\ 11 \in 1 .. 11
  OBVIOUS
<1> QED BY <1>8, <1>13, <1>14, <1>17, <1>19, <1>20, <1>21

-----------------------------------------------------------------------------
\* The queue of the test holds the messages after a up to b: message v is in slot
\* v + o, modulo the capacity.
Holds(x, a, b, o) ==
  /\ DOMAIN x = {"buffer", "head", "tail", "lock", "empty_slots", "filled_slots"}
  /\ DOMAIN x.buffer = 0 .. 3 /\ x.lock = NewMutex(NULL)
  /\ a <= b /\ b <= a + 4
  /\ x.tail = (a + 1 + o) % 4 /\ x.head = (b + 1 + o) % 4
  /\ x.empty_slots = NewSemaphore(4 - (b - a), 4)
  /\ x.filled_slots = NewSemaphore(b - a, 4)
  /\ \A v \in a + 1 .. b : x.buffer[(v + o) % 4] = v

\* The calls of the queue, field by field.
LEMMA SentFields ==
  ASSUME NEW x, NEW e,
         DOMAIN x = {"buffer", "head", "tail", "lock", "empty_slots", "filled_slots"}
  PROVE  /\ DOMAIN QueueSent(x, e) = DOMAIN x
         /\ QueueSent(x, e).buffer = [x.buffer EXCEPT ![x.head] = e]
         /\ QueueSent(x, e).head = (x.head + 1) % x.empty_slots.max_count
         /\ QueueSent(x, e).tail = IF SemAcquired(x.empty_slots)[2] = OS_SUCCESS THEN x.tail
                                   ELSE (x.tail + 1) % x.empty_slots.max_count
         /\ QueueSent(x, e).lock = MutexReleased(MutexAcquired(x.lock)[1])
         /\ QueueSent(x, e).empty_slots = SemAcquired(x.empty_slots)[1]
         /\ QueueSent(x, e).filled_slots =
              IF SemAcquired(x.empty_slots)[2] = OS_SUCCESS
              THEN SemReleased(x.filled_slots) ELSE x.filled_slots
BY DEF QueueSent

LEMMA ReceivedFields ==
  ASSUME NEW x,
         DOMAIN x = {"buffer", "head", "tail", "lock", "empty_slots", "filled_slots"}
  PROVE  /\ DOMAIN QueueReceived(x) = DOMAIN x
         /\ QueueReceived(x).buffer = x.buffer
         /\ QueueReceived(x).head = x.head
         /\ QueueReceived(x).tail = (x.tail + 1) % x.empty_slots.max_count
         /\ QueueReceived(x).lock = MutexReleased(MutexAcquired(x.lock)[1])
         /\ QueueReceived(x).empty_slots = SemReleased(x.empty_slots)
         /\ QueueReceived(x).filled_slots = SemAcquired(x.filled_slots)[1]
BY DEF QueueReceived

\* The lock of the queue is free again.
LEMMA LockFree == MutexReleased(MutexAcquired(NewMutex(NULL))[1]) = NewMutex(NULL)
BY DEF MutexReleased, MutexAcquired, NewMutex

\* A send appends its message, over the oldest one when the queue is full.
LEMMA SendHolds ==
  ASSUME NEW x, NEW a \in Nat, NEW b \in Nat, NEW o \in Nat, NEW e, Holds(x, a, b, o), e = b + 1
  PROVE  Holds(QueueSent(x, e), IF b - a < 4 THEN a ELSE a + 1, b + 1, o)
<1> DEFINE y == QueueSent(x, e)
           na == IF b - a < 4 THEN a ELSE a + 1
<1>1. /\ DOMAIN x = {"buffer", "head", "tail", "lock", "empty_slots", "filled_slots"}
      /\ DOMAIN x.buffer = 0 .. 3 /\ x.lock = NewMutex(NULL)
      /\ a <= b /\ b <= a + 4
      /\ x.tail = (a + 1 + o) % 4 /\ x.head = (b + 1 + o) % 4
      /\ x.empty_slots = NewSemaphore(4 - (b - a), 4)
      /\ x.filled_slots = NewSemaphore(b - a, 4)
      /\ \A v \in a + 1 .. b : x.buffer[(v + o) % 4] = v
  BY DEF Holds
<1>2. /\ DOMAIN y = DOMAIN x
      /\ y.buffer = [x.buffer EXCEPT ![x.head] = e]
      /\ y.head = (x.head + 1) % x.empty_slots.max_count
      /\ y.tail = IF SemAcquired(x.empty_slots)[2] = OS_SUCCESS THEN x.tail
                  ELSE (x.tail + 1) % x.empty_slots.max_count
      /\ y.lock = MutexReleased(MutexAcquired(x.lock)[1])
      /\ y.empty_slots = SemAcquired(x.empty_slots)[1]
      /\ y.filled_slots = IF SemAcquired(x.empty_slots)[2] = OS_SUCCESS
                          THEN SemReleased(x.filled_slots) ELSE x.filled_slots
  BY <1>1, SentFields
<1> HIDE DEF y
<1>3. x.head \in 0 .. 3 /\ na \in Nat /\ x.empty_slots.max_count = 4
  BY <1>1 DEF NewSemaphore
<1>4. y.lock = NewMutex(NULL)
  BY <1>1, <1>2, LockFree
<1>5. DOMAIN y.buffer = 0 .. 3
  BY <1>1, <1>2
<1>6. \A v \in na + 1 .. b + 1 : y.buffer[(v + o) % 4] = v
  <2> TAKE v \in na + 1 .. b + 1
  <2>0. (v + o) % 4 \in 0 .. 3
    OBVIOUS
  <2>1. CASE v = b + 1
    BY <1>1, <1>2, <1>3, <2>1
  <2>2. CASE v \in na + 1 .. b
    <3>1. v \in a + 1 .. b /\ (v + o) % 4 # (b + 1 + o) % 4
      BY <1>1, <2>2
    <3> QED BY <1>1, <1>2, <1>3, <2>0, <3>1
  <2> QED BY <1>3, <2>1, <2>2
<1>7. na <= b + 1 /\ b + 1 <= na + 4
  BY <1>1
<1>8. y.head = (b + 1 + 1 + o) % 4
  <2>1. (((b + 1 + o) % 4) + 1) % 4 = (b + 1 + 1 + o) % 4
    OBVIOUS
  <2> QED BY <1>1, <1>2, <1>3, <2>1
<1>9. /\ y.tail = (na + 1 + o) % 4
      /\ y.empty_slots = NewSemaphore(4 - ((b + 1) - na), 4)
      /\ y.filled_slots = NewSemaphore((b + 1) - na, 4)
  <2>1. CASE b - a < 4
    <3>1. 4 - (b - a) > 0 /\ b - a < 4 /\ na = a
      BY <2>1
    <3>2. SemAcquired(x.empty_slots) = <<NewSemaphore(4 - (b - a) - 1, 4), OS_SUCCESS>>
      BY <1>1, <3>1 DEF SemAcquired, NewSemaphore
    <3>3. SemReleased(x.filled_slots) = NewSemaphore(b - a + 1, 4)
      BY <1>1, <3>1 DEF SemReleased, NewSemaphore
    <3>4. 4 - (b - a) - 1 = 4 - ((b + 1) - a) /\ b - a + 1 = (b + 1) - a
      OBVIOUS
    <3>5. SemAcquired(x.empty_slots)[2] = OS_SUCCESS
          /\ SemAcquired(x.empty_slots)[1] = NewSemaphore(4 - (b - a) - 1, 4)
      BY <3>2
    <3>6. y.tail = x.tail /\ y.empty_slots = NewSemaphore(4 - (b - a) - 1, 4)
          /\ y.filled_slots = NewSemaphore(b - a + 1, 4)
      BY <1>2, <3>3, <3>5
    <3> HIDE DEF na
    <3> QED BY <1>1, <3>1, <3>4, <3>6
  <2>2. CASE ~(b - a < 4)
    <3>1. b - a = 4 /\ na = a + 1
      BY <1>1, <2>2
    <3>2. SemAcquired(x.empty_slots) = <<NewSemaphore(0, 4), OS_TIMEOUT>>
      BY <1>1, <3>1 DEF SemAcquired, NewSemaphore
    <3>3. OS_TIMEOUT # OS_SUCCESS
      BY DEF OS_TIMEOUT, OS_SUCCESS
    <3>4. (((a + 1 + o) % 4) + 1) % 4 = (a + 1 + 1 + o) % 4
      OBVIOUS
    <3>5. 4 - ((b + 1) - (a + 1)) = 0 /\ (b + 1) - (a + 1) = 4
      BY <3>1
    <3>6. SemAcquired(x.empty_slots)[2] # OS_SUCCESS
          /\ SemAcquired(x.empty_slots)[1] = NewSemaphore(0, 4)
      BY <3>2, <3>3
    <3>7. y.tail = (x.tail + 1) % 4 /\ y.empty_slots = NewSemaphore(0, 4)
          /\ y.filled_slots = NewSemaphore(4, 4)
      BY <1>1, <1>2, <1>3, <3>1, <3>6
    <3> HIDE DEF na
    <3> QED BY <1>1, <3>1, <3>4, <3>5, <3>7
  <2> QED BY <2>1, <2>2
<1> HIDE DEF na
<1>10. Holds(y, na, b + 1, o)
  <2>1. DOMAIN y = {"buffer", "head", "tail", "lock", "empty_slots", "filled_slots"}
    BY <1>1, <1>2
  <2> DEFINE d == b + 1
  <2>2. y.tail = (na + 1 + o) % 4
    BY <1>9
  <2>2a. y.head = (d + 1 + o) % 4
    BY <1>8
  <2>2b. y.empty_slots = NewSemaphore(4 - (d - na), 4)
    BY <1>9
  <2>2c. y.filled_slots = NewSemaphore(d - na, 4)
    BY <1>9
  <2>3. na <= d /\ d <= na + 4 /\ \A v \in na + 1 .. d : y.buffer[(v + o) % 4] = v
    BY <1>6, <1>7
  <2> HIDE DEF d
  <2>4. Holds(y, na, d, o)
    BY <1>4, <1>5, <2>1, <2>2, <2>2a, <2>2b, <2>2c, <2>3 DEF Holds
  <2> QED BY <2>4 DEF d
<1> QED BY <1>10 DEF na, y

\* A receive takes the oldest message.
LEMMA ReceiveHolds ==
  ASSUME NEW x, NEW a \in Nat, NEW b \in Nat, NEW o \in Nat, Holds(x, a, b, o), a < b
  PROVE  /\ Holds(QueueReceived(x), a + 1, b, o)
         /\ SemAcquired(x.filled_slots)[2] = OS_SUCCESS /\ x.filled_slots.count > 0
         /\ x.buffer[x.tail] = a + 1
<1> DEFINE y == QueueReceived(x)
<1>1. /\ DOMAIN x = {"buffer", "head", "tail", "lock", "empty_slots", "filled_slots"}
      /\ DOMAIN x.buffer = 0 .. 3 /\ x.lock = NewMutex(NULL)
      /\ a <= b /\ b <= a + 4
      /\ x.tail = (a + 1 + o) % 4 /\ x.head = (b + 1 + o) % 4
      /\ x.empty_slots = NewSemaphore(4 - (b - a), 4)
      /\ x.filled_slots = NewSemaphore(b - a, 4)
      /\ \A v \in a + 1 .. b : x.buffer[(v + o) % 4] = v
  BY DEF Holds
<1>2. /\ DOMAIN y = DOMAIN x /\ y.buffer = x.buffer /\ y.head = x.head
      /\ y.tail = (x.tail + 1) % x.empty_slots.max_count
      /\ y.lock = MutexReleased(MutexAcquired(x.lock)[1])
      /\ y.empty_slots = SemReleased(x.empty_slots)
      /\ y.filled_slots = SemAcquired(x.filled_slots)[1]
  BY <1>1, ReceivedFields
<1> HIDE DEF y
<1>3. SemAcquired(x.filled_slots) = <<NewSemaphore(b - a - 1, 4), OS_SUCCESS>>
  BY <1>1 DEF SemAcquired, NewSemaphore
<1>4. SemReleased(x.empty_slots) = NewSemaphore(4 - (b - a) + 1, 4)
  <2>1. 4 - (b - a) < 4
    OBVIOUS
  <2> QED BY <1>1, <2>1 DEF SemReleased, NewSemaphore
<1>5. y.tail = ((a + 1) + 1 + o) % 4
  <2>1. (((a + 1 + o) % 4) + 1) % 4 = ((a + 1) + 1 + o) % 4
    OBVIOUS
  <2>2. x.empty_slots.max_count = 4
    BY <1>1 DEF NewSemaphore
  <2> QED BY <1>1, <1>2, <2>1, <2>2
<1>6. y.empty_slots = NewSemaphore(4 - (b - (a + 1)), 4)
      /\ y.filled_slots = NewSemaphore(b - (a + 1), 4)
  <2>1. 4 - (b - a) + 1 = 4 - (b - (a + 1)) /\ b - a - 1 = b - (a + 1)
    OBVIOUS
  <2> QED BY <1>2, <1>3, <1>4, <2>1
<1>7. \A v \in (a + 1) + 1 .. b : y.buffer[(v + o) % 4] = v
  BY <1>1, <1>2
<1>8. y.lock = NewMutex(NULL)
  BY <1>1, <1>2, LockFree
<1>9. a + 1 <= b /\ b <= (a + 1) + 4
  BY <1>1
<1>10. Holds(y, a + 1, b, o)
  BY <1>1, <1>2, <1>5, <1>6, <1>7, <1>8, <1>9 DEF Holds
<1>11. x.buffer[x.tail] = a + 1
  <2>1. a + 1 \in a + 1 .. b
    OBVIOUS
  <2> QED BY <1>1, <2>1
<1>12. x.filled_slots.count > 0
  BY <1>1 DEF NewSemaphore
<1> QED BY <1>3, <1>10, <1>11, <1>12 DEF y

\* Nothing can be received from an empty queue, which any numbers describe that
\* agree on the next slot.
LEMMA EmptyHolds ==
  ASSUME NEW x, NEW a \in Nat, NEW o \in Nat, Holds(x, a, a, o)
  PROVE  /\ SemAcquired(x.filled_slots)[2] = OS_TIMEOUT /\ ~(x.filled_slots.count > 0)
         /\ (a + 1 + o) % 4 = 1 => Holds(x, 0, 0, 0)
<1>1. /\ DOMAIN x = {"buffer", "head", "tail", "lock", "empty_slots", "filled_slots"}
      /\ DOMAIN x.buffer = 0 .. 3 /\ x.lock = NewMutex(NULL)
      /\ x.tail = (a + 1 + o) % 4 /\ x.head = (a + 1 + o) % 4
      /\ x.empty_slots = NewSemaphore(4 - (a - a), 4)
      /\ x.filled_slots = NewSemaphore(a - a, 4)
  BY DEF Holds
<1>2. a - a = 0 /\ 4 - (a - a) = 4 /\ 0 - 0 = 0 /\ 4 - (0 - 0) = 4 /\ (0 + 1 + 0) % 4 = 1
  OBVIOUS
<1>3. SemAcquired(x.filled_slots)[2] = OS_TIMEOUT /\ ~(x.filled_slots.count > 0)
  BY <1>1, <1>2 DEF SemAcquired, NewSemaphore
<1>4. (a + 1 + o) % 4 = 1 => Holds(x, 0, 0, 0)
  BY <1>1, <1>2 DEF Holds
<1> QED BY <1>3, <1>4

-----------------------------------------------------------------------------
\* The mutex and the semaphore of the test in the states they go through.
MutexIs(x, locked) ==
  /\ DOMAIN x = {"lock", "owner", "wait_count"}
  /\ x.lock = locked /\ x.owner = NULL /\ x.wait_count = 0
Free(x) == MutexIs(x, 0)
Held(x) == MutexIs(x, 1)
SemTwo  == NewSemaphore(2, 2)
SemOne  == NewSemaphore(1, 2)
SemZero == NewSemaphore(0, 2)

\* The queue x before call l, and before the calls that follow the first l of it.
QueueBefore(x, l) ==
  /\ l \in 1 .. 10 => Holds(x, 4, 4, 3)
  /\ l = 11 => Holds(x, 4, 5, 3)
  /\ l \in 12 .. 16 => Holds(x, 0, l - 12, 0)
  /\ l \in 17 .. 20 => Holds(x, l - 16, 4, 0)
  /\ l \in 21 .. 25 => Holds(x, 0, l - 21, 0)
  /\ l \in 26 .. 27 => Holds(x, l - 25, l - 21, 0)

\* Every slot has a value the test may see, also the ones it has not written yet.
Readable(x) == DOMAIN x.buffer = 0 .. 3 /\ \A i \in 0 .. 3 : x.buffer[i] \in Any

\* The inductive invariant of the self-test: the state of its three objects before
\* each call.
PostInv ==
  /\ at # "fail"
  /\ at = "post" =>
       /\ line \in 1 .. 28
       /\ line \in {2, 3} => Held(m)
       /\ line \in {1} \cup 4 .. 28 => Free(m)
       /\ line \in 1 .. 4 \cup 9 .. 28 => s = SemTwo
       /\ line \in {5, 8} => s = SemOne
       /\ line \in {6, 7} => s = SemZero
       /\ QueueBefore(q, line) /\ Readable(q)
       /\ DOMAIN q = {"buffer", "head", "tail", "lock", "empty_slots", "filled_slots"}

\* What the calls do to the mutex and to the semaphore while no task is current.
LEMMA MutexCalls ==
  ASSUME current_tcb = NULL, NEW x
  PROVE  /\ Free(x) => /\ Held(MutexAcquired(x)[1]) /\ MutexAcquired(x)[1].lock = 1
                       /\ MutexAcquired(x)[2] = OS_SUCCESS
         /\ Held(x) => /\ Held(MutexAcquired(x)[1]) /\ MutexAcquired(x)[1].lock = 1
                       /\ MutexAcquired(x)[2] = OS_FAIL
                       /\ Free(MutexReleased(x)) /\ MutexReleased(x).lock = 0 /\ MutexReleased(x).owner = NULL
<1>1. ASSUME Free(x)
      PROVE  /\ Held(MutexAcquired(x)[1]) /\ MutexAcquired(x)[1].lock = 1
             /\ MutexAcquired(x)[2] = OS_SUCCESS
  <2> DEFINE y == [x EXCEPT !.lock = 1, !.owner = current_tcb]
  <2>1. MutexAcquired(x) = <<y, OS_SUCCESS>>
    BY <1>1 DEF MutexAcquired, Free, MutexIs
  <2>2. DOMAIN y = {"lock", "owner", "wait_count"} /\ y.lock = 1 /\ y.owner = NULL
        /\ y.wait_count = 0
    BY <1>1 DEF Free, MutexIs
  <2> HIDE DEF y
  <2> QED BY <2>1, <2>2 DEF Held, MutexIs
<1>2. ASSUME Held(x)
      PROVE  /\ Held(MutexAcquired(x)[1]) /\ MutexAcquired(x)[1].lock = 1
             /\ MutexAcquired(x)[2] = OS_FAIL
             /\ Free(MutexReleased(x)) /\ MutexReleased(x).lock = 0 /\ MutexReleased(x).owner = NULL
  <2> DEFINE y == [x EXCEPT !.lock = 0, !.owner = NULL]
  <2>1. MutexAcquired(x) = <<x, OS_FAIL>> /\ MutexReleased(x) = y
    BY <1>2 DEF MutexAcquired, MutexReleased, Held, MutexIs
  <2>2. DOMAIN y = {"lock", "owner", "wait_count"} /\ y.lock = 0 /\ y.owner = NULL
        /\ y.wait_count = 0
    BY <1>2 DEF Held, MutexIs
  <2>3. x.lock = 1
    BY <1>2 DEF Held, MutexIs
  <2> HIDE DEF y
  <2> QED BY <1>2, <2>1, <2>2, <2>3 DEF Free, MutexIs
<1> QED BY <1>1, <1>2

LEMMA SemCalls ==
  /\ SemAcquired(SemTwo)[1] = SemOne /\ SemAcquired(SemTwo)[2] = OS_SUCCESS
  /\ SemAcquired(SemOne)[1] = SemZero /\ SemAcquired(SemOne)[2] = OS_SUCCESS
  /\ SemAcquired(SemZero)[1] = SemZero /\ SemAcquired(SemZero)[2] = OS_TIMEOUT
  /\ SemReleased(SemZero) = SemOne /\ SemReleased(SemOne) = SemTwo
  /\ SemReleased(SemTwo) = SemTwo
  /\ SemTwo.count = 2 /\ SemOne.count = 1 /\ SemZero.count = 0
<1>1. SemAcquired(SemTwo) = <<SemOne, OS_SUCCESS>>
  BY DEF SemAcquired, SemTwo, SemOne, NewSemaphore
<1>2. SemAcquired(SemOne) = <<SemZero, OS_SUCCESS>>
  BY DEF SemAcquired, SemOne, SemZero, NewSemaphore
<1>3. SemAcquired(SemZero) = <<SemZero, OS_TIMEOUT>>
  BY DEF SemAcquired, SemZero, NewSemaphore
<1>4. SemReleased(SemZero) = SemOne
  BY DEF SemReleased, SemOne, SemZero, NewSemaphore
<1>5. SemReleased(SemOne) = SemTwo
  BY DEF SemReleased, SemOne, SemTwo, NewSemaphore
<1>6. SemReleased(SemTwo) = SemTwo
  BY DEF SemReleased, SemTwo, NewSemaphore
<1>7. SemTwo.count = 2 /\ SemOne.count = 1 /\ SemZero.count = 0
  BY DEF SemTwo, SemOne, SemZero, NewSemaphore
<1> QED BY <1>1, <1>2, <1>3, <1>4, <1>5, <1>6, <1>7

\* A call, taken apart.
LEMMA CallStep ==
  ASSUME PostCall, NEW c, c = PostScript[line]
  PROVE  /\ at = "post" /\ line' = line + 1 /\ Applied(c)
         /\ Seen(c)[1] \in c.results /\ Seen(c)[2] \in c.values => at' = "post"
BY DEF PostCall

LEMMA CallParts ==
  ASSUME NEW d, NEW a, NEW r, NEW v, NEW c, c = Call(d, a, r, v)
  PROVE  c.do = d /\ c.arg = a /\ c.results = r /\ c.values = v
BY DEF Call

\* A call of the mutex or the semaphore leaves the other objects alone.
LEMMA OtherCalls ==
  ASSUME NEW c, Applied(c)
  PROVE  /\ c.do = "acquire" => m' = MutexAcquired(m)[1] /\ s' = s /\ q' = q
         /\ c.do = "release" => m' = MutexReleased(m) /\ s' = s /\ q' = q
         /\ c.do = "take" => m' = m /\ s' = SemAcquired(s)[1] /\ q' = q
         /\ c.do = "give" => m' = m /\ s' = SemReleased(s) /\ q' = q
         /\ c.do = "send" => m' = m /\ s' = s /\ q' = QueueSent(q, c.arg)
         /\ c.do = "receive" =>
              /\ m' = m /\ s' = s
              /\ q.filled_slots.count > 0 => q' = QueueReceived(q)
              /\ ~(q.filled_slots.count > 0) => q' = q
BY DEF Applied

\* What the test sees of a call.
LEMMA SeenIs ==
  ASSUME NEW c
  PROVE  /\ c.do = "acquire" => Seen(c) = <<MutexAcquired(m)[2], MutexAcquired(m)[1].lock>>
         /\ c.do = "release" /\ MutexReleased(m).owner = NULL =>
              Seen(c) = <<OS_SUCCESS, MutexReleased(m).lock>>
         /\ c.do = "take" => Seen(c) = <<SemAcquired(s)[2], SemAcquired(s)[1].count>>
         /\ c.do = "give" => Seen(c) = <<OS_SUCCESS, SemReleased(s).count>>
         /\ c.do = "send" => Seen(c) = <<OS_SUCCESS, 0>>
         /\ c.do = "receive" =>
              Seen(c) = <<SemAcquired(q.filled_slots)[2], q.buffer[q.tail]>>
BY DEF Seen

\* The calls of the mutex.
LEMMA PostMutexCalls ==
  ASSUME PostInv, current_tcb = NULL, PostCall, line \in {1, 2, 3}
  PROVE  PostInv'
<1> DEFINE c == PostScript[line]
<1>0. at = "post"
  BY DEF PostCall
<1>1. /\ line' = line + 1 /\ Applied(c)
      /\ Seen(c)[1] \in c.results /\ Seen(c)[2] \in c.values => at' = "post"
  BY CallStep
<1>2. s = SemTwo /\ Holds(q, 4, 4, 3) /\ Readable(q)
      /\ DOMAIN q = {"buffer", "head", "tail", "lock", "empty_slots", "filled_slots"}
  BY <1>0 DEF PostInv, QueueBefore
<1>3. ASSUME at' = "post", s' = s, q' = q, IF line = 3 THEN Free(m') ELSE Held(m')
      PROVE  PostInv'
  <2>1. line' \in 2 .. 4 /\ (line' = 4 => Free(m')) /\ (line' \in {2, 3} => Held(m'))
    BY <1>1, <1>3
  <2>2. Holds(q', 4, 4, 3) /\ Readable(q') /\ s' = SemTwo
        /\ DOMAIN q' = {"buffer", "head", "tail", "lock", "empty_slots", "filled_slots"}
    BY <1>2, <1>3
  <2>3. QueueBefore(q', line')
    BY <2>1, <2>2 DEF QueueBefore
  <2>4. /\ line' \in 1 .. 28
        /\ line' \in {2, 3} => Held(m')
        /\ line' \in {1} \cup 4 .. 28 => Free(m')
        /\ ~(line' \in {5, 8}) /\ ~(line' \in {6, 7})
    BY <2>1
  <2>5. Free(m)' = Free(m') /\ Held(m)' = Held(m') /\ QueueBefore(q, line)' = QueueBefore(q', line')
        /\ Readable(q)' = Readable(q')
    BY DEF Free, Held, MutexIs, QueueBefore, Readable, Holds
  <2> QED BY <1>3, <2>2, <2>3, <2>4, <2>5 DEF PostInv
<1>4. CASE line = 1
  <2>1. c = Call("acquire", 0, {OS_SUCCESS}, {1})
    BY <1>4, ScriptIs
  <2>2. c.do = "acquire" /\ c.results = {OS_SUCCESS} /\ c.values = {1}
    BY <2>1, CallParts
  <2>3. Free(m)
    BY <1>0, <1>4 DEF PostInv
  <2> HIDE DEF c
  <2>4. Seen(c)[1] = OS_SUCCESS /\ Seen(c)[2] = 1 /\ Held(m') /\ s' = s /\ q' = q
    BY <1>1, <2>2, <2>3, MutexCalls, OtherCalls, SeenIs
  <2> QED BY <1>1, <1>3, <1>4, <2>2, <2>4
<1>5. CASE line = 2
  <2>1. c = Call("acquire", 0, {OS_TIMEOUT, OS_FAIL}, Any)
    BY <1>5, ScriptIs
  <2>2. c.do = "acquire" /\ c.results = {OS_TIMEOUT, OS_FAIL} /\ c.values = Any
    BY <2>1, CallParts
  <2>3. Held(m)
    BY <1>0, <1>5 DEF PostInv
  <2> HIDE DEF c
  <2>4. Seen(c)[1] = OS_FAIL /\ Seen(c)[2] = 1 /\ Held(m') /\ s' = s /\ q' = q
    BY <1>1, <2>2, <2>3, MutexCalls, OtherCalls, SeenIs
  <2>5. 1 \in Any
    BY DEF Any
  <2> QED BY <1>1, <1>3, <1>5, <2>2, <2>4, <2>5
<1>6. CASE line = 3
  <2>1. c = Call("release", 0, {OS_SUCCESS}, {0})
    BY <1>6, ScriptIs
  <2>2. c.do = "release" /\ c.results = {OS_SUCCESS} /\ c.values = {0}
    BY <2>1, CallParts
  <2>3. Held(m)
    BY <1>0, <1>6 DEF PostInv
  <2> HIDE DEF c
  <2>4. Seen(c)[1] = OS_SUCCESS /\ Seen(c)[2] = 0 /\ Free(m') /\ s' = s /\ q' = q
    BY <1>1, <2>2, <2>3, MutexCalls, OtherCalls, SeenIs
  <2> QED BY <1>1, <1>3, <1>6, <2>2, <2>4
<1> QED BY <1>4, <1>5, <1>6

QueueNames == {"buffer", "head", "tail", "lock", "empty_slots", "filled_slots"}

\* The objects are as they should be before the next call.
LEMMA PostBuild ==
  ASSUME at' = "post", line' \in 4 .. 28, Free(m'),
         line' = 4 \/ line' \in 9 .. 28 => s' = SemTwo, line' \in {5, 8} => s' = SemOne,
         line' \in {6, 7} => s' = SemZero,
         QueueBefore(q', line'), Readable(q'), DOMAIN q' = QueueNames
  PROVE  PostInv'
<1>1. /\ line' \in 1 .. 28 /\ ~(line' \in {2, 3}) /\ line' # 1
      /\ line' \in 1 .. 4 => line' = 4
  OBVIOUS
<1>2. Free(m)' = Free(m') /\ QueueBefore(q, line)' = QueueBefore(q', line')
      /\ Readable(q)' = Readable(q')
  BY DEF Free, MutexIs, QueueBefore, Readable, Holds
<1> QED BY <1>1, <1>2 DEF PostInv, QueueNames

\* The calls of the semaphore.
LEMMA PostSemCalls ==
  ASSUME PostInv, PostCall, line \in 4 .. 9
  PROVE  PostInv'
<1> DEFINE c == PostScript[line]
<1>0. at = "post"
  BY DEF PostCall
<1>1. /\ line' = line + 1 /\ Applied(c)
      /\ Seen(c)[1] \in c.results /\ Seen(c)[2] \in c.values => at' = "post"
  BY CallStep
<1>2. Free(m) /\ Holds(q, 4, 4, 3) /\ Readable(q) /\ DOMAIN q = QueueNames
  BY <1>0 DEF PostInv, QueueBefore, QueueNames
<1>3. ASSUME at' = "post", m' = m, q' = q,
             line = 8 \/ line = 9 => s' = SemTwo, line = 4 \/ line = 7 => s' = SemOne,
             line = 5 \/ line = 6 => s' = SemZero
      PROVE  PostInv'
  <2>1. line' \in 5 .. 10
    BY <1>1
  <2>2. Free(m') /\ Holds(q', 4, 4, 3) /\ Readable(q') /\ DOMAIN q' = QueueNames
    BY <1>2, <1>3
  <2>3. QueueBefore(q', line')
    BY <2>1, <2>2 DEF QueueBefore
  <2>4. /\ line' \in 4 .. 28
        /\ line' = 4 \/ line' \in 9 .. 28 => s' = SemTwo
        /\ line' \in {5, 8} => s' = SemOne
        /\ line' \in {6, 7} => s' = SemZero
    BY <1>1, <1>3
  <2> QED BY <1>3, <2>2, <2>3, <2>4, PostBuild
<1>5. 0 \in Any /\ 2 \in Any
  BY DEF Any
<1>6. CASE line = 4
  <2>1. c = Call("take", 0, {OS_SUCCESS}, {1}) /\ s = SemTwo
    BY <1>0, <1>6, ScriptIs DEF PostInv
  <2>2. c.do = "take" /\ c.results = {OS_SUCCESS} /\ c.values = {1}
    BY <2>1, CallParts
  <2> HIDE DEF c
  <2>3. Seen(c)[1] = OS_SUCCESS /\ Seen(c)[2] = 1 /\ s' = SemOne /\ m' = m /\ q' = q
    BY <1>1, <2>1, <2>2, SemCalls, OtherCalls, SeenIs
  <2> QED BY <1>1, <1>3, <1>6, <2>2, <2>3
<1>7. CASE line = 5
  <2>1. c = Call("take", 0, {OS_SUCCESS}, {0}) /\ s = SemOne
    BY <1>0, <1>7, ScriptIs DEF PostInv
  <2>2. c.do = "take" /\ c.results = {OS_SUCCESS} /\ c.values = {0}
    BY <2>1, CallParts
  <2> HIDE DEF c
  <2>3. Seen(c)[1] = OS_SUCCESS /\ Seen(c)[2] = 0 /\ s' = SemZero /\ m' = m /\ q' = q
    BY <1>1, <2>1, <2>2, SemCalls, OtherCalls, SeenIs
  <2> QED BY <1>1, <1>3, <1>7, <2>2, <2>3
<1>8. CASE line = 6
  <2>1. c = Call("take", 0, {OS_TIMEOUT}, Any) /\ s = SemZero
    BY <1>0, <1>8, ScriptIs DEF PostInv
  <2>2. c.do = "take" /\ c.results = {OS_TIMEOUT} /\ c.values = Any
    BY <2>1, CallParts
  <2> HIDE DEF c
  <2>3. Seen(c)[1] = OS_TIMEOUT /\ Seen(c)[2] = 0 /\ s' = SemZero /\ m' = m /\ q' = q
    BY <1>1, <2>1, <2>2, SemCalls, OtherCalls, SeenIs
  <2> QED BY <1>1, <1>3, <1>5, <1>8, <2>2, <2>3
<1>9. CASE line = 7
  <2>1. c = Call("give", 0, {OS_SUCCESS}, {1}) /\ s = SemZero
    BY <1>0, <1>9, ScriptIs DEF PostInv
  <2>2. c.do = "give" /\ c.results = {OS_SUCCESS} /\ c.values = {1}
    BY <2>1, CallParts
  <2> HIDE DEF c
  <2>3. Seen(c)[1] = OS_SUCCESS /\ Seen(c)[2] = 1 /\ s' = SemOne /\ m' = m /\ q' = q
    BY <1>1, <2>1, <2>2, SemCalls, OtherCalls, SeenIs
  <2> QED BY <1>1, <1>3, <1>9, <2>2, <2>3
<1>10. CASE line = 8
  <2>1. c = Call("give", 0, {OS_SUCCESS}, Any) /\ s = SemOne
    BY <1>0, <1>10, ScriptIs DEF PostInv
  <2>2. c.do = "give" /\ c.results = {OS_SUCCESS} /\ c.values = Any
    BY <2>1, CallParts
  <2> HIDE DEF c
  <2>3. Seen(c)[1] = OS_SUCCESS /\ Seen(c)[2] = 2 /\ s' = SemTwo /\ m' = m /\ q' = q
    BY <1>1, <2>1, <2>2, SemCalls, OtherCalls, SeenIs
  <2> QED BY <1>1, <1>3, <1>5, <1>10, <2>2, <2>3
<1>11. CASE line = 9
  <2>1. c = Call("give", 0, {OS_SUCCESS}, {2}) /\ s = SemTwo
    BY <1>0, <1>11, ScriptIs DEF PostInv
  <2>2. c.do = "give" /\ c.results = {OS_SUCCESS} /\ c.values = {2}
    BY <2>1, CallParts
  <2> HIDE DEF c
  <2>3. Seen(c)[1] = OS_SUCCESS /\ Seen(c)[2] = 2 /\ s' = SemTwo /\ m' = m /\ q' = q
    BY <1>1, <2>1, <2>2, SemCalls, OtherCalls, SeenIs
  <2> QED BY <1>1, <1>3, <1>11, <2>2, <2>3
<1>12. line = 4 \/ line = 5 \/ line = 6 \/ line = 7 \/ line = 8 \/ line = 9
  OBVIOUS
<1> QED BY <1>6, <1>7, <1>8, <1>9, <1>10, <1>11, <1>12

\* The queue stays readable.
LEMMA SendReadable ==
  ASSUME NEW x, NEW e \in Any, DOMAIN x = QueueNames, Readable(x)
  PROVE  Readable(QueueSent(x, e)) /\ DOMAIN QueueSent(x, e) = QueueNames
<1>1. QueueSent(x, e).buffer = [x.buffer EXCEPT ![x.head] = e]
      /\ DOMAIN QueueSent(x, e) = QueueNames
  BY SentFields DEF QueueNames
<1> DEFINE y == QueueSent(x, e)
<1>2. y.buffer = [x.buffer EXCEPT ![x.head] = e] /\ DOMAIN y = QueueNames
  BY <1>1
<1> HIDE DEF y
<1>3. Readable(y)
  BY <1>2 DEF Readable
<1> QED BY <1>2, <1>3 DEF y

LEMMA ReceiveReadable ==
  ASSUME NEW x, DOMAIN x = QueueNames, Readable(x)
  PROVE  Readable(QueueReceived(x)) /\ DOMAIN QueueReceived(x) = QueueNames
<1> DEFINE y == QueueReceived(x)
<1>1. y.buffer = x.buffer /\ DOMAIN y = QueueNames
  BY ReceivedFields DEF QueueNames
<1> HIDE DEF y
<1>2. Readable(y)
  BY <1>1 DEF Readable
<1> QED BY <1>1, <1>2 DEF y

\* The messages in the queue before call l.
From(l) == IF l \in 1 .. 11 THEN 4 ELSE IF l \in 17 .. 20 THEN l - 16
           ELSE IF l \in 26 .. 27 THEN l - 25 ELSE 0
UpTo(l) == IF l \in 1 .. 10 THEN 4 ELSE IF l = 11 THEN 5 ELSE IF l \in 12 .. 16 THEN l - 12
           ELSE IF l \in 17 .. 20 THEN 4 ELSE l - 21
Shift(l) == IF l \in 1 .. 11 THEN 3 ELSE 0

LEMMA BeforeIs ==
  ASSUME NEW x, NEW l \in 1 .. 27
  PROVE  /\ From(l) \in Nat /\ UpTo(l) \in Nat /\ Shift(l) \in Nat
         /\ QueueBefore(x, l) => Holds(x, From(l), UpTo(l), Shift(l))
         /\ Holds(x, From(l), UpTo(l), Shift(l)) => QueueBefore(x, l)
<1>1. CASE l \in 1 .. 10
  <2>1. From(l) = 4 /\ UpTo(l) = 4 /\ Shift(l) = 3
    BY <1>1 DEF From, UpTo, Shift
  <2>2. QueueBefore(x, l) <=> Holds(x, 4, 4, 3)
    BY <1>1 DEF QueueBefore
  <2> QED BY <2>1, <2>2
<1>2. CASE l = 11
  <2>1. From(l) = 4 /\ UpTo(l) = 5 /\ Shift(l) = 3
    BY <1>2 DEF From, UpTo, Shift
  <2>2. QueueBefore(x, l) <=> Holds(x, 4, 5, 3)
    BY <1>2 DEF QueueBefore
  <2> QED BY <2>1, <2>2
<1>3. CASE l \in 12 .. 16
  <2>1. From(l) = 0 /\ UpTo(l) = l - 12 /\ Shift(l) = 0 /\ l - 12 \in Nat
    BY <1>3 DEF From, UpTo, Shift
  <2>2. QueueBefore(x, l) <=> Holds(x, 0, l - 12, 0)
    BY <1>3 DEF QueueBefore
  <2> QED BY <2>1, <2>2
<1>4. CASE l \in 17 .. 20
  <2>1. From(l) = l - 16 /\ UpTo(l) = 4 /\ Shift(l) = 0 /\ l - 16 \in Nat
    BY <1>4 DEF From, UpTo, Shift
  <2>2. QueueBefore(x, l) <=> Holds(x, l - 16, 4, 0)
    BY <1>4 DEF QueueBefore
  <2> QED BY <2>1, <2>2
<1>5. CASE l \in 21 .. 25
  <2>1. From(l) = 0 /\ UpTo(l) = l - 21 /\ Shift(l) = 0 /\ l - 21 \in Nat
    BY <1>5 DEF From, UpTo, Shift
  <2>2. QueueBefore(x, l) <=> Holds(x, 0, l - 21, 0)
    BY <1>5 DEF QueueBefore
  <2> QED BY <2>1, <2>2
<1>6. CASE l \in 26 .. 27
  <2>1. From(l) = l - 25 /\ UpTo(l) = l - 21 /\ Shift(l) = 0 /\ l - 25 \in Nat /\ l - 21 \in Nat
    BY <1>6 DEF From, UpTo, Shift
  <2>2. QueueBefore(x, l) <=> Holds(x, l - 25, l - 21, 0)
    BY <1>6 DEF QueueBefore
  <2> QED BY <2>1, <2>2
<1> QED BY <1>1, <1>2, <1>3, <1>4, <1>5, <1>6

\* The calls of the queue leave the other objects as they are.
LEMMA PostQueueBuild ==
  ASSUME PostInv, PostCall, line \in 10 .. 27, at' = "post", m' = m, s' = s,
         QueueBefore(q', line'), Readable(q'), DOMAIN q' = QueueNames
  PROVE  PostInv'
<1>1. at = "post" /\ line' = line + 1
  BY DEF PostCall
<1>2. Free(m) /\ s = SemTwo
  BY <1>1 DEF PostInv
<1>3. line' \in 4 .. 28 /\ ~(line' \in {5, 8}) /\ ~(line' \in {6, 7})
  BY <1>1
<1>4. Free(m') /\ s' = SemTwo
  BY <1>2
<1> QED BY <1>3, <1>4, PostBuild

\* The messages of the calls that send.
SendLines == {10} \cup 12 .. 15 \cup 21 .. 26
Message(l) == IF l = 10 THEN 5 ELSE IF l \in 12 .. 15 THEN l - 11 ELSE l - 20

LEMMA SendCallIs ==
  ASSUME NEW l \in SendLines, NEW c, c = PostScript[l]
  PROVE  /\ c.do = "send" /\ c.arg = Message(l) /\ c.results = {OS_SUCCESS} /\ c.values = Any
         /\ Message(l) \in Any
<1>1. CASE l = 10
  <2>1. c = Call("send", 5, {OS_SUCCESS}, Any) /\ Message(l) = 5
    BY <1>1, ScriptIs DEF Message
  <2>2. 5 \in Any
    BY DEF Any
  <2> QED BY <2>1, <2>2, CallParts
<1>2. CASE l \in 12 .. 15
  <2> DEFINE i == l - 11
  <2>1. i \in 1 .. 4 /\ 11 + i = l /\ i \in Any
    BY <1>2 DEF Any
  <2>2. Message(l) = i
    BY <1>2 DEF Message
  <2> HIDE DEF i
  <2>3. PostScript[11 + i] = Call("send", i, {OS_SUCCESS}, Any)
    BY <2>1, ScriptIs
  <2>4. c = Call("send", i, {OS_SUCCESS}, Any)
    BY <2>1, <2>3
  <2>5. c.do = "send" /\ c.arg = i /\ c.results = {OS_SUCCESS} /\ c.values = Any
    BY <2>4, CallParts
  <2> QED BY <2>1, <2>2, <2>5
<1>3. CASE l \in 21 .. 26
  <2> DEFINE i == l - 20
  <2>1. i \in 1 .. 6 /\ 20 + i = l /\ i \in Any
    BY <1>3 DEF Any
  <2>2. Message(l) = i
    BY <1>3 DEF Message
  <2> HIDE DEF i
  <2>3. PostScript[20 + i] = Call("send", i, {OS_SUCCESS}, Any)
    BY <2>1, ScriptIs
  <2>4. c = Call("send", i, {OS_SUCCESS}, Any)
    BY <2>1, <2>3
  <2>5. c.do = "send" /\ c.arg = i /\ c.results = {OS_SUCCESS} /\ c.values = Any
    BY <2>4, CallParts
  <2> QED BY <2>1, <2>2, <2>5
<1> QED BY <1>1, <1>2, <1>3 DEF SendLines

LEMMA PostSendCalls ==
  ASSUME PostInv, PostCall, line \in SendLines
  PROVE  PostInv'
<1> DEFINE c == PostScript[line]
           a == From(line)
           b == UpTo(line)
           o == Shift(line)
           e == Message(line)
<1>0. at = "post" /\ line \in 10 .. 27 /\ line \in 1 .. 27 /\ line + 1 \in 1 .. 27
  BY DEF PostCall, SendLines
<1>1. /\ line' = line + 1 /\ Applied(c)
      /\ Seen(c)[1] \in c.results /\ Seen(c)[2] \in c.values => at' = "post"
  BY CallStep
<1>2. QueueBefore(q, line) /\ Readable(q) /\ DOMAIN q = QueueNames
  BY <1>0 DEF PostInv, QueueNames
<1>3. /\ c.do = "send" /\ c.arg = e /\ c.results = {OS_SUCCESS} /\ c.values = Any
      /\ e \in Any
  BY SendCallIs
<1>4. a \in Nat /\ b \in Nat /\ o \in Nat /\ Holds(q, a, b, o)
  BY <1>0, <1>2, BeforeIs
<1>5. /\ e = b + 1 /\ b + 1 = UpTo(line + 1) /\ o = Shift(line + 1)
      /\ (IF b - a < 4 THEN a ELSE a + 1) = From(line + 1)
  BY DEF SendLines, Message, From, UpTo, Shift
<1> HIDE DEF a, b, o, e, c
<1>6. m' = m /\ s' = s /\ q' = QueueSent(q, e)
  BY <1>1, <1>3, OtherCalls
<1>7. at' = "post"
  <2>1. Seen(c)[1] = OS_SUCCESS /\ Seen(c)[2] = 0
    BY <1>3, SeenIs
  <2>2. 0 \in Any
    BY DEF Any
  <2> QED BY <1>1, <1>3, <2>1, <2>2
<1>8. Holds(q', IF b - a < 4 THEN a ELSE a + 1, b + 1, o)
  BY <1>4, <1>5, <1>6, SendHolds
<1>9. Holds(q', From(line + 1), UpTo(line + 1), Shift(line + 1))
  BY <1>5, <1>8
<1>10. QueueBefore(q', line')
  BY <1>0, <1>1, <1>9, BeforeIs
<1>11. Readable(q') /\ DOMAIN q' = QueueNames
  BY <1>2, <1>3, <1>6, SendReadable
<1> QED BY <1>0, <1>6, <1>7, <1>10, <1>11, PostQueueBuild

\* What the calls that receive must see.
ReceiveLines == {11} \cup 16 .. 19 \cup {27}
Expected(l) == IF l = 11 THEN 5 ELSE IF l = 27 THEN 3 ELSE l - 15

LEMMA ReceiveCallIs ==
  ASSUME NEW l \in ReceiveLines, NEW c, c = PostScript[l]
  PROVE  c.do = "receive" /\ c.results = {OS_SUCCESS} /\ c.values = {Expected(l)}
<1>1. CASE l = 11
  <2>1. c = Call("receive", 0, {OS_SUCCESS}, {5}) /\ Expected(l) = 5
    BY <1>1, ScriptIs DEF Expected
  <2> QED BY <2>1, CallParts
<1>2. CASE l = 27
  <2>1. c = Call("receive", 0, {OS_SUCCESS}, {3}) /\ Expected(l) = 3
    BY <1>2, ScriptIs DEF Expected
  <2> QED BY <2>1, CallParts
<1>3. CASE l \in 16 .. 19
  <2> DEFINE i == l - 15
  <2>1. i \in 1 .. 4 /\ 15 + i = l
    BY <1>3
  <2>2. Expected(l) = i
    BY <1>3 DEF Expected
  <2> HIDE DEF i
  <2>3. PostScript[15 + i] = Call("receive", 0, {OS_SUCCESS}, {i})
    BY <2>1, ScriptIs
  <2>4. c = Call("receive", 0, {OS_SUCCESS}, {i})
    BY <2>1, <2>3
  <2>5. c.do = "receive" /\ c.results = {OS_SUCCESS} /\ c.values = {i}
    BY <2>4, CallParts
  <2> QED BY <2>2, <2>5
<1> QED BY <1>1, <1>2, <1>3 DEF ReceiveLines

LEMMA PostReceiveCalls ==
  ASSUME PostInv, PostCall, line \in ReceiveLines
  PROVE  PostInv'
<1> DEFINE c == PostScript[line]
           a == From(line)
           b == UpTo(line)
           o == Shift(line)
           v == Expected(line)
<1>0. at = "post" /\ line \in 10 .. 27 /\ line \in 1 .. 27
  BY DEF PostCall, ReceiveLines
<1>1. /\ line' = line + 1 /\ Applied(c)
      /\ Seen(c)[1] \in c.results /\ Seen(c)[2] \in c.values => at' = "post"
  BY CallStep
<1>2. QueueBefore(q, line) /\ Readable(q) /\ DOMAIN q = QueueNames
  BY <1>0 DEF PostInv, QueueNames
<1>3. c.do = "receive" /\ c.results = {OS_SUCCESS} /\ c.values = {v}
  BY ReceiveCallIs
<1>4. a \in Nat /\ b \in Nat /\ o \in Nat /\ Holds(q, a, b, o)
  BY <1>0, <1>2, BeforeIs
<1>5. v = a + 1 /\ a < b
  BY DEF ReceiveLines, Expected, From, UpTo
<1>6. /\ line = 11 => a = 4 /\ b = 5 /\ o = 3
      /\ line \in 16 .. 19 => /\ a + 1 = From(line + 1) /\ b = UpTo(line + 1)
                              /\ o = Shift(line + 1) /\ line + 1 \in 1 .. 27
  BY DEF From, UpTo, Shift
<1> HIDE DEF a, b, o, v, c
<1>7. /\ Holds(QueueReceived(q), a + 1, b, o)
      /\ SemAcquired(q.filled_slots)[2] = OS_SUCCESS /\ q.filled_slots.count > 0
      /\ q.buffer[q.tail] = a + 1
  BY <1>4, <1>5, ReceiveHolds
<1>8. m' = m /\ s' = s /\ q' = QueueReceived(q)
  BY <1>1, <1>3, <1>7, OtherCalls
<1>9. at' = "post"
  <2>1. Seen(c)[1] = OS_SUCCESS /\ Seen(c)[2] = v
    BY <1>3, <1>5, <1>7, SeenIs
  <2> QED BY <1>1, <1>3, <2>1
<1>10. Readable(q') /\ DOMAIN q' = QueueNames
  BY <1>2, <1>8, ReceiveReadable
<1>11. Holds(q', a + 1, b, o)
  BY <1>7, <1>8
<1>12. QueueBefore(q', line')
  <2>1. CASE line = 11
    <3>1. Holds(q', 5, 5, 3)
      BY <1>6, <1>11, <2>1
    <3>2. (5 + 1 + 3) % 4 = 1
      OBVIOUS
    <3>3. Holds(q', 0, 0, 0)
      BY <3>1, <3>2, EmptyHolds
    <3>4. line' = 12
      BY <1>1, <2>1
    <3>5. From(12) = 0 /\ UpTo(12) = 0 /\ Shift(12) = 0 /\ 12 \in 1 .. 27
      BY DEF From, UpTo, Shift
    <3> QED BY <3>3, <3>4, <3>5, BeforeIs
  <2>2. CASE line \in 16 .. 19
    <3>1. Holds(q', From(line + 1), UpTo(line + 1), Shift(line + 1)) /\ line + 1 \in 1 .. 27
      BY <1>6, <1>11, <2>2
    <3> QED BY <1>1, <3>1, BeforeIs
  <2>3. CASE line = 27
    <3>1. line' = 28
      BY <1>1, <2>3
    <3> QED BY <3>1 DEF QueueBefore
  <2> QED BY <2>1, <2>2, <2>3 DEF ReceiveLines
<1> QED BY <1>0, <1>8, <1>9, <1>10, <1>12, PostQueueBuild

\* The receive that must time out.
LEMMA PostEmptyCall ==
  ASSUME PostInv, PostCall, line = 20
  PROVE  PostInv'
<1> DEFINE c == PostScript[line]
<1>0. at = "post" /\ line \in 10 .. 27
  BY DEF PostCall
<1>1. /\ line' = line + 1 /\ Applied(c)
      /\ Seen(c)[1] \in c.results /\ Seen(c)[2] \in c.values => at' = "post"
  BY CallStep
<1>2. QueueBefore(q, line) /\ Readable(q) /\ DOMAIN q = QueueNames
  BY <1>0 DEF PostInv, QueueNames
<1>3. c = Call("receive", 0, {OS_TIMEOUT}, Any)
  BY ScriptIs
<1>4. c.do = "receive" /\ c.results = {OS_TIMEOUT} /\ c.values = Any
  BY <1>3, CallParts
<1>5. Holds(q, 4, 4, 0)
  <2>1. From(20) = 4 /\ UpTo(20) = 4 /\ Shift(20) = 0 /\ 20 \in 1 .. 27
    BY DEF From, UpTo, Shift
  <2> QED BY <1>2, <2>1, BeforeIs
<1>6. /\ SemAcquired(q.filled_slots)[2] = OS_TIMEOUT /\ ~(q.filled_slots.count > 0)
      /\ Holds(q, 0, 0, 0)
  <2>1. (4 + 1 + 0) % 4 = 1
    OBVIOUS
  <2> QED BY <1>5, <2>1, EmptyHolds
<1> HIDE DEF c
<1>7. m' = m /\ s' = s /\ q' = q
  BY <1>1, <1>4, <1>6, OtherCalls
<1>8. q.buffer[q.tail] \in Any
  <2>1. q.tail \in 0 .. 3
    BY <1>5 DEF Holds
  <2> QED BY <1>2, <2>1 DEF Readable
<1>9. at' = "post"
  <2>1. Seen(c)[1] = OS_TIMEOUT /\ Seen(c)[2] = q.buffer[q.tail]
    BY <1>4, <1>6, SeenIs
  <2> QED BY <1>1, <1>4, <1>8, <2>1
<1>10. QueueBefore(q', line')
  <2>1. From(21) = 0 /\ UpTo(21) = 0 /\ Shift(21) = 0 /\ 21 \in 1 .. 27
    BY DEF From, UpTo, Shift
  <2>2. line' = 21
    BY <1>1
  <2> QED BY <1>6, <1>7, <2>1, <2>2, BeforeIs
<1>11. Readable(q') /\ DOMAIN q' = QueueNames
  BY <1>2, <1>7
<1> QED BY <1>0, <1>7, <1>9, <1>10, <1>11, PostQueueBuild

\* The objects are initialised, whatever was where they lie.
LEMMA PostStarts ==
  ASSUME PostInit
  PROVE  PostInv'
<1>1. at' = "post" /\ line' = 1 /\ s' = SemTwo
  BY DEF PostInit, SemTwo
<1>2. PICK old \in Garbage :
        m' = NewMutex(old) /\ q' = NewQueue([i \in 0 .. 3 |-> JUNK], 4, old)
  BY DEF PostInit
<1>3. Free(m')
  BY <1>2 DEF Free, MutexIs, NewMutex
<1>4. DOMAIN q' = QueueNames
  BY <1>2 DEF NewQueue, QueueNames
<1>5. q'.buffer = [i \in 0 .. 3 |-> JUNK] /\ q'.head = 0 /\ q'.tail = 0
      /\ q'.lock = NewMutex(old) /\ q'.empty_slots = NewSemaphore(4, 4)
      /\ q'.filled_slots = NewSemaphore(0, 4)
  BY <1>2 DEF NewQueue
<1>6. Readable(q')
  BY <1>5 DEF Readable, Any, JUNK
<1>7. Holds(q', 4, 4, 3)
  <2>1. NewMutex(old) = NewMutex(NULL)
    BY DEF NewMutex
  <2>2. (4 + 1 + 3) % 4 = 0 /\ 4 - (4 - 4) = 4 /\ 4 - 4 = 0 /\ DOMAIN q'.buffer = 0 .. 3
    BY <1>5
  <2> QED BY <1>4, <1>5, <2>1, <2>2 DEF Holds, QueueNames
<1>8. QueueBefore(q', 1)
  BY <1>7 DEF QueueBefore
<1>9. Free(m)' = Free(m') /\ QueueBefore(q, line)' = QueueBefore(q', line')
      /\ Readable(q)' = Readable(q')
  BY DEF Free, MutexIs, QueueBefore, Readable, Holds
<1> QED BY <1>1, <1>3, <1>4, <1>6, <1>8, <1>9 DEF PostInv, QueueNames

\* The self-test passes: no call of it is refused its expected result, whatever the
\* locals held before and however often the board is reset.
THEOREM PostInvariance == BootSpec => []PostInv
<1>1. BootInit => PostInv
  BY DEF BootInit, PostInv
<1>2. PostInv /\ StackInv /\ [BootNext]_bootVars => PostInv'
  <2> SUFFICES ASSUME PostInv, StackInv, [BootNext]_bootVars
               PROVE  PostInv'
    OBVIOUS
  <2>1. CASE PostInit
    BY <2>1, PostStarts
  <2>2. CASE PostCall
    <3>1. at = "post" /\ line \in 1 .. 27
      BY <2>2, ScriptIs DEF PostCall, PostInv
    <3>2. current_tcb = NULL
      BY <3>1 DEF StackInv, MainInv
    <3>3. \/ line \in {1, 2, 3} \/ line \in 4 .. 9 \/ line \in SendLines
          \/ line \in ReceiveLines \/ line = 20
      BY <3>1 DEF SendLines, ReceiveLines
    <3> QED BY <2>2, <3>2, <3>3, PostMutexCalls, PostSemCalls, PostSendCalls,
               PostReceiveCalls, PostEmptyCall
  <2>3. ASSUME at' # "fail", at' # "post"
        PROVE  PostInv'
    BY <2>3 DEF PostInv
  <2>4. CASE Reset \/ InitObjects \/ Report \/ Restart
    BY <2>3, <2>4 DEF Reset, InitObjects, Report, Restart
  <2>5. CASE BenchBegin
    BY <2>3, <2>5, BenchOrder DEF BenchBegin, BenchStart
  <2>6. CASE BenchNext
    <3>1. line \in 1 .. 4
      BY <2>6, BenchOrder DEF BenchNext, StackInv
    <3>2. at' \in {"mutex", "semaphore", "queue", "scheduler", "launch"}
      BY <2>6, <3>1, BenchOrder DEF BenchNext, BenchStart
    <3> QED BY <2>3, <3>2
  <2>7. ASSUME at' = at, at # "post"
        PROVE  PostInv'
    BY <2>7 DEF PostInv
  <2>8. CASE TaskCreate \/ BenchPair \/ BenchSchedule
    BY <2>7, <2>8 DEF TaskCreate, BenchPair, BenchSchedule, Again, mainVars
  <2>9. CASE StoreDigit \/ SendDigit \/ NumberNext
    BY <2>7, <2>9 DEF StoreDigit, SendDigit, NumberNext, Printed, mainVars
  <2>10. CASE Launch \/ FirstTask \/ Running
    BY <2>7, <2>10 DEF Launch, FirstTask, Running, mainVars
  <2>11. CASE UNCHANGED bootVars
    <3>1. at' = at /\ line' = line /\ m' = m /\ s' = s /\ q' = q
      BY <2>11 DEF bootVars, mainVars, locals
    <3>2. Free(m)' = Free(m) /\ Held(m)' = Held(m)
          /\ QueueBefore(q, line)' = QueueBefore(q, line) /\ Readable(q)' = Readable(q)
      BY <3>1 DEF Free, Held, MutexIs, QueueBefore, Readable, Holds
    <3> QED BY <3>1, <3>2 DEF PostInv
  <2> QED BY <2>1, <2>2, <2>4, <2>5, <2>6, <2>8, <2>9, <2>10, <2>11 DEF BootNext, Boots
<1> QED BY <1>1, <1>2, StackInvariance, PTL DEF BootSpec

\* main() never stops at fail(): the part of BootEnds that is a safety property.
THEOREM PostPasses == BootSpec => [](at # "fail")
<1>1. PostInv => at # "fail"
  BY DEF PostInv
<1> QED BY <1>1, PostInvariance, PTL
=============================================================================
