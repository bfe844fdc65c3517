------------------------------ MODULE MCKernel ------------------------------
(* Instances of Kernel for TLC.  The last task is idle.             *)
EXTENDS KernelProps

\* A low and a high task, and idle.
LowHigh == <<1, 2, 0>>
\* A low task below two equals, and idle.
LowEquals == <<1, 2, 2, 0>>
\* Two equals around a higher one, and idle.
EqualsAroundHigh == <<1, 2, 1, 0>>

\* Priorities as a function on task indices.
Prio(seq) == [t \in Tasks |-> seq[t + 1]]
PrioLH  == Prio(LowHigh)
PrioLEE == Prio(LowEquals)
PrioAHB == Prio(EqualsAroundHigh)

Zero == [s \in Sems |-> 0]
One  == [s \in Sems |-> 1]
=============================================================================
