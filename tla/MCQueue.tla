------------------------------- MODULE MCQueue -------------------------------
(* Instances of Queue for TLC.  The last task is idle.                      *)
EXTENDS QueueProps

\* Priorities as a function on task indices, for two and three users.
Prio(seq) == [t \in Tasks |-> seq[t + 1]]
Rising2 == Prio(<<1, 2, 0>>)
Equal2  == Prio(<<1, 1, 0>>)
Rising3 == Prio(<<1, 2, 3, 0>>)
Equal3  == Prio(<<1, 1, 1, 0>>)

\* The arguments os_queue_init passes to os_semaphore_init.
InitialTokens == [s \in Sems |-> IF s = EmptySlots THEN Capacity ELSE 0]
MaxTokens     == [s \in Sems |-> Capacity]
=============================================================================
