----------------------------- MODULE MCSentinel -----------------------------
(* An instance of Sentinel for TLC: the tasks in the order of main().        *)
EXTENDS SentinelProps

Priorities == [t \in Tasks |-> 2 - t]

\* os_queue_init for sweep_queue; echo_ready is binary and starts empty.
InitialTokens == [s \in Sems |-> IF s = EmptySlots THEN Capacity ELSE 0]
MaxTokens     == [s \in Sems |-> IF s = EchoReady THEN 1 ELSE Capacity]
=============================================================================
