------------------------------- MODULE MCBoot -------------------------------
(* The boot of the benchmark build, with small stacks and small words.      *)
EXTENDS BootProps

\* ping, pong and idle.
BenchBuild == [t \in Tasks |-> IF t = NTasks - 1 THEN 0 ELSE 2]
=============================================================================
