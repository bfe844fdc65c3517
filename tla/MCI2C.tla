-------------------------------- MODULE MCI2C --------------------------------
(* Instances of I2C for TLC.                                                 *)
EXTENDS I2CProps

\* Callers that the application could be: only a missing slave goes wrong.
Usual == [calls |-> {"write", "read"}, faults |-> {"ADDR"}, prompt |-> TRUE]
\* Anything goes: every function, every fault, any delay of the task.
Rough == [calls |-> Functions, faults |-> Flags, prompt |-> FALSE]
\* The same, but every START goes out in time.
Started == [Rough EXCEPT !.faults = Flags \ {"SB"}]

AllEnvironments == {Usual, Rough, Started}

\* Register reads of a working slave by a prompt task.
RegisterReads == {[calls |-> {"read_reg"}, faults |-> {}, prompt |-> TRUE]}
=============================================================================
