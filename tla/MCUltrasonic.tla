---------------------------- MODULE MCUltrasonic ----------------------------
(* Instances of Ultrasonic for TLC: the radar task, a task below it that     *)
(* does nothing but run, and idle.                                           *)
EXTENDS UltrasonicProps

Prio == [t \in Tasks |-> 2 - t]
Zero == [s \in Sems |-> 0]
One  == [s \in Sems |-> 1]
=============================================================================
