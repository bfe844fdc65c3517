------------------------------ MODULE LossyFifo ------------------------------
(***************************************************************************)
(* What a message queue of SENTINEL promises its users, whatever the       *)
(* interleaving: a FIFO of bounded length in which a message enters at     *)
(* most once and is received at most once.  A new message may push out the *)
(* oldest one even if there is room, or get lost: its sender failed, or a  *)
(* reader emptied the queue after the sender had found it full.  (The      *)
(* comments in os_queue.c promise more: see NewestKept in QueueProps.)     *)
(***************************************************************************)
EXTENDS Sequences, Naturals

CONSTANTS Capacity, Messages, Readers, NONE

VARIABLES items,   \* the unread messages, oldest first
          used,    \* the messages whose sending took effect
          got      \* the message each reader received last

fifoVars == <<items, used, got>>

FifoInit ==
  /\ items = <<>>
  /\ used = {}
  /\ got = [r \in Readers |-> NONE]

Accept(m)    == Len(items) < Capacity /\ items' = Append(items, m)
Overwrite(m) == items # <<>> /\ items' = Append(Tail(items), m)
Lose         == UNCHANGED items

Send(m) ==
  /\ m \notin used
  /\ used' = used \cup {m}
  /\ Accept(m) \/ Overwrite(m) \/ Lose
  /\ UNCHANGED got

Receive(r) ==
  /\ items # <<>>
  /\ got' = [got EXCEPT ![r] = Head(items)]
  /\ items' = Tail(items)
  /\ UNCHANGED used

FifoNext == (\E m \in Messages : Send(m)) \/ (\E r \in Readers : Receive(r))

FifoSpec == FifoInit /\ [][FifoNext]_fifoVars
=============================================================================
