----------------------------- MODULE QueueProps -----------------------------
(***************************************************************************)
(* What the message queue of module Queue promises: tokens and ring        *)
(* indices agree, and the queue is a LossyFifo.                            *)
(***************************************************************************)
EXTENDS Queue

\* t's os_semaphore_acquire was granted a token it has not yet returned with.
Granted(t) ==
  stage[t] = "token" /\ state[t] # "BLOCKED" /\ wait_result[t] = OS_SUCCESS

\* t has the token it wanted and has not touched the ring.
Before(t) ==
  Granted(t) \/ (had_token[t] /\ stage[t] \in {"lock", "wait", "data", "undo"})

\* t has touched the ring and not yet posted the token of the other side.
After(t) == had_token[t] /\ stage[t] \in {"advance", "unlock", "post"}

\* The messages in the ring that no one has read, and the slots no one uses:
\* the tokens of the semaphores and the ones in the hands of a task.
Unread ==
  count[FilledSlots] + Cardinality({t \in Consumers : Before(t)})
                     + Cardinality({t \in Producers : After(t)})
Free ==
  count[EmptySlots] + Cardinality({t \in Producers : Before(t)})
                    + Cardinality({t \in Consumers : After(t)})

\* head and tail as the task inside the critical section will leave them, once
\* it has written or read its entry.
AdvancedHead ==
  IF \E t \in Producers : stage[t] = "advance" THEN (head + 1) % Capacity ELSE head
AdvancedTail ==
  IF \E t \in Users : stage[t] = "advance" /\ (t \in Producers => ~had_token[t])
  THEN (tail + 1) % Capacity ELSE tail

\* The unread messages, oldest first.
Items == [i \in 1 .. Unread |-> buffer[(AdvancedTail + i - 1) % Capacity]]

Stages == {"out", "token", "lock", "wait", "data", "advance", "unlock", "post", "undo"}

\* The values the variables of the queue can take.
QueueTypeOK ==
  /\ buffer \in [Indices -> Messages \cup {0}]
  /\ head \in Indices /\ tail \in Indices
  /\ stage \in [Users -> Stages]
  /\ had_token \in [Users -> BOOLEAN]
  /\ message \in [Producers -> Messages \cup {0}]
  /\ got \in [Consumers -> Messages \cup {0}]
  /\ sent \in 0 .. MaxMessages

\* No token of os_queue_init is ever lost or doubled by os_queue_send and
\* os_queue_receive: whatever times out, fails or is preempted, every slot is
\* either unread or free.
TokensConserved == Unread + Free = Capacity

\* The ring and the semaphores tell the same story: between tail and head there
\* are as many entries as there are unread tokens.
RingMatchesTokens == (AdvancedTail + Unread) % Capacity = AdvancedHead

\* The statements between os_mutex_acquire and os_mutex_release.
Inside == {"data", "advance", "unlock"}

\* At most one task is among them: the ring is never touched by two tasks,
\* whatever os_mutex_acquire had to wait for.
RingExclusive ==
  \A t, u \in Users : stage[t] \in Inside /\ stage[u] \in Inside => t = u

-----------------------------------------------------------------------------
\* The messages whose os_queue_send has taken effect or has failed.
Settled ==
  {m \in 1 .. sent : \A t \in Producers :
     message[t] = m => stage[t] \notin {"token", "lock", "wait", "data"}}

Fifo == INSTANCE LossyFifo
          WITH items <- Items, used <- Settled, got <- got,
               Messages <- Messages, Readers <- Consumers, NONE <- 0

\* The queue implements a bounded FIFO that loses nothing but its oldest entry
\* or the message being sent; a receive returns the oldest unread message.
QueueIsLossyFifo == Fifo!FifoSpec

\* os_queue_send never drops the message it is given: after its write the new
\* message is the last unread one.
NewestKept ==
  [][\A t \in Producers : SendWrite(t) =>
       Unread' > 0 /\ Items'[Unread'] = message[t]]_allVars
=============================================================================
