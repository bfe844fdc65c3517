------------------------------- MODULE Queue -------------------------------
(***************************************************************************)
(* The message queue (Kernel/os_queue.c) on top of the kernel: producers   *)
(* call os_queue_send, consumers os_queue_receive, and every semaphore and *)
(* mutex call inside them is the kernel's, with its switches and ticks.    *)
(* Tasks do nothing else but os_delay.                                     *)
(***************************************************************************)
EXTENDS Kernel, FiniteSets

CONSTANTS
  Producers, Consumers,     \* the tasks that send and the ones that receive
  QLock,                    \* q->lock
  EmptySlots, FilledSlots,  \* q->empty_slots, q->filled_slots
  Capacity,                 \* q->capacity
  SendTimeouts,             \* bound: timeouts passed to os_queue_send
  ReceiveTimeouts,          \* bound: timeouts passed to os_queue_receive
  MaxMessages               \* bound: number of messages sent

\* os_queue_init, and who uses the queue.
ASSUME QueueAssumption ==
  /\ Producers \subseteq Tasks \ {IdleTask} /\ Consumers \subseteq Tasks \ {IdleTask}
  /\ Producers \cap Consumers = {}
  /\ QLock \in Mutexes /\ EmptySlots \in Sems /\ FilledSlots \in Sems
  /\ EmptySlots # FilledSlots
  /\ Capacity \in Nat \ {0}
  /\ SemInitial[EmptySlots] = Capacity /\ SemMax[EmptySlots] = Capacity
  /\ SemInitial[FilledSlots] = 0 /\ SemMax[FilledSlots] = Capacity
  /\ SendTimeouts \subseteq Timeouts /\ ReceiveTimeouts \subseteq Timeouts
  /\ WAIT_FOREVER \in Timeouts
  /\ MaxMessages \in Nat

Indices  == 0 .. Capacity - 1
Messages == 1 .. MaxMessages
Users    == Producers \cup Consumers

VARIABLES
  buffer, head, tail,  \* the ring; 0 is what it holds before the first write
  stage,               \* where each task is in os_queue_send or os_queue_receive
  had_token,           \* had_slot of os_queue_send, "got a token" of the receive
  message,             \* the message a producer sends
  got,                 \* *buffer of os_queue_receive: the last message received
  sent                 \* number of messages sent so far

ringVars  == <<buffer, head, tail>>
queueData == <<ringVars, stage, had_token, message, got, sent>>
allVars   == <<vars, queueData>>

QInit ==
  /\ Init
  /\ buffer = [i \in Indices |-> 0]
  /\ head = 0
  /\ tail = 0
  /\ stage = [t \in Users |-> "out"]
  /\ had_token = [t \in Users |-> FALSE]
  /\ message = [t \in Producers |-> 0]
  /\ got = [t \in Consumers |-> 0]
  /\ sent = 0

\* The semaphore a task takes a token from at the start of its call, and the
\* one it posts at the end.
Wants(t) == IF t \in Producers THEN EmptySlots ELSE FilledSlots
Gives(t) == IF t \in Producers THEN FilledSlots ELSE EmptySlots

GoTo(t, s) == stage' = [stage EXCEPT ![t] = s]
Token(t, b) == had_token' = [had_token EXCEPT ![t] = b]

-----------------------------------------------------------------------------
(* os_queue_send: the token of an empty slot.                              *)

\* A new call of os_queue_send, with a new message.
NewMessage(t) ==
  /\ t \in Producers /\ stage[t] = "out" /\ sent < MaxMessages
  /\ sent' = sent + 1
  /\ message' = [message EXCEPT ![t] = sent + 1]
  /\ UNCHANGED <<ringVars, got>>

SendTake(t) ==
  /\ NewMessage(t) /\ SemTake(t, EmptySlots)
  /\ Token(t, TRUE) /\ GoTo(t, "lock")

\* The queue is full and the timeout is 0: the call goes on without a slot.
SendPoll(t) ==
  /\ NewMessage(t) /\ 0 \in SendTimeouts /\ SemPoll(t, EmptySlots)
  /\ Token(t, FALSE) /\ GoTo(t, "lock")

SendBlock(t) ==
  /\ NewMessage(t)
  /\ \E timeout \in SendTimeouts : SemBlock(t, EmptySlots, timeout)
  /\ Token(t, FALSE) /\ GoTo(t, "token")

SendWoken(t) ==
  /\ t \in Producers /\ stage[t] = "token" /\ Return(t)
  /\ Token(t, wait_result[t] = OS_SUCCESS) /\ GoTo(t, "lock")
  /\ UNCHANGED <<ringVars, message, got, sent>>

-----------------------------------------------------------------------------
(* os_queue_receive: the token of a filled slot.                           *)

ReceiveTake(t) ==
  /\ t \in Consumers /\ stage[t] = "out" /\ SemTake(t, FilledSlots)
  /\ Token(t, TRUE) /\ GoTo(t, "lock")
  /\ UNCHANGED <<ringVars, message, got, sent>>

\* Nothing to read: OS_TIMEOUT.
ReceivePoll(t) ==
  /\ t \in Consumers /\ stage[t] = "out" /\ 0 \in ReceiveTimeouts
  /\ SemPoll(t, FilledSlots)
  /\ UNCHANGED queueData

ReceiveBlock(t) ==
  /\ t \in Consumers /\ stage[t] = "out"
  /\ \E timeout \in ReceiveTimeouts : SemBlock(t, FilledSlots, timeout)
  /\ Token(t, FALSE) /\ GoTo(t, "token")
  /\ UNCHANGED <<ringVars, message, got, sent>>

ReceiveWoken(t) ==
  /\ t \in Consumers /\ stage[t] = "token" /\ Return(t)
  /\ Token(t, wait_result[t] = OS_SUCCESS)
  /\ GoTo(t, IF wait_result[t] = OS_SUCCESS THEN "lock" ELSE "out")
  /\ UNCHANGED <<ringVars, message, got, sent>>

-----------------------------------------------------------------------------
(* The critical section of both.                                           *)

LockTake(t) ==
  /\ stage[t] = "lock" /\ MutexTake(t, QLock)
  /\ GoTo(t, "data")
  /\ UNCHANGED <<ringVars, had_token, message, got, sent>>

LockBlock(t) ==
  /\ stage[t] = "lock" /\ MutexBlock(t, QLock, WAIT_FOREVER)
  /\ GoTo(t, "wait")
  /\ UNCHANGED <<ringVars, had_token, message, got, sent>>

\* Mutant: the token of a failed call is forgotten.
Undone_Forgets(t) == "out"

\* Where a failed os_mutex_acquire leads: the token goes back.
Undone(t) == IF had_token[t] THEN "undo" ELSE "out"

LockWoken(t) ==
  /\ stage[t] = "wait" /\ Return(t)
  /\ GoTo(t, IF wait_result[t] = OS_SUCCESS THEN "data" ELSE Undone(t))
  /\ UNCHANGED <<ringVars, had_token, message, got, sent>>

\* OS_FAIL: the wait queue of the mutex is full.
LockFail(t) ==
  /\ stage[t] = "lock" /\ MutexFull(t, QLock, WAIT_FOREVER)
  /\ GoTo(t, Undone(t))
  /\ UNCHANGED <<ringVars, had_token, message, got, sent>>

Undo(t) ==
  /\ stage[t] = "undo" /\ SemRelease(t, Wants(t))
  /\ GoTo(t, "out")
  /\ UNCHANGED <<ringVars, had_token, message, got, sent>>

SendWrite(t) ==
  /\ t \in Producers /\ stage[t] = "data" /\ App(t)
  /\ buffer' = [buffer EXCEPT ![head] = message[t]]
  /\ GoTo(t, "advance")
  /\ UNCHANGED <<vars, head, tail, had_token, message, got, sent>>

\* Mutant: the index runs past the end of the ring.
SendAdvance_NoWrap(t) ==
  /\ t \in Producers /\ stage[t] = "advance" /\ App(t)
  /\ head' = head + 1
  /\ tail' = IF had_token[t] THEN tail ELSE (tail + 1) % Capacity
  /\ GoTo(t, "unlock")
  /\ UNCHANGED <<vars, buffer, had_token, message, got, sent>>

\* Mutant: the reader does not skip the overwritten entry.
SendAdvance_KeepsTail(t) ==
  /\ t \in Producers /\ stage[t] = "advance" /\ App(t)
  /\ head' = (head + 1) % Capacity
  /\ GoTo(t, "unlock")
  /\ UNCHANGED <<vars, buffer, tail, had_token, message, got, sent>>

\* Without a slot the writer moves the tail too: it takes the entry it wrote
\* for the oldest one.
SendAdvance(t) ==
  /\ t \in Producers /\ stage[t] = "advance" /\ App(t)
  /\ head' = (head + 1) % Capacity
  /\ tail' = IF had_token[t] THEN tail ELSE (tail + 1) % Capacity
  /\ GoTo(t, "unlock")
  /\ UNCHANGED <<vars, buffer, had_token, message, got, sent>>

\* Mutant: the tail is advanced before the read.
ReceiveRead_AfterAdvance(t) ==
  /\ t \in Consumers /\ stage[t] = "data" /\ App(t)
  /\ got' = [got EXCEPT ![t] = buffer[(tail + 1) % Capacity]]
  /\ GoTo(t, "advance")
  /\ UNCHANGED <<vars, ringVars, had_token, message, sent>>

ReceiveRead(t) ==
  /\ t \in Consumers /\ stage[t] = "data" /\ App(t)
  /\ got' = [got EXCEPT ![t] = buffer[tail]]
  /\ GoTo(t, "advance")
  /\ UNCHANGED <<vars, ringVars, had_token, message, sent>>

ReceiveAdvance(t) ==
  /\ t \in Consumers /\ stage[t] = "advance" /\ App(t)
  /\ tail' = (tail + 1) % Capacity
  /\ GoTo(t, "unlock")
  /\ UNCHANGED <<vars, buffer, head, had_token, message, got, sent>>

Unlock(t) ==
  /\ stage[t] = "unlock" /\ MutexRelease(t, QLock)
  /\ GoTo(t, IF had_token[t] THEN "post" ELSE "out")
  /\ UNCHANGED <<ringVars, had_token, message, got, sent>>

\* The token for the other side.
Post(t) ==
  /\ stage[t] = "post" /\ SemRelease(t, Gives(t))
  /\ GoTo(t, "out")
  /\ UNCHANGED <<ringVars, had_token, message, got, sent>>

-----------------------------------------------------------------------------
\* os_yield, and the return of a call that was not an acquire that blocked.
Resume(t) ==
  /\ Yield(t) \/ (Return(t) /\ stage[t] \notin {"token", "wait"})
  /\ UNCHANGED queueData

Pause(t) ==
  /\ stage[t] = "out" /\ \E ms \in Delays : Delay(t, ms)
  /\ UNCHANGED queueData

InCall(t) ==
  \/ SendWoken(t) \/ ReceiveWoken(t)
  \/ LockTake(t) \/ LockBlock(t) \/ LockWoken(t) \/ LockFail(t) \/ Undo(t)
  \/ SendWrite(t) \/ SendAdvance(t) \/ ReceiveRead(t) \/ ReceiveAdvance(t)
  \/ Unlock(t) \/ Post(t) \/ Resume(t)

QTask(t) ==
  \/ SendTake(t) \/ SendPoll(t) \/ SendBlock(t)
  \/ ReceiveTake(t) \/ ReceivePoll(t) \/ ReceiveBlock(t)
  \/ InCall(t) \/ Pause(t)

QNext == (KernelStep /\ UNCHANGED queueData) \/ \E t \in Users : QTask(t)

QSpec == QInit /\ [][QNext]_allVars
=============================================================================
