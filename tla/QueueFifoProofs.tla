--------------------------- MODULE QueueFifoProofs ---------------------------
(***************************************************************************)
(* No token of the message queue is lost or doubled, the ring agrees with  *)
(* the tokens, and the queue is a LossyFifo, for any number of producers,  *)
(* consumers, slots, messages and timeouts.                                *)
(***************************************************************************)
EXTENDS QueueProofs, Sequences, FiniteSetTheorems

-----------------------------------------------------------------------------
(* The inductive invariant, on top of IInv and QInv.                       *)

\* Tasks that do not use the queue make no call.
OthersIdle == \A t \in Tasks \ Users : call[t] = NULL

\* Who has a token to give back or to pass on, has one; a reader does not get as
\* far as the lock without.
TokenInHand ==
  /\ \A t \in Users : stage[t] \in {"undo", "post"} => had_token[t]
  /\ \A t \in Consumers : stage[t] \notin {"out", "token"} => had_token[t]

\* RingMatchesTokens without a remainder: the sum is at most 2 * Capacity - 1.
RingSpans ==
  \/ AdvancedTail + Unread = AdvancedHead
  \/ AdvancedTail + Unread = AdvancedHead + Capacity

\* Every send has a message of its own.
OwnMessage ==
  /\ \A t \in Producers : message[t] <= sent
  /\ \A t \in Producers : stage[t] # "out" => message[t] > 0
  /\ \A t, u \in Producers : message[t] = message[u] /\ message[t] > 0 => t = u

TInv ==
  /\ QueueTypeOK /\ OthersIdle /\ TokenInHand /\ OwnMessage
  /\ TokensConserved /\ RingSpans

-----------------------------------------------------------------------------
(* Counting tokens.                                                        *)

\* u has a token of the side of semaphore s: the one it took and has not used,
\* or the one it has to post.
Holds(s, u) == IF Wants(u) = s THEN Before(u) ELSE After(u)

Holders(s) == {u \in Users : Holds(s, u)}

\* The tokens of one side: Unread and Free, said alike.
Total(s) == count[s] + Cardinality(Holders(s))

TokenSems == {EmptySlots, FilledSlots}

\* Sets of users are finite.
LEMMA UsersFinite == \A S \in SUBSET Users : IsFiniteSet(S) /\ Cardinality(S) \in Nat
<1>1. IsFiniteSet(Tasks)
  BY KernelAssumption, FS_Interval DEF Tasks
<1> QED BY <1>1, FS_Subset, FS_CardinalityType, QueueAssumption DEF Users

\* What a set that gains or loses x counts.
LEMMA CardMove ==
  ASSUME NEW S, NEW T, IsFiniteSet(S), IsFiniteSet(T), NEW x,
         \A y : y # x => (y \in S <=> y \in T)
  PROVE  /\ Cardinality(S) \in Nat /\ Cardinality(T) \in Nat
         /\ x \in S /\ x \notin T => Cardinality(S) = Cardinality(T) + 1
         /\ x \notin S /\ x \in T => Cardinality(T) = Cardinality(S) + 1
<1>1. Cardinality(S) \in Nat /\ Cardinality(T) \in Nat
  BY FS_CardinalityType
<1>2. ASSUME x \in S, x \notin T PROVE Cardinality(S) = Cardinality(T) + 1
  <2>1. S = T \cup {x}
    BY <1>2
  <2> QED BY <1>2, <2>1, FS_AddElement
<1>3. ASSUME x \notin S, x \in T PROVE Cardinality(T) = Cardinality(S) + 1
  <2>1. T = S \cup {x}
    BY <1>3
  <2> QED BY <1>3, <2>1, FS_AddElement
<1> QED BY <1>1, <1>2, <1>3

\* Unread and Free are the tokens of the two sides, and are numbers.
SumsOK ==
  /\ Unread = Total(FilledSlots) /\ Free = Total(EmptySlots)
  /\ \A s \in TokenSems :
       /\ count[s] \in Nat /\ Cardinality(Holders(s)) \in Nat /\ Total(s) \in Nat
       /\ IsFiniteSet(Holders(s))
       /\ Holders(s) # {} => Total(s) > count[s]

\* The counts of the tokens are sums over finite sets.
LEMMA Sums == TypeOK => SumsOK
<1> SUFFICES ASSUME TypeOK
             PROVE  SumsOK
  OBVIOUS
<1>0. EmptySlots # FilledSlots /\ Producers \cap Consumers = {}
  BY QueueAssumption
<1>1. ASSUME NEW A \in SUBSET Producers, NEW B \in SUBSET Consumers
      PROVE  /\ Cardinality(A) \in Nat /\ Cardinality(B) \in Nat
             /\ Cardinality(A \cup B) = Cardinality(A) + Cardinality(B)
  <2>1. /\ IsFiniteSet(A) /\ Cardinality(A) \in Nat
        /\ IsFiniteSet(B) /\ Cardinality(B) \in Nat
    BY UsersFinite DEF Users
  <2>2. A \cap B = {}
    BY <1>0
  <2>3. Cardinality(A \cap B) = 0
    BY <2>2, FS_EmptySet
  <2>4. Cardinality(A \cup B) = Cardinality(A) + Cardinality(B) - Cardinality(A \cap B)
    BY <2>1, FS_Union
  <2> QED BY <2>1, <2>3, <2>4
<1>2. count[FilledSlots] \in Nat /\ count[EmptySlots] \in Nat
  BY QueueAssumption DEF TypeOK
<1>3. Unread = Total(FilledSlots)
  <2> DEFINE A == {t \in Producers : After(t)}
             B == {t \in Consumers : Before(t)}
  <2>1. Holders(FilledSlots) = A \cup B
    BY <1>0 DEF Holders, Holds, Wants, Users
  <2>2. A \in SUBSET Producers /\ B \in SUBSET Consumers
    OBVIOUS
  <2>3. Unread = count[FilledSlots] + Cardinality(B) + Cardinality(A)
    BY DEF Unread
  <2> HIDE DEF A, B
  <2> QED BY <1>1, <1>2, <2>1, <2>2, <2>3 DEF Total
<1>4. Free = Total(EmptySlots)
  <2> DEFINE A == {t \in Producers : Before(t)}
             B == {t \in Consumers : After(t)}
  <2>1. Holders(EmptySlots) = A \cup B
    BY <1>0 DEF Holders, Holds, Wants, Users
  <2>2. A \in SUBSET Producers /\ B \in SUBSET Consumers
    OBVIOUS
  <2>3. Free = count[EmptySlots] + Cardinality(A) + Cardinality(B)
    BY DEF Free
  <2> HIDE DEF A, B
  <2> QED BY <1>1, <1>2, <2>1, <2>2, <2>3 DEF Total
<1>5. ASSUME NEW s \in TokenSems
      PROVE  /\ count[s] \in Nat /\ Cardinality(Holders(s)) \in Nat
             /\ Total(s) \in Nat /\ IsFiniteSet(Holders(s))
             /\ Holders(s) # {} => Total(s) > count[s]
  <2>1. count[s] \in Nat
    BY <1>2 DEF TokenSems
  <2>2. Holders(s) \in SUBSET Users
    BY DEF Holders
  <2>3. IsFiniteSet(Holders(s)) /\ Cardinality(Holders(s)) \in Nat
    BY <2>2, UsersFinite
  <2>4. Holders(s) # {} => Cardinality(Holders(s)) # 0
    BY <2>3, FS_EmptySet
  <2> QED BY <2>1, <2>3, <2>4 DEF Total
<1> QED BY <1>3, <1>4, <1>5 DEF SumsOK

\* The same of the next state.
LEMMA SumsNext == TypeOK' => SumsOK'
BY Sums, PTL

-----------------------------------------------------------------------------
(* Types, tokens in hand and messages.                                     *)

DataInv == QueueTypeOK /\ OthersIdle /\ TokenInHand /\ OwnMessage

\* A step of a user changes no call but its own.
LEMMA CallOfOthers ==
  ASSUME QInv, NEW t \in Users, QTask(t)
  PROVE  \A u \in Tasks : u # t => call'[u] = call[u]
<1>1. call \in [Tasks -> Objs \cup {NULL}] /\ t \in Tasks
  BY QueueObjects DEF QInv
<1>2. \/ call' = call
      \/ \E o : call' = [call EXCEPT ![t] = o]
  BY DEF QTask, InCall, SendTake, SendPoll, SendBlock, SendWoken, ReceiveTake, ReceivePoll,
     ReceiveBlock, ReceiveWoken, LockTake, LockBlock, LockWoken, LockFail, Undo, SendWrite,
     SendAdvance, ReceiveRead, ReceiveAdvance, Unlock, Post, Resume, Pause, SemTake, SemPoll,
     SemBlock, BlockCurrent, Return, MutexTake, MutexBlock, MutexFull, MutexRelease,
     MutexHandoff, MutexFree, SemRelease, SemHandoff, SemGive, Yield, Delay, vars, clientVars
<1> QED BY <1>1, <1>2

\* A user that goes from one stage to the next with the same message keeps the
\* part of the invariant about stages.
LEMMA StageKeeps ==
  ASSUME DataInv, NEW t \in Users, NEW s \in Stages, NEW b \in BOOLEAN,
         GoTo(t, s), Token(t, b), UNCHANGED <<message, sent>>,
         s \in {"undo", "post"} => b,
         t \in Consumers /\ s \notin {"out", "token"} => b,
         t \in Producers /\ s # "out" => stage[t] # "out"
  PROVE  /\ stage' \in [Users -> Stages] /\ had_token' \in [Users -> BOOLEAN]
         /\ message' \in [Producers -> Messages \cup {0}] /\ sent' \in 0 .. MaxMessages
         /\ TokenInHand' /\ OwnMessage'
<1>1. /\ stage \in [Users -> Stages] /\ had_token \in [Users -> BOOLEAN]
      /\ message \in [Producers -> Messages \cup {0}] /\ sent \in 0 .. MaxMessages
  BY DEF DataInv, QueueTypeOK
<1>2. stage' \in [Users -> Stages] /\ had_token' \in [Users -> BOOLEAN]
  BY <1>1 DEF GoTo, Token
<1>3. TokenInHand'
  BY <1>1 DEF GoTo, Token, DataInv, TokenInHand, Users
<1>4. OwnMessage'
  BY <1>1 DEF GoTo, DataInv, OwnMessage, Users
<1> QED BY <1>1, <1>2, <1>3, <1>4

\* A new call of os_queue_send.
LEMMA NewKeeps ==
  ASSUME DataInv, NEW t \in Users, NewMessage(t),
         NEW s \in {"lock", "token"}, NEW b \in BOOLEAN, GoTo(t, s), Token(t, b)
  PROVE  QueueTypeOK' /\ TokenInHand' /\ OwnMessage'
<1>1. /\ stage \in [Users -> Stages] /\ had_token \in [Users -> BOOLEAN]
      /\ message \in [Producers -> Messages \cup {0}] /\ sent \in 0 .. MaxMessages
      /\ MaxMessages \in Nat /\ t \in Producers /\ t \notin Consumers /\ sent < MaxMessages
  BY QueueAssumption DEF DataInv, QueueTypeOK, NewMessage
<1>2. sent + 1 \in Messages /\ sent' = sent + 1 /\ sent' \in 0 .. MaxMessages
  BY <1>1 DEF Messages, NewMessage
<1>3. QueueTypeOK'
  BY <1>1, <1>2 DEF NewMessage, GoTo, Token, DataInv, QueueTypeOK, ringVars, Stages
<1>4. TokenInHand'
  BY <1>1 DEF GoTo, Token, DataInv, TokenInHand, Users
<1>5. OwnMessage'
  <2>1. \A u \in Producers : message[u] \in Nat /\ message[u] <= sent
    BY <1>1 DEF DataInv, OwnMessage, Messages
  <2>2. \A u \in Producers : message'[u] = IF u = t THEN sent + 1 ELSE message[u]
    BY <1>1 DEF NewMessage
  <2>3. \A u \in Producers : u # t => stage'[u] = stage[u]
    BY <1>1 DEF GoTo, Users
  <2> QED BY <1>1, <1>2, <2>1, <2>2, <2>3 DEF DataInv, OwnMessage
<1> QED BY <1>3, <1>4, <1>5

\* The ring and the messages received keep their types.
LEMMA RingTypes ==
  ASSUME DataInv, NEW t \in Users, QTask(t)
  PROVE  /\ buffer' \in [Indices -> Messages \cup {0}]
         /\ head' \in Indices /\ tail' \in Indices
         /\ got' \in [Consumers -> Messages \cup {0}]
<1>1. /\ buffer \in [Indices -> Messages \cup {0}] /\ head \in Indices /\ tail \in Indices
      /\ got \in [Consumers -> Messages \cup {0}]
      /\ message \in [Producers -> Messages \cup {0}]
      /\ (head + 1) % Capacity \in Indices /\ (tail + 1) % Capacity \in Indices
  BY ModNext DEF DataInv, QueueTypeOK
<1>2. CASE SendWrite(t)
  BY <1>1, <1>2 DEF SendWrite
<1>3. CASE SendAdvance(t)
  BY <1>1, <1>3 DEF SendAdvance
<1>4. CASE ReceiveRead(t)
  <2>1. buffer[tail] \in Messages \cup {0} /\ got' = [got EXCEPT ![t] = buffer[tail]]
    BY <1>1, <1>4 DEF ReceiveRead
  <2> QED BY <1>1, <1>4, <2>1 DEF ReceiveRead, ringVars
<1>5. CASE ReceiveAdvance(t)
  BY <1>1, <1>5 DEF ReceiveAdvance
<1>6. CASE UNCHANGED <<ringVars, got>>
  BY <1>1, <1>6 DEF ringVars
<1>7. \/ SendWrite(t) \/ SendAdvance(t) \/ ReceiveRead(t) \/ ReceiveAdvance(t)
      \/ UNCHANGED <<ringVars, got>>
  BY DEF QTask, InCall, SendTake, SendPoll, SendBlock, NewMessage, SendWoken, ReceiveTake,
     ReceivePoll, ReceiveBlock, ReceiveWoken, LockTake, LockBlock, LockWoken, LockFail, Undo,
     Unlock, Post, Resume, Pause, queueData
<1> QED BY <1>2, <1>3, <1>4, <1>5, <1>6, <1>7

\* How a step of a user that is not a new send moves its stage and its token.
LEMMA StageMoves ==
  ASSUME DataInv, QInv, NEW t \in Users, QTask(t),
         ~(SendTake(t) \/ SendPoll(t) \/ SendBlock(t))
  PROVE  \E s \in Stages, b \in BOOLEAN :
           /\ GoTo(t, s) /\ Token(t, b) /\ UNCHANGED <<message, sent>>
           /\ s \in {"undo", "post"} => b
           /\ t \in Consumers /\ s \notin {"out", "token"} => b
           /\ t \in Producers /\ s # "out" => stage[t] # "out"
<1>1. /\ stage \in [Users -> Stages] /\ had_token \in [Users -> BOOLEAN]
      /\ Producers \cap Consumers = {} /\ TokenInHand
  BY QueueAssumption DEF DataInv, QueueTypeOK
<1>2. /\ \A s : s = stage[t] => (stage' = stage => GoTo(t, s))
      /\ had_token' = had_token => Token(t, had_token[t])
      /\ stage[t] \in Stages /\ had_token[t] \in BOOLEAN
  BY <1>1 DEF GoTo, Token
<1>3. CASE ReceiveTake(t)
  BY <1>1, <1>3 DEF ReceiveTake, Stages
<1>4. CASE ReceiveBlock(t)
  BY <1>1, <1>4 DEF ReceiveBlock, Stages
<1>5. CASE SendWoken(t)
  BY <1>1, <1>5 DEF SendWoken, Stages
<1>6. CASE ReceiveWoken(t)
  BY <1>1, <1>6 DEF ReceiveWoken, Stages
<1>7. CASE LockTake(t) \/ LockBlock(t)
  <2>1. GoTo(t, "data") \/ GoTo(t, "wait")
    BY <1>7 DEF LockTake, LockBlock
  <2>2. Token(t, had_token[t]) /\ UNCHANGED <<message, sent>> /\ stage[t] = "lock"
    BY <1>2, <1>7 DEF LockTake, LockBlock
  <2> QED BY <1>1, <1>2, <2>1, <2>2 DEF TokenInHand, Stages
<1>8. CASE LockWoken(t) \/ LockFail(t)
  <2>1. GoTo(t, "data") \/ (had_token[t] /\ GoTo(t, "undo")) \/ GoTo(t, "out")
    BY <1>8 DEF LockWoken, LockFail, Undone
  <2>2. Token(t, had_token[t]) /\ UNCHANGED <<message, sent>> /\ stage[t] \in {"lock", "wait"}
    BY <1>2, <1>8 DEF LockWoken, LockFail
  <2> QED BY <1>1, <1>2, <2>1, <2>2 DEF TokenInHand, Stages
<1>9. CASE SendWrite(t) \/ SendAdvance(t) \/ ReceiveRead(t) \/ ReceiveAdvance(t)
  <2>1. GoTo(t, "advance") \/ GoTo(t, "unlock")
    BY <1>9 DEF SendWrite, SendAdvance, ReceiveRead, ReceiveAdvance
  <2>2. /\ Token(t, had_token[t]) /\ UNCHANGED <<message, sent>>
        /\ stage[t] \in {"data", "advance"}
    BY <1>2, <1>9 DEF SendWrite, SendAdvance, ReceiveRead, ReceiveAdvance
  <2> QED BY <1>1, <1>2, <2>1, <2>2 DEF TokenInHand, Stages
<1>10. CASE Unlock(t)
  <2>1. (had_token[t] /\ GoTo(t, "post")) \/ GoTo(t, "out")
    BY <1>10 DEF Unlock
  <2>2. Token(t, had_token[t]) /\ UNCHANGED <<message, sent>> /\ stage[t] = "unlock"
    BY <1>2, <1>10 DEF Unlock
  <2> QED BY <1>1, <1>2, <2>1, <2>2 DEF Stages
<1>11. CASE Post(t) \/ Undo(t)
  <2>1. GoTo(t, "out") /\ Token(t, had_token[t]) /\ UNCHANGED <<message, sent>>
    BY <1>2, <1>11 DEF Post, Undo
  <2> QED BY <1>1, <1>2, <2>1 DEF Stages
<1>12. CASE ReceivePoll(t) \/ Resume(t) \/ Pause(t)
  <2>1. GoTo(t, stage[t]) /\ Token(t, had_token[t]) /\ UNCHANGED <<message, sent>>
    BY <1>2, <1>12 DEF ReceivePoll, Resume, Pause, queueData
  <2> QED BY <1>1, <1>2, <2>1 DEF TokenInHand
<1> QED BY <1>3, <1>4, <1>5, <1>6, <1>7, <1>8, <1>9, <1>10, <1>11, <1>12 DEF QTask, InCall

\* Every step keeps the types, the tokens in hand and the messages apart.
LEMMA DataKeeps ==
  ASSUME DataInv, QInv, [QNext]_allVars
  PROVE  DataInv'
<1>1. CASE UNCHANGED <<queueData, call>>
  BY <1>1 DEF queueData, ringVars, DataInv, QueueTypeOK, OthersIdle, TokenInHand, OwnMessage
<1>2. ASSUME NEW t \in Users, QTask(t) PROVE DataInv'
  <2>1. OthersIdle'
    BY <1>2, CallOfOthers DEF DataInv, OthersIdle
  <2>2. CASE SendTake(t) \/ SendPoll(t) \/ SendBlock(t)
    <3>1. PICK s \in {"lock", "token"}, b \in BOOLEAN :
            NewMessage(t) /\ GoTo(t, s) /\ Token(t, b)
      BY <2>2 DEF SendTake, SendPoll, SendBlock
    <3> QED BY <2>1, <3>1, NewKeeps DEF DataInv
  <2>3. CASE ~(SendTake(t) \/ SendPoll(t) \/ SendBlock(t))
    <3>1. PICK s \in Stages, b \in BOOLEAN :
            /\ GoTo(t, s) /\ Token(t, b) /\ UNCHANGED <<message, sent>>
            /\ s \in {"undo", "post"} => b
            /\ t \in Consumers /\ s \notin {"out", "token"} => b
            /\ t \in Producers /\ s # "out" => stage[t] # "out"
      BY <1>2, <2>3, StageMoves
    <3>2. /\ stage' \in [Users -> Stages] /\ had_token' \in [Users -> BOOLEAN]
          /\ message' \in [Producers -> Messages \cup {0}] /\ sent' \in 0 .. MaxMessages
          /\ TokenInHand' /\ OwnMessage'
      BY <3>1, StageKeeps
    <3>3. /\ buffer' \in [Indices -> Messages \cup {0}]
          /\ head' \in Indices /\ tail' \in Indices
          /\ got' \in [Consumers -> Messages \cup {0}]
      BY <1>2, RingTypes
    <3> QED BY <2>1, <3>2, <3>3 DEF DataInv, QueueTypeOK
  <2> QED BY <2>2, <2>3
<1>3. KernelStep /\ UNCHANGED queueData => UNCHANGED <<queueData, call>>
  BY DEF KernelStep, Launch, PendSV, PendSVEnter, ScanStep, SwitchTo, SysTick, TickStep,
     TickSkip, TickCount, TickExpire, TickAdvance, clientVars
<1>4. UNCHANGED allVars => UNCHANGED <<queueData, call>>
  BY DEF allVars, vars, clientVars
<1> QED BY <1>1, <1>2, <1>3, <1>4 DEF QNext

-----------------------------------------------------------------------------
(* Which steps move a token, and where to.                                 *)

\* The step leaves u with the tokens it had.
KeepsTokens(u) == (Before(u)' <=> Before(u)) /\ (After(u)' <=> After(u))

\* The semaphores of the queue, and which side a user takes from.
LEMMA Sides ==
  /\ EmptySlots # FilledSlots
  /\ \A u : Wants(u) \in TokenSems /\ Gives(u) \in TokenSems /\ Wants(u) # Gives(u)
  /\ \A s \in TokenSems : s \in Sems /\ s \in Objs /\ s # QLock /\ s # NULL /\ SemMax[s] = Capacity
BY QueueAssumption, KernelAssumption DEF TokenSems, Wants, Gives, Objs

\* A user whose stage, token and grant stay.
LEMMA StaysPut ==
  ASSUME NEW u \in Users, stage'[u] = stage[u], had_token'[u] = had_token[u],
         stage[u] = "token" =>
           ((state'[u] # "BLOCKED" /\ wait_result'[u] = OS_SUCCESS)
              <=> (state[u] # "BLOCKED" /\ wait_result[u] = OS_SUCCESS))
  PROVE  KeepsTokens(u)
BY DEF KeepsTokens, Before, After, Granted

\* A step of t that touches no other task.
LEMMA OthersStay ==
  ASSUME DataInv, NEW t \in Users, NEW s, NEW b, GoTo(t, s), Token(t, b),
         \A u \in Tasks : u # t => state'[u] = state[u] /\ wait_result'[u] = wait_result[u]
  PROVE  \A u \in Users : u # t => KeepsTokens(u)
<1> TAKE u \in Users
<1> HAVE u # t
<1>1. stage'[u] = stage[u] /\ had_token'[u] = had_token[u]
  BY DEF DataInv, QueueTypeOK, GoTo, Token
<1>2. state'[u] = state[u] /\ wait_result'[u] = wait_result[u]
  BY QueueObjects
<1> QED BY <1>1, <1>2, StaysPut

\* Nobody's tokens move: the sums stay.
LEMMA AllStay ==
  ASSUME TypeOK, TypeOK', \A u \in Users : KeepsTokens(u), count' = count
  PROVE  UNCHANGED <<Unread, Free>>
<1>1. \A s : Holders(s)' = Holders(s)
  BY DEF Holders, Holds, KeepsTokens, Wants
<1>2. Total(EmptySlots)' = Total(EmptySlots) /\ Total(FilledSlots)' = Total(FilledSlots)
  BY <1>1 DEF Total
<1> QED BY <1>2, Sums, SumsNext DEF SumsOK

\* The scheduler and the tick move no token: a wait that times out was not
\* granted one before and is not after.
LEMMA KernelStays ==
  ASSUME IInv, QInv, KernelStep, UNCHANGED queueData
  PROVE  /\ \A u \in Users : KeepsTokens(u)
         /\ count' = count
<1>0. TypeOK /\ ObjectInv /\ CpuInv
  BY DEF IInv
<1>1. count' = count
  BY DEF KernelStep, Launch, PendSV, PendSVEnter, ScanStep, SwitchTo, SysTick, TickStep,
     TickSkip, TickCount, TickExpire, TickAdvance, objVars
<1>2. SUFFICES ASSUME NEW u \in Users PROVE KeepsTokens(u)
  BY <1>1
<1>3. u \in Tasks /\ stage' = stage /\ had_token' = had_token
  BY QueueObjects DEF queueData
<1>4. CASE SwitchTo
  <2>1. state'[u] # "BLOCKED" <=> state[u] # "BLOCKED"
    BY <1>0, <1>3, <1>4 DEF SwitchTo, SwitchedStates, CpuInv, ScanBest
  <2>2. wait_result' = wait_result
    BY <1>4 DEF SwitchTo
  <2> QED BY <1>3, <2>1, <2>2, StaysPut
<1>5. CASE TickExpire
  <2>1. CASE u # tick_i
    <3>1. state'[u] = state[u] /\ wait_result'[u] = wait_result[u]
      BY <1>0, <1>3, <1>5, <2>1 DEF TickExpire, TypeOK
    <3> QED BY <1>3, <3>1, StaysPut
  <2>2. CASE u = tick_i /\ stage[u] = "token"
    <3>1. state[u] = "BLOCKED"
      BY <1>0, <1>3, <1>5, <2>2 DEF TickExpire, ObjectInv, BlockedIsWakeable
    <3>2. wait_on[u] # NULL
      BY <1>0, <1>3, <2>2, <3>1, QueueObjects DEF ObjectInv, CallMatches, QInv, Bound
    <3>3. wait_result'[u] = OS_TIMEOUT
      BY <1>0, <1>3, <1>5, <2>2, <3>2 DEF TickExpire, TypeOK
    <3> QED BY <1>3, <3>1, <3>3, StaysPut DEF OS_TIMEOUT, OS_SUCCESS
  <2>3. CASE stage[u] # "token"
    BY <1>3, <2>3, StaysPut
  <2> QED BY <2>1, <2>2, <2>3
<1>6. CASE ~SwitchTo /\ ~TickExpire
  <2>1. state' = state /\ wait_result' = wait_result
    BY <1>6 DEF KernelStep, Launch, PendSV, PendSVEnter, ScanStep, SysTick, TickStep, TickSkip,
       TickCount, tcbVars
  <2> QED BY <1>3, <2>1, StaysPut
<1> QED BY <1>4, <1>5, <1>6

\* A task in its own code, or back from a wait, is granted what the wait told.
LEMMA CallerTokens ==
  ASSUME IInv, NEW t \in Users, Thread(t), pc[t] # "yield"
  PROVE  state[t] # "BLOCKED" /\ t \in Tasks
BY CallerRuns, QueueObjects

\* The calls that move no token.
LEMMA CallStays ==
  ASSUME IInv, DataInv, QInv, NEW t \in Users,
         \/ SendPoll(t) \/ SendBlock(t) \/ ReceivePoll(t) \/ ReceiveBlock(t)
         \/ SendWoken(t) \/ ReceiveWoken(t) \/ Resume(t) \/ Pause(t)
  PROVE  /\ \A u \in Users : KeepsTokens(u)
         /\ count' = count
<1>0. /\ TypeOK /\ t \in Tasks /\ stage \in [Users -> Stages]
      /\ had_token \in [Users -> BOOLEAN]
  BY QueueObjects DEF IInv, DataInv, QueueTypeOK
<1>1. CASE SendPoll(t) \/ ReceivePoll(t)
  <2>1. UNCHANGED vars /\ stage[t] = "out"
    BY <1>1 DEF SendPoll, NewMessage, ReceivePoll, SemPoll
  <2>2. UNCHANGED <<state, wait_result, count>>
    BY <2>1 DEF vars, tcbVars, objVars
  <2>3. CASE SendPoll(t)
    <3>1. GoTo(t, "lock") /\ Token(t, FALSE)
      BY <2>3 DEF SendPoll
    <3>2. KeepsTokens(t)
      BY <1>0, <2>1, <3>1 DEF GoTo, Token, KeepsTokens, Before, After, Granted
    <3> QED BY <2>2, <3>1, <3>2, OthersStay
  <2>4. CASE ReceivePoll(t)
    BY <2>2, <2>4, StaysPut DEF ReceivePoll, queueData
  <2> QED BY <1>1, <2>3, <2>4
<1>2. CASE SendBlock(t) \/ ReceiveBlock(t)
  <2>1. PICK timeout : SemBlock(t, Wants(t), timeout)
    BY <1>2, QueueAssumption DEF SendBlock, ReceiveBlock, NewMessage, Wants
  <2>2. GoTo(t, "token") /\ Token(t, FALSE) /\ stage[t] = "out"
    BY <1>2 DEF SendBlock, ReceiveBlock, NewMessage
  <2>3. /\ count' = count /\ state'[t] = "BLOCKED"
        /\ \A u \in Tasks : u # t => state'[u] = state[u] /\ wait_result'[u] = wait_result[u]
    BY <1>0, <2>1 DEF SemBlock, BlockCurrent, objVars, TypeOK
  <2>4. KeepsTokens(t)
    BY <1>0, <2>2, <2>3 DEF GoTo, Token, KeepsTokens, Before, After, Granted
  <2> QED BY <2>2, <2>3, <2>4, OthersStay
<1>3. CASE SendWoken(t) \/ ReceiveWoken(t)
  <2>1. Return(t) /\ stage[t] = "token" /\ Token(t, wait_result[t] = OS_SUCCESS)
    BY <1>3 DEF SendWoken, ReceiveWoken
  <2>2. /\ GoTo(t, "lock") \/ GoTo(t, "out")
        /\ wait_result[t] = OS_SUCCESS => GoTo(t, "lock")
    BY <1>3 DEF SendWoken, ReceiveWoken
  <2>3. UNCHANGED <<state, wait_result, count>>
    BY <2>1 DEF Return, tcbVars, objVars
  <2>4. state[t] # "BLOCKED"
    BY <2>1, CallerTokens DEF Return
  <2>5. had_token'[t] = (wait_result[t] = OS_SUCCESS)
    BY <1>0, <2>1 DEF Token
  <2>6. KeepsTokens(t)
    BY <1>0, <2>1, <2>2, <2>4, <2>5 DEF GoTo, KeepsTokens, Before, After, Granted
  <2> QED BY <2>1, <2>2, <2>3, <2>6, OthersStay
<1>4. CASE Resume(t) \/ Pause(t)
  <2>1. count' = count /\ stage' = stage /\ had_token' = had_token
    BY <1>4 DEF Resume, Pause, Yield, Return, Delay, objVars, queueData
  <2>2. CASE Resume(t)
    <3>1. state' = state /\ wait_result' = wait_result
      BY <2>2 DEF Resume, Yield, Return, tcbVars
    <3> QED BY <2>1, <3>1, StaysPut
  <2>3. CASE Pause(t)
    <3>1. PICK ms : Delay(t, ms)
      BY <2>3 DEF Pause
    <3>2. stage[t] = "out"
      BY <2>3 DEF Pause
    <3>3. /\ wait_result' = wait_result
          /\ \A u \in Tasks : u # t => state'[u] = state[u]
      BY <1>0, <3>1 DEF Delay, TypeOK
    <3> QED BY <2>1, <3>2, <3>3, StaysPut, QueueObjects
  <2> QED BY <1>4, <2>2, <2>3
<1> QED BY <1>1, <1>2, <1>3, <1>4

\* os_mutex_acquire and os_mutex_release of the lock move no token: who they
\* block or wake waits for the lock.
LEMMA LockStays ==
  ASSUME IInv, DataInv, QInv, NEW t \in Users,
         LockTake(t) \/ LockBlock(t) \/ LockWoken(t) \/ LockFail(t) \/ Unlock(t)
  PROVE  /\ \A u \in Users : KeepsTokens(u)
         /\ count' = count
<1>0. /\ TypeOK /\ ObjectInv /\ t \in Tasks /\ stage \in [Users -> Stages]
      /\ had_token \in [Users -> BOOLEAN]
  BY QueueObjects DEF IInv, DataInv, QueueTypeOK
<1>1. had_token' = had_token
  BY DEF LockTake, LockBlock, LockWoken, LockFail, Unlock
<1>2. /\ \E s : GoTo(t, s)
      /\ KeepsTokens(t)
  BY <1>0, <1>1 DEF LockTake, LockBlock, LockWoken, LockFail, Unlock, Undone, GoTo, KeepsTokens,
     Before, After, Granted
<1>3. count' = count
  BY DEF LockTake, LockBlock, LockWoken, LockFail, Unlock, MutexTake, MutexBlock, MutexFull,
     MutexRelease, MutexHandoff, MutexFree, Return, objVars
<1>4. ASSUME NEW u \in Users, u # t, stage[u] = "token"
      PROVE  state'[u] = state[u] /\ wait_result'[u] = wait_result[u]
  <2>1. u \in Tasks
    BY QueueObjects
  <2>2. CASE LockBlock(t)
    BY <1>0, <1>4, <2>1, <2>2 DEF LockBlock, MutexBlock, BlockCurrent, TypeOK
  <2>3. CASE LockTake(t) \/ LockWoken(t) \/ LockFail(t) \/ (Unlock(t) /\ MutexFree(t, QLock))
    BY <2>3 DEF LockTake, LockWoken, LockFail, MutexTake, MutexFull, MutexFree, Return, tcbVars
  <2>4. CASE MutexHandoff(t, QLock)
    <3>1. PICK i \in 0 .. wait_count[QLock] - 1 : WakeTask(wait_queue[QLock][i])
      BY <2>4 DEF MutexHandoff
    <3> DEFINE w == wait_queue[QLock][i]
    <3>2. w \in Tasks /\ call[w] = QLock
      BY <2>4, <3>1, WakeKeeps, QueueObjects, <1>0 DEF MutexHandoff
    <3>3. call[u] # QLock
      BY <1>4, Sides DEF QInv, Bound
    <3>4. WakeTask(w)
      BY <3>1
    <3> HIDE DEF w
    <3> QED BY <1>0, <2>1, <3>2, <3>3, <3>4 DEF WakeTask, TypeOK
  <2> QED BY <2>2, <2>3, <2>4 DEF Unlock, MutexRelease
<1>5. ASSUME NEW u \in Users, u # t PROVE KeepsTokens(u)
  <2>1. stage'[u] = stage[u] /\ had_token'[u] = had_token[u]
    BY <1>0, <1>1, <1>2, <1>5 DEF GoTo
  <2> QED BY <1>4, <1>5, <2>1, StaysPut
<1> QED BY <1>2, <1>3, <1>5

\* os_semaphore_acquire that takes a token: from the count to the caller's hand.
LEMMA TakeStays ==
  ASSUME IInv, TypeOK', DataInv, NEW t \in Users, SendTake(t) \/ ReceiveTake(t)
  PROVE  UNCHANGED <<Unread, Free>>
<1>0. /\ TypeOK /\ t \in Tasks /\ stage \in [Users -> Stages]
      /\ had_token \in [Users -> BOOLEAN]
  BY QueueObjects DEF IInv, DataInv, QueueTypeOK
<1>1. SemTake(t, Wants(t)) /\ GoTo(t, "lock") /\ Token(t, TRUE) /\ stage[t] = "out"
  BY QueueAssumption DEF SendTake, ReceiveTake, NewMessage, Wants
<1>2. /\ count' = [count EXCEPT ![Wants(t)] = @ - 1]
      /\ state' = state /\ wait_result' = wait_result
  BY <1>1 DEF SemTake, tcbVars
<1>3. \A u \in Users : u # t => KeepsTokens(u)
  BY <1>1, <1>2, OthersStay
<1>4. ~Before(t) /\ ~After(t) /\ Before(t)' /\ ~After(t)'
  BY <1>0, <1>1 DEF GoTo, Token, Before, After, Granted
<1>5. ASSUME NEW s \in TokenSems PROVE Total(s)' = Total(s)
  <2>1. \A y : y # t => (y \in Holders(s) <=> y \in Holders(s)')
    BY <1>3 DEF Holders, Holds, KeepsTokens, Wants
  <2>2. count[s] \in Nat /\ s \in DOMAIN count
    BY <1>0, Sides DEF TypeOK
  <2>3. IsFiniteSet(Holders(s)) /\ IsFiniteSet(Holders(s)')
    BY <1>0, Sums, SumsNext DEF SumsOK
  <2>4. CASE s = Wants(t)
    <3>1. t \notin Holders(s) /\ t \in Holders(s)'
      BY <1>4, <2>4 DEF Holders, Holds, Wants
    <3>2. Cardinality(Holders(s)') = Cardinality(Holders(s)) + 1 /\ Cardinality(Holders(s)) \in Nat
      BY <2>1, <2>3, <3>1, CardMove
    <3>3. count'[s] = count[s] - 1
      BY <1>2, <2>2, <2>4
    <3> QED BY <2>2, <3>2, <3>3 DEF Total
  <2>5. CASE s # Wants(t)
    <3>1. t \notin Holders(s) /\ t \notin Holders(s)'
      BY <1>4, <2>5 DEF Holders, Holds, Wants
    <3>2. Holders(s)' = Holders(s)
      BY <2>1, <3>1
    <3> QED BY <1>2, <2>5, <3>2 DEF Total
  <2> QED BY <2>4, <2>5
<1> QED BY <1>0, <1>5, Sums, SumsNext DEF SumsOK, TokenSems

\* os_semaphore_release of a token t has in hand: it goes to the count, which is
\* not full as long as t has it, or to a task that waits for one of the same side.
LEMMA GiveStays ==
  ASSUME IInv, TypeOK', DataInv, QInv, TokensConserved, NEW t \in Users, Post(t) \/ Undo(t)
  PROVE  UNCHANGED <<Unread, Free>>
<1>0. /\ TypeOK /\ ObjectInv /\ t \in Tasks /\ stage \in [Users -> Stages]
      /\ had_token \in [Users -> BOOLEAN]
  BY QueueObjects DEF IInv, DataInv, QueueTypeOK
<1>1. /\ GoTo(t, "out") /\ had_token' = had_token /\ had_token[t]
      /\ stage[t] \in {"post", "undo"}
  BY DEF Post, Undo, DataInv, TokenInHand
<1> DEFINE s == IF stage[t] = "post" THEN Gives(t) ELSE Wants(t)
<1>2. s \in TokenSems /\ SemRelease(t, s)
  BY Sides DEF Post, Undo
<1>3. \A r \in TokenSems : (t \in Holders(r) <=> r = s) /\ t \notin Holders(r)'
  <2>1. stage'[t] = "out"
    BY <1>0, <1>1 DEF GoTo
  <2>2. ~Before(t)' /\ ~After(t)'
    BY <2>1 DEF Before, After, Granted
  <2>3. stage[t] = "post" => ~Before(t) /\ After(t)
    BY <1>1 DEF Before, After, Granted
  <2>4. stage[t] = "undo" => Before(t) /\ ~After(t)
    BY <1>1 DEF Before, After, Granted
  <2>5. \A r \in TokenSems : r = Gives(t) <=> r # Wants(t)
    BY Sides DEF TokenSems, Gives, Wants
  <2> QED BY <1>1, <2>2, <2>3, <2>4, <2>5 DEF Holders, Holds, Wants
<1> HIDE DEF s
<1>4. CASE SemGive(t, s)
  <2>1. state' = state /\ wait_result' = wait_result
    BY <1>4 DEF SemGive, tcbVars
  <2>2. ASSUME NEW u \in Users, u # t PROVE KeepsTokens(u)
    BY <1>0, <1>1, <2>1, <2>2, StaysPut DEF GoTo
  <2>3. \A r : \A y : y # t => (y \in Holders(r) <=> y \in Holders(r)')
    BY <2>2 DEF Holders, Holds, KeepsTokens, Wants
  <2>4. count[s] < Capacity
    <3>1. Total(s) > count[s] /\ Total(s) \in Nat /\ count[s] \in Nat
      BY <1>0, <1>2, <1>3, Sums DEF SumsOK
    <3>2. /\ Total(EmptySlots) \in Nat /\ Total(FilledSlots) \in Nat
          /\ Total(EmptySlots) + Total(FilledSlots) = Capacity
      BY <1>0, Sums DEF SumsOK, TokensConserved, TokenSems
    <3>3. Total(s) <= Capacity
      BY <1>2, <3>1, <3>2 DEF TokenSems
    <3> QED BY <3>1, <3>2, <3>3
  <2>5. count' = [count EXCEPT ![s] = count[s] + 1]
    BY <1>2, <1>4, <2>4, Sides DEF SemGive
  <2>6. ASSUME NEW r \in TokenSems PROVE Total(r)' = Total(r)
    <3>1. IsFiniteSet(Holders(r)) /\ IsFiniteSet(Holders(r)')
      BY <1>0, Sums, SumsNext DEF SumsOK
    <3>2. count[r] \in Nat /\ r \in DOMAIN count
      BY <1>0, Sides DEF TypeOK
    <3>3. CASE r = s
      <4>1. t \in Holders(r) /\ t \notin Holders(r)'
        BY <1>2, <1>3, <3>3
      <4>2. /\ Cardinality(Holders(r)) = Cardinality(Holders(r)') + 1
            /\ Cardinality(Holders(r)') \in Nat
        BY <2>3, <3>1, <4>1, CardMove
      <4>3. count'[r] = count[r] + 1
        BY <2>5, <3>2, <3>3
      <4> QED BY <3>2, <4>2, <4>3 DEF Total
    <3>4. CASE r # s
      <4>1. Holders(r)' = Holders(r)
        BY <1>3, <2>3, <3>4
      <4> QED BY <2>5, <3>4, <4>1 DEF Total
    <3> QED BY <3>3, <3>4
  <2> QED BY <1>0, <2>6, Sums, SumsNext DEF SumsOK, TokenSems
<1>5. CASE SemHandoff(t, s)
  <2>2. PICK w \in Tasks :
          /\ w # t /\ call[w] = s /\ state[w] = "BLOCKED"
          /\ \A u \in Tasks : state'[u] = IF u = w THEN "READY" ELSE state[u]
          /\ \A u \in Tasks : wait_result'[u] = IF u = w THEN OS_SUCCESS ELSE wait_result[u]
    <3>1. PICK i \in 0 .. wait_count[s] - 1 : WakeTask(wait_queue[s][i])
      BY <1>5 DEF SemHandoff
    <3> QED BY <1>0, <1>2, <1>5, <3>1, Sides, WakeKeeps DEF SemHandoff
  <2>3. w \in Users /\ stage[w] = "token" /\ Wants(w) = s
    <3>1. w \in Users
      BY <1>2, <2>2, Sides DEF DataInv, OthersIdle
    <3> QED BY <1>2, <2>2, <3>1, Sides DEF QInv, Bound
  <2>4. count' = count
    BY <1>5 DEF SemHandoff, objVars
  <2>5. ASSUME NEW u \in Users, u # t, u # w PROVE KeepsTokens(u)
    <3>1. u \in Tasks /\ stage'[u] = stage[u] /\ had_token'[u] = had_token[u]
      BY <1>0, <1>1, <2>5, QueueObjects DEF GoTo
    <3> QED BY <2>2, <2>5, <3>1, StaysPut
  <2>6. ~Before(w) /\ ~After(w) /\ Before(w)' /\ ~After(w)'
    <3>1. stage'[w] = "token" /\ state'[w] = "READY" /\ wait_result'[w] = OS_SUCCESS
      BY <1>0, <1>1, <2>2, <2>3 DEF GoTo
    <3> QED BY <2>2, <2>3, <3>1 DEF Before, After, Granted
  <2>7. ASSUME NEW r \in TokenSems PROVE Total(r)' = Total(r)
    <3>1. \A y : y # t /\ y # w => (y \in Holders(r) <=> y \in Holders(r)')
      BY <2>5 DEF Holders, Holds, KeepsTokens, Wants
    <3>2. IsFiniteSet(Holders(r)) /\ IsFiniteSet(Holders(r)')
      BY <1>0, Sums, SumsNext DEF SumsOK
    <3>3. (w \in Holders(r)' <=> r = s) /\ w \notin Holders(r)
      BY <2>3, <2>6 DEF Holders, Holds, Wants
    <3>4. CASE r = s
      <4> DEFINE S == Holders(r)
                 M == Holders(r) \ {t}
                 T == Holders(r)'
      <4>1. IsFiniteSet(M)
        BY <3>2, FS_Subset
      <4>2. t \in S /\ t \notin M /\ w \notin M /\ w \in T
        BY <1>3, <3>3, <3>4
      <4>3. \A y : y # t => (y \in S <=> y \in M)
        OBVIOUS
      <4>4. \A y : y # w => (y \in M <=> y \in T)
        BY <1>3, <3>1, <3>3, <3>4
      <4>5. IsFiniteSet(S) /\ IsFiniteSet(T)
        BY <3>2
      <4> HIDE DEF S, M, T
      <4>6. Cardinality(S) = Cardinality(M) + 1
        BY <4>1, <4>2, <4>3, <4>5, CardMove
      <4>7. Cardinality(T) = Cardinality(M) + 1
        BY <4>1, <4>2, <4>4, <4>5, CardMove
      <4> QED BY <2>4, <4>6, <4>7 DEF S, T, Total
    <3>5. CASE r # s
      <4>1. Holders(r)' = Holders(r)
        BY <1>3, <3>1, <3>3, <3>5
      <4> QED BY <2>4, <4>1 DEF Total
    <3> QED BY <3>4, <3>5
  <2> QED BY <1>0, <2>7, Sums, SumsNext DEF SumsOK, TokenSems
<1> QED BY <1>2, <1>4, <1>5 DEF SemRelease

\* An access to the ring with a token turns it into one of the other side; an
\* overwrite has none.
LEMMA AccessMoves ==
  ASSUME IInv, TypeOK', DataInv, NEW t \in Users, SendWrite(t) \/ ReceiveRead(t)
  PROVE  /\ Unread \in Nat /\ Free \in Nat
         /\ had_token[t] /\ t \in Producers => Unread' = Unread + 1 /\ Free = Free' + 1
         /\ t \in Consumers => Unread = Unread' + 1 /\ Free' = Free + 1
         /\ ~had_token[t] => UNCHANGED <<Unread, Free>>
         /\ Unread' \in Nat /\ Free' \in Nat
<1>0. /\ TypeOK /\ t \in Tasks /\ stage \in [Users -> Stages]
      /\ had_token \in [Users -> BOOLEAN] /\ EmptySlots # FilledSlots
      /\ Producers \cap Consumers = {}
  BY QueueObjects, QueueAssumption DEF IInv, DataInv, QueueTypeOK
<1>1. /\ GoTo(t, "advance") /\ had_token' = had_token /\ stage[t] = "data" /\ UNCHANGED vars
      /\ t \in Consumers => had_token[t]
  BY DEF SendWrite, ReceiveRead, DataInv, TokenInHand
<1>2. state' = state /\ wait_result' = wait_result /\ count' = count
  BY <1>1 DEF vars, tcbVars, objVars
<1>3. ASSUME NEW u \in Users, u # t PROVE KeepsTokens(u)
  BY <1>0, <1>1, <1>2, <1>3, StaysPut DEF GoTo
<1>4. /\ Before(t) <=> had_token[t]
      /\ After(t)' <=> had_token[t]
      /\ ~After(t) /\ ~Before(t)'
  BY <1>0, <1>1 DEF GoTo, Before, After, Granted
<1>5. CASE ~had_token[t]
  <2>1. KeepsTokens(t)
    BY <1>4, <1>5 DEF KeepsTokens
  <2>2. \A u \in Users : KeepsTokens(u)
    BY <1>3, <2>1
  <2>3. UNCHANGED <<Unread, Free>>
    BY <1>0, <1>2, <2>2, AllStay
  <2> QED BY <1>0, <1>1, <1>5, <2>3, Sums, SumsNext DEF SumsOK, TokenSems
<1>6. CASE had_token[t]
  <2>1. \A r : \A y : y # t => (y \in Holders(r) <=> y \in Holders(r)')
    BY <1>3 DEF Holders, Holds, KeepsTokens, Wants
  <2>2. \A r \in TokenSems :
          /\ r = Wants(t) => t \in Holders(r) /\ t \notin Holders(r)'
          /\ r # Wants(t) => t \notin Holders(r) /\ t \in Holders(r)'
    BY <1>4, <1>6 DEF Holders, Holds, Wants
  <2>3. ASSUME NEW r \in TokenSems
        PROVE  /\ r = Wants(t) => Total(r) = Total(r)' + 1
               /\ r # Wants(t) => Total(r)' = Total(r) + 1
    <3>1. /\ IsFiniteSet(Holders(r)) /\ IsFiniteSet(Holders(r)') /\ count[r] \in Nat
          /\ Cardinality(Holders(r)) \in Nat /\ Cardinality(Holders(r)') \in Nat
      BY <1>0, Sums, SumsNext DEF SumsOK
    <3>2. /\ r = Wants(t) => Cardinality(Holders(r)) = Cardinality(Holders(r)') + 1
          /\ r # Wants(t) => Cardinality(Holders(r)') = Cardinality(Holders(r)) + 1
      BY <2>1, <2>2, <3>1, CardMove
    <3> QED BY <1>2, <3>1, <3>2 DEF Total
  <2>4. /\ t \in Producers => Wants(t) = EmptySlots
        /\ t \in Consumers => Wants(t) = FilledSlots
    BY <1>0 DEF Wants
  <2>5. EmptySlots \in TokenSems /\ FilledSlots \in TokenSems
    BY DEF TokenSems
  <2>6. /\ t \in Producers => Total(FilledSlots)' = Total(FilledSlots) + 1
                               /\ Total(EmptySlots) = Total(EmptySlots)' + 1
        /\ t \in Consumers => Total(FilledSlots) = Total(FilledSlots)' + 1
                               /\ Total(EmptySlots)' = Total(EmptySlots) + 1
    BY <1>0, <2>3, <2>4, <2>5
  <2> QED BY <1>0, <1>6, <2>5, <2>6, Sums, SumsNext DEF SumsOK
<1> QED BY <1>5, <1>6

-----------------------------------------------------------------------------
(* Which steps move the ring.                                              *)

\* The task inside the critical section is alone there.
LEMMA AloneInside ==
  ASSUME IInv, QInv, NEW t \in Users, stage[t] \in Inside
  PROVE  \A u \in Users : u # t => stage[u] \notin Inside
BY QueueObjects DEF IInv, ObjectInv, MutualExclusion, QInv, Bound

\* Nobody comes to or leaves the point between an access and its advance.
LEMMA RingStays ==
  ASSUME head' = head, tail' = tail,
         \A u \in Users : /\ stage'[u] = "advance" <=> stage[u] = "advance"
                          /\ stage[u] = "advance" => had_token'[u] = had_token[u]
  PROVE  UNCHANGED <<AdvancedHead, AdvancedTail>>
BY DEF AdvancedHead, AdvancedTail, Users

\* An advance does to an index what was already counted.
LEMMA AdvanceStays ==
  ASSUME IInv, QInv, DataInv, NEW t \in Users, SendAdvance(t) \/ ReceiveAdvance(t)
  PROVE  UNCHANGED <<AdvancedHead, AdvancedTail>>
<1>0. /\ stage \in [Users -> Stages] /\ had_token \in [Users -> BOOLEAN]
      /\ Producers \cap Consumers = {}
  BY QueueAssumption DEF DataInv, QueueTypeOK
<1>1. stage[t] = "advance" /\ GoTo(t, "unlock") /\ had_token' = had_token
  BY DEF SendAdvance, ReceiveAdvance
<1>2. \A u \in Users : u # t => stage[u] # "advance"
  BY <1>1, AloneInside DEF Inside
<1>3. \A u \in Users : stage'[u] # "advance"
  BY <1>0, <1>1, <1>2 DEF GoTo
<1>4. AdvancedHead' = head' /\ AdvancedTail' = tail'
  BY <1>3 DEF AdvancedHead, AdvancedTail, Users
<1>5. CASE SendAdvance(t)
  <2>1. t \in Producers
    BY <1>5 DEF SendAdvance
  <2>2. /\ AdvancedHead = (head + 1) % Capacity
        /\ AdvancedTail = IF had_token[t] THEN tail ELSE (tail + 1) % Capacity
    BY <1>1, <1>2, <2>1 DEF AdvancedHead, AdvancedTail, Users
  <2> QED BY <1>4, <1>5, <2>2 DEF SendAdvance
<1>6. CASE ReceiveAdvance(t)
  <2>1. t \notin Producers
    BY <1>0, <1>6 DEF ReceiveAdvance
  <2>2. AdvancedHead = head /\ AdvancedTail = (tail + 1) % Capacity
    BY <1>1, <1>2, <2>1 DEF AdvancedHead, AdvancedTail, Users
  <2> QED BY <1>4, <1>6, <2>2 DEF ReceiveAdvance
<1> QED BY <1>5, <1>6

\* A write moves the end of the unread messages, and their start if it has no
\* slot of its own; a read moves their start.
LEMMA AccessAdvances ==
  ASSUME IInv, QInv, DataInv, NEW t \in Users, SendWrite(t) \/ ReceiveRead(t)
  PROVE  /\ AdvancedHead = head /\ AdvancedTail = tail
         /\ t \in Producers =>
              /\ AdvancedHead' = (head + 1) % Capacity
              /\ AdvancedTail' = IF had_token[t] THEN tail ELSE (tail + 1) % Capacity
         /\ t \in Consumers =>
              AdvancedHead' = head /\ AdvancedTail' = (tail + 1) % Capacity
<1>0. /\ stage \in [Users -> Stages] /\ had_token \in [Users -> BOOLEAN]
      /\ Producers \cap Consumers = {}
  BY QueueAssumption DEF DataInv, QueueTypeOK
<1>1. /\ stage[t] = "data" /\ GoTo(t, "advance") /\ had_token' = had_token
      /\ head' = head /\ tail' = tail
  BY DEF SendWrite, ReceiveRead, ringVars
<1>2. \A u \in Users : stage[u] # "advance"
  BY <1>1, AloneInside DEF Inside
<1>3. \A u \in Users : stage'[u] = "advance" <=> u = t
  BY <1>0, <1>1, <1>2 DEF GoTo
<1>4. AdvancedHead = head /\ AdvancedTail = tail
  BY <1>2 DEF AdvancedHead, AdvancedTail, Users
<1>5. t \in Producers =>
        /\ AdvancedHead' = (head + 1) % Capacity
        /\ AdvancedTail' = IF had_token[t] THEN tail ELSE (tail + 1) % Capacity
  BY <1>1, <1>3 DEF AdvancedHead, AdvancedTail, Users
<1>6. t \in Consumers => AdvancedHead' = head /\ AdvancedTail' = (tail + 1) % Capacity
  BY <1>0, <1>1, <1>3 DEF AdvancedHead, AdvancedTail, Users
<1> QED BY <1>4, <1>5, <1>6

\* Every step but a write and a read leaves the unread messages alone.
Calm == UNCHANGED <<Unread, Free, AdvancedHead, AdvancedTail, buffer, got>>

\* A tick, a switch and the steps inside the kernel's calls move no token.
LEMMA KernelCalm ==
  ASSUME IInv, TypeOK', QInv, (KernelStep /\ UNCHANGED queueData) \/ UNCHANGED allVars
  PROVE  Calm
<1>1. TypeOK /\ UNCHANGED queueData
  BY DEF IInv, allVars
<1>2. UNCHANGED <<buffer, got, AdvancedHead, AdvancedTail>>
  BY <1>1, RingStays DEF queueData, ringVars
<1>3. (\A u \in Users : KeepsTokens(u)) /\ count' = count
  <2>1. CASE UNCHANGED allVars
    BY <2>1, StaysPut DEF allVars, queueData, vars, tcbVars, objVars
  <2> QED BY <2>1, KernelStays
<1> QED BY <1>1, <1>2, <1>3, AllStay DEF Calm

\* Nor does a step of a user that touches no entry of the ring.
LEMMA TaskCalm ==
  ASSUME IInv, TypeOK', QInv, DataInv, TokensConserved, NEW t \in Users, QTask(t),
         ~SendWrite(t), ~ReceiveRead(t)
  PROVE  Calm
<1>0. TypeOK /\ stage \in [Users -> Stages] /\ had_token \in [Users -> BOOLEAN]
  BY DEF IInv, DataInv, QueueTypeOK
<1>1. CASE SendAdvance(t) \/ ReceiveAdvance(t)
  <2>1. /\ UNCHANGED vars /\ stage[t] = "advance" /\ GoTo(t, "unlock")
        /\ UNCHANGED <<had_token, buffer, got>>
    BY <1>1 DEF SendAdvance, ReceiveAdvance
  <2>2. state' = state /\ wait_result' = wait_result /\ count' = count
    BY <2>1 DEF vars, tcbVars, objVars
  <2>3. ASSUME NEW u \in Users PROVE KeepsTokens(u)
    <3>1. CASE u = t
      BY <1>0, <2>1, <3>1 DEF GoTo, KeepsTokens, Before, After, Granted
    <3>2. CASE u # t
      BY <1>0, <2>1, <2>2, <3>2, StaysPut DEF GoTo
    <3> QED BY <3>1, <3>2
  <2>4. UNCHANGED <<Unread, Free>>
    BY <1>0, <2>2, <2>3, AllStay
  <2> QED BY <1>1, <2>1, <2>4, AdvanceStays DEF Calm
<1>2. CASE ~SendAdvance(t) /\ ~ReceiveAdvance(t)
  <2>1. UNCHANGED <<ringVars, got>>
    BY <1>2 DEF QTask, InCall, SendTake, SendPoll, SendBlock, NewMessage, SendWoken, ReceiveTake,
       ReceivePoll, ReceiveBlock, ReceiveWoken, LockTake, LockBlock, LockWoken, LockFail, Undo,
       Unlock, Post, Resume, Pause, queueData
  <2>2. UNCHANGED <<AdvancedHead, AdvancedTail>>
    <3>1. \/ UNCHANGED <<stage, had_token>>
          \/ /\ stage[t] # "advance"
             /\ \E s \in Stages : s # "advance" /\ GoTo(t, s)
             /\ had_token' = had_token \/ \E b : Token(t, b)
      BY <1>2 DEF QTask, InCall, SendTake, SendPoll, SendBlock, NewMessage, SendWoken, ReceiveTake,
         ReceivePoll, ReceiveBlock, ReceiveWoken, LockTake, LockBlock, LockWoken, LockFail, Undo,
         Unlock, Post, Resume, Pause, queueData, Undone, Stages
    <3>2. \A u \in Users : /\ stage'[u] = "advance" <=> stage[u] = "advance"
                           /\ stage[u] = "advance" => had_token'[u] = had_token[u]
      BY <1>0, <3>1 DEF GoTo, Token
    <3> QED BY <2>1, <3>2, RingStays DEF ringVars
  <2>3. UNCHANGED <<Unread, Free>>
    <3>1. CASE SendTake(t) \/ ReceiveTake(t)
      BY <3>1, TakeStays
    <3>2. CASE Post(t) \/ Undo(t)
      BY <3>2, GiveStays
    <3>3. CASE ~(SendTake(t) \/ ReceiveTake(t) \/ Post(t) \/ Undo(t))
      <4>1. (\A u \in Users : KeepsTokens(u)) /\ count' = count
        BY <1>2, <3>3, CallStays, LockStays DEF QTask, InCall
      <4> QED BY <1>0, <4>1, AllStay
    <3> QED BY <3>1, <3>2, <3>3
  <2> QED BY <2>1, <2>2, <2>3 DEF Calm, ringVars
<1> QED BY <1>1, <1>2

-----------------------------------------------------------------------------
(* The invariant.                                                          *)

\* The indices stay in the ring.
LEMMA AdvancedTypes == QueueTypeOK => AdvancedHead \in Indices /\ AdvancedTail \in Indices
BY ModNext DEF QueueTypeOK, AdvancedHead, AdvancedTail

\* Wherever the ring wraps, tail, head and the number of unread messages fit.
LEMMA SpanArithmetic ==
  ASSUME NEW t \in Indices, NEW h \in Indices, NEW u \in 0 .. Capacity,
         t + u = h \/ t + u = h + Capacity
  PROVE  LET t1 == (t + 1) % Capacity
             h1 == (h + 1) % Capacity
         IN /\ u < Capacity => t + (u + 1) = h1 \/ t + (u + 1) = h1 + Capacity
            /\ t1 + u = h1 \/ t1 + u = h1 + Capacity
            /\ u > 0 => t1 + (u - 1) = h \/ t1 + (u - 1) = h + Capacity
<1>1. Capacity \in Nat /\ Capacity > 0
  BY QueueAssumption
<1>2. /\ (t + 1) % Capacity = IF t + 1 = Capacity THEN 0 ELSE t + 1
      /\ (h + 1) % Capacity = IF h + 1 = Capacity THEN 0 ELSE h + 1
  BY ModNext
<1> DEFINE t1 == (t + 1) % Capacity
           h1 == (h + 1) % Capacity
<1>3. /\ t1 = IF t + 1 = Capacity THEN 0 ELSE t + 1
      /\ h1 = IF h + 1 = Capacity THEN 0 ELSE h + 1
  BY <1>2
<1> HIDE DEF t1, h1
<1>4. /\ u < Capacity => t + (u + 1) = h1 \/ t + (u + 1) = h1 + Capacity
      /\ t1 + u = h1 \/ t1 + u = h1 + Capacity
      /\ u > 0 => t1 + (u - 1) = h \/ t1 + (u - 1) = h + Capacity
  BY <1>1, <1>3 DEF Indices
<1> QED BY <1>4 DEF t1, h1

\* The sums of a state in which no token is lost.
LEMMA Bounds ==
  ASSUME TypeOK, TInv
  PROVE  /\ Unread \in 0 .. Capacity /\ Free \in Nat /\ Unread + Free = Capacity
         /\ Capacity \in Nat /\ Capacity > 0
BY Sums, QueueAssumption DEF SumsOK, TokenSems, TInv, TokensConserved

\* What taking one leaves.
LEMMA OneLess == \A a, b \in Nat : a = b + 1 => a > 0 /\ b = a - 1
OBVIOUS

\* The invariant of the tokens holds when os_queue_init has run.
LEMMA TInitInv == QInit => TInv
<1> SUFFICES ASSUME QInit PROVE TInv
  OBVIOUS
<1>0. EmptySlots \in Sems /\ FilledSlots \in Sems /\ Capacity \in Nat /\ Capacity > 0
      /\ MaxMessages \in Nat /\ 0 \in Indices
  BY QueueAssumption DEF Indices
<1>1. QueueTypeOK /\ OthersIdle /\ TokenInHand /\ OwnMessage
  BY <1>0 DEF QInit, Init, QueueTypeOK, OthersIdle, TokenInHand, OwnMessage, Stages, Users
<1>2. \A u \in Users : ~Before(u) /\ ~After(u)
  BY DEF QInit, Before, After, Granted
<1>3. \A s : Holders(s) = {}
  BY <1>2 DEF Holders, Holds
<1>4. TypeOK
  BY InitInv DEF QInit, IInv
<1>5. Unread = count[FilledSlots] + Cardinality({}) /\ Free = count[EmptySlots] + Cardinality({})
  BY <1>3, <1>4, Sums DEF SumsOK, Total
<1>6. Unread = 0 /\ Free = Capacity
  <2>1. Cardinality({}) = 0
    BY FS_EmptySet
  <2>2. count[FilledSlots] = 0 /\ count[EmptySlots] = Capacity
    BY QueueAssumption DEF QInit, Init, SemaphoreInit
  <2> QED BY <1>0, <1>5, <2>1, <2>2
<1>7. AdvancedHead = 0 /\ AdvancedTail = 0
  BY DEF QInit, AdvancedHead, AdvancedTail, Users
<1> QED BY <1>0, <1>1, <1>6, <1>7 DEF TInv, TokensConserved, RingSpans

\* Every step keeps the invariant of the tokens.
LEMMA TNextInv ==
  ASSUME IInv, TypeOK', QInv, TInv, [QNext]_allVars
  PROVE  TInv'
<1>0. TypeOK /\ DataInv /\ TokensConserved /\ QueueTypeOK
  BY DEF IInv, TInv, DataInv
<1>1. DataInv'
  BY <1>0, DataKeeps
<1>2. CASE Calm
  <2>1. TokensConserved' /\ RingSpans'
    BY <1>2 DEF TInv, Calm, TokensConserved, RingSpans
  <2> QED BY <1>1, <2>1 DEF TInv, DataInv
<1>3. ASSUME NEW t \in Users, SendWrite(t) \/ ReceiveRead(t) PROVE TInv'
  <2>1. /\ AdvancedHead = head /\ AdvancedTail = tail
        /\ t \in Producers =>
             /\ AdvancedHead' = (head + 1) % Capacity
             /\ AdvancedTail' = IF had_token[t] THEN tail ELSE (tail + 1) % Capacity
        /\ t \in Consumers =>
             AdvancedHead' = head /\ AdvancedTail' = (tail + 1) % Capacity
    BY <1>0, <1>3, AccessAdvances
  <2>2. /\ had_token[t] /\ t \in Producers => Unread' = Unread + 1 /\ Free = Free' + 1
        /\ t \in Consumers => Unread = Unread' + 1 /\ Free' = Free + 1
        /\ ~had_token[t] => UNCHANGED <<Unread, Free>>
        /\ Unread' \in Nat /\ Free' \in Nat
        /\ t \in Consumers => had_token[t]
    BY <1>0, <1>3, AccessMoves DEF DataInv, TokenInHand, ReceiveRead, SendWrite
  <2>3. /\ Unread \in 0 .. Capacity /\ Free \in Nat /\ Unread + Free = Capacity
        /\ Capacity \in Nat /\ Capacity > 0
    BY <1>0, Bounds
  <2>4. TokensConserved'
    <3>1. Unread' + Free' = Unread + Free
      <4>1. CASE t \in Producers /\ had_token[t]
        <5>1. Unread' = Unread + 1 /\ Free = Free' + 1 /\ Unread' \in Nat /\ Free' \in Nat
          BY <2>2, <4>1
        <5> QED BY <2>3, <5>1
      <4>2. CASE t \in Consumers
        <5>1. Unread = Unread' + 1 /\ Free' = Free + 1 /\ Unread' \in Nat /\ Free' \in Nat
          BY <2>2, <4>2
        <5> QED BY <2>3, <5>1
      <4>3. CASE ~had_token[t]
        BY <2>2, <4>3
      <4> QED BY <4>1, <4>2, <4>3 DEF Users
    <3> QED BY <2>3, <3>1 DEF TokensConserved
  <2>5. head \in Indices /\ tail \in Indices /\ RingSpans
    BY DEF TInv, QueueTypeOK
  <2>6. LET t1 == (tail + 1) % Capacity
            h1 == (head + 1) % Capacity
        IN /\ Unread < Capacity =>
                tail + (Unread + 1) = h1 \/ tail + (Unread + 1) = h1 + Capacity
           /\ t1 + Unread = h1 \/ t1 + Unread = h1 + Capacity
           /\ Unread > 0 =>
                t1 + (Unread - 1) = head \/ t1 + (Unread - 1) = head + Capacity
    BY <2>1, <2>3, <2>5, SpanArithmetic DEF RingSpans
  <2>7. RingSpans'
    <3>1. CASE t \in Producers /\ had_token[t]
      <4>1. Unread < Capacity
        <5>1. Free > 0
          BY <2>2, <2>3, <3>1, OneLess
        <5> QED BY <2>3, <5>1
      <4> QED BY <2>1, <2>2, <2>6, <3>1, <4>1 DEF RingSpans
    <3>2. CASE t \in Producers /\ ~had_token[t]
      BY <2>1, <2>2, <2>6, <3>2 DEF RingSpans
    <3>3. CASE t \in Consumers
      <4>1. Unread > 0 /\ Unread' = Unread - 1
        <5>1. Unread \in Nat
          BY <2>3
        <5> QED BY <2>2, <3>3, <5>1, OneLess
      <4> QED BY <2>1, <2>6, <3>3, <4>1 DEF RingSpans
    <3> QED BY <3>1, <3>2, <3>3 DEF Users
  <2> QED BY <1>1, <2>4, <2>7 DEF TInv, DataInv
<1>4. ASSUME NEW t \in Users, QTask(t), ~(SendWrite(t) \/ ReceiveRead(t)) PROVE Calm
  BY <1>0, <1>4, TaskCalm
<1>5. (KernelStep /\ UNCHANGED queueData) \/ UNCHANGED allVars => Calm
  BY KernelCalm
<1> QED BY <1>2, <1>3, <1>4, <1>5 DEF QNext

\* The kernel's invariant, the queue's and that of the tokens hold together.
THEOREM TokenInvariance == QSpec => [](IInv /\ QInv /\ TInv)
<1>1. QInit => IInv /\ QInv /\ TInv
  BY InitInv, QInitInv, TInitInv DEF QInit
<1>2. IInv /\ QInv /\ TInv /\ [QNext]_allVars => (IInv /\ QInv /\ TInv)'
  <2> SUFFICES ASSUME IInv, QInv, TInv, [QNext]_allVars
               PROVE  (IInv /\ QInv /\ TInv)'
    OBVIOUS
  <2>1. QInv' /\ [Next]_vars
    BY QNextKeeps
  <2>2. IInv'
    BY <2>1, NextInv
  <2> QED BY <2>1, <2>2, TNextInv DEF IInv
<1> QED BY <1>1, <1>2, PTL DEF QSpec

\* The variables of the queue keep their types: no index leaves the ring.
THEOREM QueueTypes == QSpec => []QueueTypeOK
<1>1. TInv => QueueTypeOK
  BY DEF TInv
<1> QED BY <1>1, TokenInvariance, PTL

\* Whatever times out, fails or is preempted, no token is lost or doubled.
THEOREM TokensSound == QSpec => []TokensConserved
<1>1. TInv => TokensConserved
  BY DEF TInv
<1> QED BY <1>1, TokenInvariance, PTL

\* Between tail and head there are as many entries as there are unread tokens.
THEOREM RingTokensSound == QSpec => []RingMatchesTokens
<1>1. IInv /\ TInv => RingMatchesTokens
  <2> SUFFICES ASSUME IInv, TInv PROVE RingMatchesTokens
    OBVIOUS
  <2> DEFINE x == AdvancedTail + Unread
  <2>1. AdvancedHead \in Indices /\ AdvancedTail \in Indices /\ RingSpans
    BY AdvancedTypes DEF TInv
  <2>2. Unread \in 0 .. Capacity /\ Capacity \in Nat /\ Capacity > 0
    BY Bounds DEF IInv
  <2>3. /\ x \in 0 .. 2 * Capacity - 1
        /\ x = AdvancedHead \/ x = AdvancedHead + Capacity
    BY <2>1, <2>2 DEF RingSpans, Indices
  <2> HIDE DEF x
  <2>4. x % Capacity = IF x < Capacity THEN x ELSE x - Capacity
    BY <2>3, ModOnce
  <2>5. x % Capacity = AdvancedHead
    BY <2>1, <2>2, <2>3, <2>4 DEF Indices
  <2> QED BY <2>5 DEF x, RingMatchesTokens
<1> QED BY <1>1, TokenInvariance, PTL

-----------------------------------------------------------------------------
(* The refinement.                                                         *)

\* The stages of a send that has not yet taken effect.
Pending == {"token", "lock", "wait", "data"}

\* A step that moves no send across its effect settles nothing.
LEMMA SettlesNothing ==
  ASSUME UNCHANGED <<message, sent>>,
         \A u \in Producers : stage'[u] \in Pending <=> stage[u] \in Pending
  PROVE  Settled' = Settled
BY DEF Settled, Pending

\* A new message is not settled, and the ones before it stay as they are.
LEMMA NewUnsettled ==
  ASSUME DataInv, NEW t \in Users, NewMessage(t), NEW s \in Pending, GoTo(t, s)
  PROVE  Settled' = Settled
<1>1. /\ t \in Producers /\ stage[t] = "out" /\ sent \in Nat /\ sent' = sent + 1
      /\ stage \in [Users -> Stages] /\ message \in [Producers -> Messages \cup {0}]
  BY DEF NewMessage, DataInv, QueueTypeOK
<1>2. \A u \in Producers : message'[u] = IF u = t THEN sent + 1 ELSE message[u]
  BY <1>1 DEF NewMessage
<1>3. \A u \in Producers : stage'[u] = IF u = t THEN s ELSE stage[u]
  BY <1>1 DEF GoTo, Users
<1>4. ASSUME NEW m PROVE m \in Settled' <=> m \in Settled
  <2>1. CASE m = sent + 1
    <3>1. m \notin Settled
      BY <1>1, <2>1 DEF Settled
    <3>2. message'[t] = m /\ stage'[t] \in Pending
      BY <1>1, <1>2, <1>3, <2>1
    <3> QED BY <1>1, <3>1, <3>2 DEF Settled, Pending
  <2>2. CASE m # sent + 1
    <3>1. m \in 1 .. sent' <=> m \in 1 .. sent
      BY <1>1, <2>2
    <3>2. \A u \in Producers :
            (message'[u] = m => stage'[u] \notin Pending)
              <=> (message[u] = m => stage[u] \notin Pending)
      BY <1>1, <1>2, <1>3, <2>2 DEF Pending
    <3> QED BY <3>1, <3>2 DEF Settled, Pending
  <2> QED BY <2>1, <2>2
<1> QED BY <1>4

\* A send that takes effect, or fails, settles its message and no other.
LEMMA SettlesOne ==
  ASSUME DataInv, NEW t \in Producers, UNCHANGED <<message, sent>>,
         stage[t] \in Pending, NEW s, s \notin Pending, GoTo(t, s)
  PROVE  /\ message[t] \in Messages
         /\ message[t] \notin Settled
         /\ Settled' = Settled \cup {message[t]}
<1>1. /\ stage \in [Users -> Stages] /\ message \in [Producers -> Messages \cup {0}]
      /\ sent \in Nat /\ t \in Users
  BY DEF DataInv, QueueTypeOK, Users
<1>2. message[t] \in Messages /\ message[t] \in 1 .. sent
  BY <1>1 DEF DataInv, OwnMessage, Pending, Messages
<1>3. message[t] \notin Settled
  BY DEF Settled, Pending
<1>4. \A u \in Producers : message[u] = message[t] => u = t
  BY <1>1, <1>2 DEF DataInv, OwnMessage
<1>5. \A u \in Producers : stage'[u] = IF u = t THEN s ELSE stage[u]
  BY <1>1 DEF GoTo, Users
<1>6. ASSUME NEW m PROVE m \in Settled' <=> m \in Settled \/ m = message[t]
  <2>1. CASE m = message[t]
    BY <1>2, <1>4, <1>5, <2>1 DEF Settled, Pending
  <2>2. CASE m # message[t]
    BY <1>5, <2>2 DEF Settled, Pending
  <2> QED BY <2>1, <2>2
<1> QED BY <1>2, <1>3, <1>6

-----------------------------------------------------------------------------
(* The unread messages as a sequence.                                      *)

Wrap(x) == IF x < Capacity THEN x ELSE x - Capacity

\* What Items is: unread entries of the ring from the tail on.
ItemsOK ==
  /\ Items \in [1 .. Unread -> Messages \cup {0}]
  /\ \A i \in 1 .. Unread : Items[i] = buffer[Wrap(AdvancedTail + i - 1)]

\* The unread messages are the entries from the tail on.
LEMMA ItemsShape == TypeOK /\ TInv => ItemsOK
<1> SUFFICES ASSUME TypeOK, TInv PROVE ItemsOK
  OBVIOUS
<1>1. Unread \in 0 .. Capacity /\ Capacity \in Nat /\ Capacity > 0
  BY Bounds
<1>2. AdvancedTail \in Indices /\ buffer \in [Indices -> Messages \cup {0}]
  BY AdvancedTypes DEF TInv, QueueTypeOK
<1>3. ASSUME NEW i \in 1 .. Unread
      PROVE  /\ (AdvancedTail + i - 1) % Capacity = Wrap(AdvancedTail + i - 1)
             /\ Wrap(AdvancedTail + i - 1) \in Indices
  <2> DEFINE x == AdvancedTail + i - 1
  <2>1. x \in 0 .. 2 * Capacity - 1
    BY <1>1, <1>2 DEF Indices
  <2> HIDE DEF x
  <2>2. x % Capacity = Wrap(x)
    BY <2>1, ModOnce DEF Wrap
  <2>3. Wrap(x) \in Indices
    BY <1>1, <2>1 DEF Wrap, Indices
  <2> QED BY <2>2, <2>3 DEF x
<1>4. \A i \in 1 .. Unread : Items[i] = buffer[Wrap(AdvancedTail + i - 1)]
  BY <1>3 DEF Items
<1>5. \A i \in 1 .. Unread : buffer[(AdvancedTail + i - 1) % Capacity] \in Messages \cup {0}
  BY <1>2, <1>3
<1>6. Items \in [1 .. Unread -> Messages \cup {0}]
  BY <1>5 DEF Items
<1> QED BY <1>4, <1>6 DEF ItemsOK

\* The same, after a step.
LEMMA ItemsShapeNext == TypeOK' /\ TInv' => ItemsOK'
BY ItemsShape, PTL

\* A function on 1 .. n is a sequence of length n; how to recognise its end and
\* its tail.
LEMMA AppendIs ==
  ASSUME NEW S, NEW n \in Nat, NEW f \in [1 .. n -> S], NEW g \in [1 .. n + 1 -> S],
         NEW m, \A i \in 1 .. n : g[i] = f[i], g[n + 1] = m
  PROVE  g = Append(f, m) /\ Len(f) = n
<1>1. f \in Seq(S) /\ g \in Seq(S) /\ Len(f) = n /\ Len(g) = n + 1
  OBVIOUS
<1> QED BY <1>1

\* A function that lacks the first entry of another is its tail.
LEMMA TailIs ==
  ASSUME NEW S, NEW n \in Nat, n > 0, NEW f \in [1 .. n -> S], NEW g \in [1 .. n - 1 -> S],
         \A i \in 1 .. n - 1 : g[i] = f[i + 1]
  PROVE  g = Tail(f) /\ f # <<>> /\ Head(f) = f[1]
<1>1. f \in Seq(S) /\ g \in Seq(S) /\ Len(f) = n /\ Len(g) = n - 1
  OBVIOUS
<1> QED BY <1>1

\* A new last entry after the first has gone.
LEMMA ShiftIs ==
  ASSUME NEW S, NEW n \in Nat, n > 0, NEW f \in [1 .. n -> S], NEW g \in [1 .. n -> S],
         NEW m, \A i \in 1 .. n - 1 : g[i] = f[i + 1], g[n] = m
  PROVE  g = Append(Tail(f), m) /\ f # <<>>
<1> DEFINE h == [i \in 1 .. n - 1 |-> f[i + 1]]
<1>1. h \in [1 .. n - 1 -> S]
  OBVIOUS
<1>2. h = Tail(f) /\ f # <<>>
  <2>1. \A i \in 1 .. n - 1 : h[i] = f[i + 1]
    OBVIOUS
  <2> HIDE DEF h
  <2> QED BY <1>1, <2>1, TailIs
<1>3. n - 1 \in Nat /\ (n - 1) + 1 = n /\ \A i \in 1 .. n - 1 : g[i] = h[i]
  OBVIOUS
<1> HIDE DEF h
<1>4. g = Append(h, m)
  <2> DEFINE k == n - 1
  <2>1. k \in Nat /\ g \in [1 .. k + 1 -> S] /\ h \in [1 .. k -> S] /\ g[k + 1] = m
        /\ \A i \in 1 .. k : g[i] = h[i]
    BY <1>1, <1>3
  <2> HIDE DEF k
  <2> QED BY <2>1, AppendIs
<1> QED BY <1>2, <1>4

\* The entry a write touches is the one past the last unread one, or, when the
\* ring is full, the oldest.
LEMMA WrapApart ==
  ASSUME NEW t \in Indices, NEW h \in Indices, NEW u \in 0 .. Capacity,
         t + u = h \/ t + u = h + Capacity
  PROVE  /\ \A i \in 1 .. u : u < Capacity \/ i > 1 => Wrap(t + i - 1) # h
         /\ Wrap(t + u) = h
         /\ \A i \in 1 .. Capacity :
              Wrap((IF t + 1 = Capacity THEN 0 ELSE t + 1) + i - 1) = Wrap(t + i)
<1>1. Capacity \in Nat /\ Capacity > 0
  BY QueueAssumption
<1> QED BY <1>1 DEF Wrap, Indices

-----------------------------------------------------------------------------
(* Every step is a step of the FIFO, or changes nothing it can see.        *)

\* Calm steps leave the sequence alone.
LEMMA CalmItems ==
  ASSUME Calm
  PROVE  Items' = Items /\ got' = got
BY DEF Calm, Items

\* What the ring is before an access.
LEMMA BeforeAccess ==
  ASSUME IInv, QInv, TInv, NEW t \in Users, SendWrite(t) \/ ReceiveRead(t)
  PROVE  /\ AdvancedHead = head /\ AdvancedTail = tail
         /\ head \in Indices /\ tail \in Indices /\ Unread \in 0 .. Capacity
         /\ tail + Unread = head \/ tail + Unread = head + Capacity
<1>1. DataInv /\ TypeOK
  BY DEF TInv, DataInv, IInv
<1>2. AdvancedHead = head /\ AdvancedTail = tail
  BY <1>1, AccessAdvances
<1> QED BY <1>1, <1>2, Bounds DEF TInv, RingSpans, QueueTypeOK

\* A write appends its message; without a slot of its own it first removes the
\* oldest, and is lost if there is none.
LEMMA WriteStep ==
  ASSUME IInv, TypeOK', QInv, TInv, TInv', NEW t \in Users, SendWrite(t)
  PROVE  Fifo!FifoNext
<1>0. /\ DataInv /\ TypeOK /\ t \in Producers /\ stage[t] = "data" /\ GoTo(t, "advance")
      /\ UNCHANGED <<message, sent, got>> /\ buffer' = [buffer EXCEPT ![head] = message[t]]
      /\ Capacity \in Nat /\ Capacity > 0
  BY QueueAssumption DEF TInv, DataInv, IInv, SendWrite
<1>1. PICK m \in Messages : m = message[t] /\ m \notin Settled /\ Settled' = Settled \cup {m}
  BY <1>0, SettlesOne DEF Pending
<1>2. /\ AdvancedHead = head /\ AdvancedTail = tail
      /\ head \in Indices /\ tail \in Indices /\ Unread \in 0 .. Capacity
      /\ tail + Unread = head \/ tail + Unread = head + Capacity
  BY BeforeAccess
<1>3. /\ \A i \in 1 .. Unread : Unread < Capacity \/ i > 1 => Wrap(tail + i - 1) # head
      /\ Wrap(tail + Unread) = head
      /\ \A i \in 1 .. Capacity :
           Wrap((IF tail + 1 = Capacity THEN 0 ELSE tail + 1) + i - 1) = Wrap(tail + i)
  BY <1>2, WrapApart
<1>4. /\ Items \in [1 .. Unread -> Messages \cup {0}]
      /\ \A i \in 1 .. Unread : Items[i] = buffer[Wrap(tail + i - 1)]
      /\ Items' \in [1 .. Unread' -> Messages \cup {0}]
      /\ \A i \in 1 .. Unread' : Items'[i] = buffer'[Wrap(AdvancedTail' + i - 1)]
  BY <1>0, <1>2, ItemsShape, ItemsShapeNext DEF ItemsOK, Wrap
<1>5. /\ buffer'[head] = m
      /\ \A x : x \in Indices /\ x # head => buffer'[x] = buffer[x]
  BY <1>0, <1>1, <1>2 DEF DataInv, QueueTypeOK
<1>6. \A i \in 1 .. Unread : Wrap(tail + i - 1) \in Indices
  BY <1>0, <1>2 DEF Wrap, Indices
<1>7. /\ had_token[t] => Unread' = Unread + 1 /\ Free = Free' + 1
      /\ ~had_token[t] => Unread' = Unread
      /\ Unread \in Nat /\ Free \in Nat /\ Free' \in Nat /\ Unread + Free = Capacity
  BY <1>0, AccessMoves, Bounds
<1>8. /\ AdvancedTail' = IF had_token[t] THEN tail ELSE (tail + 1) % Capacity
  BY <1>0, AccessAdvances
<1>9. CASE had_token[t]
  <2>1. Free > 0
    BY <1>7, <1>9, OneLess
  <2>2. Unread < Capacity
    BY <1>0, <1>7, <2>1
  <2>3. \A i \in 1 .. Unread : Items'[i] = Items[i]
    <3> TAKE i \in 1 .. Unread
    <3>1. i \in 1 .. Unread' /\ AdvancedTail' = tail
      BY <1>7, <1>8, <1>9
    <3>2. Wrap(tail + i - 1) # head /\ Wrap(tail + i - 1) \in Indices
      BY <1>3, <1>6, <2>2
    <3> QED BY <1>4, <1>5, <3>1, <3>2
  <2>4. Items'[Unread + 1] = m
    <3>1. Unread + 1 \in 1 .. Unread' /\ AdvancedTail' = tail
      BY <1>7, <1>8, <1>9
    <3>2. Items'[Unread + 1] = buffer'[Wrap(tail + (Unread + 1) - 1)]
      BY <1>4, <3>1
    <3>3. tail + (Unread + 1) - 1 = tail + Unread
      BY <1>2, <1>7 DEF Indices
    <3> QED BY <1>3, <1>5, <3>2, <3>3
  <2>5. Unread' = Unread + 1
    BY <1>7, <1>9
  <2>6. Items' \in [1 .. Unread + 1 -> Messages \cup {0}]
    BY <1>4, <2>5
  <2>7. Items' = Append(Items, m) /\ Len(Items) = Unread
    BY <1>4, <1>7, <2>3, <2>4, <2>6, AppendIs
  <2>8. Fifo!Accept(m)
    BY <2>2, <2>7 DEF Fifo!Accept
  <2> QED BY <1>0, <1>1, <2>8 DEF Fifo!Send, Fifo!FifoNext
<1>10. CASE ~had_token[t]
  <2>1. Unread' = Unread
    BY <1>7, <1>10
  <2>2. AdvancedTail' = IF tail + 1 = Capacity THEN 0 ELSE tail + 1
    BY <1>2, <1>8, <1>10, ModNext
  <2>3. \A i \in 1 .. Unread : Items'[i] = buffer'[Wrap(tail + i)]
    <3> TAKE i \in 1 .. Unread
    <3>1. i \in 1 .. Capacity
      BY <1>0, <1>2
    <3>2. Items'[i] = buffer'[Wrap(AdvancedTail' + i - 1)]
      BY <1>4, <2>1
    <3>3. Wrap(AdvancedTail' + i - 1) = Wrap(tail + i)
      BY <1>3, <2>2, <3>1
    <3> QED BY <3>2, <3>3
  <2>4. CASE Unread = 0
    <3>1. Items \in [1 .. 0 -> Messages \cup {0}] /\ Items' \in [1 .. 0 -> Messages \cup {0}]
      BY <1>4, <2>1, <2>4
    <3>2. Items' = Items
      BY <3>1
    <3> QED BY <1>0, <1>1, <3>2 DEF Fifo!Lose, Fifo!Send, Fifo!FifoNext
  <2>5. CASE Unread > 0
    <3>1. \A i \in 1 .. Unread - 1 : Items'[i] = Items[i + 1]
      <4> TAKE i \in 1 .. Unread - 1
      <4>1. i \in 1 .. Unread /\ i + 1 \in 1 .. Unread /\ i + 1 > 1
        BY <1>7
      <4>2. tail + (i + 1) - 1 = tail + i
        BY <1>2 DEF Indices
      <4>3. Wrap(tail + i) # head /\ Wrap(tail + i) \in Indices
        BY <1>3, <1>6, <4>1, <4>2
      <4>4. Items[i + 1] = buffer[Wrap(tail + i)]
        BY <1>4, <4>1, <4>2
      <4> QED BY <1>5, <2>3, <4>1, <4>3, <4>4
    <3>2. Items'[Unread] = m
      <4>1. Unread \in 1 .. Unread
        BY <1>7, <2>5
      <4> QED BY <1>3, <1>5, <2>3, <4>1
    <3>3. Items' \in [1 .. Unread -> Messages \cup {0}]
      BY <1>4, <2>1
    <3>4. Items' = Append(Tail(Items), m) /\ Items # <<>>
      BY <1>4, <1>7, <2>5, <3>1, <3>2, <3>3, ShiftIs
    <3>5. Fifo!Overwrite(m)
      BY <3>4 DEF Fifo!Overwrite
    <3> QED BY <1>0, <1>1, <3>5 DEF Fifo!Send, Fifo!FifoNext
  <2> QED BY <1>7, <2>4, <2>5
<1> QED BY <1>9, <1>10

\* A read removes the oldest message and returns it.
LEMMA ReadStep ==
  ASSUME IInv, TypeOK', QInv, TInv, TInv', NEW t \in Users, ReceiveRead(t)
  PROVE  Fifo!FifoNext
<1>0. /\ DataInv /\ TypeOK /\ t \in Consumers /\ stage[t] = "data" /\ GoTo(t, "advance")
      /\ UNCHANGED <<message, sent, buffer>> /\ got' = [got EXCEPT ![t] = buffer[tail]]
      /\ Capacity \in Nat /\ Capacity > 0 /\ Producers \cap Consumers = {}
      /\ stage \in [Users -> Stages]
  BY QueueAssumption DEF TInv, DataInv, QueueTypeOK, IInv, ReceiveRead, ringVars
<1>1. Settled' = Settled
  <2>1. \A u \in Producers : stage'[u] = stage[u]
    BY <1>0 DEF GoTo, Users
  <2> QED BY <1>0, <2>1, SettlesNothing
<1>2. /\ AdvancedTail = tail /\ head \in Indices /\ tail \in Indices
      /\ Unread \in 0 .. Capacity
      /\ tail + Unread = head \/ tail + Unread = head + Capacity
  BY BeforeAccess
<1>3. \A i \in 1 .. Capacity :
        Wrap((IF tail + 1 = Capacity THEN 0 ELSE tail + 1) + i - 1) = Wrap(tail + i)
  BY <1>2, WrapApart
<1>4. /\ Items \in [1 .. Unread -> Messages \cup {0}]
      /\ \A i \in 1 .. Unread : Items[i] = buffer[Wrap(tail + i - 1)]
      /\ Items' \in [1 .. Unread' -> Messages \cup {0}]
      /\ \A i \in 1 .. Unread' : Items'[i] = buffer'[Wrap(AdvancedTail' + i - 1)]
  BY <1>0, <1>2, ItemsShape, ItemsShapeNext DEF ItemsOK, Wrap
<1>5. Unread \in Nat /\ Unread' \in Nat /\ Unread = Unread' + 1
  BY <1>0, AccessMoves
<1>6. Unread > 0 /\ Unread' = Unread - 1
  BY <1>5, OneLess
<1>7. AdvancedTail' = IF tail + 1 = Capacity THEN 0 ELSE tail + 1
  <2>1. AdvancedTail' = (tail + 1) % Capacity
    BY <1>0, AccessAdvances
  <2> QED BY <1>2, <2>1, ModNext
<1>8. \A i \in 1 .. Unread - 1 : Items'[i] = Items[i + 1]
  <2> TAKE i \in 1 .. Unread - 1
  <2>1. i \in 1 .. Unread' /\ i \in 1 .. Capacity /\ i + 1 \in 1 .. Unread
    BY <1>0, <1>2, <1>6
  <2>2. tail + (i + 1) - 1 = tail + i
    BY <1>2 DEF Indices
  <2>3. Items'[i] = buffer[Wrap(tail + i)]
    BY <1>0, <1>3, <1>4, <1>7, <2>1
  <2>4. Items[i + 1] = buffer[Wrap(tail + i)]
    BY <1>4, <2>1, <2>2
  <2> QED BY <2>3, <2>4
<1>9. Items' \in [1 .. Unread - 1 -> Messages \cup {0}]
  BY <1>4, <1>6
<1>10. Items' = Tail(Items) /\ Items # <<>> /\ Head(Items) = Items[1]
  <2>1. Unread \in Nat /\ Unread > 0 /\ Items \in [1 .. Unread -> Messages \cup {0}]
    BY <1>4, <1>5, <1>6
  <2> QED BY <1>8, <1>9, <2>1, TailIs
<1>11. Items[1] = buffer[tail]
  <2>1. 1 \in 1 .. Unread /\ tail + 1 - 1 = tail /\ Wrap(tail) = tail
    BY <1>0, <1>2, <1>6 DEF Indices, Wrap
  <2>2. Items[1] = buffer[Wrap(tail + 1 - 1)]
    BY <1>4, <2>1
  <2> QED BY <2>1, <2>2
<1>12. Fifo!Receive(t)
  BY <1>0, <1>1, <1>10, <1>11 DEF Fifo!Receive
<1> QED BY <1>0, <1>12 DEF Fifo!FifoNext

\* Every other step of a user: a send that fails loses its message, the rest is
\* invisible.
LEMMA CalmStep ==
  ASSUME IInv, TypeOK', QInv, TInv, NEW t \in Users, QTask(t), ~SendWrite(t), ~ReceiveRead(t)
  PROVE  [Fifo!FifoNext]_(Fifo!fifoVars)
<1>0. /\ DataInv /\ TokensConserved /\ stage \in [Users -> Stages]
      /\ Producers \cap Consumers = {}
  BY QueueAssumption DEF TInv, DataInv, QueueTypeOK
<1>1. Items' = Items /\ got' = got
  BY <1>0, TaskCalm, CalmItems
<1>2. CASE Settled' = Settled
  BY <1>1, <1>2 DEF Fifo!fifoVars
<1>3. ASSUME LockWoken(t) \/ LockFail(t), t \in Producers, NEW s, s \notin Pending, GoTo(t, s)
      PROVE  [Fifo!FifoNext]_(Fifo!fifoVars)
  <2>1. UNCHANGED <<message, sent>> /\ stage[t] \in Pending
    BY <1>3 DEF LockWoken, LockFail, Pending
  <2>2. PICK m \in Messages : m \notin Settled /\ Settled' = Settled \cup {m}
    BY <1>0, <1>3, <2>1, SettlesOne
  <2>3. Fifo!Send(m)
    BY <1>1, <2>2 DEF Fifo!Send, Fifo!Lose
  <2> QED BY <2>3 DEF Fifo!FifoNext
<1>4. CASE SendTake(t) \/ SendPoll(t) \/ SendBlock(t)
  <2>1. PICK s \in Pending : NewMessage(t) /\ GoTo(t, s)
    BY <1>4 DEF SendTake, SendPoll, SendBlock, Pending
  <2> QED BY <1>0, <1>2, <2>1, NewUnsettled
<1>5. ASSUME UNCHANGED <<message, sent>>,
             \/ stage' = stage
             \/ \E s : GoTo(t, s) /\ (t \in Producers => (s \in Pending <=> stage[t] \in Pending))
      PROVE  [Fifo!FifoNext]_(Fifo!fifoVars)
  <2>1. \A u \in Producers : stage'[u] \in Pending <=> stage[u] \in Pending
    BY <1>0, <1>5 DEF GoTo, Users
  <2> QED BY <1>2, <1>5, <2>1, SettlesNothing
<1>6. CASE LockWoken(t) \/ LockFail(t)
  <2>1. PICK s : GoTo(t, s)
    BY <1>6 DEF LockWoken, LockFail
  <2>2. UNCHANGED <<message, sent>> /\ stage[t] \in Pending
    BY <1>6 DEF LockWoken, LockFail, Pending
  <2> QED BY <1>3, <1>5, <1>6, <2>1, <2>2
<1>7. CASE ReceivePoll(t) \/ Resume(t) \/ Pause(t)
  BY <1>5, <1>7 DEF ReceivePoll, Resume, Pause, queueData
<1>8. CASE ReceiveTake(t) \/ ReceiveBlock(t) \/ ReceiveWoken(t) \/ ReceiveAdvance(t)
  <2>1. t \notin Producers /\ UNCHANGED <<message, sent>> /\ \E s : GoTo(t, s)
    BY <1>0, <1>8 DEF ReceiveTake, ReceiveBlock, ReceiveWoken, ReceiveAdvance
  <2> QED BY <1>5, <2>1
<1>9. CASE SendWoken(t) \/ LockTake(t) \/ LockBlock(t)
  <2>1. /\ UNCHANGED <<message, sent>> /\ stage[t] \in Pending
        /\ \E s \in Pending : GoTo(t, s)
    BY <1>9 DEF SendWoken, LockTake, LockBlock, Pending
  <2> QED BY <1>5, <2>1
<1>10. CASE SendAdvance(t) \/ Unlock(t) \/ Post(t) \/ Undo(t)
  <2>1. /\ UNCHANGED <<message, sent>> /\ stage[t] \notin Pending
        /\ \E s : s \notin Pending /\ GoTo(t, s)
    BY <1>10 DEF SendAdvance, Unlock, Post, Undo, Pending
  <2> QED BY <1>5, <2>1
<1> QED BY <1>4, <1>6, <1>7, <1>8, <1>9, <1>10 DEF QTask, InCall

\* The queue starts empty.
LEMMA FifoStarts == QInit => Fifo!FifoInit
<1> SUFFICES ASSUME QInit PROVE Fifo!FifoInit
  OBVIOUS
<1>1. TypeOK /\ TInv
  BY InitInv, TInitInv DEF QInit, IInv
<1>2. AdvancedHead = 0 /\ AdvancedTail = 0 /\ sent = 0 /\ got = [t \in Consumers |-> 0]
  BY DEF QInit, AdvancedHead, AdvancedTail, Users
<1>3. count[FilledSlots] = 0
  BY QueueAssumption DEF QInit, Init, SemaphoreInit
<1>4. Holders(FilledSlots) = {}
  BY DEF QInit, Holders, Holds, Before, After, Granted
<1>5. Unread = 0
  <2>1. Cardinality({}) = 0
    BY FS_EmptySet
  <2> QED BY <1>1, <1>3, <1>4, <2>1, Sums DEF SumsOK, Total
<1>6. Items = <<>>
  <2>1. Items \in [1 .. 0 -> Messages \cup {0}]
    BY <1>1, <1>5, ItemsShape DEF ItemsOK
  <2> QED BY <2>1
<1>7. Settled = {}
  BY <1>2 DEF Settled
<1> QED BY <1>2, <1>6, <1>7 DEF Fifo!FifoInit

\* os_queue_send and os_queue_receive implement a bounded FIFO that loses only
\* its oldest entry or the message being sent, for any number of tasks, slots
\* and messages and any interleaving with the scheduler and the tick.
THEOREM FifoSound == QSpec => QueueIsLossyFifo
<1>1. (IInv /\ QInv /\ TInv) /\ (IInv /\ QInv /\ TInv)' /\ [QNext]_allVars
        => [Fifo!FifoNext]_(Fifo!fifoVars)
  <2> SUFFICES ASSUME IInv, QInv, TInv, IInv', QInv', TInv', [QNext]_allVars
               PROVE  [Fifo!FifoNext]_(Fifo!fifoVars)
    OBVIOUS
  <2>0. TypeOK'
    BY DEF IInv
  <2>1. ASSUME NEW t \in Users, QTask(t) PROVE [Fifo!FifoNext]_(Fifo!fifoVars)
    BY <2>0, <2>1, WriteStep, ReadStep, CalmStep
  <2>2. CASE (KernelStep /\ UNCHANGED queueData) \/ UNCHANGED allVars
    <3>1. Items' = Items /\ got' = got
      BY <2>0, <2>2, KernelCalm, CalmItems
    <3>2. UNCHANGED queueData
      BY <2>2 DEF allVars
    <3>3. Settled' = Settled
      BY <3>2, SettlesNothing DEF queueData
    <3> QED BY <3>1, <3>3 DEF Fifo!fifoVars
  <2> QED BY <2>1, <2>2 DEF QNext
<1> QED BY <1>1, FifoStarts, TokenInvariance, PTL DEF QSpec, QueueIsLossyFifo, Fifo!FifoSpec
=============================================================================
