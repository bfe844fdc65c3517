------------------------------ MODULE TickIsr ------------------------------
(***************************************************************************)
(* SysTick_Handler, one memory access at a time.  The handler is no        *)
(* critical section and its priority is below that of TIM2, whose handler  *)
(* calls os_semaphore_release: the two share the TCBs and wait queues.     *)
(* Module Kernel runs an iteration of the handler's loop in one step; here *)
(* it is split, for clients of Kernel that add such a handler.             *)
(*                                                                         *)
(* The fields are not volatile.  What the compiler may keep in a register  *)
(* or load again is a choice of the step that uses it.  At most one task   *)
(* waits for an object that a handler releases, as for echo_ready, so that *)
(* wait_queue_remove has no entry to move down.                            *)
(***************************************************************************)
EXTENDS Kernel

VARIABLES
  tick_at,   \* what the iteration does next
  loaded,    \* the sleep_time or the *wait_count it has loaded
  removing   \* the object whose queue wait_queue_remove is at work on

tickVars == <<tick_at, loaded, removing>>

TickInit == tick_at = "load" /\ loaded = 0 /\ removing = NULL

\* The loop's task, at a point of its iteration.
Iteration(place) == tick_i \in Tasks /\ tick_at = place

\* The iteration goes on; what it has not touched stays.
TickGoesOn(place) ==
  /\ tick_at' = place
  /\ UNCHANGED <<current_priority, cpuVars, objVars, clientVars>>

IterationEnds ==
  /\ TickAdvance
  /\ tick_at' = "load" /\ loaded' = 0

\* if (t->sleep_time == 0) continue
LoadNoDeadline ==
  /\ Iteration("load") /\ sleep_time[tick_i] = 0
  /\ IterationEnds
  /\ UNCHANGED <<removing, state, sleep_time, wait_on, wait_result, queueVars>>

LoadDeadline ==
  /\ Iteration("load") /\ sleep_time[tick_i] > 0
  /\ loaded' = sleep_time[tick_i]
  /\ TickGoesOn("store")
  /\ UNCHANGED <<removing, state, sleep_time, wait_on, wait_result, queueVars>>

\* --t->sleep_time, from the value that was loaded.
StoreDeadline ==
  /\ Iteration("store")
  /\ sleep_time' = [sleep_time EXCEPT ![tick_i] = loaded - 1]
  /\ IF loaded = 1 THEN TickGoesOn("check") /\ loaded' = 0 ELSE IterationEnds
  /\ UNCHANGED <<removing, state, wait_on, wait_result, queueVars>>

\* if (t->wait_queue != NULL)
CheckQueue ==
  /\ Iteration("check")
  /\ TickGoesOn(IF wait_on[tick_i] = NULL THEN "ready" ELSE "find")
  /\ UNCHANGED <<loaded, removing, state, sleep_time, wait_on, wait_result, queueVars>>

\* wait_queue_remove up to the entry of the task, which may be gone by now.
FindEntry ==
  /\ Iteration("find")
  /\ LET o == wait_on[tick_i]
         found == o # NULL /\ \E i \in 0 .. wait_count[o] - 1 : wait_queue[o][i] = tick_i
     IN IF found
        THEN /\ removing' = o /\ loaded' = wait_count[o]
             /\ TickGoesOn("remove")
             /\ UNCHANGED wait_on
        ELSE /\ wait_on' = [wait_on EXCEPT ![tick_i] = NULL]
             /\ TickGoesOn("result")
             /\ UNCHANGED <<loaded, removing>>
  /\ UNCHANGED <<state, sleep_time, wait_result, queueVars>>

\* Mutant: the count is not decremented.
RemoveEntry_KeepsCount ==
  /\ Iteration("remove")
  /\ wait_queue' = [wait_queue EXCEPT ![removing] = Without(@, loaded, tick_i)]
  /\ wait_on' = [wait_on EXCEPT ![tick_i] = NULL]
  /\ loaded' = 0 /\ removing' = NULL
  /\ TickGoesOn("result")
  /\ UNCHANGED <<state, sleep_time, wait_result, wait_count>>

\* (*task->wait_count)--, a uint8_t, from the count that was loaded or from what
\* memory holds by now; then the back pointers are cleared.
RemoveEntry ==
  /\ Iteration("remove")
  /\ wait_queue' = [wait_queue EXCEPT ![removing] = Without(@, loaded, tick_i)]
  /\ \E n \in {loaded, wait_count[removing]} :
       wait_count' = [wait_count EXCEPT ![removing] = (n - 1) % 256]
  /\ wait_on' = [wait_on EXCEPT ![tick_i] = NULL]
  /\ loaded' = 0 /\ removing' = NULL
  /\ TickGoesOn("result")
  /\ UNCHANGED <<state, sleep_time, wait_result>>

\* t->wait_result = OS_TIMEOUT
StoreResult ==
  /\ Iteration("result")
  /\ wait_result' = [wait_result EXCEPT ![tick_i] = OS_TIMEOUT]
  /\ TickGoesOn("ready")
  /\ UNCHANGED <<loaded, removing, state, sleep_time, wait_on, queueVars>>

\* t->state = READY
StoreReady ==
  /\ Iteration("ready")
  /\ state' = [state EXCEPT ![tick_i] = "READY"]
  /\ IterationEnds
  /\ UNCHANGED <<removing, sleep_time, wait_on, wait_result, queueVars>>

TickAccess ==
  \/ LoadNoDeadline \/ LoadDeadline \/ StoreDeadline \/ CheckQueue
  \/ FindEntry \/ RemoveEntry \/ StoreResult \/ StoreReady
=============================================================================
