--------------------------- MODULE UltrasonicProps ---------------------------
(***************************************************************************)
(* What ultrasonic_read_cm promises to radar_task.                         *)
(***************************************************************************)
EXTENDS Ultrasonic

K == INSTANCE KernelProps

\* A distance is the one of the echo that answers the trigger of this very read,
\* also if the counter wrapped during it: never that of an earlier pulse, of the
\* gap between two pulses, or of times the handler was still writing.
DistanceIsOfThisPing ==
  step = "done" /\ distance # ULTRASONIC_NO_ECHO
    => answer # NULL /\ distance = answer \div US_PER_CM

\* ULTRASONIC_NO_ECHO is returned only if no echo came back to this read: the
\* timeout never swallows an answer that arrived.
NoEchoMeansNone ==
  step = "done" /\ distance = ULTRASONIC_NO_ECHO => answer = NULL

-----------------------------------------------------------------------------
\* The wait queues stay consistent, no blocked task is forgotten and no token is
\* passed by a waiter, although the handler releases the semaphore between any
\* two accesses of the tick; wait_queue_remove may be half-way.
QueueIntegrityWithIsr ==
  /\ removing = NULL => K!QueueIntegrity
  /\ \A t \in Tasks : state[t] = "BLOCKED" =>
       sleep_time[t] > 0 \/ wait_on[t] # NULL \/ tick_i = t
  /\ K!NoMissedRelease

\* A task that was handed the token it waited for is never told OS_TIMEOUT: the
\* tick gives up a wait only while the task still waits.
TimeoutOnlyWhileWaiting ==
  [][\A t \in Tasks : wait_result[t] = OS_SUCCESS /\ wait_result'[t] = OS_TIMEOUT
       => state[t] = "BLOCKED"]_radarVars

\* A handler that wakes a task during the scan of PendSV pends another switch:
\* the CPU never stays with a task of a lower priority than the woken one.
SwitchPicksHighestWithIsr ==
  [][SwitchTo /\ ~pendsv =>
       \A t \in Tasks : state'[t] # "BLOCKED"
         => current_priority[t] <= current_priority[current_tcb']]_radarVars

-----------------------------------------------------------------------------
(* Fairness: the core runs, ticks come, each finds the previous switch     *)
(* completed, and a task that keeps getting the CPU advances.              *)
RadarFairSpec ==
  /\ RadarSpec
  /\ WF_radarVars(KernelGoesOn)
  /\ WF_radarVars(CaptureIsr /\ UNCHANGED tickVars)
  /\ WF_radarVars(Environment /\ UNCHANGED tickVars)
  /\ []<>(\E t \in Tasks : Thread(t))
  /\ SF_radarVars(ReadStep /\ UNCHANGED tickVars)

\* radar_task completes reads for ever, also if no echo ever comes back.
ReadsGoOn == []<>(step = "done")
=============================================================================
