---------------------------- MODULE SentinelProps ----------------------------
(***************************************************************************)
(* What the application promises: the sweep never waits for the radar, the *)
(* servo never jumps, logged angles are in order and recent, and the radar *)
(* goes on for ever.                                                       *)
(***************************************************************************)
EXTENDS Sentinel

\* "Non-blocking: if the radar task is behind, the oldest angle gets overwritten
\* rather than stalling the sweep."  Although os_queue_send takes q->lock with
\* WAIT_FOREVER, sweep_task never blocks in it: the radar is never off the CPU
\* while it holds the lock.
SweepNeverStalls == stage[Sweep] # "out" => state[Sweep] # "BLOCKED"

\* uart_lock is free whenever a task wants it: the radar has no angle to log
\* before the sweep is homed and its line is out.
UartUncontended ==
  \A t \in Users : App(t) /\ stage[t] = "out" /\ place[t] \in {"home_lock", "log"}
    => lock[UartLock] = 0

\* An SG90 that is slammed across its range browns out the board: from power-up
\* on, through homing and both ends of the sweep, two pulses in a row are never
\* further apart than one step of the sweep, and none is outside the servo's range.
StepUs == (SWEEP_STEP_DEG * (SERVO_MAX_US - SERVO_MIN_US)) \div 180 + 1
ServoGradual ==
  [][/\ pulse' - pulse \in -StepUs .. StepUs
     /\ pulse' \in SERVO_MIN_US .. SERVO_MAX_US]_sysVars

\* Angles reach the log in the order of the sweep, each at most once, and none is
\* older than the last Capacity ones that were sent.
AnglesFresh ==
  [][got'[Radar] # got[Radar] =>
       got'[Radar] > got[Radar] /\ sent - got'[Radar] <= Capacity]_sysVars

-----------------------------------------------------------------------------
(* Fairness, as in QueueProps.  The echo need not come.                    *)
SysFairSpec ==
  /\ SysSpec
  /\ WF_sysVars(KernelRuns)
  /\ WF_sysVars(SysTick /\ UNCHANGED <<queueData, appVars>>)
  /\ []<>(\E t \in Tasks : Thread(t))
  /\ SF_sysVars(RadarStep)
  /\ \A t \in Users : SF_sysVars(CallStep(t))

\* radar_task completes its loop again and again, whatever the sweep holds when
\* it is preempted and whether echoes come or not.
RadarGoesOn == []<>(place[Radar] = "rest")
=============================================================================
