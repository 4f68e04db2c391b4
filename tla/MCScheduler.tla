---------------------------- MODULE MCScheduler ----------------------------
(* Two jobs of one mutex group: an interval whose length may be edited,    *)
(* and a daily or a one-time job.                                          *)
EXTENDS Scheduler

MCInterval(every) == [kind |-> "interval", every |-> every, run |-> 0]
MCOnce(run) == [kind |-> "once", every |-> 0, run |-> run]

MCSchedule == <<{MCInterval(1), MCInterval(2)},
                {MCOnce(2), [kind |-> "daily", every |-> 0, run |-> 0]}>>

\* One job and a command, or two jobs and none.
MCScheduled ==
  IF defined[2] = NoJob THEN requests = 0
  ELSE defined[1] # NoJob /\ requests = MaxRequests

\* Nothing overlaps: commands are carried out between ticks.
MCTakingTurns ==
  SchedulerInit /\ [][SchedulerNext /\ (request # NoRequest => tick' = NoTick)
                                   /\ (tick # NoTick => request' = NoRequest)
                                   /\ (tick # NoTick => requests' = requests)]_scheduleVars
=============================================================================
