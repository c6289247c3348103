---------------------------- MODULE MCScheduler -----------------------------
(***************************************************************************)
(* The two things that scheduler.loop does every minute, run_due and then  *)
(* after_restart.  They have no row in common, since a workflow begun by a *)
(* schedule is like any other, and a behaviour follows one of them.        *)
(*                                                                         *)
(* Two schedules over days of two ticks, both at the second tick, so that  *)
(* a late run and the day's own fall on one day: one every day and twice a *)
(* day at most, the other on two days of three and once a day.             *)
(*                                                                         *)
(* A workflow of three steps whose first asks the owner, and one of one.   *)
(***************************************************************************)
EXTENDS Scheduler, Resumption, TLC

CONSTANTS s1, s2, asking, plain

VARIABLE half

MCHour == s1 :> 1 @@ s2 :> 1
MCDays == s1 :> {} @@ s2 :> {0, 1}
MCMaxPerDay == s1 :> 2 @@ s2 :> 1

MCSteps(w) == IF w = asking THEN 3 ELSE 1
MCAsks(w) == IF w = asking THEN {1} ELSE {0}

LoopInit == SchedulerInit /\ WorkInit /\ half \in {"due", "work"}

LoopNext ==
    /\ UNCHANGED half
    /\ \/ half = "due" /\ SchedulerNext /\ UNCHANGED workVars
       \/ half = "work" /\ WorkNext /\ UNCHANGED schedulerVars

\* Each with the fairness of its module.
LoopSpec ==
    /\ LoopInit /\ [][LoopNext]_<<schedulerVars, workVars, half>>
    /\ \A i \in Instance : WF_schedulerVars(half = "due" /\ RunDue(i))
    /\ WF_workVars(half = "work" /\ Minute)
    /\ \A w \in Flow : WF_workVars(half = "work" /\ Advance(w))
=============================================================================
