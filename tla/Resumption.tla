----------------------------- MODULE Resumption -----------------------------
(***************************************************************************)
(* resume.py and the tick of scheduler.py over several workflows: which of *)
(* them are picked up again, and which are closed as left too long.        *)
(*                                                                         *)
(* Every minute, and at a start: recover_stuck, abandon_old, and those     *)
(* with work left that were touched last are advanced once more.           *)
(* Advancing touches a workflow, whether or not anything in it can run.    *)
(*                                                                         *)
(* A workflow is the chain of its steps, told by the step it has come to;  *)
(* later ones are blocked.  One step may ask the owner.  The calls of      *)
(* advance for a workflow are one here: a second one finds nothing to run  *)
(* and settles.  after_restart is one step.  How calls and the statements  *)
(* of the tick meet over one task, and the emergency stop, are in          *)
(* TaskEngine.                                                             *)
(***************************************************************************)
EXTENDS Integers, Sequences, SequencesExt

CONSTANTS
    Flow,          \* workflows
    Steps(_),      \* the number of steps of each
    Asks(_),       \* the steps of which one may ask the owner; 0 is that none does
    MAX_RESUMED,
    MaxAttempts,
    STUCK,         \* minutes after which a running task counts as stuck, and
                   \* which no step takes
    RESUMABLE,     \* minutes after which an untouched workflow is too old
    MaxCrashes     \* (bound)

ASSUME ResumptionAssumption ==
    /\ {MAX_RESUMED, MaxAttempts, STUCK, RESUMABLE} \subseteq Nat \ {0}
    /\ MaxCrashes \in Nat
    /\ \A w \in Flow : Steps(w) \in Nat \ {0} /\ Asks(w) \subseteq 0..Steps(w)

VARIABLES
    flow,          \* rows of workflows and tasks
    recent,        \* workflows by updated_at, latest first
    run,           \* run[w]: its advance, and its minutes at the step
    crashes,
    \* history, forgotten when a workflow is touched
    crowded,       \* had work left, and others were resumed
    away           \* grew old while the process was away

workVars == <<flow, recent, run, crashes, crowded, away>>

\* since: minutes since started_at, -1 for NULL.  age: since updated_at.
New == [status |-> "none", step |-> 1, is |-> "queued", tries |-> 0,
        since |-> -1, asks |-> 0, said |-> "none", age |-> 0]
Resting == [pc |-> "idle", minutes |-> 0]

WorkInit ==
    /\ flow = [w \in Flow |-> New]
    /\ recent = <<>>
    /\ run = [w \in Flow |-> Resting]
    /\ crashes = 0
    /\ crowded = {} /\ away = {}

-----------------------------------------------------------------------------
(* One workflow *)

IsOpen(f) == f.status \in {"running", "waiting_approval"}
Open(w) == IsOpen(flow[w])
Attended(w) == run[w].pc # "idle"
Claimable(f) == f.is \in {"queued", "blocked"}

Goes(w, pc) == run' = [run EXCEPT ![w] = [Resting EXCEPT !.pc = pc]]

Write(w, row) ==
    flow' = [flow EXCEPT ![w] = row] /\ UNCHANGED <<recent, crowded, away>>

\* A step could run, or is under way.
Runs(f) == f.is \in {"queued", "blocked", "running"}

\* The row, with updated_at = now().
Touch(w, row) ==
    /\ flow' = [flow EXCEPT ![w] = [row EXCEPT !.age = 0]]
    /\ recent' = <<w>> \o SelectSeq(recent, LAMBDA v : v # w)
    /\ crowded' = crowded \ {w} /\ away' = away \ {w}

Start(w) ==
    /\ flow[w].status = "none"
    /\ \E step \in Asks(w) :
          Touch(w, [New EXCEPT !.status = "running", !.asks = step])
    /\ Goes(w, "look")
    /\ UNCHANGED crashes

\* run_task claims what advance finds it can run.
Take(w) ==
    /\ run[w].pc = "look" /\ Claimable(flow[w])
    /\ Write(w, [flow[w] EXCEPT !.is = "running", !.tries = @ + 1,
                                !.since = IF @ = -1 THEN 0 ELSE @])
    /\ Goes(w, "work")
    /\ UNCHANGED crashes

Tried(f) == IF f.tries < MaxAttempts THEN "queued" ELSE "failed"

Done(w, f) ==
    IF f.step = Steps(w) THEN [f EXCEPT !.is = "completed"]
    ELSE [f EXCEPT !.is = "blocked", !.step = @ + 1, !.tries = 0, !.since = -1]

\* The step waits for the owner; or it fails, perhaps for good; or it is
\* done, and charged, which touches the workflow if it cost anything.
Work(w) ==
    LET f == flow[w] IN
    /\ run[w].pc = "work"
    /\ IF f.step = f.asks /\ f.said # "approved"
       THEN Write(w, [f EXCEPT !.is = "waiting"])
       ELSE \/ \E failure \in {Tried(f), "failed"} :
                 Write(w, [f EXCEPT !.is = failure])
            \/ Write(w, Done(w, f)) \/ Touch(w, Done(w, f))
    /\ Goes(w, "look")
    /\ UNCHANGED crashes

\* _settle
Verdict(f) ==
    CASE f.is = "waiting" -> "waiting_approval"
      [] f.is \in {"failed", "completed"} -> f.is
      [] OTHER -> "running"
Settled(f) == [f EXCEPT !.status = Verdict(f)]

\* There is nothing more to run.
Settle(w) ==
    /\ run[w].pc = "look" /\ ~Claimable(flow[w])
    /\ Touch(w, Settled(flow[w]))
    /\ Goes(w, "idle")
    /\ UNCHANGED crashes

\* The owner answers what waits; a rejection cancels the step and the next.
\* Then the workflow is advanced, whatever its status.
Answer(w, said) ==
    /\ flow[w].is = "waiting" /\ ~Attended(w)
    /\ Write(w, [flow[w] EXCEPT !.said = said,
                    !.is = IF said = "approved" THEN "queued" ELSE "cancelled"])
    /\ Goes(w, "look")
    /\ UNCHANGED crashes

-----------------------------------------------------------------------------
(* after_restart *)

\* recover_stuck
Recovered(f) ==
    IF f.is = "running" /\ f.since >= STUCK
    THEN [f EXCEPT !.is = Tried(f), !.since = -1] ELSE f

\* abandon_old
TooOld(f) == IsOpen(f) /\ f.age >= RESUMABLE
Abandoned(f) == IF TooOld(f) THEN [f EXCEPT !.status = "failed"] ELSE f

\* Mutant: a step still marked blocked is not work left to do.
OnlyQueued(w, f) == f.is = "queued"

\* Some task is queued or blocked: the step it has come to or a later one,
\* but for the one that a rejection cancels with it.
WorkLeft(w, f) ==
    Claimable(f) \/ f.step + (IF f.is = "cancelled" THEN 1 ELSE 0) < Steps(w)

\* Minutes have gone by for what is open, and then it is looked at.
Later(f, minutes) ==
    IF ~IsOpen(f) THEN f ELSE
    [f EXCEPT !.age = Min({@ + minutes, RESUMABLE}),
              !.since = IF @ = -1 THEN -1 ELSE Min({@ + minutes, STUCK})]
Row(w, minutes) == Abandoned(Recovered(Later(flow[w], minutes)))

\* unfinished, latest first
Unfinished(minutes) ==
    SelectSeq(recent, LAMBDA w : LET f == Row(w, minutes) IN
                 IsOpen(f) /\ f.age < RESUMABLE /\ WorkLeft(w, f))

\* Recover, abandon, and resume_all: a call for each of those picked; where
\* one goes on already the second settles what it finds.
AfterRestart(minutes, busy) ==
    LET work == Unfinished(minutes)
        picked == SubSeq(work, 1, Min({MAX_RESUMED, Len(work)}))
        beside == SelectSeq(picked, LAMBDA w : w \in busy)
        touched == ToSet(beside) IN
    /\ run' = [w \in Flow |->
                 CASE w \in busy -> [run[w] EXCEPT !.minutes = @ + minutes]
                   [] w \in ToSet(picked) \ busy -> [Resting EXCEPT !.pc = "look"]
                   [] OTHER -> Resting]
    /\ flow' = [w \in Flow |-> IF w \in touched
                               THEN [Settled(Row(w, minutes)) EXCEPT !.age = 0]
                               ELSE Row(w, minutes)]
    /\ recent' = beside \o SelectSeq(recent, LAMBDA w : w \notin touched)
    /\ crowded' = (crowded \cup (ToSet(work) \ ToSet(picked))) \ touched
    /\ away' = (IF minutes < RESUMABLE THEN away
                ELSE away \cup {w \in Flow : Open(w)}) \ touched

\* The loop, after a minute: no step works longer than STUCK of them, and
\* what is between two steps takes no time.
Minute ==
    /\ \A w \in Flow : Attended(w) => run[w].pc = "work" /\ run[w].minutes < STUCK
    /\ AfterRestart(1, {w \in Flow : Attended(w)})
    /\ UNCHANGED crashes

\* The process dies, and starts again at once or after hours.
Death ==
    /\ crashes < MaxCrashes
    /\ crashes' = crashes + 1
    /\ AfterRestart(0, {}) \/ AfterRestart(RESUMABLE, {})

Advance(w) == Take(w) \/ Work(w) \/ Settle(w)

WorkNext ==
    \/ \E w \in Flow :
          \/ Start(w) \/ Advance(w)
          \/ \E said \in {"approved", "rejected"} : Answer(w, said)
    \/ Minute \/ Death

\* The loop comes round and each call goes on.  Nothing is assumed of the
\* owner or of crashes.
WorkSpec ==
    /\ WorkInit /\ [][WorkNext]_workVars
    /\ WF_workVars(Minute)
    /\ \A w \in Flow : WF_workVars(Advance(w))

-----------------------------------------------------------------------------
Stalled(w) == Open(w) /\ Runs(flow[w]) /\ ~Attended(w)

\* Somebody is at it again, or it has come to its end or to the owner.
TakenUp(w) == Attended(w) \/ ~Runs(flow[w])

\* "Restart work that stopped without finishing, while awake"
\* (scheduler.py:326): it is taken up again, and never closed as left too
\* long before that, unless others crowd it out or the process was away for
\* hours (resume_all, abandon_old).
PickedUpOrCrowded ==
    \A w \in Flow : Stalled(w) ~> TakenUp(w) \/ w \in crowded \cup away
=============================================================================
