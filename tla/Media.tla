------------------------------- MODULE Media -------------------------------
(***************************************************************************)
(* media/director.py, media/workflow.py, media/records.py, resume.py: one  *)
(* piece, from the plan to the owner's decision.                           *)
(*                                                                         *)
(* A director is a call of director.run; the request starts one, and the   *)
(* minute's tick starts another whenever the workflow has a step that is   *)
(* queued or blocked, whether or not one is at work.                       *)
(*                                                                         *)
(*   open -> look -> work -> (cancel -> flow) -> look ...                  *)
(*        -> verdict -> status -> read -> (close) -> record                *)
(*                              -> script -> review -> wire -> look        *)
(*                                                                         *)
(* The steps are run by the task engine; what run_task asks before it runs *)
(* one (approvals, budget, routing) is in TaskEngine.  Here it is claimed, *)
(* then completed, failed or tried again.                                  *)
(***************************************************************************)
EXTENDS Integers, Sequences, FiniteSets, FiniteSetsExt

CONSTANTS
    Directors,     \* directors at work at once (bound)
    MaxAttempts,   \* tasks.max_attempts
    MaxRevisions,  \* workflow.MAX_REVISIONS
    MaxEvents      \* crashes, retries, records that cannot be written, and
                   \* ticks that find a director at work or nothing to run
                   \* (bound)

ASSUME MediaAssumption ==
    /\ {Directors, MaxAttempts} \subseteq Nat \ {0}
    /\ {MaxRevisions, MaxEvents} \subseteq Nat

VARIABLES
    rows,          \* the workflow's tasks, in the order of their creation
    last,          \* the script and the review completed last
    flow,          \* workflows.status
    piece,         \* the row of content_pieces
    dir,           \* the directors at work, by age
    events,
    \* history
    past           \* what went wrong so far

vars == <<rows, last, flow, piece, dir, events, past>>

Director == 1..Directors

Step(kind, after) ==
    [kind |-> kind, after |-> after, tries |-> 0, says |-> "nothing", of |-> {},
     status |-> IF after = {} THEN "queued" ELSE "blocked"]

\* workflow.produce
Plan == <<Step("research", {}), Step("verify", {1}), Step("strategy", {1, 2}),
          Step("script", {3}), Step("review", {4})>>

\* What the agents answer.  The reviewer's verdict fails closed: one that
\* cannot be read, or a pass with something to fix, is a revise.
Verification == {"sound", "contradicted"}
Strategy == {"publish", "decline"}
Review == {"pass", "revise", "reject"}

Says(kind) ==
    CASE kind = "verify" -> Verification
      [] kind = "strategy" -> Strategy
      [] kind = "review" -> Review
      [] OTHER -> {"nothing"}

\* mine: the revised script just added; runs: what it has claimed and told.
Off == [pc |-> "off", gated |-> TRUE, attempt |-> 0, waits |-> {}, runs |-> {},
        mine |-> 0, say |-> "none", pkg |-> 0, stale |-> FALSE]

Init ==
    /\ rows = Plan /\ last = [script |-> 0, review |-> 0] /\ flow = "running"
    /\ piece = [state |-> "none", pkg |-> 0]
    /\ dir = [[d \in Director |-> Off] EXCEPT ![1].pc = "open"]
    /\ events = 0
    /\ past = [raced |-> FALSE, died |-> FALSE, cut |-> FALSE,
               stale |-> FALSE, calm |-> FALSE, unsaid |-> FALSE]

-----------------------------------------------------------------------------
(* What the rows say *)

Done(s) == rows[s].status = "completed"
Saying(kind, what) ==
    \E s \in DOMAIN rows : rows[s].kind = kind /\ Done(s) /\ rows[s].says = what

Contradicted == Saying("verify", "contradicted")
Declined == Saying("strategy", "decline")

\* By the review and the script completed last.
VerdictOf == IF last.review = 0 THEN "none" ELSE rows[last.review].says

\* Mutant: the first script is the package.
PackageFirst == IF last.script = 0 THEN 0 ELSE 4

PackageOf == last.script

Open(s) == rows[s].status \in {"queued", "blocked"}
Runnable == {s \in DOMAIN rows : Open(s) /\ \A p \in rows[s].after : Done(p)}
Terminal == {"completed", "failed", "cancelled"}

\* orchestrator._settle: it knows no cancelled tasks.
FlowOf ==
    IF \E s \in DOMAIN rows : rows[s].status = "failed" THEN "failed"
    ELSE IF \A s \in DOMAIN rows : Done(s) THEN "completed" ELSE "running"

\* director._settle: what is decided on the rows as read.
OutcomeOf(attempt) ==
    IF Contradicted THEN "stopped"
    ELSE IF Declined THEN "declined"
    ELSE CASE VerdictOf = "none" -> "unknown"
           [] VerdictOf = "pass" -> "ready"
           [] VerdictOf = "reject" -> "rejected"
           [] VerdictOf = "revise" ->
                 IF attempt >= MaxRevisions THEN "needs_you" ELSE "revise"

-----------------------------------------------------------------------------
(* A director *)

At(d, pc) == dir[d].pc = pc
Go(d, pc) == dir' = [dir EXCEPT ![d].pc = pc]
Ended(all, d) == [e \in Director |->
                    IF e < d THEN all[e]
                    ELSE IF e + 1 \in Director THEN all[e + 1] ELSE Off]
Rest == <<events, past>>
Event == events < MaxEvents /\ events' = events + 1

\* begin: the record of the piece comes after the plan.
OpenPiece(d) ==
    /\ At(d, "open")
    /\ piece' = [piece EXCEPT !.state = "producing"]
    /\ Go(d, "look")
    /\ UNCHANGED <<rows, last, flow, Rest>>

Look(d) ==
    /\ At(d, "look")
    /\ IF Runnable = {} THEN Go(d, "verdict")
       ELSE dir' = [dir EXCEPT ![d].pc = "work", ![d].waits = Runnable]
    /\ UNCHANGED <<rows, last, flow, piece, Rest>>

\* run_task begins with the claim; another director may have had it.
Claim(d, s) ==
    /\ At(d, "work") /\ s \in dir[d].waits
    /\ LET rest == [dir[d] EXCEPT !.waits = @ \ {s}] IN
       \/ /\ Open(s)
          /\ rows' = [rows EXCEPT ![s].status = "running", ![s].tries = @ + 1]
          /\ dir' = [dir EXCEPT ![d] = [rest EXCEPT
                        !.runs = @ \cup {[step |-> s, of |-> rows[s].after]}]]
       \/ ~Open(s) /\ dir' = [dir EXCEPT ![d] = rest] /\ UNCHANGED rows
    /\ UNCHANGED <<last, flow, piece, Rest>>

\* An agent is briefed with the results its step depends on, and with no
\* others.  It may have come to depend on them after it was claimed.
Briefs(r) == {{s \in of : rows[s].kind = "script"} :
                 of \in {r.of, rows[r.step].after}}

\* The agent answers; complete goes by id.
Complete(d, r) ==
    /\ r \in dir[d].runs
    /\ \E say \in Says(rows[r.step].kind), of \in Briefs(r) :
          rows' = [rows EXCEPT ![r.step].status = "completed",
                               ![r.step].says = say, ![r.step].of = of]
    /\ last' = [k \in DOMAIN last |->
                   IF rows[r.step].kind = k THEN r.step ELSE last[k]]
    /\ dir' = [dir EXCEPT ![d].runs = @ \ {r}]
    /\ UNCHANGED <<flow, piece, Rest>>

\* fail: terminal, or tried again while an attempt is left.
Fail(d, r) ==
    /\ r \in dir[d].runs
    /\ \/ rows' = [rows EXCEPT ![r.step].status = "failed"] /\ UNCHANGED events
       \/ /\ rows[r.step].tries < MaxAttempts /\ Event
          /\ rows' = [rows EXCEPT ![r.step].status = "queued"]
    /\ dir' = [dir EXCEPT ![d].runs = @ \ {r}]
    /\ UNCHANGED <<last, flow, piece, past>>

\* The wave is over when all it began is.
Waved(d) == At(d, "work") /\ dir[d].waits = {} /\ dir[d].runs = {}

\* _gate, asked after the wave; a bare advance has none.
Gate(d) ==
    /\ Waved(d)
    /\ Go(d, IF dir[d].gated /\ Contradicted THEN "cancel" ELSE "look")
    /\ UNCHANGED <<rows, last, flow, piece, Rest>>

\* cancel_workflow: the tasks, then the workflow.
CancelTasks(d) ==
    /\ At(d, "cancel")
    /\ rows' = [s \in DOMAIN rows |->
                   IF rows[s].status \in {"completed", "failed", "cancelled"}
                   THEN rows[s] ELSE [rows[s] EXCEPT !.status = "cancelled"]]
    /\ Go(d, "flow")
    /\ UNCHANGED <<last, flow, piece, Rest>>

CancelFlow(d) ==
    /\ At(d, "flow")
    /\ flow' = "cancelled"
    /\ Go(d, "verdict")
    /\ UNCHANGED <<rows, last, piece, Rest>>

\* orchestrator._settle reads the rows and writes the workflow's status.
Verdict(d) ==
    /\ At(d, "verdict")
    /\ dir' = [dir EXCEPT ![d].pc = "status", ![d].say = FlowOf]
    /\ UNCHANGED <<rows, last, flow, piece, Rest>>

Status(d) ==
    /\ At(d, "status")
    /\ flow' = dir[d].say
    /\ IF dir[d].gated THEN Go(d, "read") ELSE dir' = Ended(dir, d)
    /\ UNCHANGED <<rows, last, piece, Rest>>

\* director._settle reads the rows.  Nothing to go by is the workflow's
\* status, read in a statement of its own.
Read(d) ==
    LET say == OutcomeOf(dir[d].attempt) IN
    /\ At(d, "read")
    /\ dir' = [dir EXCEPT ![d].say = say, ![d].pkg = PackageOf, ![d].pc =
          CASE say \in {"stopped", "declined", "rejected"} -> "close"
            [] say = "revise" -> "script"
            [] say = "unknown" -> "ask"
            [] OTHER -> "record"]
    /\ UNCHANGED <<rows, last, flow, piece, Rest>>

AskFlow(d) ==
    /\ At(d, "ask")
    /\ dir' = [dir EXCEPT ![d].pc = "record", ![d].say = flow]
    /\ UNCHANGED <<rows, last, flow, piece, Rest>>

Close(d) ==
    /\ At(d, "close")
    /\ flow' = IF dir[d].say = "stopped" THEN "failed" ELSE "completed"
    /\ Go(d, "record")
    /\ UNCHANGED <<rows, last, piece, Rest>>

\* Directors that have read the rows and not yet recorded what they saw.
HasRead == {d \in Director : dir[d].pc \in {"ask", "close", "record"}}

\* records.settle, whatever the piece is by now; no package keeps the old.
Settle(state, pkg) ==
    piece' = [state |-> state, pkg |-> IF pkg = 0 THEN piece.pkg ELSE pkg]

\* _outcome
Record(d) ==
    /\ At(d, "record")
    /\ Settle(dir[d].say, dir[d].pkg)
    /\ dir' = Ended([e \in Director |->
                       [dir[e] EXCEPT !.stale = @ \/ e \in HasRead]], d)
    /\ past' = [past EXCEPT !.stale = @ \/ dir[d].stale]
    /\ UNCHANGED <<rows, last, flow, events>>

\* _outcome again: the record cannot be written.  That is logged, the caller
\* has its answer and the director is done; the piece stays as it was.
RecordLost(d) ==
    /\ At(d, "record") /\ Event
    /\ dir' = Ended(dir, d)
    /\ past' = [past EXCEPT !.unsaid = TRUE]
    /\ UNCHANGED <<rows, last, flow, piece>>

\* _add, workflow.revision: a script that depends on nothing, a review, and
\* then what the review depends on.
AddScript(d) ==
    /\ At(d, "script")
    /\ rows' = Append(rows, Step("script", {}))
    /\ dir' = [dir EXCEPT ![d].pc = "review", ![d].mine = Len(rows')]
    /\ UNCHANGED <<last, flow, piece, Rest>>

AddReview(d) ==
    /\ At(d, "review")
    /\ rows' = Append(rows, Step("review", {}))
    /\ dir' = [dir EXCEPT ![d].pc = "wire", ![d].waits = {Len(rows')}]
    /\ UNCHANGED <<last, flow, piece, Rest>>

Wire(d) ==
    /\ At(d, "wire")
    /\ rows' = [s \in DOMAIN rows |->
                   IF s \notin dir[d].waits THEN rows[s]
                   ELSE [rows[s] EXCEPT !.status = "blocked",
                                        !.after = {dir[d].mine}]]
    /\ dir' = [dir EXCEPT ![d] = [Off EXCEPT !.pc = "look",
                                  !.attempt = dir[d].attempt + 1]]
    /\ UNCHANGED <<last, flow, piece, Rest>>

-----------------------------------------------------------------------------
(* The process, the tick and the owner *)

Live == {d \in Director : dir[d].pc # "off"}
Resumable == flow \notin Terminal /\ \E s \in DOMAIN rows : Open(s)
Busy == \E s \in DOMAIN rows : rows[s].status = "running"

Fresh == Live = {} /\ (Runnable # {} \/ ~Busy)

\* Mutant: a piece is resumed by the orchestrator alone.
ResumeBare(d) ==
    /\ d = Min(Director \ Live) /\ Resumable
    /\ IF Fresh THEN UNCHANGED events ELSE Event
    /\ dir' = [dir EXCEPT ![d] = [Off EXCEPT !.pc = "look",
                                  !.gated = FALSE]]
    /\ past' = [past EXCEPT !.raced = @ \/ Live # {},
                            !.cut = @ \/ piece.state = "none"]
    /\ UNCHANGED <<rows, last, flow, piece>>

\* resume_all: through a director if the piece is on record, otherwise by
\* the orchestrator alone, which asks no gate and records nothing.
Resume(d) ==
    /\ d = Min(Director \ Live) /\ Resumable
    /\ IF Fresh THEN UNCHANGED events ELSE Event
    /\ dir' = [dir EXCEPT ![d] = [Off EXCEPT !.pc = "look",
                                  !.gated = piece.state # "none"]]
    /\ past' = [past EXCEPT !.raced = @ \/ Live # {},
                            !.cut = @ \/ piece.state = "none"]
    /\ UNCHANGED <<rows, last, flow, piece>>

\* Between two statements of _settle, or of _add.
Midway(d) == dir[d].pc \in {"read", "ask", "close", "record", "review", "wire"}

Crash ==
    /\ Event /\ Live # {}
    /\ dir' = [d \in Director |-> Off]
    /\ past' = [past EXCEPT !.died = TRUE,
                            !.cut = @ \/ piece.state = "none" \/ flow \in Terminal
                                    \/ \E d \in Live : Midway(d)]
    /\ UNCHANGED <<rows, last, flow, piece>>

Runner(s) == \E d \in Director : \E r \in dir[d].runs : r.step = s

\* recover_stuck, of a step whose runner has died.
Recover(s) ==
    /\ rows[s].status = "running" /\ ~Runner(s)
    /\ rows' = [rows EXCEPT ![s].status =
                   IF rows[s].tries < MaxAttempts THEN "queued" ELSE "failed"]
    /\ UNCHANGED <<last, flow, piece, dir, Rest>>

\* abandon_old: six hours in which nothing moved.
Abandon ==
    /\ flow \notin Terminal /\ Live = {} /\ piece.state # "none"
    /\ flow' = "failed"
    /\ piece' = IF piece.state = "producing"
                THEN [piece EXCEPT !.state = "failed"] ELSE piece
    /\ past' = [past EXCEPT !.cut = @ \/ piece.state # "producing"]
    /\ UNCHANGED <<rows, last, dir, events>>

\* Mutant: any piece that is not being made may be decided.
DecideAny(answer) ==
    /\ piece.state \in {"ready", "needs_you", "approved", "discarded"}
    /\ piece' = [piece EXCEPT !.state = answer]
    /\ past' = [past EXCEPT !.calm = Live = {} /\ ~Resumable /\ ~Busy]
    /\ UNCHANGED <<rows, last, flow, dir, events>>

\* records.decide: one UPDATE.
Decide(answer) ==
    /\ piece.state \in {"ready", "needs_you"}
    /\ piece' = [piece EXCEPT !.state = answer]
    /\ past' = [past EXCEPT !.calm = Live = {} /\ ~Resumable /\ ~Busy]
    /\ UNCHANGED <<rows, last, flow, dir, events>>

Advance(d) ==
    \/ OpenPiece(d) \/ Look(d) \/ Gate(d)
    \/ CancelTasks(d) \/ CancelFlow(d) \/ Verdict(d) \/ Status(d)
    \/ Read(d) \/ AskFlow(d) \/ Close(d) \/ Record(d)
    \/ RecordLost(d) \/ AddScript(d) \/ AddReview(d) \/ Wire(d)
    \/ \E s \in dir[d].waits : Claim(d, s)
    \/ \E r \in dir[d].runs : Complete(d, r) \/ Fail(d, r)

Next ==
    \/ \E d \in Director : Advance(d)
    \/ \E d \in Director \ Live : Resume(d)
    \/ Crash \/ Abandon
    \/ \E s \in DOMAIN rows : Recover(s)
    \/ \E answer \in {"approved", "discarded"} : Decide(answer)

Spec == Init /\ [][Next]_vars

-----------------------------------------------------------------------------
Deskbound == {"ready", "needs_you", "approved"}

\* A piece that rests on a contradicted claim never reaches the owner's desk,
\* whoever settles it and whenever (_settle reads the claims first, and a
\* review comes after the verification).  What waits there as ready is the
\* very script that passed review (verdict_of and package_of go by the same
\* rule), unless two directors revised at once or one died between creating
\* a review and wiring it.  And no script is begun on such a claim, for the
\* gate stands between the waves, but where a second director looks between
\* the verification and the gate, or a process dies there.
DeskIsSound ==
    /\ piece.state \in Deskbound => ~Contradicted
    /\ (Contradicted /\ ~past.raced /\ ~past.died) =>
          \A s \in DOMAIN rows :
             rows[s].kind = "script" => rows[s].status \in {"blocked", "cancelled"}
    /\ (piece.state = "ready" /\ ~past.raced /\ ~past.cut) =>
          \E s \in DOMAIN rows : /\ rows[s].kind = "review" /\ Done(s)
                                 /\ rows[s].says = "pass"
                                 /\ rows[s].of = {piece.pkg}

\* An answer the owner gives when nothing is at work or left to do is final:
\* no tick, recovery or restart brings the piece back (unfinished, decide).
AnswerIsFinal ==
    [][piece.state \in {"approved", "discarded"} /\ past.calm
         => piece' = piece]_vars

\* When the last director has gone and the workflow is closed, which no tick
\* opens again, the piece has an outcome, through failures, retries, gates
\* and restarts; unless a director died midway, recorded what another had
\* overtaken, or could not write its record, which _outcome lets pass
\* (director._settle, _outcome, resume.unfinished).
ClosedMeansSettled ==
    (Live = {} /\ flow \in Terminal /\ ~past.cut /\ ~past.stale /\ ~past.unsaid) =>
        piece.state \notin {"none", "producing", "running"}
=============================================================================
