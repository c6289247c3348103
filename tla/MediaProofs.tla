---------------------------- MODULE MediaProofs -----------------------------
(***************************************************************************)
(* What TLAPS proves of one piece of media, for any number of directors at *)
(* work at once, of revisions, attempts and events.                        *)
(*                                                                         *)
(* Two chains carry it.  The five steps of the plan are claimed once each  *)
(* and only after what they depend on, whoever runs them, so that a review *)
(* means that the claims were verified; and as long as one director works  *)
(* at a time and none is interrupted in a revision, the steps it adds come *)
(* in pairs, one pair after the other.                                     *)
(***************************************************************************)
EXTENDS Media, SequenceTheorems, TLAPS

-----------------------------------------------------------------------------
(* Types *)

Kinds == {"research", "verify", "strategy", "script", "review"}
Statuses == {"queued", "blocked", "running", "completed", "failed",
             "cancelled"}
Sayings == Verification \cup Strategy \cup Review \cup {"nothing"}
Points == {"off", "open", "look", "work", "cancel", "flow", "verdict",
           "status", "read", "ask", "close", "record", "script", "review",
           "wire"}
Closing == {"stopped", "declined", "rejected"}
Flows == {"running"} \cup Terminal
Recorded == Closing \cup {"ready", "needs_you"} \cup Flows
Told == Recorded \cup {"none", "unknown", "revise"}
States == Recorded \cup {"none", "producing", "approved", "discarded"}

StepRow == [kind : Kinds, after : SUBSET Nat, tries : Nat, says : Sayings,
            of : SUBSET Nat, status : Statuses]
RunRecord == [step : Nat, of : SUBSET Nat]
DirRecord == [pc : Points, gated : BOOLEAN, attempt : Nat,
              waits : SUBSET Nat, runs : SUBSET RunRecord, mine : Nat,
              say : Told, pkg : Nat, stale : BOOLEAN]

TypeOK ==
    /\ rows \in Seq(StepRow) /\ Len(rows) >= 5
    /\ last \in [script : Nat, review : Nat]
    /\ flow \in Flows
    /\ piece \in [state : States, pkg : Nat]
    /\ dir \in [Director -> DirRecord]
    /\ events \in Nat
    /\ past \in [raced : BOOLEAN, died : BOOLEAN, cut : BOOLEAN,
                 stale : BOOLEAN, calm : BOOLEAN, unsaid : BOOLEAN]

-----------------------------------------------------------------------------
(* The inductive invariant *)

\* What a director holds at each of its points.
LocalsSound ==
    \A d \in Director :
       /\ dir[d].pc # "work" => dir[d].runs = {}
       /\ dir[d].pc \notin {"work", "wire"} => dir[d].waits = {}
       /\ dir[d].waits \subseteq DOMAIN rows
       /\ \A r \in dir[d].runs : r.step \in DOMAIN rows
       /\ At(d, "wire") => \A s \in dir[d].waits : s > 5
       /\ At(d, "status") => dir[d].say \in {"failed", "completed", "running"}
       /\ At(d, "close") => dir[d].say \in Closing
       /\ At(d, "record") => dir[d].say \in Recorded

\* The plan is as it was made; what came later is scripts and reviews.
PlanKept ==
    /\ \A s \in 1..5 : rows[s].kind = Plan[s].kind /\ rows[s].after = Plan[s].after
    /\ \A s \in DOMAIN rows : s > 5 => rows[s].kind \in {"script", "review"}
    /\ last.review # 0 =>
          /\ last.review \in DOMAIN rows
          /\ rows[last.review].kind = "review"
          /\ rows[last.review].says \in Review
    /\ last.review \in 1..5 => Done(last.review)

\* A step of the plan begins after what it depends on, and one director runs
\* it at a time.
Begun(s) ==
    \/ rows[s].status \notin {"blocked", "cancelled"}
    \/ \E d \in Director : At(d, "work") /\ s \in dir[d].waits
    \/ \E d \in Director : \E r \in dir[d].runs : r.step = s

StepsSound ==
    /\ \A s \in 1..5 : Begun(s) => \A p \in rows[s].after : Done(p)
    /\ \A d \in Director : \A r \in dir[d].runs : r.step <= 5 =>
          /\ rows[r.step].status \in {"running", "cancelled"}
          /\ r.of = rows[r.step].after
          /\ \A e \in Director : \A q \in dir[e].runs :
                q.step = r.step => e = d

\* The claims were found sound.
Sound == Done(2) /\ rows[2].says = "sound"

\* Whatever follows the verification rests on sound claims.
ClaimsSound ==
    /\ Done(2) => rows[2].says \in Verification
    /\ last.review # 0 => Done(2)
    /\ Len(rows) > 5 => Sound
    /\ \A d \in Director :
          /\ dir[d].pc \in {"script", "review"} => Sound
          /\ At(d, "record") /\ dir[d].say \in Deskbound => Sound
          /\ dir[d].pc \in {"cancel", "flow"} => Contradicted
    /\ piece.state \in Deskbound => Sound

\* Directors meet only where past says so, and each asks the gate.
DirectorsSound ==
    /\ ~past.raced => \A d, e \in Live : d = e
    /\ ~past.cut \/ (~past.raced /\ ~past.died) =>
          /\ \A d \in Live : dir[d].gated
          /\ piece.state = "none" => \E d \in Director : At(d, "open")

\* What the gate stands before.
Stopped(s) ==
    /\ \A d \in Director :
          /\ At(d, "work") => s \notin dir[d].waits
          /\ \A r \in dir[d].runs : r.step # s
    /\ \/ rows[s].status = "cancelled"
       \/ /\ rows[s].status = "blocked"
          /\ \E d \in Director : dir[d].pc \in {"work", "cancel"}

GateSound ==
    Contradicted /\ ~past.raced /\ ~past.died => \A s \in 3..5 : Stopped(s)

-----------------------------------------------------------------------------
(* The rounds of revision of one director *)

N == Len(rows)
Revised == 6..N

\* The script of the pair that is being made.
Newest == IF \E d \in Director : At(d, "review") THEN N ELSE N - 1

\* Nothing more happens to it.
Settled(s) ==
    \/ rows[s].status \in {"completed", "failed"}
    \/ /\ rows[s].kind = "review" /\ rows[s].status = "blocked"
       /\ rows[s - 1].status = "failed"

\* A pair of steps as workflow.revision makes it.
ScriptMade(s) ==
    /\ rows[s].after = {}
    /\ rows[s].status \in {"queued", "running", "completed", "failed"}
ReviewMade(s) ==
    /\ rows[s - 1].kind = "script"
    /\ rows[s].after = {s - 1}
    /\ rows[s].status # "cancelled"
    /\ rows[s].status # "blocked" => Done(s - 1)
Unwired(s) ==
    /\ s = N /\ \E d \in Director : At(d, "wire")
    /\ rows[s - 1].kind = "script"
    /\ rows[s].after = {} /\ rows[s].status = "queued"

PairsSound ==
    /\ \A s \in Revised :
          /\ rows[s].kind = "script" => ScriptMade(s)
          /\ rows[s].kind = "review" => ReviewMade(s) \/ Unwired(s)
          /\ rows[s].status = "running" => Runner(s)
          /\ s < Newest => Settled(s)
    /\ rows[Newest].kind = "script"
    /\ Newest < N => rows[N].kind = "review"
    /\ \A d \in Director :
          /\ At(d, "review") => dir[d].mine = N
          /\ At(d, "wire") =>
                dir[d].mine = N - 1 /\ dir[d].waits = {N} /\ Unwired(N)
          /\ At(d, "work") => \A s \in dir[d].waits : s > 5 =>
                \A p \in rows[s].after : Done(p)
          /\ \A r \in dir[d].runs : r.step > 5 =>
                rows[r.step].status = "running" /\ r.of = rows[r.step].after
          /\ dir[d].pc \in {"verdict", "status", "read", "script"} =>
                \A s \in Revised : Settled(s)

\* A revision is made while the workflow counts as closed.
ClosedRounds ==
    /\ N > 5 => Done(5) /\ flow \in Terminal
    /\ \A d \in Director :
          /\ At(d, "status") /\ Done(5) => dir[d].say \in Terminal
          /\ At(d, "read") /\ Done(5) => flow \in Terminal
          /\ At(d, "script") => Done(5) /\ flow \in Terminal

\* Some review let the script through.
Passed(pkg) ==
    \E s \in DOMAIN rows : /\ rows[s].kind = "review" /\ Done(s)
                           /\ rows[s].says = "pass" /\ rows[s].of = {pkg}

\* The script and the review completed last belong together once it passed.
PassSound ==
    /\ Done(Newest) => last.script = Newest
    /\ VerdictOf = "pass" =>
          /\ last.review = N /\ Done(N) /\ rows[N].of = {N - 1}
          /\ last.script = N - 1
          /\ \A d \in Director : dir[d].pc \notin {"script", "review", "wire"}
    /\ \A d \in Director : At(d, "record") /\ dir[d].say = "ready" =>
          dir[d].pkg # 0 /\ Passed(dir[d].pkg)
    /\ piece.state = "ready" => Passed(piece.pkg)

RoundsSound == ~past.raced /\ ~past.cut => PairsSound /\ ClosedRounds /\ PassSound

-----------------------------------------------------------------------------
(* The end of a piece *)

\* What a piece is recorded as when it is still being made.
Unsettled == {"none", "producing", "running"}

\* A director that has yet to record an outcome.
Pending(d) == dir[d].pc # "off" /\ ~(At(d, "record") /\ dir[d].say \in Unsettled)

Outlook ==
    ~past.cut /\ ~past.stale /\ ~past.unsaid /\ flow \in Terminal =>
       \/ \E d \in Director : Pending(d)
       \/ /\ piece.state \notin Unsettled
          /\ \A d \in Director : At(d, "record") /\ dir[d].say \in Unsettled =>
                dir[d].stale

\* After an answer that was given in peace there is nothing left to do.
AnswerSound ==
    past.calm /\ piece.state \in {"approved", "discarded"} =>
       Live = {} /\ ~Resumable /\ ~Busy

IInv == /\ TypeOK /\ LocalsSound /\ PlanKept /\ StepsSound /\ ClaimsSound
        /\ DirectorsSound /\ GateSound /\ RoundsSound /\ Outlook /\ AnswerSound
-----------------------------------------------------------------------------
(* Types are kept *)

LEMMA Records ==
    /\ Off \in DirRecord
    /\ \A s \in 1..5 : Plan[s] \in StepRow
    /\ Len(Plan) = 5 /\ Plan \in Seq(StepRow) /\ DOMAIN Plan = 1..5
    /\ Step("script", {}) \in StepRow /\ Step("review", {}) \in StepRow
<1> USE DEF Step, StepRow, Kinds, Statuses, Sayings
<1>1. Off \in DirRecord
  BY DEF Off, DirRecord, Points, Told, RunRecord
<1>2. /\ Step("research", {}) \in StepRow /\ Step("verify", {1}) \in StepRow
      /\ Step("strategy", {1, 2}) \in StepRow /\ Step("script", {3}) \in StepRow
      /\ Step("review", {4}) \in StepRow
      /\ Step("script", {}) \in StepRow /\ Step("review", {}) \in StepRow
  OBVIOUS
<1> HIDE DEF Step, StepRow
<1>3. Len(Plan) = 5 /\ DOMAIN Plan = 1..5
  BY DEF Plan
<1>4. \A s \in 1..5 : Plan[s] \in StepRow
  BY <1>2 DEF Plan
<1>5. Plan \in Seq(StepRow)
  BY <1>2 DEF Plan
<1> QED
  BY <1>1, <1>2, <1>3, <1>4, <1>5

\* The rows of a workflow that is well typed.
LEMMA RowsType ==
    ASSUME TypeOK
    PROVE  /\ Len(rows) \in Nat /\ DOMAIN rows = 1..Len(rows)
           /\ 1..5 \subseteq DOMAIN rows
           /\ \A s \in DOMAIN rows : rows[s] \in StepRow
BY LenProperties, ElementOfSeq DEF TypeOK

\* One row is rewritten.
LEMMA RowPut ==
    ASSUME TypeOK, NEW s \in DOMAIN rows, NEW x \in StepRow,
           rows' = [rows EXCEPT ![s] = x]
    PROVE  /\ rows' \in Seq(StepRow) /\ Len(rows') = Len(rows)
           /\ DOMAIN rows' = DOMAIN rows
           /\ rows'[s] = x
           /\ \A t \in DOMAIN rows : t # s => rows'[t] = rows[t]
<1>1. rows \in Seq(StepRow) /\ s \in 1..Len(rows)
  BY RowsType DEF TypeOK
<1>2. /\ rows' \in Seq(StepRow) /\ Len(rows') = Len(rows)
      /\ \A t \in 1..Len(rows) : rows'[t] = IF t = s THEN x ELSE rows[t]
  BY <1>1, ExceptSeq
<1> QED
  BY <1>2, RowsType, LenProperties

\* A row is added.
LEMMA RowAdd ==
    ASSUME TypeOK, NEW x \in StepRow, rows' = Append(rows, x)
    PROVE  /\ rows' \in Seq(StepRow) /\ Len(rows') = Len(rows) + 1
           /\ DOMAIN rows' = 1..(Len(rows) + 1)
           /\ rows'[Len(rows) + 1] = x
           /\ \A t \in DOMAIN rows : rows'[t] = rows[t]
<1>1. rows \in Seq(StepRow)
  BY DEF TypeOK
<1> QED
  BY <1>1, AppendProperties, RowsType, LenProperties

\* One director is rewritten.
LEMMA DirPut ==
    ASSUME TypeOK, NEW d \in Director, NEW x \in DirRecord,
           dir' = [dir EXCEPT ![d] = x]
    PROVE  /\ dir' \in [Director -> DirRecord] /\ dir'[d] = x
           /\ \A e \in Director : e # d => dir'[e] = dir[e]
BY DEF TypeOK

-----------------------------------------------------------------------------
(* What the steps of a director make of it *)

\* A director goes on with these locals, and the others stay as they are.
Turns(d, pc, waits, runs, say, pkg, mine) ==
    /\ dir' \in [Director -> DirRecord]
    /\ \A e \in Director : e # d => dir'[e] = dir[e]
    /\ dir'[d].pc = pc /\ dir'[d].waits = waits /\ dir'[d].runs = runs
    /\ dir'[d].say = say /\ dir'[d].pkg = pkg /\ dir'[d].mine = mine
    /\ dir'[d].gated = dir[d].gated /\ dir'[d].stale = dir[d].stale

LEMMA DirType ==
    ASSUME TypeOK, NEW d \in Director
    PROVE  /\ dir[d] \in DirRecord
           /\ dir[d].pc \in Points /\ dir[d].waits \in SUBSET Nat
           /\ dir[d].runs \in SUBSET RunRecord /\ dir[d].say \in Told
           /\ dir[d].pkg \in Nat /\ dir[d].mine \in Nat
BY DEF TypeOK, DirRecord

\* It goes on and keeps its locals.
Ahead(d, pc) ==
    Turns(d, pc, dir[d].waits, dir[d].runs, dir[d].say, dir[d].pkg, dir[d].mine)

LEMMA GoTurns ==
    ASSUME TypeOK, NEW d \in Director, NEW pc \in Points, Go(d, pc)
    PROVE  Ahead(d, pc)
<1> DEFINE x == [dir[d] EXCEPT !.pc = pc]
<1>1. dir[d] \in DirRecord
  BY DirType
<1>2. x \in DirRecord
  BY <1>1 DEF DirRecord
<1>3. /\ x.pc = pc /\ x.waits = dir[d].waits /\ x.runs = dir[d].runs
      /\ x.say = dir[d].say /\ x.pkg = dir[d].pkg /\ x.mine = dir[d].mine
      /\ x.gated = dir[d].gated /\ x.stale = dir[d].stale
  BY <1>1 DEF DirRecord
<1>4. dir' = [dir EXCEPT ![d] = x]
  BY DEF Go, TypeOK
<1> HIDE DEF x
<1>5. /\ dir' \in [Director -> DirRecord] /\ dir'[d] = x
      /\ \A e \in Director : e # d => dir'[e] = dir[e]
  BY <1>2, <1>4, DirPut
<1> QED
  BY <1>3, <1>5 DEF Turns, Ahead

\* The same for a step that rewrites more than the point.
LEMMA RecordTurns ==
    ASSUME TypeOK, NEW d \in Director, NEW pc \in Points,
           NEW waits \in SUBSET Nat, NEW runs \in SUBSET RunRecord,
           NEW say \in Told, NEW pkg \in Nat, NEW mine \in Nat,
           dir' = [dir EXCEPT ![d] =
                     [dir[d] EXCEPT !.pc = pc, !.waits = waits, !.runs = runs,
                                    !.say = say, !.pkg = pkg, !.mine = mine]]
    PROVE  Turns(d, pc, waits, runs, say, pkg, mine)
<1> DEFINE x == [dir[d] EXCEPT !.pc = pc, !.waits = waits, !.runs = runs,
                               !.say = say, !.pkg = pkg, !.mine = mine]
<1>1. dir[d] \in DirRecord
  BY DirType
<1>2. x \in DirRecord
  BY <1>1 DEF DirRecord
<1>3. /\ x.pc = pc /\ x.waits = waits /\ x.runs = runs /\ x.say = say
      /\ x.pkg = pkg /\ x.mine = mine
      /\ x.gated = dir[d].gated /\ x.stale = dir[d].stale
  BY <1>1 DEF DirRecord
<1>4. dir' = [dir EXCEPT ![d] = x]
  OBVIOUS
<1> HIDE DEF x
<1>5. /\ dir' \in [Director -> DirRecord] /\ dir'[d] = x
      /\ \A e \in Director : e # d => dir'[e] = dir[e]
  BY <1>2, <1>4, DirPut
<1> QED
  BY <1>3, <1>5 DEF Turns

\* A record that is partly rewritten is one whose other fields are rewritten
\* with what they hold.
LEMMA SameFields ==
    ASSUME NEW r \in DirRecord
    PROVE  /\ \A pc, waits : [r EXCEPT !.pc = pc, !.waits = waits]
                 = [r EXCEPT !.pc = pc, !.waits = waits, !.runs = r.runs,
                             !.say = r.say, !.pkg = r.pkg, !.mine = r.mine]
           /\ \A pc, say : [r EXCEPT !.pc = pc, !.say = say]
                 = [r EXCEPT !.pc = pc, !.waits = r.waits, !.runs = r.runs,
                             !.say = say, !.pkg = r.pkg, !.mine = r.mine]
           /\ \A waits, runs : [r EXCEPT !.waits = waits, !.runs = runs]
                 = [r EXCEPT !.pc = r.pc, !.waits = waits, !.runs = runs,
                             !.say = r.say, !.pkg = r.pkg, !.mine = r.mine]
           /\ \A pc, say, pkg : [r EXCEPT !.pc = pc, !.say = say, !.pkg = pkg]
                 = [r EXCEPT !.pc = pc, !.waits = r.waits, !.runs = r.runs,
                             !.say = say, !.pkg = pkg, !.mine = r.mine]
           /\ \A pc, mine : [r EXCEPT !.pc = pc, !.mine = mine]
                 = [r EXCEPT !.pc = pc, !.waits = r.waits, !.runs = r.runs,
                             !.say = r.say, !.pkg = r.pkg, !.mine = mine]
BY DEF DirRecord

-----------------------------------------------------------------------------
(* The effect of every action *)

LEMMA LookEffect ==
    ASSUME TypeOK, NEW d \in Director, Look(d)
    PROVE  /\ At(d, "look") /\ UNCHANGED <<rows, last, flow, piece, past, events>>
           /\ \/ Runnable = {} /\ Ahead(d, "verdict")
              \/ /\ Runnable # {}
                 /\ Turns(d, "work", Runnable, dir[d].runs, dir[d].say,
                          dir[d].pkg, dir[d].mine)
<1>1. CASE Runnable = {}
  <2>1. Go(d, "verdict")
    BY <1>1 DEF Look
  <2> QED
    BY <1>1, <2>1, GoTurns DEF Look, Rest, Points
<1>2. CASE Runnable # {}
  <2>1. dir' = [dir EXCEPT ![d] = [dir[d] EXCEPT !.pc = "work", !.waits = Runnable]]
    BY <1>2 DEF Look, TypeOK
  <2>2. dir' = [dir EXCEPT ![d] =
                 [dir[d] EXCEPT !.pc = "work", !.waits = Runnable,
                                !.runs = dir[d].runs, !.say = dir[d].say,
                                !.pkg = dir[d].pkg, !.mine = dir[d].mine]]
    BY <2>1, SameFields, DirType
  <2>3. Runnable \in SUBSET Nat
    BY RowsType DEF Runnable
  <2>4. Turns(d, "work", Runnable, dir[d].runs, dir[d].say, dir[d].pkg, dir[d].mine)
    BY <2>2, <2>3, DirType, RecordTurns DEF Points
  <2> QED
    BY <1>2, <2>4 DEF Look, Rest
<1> QED
  BY <1>1, <1>2

LEMMA GateEffect ==
    ASSUME TypeOK, NEW d \in Director, Gate(d)
    PROVE  /\ Waved(d) /\ UNCHANGED <<rows, last, flow, piece, past, events>>
           /\ \/ dir[d].gated /\ Contradicted /\ Ahead(d, "cancel")
              \/ ~(dir[d].gated /\ Contradicted) /\ Ahead(d, "look")
BY GoTurns DEF Gate, Rest, Points

LEMMA OpenPieceEffect ==
    ASSUME TypeOK, NEW d \in Director, OpenPiece(d)
    PROVE  /\ At(d, "open") /\ UNCHANGED <<rows, last, flow, past, events>>
           /\ Ahead(d, "look")
           /\ piece' \in [state : States, pkg : Nat]
           /\ piece'.state = "producing" /\ piece'.pkg = piece.pkg
BY GoTurns DEF OpenPiece, Rest, Points, TypeOK, States

LEMMA CancelFlowEffect ==
    ASSUME TypeOK, NEW d \in Director, CancelFlow(d)
    PROVE  /\ At(d, "flow") /\ UNCHANGED <<rows, last, piece, past, events>>
           /\ Ahead(d, "verdict") /\ flow' = "cancelled"
BY GoTurns DEF CancelFlow, Rest, Points

LEMMA VerdictEffect ==
    ASSUME TypeOK, NEW d \in Director, Verdict(d)
    PROVE  /\ At(d, "verdict")
           /\ UNCHANGED <<rows, last, flow, piece, past, events>>
           /\ Turns(d, "status", dir[d].waits, dir[d].runs, FlowOf,
                    dir[d].pkg, dir[d].mine)
           /\ FlowOf \in {"failed", "completed", "running"}
<1>1. FlowOf \in {"failed", "completed", "running"}
  BY DEF FlowOf
<1>2. dir' = [dir EXCEPT ![d] = [dir[d] EXCEPT !.pc = "status", !.say = FlowOf]]
  BY DEF Verdict, TypeOK
<1>3. dir' = [dir EXCEPT ![d] =
               [dir[d] EXCEPT !.pc = "status", !.waits = dir[d].waits,
                              !.runs = dir[d].runs, !.say = FlowOf,
                              !.pkg = dir[d].pkg, !.mine = dir[d].mine]]
  BY <1>2, SameFields, DirType
<1>4. "status" \in Points /\ FlowOf \in Told
  BY <1>1 DEF Points, Told, Recorded, Flows, Terminal
<1>5. Turns(d, "status", dir[d].waits, dir[d].runs, FlowOf, dir[d].pkg, dir[d].mine)
  BY <1>3, <1>4, DirType, RecordTurns
<1> QED
  BY <1>1, <1>5 DEF Verdict, Rest

\* What director._settle makes of the rows.
PointOf(say) ==
    CASE say \in Closing -> "close"
      [] say = "revise" -> "script"
      [] say = "unknown" -> "ask"
      [] OTHER -> "record"

LEMMA OutcomeType ==
    ASSUME TypeOK, PlanKept
    PROVE  \A n \in Nat :
              /\ OutcomeOf(n) \in Closing \cup {"unknown", "ready", "needs_you",
                                                "revise"}
              /\ OutcomeOf(n) = "stopped" <=> Contradicted
              /\ OutcomeOf(n) \in {"ready", "needs_you", "revise"} =>
                    last.review # 0
              /\ OutcomeOf(n) \in {"needs_you", "revise"} => VerdictOf = "revise"
              /\ OutcomeOf(n) = "ready" => VerdictOf = "pass"
<1>1. VerdictOf \in Review \cup {"none"} /\ (VerdictOf = "none" <=> last.review = 0)
  BY DEF VerdictOf, PlanKept, Review
<1> QED
  BY <1>1 DEF OutcomeOf, Closing, Review

LEMMA ReadEffect ==
    ASSUME TypeOK, PlanKept, NEW d \in Director, Read(d)
    PROVE  LET say == OutcomeOf(dir[d].attempt) IN
           /\ At(d, "read") /\ UNCHANGED <<rows, last, flow, piece, past, events>>
           /\ Turns(d, PointOf(say), dir[d].waits, dir[d].runs, say, last.script,
                    dir[d].mine)
           /\ PointOf(say) \in {"close", "script", "ask", "record"}
<1> DEFINE say == OutcomeOf(dir[d].attempt)
<1>1. dir[d].attempt \in Nat /\ last.script \in Nat
  BY DirType DEF TypeOK, DirRecord
<1>2. say \in Closing \cup {"unknown", "ready", "needs_you", "revise"}
  BY <1>1, OutcomeType
<1>3. PackageOf = last.script
  BY DEF PackageOf
<1>4. dir' = [dir EXCEPT ![d].say = say, ![d].pkg = last.script,
                         ![d].pc = PointOf(say)]
  BY <1>3 DEF Read, PointOf, Closing
<1> HIDE DEF say
<1>5. PointOf(say) \in {"close", "script", "ask", "record"}
  BY DEF PointOf
<1>6. dir' = [dir EXCEPT ![d] =
                [dir[d] EXCEPT !.say = say, !.pkg = last.script, !.pc = PointOf(say)]]
  BY <1>4 DEF TypeOK
<1>7. [dir[d] EXCEPT !.say = say, !.pkg = last.script, !.pc = PointOf(say)]
      = [dir[d] EXCEPT !.pc = PointOf(say), !.say = say, !.pkg = last.script]
  BY DirType DEF DirRecord
<1>8. dir' = [dir EXCEPT ![d] =
               [dir[d] EXCEPT !.pc = PointOf(say), !.waits = dir[d].waits,
                              !.runs = dir[d].runs, !.say = say,
                              !.pkg = last.script, !.mine = dir[d].mine]]
  BY <1>6, <1>7, SameFields, DirType
<1>9. PointOf(say) \in Points /\ say \in Told
  BY <1>2, <1>5 DEF Points, Told, Recorded
<1>10. Turns(d, PointOf(say), dir[d].waits, dir[d].runs, say, last.script, dir[d].mine)
  BY <1>1, <1>8, <1>9, DirType, RecordTurns
<1> QED
  BY <1>5, <1>10 DEF Read, Rest, say

LEMMA AskFlowEffect ==
    ASSUME TypeOK, NEW d \in Director, AskFlow(d)
    PROVE  /\ At(d, "ask") /\ UNCHANGED <<rows, last, flow, piece, past, events>>
           /\ Turns(d, "record", dir[d].waits, dir[d].runs, flow, dir[d].pkg,
                    dir[d].mine)
<1>1. dir' = [dir EXCEPT ![d] = [dir[d] EXCEPT !.pc = "record", !.say = flow]]
  BY DEF AskFlow, TypeOK
<1>2. dir' = [dir EXCEPT ![d] =
               [dir[d] EXCEPT !.pc = "record", !.waits = dir[d].waits,
                              !.runs = dir[d].runs, !.say = flow,
                              !.pkg = dir[d].pkg, !.mine = dir[d].mine]]
  BY <1>1, SameFields, DirType
<1>3. "record" \in Points /\ flow \in Told
  BY DEF Points, Told, Recorded, TypeOK
<1>4. Turns(d, "record", dir[d].waits, dir[d].runs, flow, dir[d].pkg, dir[d].mine)
  BY <1>2, <1>3, DirType, RecordTurns
<1> QED
  BY <1>4 DEF AskFlow, Rest

LEMMA CloseEffect ==
    ASSUME TypeOK, NEW d \in Director, Close(d)
    PROVE  /\ At(d, "close") /\ UNCHANGED <<rows, last, piece, past, events>>
           /\ Ahead(d, "record") /\ flow' \in {"failed", "completed"}
BY GoTurns DEF Close, Rest, Points

\* A step's row is rewritten, and what it is stays.
Rewrites(s, status) ==
    /\ rows' \in Seq(StepRow) /\ Len(rows') = Len(rows)
    /\ DOMAIN rows' = DOMAIN rows
    /\ \A t \in DOMAIN rows : t # s => rows'[t] = rows[t]
    /\ rows'[s].kind = rows[s].kind /\ rows'[s].after = rows[s].after
    /\ rows'[s].status = status

LEMMA StatusPut ==
    ASSUME TypeOK, NEW s \in DOMAIN rows, NEW x \in StepRow,
           x.kind = rows[s].kind, x.after = rows[s].after,
           rows' = [rows EXCEPT ![s] = x]
    PROVE  Rewrites(s, x.status) /\ rows'[s] = x
BY RowPut DEF Rewrites

LEMMA RowFields ==
    ASSUME TypeOK, NEW s \in DOMAIN rows
    PROVE  /\ rows[s].kind \in Kinds /\ rows[s].after \in SUBSET Nat
           /\ rows[s].tries \in Nat /\ rows[s].says \in Sayings
           /\ rows[s].of \in SUBSET Nat /\ rows[s].status \in Statuses
<1>1. rows[s] \in StepRow
  BY RowsType
<1> QED
  BY <1>1 DEF StepRow

LEMMA ClaimEffect ==
    ASSUME TypeOK, LocalsSound, NEW d \in Director, NEW s \in dir[d].waits,
           Claim(d, s)
    PROVE  /\ At(d, "work") /\ s \in DOMAIN rows
           /\ UNCHANGED <<last, flow, piece, past, events>>
           /\ \/ /\ Open(s) /\ Rewrites(s, "running")
                 /\ rows'[s].says = rows[s].says /\ rows'[s].of = rows[s].of
                 /\ Turns(d, "work", dir[d].waits \ {s},
                          dir[d].runs \cup {[step |-> s, of |-> rows[s].after]},
                          dir[d].say, dir[d].pkg, dir[d].mine)
              \/ /\ ~Open(s) /\ rows' = rows
                 /\ Turns(d, "work", dir[d].waits \ {s}, dir[d].runs,
                          dir[d].say, dir[d].pkg, dir[d].mine)
<1> DEFINE rest == [dir[d] EXCEPT !.waits = @ \ {s}]
           run == [step |-> s, of |-> rows[s].after]
<1>1. s \in DOMAIN rows /\ s \in Nat /\ At(d, "work")
  BY DirType DEF LocalsSound, Claim
<1>2. dir[d] \in DirRecord /\ dir[d].pc = "work"
  BY <1>1, DirType DEF At
<1>3. run \in RunRecord
  BY <1>1, RowFields DEF RunRecord
<1>4. CASE Open(s) /\ rows' = [rows EXCEPT ![s].status = "running", ![s].tries = @ + 1]
           /\ dir' = [dir EXCEPT ![d] = [rest EXCEPT !.runs = @ \cup {run}]]
  <2>1. rows' = [rows EXCEPT ![s] = [rows[s] EXCEPT !.status = "running",
                                                     !.tries = rows[s].tries + 1]]
    BY <1>1, <1>4, RowsType DEF TypeOK
  <2>2. Rewrites(s, "running") /\ rows'[s].says = rows[s].says
        /\ rows'[s].of = rows[s].of
    <3>1. rows[s] \in StepRow
      BY <1>1, RowsType
    <3>5. rows[s].tries \in Nat
      BY <1>1, RowFields
    <3>6. PICK n \in Nat : n = rows[s].tries + 1
      BY <3>5
    <3> DEFINE x == [rows[s] EXCEPT !.status = "running", !.tries = n]
    <3>2. /\ x \in StepRow /\ x.kind = rows[s].kind /\ x.after = rows[s].after
          /\ x.status = "running" /\ x.says = rows[s].says /\ x.of = rows[s].of
      BY <3>1 DEF StepRow, Statuses
    <3>3. rows' = [rows EXCEPT ![s] = x]
      BY <2>1, <3>6
    <3> HIDE DEF x
    <3>4. Rewrites(s, x.status) /\ rows'[s] = x
      BY <1>1, <3>2, <3>3, StatusPut
    <3> QED
      BY <3>2, <3>4
  <2>3. [rest EXCEPT !.runs = @ \cup {run}]
        = [dir[d] EXCEPT !.waits = dir[d].waits \ {s},
                         !.runs = dir[d].runs \cup {run}]
    BY <1>2 DEF DirRecord
  <2>4. dir' = [dir EXCEPT ![d] =
                 [dir[d] EXCEPT !.pc = dir[d].pc, !.waits = dir[d].waits \ {s},
                                !.runs = dir[d].runs \cup {run},
                                !.say = dir[d].say, !.pkg = dir[d].pkg,
                                !.mine = dir[d].mine]]
    <3> HIDE DEF run, rest
    <3> QED
      BY <1>2, <1>4, <2>3, SameFields
  <2>5. dir[d].waits \ {s} \in SUBSET Nat
        /\ dir[d].runs \cup {run} \in SUBSET RunRecord
    <3> HIDE DEF run
    <3> QED
      BY <1>3, DirType
  <2>6. Turns(d, dir[d].pc, dir[d].waits \ {s}, dir[d].runs \cup {run},
              dir[d].say, dir[d].pkg, dir[d].mine)
    <3> HIDE DEF run
    <3> QED
      BY <2>4, <2>5, DirType, RecordTurns
  <2> QED
    BY <1>1, <1>2, <1>4, <2>2, <2>6 DEF Claim, Rest
<1>5. CASE ~Open(s) /\ dir' = [dir EXCEPT ![d] = rest] /\ UNCHANGED rows
  <2>1. rest = [dir[d] EXCEPT !.waits = dir[d].waits \ {s}, !.runs = dir[d].runs]
    BY <1>2 DEF DirRecord
  <2>2. dir' = [dir EXCEPT ![d] =
                 [dir[d] EXCEPT !.pc = dir[d].pc, !.waits = dir[d].waits \ {s},
                                !.runs = dir[d].runs,
                                !.say = dir[d].say, !.pkg = dir[d].pkg,
                                !.mine = dir[d].mine]]
    <3> HIDE DEF rest
    <3> QED
      BY <1>2, <1>5, <2>1, SameFields
  <2>3. Turns(d, dir[d].pc, dir[d].waits \ {s}, dir[d].runs,
              dir[d].say, dir[d].pkg, dir[d].mine)
    BY <2>2, DirType, RecordTurns
  <2> QED
    BY <1>1, <1>2, <1>5, <2>3 DEF Claim, Rest
<1> QED
  BY <1>4, <1>5 DEF Claim

\* A run is over: the director has one less.
LEMMA RunOver ==
    ASSUME TypeOK, NEW d \in Director, NEW r \in dir[d].runs,
           dir' = [dir EXCEPT ![d].runs = @ \ {r}]
    PROVE  Turns(d, dir[d].pc, dir[d].waits, dir[d].runs \ {r}, dir[d].say,
                 dir[d].pkg, dir[d].mine)
<1>1. dir[d] \in DirRecord
  BY DirType
<1>2. dir' = [dir EXCEPT ![d] = [dir[d] EXCEPT !.runs = dir[d].runs \ {r}]]
  BY DEF TypeOK
<1>3. [dir[d] EXCEPT !.runs = dir[d].runs \ {r}]
      = [dir[d] EXCEPT !.waits = dir[d].waits, !.runs = dir[d].runs \ {r}]
  BY <1>1 DEF DirRecord
<1>4. dir' = [dir EXCEPT ![d] =
               [dir[d] EXCEPT !.pc = dir[d].pc, !.waits = dir[d].waits,
                              !.runs = dir[d].runs \ {r}, !.say = dir[d].say,
                              !.pkg = dir[d].pkg, !.mine = dir[d].mine]]
  BY <1>1, <1>2, <1>3, SameFields
<1>5. dir[d].runs \ {r} \in SUBSET RunRecord
  BY DirType
<1> QED
  BY <1>4, <1>5, DirType, RecordTurns

LEMMA CompleteEffect ==
    ASSUME TypeOK, LocalsSound, NEW d \in Director, NEW r \in dir[d].runs,
           Complete(d, r)
    PROVE  /\ At(d, "work") /\ r \in RunRecord /\ r.step \in DOMAIN rows
           /\ UNCHANGED <<flow, piece, past, events>>
           /\ Rewrites(r.step, "completed")
           /\ rows'[r.step].says \in Says(rows[r.step].kind)
           /\ rows'[r.step].of \in Briefs(r)
           /\ last' \in [script : Nat, review : Nat]
           /\ last'.script = IF rows[r.step].kind = "script" THEN r.step
                             ELSE last.script
           /\ last'.review = IF rows[r.step].kind = "review" THEN r.step
                             ELSE last.review
           /\ Turns(d, "work", dir[d].waits, dir[d].runs \ {r}, dir[d].say,
                    dir[d].pkg, dir[d].mine)
<1>1. /\ r \in RunRecord /\ r.step \in Nat /\ r.of \in SUBSET Nat
      /\ r.step \in DOMAIN rows /\ dir[d].pc = "work"
  BY DirType DEF LocalsSound, RunRecord
<1> DEFINE s == r.step
<1>2. PICK say \in Says(rows[s].kind), of \in Briefs(r) :
         rows' = [rows EXCEPT ![s].status = "completed", ![s].says = say,
                              ![s].of = of]
  BY DEF Complete
<1>3. say \in Sayings
  BY DEF Says, Sayings
<1>4. of \in SUBSET Nat
  <2>1. rows[s].after \in SUBSET Nat
    BY <1>1, RowFields
  <2>2. PICK all \in {r.of, rows[s].after} :
           of = {x \in all : rows[x].kind = "script"}
    BY DEF Briefs
  <2>3. of \subseteq all
    BY <2>2
  <2> QED
    BY <1>1, <2>1, <2>3
<1>5. rows' = [rows EXCEPT ![s] = [rows[s] EXCEPT !.status = "completed",
                                       !.says = say, !.of = of]]
  BY <1>1, <1>2, RowsType DEF TypeOK
<1>7. Rewrites(s, "completed") /\ rows'[s].says = say /\ rows'[s].of = of
  <2> DEFINE x == [rows[s] EXCEPT !.status = "completed", !.says = say,
                                  !.of = of]
  <2>1. rows[s] \in StepRow
    BY <1>1, RowsType
  <2>2. /\ x \in StepRow /\ x.kind = rows[s].kind /\ x.after = rows[s].after
        /\ x.status = "completed" /\ x.says = say /\ x.of = of
    BY <1>3, <1>4, <2>1 DEF StepRow, Statuses
  <2>3. rows' = [rows EXCEPT ![s] = x]
    BY <1>5
  <2> HIDE DEF x
  <2>4. Rewrites(s, x.status) /\ rows'[s] = x
    BY <1>1, <2>2, <2>3, StatusPut
  <2> QED
    BY <2>2, <2>4
<1>8. /\ DOMAIN last = {"script", "review"}
      /\ last.script \in Nat /\ last.review \in Nat
  BY DEF TypeOK
<1>9. last' = [k \in {"script", "review"} |->
                 IF rows[s].kind = k THEN s ELSE last[k]]
  BY <1>8 DEF Complete
<1>10. /\ last' \in [script : Nat, review : Nat]
       /\ last'.script = IF rows[s].kind = "script" THEN s ELSE last.script
       /\ last'.review = IF rows[s].kind = "review" THEN s ELSE last.review
  BY <1>1, <1>8, <1>9
<1>11. Turns(d, dir[d].pc, dir[d].waits, dir[d].runs \ {r}, dir[d].say,
             dir[d].pkg, dir[d].mine)
  BY RunOver DEF Complete
<1> QED
  BY <1>1, <1>2, <1>7, <1>10, <1>11 DEF Complete, Rest, At

LEMMA FailEffect ==
    ASSUME TypeOK, LocalsSound, NEW d \in Director, NEW r \in dir[d].runs,
           Fail(d, r)
    PROVE  /\ At(d, "work") /\ r \in RunRecord /\ r.step \in DOMAIN rows
           /\ UNCHANGED <<last, flow, piece, past>> /\ events' \in Nat
           /\ \/ Rewrites(r.step, "failed")
              \/ Rewrites(r.step, "queued")
           /\ rows'[r.step].says = rows[r.step].says
           /\ rows'[r.step].of = rows[r.step].of
           /\ Turns(d, "work", dir[d].waits, dir[d].runs \ {r}, dir[d].say,
                    dir[d].pkg, dir[d].mine)
<1>1. /\ r \in RunRecord /\ r.step \in Nat
      /\ r.step \in DOMAIN rows /\ dir[d].pc = "work"
  BY DirType DEF LocalsSound, RunRecord
<1>2. PICK status \in {"failed", "queued"} :
         rows' = [rows EXCEPT ![r.step].status = status]
  BY DEF Fail
<1>3. rows' = [rows EXCEPT ![r.step] = [rows[r.step] EXCEPT !.status = status]]
  BY <1>1, <1>2, RowsType DEF TypeOK
<1>4. status \in Statuses
  BY DEF Statuses
<1>5. /\ Rewrites(r.step, status) /\ rows'[r.step].says = rows[r.step].says
      /\ rows'[r.step].of = rows[r.step].of
  <2> DEFINE x == [rows[r.step] EXCEPT !.status = status]
  <2>1. rows[r.step] \in StepRow
    BY <1>1, RowsType
  <2>2. /\ x \in StepRow /\ x.kind = rows[r.step].kind
        /\ x.after = rows[r.step].after /\ x.status = status
        /\ x.says = rows[r.step].says /\ x.of = rows[r.step].of
    BY <1>4, <2>1 DEF StepRow
  <2>3. rows' = [rows EXCEPT ![r.step] = x]
    BY <1>3
  <2> HIDE DEF x
  <2>4. Rewrites(r.step, x.status) /\ rows'[r.step] = x
    BY <1>1, <2>2, <2>3, StatusPut
  <2> QED
    BY <2>2, <2>4
<1>6. Turns(d, dir[d].pc, dir[d].waits, dir[d].runs \ {r}, dir[d].say,
            dir[d].pkg, dir[d].mine)
  BY RunOver DEF Fail
<1>7. events' \in Nat
  BY DEF Fail, Event, TypeOK
<1> QED
  BY <1>1, <1>5, <1>6, <1>7 DEF Fail, At

\* When a director leaves, the younger ones move up.
OldOf(d, e) == IF e < d THEN e ELSE e + 1

LEMMA EndedDirs ==
    ASSUME NEW all \in [Director -> DirRecord], NEW d \in Director
    PROVE  /\ Ended(all, d) \in [Director -> DirRecord]
           /\ \A e \in Director :
                 \/ Ended(all, d)[e] = Off
                 \/ /\ OldOf(d, e) \in Director \ {d}
                    /\ Ended(all, d)[e] = all[OldOf(d, e)]
           /\ \A x \in Director : x # d =>
                 \E e \in Director : /\ OldOf(d, e) = x
                                     /\ Ended(all, d)[e] = all[x]
<1>1. Director \subseteq Nat
  BY DEF Director
<1>2. ASSUME NEW e \in Director
      PROVE  /\ Ended(all, d)[e] \in DirRecord
             /\ \/ Ended(all, d)[e] = Off
                \/ /\ OldOf(d, e) \in Director \ {d}
                   /\ Ended(all, d)[e] = all[OldOf(d, e)]
  <2>1. CASE e < d
    <3>1. Ended(all, d)[e] = all[e] /\ OldOf(d, e) = e
      BY <2>1 DEF Ended, OldOf
    <3> QED
      BY <1>1, <2>1, <3>1
  <2>2. CASE ~(e < d) /\ e + 1 \in Director
    <3>1. Ended(all, d)[e] = all[e + 1] /\ OldOf(d, e) = e + 1
      BY <2>2 DEF Ended, OldOf
    <3> QED
      BY <1>1, <2>2, <3>1
  <2>3. CASE ~(e < d) /\ e + 1 \notin Director
    <3>1. Ended(all, d)[e] = Off
      BY <2>3 DEF Ended
    <3> QED
      BY <3>1, Records
  <2> QED
    BY <2>1, <2>2, <2>3
<1>3. ASSUME NEW x \in Director, x # d
      PROVE  \E e \in Director : OldOf(d, e) = x /\ Ended(all, d)[e] = all[x]
  <2>1. CASE x < d
    <3>1. Ended(all, d)[x] = all[x] /\ OldOf(d, x) = x
      BY <2>1 DEF Ended, OldOf
    <3> QED
      BY <3>1
  <2>2. CASE ~(x < d)
    <3>1. x - 1 \in Director /\ ~(x - 1 < d) /\ (x - 1) + 1 = x
      BY <1>3, <2>2, MediaAssumption DEF Director
    <3>2. Ended(all, d)[x - 1] = all[x] /\ OldOf(d, x - 1) = x
      BY <3>1 DEF Ended, OldOf
    <3> QED
      BY <3>1, <3>2
  <2> QED
    BY <2>1, <2>2
<1>4. Ended(all, d) \in [Director -> DirRecord]
  BY <1>2 DEF Ended
<1> QED
  BY <1>2, <1>3, <1>4

LEMMA OldOfIsOne ==
    ASSUME NEW d \in Director, NEW e \in Director, NEW f \in Director,
           OldOf(d, e) = OldOf(d, f)
    PROVE  e = f
<1>1. d \in Nat /\ e \in Nat /\ f \in Nat
  BY DEF Director
<1> QED
  BY <1>1 DEF OldOf

\* All but the mark that it was overtaken is the same.
Alike(r, q) ==
    /\ r.pc = q.pc /\ r.waits = q.waits /\ r.runs = q.runs /\ r.say = q.say
    /\ r.pkg = q.pkg /\ r.mine = q.mine /\ r.gated = q.gated

\* A director leaves; those in "marked" have been overtaken by it.
Leaves(d, marked) ==
    /\ dir' \in [Director -> DirRecord]
    /\ \A e \in Director :
          \/ dir'[e] = Off
          \/ LET x == OldOf(d, e) IN
             /\ x \in Director \ {d} /\ Alike(dir'[e], dir[x])
             /\ dir'[e].stale <=> (dir[x].stale \/ x \in marked)
    /\ \A x \in Director : x # d =>
          \E e \in Director :
             /\ OldOf(d, e) = x /\ Alike(dir'[e], dir[x])
             /\ dir'[e].stale <=> (dir[x].stale \/ x \in marked)

LEMMA StatusEffect ==
    ASSUME TypeOK, LocalsSound, NEW d \in Director, Status(d)
    PROVE  /\ At(d, "status") /\ UNCHANGED <<rows, last, piece, past, events>>
           /\ flow' = dir[d].say /\ flow' \in Flows
           /\ IF dir[d].gated THEN Ahead(d, "read") ELSE Leaves(d, {})
<1>1. /\ At(d, "status") /\ flow' = dir[d].say
      /\ UNCHANGED <<rows, last, piece, past, events>>
  BY DEF Status, Rest
<1>2. flow' \in Flows
  BY <1>1 DEF LocalsSound, Flows, Terminal
<1>3. CASE dir[d].gated
  BY <1>1, <1>2, <1>3, GoTurns DEF Status, Points
<1>4. CASE ~dir[d].gated
  <2>1. dir' = Ended(dir, d)
    BY <1>4 DEF Status
  <2>2. dir \in [Director -> DirRecord]
    BY DEF TypeOK
  <2>3. Leaves(d, {})
    BY <2>1, <2>2, EndedDirs DEF Leaves, Alike
  <2> QED
    BY <1>1, <1>2, <1>4, <2>3
<1> QED
  BY <1>3, <1>4

LEMMA RecordEffect ==
    ASSUME TypeOK, LocalsSound, NEW d \in Director, Record(d)
    PROVE  /\ At(d, "record") /\ UNCHANGED <<rows, last, flow, events>>
           /\ Leaves(d, HasRead)
           /\ piece' \in [state : States, pkg : Nat]
           /\ piece'.state = dir[d].say /\ dir[d].say \in Recorded
           /\ dir[d].pkg # 0 => piece'.pkg = dir[d].pkg
           /\ past' = [past EXCEPT !.stale = @ \/ dir[d].stale]
<1>1. /\ At(d, "record") /\ UNCHANGED <<rows, last, flow, events>>
      /\ past' = [past EXCEPT !.stale = @ \/ dir[d].stale]
  BY DEF Record
<1>2. dir[d].say \in Recorded
  BY <1>1 DEF LocalsSound
<1>3. /\ piece' = [state |-> dir[d].say,
                   pkg |-> IF dir[d].pkg = 0 THEN piece.pkg ELSE dir[d].pkg]
      /\ piece' \in [state : States, pkg : Nat]
  BY <1>2, DirType DEF Record, Settle, States, TypeOK
<1> DEFINE all == [e \in Director |-> [dir[e] EXCEPT !.stale = @ \/ e \in HasRead]]
<1>4. ASSUME NEW e \in Director
      PROVE  /\ all[e] \in DirRecord /\ Alike(all[e], dir[e])
             /\ all[e].stale <=> (dir[e].stale \/ e \in HasRead)
  <2>1. dir[e] \in DirRecord
    BY DirType
  <2>2. PICK b \in BOOLEAN : b <=> (dir[e].stale \/ e \in HasRead)
    OBVIOUS
  <2>3. all[e] = [dir[e] EXCEPT !.stale = dir[e].stale \/ e \in HasRead]
    BY <2>1 DEF DirRecord
  <2>4. all[e] = [dir[e] EXCEPT !.stale = b]
    BY <2>2, <2>3
  <2> HIDE DEF all
  <2>5. all[e] \in DirRecord /\ Alike(all[e], dir[e]) /\ all[e].stale = b
    BY <2>1, <2>4 DEF DirRecord, Alike
  <2> QED
    BY <2>2, <2>5
<1>5. all \in [Director -> DirRecord]
  BY <1>4
<1>6. dir' = Ended(all, d)
  BY DEF Record
<1> HIDE DEF all
<1>7. Leaves(d, HasRead)
  <2>1. /\ dir' \in [Director -> DirRecord]
        /\ \A e \in Director :
                 \/ dir'[e] = Off
                 \/ /\ OldOf(d, e) \in Director \ {d}
                    /\ dir'[e] = all[OldOf(d, e)]
        /\ \A x \in Director : x # d =>
              \E e \in Director : OldOf(d, e) = x /\ dir'[e] = all[x]
    BY <1>5, <1>6, EndedDirs
  <2> QED
    BY <1>4, <2>1 DEF Leaves
<1> QED
  BY <1>1, <1>2, <1>3, <1>7

LEMMA RecordLostEffect ==
    ASSUME TypeOK, LocalsSound, NEW d \in Director, RecordLost(d)
    PROVE  /\ At(d, "record") /\ UNCHANGED <<rows, last, flow, piece>>
           /\ events' \in Nat /\ Leaves(d, {})
           /\ past' \in [raced : BOOLEAN, died : BOOLEAN, cut : BOOLEAN,
                        stale : BOOLEAN, calm : BOOLEAN, unsaid : BOOLEAN]
           /\ past'.unsaid /\ past'.raced = past.raced /\ past'.died = past.died
           /\ past'.cut = past.cut /\ past'.stale = past.stale
           /\ past'.calm = past.calm
<1>1. /\ At(d, "record") /\ UNCHANGED <<rows, last, flow, piece>>
      /\ events' = events + 1 /\ dir' = Ended(dir, d)
      /\ past' = [past EXCEPT !.unsaid = TRUE]
  BY DEF RecordLost, Event
<1>2. dir \in [Director -> DirRecord] /\ dir' = Ended(dir, d)
  BY <1>1 DEF TypeOK
<1>3. Leaves(d, {})
  BY <1>2, EndedDirs DEF Leaves, Alike
<1>4. events' \in Nat
  <2>1. events \in Nat
    BY DEF TypeOK
  <2> QED
    BY <1>1, <2>1
<1>5. /\ past' \in [raced : BOOLEAN, died : BOOLEAN, cut : BOOLEAN,
                    stale : BOOLEAN, calm : BOOLEAN, unsaid : BOOLEAN]
      /\ past'.unsaid /\ past'.raced = past.raced /\ past'.died = past.died
      /\ past'.cut = past.cut /\ past'.stale = past.stale
      /\ past'.calm = past.calm
  <2>1. past \in [raced : BOOLEAN, died : BOOLEAN, cut : BOOLEAN,
                  stale : BOOLEAN, calm : BOOLEAN, unsaid : BOOLEAN]
    BY DEF TypeOK
  <2> QED
    BY <1>1, <2>1
<1> QED
  BY <1>1, <1>3, <1>4, <1>5

\* All rows keep what they are.
SameSteps ==
    /\ rows' \in Seq(StepRow) /\ Len(rows') = Len(rows)
    /\ DOMAIN rows' = DOMAIN rows
    /\ \A s \in DOMAIN rows : /\ rows'[s].kind = rows[s].kind
                              /\ rows'[s].says = rows[s].says
                              /\ rows'[s].of = rows[s].of

LEMMA CancelTasksEffect ==
    ASSUME TypeOK, NEW d \in Director, CancelTasks(d)
    PROVE  /\ At(d, "cancel") /\ UNCHANGED <<last, flow, piece, past, events>>
           /\ Ahead(d, "flow") /\ SameSteps
           /\ \A s \in DOMAIN rows :
                 /\ rows'[s].after = rows[s].after
                 /\ rows'[s].status =
                       IF rows[s].status \in {"completed", "failed", "cancelled"}
                       THEN rows[s].status ELSE "cancelled"
                 /\ rows[s].status \in {"completed", "failed", "cancelled"} =>
                       rows'[s] = rows[s]
<1> DEFINE f(s) == IF rows[s].status \in {"completed", "failed", "cancelled"}
                   THEN rows[s] ELSE [rows[s] EXCEPT !.status = "cancelled"]
<1>1. ASSUME NEW s \in DOMAIN rows
      PROVE  /\ f(s) \in StepRow
             /\ f(s).kind = rows[s].kind /\ f(s).says = rows[s].says
             /\ f(s).of = rows[s].of /\ f(s).after = rows[s].after
             /\ f(s).status =
                   IF rows[s].status \in {"completed", "failed", "cancelled"}
                   THEN rows[s].status ELSE "cancelled"
             /\ rows[s].status \in {"completed", "failed", "cancelled"} =>
                       f(s) = rows[s]
  <2>1. rows[s] \in StepRow
    BY RowsType
  <2> QED
    BY <2>1 DEF StepRow, Statuses
<1>2. rows' = [s \in 1..Len(rows) |-> f(s)] /\ Len(rows) \in Nat
  BY RowsType DEF CancelTasks
<1>3. \A s \in 1..Len(rows) : f(s) \in StepRow
  BY <1>1, RowsType
<1> HIDE DEF f
<1>4. /\ rows' \in Seq(StepRow) /\ Len(rows') = Len(rows)
      /\ DOMAIN rows' = DOMAIN rows
      /\ \A s \in DOMAIN rows : rows'[s] = f(s)
  BY <1>2, <1>3, RowsType
<1>5. Ahead(d, "flow")
  BY GoTurns DEF CancelTasks, Points
<1> QED
  BY <1>1, <1>4, <1>5 DEF CancelTasks, Rest, SameSteps

\* The rows there are stay, and one is added.
Adds(kind) ==
    /\ rows' \in Seq(StepRow) /\ Len(rows') = Len(rows) + 1
    /\ DOMAIN rows' = 1..(Len(rows) + 1)
    /\ \A s \in DOMAIN rows : rows'[s] = rows[s]
    /\ LET x == rows'[Len(rows) + 1] IN
       x.kind = kind /\ x.after = {} /\ x.status = "queued"

LEMMA StepAdded ==
    ASSUME TypeOK, NEW kind \in {"script", "review"},
           rows' = Append(rows, Step(kind, {}))
    PROVE  Adds(kind)
<1>1. Step(kind, {}) \in StepRow
  BY Records
<1>2. /\ Step(kind, {}).kind = kind /\ Step(kind, {}).after = {}
      /\ Step(kind, {}).status = "queued"
  BY DEF Step
<1> QED
  BY <1>1, <1>2, RowAdd DEF Adds

LEMMA AddScriptEffect ==
    ASSUME TypeOK, NEW d \in Director, AddScript(d)
    PROVE  /\ At(d, "script") /\ UNCHANGED <<last, flow, piece, past, events>>
           /\ Adds("script")
           /\ Turns(d, "review", dir[d].waits, dir[d].runs, dir[d].say,
                    dir[d].pkg, Len(rows) + 1)
<1>1. Adds("script")
  BY StepAdded DEF AddScript
<1>2. Len(rows') = Len(rows) + 1 /\ Len(rows) + 1 \in Nat
  BY <1>1, RowsType DEF Adds
<1>3. PICK n \in Nat : n = Len(rows) + 1
  BY <1>2
<1>4. dir' = [dir EXCEPT ![d] = [dir[d] EXCEPT !.pc = "review", !.mine = n]]
  BY <1>2, <1>3 DEF AddScript, TypeOK
<1>5. dir' = [dir EXCEPT ![d] =
               [dir[d] EXCEPT !.pc = "review", !.waits = dir[d].waits,
                              !.runs = dir[d].runs, !.say = dir[d].say,
                              !.pkg = dir[d].pkg, !.mine = n]]
  BY <1>4, SameFields, DirType
<1>6. Turns(d, "review", dir[d].waits, dir[d].runs, dir[d].say, dir[d].pkg, n)
  BY <1>5, DirType, RecordTurns DEF Points
<1> QED
  BY <1>1, <1>3, <1>6 DEF AddScript, Rest

LEMMA AddReviewEffect ==
    ASSUME TypeOK, NEW d \in Director, AddReview(d)
    PROVE  /\ At(d, "review") /\ UNCHANGED <<last, flow, piece, past, events>>
           /\ Adds("review")
           /\ Turns(d, "wire", {Len(rows) + 1}, dir[d].runs, dir[d].say,
                    dir[d].pkg, dir[d].mine)
<1>1. Adds("review")
  BY StepAdded DEF AddReview
<1>2. Len(rows') = Len(rows) + 1 /\ Len(rows) + 1 \in Nat
  BY <1>1, RowsType DEF Adds
<1>3. PICK w \in SUBSET Nat : w = {Len(rows) + 1}
  BY <1>2
<1>4. dir' = [dir EXCEPT ![d] = [dir[d] EXCEPT !.pc = "wire", !.waits = w]]
  BY <1>2, <1>3 DEF AddReview, TypeOK
<1>5. dir' = [dir EXCEPT ![d] =
               [dir[d] EXCEPT !.pc = "wire", !.waits = w,
                              !.runs = dir[d].runs, !.say = dir[d].say,
                              !.pkg = dir[d].pkg, !.mine = dir[d].mine]]
  BY <1>4, SameFields, DirType
<1>6. Turns(d, "wire", w, dir[d].runs, dir[d].say, dir[d].pkg, dir[d].mine)
  BY <1>5, DirType, RecordTurns DEF Points
<1> QED
  BY <1>1, <1>3, <1>6 DEF AddReview, Rest

\* A director begins, or begins anew.
Begins(d, gated) ==
    /\ dir' \in [Director -> DirRecord]
    /\ \A e \in Director : e # d => dir'[e] = dir[e]
    /\ dir'[d].pc = "look" /\ dir'[d].waits = {} /\ dir'[d].runs = {}
    /\ dir'[d].gated <=> gated

LEMMA WireEffect ==
    ASSUME TypeOK, LocalsSound, NEW d \in Director, Wire(d)
    PROVE  /\ At(d, "wire") /\ UNCHANGED <<last, flow, piece, past, events>>
           /\ Begins(d, TRUE) /\ SameSteps
           /\ \A s \in DOMAIN rows :
                 IF s \in dir[d].waits
                 THEN /\ rows'[s].status = "blocked"
                      /\ rows'[s].after = {dir[d].mine}
                 ELSE rows'[s] = rows[s]
<1> DEFINE f(s) == IF s \notin dir[d].waits THEN rows[s]
                   ELSE [rows[s] EXCEPT !.status = "blocked",
                                        !.after = {dir[d].mine}]
<1>1. ASSUME NEW s \in DOMAIN rows
      PROVE  /\ f(s) \in StepRow
             /\ f(s).kind = rows[s].kind /\ f(s).says = rows[s].says
             /\ f(s).of = rows[s].of
             /\ s \notin dir[d].waits => f(s) = rows[s]
             /\ s \in dir[d].waits =>
                   f(s).status = "blocked" /\ f(s).after = {dir[d].mine}
  <2>1. rows[s] \in StepRow /\ {dir[d].mine} \in SUBSET Nat
    BY RowsType, DirType
  <2> QED
    BY <2>1 DEF StepRow, Statuses
<1>2. rows' = [s \in 1..Len(rows) |-> f(s)] /\ Len(rows) \in Nat
  BY RowsType DEF Wire
<1>3. \A s \in 1..Len(rows) : f(s) \in StepRow
  BY <1>1, RowsType
<1> HIDE DEF f
<1>4. /\ rows' \in Seq(StepRow) /\ Len(rows') = Len(rows)
      /\ DOMAIN rows' = DOMAIN rows
      /\ \A s \in DOMAIN rows : rows'[s] = f(s)
  BY <1>2, <1>3, RowsType
<1>5. dir[d].attempt \in Nat
  BY DirType DEF DirRecord
<1>6. PICK n \in Nat : n = dir[d].attempt + 1
  BY <1>5
<1> DEFINE x == [Off EXCEPT !.pc = "look", !.attempt = n]
<1>7. dir' = [dir EXCEPT ![d] = x]
  BY <1>6 DEF Wire
<1>8. /\ x \in DirRecord /\ x.pc = "look" /\ x.waits = {} /\ x.runs = {}
      /\ x.gated = TRUE
  BY DEF Off, DirRecord, Points, Told, RunRecord
<1> HIDE DEF x
<1>9. Begins(d, TRUE)
  BY <1>7, <1>8, DirPut DEF Begins
<1> QED
  BY <1>1, <1>4, <1>9 DEF Wire, Rest, SameSteps

LEMMA ResumeEffect ==
    ASSUME TypeOK, NEW d \in Director \ Live, Resume(d)
    PROVE  /\ UNCHANGED <<rows, last, flow, piece>> /\ events' \in Nat
           /\ Resumable /\ At(d, "off") /\ Begins(d, piece.state # "none")
           /\ past' = [past EXCEPT !.raced = @ \/ Live # {},
                                   !.cut = @ \/ piece.state = "none"]
<1>1. PICK b \in BOOLEAN : b <=> piece.state # "none"
  OBVIOUS
<1> DEFINE x == [Off EXCEPT !.pc = "look", !.gated = b]
<1>2. dir' = [dir EXCEPT ![d] = x]
  BY <1>1 DEF Resume
<1>3. /\ x \in DirRecord /\ x.pc = "look" /\ x.waits = {} /\ x.runs = {}
      /\ x.gated = b
  BY DEF Off, DirRecord, Points, Told, RunRecord
<1> HIDE DEF x
<1>4. Begins(d, b)
  BY <1>2, <1>3, DirPut DEF Begins
<1>5. events' \in Nat
  BY DEF Resume, Event, TypeOK
<1> QED
  BY <1>1, <1>4, <1>5 DEF Resume, Begins, Live, At

LEMMA RecoverEffect ==
    ASSUME TypeOK, NEW s \in DOMAIN rows, Recover(s)
    PROVE  /\ UNCHANGED <<last, flow, piece, dir, past, events>>
           /\ rows[s].status = "running" /\ ~Runner(s)
           /\ Rewrites(s, "queued") \/ Rewrites(s, "failed")
           /\ rows'[s].says = rows[s].says /\ rows'[s].of = rows[s].of
<1>1. PICK status \in {"failed", "queued"} : rows' = [rows EXCEPT ![s].status = status]
  BY DEF Recover
<1> DEFINE x == [rows[s] EXCEPT !.status = status]
<1>2. rows[s] \in StepRow
  BY RowsType
<1>3. /\ x \in StepRow /\ x.kind = rows[s].kind /\ x.after = rows[s].after
      /\ x.status = status /\ x.says = rows[s].says /\ x.of = rows[s].of
  BY <1>2 DEF StepRow, Statuses
<1>4. rows' = [rows EXCEPT ![s] = x]
  BY <1>1, RowsType DEF TypeOK
<1> HIDE DEF x
<1>5. Rewrites(s, x.status) /\ rows'[s] = x
  BY <1>3, <1>4, StatusPut
<1> QED
  BY <1>1, <1>3, <1>5 DEF Recover, Rest

\* What went wrong so far, field by field.
LEMMA RecordPast ==
    ASSUME TypeOK, NEW b, past' = [past EXCEPT !.stale = @ \/ b]
    PROVE  /\ past' \in [raced : BOOLEAN, died : BOOLEAN, cut : BOOLEAN,
                         stale : BOOLEAN, calm : BOOLEAN, unsaid : BOOLEAN]
           /\ past'.raced = past.raced /\ past'.died = past.died
           /\ past'.cut = past.cut /\ past'.calm = past.calm
           /\ past'.unsaid = past.unsaid
           /\ past'.stale <=> (past.stale \/ b)
<1>1. PICK c \in BOOLEAN : c <=> (past.stale \/ b)
  OBVIOUS
<1>2. past' = [past EXCEPT !.stale = c]
  BY <1>1 DEF TypeOK
<1> QED
  BY <1>1, <1>2 DEF TypeOK

LEMMA ResumePast ==
    ASSUME TypeOK, NEW b, NEW a,
           past' = [past EXCEPT !.raced = @ \/ b, !.cut = @ \/ a]
    PROVE  /\ past' \in [raced : BOOLEAN, died : BOOLEAN, cut : BOOLEAN,
                         stale : BOOLEAN, calm : BOOLEAN, unsaid : BOOLEAN]
           /\ past'.raced <=> (past.raced \/ b)
           /\ past'.cut <=> (past.cut \/ a)
           /\ past'.died = past.died /\ past'.stale = past.stale
           /\ past'.calm = past.calm /\ past'.unsaid = past.unsaid
<1>1. PICK c \in BOOLEAN : c <=> (past.raced \/ b)
  OBVIOUS
<1>2. PICK e \in BOOLEAN : e <=> (past.cut \/ a)
  OBVIOUS
<1>3. past' = [past EXCEPT !.raced = c, !.cut = e]
  BY <1>1, <1>2 DEF TypeOK
<1> QED
  BY <1>1, <1>2, <1>3 DEF TypeOK

LEMMA CrashEffect ==
    ASSUME TypeOK, Crash
    PROVE  /\ UNCHANGED <<rows, last, flow, piece>> /\ events' \in Nat
           /\ Live # {}
           /\ dir' \in [Director -> DirRecord]
           /\ \A d \in Director : dir'[d] = Off
           /\ past' \in [raced : BOOLEAN, died : BOOLEAN, cut : BOOLEAN,
                         stale : BOOLEAN, calm : BOOLEAN, unsaid : BOOLEAN]
           /\ past'.died
           /\ past'.cut <=> \/ past.cut \/ piece.state = "none"
                            \/ flow \in Terminal
                            \/ \E d \in Live : Midway(d)
           /\ past'.raced = past.raced /\ past'.stale = past.stale
           /\ past'.calm = past.calm /\ past'.unsaid = past.unsaid
<1>1. PICK c \in BOOLEAN : c <=> \/ past.cut \/ piece.state = "none"
                                 \/ flow \in Terminal
                                 \/ \E d \in Live : Midway(d)
  OBVIOUS
<1>2. past' = [past EXCEPT !.died = TRUE, !.cut = c]
  BY <1>1 DEF TypeOK, Crash
<1>3. events' \in Nat
  BY DEF Crash, Event, TypeOK
<1> QED
  BY <1>1, <1>2, <1>3, Records DEF TypeOK, Crash

LEMMA AbandonEffect ==
    ASSUME TypeOK, Abandon
    PROVE  /\ UNCHANGED <<rows, last, dir, events>>
           /\ flow \notin Terminal /\ Live = {} /\ piece.state # "none"
           /\ flow' = "failed"
           /\ piece' \in [state : States, pkg : Nat]
           /\ IF piece.state = "producing"
              THEN piece'.state = "failed" /\ piece'.pkg = piece.pkg
              ELSE piece' = piece
           /\ past' \in [raced : BOOLEAN, died : BOOLEAN, cut : BOOLEAN,
                         stale : BOOLEAN, calm : BOOLEAN, unsaid : BOOLEAN]
           /\ past'.cut <=> (past.cut \/ piece.state # "producing")
           /\ past'.died = past.died /\ past'.raced = past.raced
           /\ past'.stale = past.stale /\ past'.calm = past.calm
           /\ past'.unsaid = past.unsaid
<1>1. PICK c \in BOOLEAN : c <=> (past.cut \/ piece.state # "producing")
  OBVIOUS
<1>2. past' = [past EXCEPT !.cut = c]
  BY <1>1 DEF TypeOK, Abandon
<1>3. /\ piece' \in [state : States, pkg : Nat]
      /\ IF piece.state = "producing"
              THEN piece'.state = "failed" /\ piece'.pkg = piece.pkg
              ELSE piece' = piece
  BY DEF Abandon, TypeOK, States, Recorded, Flows, Terminal
<1> QED
  BY <1>1, <1>2, <1>3 DEF TypeOK, Abandon

LEMMA DecideEffect ==
    ASSUME TypeOK, NEW answer \in {"approved", "discarded"}, Decide(answer)
    PROVE  /\ UNCHANGED <<rows, last, flow, dir, events>>
           /\ piece.state \in {"ready", "needs_you"}
           /\ piece' \in [state : States, pkg : Nat]
           /\ piece'.state = answer /\ piece'.pkg = piece.pkg
           /\ past' \in [raced : BOOLEAN, died : BOOLEAN, cut : BOOLEAN,
                         stale : BOOLEAN, calm : BOOLEAN, unsaid : BOOLEAN]
           /\ past'.cut = past.cut /\ past'.died = past.died
           /\ past'.raced = past.raced /\ past'.stale = past.stale
           /\ past'.unsaid = past.unsaid
           /\ past'.calm <=> (Live = {} /\ ~Resumable /\ ~Busy)
<1>1. PICK c \in BOOLEAN : c <=> (Live = {} /\ ~Resumable /\ ~Busy)
  OBVIOUS
<1>2. past' = [past EXCEPT !.calm = c]
  BY <1>1 DEF TypeOK, Decide
<1>3. /\ piece' \in [state : States, pkg : Nat]
      /\ piece'.state = answer /\ piece'.pkg = piece.pkg
  BY DEF Decide, TypeOK, States
<1> QED
  BY <1>1, <1>2, <1>3 DEF TypeOK, Decide

LEMMA TypeStep ==
    ASSUME TypeOK, LocalsSound, PlanKept, Next
    PROVE  TypeOK'
<1> USE RowsType
<1>1. ASSUME NEW d \in Director, OpenPiece(d) PROVE TypeOK'
  BY <1>1, OpenPieceEffect DEF TypeOK, Ahead, Turns
<1>2. ASSUME NEW d \in Director, Look(d) PROVE TypeOK'
  BY <1>2, LookEffect DEF TypeOK, Ahead, Turns
<1>3. ASSUME NEW d \in Director, Gate(d) PROVE TypeOK'
  BY <1>3, GateEffect DEF TypeOK, Ahead, Turns
<1>4. ASSUME NEW d \in Director, CancelTasks(d) PROVE TypeOK'
  BY <1>4, CancelTasksEffect DEF TypeOK, Ahead, Turns, SameSteps
<1>5. ASSUME NEW d \in Director, CancelFlow(d) PROVE TypeOK'
  BY <1>5, CancelFlowEffect DEF TypeOK, Ahead, Turns, Flows, Terminal
<1>6. ASSUME NEW d \in Director, Verdict(d) PROVE TypeOK'
  BY <1>6, VerdictEffect DEF TypeOK, Turns
<1>7. ASSUME NEW d \in Director, Status(d) PROVE TypeOK'
  BY <1>7, StatusEffect DEF TypeOK, Ahead, Turns, Leaves
<1>8. ASSUME NEW d \in Director, Read(d) PROVE TypeOK'
  BY <1>8, ReadEffect DEF TypeOK, Turns
<1>9. ASSUME NEW d \in Director, AskFlow(d) PROVE TypeOK'
  BY <1>9, AskFlowEffect DEF TypeOK, Turns
<1>10. ASSUME NEW d \in Director, Close(d) PROVE TypeOK'
  BY <1>10, CloseEffect DEF TypeOK, Ahead, Turns, Flows, Terminal
<1>11. ASSUME NEW d \in Director, Record(d) PROVE TypeOK'
  BY <1>11, RecordEffect, RecordPast DEF TypeOK, Leaves
<1>11L. ASSUME NEW d \in Director, RecordLost(d) PROVE TypeOK'
  BY <1>11L, RecordLostEffect DEF TypeOK, Leaves
<1>12. ASSUME NEW d \in Director, AddScript(d) PROVE TypeOK'
  BY <1>12, AddScriptEffect DEF TypeOK, Turns, Adds
<1>13. ASSUME NEW d \in Director, AddReview(d) PROVE TypeOK'
  BY <1>13, AddReviewEffect DEF TypeOK, Turns, Adds
<1>14. ASSUME NEW d \in Director, Wire(d) PROVE TypeOK'
  BY <1>14, WireEffect DEF TypeOK, Begins, SameSteps
<1>15. ASSUME NEW d \in Director, NEW s \in dir[d].waits, Claim(d, s)
       PROVE  TypeOK'
  BY <1>15, ClaimEffect DEF TypeOK, Turns, Rewrites
<1>16. ASSUME NEW d \in Director, NEW r \in dir[d].runs, Complete(d, r)
       PROVE  TypeOK'
  BY <1>16, CompleteEffect DEF TypeOK, Turns, Rewrites
<1>17. ASSUME NEW d \in Director, NEW r \in dir[d].runs, Fail(d, r)
       PROVE  TypeOK'
  BY <1>17, FailEffect DEF TypeOK, Turns, Rewrites
<1>18. ASSUME NEW d \in Director \ Live, Resume(d) PROVE TypeOK'
  BY <1>18, ResumeEffect, ResumePast DEF TypeOK, Begins
<1>19. ASSUME Crash PROVE TypeOK'
  BY <1>19, CrashEffect DEF TypeOK
<1>20. ASSUME Abandon PROVE TypeOK'
  BY <1>20, AbandonEffect DEF TypeOK, Flows, Terminal
<1>21. ASSUME NEW s \in DOMAIN rows, Recover(s) PROVE TypeOK'
  BY <1>21, RecoverEffect DEF TypeOK, Rewrites
<1>22. ASSUME NEW answer \in {"approved", "discarded"}, Decide(answer)
       PROVE  TypeOK'
  BY <1>22, DecideEffect DEF TypeOK
<1> QED
  BY <1>1, <1>2, <1>3, <1>4, <1>5, <1>6, <1>7, <1>8, <1>9, <1>10, <1>11, <1>11L,
     <1>12, <1>13, <1>14, <1>15, <1>16, <1>17, <1>18, <1>19, <1>20, <1>21,
     <1>22 DEF Next, Advance

-----------------------------------------------------------------------------
(* Locals and the plan *)

LEMMA OffFields ==
    /\ Off.pc = "off" /\ Off.waits = {} /\ Off.runs = {}
    /\ Off.say = "none" /\ Off.gated = TRUE
BY DEF Off

\* A director that leaves takes its locals along.
LEMMA LocalsLeave ==
    ASSUME TypeOK, LocalsSound, NEW d \in Director, NEW M, Leaves(d, M),
           UNCHANGED rows
    PROVE  LocalsSound'
<1> SUFFICES ASSUME NEW e \in Director
             PROVE  /\ dir'[e].pc # "work" => dir'[e].runs = {}
                    /\ dir'[e].pc \notin {"work", "wire"} => dir'[e].waits = {}
                    /\ dir'[e].waits \subseteq DOMAIN rows
                    /\ \A r \in dir'[e].runs : r.step \in DOMAIN rows
                    /\ dir'[e].pc = "wire" => \A s \in dir'[e].waits : s > 5
                    /\ dir'[e].pc = "status" =>
                          dir'[e].say \in {"failed", "completed", "running"}
                    /\ dir'[e].pc = "close" => dir'[e].say \in Closing
                    /\ dir'[e].pc = "record" => dir'[e].say \in Recorded
  BY DEF LocalsSound, At
<1>1. CASE dir'[e] = Off
  BY <1>1, OffFields
<1>2. ASSUME NEW x \in Director, Alike(dir'[e], dir[x])
      PROVE  /\ dir'[e].pc # "work" => dir'[e].runs = {}
             /\ dir'[e].pc \notin {"work", "wire"} => dir'[e].waits = {}
             /\ dir'[e].waits \subseteq DOMAIN rows
             /\ \A r \in dir'[e].runs : r.step \in DOMAIN rows
             /\ dir'[e].pc = "wire" => \A s \in dir'[e].waits : s > 5
             /\ dir'[e].pc = "status" =>
                   dir'[e].say \in {"failed", "completed", "running"}
             /\ dir'[e].pc = "close" => dir'[e].say \in Closing
             /\ dir'[e].pc = "record" => dir'[e].say \in Recorded
  BY <1>2 DEF LocalsSound, At, Alike
<1> QED
  BY <1>1, <1>2 DEF Leaves

LEMMA LocalsStep ==
    ASSUME TypeOK, LocalsSound, PlanKept, Next
    PROVE  LocalsSound'
<1> USE RowsType DEF LocalsSound, At
<1>1. ASSUME NEW d \in Director, OpenPiece(d) PROVE LocalsSound'
  BY <1>1, OpenPieceEffect DEF Ahead, Turns
<1>2. ASSUME NEW d \in Director, Look(d) PROVE LocalsSound'
  BY <1>2, LookEffect DEF Ahead, Turns, Runnable
<1>3. ASSUME NEW d \in Director, Gate(d) PROVE LocalsSound'
  BY <1>3, GateEffect DEF Ahead, Turns, Waved
<1>4. ASSUME NEW d \in Director, CancelTasks(d) PROVE LocalsSound'
  BY <1>4, CancelTasksEffect DEF Ahead, Turns, SameSteps
<1>5. ASSUME NEW d \in Director, CancelFlow(d) PROVE LocalsSound'
  BY <1>5, CancelFlowEffect DEF Ahead, Turns
<1>6. ASSUME NEW d \in Director, Verdict(d) PROVE LocalsSound'
  BY <1>6, VerdictEffect DEF Turns
<1>7. ASSUME NEW d \in Director, Status(d) PROVE LocalsSound'
  <2>1. CASE dir[d].gated
    BY <1>7, <2>1, StatusEffect DEF Ahead, Turns
  <2>2. CASE ~dir[d].gated
    BY <1>7, <2>2, StatusEffect, LocalsLeave
  <2> QED
    BY <2>1, <2>2
<1>8. ASSUME NEW d \in Director, Read(d) PROVE LocalsSound'
  <2> DEFINE say == OutcomeOf(dir[d].attempt)
  <2>1. dir[d].attempt \in Nat
    BY DirType DEF DirRecord
  <2>2. say \in Closing \cup {"unknown", "ready", "needs_you", "revise"}
    BY <2>1, OutcomeType
  <2>3. /\ PointOf(say) = "close" => say \in Closing
        /\ PointOf(say) = "record" => say \in Recorded
    BY <2>2 DEF PointOf, Recorded, Closing
  <2>4. /\ At(d, "read") /\ UNCHANGED rows
        /\ Turns(d, PointOf(say), dir[d].waits, dir[d].runs, say, last.script,
                    dir[d].mine)
        /\ PointOf(say) \in {"close", "script", "ask", "record"}
    BY <1>8, ReadEffect
  <2> HIDE DEF say
  <2> QED
    BY <2>3, <2>4 DEF Turns
<1>9. ASSUME NEW d \in Director, AskFlow(d) PROVE LocalsSound'
  BY <1>9, AskFlowEffect DEF Turns, TypeOK, Recorded
<1>10. ASSUME NEW d \in Director, Close(d) PROVE LocalsSound'
  BY <1>10, CloseEffect DEF Ahead, Turns, Recorded
<1>11. ASSUME NEW d \in Director, Record(d) PROVE LocalsSound'
  BY <1>11, RecordEffect, LocalsLeave
<1>11L. ASSUME NEW d \in Director, RecordLost(d) PROVE LocalsSound'
  BY <1>11L, RecordLostEffect, LocalsLeave
<1>12. ASSUME NEW d \in Director, AddScript(d) PROVE LocalsSound'
  BY <1>12, AddScriptEffect DEF Turns, Adds
<1>13. ASSUME NEW d \in Director, AddReview(d) PROVE LocalsSound'
  <2>1. Len(rows) + 1 > 5
    BY DEF TypeOK
  <2> QED
    BY <1>13, <2>1, AddReviewEffect DEF Turns, Adds
<1>14. ASSUME NEW d \in Director, Wire(d) PROVE LocalsSound'
  BY <1>14, WireEffect DEF Begins, SameSteps
<1>15. ASSUME NEW d \in Director, NEW s \in dir[d].waits, Claim(d, s)
       PROVE  LocalsSound'
  BY <1>15, ClaimEffect DEF Turns, Rewrites
<1>16. ASSUME NEW d \in Director, NEW r \in dir[d].runs, Complete(d, r)
       PROVE  LocalsSound'
  <2>1. /\ At(d, "work") /\ Rewrites(r.step, "completed")
        /\ Turns(d, "work", dir[d].waits, dir[d].runs \ {r}, dir[d].say,
                    dir[d].pkg, dir[d].mine)
    BY <1>16, CompleteEffect
  <2> QED
    BY <2>1 DEF Turns, Rewrites
<1>17. ASSUME NEW d \in Director, NEW r \in dir[d].runs, Fail(d, r)
       PROVE  LocalsSound'
  BY <1>17, FailEffect DEF Turns, Rewrites
<1>18. ASSUME NEW d \in Director \ Live, Resume(d) PROVE LocalsSound'
  BY <1>18, ResumeEffect DEF Begins
<1>19. ASSUME Crash PROVE LocalsSound'
  BY <1>19, CrashEffect, OffFields
<1>20. ASSUME Abandon PROVE LocalsSound'
  BY <1>20, AbandonEffect
<1>21. ASSUME NEW s \in DOMAIN rows, Recover(s) PROVE LocalsSound'
  BY <1>21, RecoverEffect DEF Rewrites
<1>22. ASSUME NEW answer \in {"approved", "discarded"}, Decide(answer)
       PROVE  LocalsSound'
  BY <1>22, DecideEffect
<1> QED
  BY <1>1, <1>2, <1>3, <1>4, <1>5, <1>6, <1>7, <1>8, <1>9, <1>10, <1>11, <1>11L,
     <1>12, <1>13, <1>14, <1>15, <1>16, <1>17, <1>18, <1>19, <1>20, <1>21,
     <1>22 DEF Next, Advance

\* A step of the plan that is done stays as it is.
LEMMA DoneStays ==
    ASSUME TypeOK, LocalsSound, PlanKept, StepsSound, Next
    PROVE  \A s \in 1..5 : Done(s) => rows'[s] = rows[s]
<1> USE RowsType DEF Done
<1> SUFFICES ASSUME NEW t \in 1..5, rows[t].status = "completed"
             PROVE  rows'[t] = rows[t]
  OBVIOUS
<1>0. t \in DOMAIN rows
  OBVIOUS
<1>1. ASSUME NEW d \in Director, CancelTasks(d) PROVE rows'[t] = rows[t]
  BY <1>0, <1>1, CancelTasksEffect
<1>2. ASSUME NEW d \in Director, AddScript(d) PROVE rows'[t] = rows[t]
  BY <1>0, <1>2, AddScriptEffect DEF Adds
<1>3. ASSUME NEW d \in Director, AddReview(d) PROVE rows'[t] = rows[t]
  BY <1>0, <1>3, AddReviewEffect DEF Adds
<1>4. ASSUME NEW d \in Director, Wire(d) PROVE rows'[t] = rows[t]
  <2>1. t \notin dir[d].waits
    <3>1. At(d, "wire")
      BY <1>4, WireEffect
    <3>2. \A s \in dir[d].waits : s > 5
      BY <3>1 DEF LocalsSound
    <3> QED
      BY <3>2
  <2> QED
    BY <1>0, <1>4, <2>1, WireEffect
<1>5. ASSUME NEW d \in Director, NEW s \in dir[d].waits, Claim(d, s)
      PROVE  rows'[t] = rows[t]
  BY <1>0, <1>5, ClaimEffect DEF Open, Rewrites
<1>6. ASSUME NEW d \in Director, NEW r \in dir[d].runs, Rewrites(r.step, "completed")
                \/ Rewrites(r.step, "failed") \/ Rewrites(r.step, "queued")
      PROVE  rows'[t] = rows[t]
  <2>1. r.step # t
    BY DEF StepsSound
  <2> QED
    BY <1>0, <1>6, <2>1 DEF Rewrites
<1>7. ASSUME NEW d \in Director, NEW r \in dir[d].runs, Complete(d, r)
      PROVE  rows'[t] = rows[t]
  <2>1. Rewrites(r.step, "completed")
    BY <1>7, CompleteEffect
  <2> QED
    BY <1>6, <2>1
<1>8. ASSUME NEW d \in Director, NEW r \in dir[d].runs, Fail(d, r)
      PROVE  rows'[t] = rows[t]
  <2>1. Rewrites(r.step, "failed") \/ Rewrites(r.step, "queued")
    BY <1>8, FailEffect
  <2> QED
    BY <1>6, <2>1
<1>9. ASSUME NEW s \in DOMAIN rows, Recover(s) PROVE rows'[t] = rows[t]
  BY <1>0, <1>9, RecoverEffect DEF Rewrites
<1>10. ASSUME NEW d \in Director,
              \/ OpenPiece(d) \/ Look(d) \/ Gate(d) \/ CancelFlow(d)
              \/ Verdict(d) \/ Status(d) \/ Read(d) \/ AskFlow(d) \/ Close(d)
              \/ Record(d) \/ RecordLost(d)
       PROVE  rows' = rows
  BY <1>10 DEF OpenPiece, Look, Gate, CancelFlow, Verdict, Status, Read,
     AskFlow, Close, Record, RecordLost
<1>11. ASSUME NEW d \in Director, Resume(d) PROVE rows' = rows
  BY <1>11 DEF Resume
<1>12. CASE Crash
  BY <1>12 DEF Crash
<1>13. CASE Abandon
  BY <1>13 DEF Abandon
<1>14. ASSUME NEW answer \in {"approved", "discarded"}, Decide(answer)
       PROVE  rows' = rows
  BY <1>14 DEF Decide
<1> QED
  BY <1>1, <1>2, <1>3, <1>4, <1>5, <1>7, <1>8, <1>9, <1>10, <1>11, <1>12,
     <1>13, <1>14 DEF Next, Advance

\* Steps that touch neither the rows nor what was completed last.
RowsAside == UNCHANGED <<rows, last>>

LEMMA AsideSteps ==
    /\ \A d \in Director :
          \/ OpenPiece(d) \/ Look(d) \/ Gate(d) \/ CancelFlow(d)
          \/ Verdict(d) \/ Status(d) \/ Read(d) \/ AskFlow(d) \/ Close(d)
          \/ Record(d) \/ RecordLost(d) \/ Resume(d)
          => RowsAside
    /\ Crash \/ Abandon => RowsAside
    /\ \A answer : Decide(answer) => RowsAside
BY DEF OpenPiece, Look, Gate, CancelFlow, Verdict, Status, Read,
   AskFlow, Close, Record, RecordLost, Resume, Crash, Abandon, Decide, RowsAside

\* All the others, and what they do to the rows.
LEMMA RowSteps ==
    ASSUME Next
    PROVE  \/ RowsAside
           \/ \E d \in Director : \/ CancelTasks(d) \/ AddScript(d)
                                  \/ AddReview(d) \/ Wire(d)
           \/ \E d \in Director : \E s \in dir[d].waits : Claim(d, s)
           \/ \E d \in Director : \E r \in dir[d].runs :
                 Complete(d, r) \/ Fail(d, r)
           \/ \E s \in DOMAIN rows : Recover(s)
BY AsideSteps DEF Next, Advance

\* What leaves the plan as it was made.
LEMMA PlanFrame ==
    ASSUME TypeOK, PlanKept, last' = last,
           \A s \in DOMAIN rows : /\ s \in DOMAIN rows'
                                  /\ rows'[s].kind = rows[s].kind
                                  /\ rows'[s].says = rows[s].says,
           \A s \in 1..5 : rows'[s].after = rows[s].after,
           \A s \in 1..5 : Done(s) => rows'[s] = rows[s],
           \A s \in DOMAIN rows' \ DOMAIN rows :
                 rows'[s].kind \in {"script", "review"}
    PROVE  PlanKept'
<1> USE RowsType
<1>1. \A s \in 1..5 : /\ rows'[s].kind = Plan[s].kind
                      /\ rows'[s].after = Plan[s].after
  BY DEF PlanKept
<1>2. \A s \in DOMAIN rows' : s > 5 => rows'[s].kind \in {"script", "review"}
  BY DEF PlanKept
<1>3. last.review # 0 => /\ last.review \in DOMAIN rows'
                         /\ rows'[last.review].kind = "review"
                         /\ rows'[last.review].says \in Review
  BY DEF PlanKept
<1>4. last.review \in 1..5 => Done(last.review)'
  BY DEF PlanKept, Done
<1> QED
  BY <1>1, <1>2, <1>3, <1>4 DEF PlanKept

LEMMA PlanStep ==
    ASSUME TypeOK, LocalsSound, PlanKept, StepsSound, Next
    PROVE  PlanKept'
<1> USE RowsType
<1>1. \A s \in 1..5 : Done(s) => rows'[s] = rows[s]
  BY DoneStays
<1>2. CASE RowsAside
  BY <1>2 DEF RowsAside, PlanKept, Done
<1>3. ASSUME NEW d \in Director, CancelTasks(d) PROVE PlanKept'
  <2>1. /\ SameSteps /\ last' = last
        /\ \A s \in DOMAIN rows : rows'[s].after = rows[s].after
    BY <1>3, CancelTasksEffect
  <2> QED
    BY <1>1, <2>1, PlanFrame DEF SameSteps
<1>4. ASSUME NEW kind \in {"script", "review"}, Adds(kind), last' = last
      PROVE  PlanKept'
  <2>1. \A s \in DOMAIN rows' : s \in DOMAIN rows \/ s = Len(rows) + 1
    BY <1>4 DEF Adds
  <2> QED
    BY <1>1, <1>4, <2>1, PlanFrame DEF Adds
<1>5. ASSUME NEW d \in Director, Wire(d) PROVE PlanKept'
  <2>1. \A s \in 1..5 : rows'[s] = rows[s]
    <3>1. \A s \in 1..5 : s \notin dir[d].waits
      <4>1. At(d, "wire")
        BY <1>5, WireEffect
      <4>2. \A s \in dir[d].waits : s > 5
        BY <4>1 DEF LocalsSound
      <4> QED
        BY <4>2
    <3> QED
      BY <1>5, <3>1, WireEffect
  <2>2. last' = last /\ SameSteps
    BY <1>5, WireEffect
  <2>3. /\ DOMAIN rows' = DOMAIN rows
        /\ \A s \in DOMAIN rows : /\ rows'[s].kind = rows[s].kind
                                 /\ rows'[s].says = rows[s].says
    BY <2>2 DEF SameSteps
  <2> QED
    BY <2>1, <2>2, <2>3 DEF PlanKept, Done
<1>6. ASSUME NEW s \in DOMAIN rows, NEW status, Rewrites(s, status), last' = last,
             rows'[s].says = rows[s].says
      PROVE  PlanKept'
  BY <1>1, <1>6 DEF PlanKept, Rewrites, Done
<1>7. ASSUME NEW d \in Director, NEW r \in dir[d].runs, Complete(d, r)
      PROVE  PlanKept'
  <2>1. /\ Rewrites(r.step, "completed") /\ r.step \in DOMAIN rows
        /\ rows'[r.step].says \in Says(rows[r.step].kind)
        /\ last'.review = IF rows[r.step].kind = "review" THEN r.step
                          ELSE last.review
    BY <1>7, CompleteEffect
  <2>2. /\ \A s \in 1..5 : /\ rows'[s].kind = Plan[s].kind
                           /\ rows'[s].after = Plan[s].after
        /\ \A s \in DOMAIN rows' : s > 5 => rows'[s].kind \in {"script", "review"}
    BY <2>1 DEF PlanKept, Rewrites
  <2>3. CASE rows[r.step].kind = "review"
    <3>1. rows'[r.step].says \in Review /\ last'.review = r.step
      BY <2>1, <2>3 DEF Says
    <3> QED
      BY <2>1, <2>2, <2>3, <3>1 DEF PlanKept, Rewrites, Done
  <2>4. CASE rows[r.step].kind # "review"
    <3>1. last'.review = last.review
      BY <2>1, <2>4
    <3>2. last.review # 0 =>
            /\ last.review \in DOMAIN rows'
            /\ rows'[last.review].kind = "review"
            /\ rows'[last.review].says \in Review
      BY <2>1, <2>4 DEF PlanKept, Rewrites
    <3>3. last.review \in 1..5 => Done(last.review)'
      BY <1>1, <3>1 DEF PlanKept, Done
    <3> QED
      BY <2>2, <3>1, <3>2, <3>3 DEF PlanKept
  <2> QED
    BY <2>3, <2>4
<1>8. ASSUME NEW d \in Director, NEW r \in dir[d].runs, Fail(d, r)
      PROVE  PlanKept'
  BY <1>6, <1>8, FailEffect
<1>9. ASSUME NEW d \in Director, NEW s \in dir[d].waits, Claim(d, s)
      PROVE  PlanKept'
  <2>1. CASE Rewrites(s, "running") /\ rows'[s].says = rows[s].says
    BY <1>6, <1>9, <2>1, ClaimEffect
  <2>2. CASE rows' = rows
    BY <1>2, <1>9, <2>2, ClaimEffect DEF RowsAside
  <2> QED
    BY <1>9, <2>1, <2>2, ClaimEffect
<1>10. ASSUME NEW s \in DOMAIN rows, Recover(s) PROVE PlanKept'
  BY <1>6, <1>10, RecoverEffect
<1> QED
  BY <1>2, <1>3, <1>4, <1>5, <1>7, <1>8, <1>9, <1>10, RowSteps,
     AddScriptEffect, AddReviewEffect

-----------------------------------------------------------------------------
(* The steps of the plan *)

LEMMA PlanEdges ==
    ASSUME TypeOK, PlanKept
    PROVE  /\ rows[1].after = {} /\ rows[2].after = {1}
           /\ rows[3].after = {1, 2} /\ rows[4].after = {3}
           /\ rows[5].after = {4}
           /\ rows[1].kind = "research" /\ rows[2].kind = "verify"
           /\ rows[3].kind = "strategy" /\ rows[4].kind = "script"
           /\ rows[5].kind = "review"
           /\ \A s \in 1..5 : rows[s].after \subseteq 1..5
<1>1. /\ Plan[1] = Step("research", {}) /\ Plan[2] = Step("verify", {1})
      /\ Plan[3] = Step("strategy", {1, 2}) /\ Plan[4] = Step("script", {3})
      /\ Plan[5] = Step("review", {4})
  BY DEF Plan
<1>2. \A s \in 1..5 : rows[s].after = Plan[s].after /\ rows[s].kind = Plan[s].kind
  BY DEF PlanKept
<1>3. /\ rows[1].after = {} /\ rows[2].after = {1}
      /\ rows[3].after = {1, 2} /\ rows[4].after = {3}
      /\ rows[5].after = {4}
      /\ rows[1].kind = "research" /\ rows[2].kind = "verify"
      /\ rows[3].kind = "strategy" /\ rows[4].kind = "script"
      /\ rows[5].kind = "review"
  BY <1>1, <1>2 DEF Step
<1> QED
  BY <1>3

\* No step begins but one whose predecessors are done.
BegunBefore == \A s \in 1..5 : Begun(s) => \A p \in rows[s].after : Done(p)

LEMMA BegunFrame ==
    ASSUME TypeOK, LocalsSound, PlanKept, StepsSound, Next,
           \A s \in 1..5 : Begun(s)' =>
              Begun(s) \/ \A p \in rows[s].after : Done(p)
    PROVE  BegunBefore'
<1>1. PlanKept' /\ \A s \in 1..5 : Done(s) => Done(s)'
  BY PlanStep, DoneStays DEF Done
<1>2. \A s \in 1..5 : rows'[s].after = rows[s].after
  BY <1>1 DEF PlanKept
<1>3. \A s \in 1..5 : rows[s].after \subseteq 1..5
  BY PlanEdges
<1> QED
  BY <1>1, <1>2, <1>3 DEF BegunBefore, StepsSound

\* A director that moves on, and is not at work then, begins nothing.
LEMMA BegunTurn ==
    ASSUME TypeOK, LocalsSound, NEW d \in Director,
           NEW pc, NEW waits, NEW say, NEW pkg, NEW mine,
           Turns(d, pc, waits, dir[d].runs, say, pkg, mine),
           pc # "work",
           \A s \in 1..5 : rows'[s].status = rows[s].status
              \/ rows'[s].status \in {"blocked", "cancelled"}
    PROVE  \A s \in 1..5 : Begun(s)' => Begun(s)
BY DEF Turns, Begun, At

LEMMA BegunLeave ==
    ASSUME TypeOK, NEW d \in Director, NEW M, Leaves(d, M), rows' = rows
    PROVE  \A s \in 1..5 : Begun(s)' => Begun(s)
<1> SUFFICES ASSUME NEW s \in 1..5, Begun(s)' PROVE Begun(s)
  OBVIOUS
<1>1. ASSUME NEW e \in Director,
             \/ dir'[e].pc = "work" /\ s \in dir'[e].waits
             \/ \E r \in dir'[e].runs : r.step = s
      PROVE  \E x \in Director : \/ dir[x].pc = "work" /\ s \in dir[x].waits
                                 \/ \E r \in dir[x].runs : r.step = s
  <2>1. dir'[e] # Off
    BY <1>1, OffFields
  <2>2. PICK x \in Director : Alike(dir'[e], dir[x])
    BY <2>1 DEF Leaves
  <2> QED
    BY <1>1, <2>2 DEF Alike
<1> QED
  BY <1>1 DEF Begun, At

LEMMA BegunStep ==
    ASSUME TypeOK, LocalsSound, PlanKept, StepsSound, Next
    PROVE  BegunBefore'
<1> USE RowsType
<1> DEFINE Q == \A s \in 1..5 : Begun(s)' =>
                   Begun(s) \/ \A p \in rows[s].after : Done(p)
<1>1. ASSUME NEW d \in Director, OpenPiece(d) PROVE Q
  BY <1>1, OpenPieceEffect, BegunTurn DEF Ahead
<1>2. ASSUME NEW d \in Director, Look(d) PROVE Q
  <2>1. CASE Ahead(d, "verdict")
    BY <1>2, <2>1, LookEffect, BegunTurn DEF Ahead
  <2>2. CASE Turns(d, "work", Runnable, dir[d].runs, dir[d].say, dir[d].pkg,
                   dir[d].mine)
    <3>1. rows' = rows
      BY <1>2, LookEffect
    <3>2. \A s \in 1..5 : Begun(s)' => Begun(s) \/ s \in Runnable
      BY <2>2, <3>1 DEF Turns, Begun, At
    <3> QED
      BY <3>2 DEF Runnable
  <2> QED
    BY <1>2, <2>1, <2>2, LookEffect
<1>3. ASSUME NEW d \in Director, Gate(d) PROVE Q
  BY <1>3, GateEffect, BegunTurn DEF Ahead
<1>4. ASSUME NEW d \in Director, CancelTasks(d) PROVE Q
  <2>1. /\ Ahead(d, "flow")
        /\ \A s \in 1..5 : rows'[s].status = rows[s].status
              \/ rows'[s].status \in {"blocked", "cancelled"}
    BY <1>4, CancelTasksEffect
  <2> QED
    BY <2>1, BegunTurn DEF Ahead
<1>5. ASSUME NEW d \in Director, CancelFlow(d) PROVE Q
  BY <1>5, CancelFlowEffect, BegunTurn DEF Ahead
<1>6. ASSUME NEW d \in Director, Verdict(d) PROVE Q
  BY <1>6, VerdictEffect, BegunTurn
<1>7. ASSUME NEW d \in Director, Status(d) PROVE Q
  <2>1. CASE dir[d].gated
    BY <1>7, <2>1, StatusEffect, BegunTurn DEF Ahead
  <2>2. CASE ~dir[d].gated
    BY <1>7, <2>2, StatusEffect, BegunLeave
  <2> QED
    BY <2>1, <2>2
<1>8. ASSUME NEW d \in Director, Read(d) PROVE Q
  <2> DEFINE say == OutcomeOf(dir[d].attempt)
  <2>1. /\ rows' = rows
        /\ Turns(d, PointOf(say), dir[d].waits, dir[d].runs, say, last.script,
                    dir[d].mine)
        /\ PointOf(say) \in {"close", "script", "ask", "record"}
    BY <1>8, ReadEffect
  <2> HIDE DEF say
  <2> QED
    BY <2>1, BegunTurn
<1>9. ASSUME NEW d \in Director, AskFlow(d) PROVE Q
  BY <1>9, AskFlowEffect, BegunTurn
<1>10. ASSUME NEW d \in Director, Close(d) PROVE Q
  BY <1>10, CloseEffect, BegunTurn DEF Ahead
<1>11. ASSUME NEW d \in Director, Record(d) PROVE Q
  BY <1>11, RecordEffect, BegunLeave
<1>11L. ASSUME NEW d \in Director, RecordLost(d) PROVE Q
  BY <1>11L, RecordLostEffect, BegunLeave
<1>12. ASSUME NEW d \in Director, AddScript(d) PROVE Q
  <2>1. \A s \in 1..5 : rows'[s].status = rows[s].status
    BY <1>12, AddScriptEffect DEF Adds
  <2> QED
    BY <1>12, <2>1, AddScriptEffect, BegunTurn
<1>13. ASSUME NEW d \in Director, AddReview(d) PROVE Q
  <2>1. \A s \in 1..5 : rows'[s].status = rows[s].status
    BY <1>13, AddReviewEffect DEF Adds
  <2> QED
    BY <1>13, <2>1, AddReviewEffect, BegunTurn
<1>14. ASSUME NEW d \in Director, Wire(d) PROVE Q
  <2>1. \A s \in 1..5 : rows'[s].status = rows[s].status
          \/ rows'[s].status \in {"blocked", "cancelled"}
    BY <1>14, WireEffect
  <2>2. Begins(d, TRUE)
    BY <1>14, WireEffect
  <2> QED
    BY <2>1, <2>2 DEF Begins, Begun, At
<1>15. ASSUME NEW d \in Director, NEW s \in dir[d].waits, Claim(d, s)
       PROVE  Q
  <2>1. At(d, "work")
    BY <1>15, ClaimEffect
  <2>2. CASE /\ Rewrites(s, "running")
             /\ Turns(d, "work", dir[d].waits \ {s},
                      dir[d].runs \cup {[step |-> s, of |-> rows[s].after]},
                      dir[d].say, dir[d].pkg, dir[d].mine)
    BY <2>1, <2>2 DEF Turns, Begun, At, Rewrites
  <2>3. CASE /\ rows' = rows
             /\ Turns(d, "work", dir[d].waits \ {s}, dir[d].runs,
                          dir[d].say, dir[d].pkg, dir[d].mine)
    BY <2>1, <2>3 DEF Turns, Begun, At
  <2> QED
    BY <1>15, <2>2, <2>3, ClaimEffect
<1>16. ASSUME NEW d \in Director, NEW r \in dir[d].runs, NEW status,
              Rewrites(r.step, status), At(d, "work"),
              Turns(d, "work", dir[d].waits, dir[d].runs \ {r}, dir[d].say,
                    dir[d].pkg, dir[d].mine)
       PROVE  Q
  BY <1>16 DEF Turns, Begun, At, Rewrites
<1>17. ASSUME NEW d \in Director, NEW r \in dir[d].runs,
              Complete(d, r) \/ Fail(d, r)
       PROVE  Q
  <2>1. CASE Complete(d, r)
    BY <1>16, <2>1, CompleteEffect
  <2>2. CASE Fail(d, r)
    BY <1>16, <2>2, FailEffect
  <2> QED
    BY <1>17, <2>1, <2>2
<1>18. ASSUME NEW d \in Director \ Live, Resume(d) PROVE Q
  BY <1>18, ResumeEffect DEF Begins, Begun, At
<1>19. ASSUME Crash PROVE Q
  BY <1>19, CrashEffect, OffFields DEF Begun, At
<1>20. ASSUME Abandon PROVE Q
  BY <1>20, AbandonEffect DEF Begun, At
<1>21. ASSUME NEW s \in DOMAIN rows, Recover(s) PROVE Q
  BY <1>21, RecoverEffect DEF Begun, At, Rewrites
<1>22. ASSUME NEW answer \in {"approved", "discarded"}, Decide(answer)
       PROVE  Q
  BY <1>22, DecideEffect DEF Begun, At
<1> HIDE DEF Q
<1>23. Q
  BY <1>1, <1>2, <1>3, <1>4, <1>5, <1>6, <1>7, <1>8, <1>9, <1>10, <1>11, <1>11L,
     <1>12, <1>13, <1>14, <1>15, <1>17, <1>18, <1>19, <1>20, <1>21,
     <1>22 DEF Next, Advance
<1> QED
  BY <1>23, BegunFrame DEF Q

\* A step of the plan that is being run has one runner and says so.
RunnersApart ==
    \A d \in Director : \A r \in dir[d].runs : r.step <= 5 =>
       /\ rows[r.step].status \in {"running", "cancelled"}
       /\ r.of = rows[r.step].after
       /\ \A e \in Director : \A q \in dir[e].runs : q.step = r.step => e = d

\* Two runs of one step of the plan are the same run.
LEMMA OneRun ==
    ASSUME TypeOK, LocalsSound, StepsSound, NEW d \in Director,
           NEW r \in dir[d].runs, r.step <= 5,
           NEW e \in Director, NEW q \in dir[e].runs, q.step = r.step
    PROVE  e = d /\ q = r
<1>1. r \in RunRecord /\ q \in RunRecord
  BY DirType
<1>2. e = d /\ r.of = q.of
  BY DEF StepsSound
<1> QED
  BY <1>1, <1>2 DEF RunRecord

\* No director gets a new run, and the rows of those being run stay.
LEMMA ApartFrame ==
    ASSUME TypeOK, LocalsSound, StepsSound,
           \A e \in Director : dir'[e].runs \subseteq dir[e].runs,
           \A e \in Director : \A r \in dir'[e].runs : r.step <= 5 =>
              /\ rows'[r.step].after = rows[r.step].after
              /\ \/ rows'[r.step].status = rows[r.step].status
                 \/ rows'[r.step].status \in {"running", "cancelled"}
    PROVE  RunnersApart'
BY DEF RunnersApart, StepsSound

LEMMA ApartLeave ==
    ASSUME TypeOK, LocalsSound, StepsSound, NEW d \in Director, NEW M,
           Leaves(d, M), rows' = rows
    PROVE  RunnersApart'
<1>1. ASSUME NEW e \in Director, NEW r \in dir'[e].runs
      PROVE  OldOf(d, e) \in Director /\ r \in dir[OldOf(d, e)].runs
  <2>1. dir'[e] # Off
    BY <1>1, OffFields
  <2> QED
    BY <1>1, <2>1 DEF Leaves, Alike
<1>2. ASSUME NEW e \in Director, NEW r \in dir'[e].runs, r.step <= 5,
             NEW f \in Director, NEW q \in dir'[f].runs, q.step = r.step
      PROVE  e = f
  <2>1. OldOf(d, e) = OldOf(d, f)
    BY <1>1, <1>2 DEF StepsSound
  <2> QED
    BY <2>1, OldOfIsOne
<1>3. ASSUME NEW e \in Director, NEW r \in dir'[e].runs, r.step <= 5
      PROVE  /\ rows'[r.step].status \in {"running", "cancelled"}
             /\ r.of = rows'[r.step].after
  BY <1>1, <1>3 DEF StepsSound
<1> QED
  BY <1>2, <1>3 DEF RunnersApart

LEMMA ApartStep ==
    ASSUME TypeOK, LocalsSound, PlanKept, StepsSound, Next
    PROVE  RunnersApart'
<1> USE RowsType
<1>0. \A e \in Director : \A r \in dir[e].runs : r.step \in DOMAIN rows /\ r.step \in Nat
  BY DEF LocalsSound
<1>1. ASSUME NEW d \in Director, NEW pc, NEW waits, NEW say, NEW pkg, NEW mine,
             Turns(d, pc, waits, dir[d].runs, say, pkg, mine), rows' = rows
      PROVE  RunnersApart'
  <2>1. \A e \in Director : dir'[e].runs = dir[e].runs
    BY <1>1 DEF Turns
  <2> QED
    BY <1>1, <2>1, ApartFrame
<1>2. ASSUME NEW d \in Director,
             \/ OpenPiece(d) \/ Look(d) \/ Gate(d) \/ CancelFlow(d)
             \/ Verdict(d) \/ AskFlow(d) \/ Close(d)
      PROVE  RunnersApart'
  <2>1. CASE OpenPiece(d)
    BY <1>1, <2>1, OpenPieceEffect DEF Ahead
  <2>2. CASE Look(d)
    BY <1>1, <2>2, LookEffect DEF Ahead
  <2>3. CASE Gate(d)
    BY <1>1, <2>3, GateEffect DEF Ahead
  <2>4. CASE CancelFlow(d)
    BY <1>1, <2>4, CancelFlowEffect DEF Ahead
  <2>5. CASE Verdict(d)
    BY <1>1, <2>5, VerdictEffect
  <2>6. CASE AskFlow(d)
    BY <1>1, <2>6, AskFlowEffect
  <2>7. CASE Close(d)
    BY <1>1, <2>7, CloseEffect DEF Ahead
  <2> QED
    BY <1>2, <2>1, <2>2, <2>3, <2>4, <2>5, <2>6, <2>7
<1>3. ASSUME NEW d \in Director, Status(d) PROVE RunnersApart'
  <2>1. CASE dir[d].gated
    BY <1>1, <1>3, <2>1, StatusEffect DEF Ahead
  <2>2. CASE ~dir[d].gated
    BY <1>3, <2>2, StatusEffect, ApartLeave
  <2> QED
    BY <2>1, <2>2
<1>4. ASSUME NEW d \in Director, Read(d) PROVE RunnersApart'
  <2> DEFINE say == OutcomeOf(dir[d].attempt)
  <2>1. /\ rows' = rows
        /\ Turns(d, PointOf(say), dir[d].waits, dir[d].runs, say, last.script,
                    dir[d].mine)
    BY <1>4, ReadEffect
  <2> HIDE DEF say
  <2> QED
    BY <1>1, <2>1
<1>5. ASSUME NEW d \in Director, Record(d) PROVE RunnersApart'
  BY <1>5, RecordEffect, ApartLeave
<1>5L. ASSUME NEW d \in Director, RecordLost(d) PROVE RunnersApart'
  BY <1>5L, RecordLostEffect, ApartLeave
<1>6. ASSUME NEW d \in Director, CancelTasks(d) PROVE RunnersApart'
  <2>1. \A e \in Director : dir'[e].runs = dir[e].runs
    BY <1>6, CancelTasksEffect DEF Ahead, Turns
  <2>2. \A s \in DOMAIN rows :
           /\ rows'[s].after = rows[s].after
           /\ \/ rows'[s].status = rows[s].status
              \/ rows'[s].status \in {"running", "cancelled"}
    BY <1>6, CancelTasksEffect
  <2> QED
    BY <1>0, <2>1, <2>2, ApartFrame
<1>7. ASSUME NEW d \in Director, AddScript(d) \/ AddReview(d)
      PROVE  RunnersApart'
  <2>1. \A e \in Director : dir'[e].runs = dir[e].runs
    BY <1>7, AddScriptEffect, AddReviewEffect DEF Turns
  <2>2. \A s \in DOMAIN rows : rows'[s] = rows[s]
    BY <1>7, AddScriptEffect, AddReviewEffect DEF Adds
  <2> QED
    BY <1>0, <2>1, <2>2, ApartFrame
<1>8. ASSUME NEW d \in Director, Wire(d) PROVE RunnersApart'
  <2>1. \A e \in Director : dir'[e].runs \subseteq dir[e].runs
    BY <1>8, WireEffect DEF Begins
  <2>2. \A s \in dir[d].waits : s > 5
    BY <1>8, WireEffect DEF LocalsSound
  <2>3. ASSUME NEW s \in DOMAIN rows, s <= 5 PROVE rows'[s] = rows[s]
    <3>1. s \notin dir[d].waits
      BY <2>2, <2>3
    <3> QED
      BY <1>8, <3>1, WireEffect
  <2> QED
    BY <1>0, <2>1, <2>3, ApartFrame
<1>9. ASSUME NEW d \in Director, NEW s \in dir[d].waits, Claim(d, s)
      PROVE  RunnersApart'
  <2>1. CASE rows' = rows /\ Turns(d, "work", dir[d].waits \ {s}, dir[d].runs,
                                   dir[d].say, dir[d].pkg, dir[d].mine)
    BY <1>1, <2>1
  <2>2. CASE /\ Open(s) /\ Rewrites(s, "running")
             /\ Turns(d, "work", dir[d].waits \ {s},
                      dir[d].runs \cup {[step |-> s, of |-> rows[s].after]},
                      dir[d].say, dir[d].pkg, dir[d].mine)
    <3> DEFINE new == [step |-> s, of |-> rows[s].after]
    <3>1. \A e \in Director : \A r \in dir'[e].runs :
             r \in dir[e].runs \/ (e = d /\ r = new)
      BY <2>2 DEF Turns
    <3>2. new.step = s /\ new.of = rows[s].after
      OBVIOUS
    <3> HIDE DEF new
    <3>3. s <= 5 => \A e \in Director : \A r \in dir[e].runs : r.step # s
      BY <2>2 DEF StepsSound, Open
    <3>4. /\ \A t \in DOMAIN rows : t # s => rows'[t] = rows[t]
          /\ rows'[s].status = "running" /\ rows'[s].after = rows[s].after
      BY <2>2 DEF Rewrites
    <3>5. ASSUME NEW e \in Director, NEW r \in dir'[e].runs, r.step <= 5
          PROVE  /\ rows'[r.step].status \in {"running", "cancelled"}
                 /\ r.of = rows'[r.step].after
      <4>1. CASE r \in dir[e].runs
        BY <1>0, <3>3, <3>4, <3>5, <4>1 DEF StepsSound
      <4>2. CASE r = new
        BY <3>2, <3>4, <4>2
      <4> QED
        BY <3>1, <3>5, <4>1, <4>2
    <3>6. ASSUME NEW e \in Director, NEW r \in dir'[e].runs, r.step <= 5,
                 NEW f \in Director, NEW q \in dir'[f].runs, q.step = r.step
          PROVE  f = e
      <4>1. CASE r \in dir[e].runs /\ q \in dir[f].runs
        BY <3>6, <4>1 DEF StepsSound
      <4>2. CASE r.step = s
        BY <3>1, <3>3, <3>6, <4>2
      <4> QED
        BY <3>1, <3>2, <3>6, <4>1, <4>2
    <3> QED
      BY <3>5, <3>6 DEF RunnersApart
  <2> QED
    BY <1>9, <2>1, <2>2, ClaimEffect
<1>10. ASSUME NEW d \in Director, NEW r \in dir[d].runs, NEW status,
              Rewrites(r.step, status),
              Turns(d, "work", dir[d].waits, dir[d].runs \ {r}, dir[d].say,
                    dir[d].pkg, dir[d].mine)
       PROVE  RunnersApart'
  <2>1. \A e \in Director : \A q \in dir'[e].runs :
           q \in dir[e].runs /\ ~(e = d /\ q = r)
    BY <1>10 DEF Turns
  <2>2. \A e \in Director : \A q \in dir'[e].runs :
           q.step <= 5 => q.step # r.step
    BY <2>1, OneRun
  <2> QED
    BY <1>0, <1>10, <2>1, <2>2, ApartFrame DEF Rewrites
<1>11. ASSUME NEW d \in Director, NEW r \in dir[d].runs,
              Complete(d, r) \/ Fail(d, r)
       PROVE  RunnersApart'
  <2>1. CASE Complete(d, r)
    BY <1>10, <2>1, CompleteEffect
  <2>2. CASE Fail(d, r)
    BY <1>10, <2>2, FailEffect
  <2> QED
    BY <1>11, <2>1, <2>2
<1>12. ASSUME NEW d \in Director \ Live, Resume(d) PROVE RunnersApart'
  <2>1. \A e \in Director : dir'[e].runs \subseteq dir[e].runs
    BY <1>12, ResumeEffect DEF Begins
  <2> QED
    BY <1>12, <2>1, ResumeEffect, ApartFrame
<1>13. CASE Crash
  BY <1>13, CrashEffect, OffFields DEF RunnersApart
<1>14. CASE Abandon
  BY <1>14, AbandonEffect, ApartFrame
<1>15. ASSUME NEW s \in DOMAIN rows, Recover(s) PROVE RunnersApart'
  <2>1. /\ dir' = dir /\ \A e \in Director : \A r \in dir[e].runs : r.step # s
    BY <1>15, RecoverEffect DEF Runner
  <2>2. \A t \in DOMAIN rows : t # s => rows'[t] = rows[t]
    BY <1>15, RecoverEffect DEF Rewrites
  <2> QED
    BY <1>0, <2>1, <2>2, ApartFrame
<1>16. ASSUME NEW answer \in {"approved", "discarded"}, Decide(answer)
       PROVE  RunnersApart'
  BY <1>16, DecideEffect, ApartFrame
<1> QED
  BY <1>2, <1>3, <1>4, <1>5, <1>5L, <1>6, <1>7, <1>8, <1>9, <1>11, <1>12, <1>13,
     <1>14, <1>15, <1>16 DEF Next, Advance

LEMMA StepsStep ==
    ASSUME TypeOK, LocalsSound, PlanKept, StepsSound, Next
    PROVE  StepsSound'
BY BegunStep, ApartStep DEF StepsSound, BegunBefore, RunnersApart

-----------------------------------------------------------------------------
(* Whatever follows the verification rests on sound claims *)

\* The one verification decides.
LEMMA VerifyRow ==
    ASSUME TypeOK, PlanKept
    PROVE  Contradicted <=> (Done(2) /\ rows[2].says = "contradicted")
<1>1. \A s \in DOMAIN rows : rows[s].kind = "verify" => s = 2
  <2> SUFFICES ASSUME NEW s \in DOMAIN rows, rows[s].kind = "verify"
               PROVE  s = 2
    OBVIOUS
  <2>1. s \in 1..5
    BY RowsType DEF PlanKept
  <2> QED
    BY <2>1, PlanEdges
<1>2. 2 \in DOMAIN rows /\ rows[2].kind = "verify"
  BY RowsType, PlanEdges
<1> QED
  BY <1>1, <1>2 DEF Contradicted, Saying

LEMMA VerifyRowNext ==
    ASSUME TypeOK, TypeOK', PlanKept, PlanKept'
    PROVE  Contradicted' <=> (Done(2)' /\ rows'[2].says = "contradicted")
<1>0. Len(rows') \in Nat /\ DOMAIN rows' = 1..Len(rows') /\ Len(rows') >= 5
  BY LenProperties DEF TypeOK
<1>1. /\ rows'[1].kind = "research" /\ rows'[2].kind = "verify"
      /\ rows'[3].kind = "strategy" /\ rows'[4].kind = "script"
      /\ rows'[5].kind = "review"
  <2>1. \A s \in 1..5 : rows'[s].kind = rows[s].kind
    BY DEF PlanKept
  <2> QED
    BY <2>1, PlanEdges
<1>2. \A s \in DOMAIN rows' : rows'[s].kind = "verify" => s = 2
  <2> SUFFICES ASSUME NEW s \in DOMAIN rows', rows'[s].kind = "verify"
               PROVE  s = 2
    OBVIOUS
  <2>1. s \in 1..5
    BY <1>0 DEF PlanKept
  <2> QED
    BY <1>1, <2>1
<1> QED
  BY <1>0, <1>1, <1>2 DEF Contradicted, Saying, Done

\* A step of the plan is done after those it rests on.
LEMMA ChainBack ==
    ASSUME TypeOK, PlanKept, StepsSound
    PROVE  /\ Begun(5) => Done(4)
           /\ Begun(4) => Done(3)
           /\ Begun(3) => Done(1) /\ Done(2)
           /\ Begun(2) => Done(1)
           /\ \A s \in 1..5 : Done(s) => Begun(s)
BY PlanEdges DEF StepsSound, Begun, Done

\* What was found of the claims stays so.
LEMMA ClaimsStay ==
    ASSUME TypeOK, LocalsSound, PlanKept, StepsSound, Next
    PROVE  /\ Done(2) => Done(2)' /\ rows'[2] = rows[2]
           /\ Sound => Sound'
           /\ Contradicted => Contradicted'
           /\ Sound => ~Contradicted
<1>1. Done(2) => Done(2)' /\ rows'[2] = rows[2]
  BY DoneStays DEF Done
<1> QED
  BY <1>1, VerifyRow, VerifyRowNext, TypeStep, PlanStep DEF Sound

\* A step is done when a run of it completes.
LEMMA DoneBy ==
    ASSUME TypeOK, LocalsSound, NEW t \in DOMAIN rows, ~Done(t), Next,
           rows'[t].status = "completed"
    PROVE  \E d \in Director : \E r \in dir[d].runs : Complete(d, r) /\ r.step = t
<1> USE RowsType
<1>1. CASE RowsAside
  BY <1>1 DEF RowsAside, Done
<1>2. ASSUME NEW d \in Director, CancelTasks(d)
      PROVE  rows'[t].status # "completed"
  BY <1>2, CancelTasksEffect DEF Done
<1>3. ASSUME NEW d \in Director, AddScript(d) \/ AddReview(d)
      PROVE  rows'[t] = rows[t]
  BY <1>3, AddScriptEffect, AddReviewEffect DEF Adds
<1>4. ASSUME NEW d \in Director, Wire(d)
      PROVE  rows'[t] = rows[t] \/ rows'[t].status # "completed"
  <2>1. \A s \in DOMAIN rows :
           IF s \in dir[d].waits
           THEN /\ rows'[s].status = "blocked"
                /\ rows'[s].after = {dir[d].mine}
           ELSE rows'[s] = rows[s]
    BY <1>4, WireEffect
  <2> QED
    BY <2>1
<1>5. ASSUME NEW s \in DOMAIN rows, NEW status, Rewrites(s, status),
             status # "completed"
      PROVE  rows'[t] = rows[t] \/ rows'[t].status # "completed"
  BY <1>5 DEF Rewrites
<1>6. ASSUME NEW d \in Director, NEW s \in dir[d].waits, Claim(d, s)
      PROVE  rows'[t] = rows[t] \/ rows'[t].status # "completed"
  BY <1>5, <1>6, ClaimEffect
<1>7. ASSUME NEW d \in Director, NEW r \in dir[d].runs, Complete(d, r)
      PROVE  rows'[t] = rows[t] \/ r.step = t
  <2>1. Rewrites(r.step, "completed")
    BY <1>7, CompleteEffect
  <2> QED
    BY <2>1 DEF Rewrites
<1>8. ASSUME NEW d \in Director, NEW r \in dir[d].runs, Fail(d, r)
      PROVE  rows'[t] = rows[t] \/ rows'[t].status # "completed"
  BY <1>5, <1>8, FailEffect
<1>9. ASSUME NEW s \in DOMAIN rows, Recover(s)
      PROVE  rows'[t] = rows[t] \/ rows'[t].status # "completed"
  BY <1>5, <1>9, RecoverEffect
<1>10. rows[t].status # "completed"
  BY DEF Done
<1> QED
  BY <1>1, <1>2, <1>3, <1>4, <1>6, <1>7, <1>8, <1>9, <1>10, RowSteps

\* The verification says something when it is done.
LEMMA VerifiedStep ==
    ASSUME TypeOK, LocalsSound, PlanKept, StepsSound, ClaimsSound, Next,
           Done(2)'
    PROVE  rows'[2].says \in Verification
<1> USE RowsType
<1>1. CASE Done(2)
  BY <1>1, ClaimsStay DEF ClaimsSound
<1>2. CASE ~Done(2)
  <2>1. 2 \in DOMAIN rows /\ rows'[2].status = "completed"
    BY DEF Done
  <2>2. PICK d \in Director :
           \E r \in dir[d].runs : Complete(d, r) /\ r.step = 2
    BY <1>2, <2>1, DoneBy
  <2>3. PICK r \in dir[d].runs : Complete(d, r) /\ r.step = 2
    BY <2>2
  <2>4. rows'[2].says \in Says(rows[2].kind)
    BY <2>3, CompleteEffect
  <2> QED
    BY <2>4, PlanEdges DEF Says
<1> QED
  BY <1>1, <1>2

\* No review is completed before the verification.
LEMMA ReviewedStep ==
    ASSUME TypeOK, LocalsSound, PlanKept, StepsSound, ClaimsSound, Next,
           last'.review # 0
    PROVE  Done(2)'
<1>1. CASE last.review # 0
  BY <1>1, ClaimsStay DEF ClaimsSound
<1>2. CASE last'.review # last.review
  <2>5. PICK d \in Director : \E r \in dir[d].runs : Complete(d, r)
    BY <1>2, RowSteps DEF RowsAside, CancelTasks, AddScript, AddReview, Wire,
       Claim, Fail, Recover
  <2>1. PICK r \in dir[d].runs : Complete(d, r)
    BY <2>5
  <2>2. rows[r.step].kind = "review" /\ r.step \in DOMAIN rows
    BY <1>2, <2>1, CompleteEffect
  <2>3. CASE r.step > 5
    BY <2>2, <2>3, RowsType, ClaimsStay DEF ClaimsSound, Sound
  <2>4. CASE ~(r.step > 5)
    <3>1. r.step = 5
      BY <2>2, <2>4, RowsType, PlanEdges
    <3>2. Begun(5)
      BY <3>1 DEF Begun
    <3>3. Done(2)
      BY <3>2, ChainBack
    <3> QED
      BY <3>3, ClaimsStay
  <2> QED
    BY <2>3, <2>4
<1> QED
  BY <1>1, <1>2

\* What is read as fit to be shown, or to be revised, rests on sound claims.
LEMMA ReadSound ==
    ASSUME TypeOK, LocalsSound, PlanKept, StepsSound, ClaimsSound,
           NEW n \in Nat, OutcomeOf(n) \in {"ready", "needs_you", "revise"}
    PROVE  Sound
<1>1. last.review # 0 /\ ~Contradicted
  BY OutcomeType DEF Closing
<1> QED
  BY <1>1, VerifyRow DEF ClaimsSound, Verification, Sound

\* What a director at these points goes by.
Grounds(pc, say) ==
    /\ pc \in {"script", "review"} => Sound
    /\ pc = "record" /\ say \in Deskbound => Sound
    /\ pc \in {"cancel", "flow"} => Contradicted

GroundsNext(pc, say) ==
    /\ pc \in {"script", "review"} => Sound'
    /\ pc = "record" /\ say \in Deskbound => Sound'
    /\ pc \in {"cancel", "flow"} => Contradicted'

LEMMA GroundsStay ==
    ASSUME TypeOK, LocalsSound, PlanKept, StepsSound, ClaimsSound, Next
    PROVE  /\ \A pc, say : Grounds(pc, say) => GroundsNext(pc, say)
           /\ \A e \in Director : Grounds(dir[e].pc, dir[e].say)
BY ClaimsStay DEF Grounds, GroundsNext, ClaimsSound, At

LEMMA GroundsTurn ==
    ASSUME TypeOK, LocalsSound, PlanKept, StepsSound, ClaimsSound, Next,
           NEW d \in Director, NEW pc, NEW waits, NEW runs, NEW say, NEW pkg,
           NEW mine, Turns(d, pc, waits, runs, say, pkg, mine),
           Grounds(pc, say)
    PROVE  \A e \in Director : GroundsNext(dir'[e].pc, dir'[e].say)
BY GroundsStay DEF Turns

LEMMA GroundsLeave ==
    ASSUME TypeOK, LocalsSound, PlanKept, StepsSound, ClaimsSound, Next,
           NEW d \in Director, NEW M, Leaves(d, M)
    PROVE  \A e \in Director : GroundsNext(dir'[e].pc, dir'[e].say)
<1> SUFFICES ASSUME NEW e \in Director
             PROVE  GroundsNext(dir'[e].pc, dir'[e].say)
  OBVIOUS
<1>1. CASE dir'[e] = Off
  BY <1>1, OffFields DEF GroundsNext
<1>2. CASE dir'[e] # Off
  <2>1. PICK x \in Director : Alike(dir'[e], dir[x])
    BY <1>2 DEF Leaves
  <2> QED
    BY <2>1, GroundsStay DEF Alike
<1> QED
  BY <1>1, <1>2

LEMMA GroundsStep ==
    ASSUME TypeOK, LocalsSound, PlanKept, StepsSound, ClaimsSound, Next
    PROVE  \A e \in Director : GroundsNext(dir'[e].pc, dir'[e].say)
<1> DEFINE Q == \A e \in Director : GroundsNext(dir'[e].pc, dir'[e].say)
<1>1. ASSUME NEW d \in Director, NEW pc \in {"look", "work", "verdict", "status",
                "read", "wire"},
             NEW waits, NEW runs, NEW say, NEW pkg, NEW mine,
             Turns(d, pc, waits, runs, say, pkg, mine)
      PROVE  Q
  <2>1. Grounds(pc, say)
    BY DEF Grounds
  <2> QED
    BY <1>1, <2>1, GroundsTurn
<1>2. ASSUME NEW d \in Director, OpenPiece(d) PROVE Q
  BY <1>1, <1>2, OpenPieceEffect DEF Ahead
<1>3. ASSUME NEW d \in Director, Look(d) PROVE Q
  BY <1>1, <1>3, LookEffect DEF Ahead
<1>4. ASSUME NEW d \in Director, Gate(d) PROVE Q
  <2>1. CASE Contradicted /\ Ahead(d, "cancel")
    <3>1. Grounds("cancel", dir[d].say)
      BY <2>1 DEF Grounds
    <3> QED
      BY <2>1, <3>1, GroundsTurn DEF Ahead
  <2>2. CASE Ahead(d, "look")
    BY <1>1, <2>2 DEF Ahead
  <2> QED
    BY <1>4, <2>1, <2>2, GateEffect
<1>5. ASSUME NEW d \in Director, CancelTasks(d) PROVE Q
  <2>1. At(d, "cancel") /\ Ahead(d, "flow")
    BY <1>5, CancelTasksEffect
  <2>2. Grounds("flow", dir[d].say)
    BY <2>1 DEF Grounds, ClaimsSound, At
  <2> QED
    BY <2>1, <2>2, GroundsTurn DEF Ahead
<1>6. ASSUME NEW d \in Director, CancelFlow(d) PROVE Q
  BY <1>1, <1>6, CancelFlowEffect DEF Ahead
<1>7. ASSUME NEW d \in Director, Verdict(d) PROVE Q
  BY <1>1, <1>7, VerdictEffect
<1>8. ASSUME NEW d \in Director, Status(d) PROVE Q
  <2>1. CASE dir[d].gated
    BY <1>1, <1>8, <2>1, StatusEffect DEF Ahead
  <2>2. CASE ~dir[d].gated
    BY <1>8, <2>2, StatusEffect, GroundsLeave
  <2> QED
    BY <2>1, <2>2
<1>9. ASSUME NEW d \in Director, Read(d) PROVE Q
  <2> DEFINE say == OutcomeOf(dir[d].attempt)
  <2>1. dir[d].attempt \in Nat
    BY DirType DEF DirRecord
  <2>2. say \in {"ready", "needs_you", "revise"} => Sound
    BY <2>1, ReadSound
  <2>3. say \in Closing \cup {"unknown", "ready", "needs_you", "revise"}
    BY <2>1, OutcomeType
  <2>4. /\ Turns(d, PointOf(say), dir[d].waits, dir[d].runs, say, last.script,
                    dir[d].mine)
        /\ PointOf(say) \in {"close", "script", "ask", "record"}
    BY <1>9, ReadEffect
  <2> HIDE DEF say
  <2>5. Grounds(PointOf(say), say)
    BY <2>2, <2>3 DEF Grounds, PointOf, Closing, Deskbound
  <2> QED
    BY <2>4, <2>5, GroundsTurn
<1>10. ASSUME NEW d \in Director, AskFlow(d) PROVE Q
  <2>1. Grounds("record", flow)
    BY DEF Grounds, Deskbound, TypeOK, Flows, Terminal
  <2> QED
    BY <1>10, <2>1, AskFlowEffect, GroundsTurn
<1>11. ASSUME NEW d \in Director, Close(d) PROVE Q
  <2>1. Ahead(d, "record") /\ dir[d].say \in Closing
    BY <1>11, CloseEffect DEF LocalsSound
  <2>2. Grounds("record", dir[d].say)
    BY <2>1 DEF Grounds, Deskbound, Closing
  <2> QED
    BY <2>1, <2>2, GroundsTurn DEF Ahead
<1>12. ASSUME NEW d \in Director, Record(d) PROVE Q
  BY <1>12, RecordEffect, GroundsLeave
<1>12L. ASSUME NEW d \in Director, RecordLost(d) PROVE Q
  BY <1>12L, RecordLostEffect, GroundsLeave
<1>13. ASSUME NEW d \in Director, AddScript(d) PROVE Q
  <2>1. At(d, "script")
    BY <1>13, AddScriptEffect
  <2>2. Grounds("review", dir[d].say)
    BY <2>1 DEF Grounds, ClaimsSound, At
  <2> QED
    BY <1>13, <2>2, AddScriptEffect, GroundsTurn
<1>14. ASSUME NEW d \in Director, AddReview(d) PROVE Q
  BY <1>1, <1>14, AddReviewEffect
<1>15. ASSUME NEW d \in Director, NEW gated, Begins(d, gated) PROVE Q
  BY <1>15, GroundsStay DEF Begins, GroundsNext
<1>16. ASSUME NEW d \in Director, Wire(d) PROVE Q
  BY <1>15, <1>16, WireEffect
<1>17. ASSUME NEW d \in Director, NEW s \in dir[d].waits, Claim(d, s) PROVE Q
  BY <1>1, <1>17, ClaimEffect
<1>18. ASSUME NEW d \in Director, NEW r \in dir[d].runs,
              Complete(d, r) \/ Fail(d, r)
       PROVE  Q
  BY <1>1, <1>18, CompleteEffect, FailEffect
<1>19. ASSUME NEW d \in Director \ Live, Resume(d) PROVE Q
  BY <1>15, <1>19, ResumeEffect
<1>20. ASSUME Crash PROVE Q
  BY <1>20, CrashEffect, OffFields DEF GroundsNext
<1>21. ASSUME dir' = dir PROVE Q
  BY <1>21, GroundsStay
<1>22. ASSUME Abandon PROVE Q
  BY <1>21, <1>22 DEF Abandon
<1>25. ASSUME NEW s \in DOMAIN rows, Recover(s) PROVE Q
  BY <1>21, <1>25 DEF Recover, Rest
<1>26. ASSUME NEW answer \in {"approved", "discarded"}, Decide(answer) PROVE Q
  BY <1>21, <1>26 DEF Decide
<1> HIDE DEF Q
<1>24. ASSUME NEW d \in Director, Advance(d) PROVE Q
  BY <1>2, <1>3, <1>4, <1>5, <1>6, <1>7, <1>8, <1>9, <1>10, <1>11, <1>12, <1>12L,
     <1>13, <1>14, <1>16, <1>17, <1>18, <1>24 DEF Advance
<1>23. Q
  BY <1>19, <1>20, <1>22, <1>24, <1>25, <1>26 DEF Next
<1> QED
  BY <1>23 DEF Q

\* Steps that leave the record of the piece as it is.
LEMMA PieceSteps ==
    ASSUME Next
    PROVE  \/ piece' = piece
           \/ \E d \in Director : OpenPiece(d) \/ Record(d)
           \/ Abandon
           \/ \E answer \in {"approved", "discarded"} : Decide(answer)
<1>1. ASSUME NEW d \in Director, Advance(d)
      PROVE  piece' = piece \/ OpenPiece(d) \/ Record(d)
  BY <1>1 DEF Advance, Look, Gate, CancelTasks, CancelFlow, Verdict, Status,
     Read, AskFlow, Close, RecordLost, AddScript, AddReview, Wire, Claim,
     Complete, Fail
<1> QED
  BY <1>1 DEF Next, Resume, Crash, Recover

\* Only what rests on sound claims is shown to the owner.
LEMMA ShownStep ==
    ASSUME TypeOK, LocalsSound, PlanKept, StepsSound, ClaimsSound, Next,
           piece'.state \in Deskbound
    PROVE  Sound'
<1>1. CASE piece' = piece
  BY <1>1, ClaimsStay DEF ClaimsSound
<1>2. ASSUME NEW d \in Director, OpenPiece(d) PROVE Sound'
  BY <1>2, OpenPieceEffect DEF Deskbound
<1>3. ASSUME NEW d \in Director, Record(d) PROVE Sound'
  BY <1>3, RecordEffect, ClaimsStay DEF ClaimsSound
<1>4. CASE Abandon
  BY <1>1, <1>4, AbandonEffect DEF Deskbound
<1>5. ASSUME NEW answer \in {"approved", "discarded"}, Decide(answer)
      PROVE  Sound'
  BY <1>5, DecideEffect, ClaimsStay DEF ClaimsSound, Deskbound
<1> QED
  BY <1>1, <1>2, <1>3, <1>4, <1>5, PieceSteps

\* The rows grow by revisions only.
LEMMA SameLength ==
    ASSUME TypeOK, LocalsSound, Next, ~\E d \in Director : AddScript(d) \/ AddReview(d)
    PROVE  Len(rows') = Len(rows)
<1>1. CASE RowsAside
  BY <1>1 DEF RowsAside
<1>2. ASSUME NEW d \in Director, CancelTasks(d) \/ Wire(d)
      PROVE  Len(rows') = Len(rows)
  BY <1>2, CancelTasksEffect, WireEffect DEF SameSteps
<1>3. ASSUME NEW d \in Director, NEW s \in dir[d].waits, Claim(d, s)
      PROVE  Len(rows') = Len(rows)
  BY <1>3, ClaimEffect DEF Rewrites
<1>4. ASSUME NEW d \in Director, NEW r \in dir[d].runs,
             Complete(d, r) \/ Fail(d, r)
      PROVE  Len(rows') = Len(rows)
  BY <1>4, CompleteEffect, FailEffect DEF Rewrites
<1>5. ASSUME NEW s \in DOMAIN rows, Recover(s) PROVE Len(rows') = Len(rows)
  BY <1>5, RecoverEffect DEF Rewrites
<1> QED
  BY <1>1, <1>2, <1>3, <1>4, <1>5, RowSteps

\* A revision is begun on sound claims only.
LEMMA LongerStep ==
    ASSUME TypeOK, LocalsSound, PlanKept, StepsSound, ClaimsSound, Next,
           Len(rows') > 5
    PROVE  Sound'
<1>1. CASE Len(rows) > 5
  BY <1>1, ClaimsStay DEF ClaimsSound
<1>2. ASSUME NEW d \in Director, AddScript(d) \/ AddReview(d) PROVE Sound'
  <2>1. At(d, "script") \/ At(d, "review")
    BY <1>2 DEF AddScript, AddReview
  <2> QED
    BY <2>1, ClaimsStay DEF ClaimsSound, At
<1>3. ASSUME ~\E d \in Director : AddScript(d) \/ AddReview(d)
      PROVE  Len(rows') = Len(rows)
  BY <1>3, SameLength
<1> QED
  BY <1>1, <1>2, <1>3

LEMMA ClaimsStep ==
    ASSUME TypeOK, LocalsSound, PlanKept, StepsSound, ClaimsSound, Next
    PROVE  ClaimsSound'
BY VerifiedStep, ReviewedStep, GroundsStep, ShownStep, LongerStep
   DEF ClaimsSound, GroundsNext, At

-----------------------------------------------------------------------------
(* Directors meet only where past says so *)

LEMMA PastGrows ==
    ASSUME TypeOK, LocalsSound, Next
    PROVE  /\ past.raced => past'.raced
           /\ past.died => past'.died
           /\ past.cut => past'.cut
           /\ past.stale => past'.stale
           /\ past.unsaid => past'.unsaid
<1> DEFINE Q == /\ past.raced => past'.raced
                /\ past.died => past'.died
                /\ past.cut => past'.cut
                /\ past.stale => past'.stale
                /\ past.unsaid => past'.unsaid
<1>1. ASSUME NEW d \in Director, Advance(d) PROVE Q
  <2>1. past' = past \/ Record(d) \/ RecordLost(d)
    BY <1>1 DEF Advance, OpenPiece, Look, Gate, CancelTasks, CancelFlow,
       Verdict, Status, Read, AskFlow, Close, AddScript, AddReview, Wire,
       Claim, Complete, Fail, Rest
  <2>2. CASE Record(d)
    BY <2>2, RecordEffect, RecordPast
  <2>3. CASE RecordLost(d)
    BY <2>3, RecordLostEffect
  <2> QED
    BY <2>1, <2>2, <2>3
<1>2. ASSUME NEW d \in Director \ Live, Resume(d) PROVE Q
  BY <1>2, ResumeEffect, ResumePast
<1>3. ASSUME Crash PROVE Q
  BY <1>3, CrashEffect
<1>4. ASSUME Abandon PROVE Q
  BY <1>4, AbandonEffect
<1>5. ASSUME NEW s \in DOMAIN rows, Recover(s) PROVE Q
  BY <1>5 DEF Recover, Rest
<1>6. ASSUME NEW answer \in {"approved", "discarded"}, Decide(answer) PROVE Q
  BY <1>6, DecideEffect
<1> QED
  BY <1>1, <1>2, <1>3, <1>4, <1>5, <1>6 DEF Next

\* No director appears, and no one opens the gate for it.
LEMMA DirsFrame ==
    ASSUME TypeOK, DirectorsSound,
           past.raced => past'.raced, past.died => past'.died,
           past.cut => past'.cut,
           \A e \in Director : dir'[e].pc # "off" =>
              /\ dir[e].pc # "off"
              /\ dir'[e].gated = dir[e].gated \/ dir'[e].gated,
           piece'.state = "none" =>
              /\ piece.state = "none"
              /\ \A e \in Director : dir[e].pc = "open" => dir'[e].pc = "open"
    PROVE  DirectorsSound'
BY DEF DirectorsSound, Live, At

LEMMA DirsTurn ==
    ASSUME TypeOK, DirectorsSound,
           past.raced => past'.raced, past.died => past'.died,
           past.cut => past'.cut,
           NEW d \in Director, dir[d].pc \notin {"off", "open"},
           NEW pc, NEW waits, NEW runs, NEW say, NEW pkg, NEW mine,
           Turns(d, pc, waits, runs, say, pkg, mine), piece' = piece
    PROVE  DirectorsSound'
BY DirsFrame DEF Turns

LEMMA DirsLeave ==
    ASSUME TypeOK, DirectorsSound,
           past.raced => past'.raced, past.died => past'.died,
           past.cut => past'.cut,
           NEW d \in Director, dir[d].pc \notin {"off", "open"},
           NEW M, Leaves(d, M),
           piece'.state = "none" => piece.state = "none"
    PROVE  DirectorsSound'
<1>1. ASSUME NEW e \in Director, dir'[e].pc # "off"
      PROVE  /\ OldOf(d, e) \in Director /\ dir[OldOf(d, e)].pc # "off"
             /\ dir'[e].gated = dir[OldOf(d, e)].gated
  BY <1>1, OffFields DEF Leaves, Alike
<1>2. ~past'.raced => \A e, f \in Live' : e = f
  <2> SUFFICES ASSUME ~past'.raced, NEW e \in Director, NEW f \in Director,
                      dir'[e].pc # "off", dir'[f].pc # "off"
               PROVE  e = f
    BY DEF Live
  <2>1. OldOf(d, e) = OldOf(d, f)
    BY <1>1 DEF DirectorsSound, Live
  <2> QED
    BY <2>1, OldOfIsOne
<1>3. ASSUME NEW x \in Director, dir[x].pc = "open"
      PROVE  \E e \in Director : dir'[e].pc = "open"
  BY <1>3 DEF Leaves, Alike
<1>4. ~past'.cut \/ (~past'.raced /\ ~past'.died) =>
          /\ \A e \in Director : dir'[e].pc # "off" => dir'[e].gated
          /\ piece'.state = "none" => \E e \in Director : dir'[e].pc = "open"
  BY <1>1, <1>3 DEF DirectorsSound, Live, At
<1> QED
  BY <1>2, <1>4 DEF DirectorsSound, Live, At

LEMMA DirectorsStep ==
    ASSUME TypeOK, LocalsSound, PlanKept, DirectorsSound, Next
    PROVE  DirectorsSound'
<1>0. /\ past.raced => past'.raced
      /\ past.died => past'.died
      /\ past.cut => past'.cut
  BY PastGrows
<1>1. ASSUME NEW d \in Director, OpenPiece(d) PROVE DirectorsSound'
  <2>1. /\ dir[d].pc = "open" /\ piece'.state = "producing"
        /\ dir'[d].gated = dir[d].gated
        /\ \A e \in Director : e # d => dir'[e] = dir[e]
    BY <1>1, OpenPieceEffect DEF Ahead, Turns, At
  <2> QED
    BY <1>0, <2>1, DirsFrame
<1>2. ASSUME NEW d \in Director, Look(d) PROVE DirectorsSound'
  BY <1>0, <1>2, LookEffect, DirsTurn DEF Ahead, At
<1>3. ASSUME NEW d \in Director, Gate(d) PROVE DirectorsSound'
  BY <1>0, <1>3, GateEffect, DirsTurn DEF Ahead, At, Waved
<1>4. ASSUME NEW d \in Director, CancelTasks(d) PROVE DirectorsSound'
  BY <1>0, <1>4, CancelTasksEffect, DirsTurn DEF Ahead, At
<1>5. ASSUME NEW d \in Director, CancelFlow(d) PROVE DirectorsSound'
  BY <1>0, <1>5, CancelFlowEffect, DirsTurn DEF Ahead, At
<1>6. ASSUME NEW d \in Director, Verdict(d) PROVE DirectorsSound'
  BY <1>0, <1>6, VerdictEffect, DirsTurn DEF At
<1>7. ASSUME NEW d \in Director, Status(d) PROVE DirectorsSound'
  <2>1. CASE dir[d].gated
    BY <1>0, <1>7, <2>1, StatusEffect, DirsTurn DEF Ahead, At
  <2>2. CASE ~dir[d].gated
    BY <1>0, <1>7, <2>2, StatusEffect, DirsLeave DEF At
  <2> QED
    BY <2>1, <2>2
<1>8. ASSUME NEW d \in Director, Read(d) PROVE DirectorsSound'
  <2> DEFINE say == OutcomeOf(dir[d].attempt)
  <2>1. /\ dir[d].pc = "read" /\ piece' = piece
        /\ Turns(d, PointOf(say), dir[d].waits, dir[d].runs, say, last.script,
                    dir[d].mine)
    BY <1>8, ReadEffect DEF At
  <2> HIDE DEF say
  <2> QED
    BY <1>0, <2>1, DirsTurn
<1>9. ASSUME NEW d \in Director, AskFlow(d) PROVE DirectorsSound'
  BY <1>0, <1>9, AskFlowEffect, DirsTurn DEF At
<1>10. ASSUME NEW d \in Director, Close(d) PROVE DirectorsSound'
  BY <1>0, <1>10, CloseEffect, DirsTurn DEF Ahead, At
<1>11. ASSUME NEW d \in Director, Record(d) PROVE DirectorsSound'
  <2>1. /\ dir[d].pc = "record" /\ Leaves(d, HasRead)
        /\ piece'.state # "none"
    BY <1>11, RecordEffect DEF At, Recorded, Closing, Flows, Terminal
  <2> QED
    BY <1>0, <2>1, DirsLeave
<1>11L. ASSUME NEW d \in Director, RecordLost(d) PROVE DirectorsSound'
  <2>1. dir[d].pc = "record" /\ Leaves(d, {}) /\ piece' = piece
    BY <1>11L, RecordLostEffect DEF At
  <2> QED
    BY <1>0, <2>1, DirsLeave
<1>12. ASSUME NEW d \in Director, AddScript(d) PROVE DirectorsSound'
  BY <1>0, <1>12, AddScriptEffect, DirsTurn DEF At
<1>13. ASSUME NEW d \in Director, AddReview(d) PROVE DirectorsSound'
  BY <1>0, <1>13, AddReviewEffect, DirsTurn DEF At
<1>14. ASSUME NEW d \in Director, Wire(d) PROVE DirectorsSound'
  <2>1. dir[d].pc = "wire" /\ piece' = piece /\ Begins(d, TRUE)
    BY <1>14, WireEffect DEF At
  <2> QED
    BY <1>0, <2>1, DirsFrame DEF Begins
<1>15. ASSUME NEW d \in Director, NEW s \in dir[d].waits, Claim(d, s)
       PROVE  DirectorsSound'
  <2>1. dir[d].pc = "work" /\ piece' = piece
    BY <1>15, ClaimEffect DEF At
  <2>2. \/ Turns(d, "work", dir[d].waits \ {s},
                 dir[d].runs \cup {[step |-> s, of |-> rows[s].after]},
                 dir[d].say, dir[d].pkg, dir[d].mine)
        \/ Turns(d, "work", dir[d].waits \ {s}, dir[d].runs, dir[d].say,
                 dir[d].pkg, dir[d].mine)
    BY <1>15, ClaimEffect
  <2> QED
    BY <1>0, <2>1, <2>2, DirsTurn
<1>16. ASSUME NEW d \in Director, NEW r \in dir[d].runs,
              Complete(d, r) \/ Fail(d, r)
       PROVE  DirectorsSound'
  <2>1. CASE Complete(d, r)
    BY <1>0, <2>1, CompleteEffect, DirsTurn DEF At
  <2>2. CASE Fail(d, r)
    BY <1>0, <2>2, FailEffect, DirsTurn DEF At
  <2> QED
    BY <1>16, <2>1, <2>2
<1>17. ASSUME NEW d \in Director \ Live, Resume(d) PROVE DirectorsSound'
  <2>1. /\ piece' = piece /\ At(d, "off") /\ Begins(d, piece.state # "none")
        /\ past'.raced <=> (past.raced \/ Live # {})
        /\ past'.cut <=> (past.cut \/ piece.state = "none")
        /\ past'.died = past.died
    BY <1>17, ResumeEffect, ResumePast
  <2>2. ~past'.raced => \A e, f \in Live' : e = f
    BY <2>1 DEF Begins, Live
  <2>3. ASSUME ~past'.cut \/ (~past'.raced /\ ~past'.died)
        PROVE  /\ piece.state # "none"
               /\ \A e \in Director : dir'[e].pc # "off" => dir'[e].gated
    <3>1. piece.state # "none"
      BY <2>1, <2>3 DEF DirectorsSound, Live, At
    <3> QED
      BY <2>1, <2>3, <3>1, <1>0 DEF DirectorsSound, Live, Begins
  <2> QED
    BY <2>1, <2>2, <2>3 DEF DirectorsSound, Live
<1>18. CASE Crash
  BY <1>18, CrashEffect, OffFields DEF DirectorsSound, Live
<1>19. CASE Abandon
  BY <1>0, <1>19, AbandonEffect, DirsFrame
<1>20. ASSUME NEW s \in DOMAIN rows, Recover(s) PROVE DirectorsSound'
  BY <1>0, <1>20, RecoverEffect, DirsFrame
<1>21. ASSUME NEW answer \in {"approved", "discarded"}, Decide(answer)
       PROVE  DirectorsSound'
  BY <1>0, <1>21, DecideEffect, DirsFrame
<1>22. ASSUME NEW d \in Director, Advance(d) PROVE DirectorsSound'
  BY <1>1, <1>2, <1>3, <1>4, <1>5, <1>6, <1>7, <1>8, <1>9, <1>10, <1>11, <1>11L,
     <1>12, <1>13, <1>14, <1>15, <1>16, <1>22 DEF Advance
<1> QED
  BY <1>17, <1>18, <1>19, <1>20, <1>21, <1>22 DEF Next

-----------------------------------------------------------------------------
(* The gate *)

\* Nobody runs the step or is about to.
Untouched(s) ==
    \A d \in Director : /\ At(d, "work") => s \notin dir[d].waits
                        /\ \A r \in dir[d].runs : r.step # s

UntouchedNext(s) ==
    \A d \in Director : /\ dir'[d].pc = "work" => s \notin dir'[d].waits
                        /\ \A r \in dir'[d].runs : r.step # s

LEMMA StoppedNext ==
    ASSUME NEW s, UntouchedNext(s),
           \/ rows'[s].status = "cancelled"
           \/ /\ rows'[s].status = "blocked"
              /\ \E d \in Director : dir'[d].pc \in {"work", "cancel"}
    PROVE  Stopped(s)'
BY DEF UntouchedNext, Stopped, At

LEMMA UntouchedTurn ==
    ASSUME NEW s, Untouched(s), NEW d \in Director, NEW pc, NEW waits,
           NEW runs, NEW say, NEW pkg, NEW mine,
           Turns(d, pc, waits, runs, say, pkg, mine),
           pc = "work" => s \notin waits,
           \A r \in runs : r.step # s
    PROVE  UntouchedNext(s)
BY DEF Untouched, UntouchedNext, Turns, At

LEMMA UntouchedLeave ==
    ASSUME NEW s, Untouched(s), NEW d \in Director, NEW M, Leaves(d, M)
    PROVE  UntouchedNext(s)
<1> SUFFICES ASSUME NEW e \in Director
             PROVE  /\ dir'[e].pc = "work" => s \notin dir'[e].waits
                    /\ \A r \in dir'[e].runs : r.step # s
  BY DEF UntouchedNext
<1>1. CASE dir'[e] = Off
  BY <1>1, OffFields
<1>2. ASSUME NEW x \in Director, Alike(dir'[e], dir[x])
      PROVE  /\ dir'[e].pc = "work" => s \notin dir'[e].waits
             /\ \A r \in dir'[e].runs : r.step # s
  BY <1>2 DEF Untouched, Alike, At
<1> QED
  BY <1>1, <1>2 DEF Leaves

\* What is stopped stays so while one director is at work, and asks.
LEMMA StoppedStep ==
    ASSUME TypeOK, LocalsSound, PlanKept, DirectorsSound, Contradicted, Next,
           NEW s \in 3..5, Stopped(s), ~past'.raced, ~past'.died
    PROVE  Stopped(s)'
<1> USE RowsType
<1>0. /\ Untouched(s) /\ s \in DOMAIN rows /\ s \in 1..5
      /\ \A d, e \in Live : d = e
      /\ \A d \in Live : dir[d].gated
      /\ rows[s].status \in {"blocked", "cancelled"}
  BY PastGrows DEF Stopped, Untouched, DirectorsSound
<1>1. ASSUME NEW d \in Director, dir[d].pc \notin {"off", "work", "cancel"}
      PROVE  rows[s].status = "cancelled"
  BY <1>0, <1>1 DEF Stopped, Live
<1>2. ASSUME NEW d \in Director, dir[d].pc \notin {"off", "work", "cancel"},
             rows'[s] = rows[s],
             NEW pc, NEW waits, NEW say, NEW pkg, NEW mine,
             Turns(d, pc, waits, dir[d].runs, say, pkg, mine),
             pc = "work" => s \notin waits
      PROVE  Stopped(s)'
  <2>1. \A r \in dir[d].runs : r.step # s
    BY <1>0 DEF Untouched
  <2>2. UntouchedNext(s)
    BY <1>0, <1>2, <2>1, UntouchedTurn
  <2> QED
    BY <1>1, <1>2, <2>2, StoppedNext
<1>3. ASSUME NEW d \in Director, dir[d].pc \notin {"off", "work", "cancel"},
             rows'[s] = rows[s], NEW M, Leaves(d, M)
      PROVE  Stopped(s)'
  <2>1. UntouchedNext(s)
    BY <1>0, <1>3, UntouchedLeave
  <2> QED
    BY <1>1, <1>3, <2>1, StoppedNext
<1>4. ASSUME NEW d \in Director, dir[d].pc \in {"work", "cancel"},
             rows'[s] = rows[s], NEW pc \in {"work", "cancel"}, NEW waits,
             NEW runs, NEW say, NEW pkg, NEW mine,
             Turns(d, pc, waits, runs, say, pkg, mine),
             pc = "work" => s \notin waits,
             \A r \in runs : r.step # s
      PROVE  Stopped(s)'
  <2>1. UntouchedNext(s)
    BY <1>0, <1>4, UntouchedTurn
  <2>2. dir'[d].pc \in {"work", "cancel"}
    BY <1>4 DEF Turns
  <2> QED
    BY <1>0, <1>4, <2>1, <2>2, StoppedNext
<1>5. ASSUME rows'[s] = rows[s], dir' = dir PROVE Stopped(s)'
  BY <1>5 DEF Stopped, At
<1>6. ASSUME NEW d \in Director, dir[d].pc \notin {"off", "work", "cancel"},
             rows' = rows, NEW pc, pc # "work", Ahead(d, pc)
      PROVE  Stopped(s)'
  <2>1. rows'[s] = rows[s]
    BY <1>6
  <2>2. Turns(d, pc, dir[d].waits, dir[d].runs, dir[d].say, dir[d].pkg,
              dir[d].mine)
    BY <1>6 DEF Ahead
  <2> QED
    BY <1>2, <1>6, <2>1, <2>2
<1>11. ASSUME NEW d \in Director, OpenPiece(d) PROVE Stopped(s)'
  BY <1>6, <1>11, OpenPieceEffect DEF At
<1>12. ASSUME NEW d \in Director, Look(d) PROVE Stopped(s)'
  <2>1. dir[d].pc = "look" /\ rows' = rows
    BY <1>12, LookEffect DEF At
  <2>2. s \notin Runnable
    BY <1>1, <2>1 DEF Runnable, Open
  <2>3. CASE Ahead(d, "verdict")
    BY <1>6, <2>1, <2>3
  <2>4. CASE Turns(d, "work", Runnable, dir[d].runs, dir[d].say, dir[d].pkg,
                   dir[d].mine)
    BY <1>2, <2>1, <2>2, <2>4
  <2> QED
    BY <1>12, <2>3, <2>4, LookEffect
<1>13. ASSUME NEW d \in Director, Gate(d) PROVE Stopped(s)'
  <2>1. dir[d].pc = "work" /\ rows' = rows /\ dir[d].runs = {}
    BY <1>13, GateEffect DEF Waved, At
  <2>2. dir[d].gated
    BY <1>0, <2>1 DEF Live
  <2>3. Ahead(d, "cancel")
    BY <1>13, <2>2, GateEffect
  <2> QED
    BY <1>4, <2>1, <2>3 DEF Ahead
<1>14. ASSUME NEW d \in Director, CancelTasks(d) PROVE Stopped(s)'
  <2>1. /\ dir[d].pc = "cancel" /\ Ahead(d, "flow")
        /\ rows'[s].status = "cancelled"
    BY <1>0, <1>14, CancelTasksEffect DEF At
  <2>2. \A r \in dir[d].runs : r.step # s
    BY <1>0 DEF Untouched
  <2>3. UntouchedNext(s)
    BY <1>0, <2>1, <2>2, UntouchedTurn DEF Ahead
  <2> QED
    BY <2>1, <2>3, StoppedNext
<1>15. ASSUME NEW d \in Director, CancelFlow(d) PROVE Stopped(s)'
  BY <1>6, <1>15, CancelFlowEffect DEF At
<1>16. ASSUME NEW d \in Director, Verdict(d) PROVE Stopped(s)'
  BY <1>2, <1>16, VerdictEffect DEF At
<1>17. ASSUME NEW d \in Director, Status(d) PROVE Stopped(s)'
  <2>1. dir[d].pc = "status" /\ rows' = rows
    BY <1>17, StatusEffect DEF At
  <2>2. dir[d].gated
    BY <1>0, <2>1 DEF Live
  <2>3. Ahead(d, "read")
    BY <1>17, <2>2, StatusEffect
  <2> QED
    BY <1>6, <2>1, <2>3
<1>18. ASSUME NEW d \in Director, Read(d) PROVE Stopped(s)'
  <2> DEFINE say == OutcomeOf(dir[d].attempt)
  <2>1. /\ dir[d].pc = "read" /\ rows' = rows
        /\ Turns(d, PointOf(say), dir[d].waits, dir[d].runs, say, last.script,
                    dir[d].mine)
        /\ PointOf(say) \in {"close", "script", "ask", "record"}
    BY <1>18, ReadEffect DEF At
  <2> HIDE DEF say
  <2> QED
    BY <1>2, <2>1
<1>19. ASSUME NEW d \in Director, AskFlow(d) PROVE Stopped(s)'
  BY <1>2, <1>19, AskFlowEffect DEF At
<1>20. ASSUME NEW d \in Director, Close(d) PROVE Stopped(s)'
  BY <1>6, <1>20, CloseEffect DEF At
<1>21. ASSUME NEW d \in Director, Record(d) PROVE Stopped(s)'
  BY <1>3, <1>21, RecordEffect DEF At
<1>21L. ASSUME NEW d \in Director, RecordLost(d) PROVE Stopped(s)'
  BY <1>3, <1>21L, RecordLostEffect DEF At
<1>22. ASSUME NEW d \in Director, AddScript(d) PROVE Stopped(s)'
  BY <1>0, <1>2, <1>22, AddScriptEffect DEF At, Adds
<1>23. ASSUME NEW d \in Director, AddReview(d) PROVE Stopped(s)'
  BY <1>0, <1>2, <1>23, AddReviewEffect DEF At, Adds
<1>24. ASSUME NEW d \in Director, Wire(d) PROVE Stopped(s)'
  <2>1. dir[d].pc = "wire" /\ Begins(d, TRUE)
    BY <1>24, WireEffect DEF At
  <2>2. s \notin dir[d].waits
    BY <2>1 DEF LocalsSound, At
  <2>3. rows'[s] = rows[s]
    BY <1>0, <1>24, <2>2, WireEffect
  <2>4. UntouchedNext(s)
    BY <1>0, <2>1 DEF Untouched, UntouchedNext, Begins, At
  <2> QED
    BY <1>1, <2>1, <2>3, <2>4, StoppedNext
<1>25. ASSUME NEW d \in Director, NEW t \in dir[d].waits, Claim(d, t)
       PROVE  Stopped(s)'
  <2>1. /\ dir[d].pc = "work" /\ t # s
        /\ \A r \in dir[d].runs : r.step # s
        /\ s \notin dir[d].waits \ {t}
    BY <1>0, <1>25, ClaimEffect DEF Untouched, At
  <2>2. CASE /\ Rewrites(t, "running")
             /\ Turns(d, "work", dir[d].waits \ {t},
                      dir[d].runs \cup {[step |-> t, of |-> rows[t].after]},
                      dir[d].say, dir[d].pkg, dir[d].mine)
    <3>1. rows'[s] = rows[s]
      BY <1>0, <2>1, <2>2 DEF Rewrites
    <3> DEFINE runs == dir[d].runs \cup {[step |-> t, of |-> rows[t].after]}
    <3>2. \A r \in runs : r.step # s
      BY <2>1
    <3> HIDE DEF runs
    <3>3. Turns(d, "work", dir[d].waits \ {t}, runs,
                dir[d].say, dir[d].pkg, dir[d].mine)
      BY <2>2 DEF runs
    <3> QED
      BY <1>4, <2>1, <3>1, <3>2, <3>3
  <2>3. CASE /\ rows' = rows
             /\ Turns(d, "work", dir[d].waits \ {t}, dir[d].runs,
                      dir[d].say, dir[d].pkg, dir[d].mine)
    BY <1>4, <2>1, <2>3
  <2> QED
    BY <1>25, <2>2, <2>3, ClaimEffect
<1>26. ASSUME NEW d \in Director, NEW r \in dir[d].runs, NEW status,
              Rewrites(r.step, status), At(d, "work"),
              Turns(d, "work", dir[d].waits, dir[d].runs \ {r}, dir[d].say,
                    dir[d].pkg, dir[d].mine)
       PROVE  Stopped(s)'
  <2>1. /\ dir[d].pc = "work" /\ r.step # s
        /\ \A q \in dir[d].runs \ {r} : q.step # s
        /\ s \notin dir[d].waits
    BY <1>0, <1>26 DEF Untouched, At
  <2>2. rows'[s] = rows[s]
    BY <1>0, <1>26, <2>1 DEF Rewrites
  <2> QED
    BY <1>4, <1>26, <2>1, <2>2
<1>27. ASSUME NEW d \in Director, NEW r \in dir[d].runs,
              Complete(d, r) \/ Fail(d, r)
       PROVE  Stopped(s)'
  BY <1>26, <1>27, CompleteEffect, FailEffect
<1>28. ASSUME NEW d \in Director \ Live, Resume(d) PROVE Stopped(s)'
  <2>1. /\ rows' = rows /\ Begins(d, piece.state # "none")
        /\ past'.raced <=> (past.raced \/ Live # {})
    BY <1>28, ResumeEffect, ResumePast
  <2>2. rows[s].status = "cancelled"
    BY <2>1 DEF Stopped, Live
  <2>3. UntouchedNext(s)
    BY <1>0, <2>1 DEF Untouched, UntouchedNext, Begins, At
  <2> QED
    BY <2>1, <2>2, <2>3, StoppedNext
<1>29. CASE Crash
  BY <1>29, CrashEffect
<1>30. CASE Abandon
  BY <1>5, <1>30, AbandonEffect
<1>31. ASSUME NEW t \in DOMAIN rows, Recover(t) PROVE Stopped(s)'
  BY <1>0, <1>5, <1>31, RecoverEffect DEF Rewrites
<1>32. ASSUME NEW answer \in {"approved", "discarded"}, Decide(answer)
       PROVE  Stopped(s)'
  BY <1>5, <1>32, DecideEffect
<1>33. ASSUME NEW d \in Director, Advance(d) PROVE Stopped(s)'
  BY <1>11, <1>12, <1>13, <1>14, <1>15, <1>16, <1>17, <1>18, <1>19, <1>20,
     <1>21, <1>21L, <1>22, <1>23, <1>24, <1>25, <1>27, <1>33 DEF Advance
<1> QED
  BY <1>28, <1>29, <1>30, <1>31, <1>32, <1>33 DEF Next

LEMMA GateStep ==
    ASSUME TypeOK, LocalsSound, PlanKept, StepsSound, DirectorsSound,
           GateSound, Next
    PROVE  GateSound'
<1> USE RowsType
<1> SUFFICES ASSUME Contradicted', ~past'.raced, ~past'.died, NEW s \in 3..5
             PROVE  Stopped(s)'
  BY DEF GateSound
<1>0. ~past.raced /\ ~past.died
  BY PastGrows
<1>1. CASE Contradicted
  BY <1>0, <1>1, StoppedStep DEF GateSound
<1>2. CASE ~Contradicted
  <2>1. rows'[2].status = "completed" /\ rows'[2].says = "contradicted"
    BY TypeStep, PlanStep, VerifyRowNext DEF Done
  <2>2. ~Done(2)
    BY <1>2, <2>1, ClaimsStay, VerifyRow
  <2>3. 2 \in DOMAIN rows /\ s \in DOMAIN rows
    OBVIOUS
  <2>4. PICK d \in Director :
           \E r \in dir[d].runs : Complete(d, r) /\ r.step = 2
    BY <2>1, <2>2, <2>3, DoneBy
  <2>5. PICK r \in dir[d].runs : Complete(d, r) /\ r.step = 2
    BY <2>4
  <2>6. ~Begun(s)
    BY <2>2, ChainBack
  <2>7. Untouched(s) /\ rows[s].status \in {"blocked", "cancelled"}
    BY <2>6 DEF Begun, Untouched
  <2>8. /\ At(d, "work") /\ Rewrites(r.step, "completed")
        /\ Turns(d, "work", dir[d].waits, dir[d].runs \ {r}, dir[d].say,
                 dir[d].pkg, dir[d].mine)
    BY <2>5, CompleteEffect
  <2>9. rows'[s] = rows[s]
    BY <2>3, <2>5, <2>8 DEF Rewrites
  <2>10. UntouchedNext(s)
    BY <2>7, <2>8, UntouchedTurn DEF Untouched
  <2>11. dir'[d].pc = "work"
    BY <2>8 DEF Turns
  <2> QED
    BY <2>7, <2>9, <2>10, <2>11, StoppedNext
<1> QED
  BY <1>1, <1>2

-----------------------------------------------------------------------------
(* The end of a piece *)

\* A director that goes on, but not to a record of nothing.
LEMMA PendingTurn ==
    ASSUME NEW d \in Director, dir'[d].pc # "off",
           dir'[d].pc = "record" => dir'[d].say \notin Unsettled
    PROVE  Outlook'
BY DEF Outlook, Pending, At

LEMMA OutlookRecord ==
    ASSUME TypeOK, LocalsSound, Outlook, NEW d \in Director, Record(d)
    PROVE  Outlook'
<1> SUFFICES ASSUME ~past'.cut, ~past'.stale, ~past'.unsaid, flow' \in Terminal
             PROVE  \/ \E e \in Director : Pending(e)'
                    \/ /\ piece'.state \notin Unsettled
                       /\ \A e \in Director :
                             dir'[e].pc = "record" /\ dir'[e].say \in Unsettled
                             => dir'[e].stale
  BY DEF Outlook, At
<1>1. /\ dir[d].pc = "record" /\ flow' = flow
      /\ piece'.state = dir[d].say /\ Leaves(d, HasRead)
      /\ past' = [past EXCEPT !.stale = @ \/ dir[d].stale]
  BY RecordEffect DEF At
<1>2. ~past.cut /\ ~past.stale /\ ~past.unsaid /\ ~dir[d].stale
  BY <1>1, RecordPast
<1>3. CASE \E x \in Director : x # d /\ Pending(x)
  <2>1. PICK x \in Director : x # d /\ Pending(x)
    BY <1>3
  <2>2. PICK e \in Director : Alike(dir'[e], dir[x])
    BY <1>1, <2>1 DEF Leaves
  <2>3. Pending(e)'
    BY <2>1, <2>2 DEF Pending, At, Alike
  <2> QED
    BY <2>3
<1>4. CASE ~\E x \in Director : x # d /\ Pending(x)
  <2>1. dir[d].say \notin Unsettled
    BY <1>1, <1>2, <1>4 DEF Outlook, Pending, At
  <2>2. ASSUME NEW e \in Director, dir'[e].pc = "record"
        PROVE  dir'[e].stale
    <3>1. dir'[e] # Off
      BY <2>2, OffFields
    <3>2. PICK x \in Director : /\ Alike(dir'[e], dir[x])
                                /\ dir'[e].stale <=> (dir[x].stale \/ x \in HasRead)
      BY <1>1, <3>1 DEF Leaves
    <3>3. x \in HasRead
      BY <2>2, <3>2 DEF HasRead, Alike
    <3> QED
      BY <3>2, <3>3
  <2> QED
    BY <1>1, <2>1, <2>2
<1> QED
  BY <1>3, <1>4

LEMMA OutlookStep ==
    ASSUME TypeOK, LocalsSound, PlanKept, DirectorsSound, Outlook, Next
    PROVE  Outlook'
<1> SUFFICES ASSUME ~past'.cut, ~past'.stale, ~past'.unsaid, flow' \in Terminal
             PROVE  Outlook'
  BY DEF Outlook
<1>0. ~past.cut /\ ~past.stale /\ ~past.unsaid
  BY PastGrows
<1>1. ASSUME NEW d \in Director, NEW pc, pc \notin {"off", "record"}, Ahead(d, pc)
      PROVE  Outlook'
  BY <1>1, PendingTurn DEF Ahead, Turns
<1>2. ASSUME NEW d \in Director, NEW pc, NEW waits, NEW runs, NEW say, NEW pkg,
             NEW mine, Turns(d, pc, waits, runs, say, pkg, mine), pc # "off",
             pc = "record" => say \notin Unsettled
      PROVE  Outlook'
  BY <1>2, PendingTurn DEF Turns
<1>3. ASSUME NEW d \in Director, NEW gated, Begins(d, gated) PROVE Outlook'
  BY <1>3, PendingTurn DEF Begins
<1>11. ASSUME NEW d \in Director, OpenPiece(d) PROVE Outlook'
  BY <1>1, <1>11, OpenPieceEffect
<1>12. ASSUME NEW d \in Director, Look(d) PROVE Outlook'
  BY <1>1, <1>2, <1>12, LookEffect
<1>13. ASSUME NEW d \in Director, Gate(d) PROVE Outlook'
  BY <1>1, <1>13, GateEffect
<1>14. ASSUME NEW d \in Director, CancelTasks(d) PROVE Outlook'
  BY <1>1, <1>14, CancelTasksEffect
<1>15. ASSUME NEW d \in Director, CancelFlow(d) PROVE Outlook'
  BY <1>1, <1>15, CancelFlowEffect
<1>16. ASSUME NEW d \in Director, Verdict(d) PROVE Outlook'
  BY <1>2, <1>16, VerdictEffect
<1>17. ASSUME NEW d \in Director, Status(d) PROVE Outlook'
  <2>1. dir[d].gated
    BY <1>0, <1>17, StatusEffect DEF DirectorsSound, Live, At
  <2> QED
    BY <1>1, <1>17, <2>1, StatusEffect
<1>18. ASSUME NEW d \in Director, Read(d) PROVE Outlook'
  <2> DEFINE say == OutcomeOf(dir[d].attempt)
  <2>1. dir[d].attempt \in Nat
    BY DirType DEF DirRecord
  <2>2. say \in Closing \cup {"unknown", "ready", "needs_you", "revise"}
    BY <2>1, OutcomeType
  <2>3. /\ Turns(d, PointOf(say), dir[d].waits, dir[d].runs, say, last.script,
                    dir[d].mine)
        /\ PointOf(say) \in {"close", "script", "ask", "record"}
    BY <1>18, ReadEffect
  <2> HIDE DEF say
  <2>4. say \notin Unsettled
    BY <2>2 DEF Unsettled, Closing
  <2> QED
    BY <1>2, <2>3, <2>4
<1>19. ASSUME NEW d \in Director, AskFlow(d) PROVE Outlook'
  <2>1. flow \notin Unsettled
    BY <1>19, AskFlowEffect DEF Unsettled, Terminal
  <2> QED
    BY <1>2, <1>19, <2>1, AskFlowEffect
<1>20. ASSUME NEW d \in Director, Close(d) PROVE Outlook'
  <2>1. Ahead(d, "record") /\ dir[d].say \in Closing
    BY <1>20, CloseEffect DEF LocalsSound
  <2>2. dir[d].say \notin Unsettled
    BY <2>1 DEF Closing, Unsettled
  <2> QED
    BY <1>2, <2>1, <2>2 DEF Ahead
<1>21. ASSUME NEW d \in Director, Record(d) PROVE Outlook'
  BY <1>21, OutlookRecord
<1>34. ASSUME NEW d \in Director, RecordLost(d) PROVE Outlook'
  BY <1>34, RecordLostEffect
<1>22. ASSUME NEW d \in Director, AddScript(d) PROVE Outlook'
  BY <1>2, <1>22, AddScriptEffect
<1>23. ASSUME NEW d \in Director, AddReview(d) PROVE Outlook'
  BY <1>2, <1>23, AddReviewEffect
<1>24. ASSUME NEW d \in Director, Wire(d) PROVE Outlook'
  BY <1>3, <1>24, WireEffect
<1>25. ASSUME NEW d \in Director, NEW s \in dir[d].waits, Claim(d, s)
       PROVE  Outlook'
  <2>1. \/ Turns(d, "work", dir[d].waits \ {s},
                 dir[d].runs \cup {[step |-> s, of |-> rows[s].after]},
                 dir[d].say, dir[d].pkg, dir[d].mine)
        \/ Turns(d, "work", dir[d].waits \ {s}, dir[d].runs, dir[d].say,
                 dir[d].pkg, dir[d].mine)
    BY <1>25, ClaimEffect
  <2> QED
    BY <1>2, <2>1
<1>26. ASSUME NEW d \in Director, NEW r \in dir[d].runs,
              Complete(d, r) \/ Fail(d, r)
       PROVE  Outlook'
  <2>1. Turns(d, "work", dir[d].waits, dir[d].runs \ {r}, dir[d].say,
              dir[d].pkg, dir[d].mine)
    BY <1>26, CompleteEffect, FailEffect
  <2> QED
    BY <1>2, <2>1
<1>28. ASSUME NEW d \in Director \ Live, Resume(d) PROVE Outlook'
  BY <1>3, <1>28, ResumeEffect
<1>29. CASE Crash
  BY <1>29, CrashEffect
<1>30. CASE Abandon
  <2>1. /\ dir' = dir /\ Live = {} /\ piece.state = "producing"
        /\ piece'.state = "failed"
    BY <1>30, AbandonEffect
  <2> QED
    BY <2>1 DEF Outlook, Unsettled, Live, At
<1>31. ASSUME NEW s \in DOMAIN rows, Recover(s) PROVE Outlook'
  BY <1>31, RecoverEffect DEF Outlook, Pending, At
<1>32. ASSUME NEW answer \in {"approved", "discarded"}, Decide(answer)
       PROVE  Outlook'
  <2>1. /\ dir' = dir /\ flow' = flow /\ piece'.state \notin Unsettled
    BY <1>32, DecideEffect DEF Unsettled
  <2> QED
    BY <1>0, <2>1 DEF Outlook, Pending, At
<1>33. ASSUME NEW d \in Director, Advance(d) PROVE Outlook'
  BY <1>11, <1>12, <1>13, <1>14, <1>15, <1>16, <1>17, <1>18, <1>19, <1>20,
     <1>21, <1>22, <1>23, <1>24, <1>25, <1>26, <1>33, <1>34 DEF Advance
<1> QED
  BY <1>28, <1>29, <1>30, <1>31, <1>32, <1>33 DEF Next

\* After an answer that was given in peace nothing is done.
LEMMA AnswerStep ==
    ASSUME TypeOK, LocalsSound, AnswerSound, Next
    PROVE  /\ AnswerSound'
           /\ piece.state \in {"approved", "discarded"} /\ past.calm
                 => piece' = piece
<1> USE RowsType
<1>1. ASSUME past.calm, piece.state \in {"approved", "discarded"}
      PROVE  AnswerSound' /\ piece' = piece
  <2>1. /\ \A d \in Director : dir[d].pc = "off"
        /\ ~Resumable /\ \A s \in DOMAIN rows : rows[s].status # "running"
    BY <1>1 DEF AnswerSound, Live, Busy
  <2>2. ~\E d \in Director : Advance(d)
    <3> SUFFICES ASSUME NEW d \in Director PROVE ~Advance(d)
      OBVIOUS
    <3>1. dir[d].pc = "off" /\ dir[d].waits = {} /\ dir[d].runs = {}
      BY <2>1 DEF LocalsSound
    <3> QED
      BY <3>1 DEF Advance, OpenPiece, Look, Gate, Waved, CancelTasks,
         CancelFlow, Verdict, Status, Read, AskFlow, Close, Record, RecordLost, AddScript,
         AddReview, Wire, At
  <2>3. ~\E d \in Director \ Live : Resume(d)
    BY <2>1 DEF Resume
  <2>4. ~Crash
    BY <2>1 DEF Crash, Live
  <2>5. ~\E s \in DOMAIN rows : Recover(s)
    BY <2>1 DEF Recover
  <2>6. ~\E answer \in {"approved", "discarded"} : Decide(answer)
    BY <1>1 DEF Decide
  <2>7. Abandon
    BY <2>2, <2>3, <2>4, <2>5, <2>6 DEF Next
  <2>8. rows' = rows /\ dir' = dir /\ flow' = "failed" /\ piece' = piece
    BY <1>1, <2>7, AbandonEffect
  <2> QED
    BY <1>1, <2>1, <2>8 DEF AnswerSound, Live, Busy, Resumable, Terminal
<1>2. ASSUME ~(past.calm /\ piece.state \in {"approved", "discarded"})
      PROVE  AnswerSound'
  <2>1. ASSUME NEW answer \in {"approved", "discarded"}, Decide(answer)
        PROVE  AnswerSound'
    BY <2>1, DecideEffect DEF AnswerSound, Live, Busy, Resumable, Open
  <2>2. CASE piece' = piece /\ past'.calm = past.calm
    BY <1>2, <2>2 DEF AnswerSound
  <2>3. ASSUME NEW d \in Director, OpenPiece(d) \/ Record(d)
        PROVE  piece'.state \notin {"approved", "discarded"}
    BY <2>3, OpenPieceEffect, RecordEffect DEF Recorded, Closing, Flows, Terminal
  <2>4. CASE Abandon
    BY <1>2, <2>4, AbandonEffect DEF AnswerSound
  <2>5. ASSUME NEW d \in Director, Advance(d), ~OpenPiece(d), ~Record(d),
               ~RecordLost(d)
        PROVE  piece' = piece /\ past' = past
    BY <2>5 DEF Advance, Look, Gate, CancelTasks, CancelFlow, Verdict, Status,
       Read, AskFlow, Close, AddScript, AddReview, Wire, Claim, Complete, Fail,
       Rest
  <2>6. ASSUME NEW d \in Director \ Live, Resume(d)
        PROVE  piece' = piece /\ past'.calm = past.calm
    BY <2>6, ResumeEffect, ResumePast
  <2>7. CASE Crash
    BY <2>2, <2>7, CrashEffect
  <2>8. ASSUME NEW s \in DOMAIN rows, Recover(s)
        PROVE  piece' = piece /\ past' = past
    BY <2>8 DEF Recover, Rest
  <2>9. piece'.state \notin {"approved", "discarded"} => AnswerSound'
    BY DEF AnswerSound
  <2>10. ASSUME NEW d \in Director, RecordLost(d) PROVE AnswerSound'
    BY <2>2, <2>10, RecordLostEffect
  <2> QED
    BY <2>1, <2>2, <2>3, <2>4, <2>5, <2>6, <2>7, <2>8, <2>9, <2>10 DEF Next
<1> QED
  BY <1>1, <1>2

-----------------------------------------------------------------------------
(* The rounds of revision: one director at a time, not interrupted *)

Orderly ==
    /\ TypeOK /\ LocalsSound /\ PlanKept /\ StepsSound /\ ClaimsSound
    /\ DirectorsSound /\ ~past.raced /\ ~past.cut
    /\ PairsSound /\ ClosedRounds /\ PassSound

\* No director is between a script and the wiring of its review.
Plain == \A d \in Director : dir[d].pc \notin {"review", "wire"}

\* A revision begins when the plan has been carried out.
LEMMA RevisionFacts ==
    ASSUME Orderly, N > 5
    PROVE  /\ \A s \in 1..5 : Done(s)
           /\ flow \in Terminal /\ ~Contradicted
<1> USE DEF Orderly
<1>1. Done(5) /\ flow \in Terminal
  BY DEF ClosedRounds
<1>2. Done(4) /\ Done(3) /\ Done(2) /\ Done(1)
  BY <1>1, ChainBack
<1>3. Sound
  BY DEF ClaimsSound, N
<1>4. ~Contradicted
  BY <1>3, VerifyRow DEF Sound
<1> QED
  BY <1>1, <1>2, <1>4

\* One director at most is there, and asks the gate.
LEMMA OneAtWork ==
    ASSUME Orderly, NEW d \in Director, dir[d].pc # "off"
    PROVE  /\ dir[d].gated
           /\ \A e \in Director : e # d =>
                 dir[e].pc = "off" /\ dir[e].runs = {} /\ dir[e].waits = {}
<1>1. /\ dir[d].gated
      /\ \A e \in Director : e # d => dir[e].pc = "off"
  BY DEF Orderly, DirectorsSound, Live
<1> QED
  BY <1>1 DEF Orderly, LocalsSound

\* Before the first revision.
LEMMA ShortFacts ==
    ASSUME Orderly, N = 5
    PROVE  /\ Plain /\ Newest = 4
<1> USE DEF Orderly
<1>1. ~\E d \in Director : At(d, "review")
  <2> SUFFICES ASSUME \E d \in Director : At(d, "review") PROVE FALSE
    OBVIOUS
  <2>1. Newest = 5
    BY DEF Newest
  <2> QED
    BY <2>1, PlanEdges DEF PairsSound
<1>2. ~\E d \in Director : At(d, "wire")
  BY DEF PairsSound, LocalsSound
<1>3. Newest = 4
  BY <1>1 DEF Newest
<1> QED
  BY <1>1, <1>2, <1>3 DEF Plain, At

\* The newest pair, once it is made.
LEMMA PlainFacts ==
    ASSUME Orderly, Plain
    PROVE  /\ Newest = N - 1
           /\ rows[N - 1].kind = "script" /\ rows[N].kind = "review"
           /\ rows[N].after = {N - 1} /\ N - 1 \in DOMAIN rows /\ N \in DOMAIN rows
           /\ rows[N].status \notin {"blocked", "cancelled"} => Done(N - 1)
           /\ N > 5 => /\ rows[N].status # "cancelled"
                       /\ N - 1 >= 6 /\ ScriptMade(N - 1) /\ ReviewMade(N)
<1> USE RowsType DEF Orderly
<1>1. N \in Nat /\ N >= 5 /\ DOMAIN rows = 1..N
  BY DEF N, TypeOK
<1>2. Newest = N - 1
  BY DEF Newest, Plain, At
<1>3. rows[N - 1].kind = "script" /\ rows[N].kind = "review"
  BY <1>1, <1>2 DEF PairsSound
<1>4. CASE N = 5
  <2>1. rows[5].after = {4}
    BY PlanEdges
  <2>2. rows[5].status \notin {"blocked", "cancelled"} => Done(4)
    BY ChainBack DEF Begun
  <2> QED
    BY <1>1, <1>2, <1>3, <1>4, <2>1, <2>2
<1>5. CASE N > 5
  <2>1. ReviewMade(N)
    BY <1>1, <1>3, <1>5 DEF PairsSound, Revised, Unwired, Plain, At
  <2>2. N # 6
    BY <1>3, PlanEdges
  <2>3. ScriptMade(N - 1)
    BY <1>1, <1>3, <1>5, <2>2 DEF PairsSound, Revised
  <2> QED
    BY <1>1, <1>2, <1>3, <1>5, <2>1, <2>2, <2>3 DEF ReviewMade
<1> QED
  BY <1>1, <1>4, <1>5

\* A run of the newest pair.
LEMMA WorkFacts ==
    ASSUME Orderly, NEW d \in Director, NEW r \in dir[d].runs
    PROVE  /\ Plain /\ r.step \in 1..N
           /\ r.of = rows[r.step].after
           /\ ~Done(r.step)
           /\ N > 5 => r.step \in {N - 1, N} /\ rows[r.step].status = "running"
           /\ \A e \in Director : \A q \in dir[e].runs : q.step = r.step => q = r
           /\ r.step = N => Done(N - 1)
           /\ r.step = N - 1 => ~Done(N)
<1> USE RowsType DEF Orderly
<1>1. dir[d].pc = "work" /\ r.step \in DOMAIN rows
  BY DEF LocalsSound
<1>2. Plain
  BY <1>1, OneAtWork DEF Plain
<1>3. N \in Nat /\ N >= 5 /\ DOMAIN rows = 1..N /\ r.step \in 1..N
  BY <1>1 DEF N, TypeOK
<1>4. /\ r.of = rows[r.step].after
      /\ \/ rows[r.step].status = "running"
         \/ r.step <= 5 /\ rows[r.step].status = "cancelled"
  BY <1>3 DEF StepsSound, PairsSound
<1>5. ~Done(r.step)
  BY <1>4 DEF Done
<1>6. N > 5 => r.step \in {N - 1, N} /\ rows[r.step].status = "running"
  <2> SUFFICES ASSUME N > 5 PROVE r.step \in {N - 1, N} /\ rows[r.step].status = "running"
    OBVIOUS
  <2>1. r.step > 5 /\ rows[r.step].status = "running"
    BY <1>3, <1>4, <1>5, RevisionFacts
  <2>2. ~Settled(r.step)
    BY <2>1 DEF Settled
  <2>3. ~(r.step < N - 1)
    BY <1>2, <1>3, <2>1, <2>2, PlainFacts DEF PairsSound, Revised
  <2> QED
    BY <1>3, <2>1, <2>3
<1>7. ASSUME NEW e \in Director, NEW q \in dir[e].runs, q.step = r.step
      PROVE  q = r
  <2>1. q \in RunRecord /\ r \in RunRecord
    BY DirType
  <2>2. q.of = rows[q.step].after
    BY <1>3, <1>7, <2>1 DEF StepsSound, PairsSound, RunRecord
  <2> QED
    BY <1>4, <1>7, <2>1, <2>2 DEF RunRecord
<1>8. r.step = N => Done(N - 1)
  <2> SUFFICES ASSUME r.step = N PROVE Done(N - 1)
    OBVIOUS
  <2>1. CASE N = 5
    <3>1. Begun(5)
      BY <2>1 DEF Begun
    <3> QED
      BY <2>1, <3>1, ChainBack
  <2>2. CASE N > 5
    BY <1>2, <1>6, <2>2, PlainFacts
  <2> QED
    BY <1>3, <2>1, <2>2
<1>9. r.step = N - 1 => ~Done(N)
  BY <1>2, <1>5, PlainFacts DEF Done
<1> QED
  BY <1>2, <1>3, <1>4, <1>5, <1>6, <1>7, <1>8, <1>9

\* What is done stays as it is.
LEMMA RowsStay ==
    ASSUME Orderly, Next
    PROVE  \A s \in DOMAIN rows : Done(s) =>
              s \in DOMAIN rows' /\ rows'[s] = rows[s]
<1> USE RowsType DEF Orderly
<1> SUFFICES ASSUME NEW t \in DOMAIN rows, Done(t)
             PROVE  t \in DOMAIN rows' /\ rows'[t] = rows[t]
  OBVIOUS
<1> DEFINE Q == t \in DOMAIN rows' /\ rows'[t] = rows[t]
<1>1. CASE RowsAside
  BY <1>1 DEF RowsAside
<1>2. ASSUME NEW d \in Director, CancelTasks(d) PROVE Q
  BY <1>2, CancelTasksEffect DEF Done, SameSteps
<1>3. ASSUME NEW d \in Director, AddScript(d) PROVE Q
  BY <1>3, AddScriptEffect DEF Adds
<1>4. ASSUME NEW d \in Director, AddReview(d) PROVE Q
  BY <1>4, AddReviewEffect DEF Adds
<1>5. ASSUME NEW d \in Director, Wire(d) PROVE Q
  <2>1. At(d, "wire") /\ DOMAIN rows' = DOMAIN rows
    BY <1>5, WireEffect DEF SameSteps
  <2>2. dir[d].waits = {N} /\ Unwired(N)
    BY <2>1 DEF PairsSound
  <2>3. t \notin dir[d].waits
    BY <2>2 DEF Unwired, Done
  <2> QED
    BY <1>5, <2>1, <2>3, WireEffect
<1>6. ASSUME NEW s \in DOMAIN rows, NEW status, Rewrites(s, status), ~Done(s)
      PROVE  Q
  BY <1>6 DEF Rewrites
<1>7. ASSUME NEW d \in Director, NEW s \in dir[d].waits, Claim(d, s) PROVE Q
  <2>1. CASE Open(s) /\ Rewrites(s, "running")
    <3>1. ~Done(s) /\ s \in DOMAIN rows
      BY <2>1 DEF Open, Done, LocalsSound
    <3> QED
      BY <1>6, <2>1, <3>1
  <2>2. CASE rows' = rows
    BY <2>2
  <2> QED
    BY <1>7, <2>1, <2>2, ClaimEffect
<1>8. ASSUME NEW d \in Director, NEW r \in dir[d].runs,
             Complete(d, r) \/ Fail(d, r)
      PROVE  Q
  <2>1. /\ r.step \in DOMAIN rows
        /\ \/ Rewrites(r.step, "completed") \/ Rewrites(r.step, "failed")
           \/ Rewrites(r.step, "queued")
    BY <1>8, CompleteEffect, FailEffect
  <2>2. ~Done(r.step)
    BY WorkFacts
  <2> QED
    BY <1>6, <2>1, <2>2
<1>9. ASSUME NEW s \in DOMAIN rows, Recover(s) PROVE Q
  <2>1. Rewrites(s, "queued") \/ Rewrites(s, "failed")
    BY <1>9, RecoverEffect
  <2>2. ~Done(s)
    BY <1>9, RecoverEffect DEF Done
  <2> QED
    BY <1>6, <2>1, <2>2
<1> QED
  BY <1>1, <1>2, <1>3, <1>4, <1>5, <1>7, <1>8, <1>9, RowSteps

\* What is done one step before the newest pair is wired stays settled.
LEMMA SettledNext ==
    ASSUME NEW s, Settled(s), rows'[s] = rows[s], rows'[s - 1] = rows[s - 1]
    PROVE  Settled(s)'
BY DEF Settled

\* As long as nothing was added to the plan.
LEMMA PairsShort ==
    ASSUME TypeOK', LocalsSound', PlanKept', Len(rows') = 5,
           \A d \in Director : dir'[d].pc \notin {"review", "wire"}
    PROVE  PairsSound'
<1>1. DOMAIN rows' = 1..5
  BY LenProperties DEF TypeOK
<1>2. rows'[4].kind = Plan[4].kind /\ rows'[5].kind = Plan[5].kind
  BY DEF PlanKept
<1>3. rows'[4].kind = "script" /\ rows'[5].kind = "review"
  BY <1>2 DEF Plan, Step
<1>4. N' = 5 /\ Newest' = 4 /\ Revised' = {}
  BY DEF N, Newest, Revised, At
<1>5. \A d \in Director : /\ \A s \in dir'[d].waits : ~(s > 5)
                          /\ \A r \in dir'[d].runs : ~(r.step > 5)
  BY <1>1 DEF LocalsSound
<1>6. \A d \in Director : ~At(d, "review")' /\ ~At(d, "wire")'
  BY DEF At
<1>7. \A s \in Revised' : FALSE
  BY <1>4
<1> QED
  BY <1>3, <1>4, <1>5, <1>6, <1>7 DEF PairsSound

\* A director goes on, the rows stay, and it makes no pair.
LEMMA PairsTurn ==
    ASSUME Orderly, NEW d \in Director, dir[d].pc \notin {"off", "review", "wire"},
           NEW pc, pc \notin {"review", "wire"}, NEW waits, NEW say,
           NEW pkg, NEW mine,
           Turns(d, pc, waits, dir[d].runs, say, pkg, mine), rows' = rows,
           pc = "work" => \A s \in waits : s > 5 =>
                             \A p \in rows[s].after : Done(p),
           pc \in {"verdict", "status", "read", "script"} =>
              \A s \in Revised : Settled(s)
    PROVE  PairsSound'
<1> USE DEF Orderly
<1>1. /\ \A e \in Director : e # d => /\ dir[e].pc = "off"
                                      /\ dir[e].runs = {}
                                      /\ dir[e].waits = {}
  BY OneAtWork
<1>2. Plain /\ \A e \in Director : dir'[e].pc \notin {"review", "wire"}
  BY <1>1 DEF Plain, Turns
<1>3. Newest = N - 1 /\ Newest' = N - 1 /\ N' = N /\ Revised' = Revised
  BY <1>2, PlainFacts DEF Newest, N, Revised, At
<1>4. \A e \in Director : dir'[e].runs = dir[e].runs
  BY DEF Turns
<1>5. ASSUME NEW s \in Revised
      PROVE  /\ rows'[s].kind = "script" => ScriptMade(s)'
             /\ rows'[s].kind = "review" => ReviewMade(s)'
             /\ rows'[s].status = "running" => Runner(s)'
             /\ s < Newest' => Settled(s)'
  <2>1. /\ rows[s].kind = "script" => ScriptMade(s)
        /\ rows[s].kind = "review" => ReviewMade(s)
        /\ rows[s].status = "running" => Runner(s)
        /\ s < Newest => Settled(s)
    BY <1>2 DEF PairsSound, Unwired, Plain, At
  <2> QED
    BY <1>3, <1>4, <2>1 DEF ScriptMade, ReviewMade, Runner, Settled, Done
<1>6. rows'[Newest'].kind = "script" /\ (Newest' < N' => rows'[N'].kind = "review")
  BY <1>2, <1>3, PlainFacts
<1>7. ASSUME NEW e \in Director
      PROVE  /\ dir'[e].pc = "work" => \A s \in dir'[e].waits : s > 5 =>
                  \A p \in rows'[s].after : Done(p)'
             /\ \A r \in dir'[e].runs : r.step > 5 =>
                  /\ rows'[r.step].status = "running"
                  /\ r.of = rows'[r.step].after
             /\ dir'[e].pc \in {"verdict", "status", "read", "script"} =>
                  \A s \in Revised' : Settled(s)'
  <2>1. \A s : Settled(s) => Settled(s)'
    BY DEF Settled
  <2>2. \A p : Done(p) => Done(p)'
    BY DEF Done
  <2>3. CASE e = d
    BY <1>3, <1>4, <2>1, <2>2, <2>3 DEF PairsSound, Turns
  <2>4. CASE e # d
    BY <1>1, <2>4 DEF Turns
  <2> QED
    BY <2>3, <2>4
<1> QED
  BY <1>2, <1>3, <1>5, <1>6, <1>7 DEF PairsSound, At

\* A director has gone.
LEMMA PairsLeave ==
    ASSUME Orderly, NEW d \in Director, dir[d].pc = "record", NEW M, Leaves(d, M),
           rows' = rows
    PROVE  /\ \A e \in Director : dir'[e].pc = "off" /\ dir'[e].runs = {}
           /\ PairsSound'
<1> USE DEF Orderly
<1>1. \A e \in Director : e # d => /\ dir[e].pc = "off" /\ dir[e].runs = {}
  BY OneAtWork
<1>2. \A e \in Director : dir'[e].pc = "off" /\ dir'[e].runs = {}
  BY <1>1, OffFields DEF Leaves, Alike
<1>3. Plain /\ \A e \in Director : dir[e].runs = {}
  BY <1>1 DEF Plain, LocalsSound
<1>4. Newest = N - 1 /\ Newest' = N - 1 /\ N' = N /\ Revised' = Revised
  BY <1>2, <1>3, PlainFacts DEF Newest, N, Revised, At
<1>5. ASSUME NEW s \in Revised
      PROVE  /\ rows'[s].kind = "script" => ScriptMade(s)'
             /\ rows'[s].kind = "review" => ReviewMade(s)'
             /\ rows'[s].status # "running"
             /\ s < Newest' => Settled(s)'
  <2>1. /\ rows[s].kind = "script" => ScriptMade(s)
        /\ rows[s].kind = "review" => ReviewMade(s)
        /\ rows[s].status # "running"
        /\ s < Newest => Settled(s)
    BY <1>3 DEF PairsSound, Unwired, Plain, At, Runner
  <2> QED
    BY <1>4, <2>1 DEF ScriptMade, ReviewMade, Settled, Done
<1>6. rows'[Newest'].kind = "script" /\ (Newest' < N' => rows'[N'].kind = "review")
  BY <1>3, <1>4, PlainFacts
<1> QED
  BY <1>2, <1>4, <1>5, <1>6 DEF PairsSound, At

\* What a director has in hand once a row has been given a status.
HandSound(s, status, waits, runs) ==
    /\ status = "running" => \E r \in runs : r.step = s
    /\ \A t \in Revised : t # s /\ rows[t].status = "running" =>
          \E r \in runs : r.step = t
    /\ \A t \in waits : t > 5 => \A p \in rows[t].after : Done(p)
    /\ \A r \in runs : r.step > 5 =>
          /\ r.of = rows[r.step].after
          /\ IF r.step = s THEN status = "running"
             ELSE rows[r.step].status = "running"
    /\ waits \subseteq DOMAIN rows
    /\ \A r \in runs : r.step \in DOMAIN rows

\* A row of the newest pair is rewritten by the director at work.
LEMMA PairsRewrite ==
    ASSUME Orderly, N > 5, NEW d \in Director, dir[d].pc = "work",
           NEW s \in {N - 1, N}, ~Done(s), s = N => Done(N - 1),
           NEW status \in {"queued", "running", "completed", "failed"},
           Rewrites(s, status),
           NEW waits, NEW runs, NEW say, NEW pkg, NEW mine,
           Turns(d, "work", waits, runs, say, pkg, mine),
           HandSound(s, status, waits, runs)
    PROVE  PairsSound'
<1> USE RowsType DEF Orderly, HandSound
<1>1. \A e \in Director : e # d => /\ dir[e].pc = "off"
                                   /\ dir[e].runs = {} /\ dir[e].waits = {}
  BY OneAtWork
<1>2. Plain /\ \A e \in Director : dir'[e].pc \notin {"review", "wire"}
  BY <1>1 DEF Plain, Turns
<1>3. /\ N \in Nat /\ DOMAIN rows = 1..N /\ s \in DOMAIN rows
      /\ Newest = N - 1 /\ Newest' = N - 1 /\ N' = N /\ Revised' = Revised
      /\ DOMAIN rows' = DOMAIN rows
  BY <1>2, PlainFacts DEF Newest, N, Revised, At, Rewrites
<1>4. /\ \A t \in DOMAIN rows : /\ rows'[t].kind = rows[t].kind
                                /\ rows'[t].after = rows[t].after
                                /\ t # s => rows'[t] = rows[t]
      /\ rows'[s].status = status
  BY DEF Rewrites
<1>5. \A p \in DOMAIN rows : Done(p) => Done(p)'
  BY <1>4 DEF Done
<1>6. /\ rows[N - 1].kind = "script" /\ rows[N].kind = "review"
      /\ rows[N].after = {N - 1} /\ N - 1 \in DOMAIN rows /\ N \in DOMAIN rows
      /\ rows[N].status \notin {"blocked", "cancelled"} => Done(N - 1)
      /\ rows[N].status # "cancelled"
      /\ N - 1 >= 6 /\ ScriptMade(N - 1) /\ ReviewMade(N)
  BY <1>2, PlainFacts
<1>7. ScriptMade(N - 1)'
  BY <1>3, <1>4, <1>6 DEF ScriptMade
<1>8. ReviewMade(N)'
  <2>1. CASE s = N - 1
    <3>1. rows[N].status = "blocked"
      BY <1>6, <2>1
    <3>2. rows'[N] = rows[N] /\ rows'[N - 1].kind = rows[N - 1].kind
      BY <1>3, <1>4, <1>6, <2>1
    <3> QED
      BY <1>3, <1>6, <3>1, <3>2 DEF ReviewMade
  <2>2. CASE s = N
    BY <1>3, <1>4, <1>5, <1>6, <2>2 DEF ReviewMade
  <2> QED
    BY <2>1, <2>2
<1>9. ASSUME NEW t \in Revised
      PROVE  /\ rows'[t].kind = "script" => ScriptMade(t)'
             /\ rows'[t].kind = "review" => ReviewMade(t)'
             /\ t < Newest' => Settled(t)'
  <2>0. t \in Nat /\ t >= 6 /\ t <= N /\ t - 1 \in DOMAIN rows /\ t \in DOMAIN rows
    BY <1>3 DEF Revised
  <2>1. CASE t < N - 1
    <3>1. rows'[t] = rows[t] /\ rows'[t - 1] = rows[t - 1]
      BY <1>3, <1>4, <2>0, <2>1
    <3>2. Settled(t)
      BY <1>3, <2>1 DEF PairsSound
    <3>3. Settled(t)'
      BY <3>1, <3>2, SettledNext
    <3>4. /\ rows[t].kind = "script" => ScriptMade(t)
          /\ rows[t].kind = "review" => ReviewMade(t)
      BY <1>2 DEF PairsSound, Unwired, Plain, At
    <3> QED
      BY <3>1, <3>3, <3>4 DEF ScriptMade, ReviewMade, Done
  <2>2. CASE t = N - 1
    BY <1>3, <1>4, <1>6, <1>7, <2>2
  <2>3. CASE t = N
    BY <1>3, <1>4, <1>6, <1>8, <2>3
  <2> QED
    BY <1>3, <2>0, <2>1, <2>2, <2>3
<1>10. ASSUME NEW t \in Revised, rows'[t].status = "running"
       PROVE  Runner(t)'
  <2>1. t \in DOMAIN rows
    BY <1>3 DEF Revised
  <2>2. \E r \in runs : r.step = t
    BY <1>4, <1>10, <2>1
  <2> QED
    BY <2>2 DEF Runner, Turns
<1>11. ASSUME NEW e \in Director
       PROVE  /\ dir'[e].pc = "work" => \A t \in dir'[e].waits : t > 5 =>
                   \A p \in rows'[t].after : Done(p)'
              /\ \A r \in dir'[e].runs : r.step > 5 =>
                   /\ rows'[r.step].status = "running"
                   /\ r.of = rows'[r.step].after
              /\ dir'[e].pc \notin {"verdict", "status", "read", "script"}
  <2>1. CASE e # d
    BY <1>1, <2>1 DEF Turns
  <2>2. CASE e = d
    <3>1. dir'[d].waits = waits /\ dir'[d].runs = runs /\ dir'[d].pc = "work"
      BY DEF Turns
    <3>2. ASSUME NEW t \in waits, t > 5, NEW p \in rows'[t].after
          PROVE  Done(p)'
      <4>1. t \in DOMAIN rows /\ p \in rows[t].after
        BY <1>4, <3>2
      <4>2. Done(p)
        BY <3>2, <4>1
      <4>3. p \in DOMAIN rows
        <5>1. t \in Revised /\ (rows[t].kind = "script" \/ rows[t].kind = "review")
          BY <1>3, <3>2, <4>1 DEF Revised, PlanKept
        <5>2. rows[t].after = {} \/ rows[t].after = {t - 1}
          BY <1>2, <5>1 DEF PairsSound, ScriptMade, ReviewMade, Unwired, Plain, At
        <5> QED
          BY <1>3, <4>1, <5>1, <5>2 DEF Revised
      <4> QED
        BY <1>5, <4>2, <4>3
    <3>3. ASSUME NEW r \in runs, r.step > 5
          PROVE  /\ rows'[r.step].status = "running"
                 /\ r.of = rows'[r.step].after
      BY <1>4, <3>3
    <3> QED
      BY <2>2, <3>1, <3>2, <3>3
  <2> QED
    BY <2>1, <2>2
<1>12. rows'[Newest'].kind = "script" /\ (Newest' < N' => rows'[N'].kind = "review")
  BY <1>3, <1>4, <1>6
<1> QED
  BY <1>2, <1>3, <1>9, <1>10, <1>11, <1>12 DEF PairsSound, At

LEMMA PairsClaim ==
    ASSUME Orderly, N > 5, NEW d \in Director, NEW s \in dir[d].waits, Claim(d, s)
    PROVE  PairsSound'
<1> USE RowsType DEF Orderly
<1>1. dir[d].pc = "work" /\ s \in DOMAIN rows
  BY ClaimEffect DEF At
<1>2. Plain /\ \A e \in Director : e # d => dir[e].runs = {}
  BY <1>1, OneAtWork DEF Plain
<1>3. N \in Nat /\ DOMAIN rows = 1..N
  BY DEF N
<1>4. \A t \in dir[d].waits : t > 5 => \A p \in rows[t].after : Done(p)
  BY <1>1 DEF PairsSound, At
<1>5. CASE ~Open(s) /\ rows' = rows
           /\ Turns(d, "work", dir[d].waits \ {s}, dir[d].runs,
                    dir[d].say, dir[d].pkg, dir[d].mine)
  <2>1. \A t \in dir[d].waits \ {s} : t > 5 => \A p \in rows[t].after : Done(p)
    BY <1>4
  <2> QED
    BY <1>1, <1>5, <2>1, PairsTurn
<1>6. CASE /\ Open(s) /\ Rewrites(s, "running")
           /\ Turns(d, "work", dir[d].waits \ {s},
                    dir[d].runs \cup {[step |-> s, of |-> rows[s].after]},
                    dir[d].say, dir[d].pkg, dir[d].mine)
  <2> DEFINE run == [step |-> s, of |-> rows[s].after]
             runs == dir[d].runs \cup {run}
  <2>1. ~Done(s) /\ rows[s].status \in {"queued", "blocked"}
    BY <1>6 DEF Open, Done
  <2>2. s > 5
    BY <1>1, <1>3, <2>1, RevisionFacts
  <2>3. /\ rows[s].kind = "script" => ScriptMade(s)
        /\ rows[s].kind = "review" => ReviewMade(s)
    BY <1>1, <1>2, <1>3, <2>2 DEF PairsSound, Revised, Unwired, Plain, At
  <2>4. rows[s].kind \in {"script", "review"}
    BY <1>1, <2>2 DEF PlanKept
  <2>5. rows[s].kind = "review" => Done(s - 1)
    BY <1>4, <2>2, <2>3 DEF ReviewMade
  <2>6. ~Settled(s)
    BY <2>1, <2>5 DEF Settled, Done
  <2>7. ~(s < N - 1)
    BY <1>1, <1>2, <1>3, <2>2, <2>6, PlainFacts DEF PairsSound, Revised
  <2>8. s \in {N - 1, N} /\ (s = N => Done(N - 1))
    BY <1>1, <1>2, <1>3, <2>5, <2>7, PlainFacts
  <2>9. run.step = s /\ run.of = rows[s].after /\ run \in runs
    OBVIOUS
  <2> HIDE DEF run
  <2>10. \A r \in runs : r.step > 5 =>
              /\ r.of = rows[r.step].after
              /\ r.step \in DOMAIN rows
              /\ r.step # s => rows[r.step].status = "running"
    BY <1>1, <2>9 DEF PairsSound, LocalsSound
  <2>11. \A r \in runs : r.step \in DOMAIN rows
    BY <1>1, <2>9 DEF LocalsSound
  <2>12. ASSUME NEW t \in Revised, rows[t].status = "running"
         PROVE  \E r \in runs : r.step = t
    <3>1. Runner(t)
      BY <2>12 DEF PairsSound
    <3> QED
      BY <1>2, <3>1 DEF Runner
  <2>13. \A t \in dir[d].waits \ {s} : t > 5 => \A p \in rows[t].after : Done(p)
    BY <1>4
  <2>14. dir[d].waits \ {s} \subseteq DOMAIN rows
    BY DEF LocalsSound
  <2>18. PICK status \in {"queued", "running", "completed", "failed"} :
            status = "running"
    OBVIOUS
  <2>15. Turns(d, "work", dir[d].waits \ {s}, runs, dir[d].say, dir[d].pkg,
               dir[d].mine)
    BY <1>6 DEF run
  <2>16. \E r \in runs : r.step = s
    BY <2>9
  <2>17. \A r \in runs : r.step > 5 =>
              /\ r.of = rows[r.step].after
              /\ IF r.step = s THEN status = "running"
                 ELSE rows[r.step].status = "running"
    BY <2>10, <2>18
  <2>19. Rewrites(s, status)
    BY <1>6, <2>18
  <2> HIDE DEF runs
  <2>20. HandSound(s, status, dir[d].waits \ {s}, runs)
    BY <2>11, <2>12, <2>13, <2>14, <2>16, <2>17 DEF HandSound
  <2>21. Orderly
    OBVIOUS
  <2> HIDE RowsType DEF Orderly
  <2> QED
    BY <1>1, <2>1, <2>8, <2>15, <2>19, <2>20, <2>21, PairsRewrite
<1> QED
  BY <1>5, <1>6, ClaimEffect

LEMMA PairsOver ==
    ASSUME Orderly, N > 5, NEW d \in Director, NEW r \in dir[d].runs,
           Complete(d, r) \/ Fail(d, r)
    PROVE  PairsSound'
<1> USE RowsType DEF Orderly
<1>1. /\ dir[d].pc = "work"
      /\ Turns(d, "work", dir[d].waits, dir[d].runs \ {r}, dir[d].say,
               dir[d].pkg, dir[d].mine)
      /\ \/ Rewrites(r.step, "completed") \/ Rewrites(r.step, "failed")
         \/ Rewrites(r.step, "queued")
  BY CompleteEffect, FailEffect DEF At
<1>2. PICK status \in {"queued", "completed", "failed"} : Rewrites(r.step, status)
  BY <1>1
<1>3. /\ ~Done(r.step) /\ r.step \in {N - 1, N}
      /\ r.step = N => Done(N - 1)
      /\ \A q \in dir[d].runs : q.step = r.step => q = r
  BY WorkFacts
<1>4. \A e \in Director : e # d => dir[e].runs = {}
  BY <1>1, OneAtWork
<1>5. ASSUME NEW t \in Revised, t # r.step, rows[t].status = "running"
      PROVE  \E q \in dir[d].runs \ {r} : q.step = t
  <2>1. Runner(t)
    BY <1>5 DEF PairsSound
  <2> QED
    BY <1>4, <1>5, <2>1 DEF Runner
<1>6. \A t \in dir[d].waits : t > 5 => \A p \in rows[t].after : Done(p)
  BY <1>1 DEF PairsSound, At
<1>7. \A q \in dir[d].runs \ {r} : q.step > 5 =>
              /\ q.of = rows[q.step].after
              /\ IF q.step = r.step THEN status = "running"
                 ELSE rows[q.step].status = "running"
  BY <1>3 DEF PairsSound
<1>8. dir[d].waits \subseteq DOMAIN rows
      /\ \A q \in dir[d].runs \ {r} : q.step \in DOMAIN rows
  BY DEF LocalsSound
<1>9. HandSound(r.step, status, dir[d].waits, dir[d].runs \ {r})
  BY <1>5, <1>6, <1>7, <1>8 DEF HandSound
<1>10. Orderly
  OBVIOUS
<1> HIDE RowsType DEF Orderly
<1> QED
  BY <1>1, <1>2, <1>3, <1>9, <1>10, PairsRewrite

\* While the director there is not at work nothing of a revision is running.
LEMMA NoRuns ==
    ASSUME Orderly, NEW d \in Director, dir[d].pc \notin {"off", "work"}
    PROVE  /\ \A e \in Director : dir[e].runs = {}
           /\ \A s \in Revised : rows[s].status # "running"
<1>1. \A e \in Director : dir[e].runs = {}
  BY OneAtWork DEF Orderly, LocalsSound
<1> QED
  BY <1>1 DEF Orderly, PairsSound, Runner

LEMMA PairsAddScript ==
    ASSUME Orderly, NEW d \in Director, AddScript(d)
    PROVE  PairsSound'
<1> USE RowsType DEF Orderly
<1>1. /\ dir[d].pc = "script" /\ Adds("script")
      /\ Turns(d, "review", dir[d].waits, dir[d].runs, dir[d].say,
               dir[d].pkg, Len(rows) + 1)
  BY AddScriptEffect DEF At
<1>2. /\ \A e \in Director : e # d => dir[e].pc = "off"
      /\ \A e \in Director : dir[e].runs = {}
      /\ \A s \in Revised : rows[s].status # "running"
  BY <1>1, OneAtWork, NoRuns
<1>3. /\ \A e \in Director : e # d => dir'[e].pc = "off"
      /\ \A e \in Director : dir'[e].runs = {}
      /\ dir'[d].pc = "review" /\ dir'[d].mine = Len(rows) + 1
  BY <1>1, <1>2 DEF Turns
<1>4. /\ N \in Nat /\ N >= 5 /\ DOMAIN rows = 1..N /\ N' = N + 1
      /\ Newest' = N' /\ Revised' = Revised \cup {N + 1}
      /\ Revised = {s \in DOMAIN rows : s > 5}
  BY <1>1, <1>3 DEF N, Newest, Revised, Adds, TypeOK, At
<1>5. \A s \in Revised : Settled(s)
  BY <1>1 DEF PairsSound
<1>6. ASSUME NEW s \in Revised
      PROVE  /\ rows'[s].kind = "script" => ScriptMade(s)'
             /\ rows'[s].kind = "review" => ReviewMade(s)'
             /\ rows'[s].status # "running"
             /\ Settled(s)'
  <2>1. /\ rows[s].kind = "script" => ScriptMade(s)
        /\ rows[s].kind = "review" => ReviewMade(s)
    BY <1>1, <1>2 DEF PairsSound, Unwired, At
  <2>2. s \in DOMAIN rows /\ s - 1 \in DOMAIN rows
    BY <1>4
  <2>3. rows'[s] = rows[s] /\ rows'[s - 1] = rows[s - 1]
    BY <1>1, <2>2 DEF Adds
  <2> QED
    BY <1>2, <1>5, <2>1, <2>3 DEF ScriptMade, ReviewMade, Settled, Done
<1>7. /\ rows'[N + 1].kind = "script" /\ rows'[N + 1].after = {}
      /\ rows'[N + 1].status = "queued"
  BY <1>1 DEF Adds, N
<1>8. ASSUME NEW s \in Revised'
      PROVE  /\ rows'[s].kind = "script" => ScriptMade(s)'
             /\ rows'[s].kind = "review" => ReviewMade(s)'
             /\ rows'[s].status # "running"
             /\ s < Newest' => Settled(s)'
  <2>1. CASE s \in Revised
    BY <1>6, <2>1
  <2>2. CASE s = N + 1
    BY <1>4, <1>7, <2>2 DEF ScriptMade
  <2> QED
    BY <1>4, <2>1, <2>2
<1>9. rows'[Newest'].kind = "script" /\ ~(Newest' < N')
  BY <1>4, <1>7
<1>10. \A e \in Director : dir'[e].pc = "review" => dir'[e].mine = N'
  BY <1>3, <1>4 DEF N
<1>11. \A e \in Director : dir'[e].pc \notin {"wire", "work", "verdict",
                                             "status", "read", "script"}
  BY <1>3
<1> QED
  BY <1>3, <1>8, <1>9, <1>10, <1>11 DEF PairsSound, At

LEMMA PairsAddReview ==
    ASSUME Orderly, NEW d \in Director, AddReview(d)
    PROVE  PairsSound'
<1> USE RowsType DEF Orderly
<1>1. /\ dir[d].pc = "review" /\ Adds("review")
      /\ Turns(d, "wire", {Len(rows) + 1}, dir[d].runs, dir[d].say,
               dir[d].pkg, dir[d].mine)
  BY AddReviewEffect DEF At
<1>2. /\ \A e \in Director : e # d => dir[e].pc = "off"
      /\ \A e \in Director : dir[e].runs = {}
      /\ \A s \in Revised : rows[s].status # "running"
  BY <1>1, OneAtWork, NoRuns
<1>3. /\ \A e \in Director : e # d => dir'[e].pc = "off"
      /\ \A e \in Director : dir'[e].runs = {}
      /\ dir'[d].pc = "wire" /\ dir'[d].mine = dir[d].mine
      /\ dir'[d].waits = {Len(rows) + 1}
  BY <1>1, <1>2 DEF Turns
<1>4. /\ N \in Nat /\ N > 5 /\ DOMAIN rows = 1..N /\ N' = N + 1
      /\ Newest = N /\ Newest' = N /\ Revised' = Revised \cup {N + 1}
      /\ Revised = {s \in DOMAIN rows : s > 5}
  <2>1. /\ N \in Nat /\ N >= 5 /\ DOMAIN rows = 1..N /\ N' = N + 1
        /\ Newest = N
    BY <1>1 DEF N, Newest, Adds, TypeOK, At
  <2>2. N # 5
    BY <2>1, ShortFacts
  <2>3. Newest' = N
    BY <1>3, <2>1 DEF Newest, At
  <2> QED
    BY <2>1, <2>2, <2>3 DEF Revised
<1>5. /\ rows'[N + 1].kind = "review" /\ rows'[N + 1].after = {}
      /\ rows'[N + 1].status = "queued"
      /\ rows'[N] = rows[N] /\ rows[N].kind = "script"
  BY <1>1, <1>4 DEF Adds, N, PairsSound
<1>6. Unwired(N)'
  BY <1>3, <1>4, <1>5 DEF Unwired, At
<1>7. ASSUME NEW s \in Revised
      PROVE  /\ rows'[s].kind = "script" => ScriptMade(s)'
             /\ rows'[s].kind = "review" => ReviewMade(s)'
             /\ rows'[s].status # "running"
             /\ s < Newest' => Settled(s)'
  <2>1. /\ rows[s].kind = "script" => ScriptMade(s)
        /\ rows[s].kind = "review" => ReviewMade(s)
        /\ s < Newest => Settled(s)
    BY <1>1, <1>2 DEF PairsSound, Unwired, At
  <2>2. s \in DOMAIN rows /\ s - 1 \in DOMAIN rows
    BY <1>4
  <2>3. rows'[s] = rows[s] /\ rows'[s - 1] = rows[s - 1]
    BY <1>1, <2>2 DEF Adds
  <2> QED
    BY <1>2, <1>4, <2>1, <2>3 DEF ScriptMade, ReviewMade, Settled, Done
<1>8. ASSUME NEW s \in Revised'
      PROVE  /\ rows'[s].kind = "script" => ScriptMade(s)'
             /\ rows'[s].kind = "review" => ReviewMade(s)' \/ Unwired(s)'
             /\ rows'[s].status # "running"
             /\ s < Newest' => Settled(s)'
  <2>1. CASE s \in Revised
    BY <1>7, <2>1
  <2>2. CASE s = N + 1
    <3>1. Unwired(s)'
      BY <1>6, <2>2, <1>4 DEF Unwired
    <3> QED
      BY <1>4, <1>5, <2>2, <3>1
  <2> QED
    BY <1>4, <2>1, <2>2
<1>9. rows'[Newest'].kind = "script" /\ rows'[N'].kind = "review"
  BY <1>4, <1>5
<1>10. dir[d].mine = N
  BY <1>1 DEF PairsSound, At
<1>11. ASSUME NEW e \in Director, dir'[e].pc = "wire"
       PROVE  dir'[e].mine = N' - 1 /\ dir'[e].waits = {N'} /\ Unwired(N)'
  <2>1. e = d /\ dir'[e].mine = N' - 1 /\ dir'[e].waits = {N'}
    BY <1>3, <1>4, <1>10, <1>11 DEF N
  <2> QED
    BY <1>4, <1>6, <2>1 DEF Unwired
<1>12. \A e \in Director : dir'[e].pc \notin {"review", "work", "verdict",
                                              "status", "read", "script"}
  BY <1>3
<1> QED
  BY <1>3, <1>8, <1>9, <1>11, <1>12 DEF PairsSound, At

LEMMA PairsWire ==
    ASSUME Orderly, NEW d \in Director, Wire(d)
    PROVE  PairsSound'
<1> USE RowsType DEF Orderly
<1>1. /\ dir[d].pc = "wire" /\ SameSteps /\ Begins(d, TRUE)
      /\ \A s \in DOMAIN rows :
            IF s \in dir[d].waits
            THEN /\ rows'[s].status = "blocked"
                 /\ rows'[s].after = {dir[d].mine}
            ELSE rows'[s] = rows[s]
  BY WireEffect DEF At
<1>2. /\ \A e \in Director : e # d => dir[e].pc = "off"
      /\ \A e \in Director : dir[e].runs = {}
      /\ \A s \in Revised : rows[s].status # "running"
  BY <1>1, OneAtWork, NoRuns
<1>3. /\ \A e \in Director : e # d => dir'[e].pc = "off"
      /\ \A e \in Director : dir'[e].runs = {}
      /\ dir'[d].pc = "look"
  BY <1>1, <1>2 DEF Begins
<1>4. /\ N \in Nat /\ N > 5 /\ DOMAIN rows = 1..N /\ N' = N
      /\ Newest = N - 1 /\ Newest' = N - 1 /\ Revised' = Revised
      /\ Revised = {s \in DOMAIN rows : s > 5}
  <2>1. /\ N \in Nat /\ N >= 5 /\ DOMAIN rows = 1..N /\ N' = N
        /\ Newest = N - 1 /\ Newest' = N - 1
    BY <1>1, <1>2, <1>3 DEF N, Newest, SameSteps, TypeOK, At
  <2>2. N # 5
    BY <1>1, ShortFacts DEF Plain
  <2> QED
    BY <2>1, <2>2 DEF Revised
<1>5. dir[d].mine = N - 1 /\ dir[d].waits = {N} /\ Unwired(N)
  BY <1>1 DEF PairsSound, At
<1>6. /\ rows'[N].kind = "review" /\ rows'[N].after = {N - 1}
      /\ rows'[N].status = "blocked"
      /\ \A s \in DOMAIN rows : s # N => rows'[s] = rows[s]
      /\ rows[N - 1].kind = "script"
  BY <1>1, <1>4, <1>5 DEF PairsSound, SameSteps
<1>7. ReviewMade(N)'
  BY <1>4, <1>6 DEF ReviewMade
<1>8. ASSUME NEW s \in Revised, s # N
      PROVE  /\ rows'[s].kind = "script" => ScriptMade(s)'
             /\ rows'[s].kind = "review" => ReviewMade(s)'
             /\ rows'[s].status # "running"
             /\ s < Newest' => Settled(s)'
  <2>1. /\ rows[s].kind = "script" => ScriptMade(s)
        /\ rows[s].kind = "review" => ReviewMade(s)
        /\ s < Newest => Settled(s)
    BY <1>8 DEF PairsSound, Unwired
  <2>2. s \in DOMAIN rows /\ s - 1 \in DOMAIN rows /\ s - 1 # N
    BY <1>4
  <2>3. rows'[s] = rows[s] /\ rows'[s - 1] = rows[s - 1]
    BY <1>6, <1>8, <2>2
  <2> QED
    BY <1>2, <1>4, <2>1, <2>3 DEF ScriptMade, ReviewMade, Settled, Done
<1>9. ASSUME NEW s \in Revised'
      PROVE  /\ rows'[s].kind = "script" => ScriptMade(s)'
             /\ rows'[s].kind = "review" => ReviewMade(s)'
             /\ rows'[s].status # "running"
             /\ s < Newest' => Settled(s)'
  <2>1. CASE s # N
    BY <1>4, <1>8, <2>1
  <2>2. CASE s = N
    BY <1>4, <1>6, <1>7, <2>2
  <2> QED
    BY <2>1, <2>2
<1>10. rows'[Newest'].kind = "script" /\ rows'[N'].kind = "review"
  BY <1>4, <1>6
<1> QED
  BY <1>3, <1>9, <1>10 DEF PairsSound, At

LEMMA PairsStay ==
    ASSUME PairsSound, rows' = rows, dir' = dir
    PROVE  PairsSound'
<1>1. /\ N' = N /\ Newest' = Newest /\ Revised' = Revised
      /\ \A s : Done(s) <=> Done(s)'
      /\ \A s : Settled(s) <=> Settled(s)'
      /\ \A s : Runner(s) <=> Runner(s)'
      /\ \A s : ScriptMade(s) <=> ScriptMade(s)'
  BY DEF N, Newest, Revised, Done, Settled, Runner, ScriptMade, At
<1>2. /\ \A s : ReviewMade(s) <=> ReviewMade(s)'
      /\ \A s : Unwired(s) <=> Unwired(s)'
      /\ Unwired(N) <=> Unwired(N)'
  BY <1>1 DEF ReviewMade, Unwired, N, At, Done
<1> QED
  BY <1>1, <1>2 DEF PairsSound, At

\* Nothing is left to run once a director finds no step that is ready.
LEMMA LookSettled ==
    ASSUME Orderly, NEW d \in Director, dir[d].pc = "look", Runnable = {}
    PROVE  \A s \in Revised : Settled(s)
<1> USE RowsType DEF Orderly
<1> SUFFICES ASSUME NEW s \in Revised PROVE Settled(s)
  OBVIOUS
<1>1. /\ N \in Nat /\ DOMAIN rows = 1..N /\ s \in DOMAIN rows /\ s \in Nat
      /\ s >= 6 /\ s <= N /\ N > 5 /\ s - 1 \in DOMAIN rows
  BY DEF N, Revised
<1>2. Plain /\ \A t \in Revised : rows[t].status # "running"
  BY OneAtWork, NoRuns DEF Plain
<1>3. /\ Newest = N - 1 /\ rows[N - 1].kind = "script" /\ rows[N].kind = "review"
      /\ rows[N].after = {N - 1} /\ rows[N].status # "cancelled"
      /\ N - 1 >= 6 /\ ScriptMade(N - 1)
      /\ N - 1 \in DOMAIN rows /\ N \in DOMAIN rows
  BY <1>1, <1>2, PlainFacts
<1>4. CASE s < N - 1
  BY <1>3, <1>4 DEF PairsSound
<1>5. rows[N - 1].status \in {"completed", "failed"}
  <2>1. N - 1 \in Revised
    BY <1>1, <1>3 DEF Revised
  <2>2. rows[N - 1].status # "running"
    BY <1>2, <2>1
  <2>3. rows[N - 1].status # "queued"
    BY <1>3 DEF Runnable, Open, ScriptMade
  <2> QED
    BY <1>3, <2>2, <2>3 DEF ScriptMade
<1>6. CASE s = N - 1
  BY <1>5, <1>6 DEF Settled
<1>7. CASE s = N
  <2>1. rows[N].status \in Statuses /\ rows[N].status \notin {"running", "cancelled"}
    BY <1>2, <1>3, <1>7, RowFields
  <2>2. CASE rows[N - 1].status = "failed"
    <3>1. ~Done(N - 1)
      BY <2>2 DEF Done
    <3>2. rows[N].status = "blocked"
      BY <1>2, <1>3, <2>1, <3>1, PlainFacts
    <3> QED
      BY <1>3, <1>7, <2>2, <3>2 DEF Settled
  <2>3. CASE rows[N - 1].status = "completed"
    <3>1. ~Open(N)
      BY <1>3, <2>3 DEF Runnable, Done
    <3> QED
      BY <1>7, <2>1, <3>1 DEF Open, Settled, Statuses
  <2> QED
    BY <1>5, <2>2, <2>3
<1> QED
  BY <1>1, <1>4, <1>6, <1>7

\* With a revision under way the process neither resumes nor recovers.
LEMMA RevisionSteps ==
    ASSUME Orderly, N > 5, Next, ~past'.cut
    PROVE  /\ ~\E d \in Director \ Live : Resume(d)
           /\ ~Crash /\ ~Abandon
           /\ ~\E s \in DOMAIN rows : Recover(s)
           /\ ~\E d \in Director : CancelTasks(d) \/ CancelFlow(d)
<1> USE DEF Orderly
<1>1. flow \in Terminal /\ ~Contradicted /\ \A s \in 1..5 : Done(s)
  BY RevisionFacts
<1>2. ~Crash
  BY <1>1, CrashEffect
<1>3. ASSUME NEW s \in DOMAIN rows, Recover(s) PROVE FALSE
  <2>1. rows[s].status = "running" /\ ~Runner(s)
    BY <1>3, RecoverEffect
  <2>2. s \in 1..N /\ N \in Nat
    BY RowsType DEF N
  <2>3. s \notin Revised
    BY <2>1 DEF PairsSound
  <2>4. Done(s)
    BY <1>1, <2>2, <2>3 DEF Revised
  <2> QED
    BY <2>1, <2>4 DEF Done
<1>4. ~\E d \in Director : CancelTasks(d) \/ CancelFlow(d)
  BY <1>1 DEF ClaimsSound, CancelTasks, CancelFlow, At
<1> QED
  BY <1>1, <1>2, <1>3, <1>4 DEF Resume, Resumable, Abandon

LEMMA PairsStep ==
    ASSUME Orderly, Next, ~past'.raced, ~past'.cut
    PROVE  PairsSound'
<1> USE RowsType
<1>0. /\ TypeOK /\ LocalsSound /\ PlanKept /\ StepsSound /\ ClaimsSound
      /\ TypeOK' /\ LocalsSound' /\ PlanKept' /\ DOMAIN rows = 1..N
      /\ N \in Nat /\ N >= 5 /\ N = Len(rows)
  BY TypeStep, LocalsStep, PlanStep DEF Orderly, N, TypeOK
<1>1. ASSUME N = 5, Len(rows') = Len(rows),
             \A d \in Director : \/ dir'[d].pc \notin {"review", "wire"}
                                 \/ dir'[d].pc = dir[d].pc
      PROVE  PairsSound'
  BY <1>0, <1>1, ShortFacts, PairsShort DEF Plain
<1>2. ASSUME NEW d \in Director, NEW pc, pc \notin {"review", "wire", "work",
                "verdict", "status", "read", "script"},
             rows' = rows, Ahead(d, pc),
             dir[d].pc \notin {"off", "review", "wire"}
      PROVE  PairsSound'
  BY <1>0, <1>2, PairsTurn DEF Ahead
<1>3. ASSUME NEW d \in Director, dir[d].pc \notin {"off", "review", "wire"},
             NEW pc \in {"verdict", "status", "read", "script"},
             NEW waits, NEW say, NEW pkg, NEW mine,
             Turns(d, pc, waits, dir[d].runs, say, pkg, mine),
             rows' = rows, \A s \in Revised : Settled(s)
      PROVE  PairsSound'
  BY <1>0, <1>3, PairsTurn
<1>4. \A d \in Director : dir[d].pc \in {"verdict", "status", "read", "script"}
         => \A s \in Revised : Settled(s)
  BY DEF Orderly, PairsSound
<1>11. ASSUME NEW d \in Director, OpenPiece(d) PROVE PairsSound'
  BY <1>0, <1>2, <1>11, OpenPieceEffect DEF At
<1>12. ASSUME NEW d \in Director, Look(d) PROVE PairsSound'
  <2>1. dir[d].pc = "look" /\ rows' = rows
    BY <1>0, <1>12, LookEffect DEF At
  <2>2. CASE Runnable = {} /\ Ahead(d, "verdict")
    <3>1. \A s \in Revised : Settled(s)
      BY <2>1, <2>2, LookSettled
    <3> QED
      BY <1>3, <2>1, <2>2, <3>1 DEF Ahead
  <2>3. CASE Turns(d, "work", Runnable, dir[d].runs, dir[d].say, dir[d].pkg,
                   dir[d].mine)
    <3>1. \A s \in Runnable : s > 5 => \A p \in rows[s].after : Done(p)
      BY DEF Runnable
    <3>2. PICK waits : waits = Runnable
      OBVIOUS
    <3>3. Turns(d, "work", waits, dir[d].runs, dir[d].say, dir[d].pkg,
                dir[d].mine)
      BY <2>3, <3>2
    <3>4. \A s \in waits : s > 5 => \A p \in rows[s].after : Done(p)
      BY <3>1, <3>2
    <3>5. PICK pc : pc = "work"
      OBVIOUS
    <3>6. /\ pc = "work" => \A s \in waits : s > 5 =>
                               \A p \in rows[s].after : Done(p)
          /\ pc \in {"verdict", "status", "read", "script"} =>
                \A s \in Revised : Settled(s)
          /\ pc \notin {"review", "wire"}
          /\ dir[d].pc \notin {"off", "review", "wire"} /\ rows' = rows
      BY <2>1, <3>4, <3>5
    <3>7. Turns(d, pc, waits, dir[d].runs, dir[d].say, dir[d].pkg, dir[d].mine)
      BY <3>3, <3>5
    <3> QED
      BY <3>6, <3>7, PairsTurn
  <2> QED
    BY <1>0, <1>12, <2>2, <2>3, LookEffect
<1>13. ASSUME NEW d \in Director, Gate(d) PROVE PairsSound'
  BY <1>0, <1>2, <1>13, GateEffect DEF Waved, At
<1>14. ASSUME NEW d \in Director, CancelTasks(d) PROVE PairsSound'
  <2>1. Ahead(d, "flow") /\ Len(rows') = Len(rows)
    BY <1>0, <1>14, CancelTasksEffect DEF SameSteps
  <2>2. N = 5
    BY <1>0, <1>14, RevisionSteps
  <2> QED
    BY <1>1, <2>1, <2>2 DEF Ahead, Turns
<1>15. ASSUME NEW d \in Director, CancelFlow(d) PROVE PairsSound'
  <2>1. Ahead(d, "verdict") /\ rows' = rows
    BY <1>0, <1>15, CancelFlowEffect
  <2>2. N = 5
    BY <1>0, <1>15, RevisionSteps
  <2> QED
    BY <1>1, <2>1, <2>2 DEF Ahead, Turns
<1>16. ASSUME NEW d \in Director, Verdict(d) PROVE PairsSound'
  BY <1>0, <1>3, <1>4, <1>16, VerdictEffect DEF At
<1>17. ASSUME NEW d \in Director, Status(d) PROVE PairsSound'
  <2>1. dir[d].pc = "status" /\ rows' = rows
    BY <1>0, <1>17, StatusEffect DEF At
  <2>2. dir[d].gated
    BY <2>1, OneAtWork
  <2>3. Ahead(d, "read")
    BY <1>0, <1>17, <2>2, StatusEffect
  <2> QED
    BY <1>3, <1>4, <2>1, <2>3 DEF Ahead
<1>18. ASSUME NEW d \in Director, Read(d) PROVE PairsSound'
  <2> DEFINE say == OutcomeOf(dir[d].attempt)
  <2>1. /\ dir[d].pc = "read" /\ rows' = rows
        /\ Turns(d, PointOf(say), dir[d].waits, dir[d].runs, say, last.script,
                    dir[d].mine)
        /\ PointOf(say) \in {"close", "script", "ask", "record"}
    BY <1>0, <1>18, ReadEffect DEF At
  <2> HIDE DEF say
  <2>2. \A s \in Revised : Settled(s)
    BY <1>4, <2>1
  <2> QED
    BY <2>1, <2>2, PairsTurn
<1>19. ASSUME NEW d \in Director, AskFlow(d) PROVE PairsSound'
  BY <1>0, <1>19, AskFlowEffect, PairsTurn DEF At
<1>20. ASSUME NEW d \in Director, Close(d) PROVE PairsSound'
  BY <1>0, <1>2, <1>20, CloseEffect DEF At
<1>21. ASSUME NEW d \in Director, Record(d) PROVE PairsSound'
  BY <1>0, <1>21, RecordEffect, PairsLeave DEF At
<1>21L. ASSUME NEW d \in Director, RecordLost(d) PROVE PairsSound'
  BY <1>0, <1>21L, RecordLostEffect, PairsLeave DEF At
<1>22. ASSUME NEW d \in Director, AddScript(d) PROVE PairsSound'
  BY <1>22, PairsAddScript
<1>23. ASSUME NEW d \in Director, AddReview(d) PROVE PairsSound'
  BY <1>23, PairsAddReview
<1>24. ASSUME NEW d \in Director, Wire(d) PROVE PairsSound'
  BY <1>24, PairsWire
<1>25. ASSUME NEW d \in Director, NEW s \in dir[d].waits, Claim(d, s)
       PROVE  PairsSound'
  <2>1. CASE N > 5
    BY <1>25, <2>1, PairsClaim
  <2>2. CASE N = 5
    <3>1. /\ Len(rows') = Len(rows)
          /\ dir'[d].pc = "work" /\ \A e \in Director : e # d => dir'[e] = dir[e]
      BY <1>0, <1>25, ClaimEffect DEF Turns, Rewrites
    <3> QED
      BY <1>1, <2>2, <3>1
  <2> QED
    BY <1>0, <2>1, <2>2
<1>26. ASSUME NEW d \in Director, NEW r \in dir[d].runs,
              Complete(d, r) \/ Fail(d, r)
       PROVE  PairsSound'
  <2>1. CASE N > 5
    BY <1>26, <2>1, PairsOver
  <2>2. CASE N = 5
    <3>1. /\ Len(rows') = Len(rows)
          /\ dir'[d].pc = "work" /\ \A e \in Director : e # d => dir'[e] = dir[e]
      BY <1>0, <1>26, CompleteEffect, FailEffect DEF Turns, Rewrites
    <3> QED
      BY <1>1, <2>2, <3>1
  <2> QED
    BY <1>0, <2>1, <2>2
<1>28. ASSUME NEW d \in Director \ Live, Resume(d) PROVE PairsSound'
  <2>1. N = 5
    BY <1>0, <1>28, RevisionSteps
  <2>2. /\ Len(rows') = Len(rows) /\ dir'[d].pc = "look"
        /\ \A e \in Director : e # d => dir'[e] = dir[e]
    BY <1>0, <1>28, ResumeEffect DEF Begins
  <2> QED
    BY <1>1, <2>1, <2>2
<1>29. CASE Crash
  <2>1. N = 5
    BY <1>0, <1>29, RevisionSteps
  <2>2. Len(rows') = Len(rows) /\ \A e \in Director : dir'[e].pc = "off"
    BY <1>0, <1>29, CrashEffect, OffFields
  <2> QED
    BY <1>1, <2>1, <2>2
<1>30. CASE Abandon
  BY <1>0, <1>30, AbandonEffect, PairsStay DEF Orderly
<1>31. ASSUME NEW s \in DOMAIN rows, Recover(s) PROVE PairsSound'
  <2>1. N = 5
    BY <1>0, <1>31, RevisionSteps
  <2>2. Len(rows') = Len(rows) /\ dir' = dir
    BY <1>0, <1>31, RecoverEffect DEF Rewrites
  <2> QED
    BY <1>1, <2>1, <2>2
<1>32. ASSUME NEW answer \in {"approved", "discarded"}, Decide(answer)
       PROVE  PairsSound'
  BY <1>0, <1>32, DecideEffect, PairsStay DEF Orderly
<1>33. ASSUME NEW d \in Director, Advance(d) PROVE PairsSound'
  BY <1>11, <1>12, <1>13, <1>14, <1>15, <1>16, <1>17, <1>18, <1>19, <1>20,
     <1>21, <1>21L, <1>22, <1>23, <1>24, <1>25, <1>26, <1>33 DEF Advance
<1> QED
  BY <1>28, <1>29, <1>30, <1>31, <1>32, <1>33 DEF Next

\* Where a director is after a step, and which step brought it there.
LEMMA PcStep ==
    ASSUME Orderly, Next, NEW e \in Director
    PROVE  \/ \E x \in Director : /\ dir'[e].pc = dir[x].pc
                                  /\ dir'[e].say = dir[x].say
                                  /\ dir'[e].pkg = dir[x].pkg
           \/ dir'[e].pc \in {"off", "look", "work", "cancel", "flow",
                              "verdict", "ask", "close"}
           \/ dir'[e].pc = "record" /\ dir'[e].say # "ready"
           \/ Verdict(e) \/ Status(e) \/ Read(e) \/ AddScript(e) \/ AddReview(e)
<1> DEFINE Q == \/ \E x \in Director : /\ dir'[e].pc = dir[x].pc
                                       /\ dir'[e].say = dir[x].say
                                       /\ dir'[e].pkg = dir[x].pkg
                \/ dir'[e].pc \in {"off", "look", "work", "cancel", "flow",
                                   "verdict", "ask", "close"}
                \/ dir'[e].pc = "record" /\ dir'[e].say # "ready"
                \/ Verdict(e) \/ Status(e) \/ Read(e) \/ AddScript(e) \/ AddReview(e)
<1>0. TypeOK /\ LocalsSound /\ PlanKept
  BY DEF Orderly
<1>1. ASSUME NEW d \in Director, NEW pc \in {"look", "work", "cancel", "flow",
                              "verdict", "ask", "close"},
             NEW waits, NEW runs, NEW say, NEW pkg, NEW mine,
             Turns(d, pc, waits, runs, say, pkg, mine)
      PROVE  Q
  BY <1>1 DEF Turns
<1>2. ASSUME NEW d \in Director, NEW pc \in {"look", "work", "cancel", "flow",
                              "verdict", "ask", "close"}, Ahead(d, pc)
      PROVE  Q
  BY <1>1, <1>2 DEF Ahead
<1>3. ASSUME NEW d \in Director, NEW M, Leaves(d, M) PROVE Q
  <2>1. CASE dir'[e] = Off
    BY <2>1, OffFields
  <2>2. CASE dir'[e] # Off
    BY <1>3, <2>2 DEF Leaves, Alike
  <2> QED
    BY <2>1, <2>2
<1>4. ASSUME NEW d \in Director, NEW gated, Begins(d, gated) PROVE Q
  BY <1>4 DEF Begins
<1>5. ASSUME NEW d \in Director, d # e, NEW pc, NEW waits, NEW runs, NEW say,
             NEW pkg, NEW mine, Turns(d, pc, waits, runs, say, pkg, mine)
      PROVE  Q
  BY <1>5 DEF Turns
<1>6. ASSUME NEW d \in Director, d # e, NEW pc, Ahead(d, pc) PROVE Q
  BY <1>5, <1>6 DEF Ahead
<1>7. ASSUME dir' = dir PROVE Q
  BY <1>7
<1>11. ASSUME NEW d \in Director, OpenPiece(d) PROVE Q
  BY <1>0, <1>2, <1>11, OpenPieceEffect
<1>12. ASSUME NEW d \in Director, Look(d) PROVE Q
  BY <1>0, <1>1, <1>2, <1>12, LookEffect
<1>13. ASSUME NEW d \in Director, Gate(d) PROVE Q
  BY <1>0, <1>2, <1>13, GateEffect
<1>14. ASSUME NEW d \in Director, CancelTasks(d) PROVE Q
  BY <1>0, <1>2, <1>14, CancelTasksEffect
<1>15. ASSUME NEW d \in Director, CancelFlow(d) PROVE Q
  BY <1>0, <1>2, <1>15, CancelFlowEffect
<1>16. ASSUME NEW d \in Director, Verdict(d) PROVE Q
  <2>1. CASE d = e
    BY <1>16, <2>1
  <2>2. CASE d # e
    BY <1>0, <1>5, <1>16, <2>2, VerdictEffect
  <2> QED
    BY <2>1, <2>2
<1>17. ASSUME NEW d \in Director, Status(d) PROVE Q
  <2>1. CASE d = e
    BY <1>17, <2>1
  <2>2. CASE d # e /\ dir[d].gated
    BY <1>0, <1>6, <1>17, <2>2, StatusEffect
  <2>3. CASE ~dir[d].gated
    BY <1>0, <1>3, <1>17, <2>3, StatusEffect
  <2> QED
    BY <2>1, <2>2, <2>3
<1>18. ASSUME NEW d \in Director, Read(d) PROVE Q
  <2>1. CASE d = e
    BY <1>18, <2>1
  <2>2. CASE d # e
    <3>1. PICK pc, waits, runs, say, pkg, mine :
             Turns(d, pc, waits, runs, say, pkg, mine)
      BY <1>0, <1>18, ReadEffect
    <3> QED
      BY <1>5, <2>2, <3>1
  <2> QED
    BY <2>1, <2>2
<1>19. ASSUME NEW d \in Director, AskFlow(d) PROVE Q
  <2>1. Turns(d, "record", dir[d].waits, dir[d].runs, flow, dir[d].pkg,
              dir[d].mine)
    BY <1>0, <1>19, AskFlowEffect
  <2>2. flow # "ready"
    BY <1>0 DEF TypeOK, Flows, Terminal
  <2>3. CASE d = e
    BY <2>1, <2>2, <2>3 DEF Turns
  <2>4. CASE d # e
    BY <1>5, <2>1, <2>4
  <2> QED
    BY <2>3, <2>4
<1>20. ASSUME NEW d \in Director, Close(d) PROVE Q
  <2>1. Ahead(d, "record") /\ dir[d].say # "ready"
    BY <1>0, <1>20, CloseEffect DEF LocalsSound, Closing
  <2>2. CASE d = e
    BY <2>1, <2>2 DEF Ahead, Turns
  <2>3. CASE d # e
    BY <1>6, <2>1, <2>3
  <2> QED
    BY <2>2, <2>3
<1>21. ASSUME NEW d \in Director, Record(d) PROVE Q
  BY <1>0, <1>3, <1>21, RecordEffect
<1>21L. ASSUME NEW d \in Director, RecordLost(d) PROVE Q
  BY <1>0, <1>3, <1>21L, RecordLostEffect
<1>22. ASSUME NEW d \in Director, AddScript(d) PROVE Q
  <2>1. CASE d = e
    BY <1>22, <2>1
  <2>2. CASE d # e
    BY <1>0, <1>5, <1>22, <2>2, AddScriptEffect
  <2> QED
    BY <2>1, <2>2
<1>23. ASSUME NEW d \in Director, AddReview(d) PROVE Q
  <2>1. CASE d = e
    BY <1>23, <2>1
  <2>2. CASE d # e
    BY <1>0, <1>5, <1>23, <2>2, AddReviewEffect
  <2> QED
    BY <2>1, <2>2
<1>24. ASSUME NEW d \in Director, Wire(d) PROVE Q
  BY <1>0, <1>4, <1>24, WireEffect
<1>25. ASSUME NEW d \in Director, NEW s \in dir[d].waits, Claim(d, s) PROVE Q
  <2>1. \/ Turns(d, "work", dir[d].waits \ {s},
                 dir[d].runs \cup {[step |-> s, of |-> rows[s].after]},
                 dir[d].say, dir[d].pkg, dir[d].mine)
        \/ Turns(d, "work", dir[d].waits \ {s}, dir[d].runs, dir[d].say,
                 dir[d].pkg, dir[d].mine)
    BY <1>0, <1>25, ClaimEffect
  <2> QED
    BY <1>1, <2>1
<1>26. ASSUME NEW d \in Director, NEW r \in dir[d].runs,
              Complete(d, r) \/ Fail(d, r)
       PROVE  Q
  <2>1. Turns(d, "work", dir[d].waits, dir[d].runs \ {r}, dir[d].say,
              dir[d].pkg, dir[d].mine)
    BY <1>0, <1>26, CompleteEffect, FailEffect
  <2> QED
    BY <1>1, <2>1
<1>28. ASSUME NEW d \in Director \ Live, Resume(d) PROVE Q
  BY <1>0, <1>4, <1>28, ResumeEffect
<1>29. ASSUME Crash PROVE Q
  BY <1>0, <1>29, CrashEffect, OffFields
<1>30. ASSUME Abandon PROVE Q
  BY <1>0, <1>7, <1>30, AbandonEffect
<1>31. ASSUME NEW s \in DOMAIN rows, Recover(s) PROVE Q
  BY <1>0, <1>7, <1>31, RecoverEffect
<1>32. ASSUME NEW answer \in {"approved", "discarded"}, Decide(answer) PROVE Q
  BY <1>0, <1>7, <1>32, DecideEffect
<1> HIDE DEF Q
<1>33. ASSUME NEW d \in Director, Advance(d) PROVE Q
  BY <1>11, <1>12, <1>13, <1>14, <1>15, <1>16, <1>17, <1>18, <1>19, <1>20,
     <1>21, <1>21L, <1>22, <1>23, <1>24, <1>25, <1>26, <1>33 DEF Advance
<1>34. Q
  BY <1>28, <1>29, <1>30, <1>31, <1>32, <1>33 DEF Next
<1> QED
  BY <1>34 DEF Q

\* A workflow that was carried out once counts as closed from then on.
LEMMA FlowStep ==
    ASSUME Orderly, Next, Done(5), flow \in Terminal
    PROVE  flow' \in Terminal
<1>0. TypeOK /\ LocalsSound
  BY DEF Orderly
<1>1. ASSUME NEW d \in Director, Status(d) PROVE flow' \in Terminal
  BY <1>0, <1>1, StatusEffect DEF Orderly, ClosedRounds
<1>2. ASSUME NEW d \in Director, CancelFlow(d) \/ Close(d)
      PROVE  flow' \in Terminal
  BY <1>0, <1>2, CancelFlowEffect, CloseEffect DEF Terminal
<1>3. ASSUME NEW d \in Director, Advance(d), ~Status(d), ~CancelFlow(d), ~Close(d)
      PROVE  flow' = flow
  BY <1>3 DEF Advance, OpenPiece, Look, Gate, CancelTasks, Verdict, Read,
     AskFlow, Record, RecordLost, AddScript, AddReview, Wire, Claim, Complete, Fail
<1>4. ASSUME NEW d \in Director, Resume(d) PROVE flow' = flow
  BY <1>4 DEF Resume
<1>5. ASSUME NEW s \in DOMAIN rows, Recover(s) PROVE flow' = flow
  BY <1>5 DEF Recover
<1>6. ASSUME NEW answer, Decide(answer) PROVE flow' = flow
  BY <1>6 DEF Decide
<1>7. ASSUME Crash PROVE flow' = flow
  BY <1>7 DEF Crash
<1>8. ~Abandon
  BY DEF Abandon
<1> QED
  BY <1>1, <1>2, <1>3, <1>4, <1>5, <1>6, <1>7, <1>8 DEF Next

LEMMA LongerRounds ==
    ASSUME Orderly, Next, Len(rows') > 5
    PROVE  Done(5) /\ flow \in Terminal
<1> USE DEF Orderly
<1>0. N \in Nat /\ N >= 5 /\ N = Len(rows)
  <2>1. TypeOK
    OBVIOUS
  <2> QED
    BY <2>1, RowsType DEF N, TypeOK
<1>1. CASE N > 5
  BY <1>1 DEF ClosedRounds
<1>2. CASE N = 5
  <2>1. ~\E d \in Director : AddReview(d)
    BY <1>2, ShortFacts DEF Plain, AddReview, At
  <2>2. \E d \in Director : AddScript(d)
    <3> SUFFICES ASSUME ~\E d \in Director : AddScript(d) PROVE FALSE
      OBVIOUS
    <3>1. TypeOK /\ LocalsSound
      OBVIOUS
    <3>2. ~\E d \in Director : AddScript(d) \/ AddReview(d)
      BY <2>1
    <3>3. Len(rows') = Len(rows)
      BY <3>1, <3>2, SameLength
    <3>4. Len(rows') = 5
      BY <1>0, <1>2, <3>3
    <3> HIDE DEF Orderly
    <3> QED
      BY <3>4
  <2>3. \E d \in Director : At(d, "script")
    BY <2>2 DEF AddScript
  <2> QED
    BY <2>3 DEF ClosedRounds
<1> QED
  BY <1>0, <1>1, <1>2

\* A director that settles finds a workflow in which all is over.
LEMMA VerdictTerminal ==
    ASSUME Orderly, NEW d \in Director, dir[d].pc = "verdict", Done(5)
    PROVE  FlowOf \in Terminal
<1> USE RowsType DEF Orderly
<1>1. Done(1) /\ Done(2) /\ Done(3) /\ Done(4) /\ Done(5)
  BY ChainBack
<1>2. \A s \in Revised : Settled(s)
  BY DEF PairsSound
<1>3. N \in Nat /\ DOMAIN rows = 1..N /\ N >= 5
  BY DEF N, TypeOK
<1>4. CASE \E s \in DOMAIN rows : rows[s].status = "failed"
  BY <1>4 DEF FlowOf, Terminal
<1>5. ASSUME ~\E s \in DOMAIN rows : rows[s].status = "failed"
      PROVE  FlowOf \in Terminal
  <2>1. ASSUME NEW s \in DOMAIN rows PROVE Done(s)
    <3>1. CASE s \in 1..5
      BY <1>1, <3>1
    <3>2. CASE s \in Revised
      <4>1. s - 1 \in DOMAIN rows
        BY <1>3, <3>2 DEF Revised
      <4>2. rows[s].status # "failed" /\ rows[s - 1].status # "failed"
        BY <1>5, <4>1
      <4> QED
        BY <1>2, <3>2, <4>2 DEF Settled, Done
    <3> QED
      BY <1>3, <3>1, <3>2 DEF Revised
  <2> QED
    BY <1>5, <2>1 DEF FlowOf, Terminal
<1> QED
  BY <1>4, <1>5

\* While a director settles, no step completes.
LEMMA DoneFive ==
    ASSUME Orderly, Next, rows'[5].status = "completed", NEW e \in Director,
           dir'[e].pc # "off", dir'[e].pc # "work"
    PROVE  Done(5)
<1> SUFFICES ASSUME ~Done(5) PROVE FALSE
  OBVIOUS
<1> USE DEF Orderly
<1>1. 5 \in DOMAIN rows
  BY RowsType
<1>2. PICK d \in Director :
         \E r \in dir[d].runs : Complete(d, r) /\ r.step = 5
  BY <1>1, DoneBy
<1>3. /\ dir[d].pc = "work" /\ dir'[d].pc = "work"
      /\ \A x \in Director : x # d => dir'[x] = dir[x]
  BY <1>2, CompleteEffect DEF Turns, At
<1>4. \A x \in Director : x # d => dir[x].pc = "off"
  BY <1>3, OneAtWork
<1> QED
  BY <1>3, <1>4

LEMMA ClosedStep ==
    ASSUME Orderly, Next, ~past'.raced, ~past'.cut
    PROVE  ClosedRounds'
<1> USE RowsType DEF Orderly
<1>0. N \in Nat /\ N >= 5 /\ N = Len(rows)
  BY DEF N, TypeOK
<1>1. Done(5) /\ flow \in Terminal => Done(5)' /\ flow' \in Terminal
  BY DoneStays, FlowStep DEF Done
<1>2. N' > 5 => Done(5)' /\ flow' \in Terminal
  BY <1>1, LongerRounds DEF N
<1>3. ASSUME NEW e \in Director, dir'[e].pc = "status", rows'[5].status = "completed"
      PROVE  dir'[e].say \in Terminal
  <2>1. Done(5)
    BY <1>3, DoneFive
  <2>2. \A x \in Director : dir[x].pc = "status" => dir[x].say \in Terminal
    BY <2>1 DEF ClosedRounds, At
  <2>3. CASE Verdict(e)
    <3>1. dir'[e].say = FlowOf /\ dir[e].pc = "verdict"
      BY <2>3, VerdictEffect DEF Turns, At
    <3> QED
      BY <2>1, <3>1, VerdictTerminal
  <2>4. CASE Status(e)
    <3>1. dir[e].gated
      BY <2>4, StatusEffect, OneAtWork DEF At
    <3> QED
      BY <1>3, <2>4, <3>1, StatusEffect DEF Ahead, Turns
  <2>5. ~Read(e)
    BY <1>3, ReadEffect DEF Turns
  <2>6. ~AddScript(e) /\ ~AddReview(e)
    BY <1>3, AddScriptEffect, AddReviewEffect DEF Turns
  <2> QED
    BY <1>3, <2>2, <2>3, <2>4, <2>5, <2>6, PcStep
<1>4. ASSUME NEW e \in Director, dir'[e].pc = "read", rows'[5].status = "completed"
      PROVE  flow' \in Terminal
  <2>1. Done(5)
    BY <1>3, <1>4, DoneFive
  <2>2. ASSUME NEW x \in Director, dir[x].pc = "read" PROVE flow' \in Terminal
    BY <1>1, <2>1, <2>2 DEF ClosedRounds, At
  <2>3. CASE Status(e)
    BY <2>1, <2>3, StatusEffect DEF ClosedRounds
  <2>4. ~Verdict(e)
    BY <1>4, VerdictEffect DEF Turns
  <2>5. ~Read(e)
    BY <1>4, ReadEffect DEF Turns
  <2>6. ~AddScript(e) /\ ~AddReview(e)
    BY <1>4, AddScriptEffect, AddReviewEffect DEF Turns
  <2> QED
    BY <1>4, <2>2, <2>3, <2>4, <2>5, <2>6, PcStep
<1>5. ASSUME NEW e \in Director, dir'[e].pc = "script"
      PROVE  Done(5)' /\ flow' \in Terminal
  <2>1. ASSUME NEW x \in Director, dir[x].pc = "script"
        PROVE  Done(5)' /\ flow' \in Terminal
    BY <1>1, <2>1 DEF ClosedRounds, At
  <2>2. CASE Read(e)
    <3> DEFINE say == OutcomeOf(dir[e].attempt)
    <3>1. dir[e].attempt \in Nat
      BY DirType DEF DirRecord
    <3>2. say \in Closing \cup {"unknown", "ready", "needs_you", "revise"}
      BY <3>1, OutcomeType
    <3>3. dir'[e].pc = PointOf(say) /\ dir[e].pc = "read"
      BY <2>2, ReadEffect DEF Turns, At
    <3>4. say = "revise" => last.review # 0
      BY <3>1, OutcomeType
    <3> HIDE DEF say
    <3>5. say = "revise"
      BY <1>5, <3>2, <3>3 DEF PointOf
    <3>6. Done(5)
      <4>1. CASE N > 5
        BY <4>1 DEF ClosedRounds
      <4>2. CASE N = 5
        <5>1. last.review \in 1..5 /\ rows[last.review].kind = "review"
          BY <3>4, <3>5, <4>2 DEF PlanKept, N
        <5>2. last.review = 5
          BY <5>1, PlanEdges
        <5> QED
          BY <5>2 DEF PlanKept
      <4> QED
        BY <1>0, <4>1, <4>2
    <3>7. flow \in Terminal
      BY <3>3, <3>6 DEF ClosedRounds, At
    <3> QED
      BY <1>1, <3>6, <3>7
  <2>3. ~Verdict(e)
    BY <1>5, VerdictEffect DEF Turns
  <2>4. ~Status(e)
    <3> SUFFICES ASSUME Status(e) PROVE FALSE
      OBVIOUS
    <3>1. dir[e].gated
      BY StatusEffect, OneAtWork DEF At
    <3> QED
      BY <1>5, <3>1, StatusEffect DEF Ahead, Turns
  <2>5. ~AddScript(e) /\ ~AddReview(e)
    BY <1>5, AddScriptEffect, AddReviewEffect DEF Turns
  <2> QED
    BY <1>5, <2>1, <2>2, <2>3, <2>4, <2>5, PcStep
<1> QED
  BY <1>2, <1>3, <1>4, <1>5 DEF ClosedRounds, At, Done

\* A package that passed stays one.
LEMMA PassedStays ==
    ASSUME Orderly, Next, NEW pkg, Passed(pkg)
    PROVE  \E s \in DOMAIN rows' : /\ rows'[s].kind = "review"
                                   /\ rows'[s].status = "completed"
                                   /\ rows'[s].says = "pass"
                                   /\ rows'[s].of = {pkg}
BY RowsStay DEF Passed, Done

\* A step that neither completes a run nor adds to the rows.
Ordinary ==
    /\ ~\E d \in Director : AddScript(d) \/ AddReview(d)
    /\ ~\E d \in Director : \E r \in dir[d].runs : Complete(d, r)

LEMMA OrdinaryRows ==
    ASSUME Orderly, Next, Ordinary
    PROVE  /\ last' = last /\ N' = N /\ DOMAIN rows' = DOMAIN rows
           /\ \A s \in DOMAIN rows : /\ rows'[s].says = rows[s].says
                                     /\ rows'[s].of = rows[s].of
                                     /\ rows'[s].kind = rows[s].kind
           /\ \A s \in DOMAIN rows : Done(s) <=> rows'[s].status = "completed"
<1> USE DEF Orderly
<1>1. \A s \in DOMAIN rows : Done(s) <=> rows'[s].status = "completed"
  BY DoneBy, RowsStay DEF Ordinary, Done
<1> DEFINE Q == /\ last' = last /\ Len(rows') = Len(rows)
                /\ DOMAIN rows' = DOMAIN rows
                /\ \A s \in DOMAIN rows : /\ rows'[s].says = rows[s].says
                                          /\ rows'[s].of = rows[s].of
                                          /\ rows'[s].kind = rows[s].kind
<1>2. ASSUME RowsAside PROVE Q
  BY <1>2 DEF RowsAside
<1>3. ASSUME NEW d \in Director, CancelTasks(d) PROVE Q
  BY <1>3, CancelTasksEffect DEF SameSteps
<1>4. ASSUME NEW d \in Director, Wire(d) PROVE Q
  BY <1>4, WireEffect DEF SameSteps
<1>5. ASSUME NEW s \in DOMAIN rows, NEW status, Rewrites(s, status), last' = last,
             rows'[s].says = rows[s].says, rows'[s].of = rows[s].of
      PROVE  Q
  BY <1>5 DEF Rewrites
<1>6. ASSUME NEW d \in Director, NEW s \in dir[d].waits, Claim(d, s) PROVE Q
  <2>1. CASE rows' = rows
    BY <1>6, <2>1, ClaimEffect
  <2>2. CASE rows' # rows
    BY <1>5, <1>6, <2>2, ClaimEffect
  <2> QED
    BY <2>1, <2>2
<1>7. ASSUME NEW d \in Director, NEW r \in dir[d].runs, Fail(d, r) PROVE Q
  BY <1>5, <1>7, FailEffect
<1>8. ASSUME NEW s \in DOMAIN rows, Recover(s) PROVE Q
  BY <1>5, <1>8, RecoverEffect
<1>9. Q
  BY <1>2, <1>3, <1>4, <1>6, <1>7, <1>8, RowSteps DEF Ordinary
<1> QED
  BY <1>1, <1>9 DEF N

\* The newest script stays the newest.
LEMMA OrdinaryNewest ==
    ASSUME Orderly, Next, Ordinary, ~past'.cut
    PROVE  Newest' = Newest
<1> USE RowsType DEF Orderly
<1>1. N' = N
  BY OrdinaryRows
<1>2. ASSUME NEW d \in Director, dir[d].pc = "review" PROVE dir' = dir
  <2>1. \A e \in Director : e # d => dir[e].pc = "off" /\ dir[e].runs = {}
                                     /\ dir[e].waits = {}
    BY <1>2, OneAtWork
  <2>2. dir[d].runs = {} /\ dir[d].waits = {}
    BY <1>2 DEF LocalsSound
  <2>3. N > 5
    <3>1. N \in Nat /\ N >= 5
      BY DEF N, TypeOK
    <3>2. N # 5
      BY <1>2, ShortFacts DEF Plain
    <3> QED
      BY <3>1, <3>2
  <2>4. ASSUME NEW e \in Director PROVE ~Advance(e)
    <3>1. dir[e].pc \in {"off", "review"} /\ dir[e].runs = {} /\ dir[e].waits = {}
      BY <1>2, <2>1, <2>2
    <3>2. ~AddReview(e)
      BY DEF Ordinary
    <3> QED
      BY <3>1, <3>2 DEF Advance, OpenPiece, Look, Gate, Waved, CancelTasks,
         CancelFlow, Verdict, Status, Read, AskFlow, Close, Record, RecordLost, AddScript,
         Wire, At
  <2>5. \E answer \in {"approved", "discarded"} : Decide(answer)
    BY <2>3, <2>4, RevisionSteps DEF Next
  <2> QED
    BY <2>5 DEF Decide
<1>3. ASSUME NEW e \in Director, dir'[e].pc = "review"
      PROVE  \E d \in Director : dir[d].pc = "review"
  <2>1. ~Verdict(e)
    BY <1>3, VerdictEffect DEF Turns
  <2>2. ~Status(e)
    <3> SUFFICES ASSUME Status(e) PROVE FALSE
      OBVIOUS
    <3>1. dir[e].gated
      BY StatusEffect, OneAtWork DEF At
    <3> QED
      BY <1>3, <3>1, StatusEffect DEF Ahead, Turns
  <2>3. ~Read(e)
    BY <1>3, ReadEffect DEF Turns
  <2> QED
    BY <1>3, <2>1, <2>2, <2>3, PcStep DEF Ordinary
<1>4. (\E e \in Director : dir'[e].pc = "review") <=>
      (\E e \in Director : dir[e].pc = "review")
  BY <1>2, <1>3
<1> QED
  BY <1>1, <1>4 DEF Newest, At

\* What the newest pair says of the package.
NewestSays ==
    /\ Done(Newest) => last.script = Newest
    /\ VerdictOf = "pass" =>
          /\ last.review = N /\ Done(N) /\ rows[N].of = {N - 1}
          /\ last.script = N - 1
          /\ \A d \in Director : dir[d].pc \notin {"script", "review", "wire"}

LEMMA VerdictRow ==
    ASSUME PlanKept
    PROVE  /\ VerdictOf = "pass" <=> /\ last.review # 0
                                     /\ rows[last.review].says = "pass"
           /\ last.review # 0 => last.review \in DOMAIN rows
BY DEF VerdictOf, PlanKept

LEMMA SaysOrdinary ==
    ASSUME Orderly, Next, Ordinary, ~past'.cut
    PROVE  NewestSays'
<1> USE RowsType DEF Orderly
<1>1. /\ last' = last /\ N' = N /\ DOMAIN rows' = DOMAIN rows
      /\ \A s \in DOMAIN rows : /\ rows'[s].says = rows[s].says
                                /\ rows'[s].of = rows[s].of
                                /\ rows'[s].kind = rows[s].kind
      /\ \A s \in DOMAIN rows : Done(s) <=> rows'[s].status = "completed"
      /\ Newest' = Newest
  BY OrdinaryRows, OrdinaryNewest
<1>2. N \in DOMAIN rows /\ Newest \in DOMAIN rows
  BY DEF N, Newest, TypeOK
<1>3. rows'[Newest].status = "completed" => last'.script = Newest
  BY <1>1, <1>2 DEF PassSound
<1>4. ASSUME VerdictOf' = "pass" PROVE VerdictOf = "pass"
  <2>1. last.review # 0 /\ rows'[last.review].says = "pass"
    BY <1>1, <1>4 DEF VerdictOf
  <2> QED
    BY <1>1, <2>1, VerdictRow
<1>5. ASSUME VerdictOf = "pass", NEW e \in Director
      PROVE  dir'[e].pc \notin {"script", "review", "wire"}
  <2>1. \A x \in Director : dir[x].pc \notin {"script", "review", "wire"}
    BY <1>5 DEF PassSound
  <2>2. CASE Verdict(e)
    BY <2>2, VerdictEffect DEF Turns
  <2>3. CASE Status(e)
    <3>1. dir[e].gated
      BY <2>3, StatusEffect, OneAtWork DEF At
    <3> QED
      BY <2>3, <3>1, StatusEffect DEF Ahead, Turns
  <2>4. CASE Read(e)
    <3> DEFINE say == OutcomeOf(dir[e].attempt)
    <3>1. dir[e].attempt \in Nat
      BY DirType DEF DirRecord
    <3>2. say # "revise"
      BY <1>5, <3>1, OutcomeType
    <3>3. /\ dir'[e].pc = PointOf(say)
          /\ PointOf(say) \in {"close", "script", "ask", "record"}
      BY <2>4, ReadEffect DEF Turns
    <3> HIDE DEF say
    <3> QED
      BY <3>2, <3>3 DEF PointOf
  <2> QED
    BY <2>1, <2>2, <2>3, <2>4, PcStep DEF Ordinary
<1>6. VerdictOf' = "pass" =>
        /\ last'.review = N /\ rows'[N].status = "completed"
        /\ rows'[N].of = {N - 1} /\ last'.script = N - 1
        /\ \A e \in Director : dir'[e].pc \notin {"script", "review", "wire"}
  BY <1>1, <1>2, <1>4, <1>5 DEF PassSound
<1> QED
  BY <1>1, <1>3, <1>6 DEF NewestSays, Done

LEMMA SaysAdded ==
    ASSUME Orderly, NEW d \in Director, AddScript(d) \/ AddReview(d)
    PROVE  NewestSays'
<1> USE RowsType DEF Orderly
<1>1. \/ /\ dir[d].pc = "script" /\ Adds("script") /\ dir'[d].pc = "review"
         /\ \A e \in Director : e # d => dir'[e] = dir[e]
      \/ /\ dir[d].pc = "review" /\ Adds("review") /\ dir'[d].pc = "wire"
         /\ \A e \in Director : e # d => dir'[e] = dir[e]
  BY AddScriptEffect, AddReviewEffect DEF Turns, At
<1>2. last' = last /\ N' = N + 1 /\ DOMAIN rows = 1..N /\ N \in Nat /\ N >= 5
  BY <1>1 DEF AddScript, AddReview, Adds, N, TypeOK
<1>3. \A e \in Director : e # d => dir[e].pc = "off"
  BY <1>1, OneAtWork
<1>4. VerdictOf # "pass"
  BY <1>1 DEF PassSound
<1>5. VerdictOf' # "pass"
  <2>1. \A s \in DOMAIN rows : rows'[s] = rows[s]
    BY <1>1 DEF Adds
  <2>2. last.review # 0 => rows'[last.review] = rows[last.review]
    BY <2>1, VerdictRow
  <2> QED
    BY <1>2, <1>4, <2>2, VerdictRow DEF VerdictOf
<1>6. rows'[Newest'].status = "completed" => last'.script = Newest'
  <2>1. CASE dir[d].pc = "script"
    <3>1. Newest' = N + 1
      BY <1>1, <1>2, <2>1 DEF Newest, At
    <3>2. rows'[N + 1].status = "queued"
      BY <1>1, <2>1 DEF Adds, N
    <3> QED
      BY <3>1, <3>2
  <2>2. CASE dir[d].pc = "review"
    <3>1. dir'[d].pc = "wire" /\ \A e \in Director : dir'[e].pc # "review"
      BY <1>1, <1>3, <2>2
    <3>2. Newest' = N /\ Newest = N
      BY <1>2, <2>2, <3>1 DEF Newest, At
    <3>3. rows'[N] = rows[N]
      BY <1>1, <1>2 DEF Adds
    <3> QED
      BY <1>2, <3>2, <3>3 DEF PassSound, Done
  <2> QED
    BY <1>1, <2>1, <2>2
<1> QED
  BY <1>5, <1>6 DEF NewestSays, Done

LEMMA SaysCompleted ==
    ASSUME Orderly, NEW d \in Director, NEW r \in dir[d].runs, Complete(d, r)
    PROVE  NewestSays'
<1> USE RowsType DEF Orderly
<1>1. /\ dir[d].pc = "work" /\ r.step \in DOMAIN rows
      /\ Rewrites(r.step, "completed")
      /\ rows'[r.step].says \in Says(rows[r.step].kind)
      /\ rows'[r.step].of \in Briefs(r)
      /\ last'.script = IF rows[r.step].kind = "script" THEN r.step
                        ELSE last.script
      /\ last'.review = IF rows[r.step].kind = "review" THEN r.step
                        ELSE last.review
      /\ Turns(d, "work", dir[d].waits, dir[d].runs \ {r}, dir[d].say,
               dir[d].pkg, dir[d].mine)
  BY CompleteEffect DEF At
<1>2. \A e \in Director : dir'[e].pc \in {"off", "work"}
  BY <1>1, OneAtWork DEF Turns
<1>3. /\ Plain /\ ~Done(r.step) /\ r.of = rows[r.step].after
      /\ r.step = N => Done(N - 1)
      /\ r.step = N - 1 => ~Done(N)
      /\ N > 5 => r.step \in {N - 1, N}
  BY WorkFacts
<1>4. /\ Newest = N - 1 /\ rows[N - 1].kind = "script" /\ rows[N].kind = "review"
      /\ rows[N].after = {N - 1} /\ N - 1 \in DOMAIN rows /\ N \in DOMAIN rows
  BY <1>3, PlainFacts
<1>5. /\ N' = N /\ N \in Nat /\ N >= 5 /\ DOMAIN rows = 1..N /\ Newest' = N - 1
      /\ \A s \in DOMAIN rows : s # r.step => rows'[s] = rows[s]
      /\ rows'[r.step].status = "completed"
  BY <1>1, <1>2 DEF N, Newest, Rewrites, TypeOK, At
<1>6. rows[r.step].kind = "script" => r.step = N - 1
  <2>1. CASE N = 5
    BY <1>1, <1>5, <2>1, PlanEdges
  <2>2. CASE N > 5
    BY <1>3, <1>4, <2>2
  <2> QED
    BY <1>5, <2>1, <2>2
<1>7. rows[r.step].kind = "review" => r.step = N
  <2>1. CASE N = 5
    BY <1>1, <1>5, <2>1, PlanEdges
  <2>2. CASE N > 5
    BY <1>3, <1>4, <2>2
  <2> QED
    BY <1>5, <2>1, <2>2
<1>8. rows'[N - 1].status = "completed" => last'.script = N - 1
  <2>1. CASE r.step = N - 1
    BY <1>1, <1>4, <2>1
  <2>2. CASE r.step # N - 1
    <3>1. rows'[N - 1] = rows[N - 1] /\ last'.script = last.script
      BY <1>1, <1>4, <1>5, <1>6, <2>2
    <3> QED
      BY <1>4, <3>1 DEF PassSound, Done
  <2> QED
    BY <2>1, <2>2
<1>9. ASSUME VerdictOf' = "pass"
      PROVE  /\ last'.review = N /\ rows'[N].status = "completed"
             /\ rows'[N].of = {N - 1} /\ last'.script = N - 1
  <2>1. CASE r.step = N
    <3>1. last'.review = N /\ rows'[N].status = "completed"
      BY <1>1, <1>4, <1>5, <2>1
    <3>2. Done(N - 1) /\ r.of = {N - 1} /\ N - 1 # N
      BY <1>3, <1>4, <1>5, <2>1
    <3>3. last'.script = N - 1
      BY <1>4, <1>5, <1>8, <2>1, <3>2 DEF Done
    <3>4. Briefs(r) = {{N - 1}}
      BY <1>4, <2>1, <3>2 DEF Briefs
    <3> QED
      BY <1>1, <2>1, <3>1, <3>3, <3>4
  <2>2. CASE r.step # N
    <3>1. last'.review = last.review
      BY <1>1, <1>7, <2>2
    <3>2. last.review # 0
      BY <1>9, <3>1 DEF VerdictOf
    <3>3. last.review \in DOMAIN rows /\ rows[last.review].kind = "review"
      BY <3>2 DEF PlanKept
    <3>4. last.review # r.step
      BY <1>7, <2>2, <3>3
    <3>5. VerdictOf = "pass"
      BY <1>5, <1>9, <3>1, <3>3, <3>4 DEF VerdictOf
    <3>6. last.review = N /\ Done(N) /\ rows[N].of = {N - 1} /\ last.script = N - 1
      BY <3>5 DEF PassSound
    <3>7. r.step # N - 1
      BY <1>3, <3>6
    <3> QED
      BY <1>1, <1>4, <1>5, <1>6, <2>2, <3>1, <3>6, <3>7 DEF Done
  <2> QED
    BY <2>1, <2>2
<1> QED
  BY <1>2, <1>5, <1>8, <1>9 DEF NewestSays, Done

LEMMA SaysStep ==
    ASSUME Orderly, Next, ~past'.cut
    PROVE  NewestSays'
BY SaysOrdinary, SaysAdded, SaysCompleted DEF Ordinary

LEMMA PassStep ==
    ASSUME Orderly, Next, ~past'.raced, ~past'.cut
    PROVE  PassSound'
<1> USE DEF Orderly
<1> DEFINE P(pkg) == \E s \in DOMAIN rows' : /\ rows'[s].kind = "review"
                                             /\ rows'[s].status = "completed"
                                             /\ rows'[s].says = "pass"
                                             /\ rows'[s].of = {pkg}
<1>1. \A pkg : Passed(pkg) => P(pkg)
  BY PassedStays
<1> HIDE DEF P
<1>2. \A x \in Director : dir[x].pc = "record" /\ dir[x].say = "ready" =>
        dir[x].pkg # 0 /\ P(dir[x].pkg)
  BY <1>1 DEF PassSound, At
<1>3. ASSUME NEW e \in Director, dir'[e].pc = "record", dir'[e].say = "ready"
      PROVE  dir'[e].pkg # 0 /\ P(dir'[e].pkg)
  <2>1. ~Verdict(e)
    BY <1>3, VerdictEffect DEF Turns
  <2>2. ~Status(e)
    <3> SUFFICES ASSUME Status(e) PROVE FALSE
      OBVIOUS
    <3>1. dir[e].gated
      BY StatusEffect, OneAtWork DEF At
    <3> QED
      BY <1>3, <3>1, StatusEffect DEF Ahead, Turns
  <2>3. ~AddScript(e) /\ ~AddReview(e)
    BY <1>3, AddScriptEffect, AddReviewEffect DEF Turns
  <2>4. CASE Read(e)
    <3>1. dir'[e].say = OutcomeOf(dir[e].attempt) /\ dir'[e].pkg = last.script
      BY <2>4, ReadEffect DEF Turns
    <3>2. dir[e].attempt \in Nat
      BY DirType DEF DirRecord
    <3>3. VerdictOf = "pass"
      BY <1>3, <3>1, <3>2, OutcomeType
    <3>4. /\ last.review = N /\ Done(N) /\ rows[N].of = {N - 1}
          /\ last.script = N - 1
      BY <3>3 DEF PassSound
    <3>5. /\ N \in DOMAIN rows /\ rows[N].kind = "review" /\ rows[N].says = "pass"
          /\ N \in Nat /\ N >= 5
      BY <3>3, <3>4, VerdictRow, RowsType DEF PlanKept, N, TypeOK
    <3>6. Passed(N - 1)
      BY <3>4, <3>5 DEF Passed
    <3> QED
      BY <1>1, <3>1, <3>4, <3>5, <3>6
  <2>5. CASE \E x \in Director : /\ dir'[e].pc = dir[x].pc
                                 /\ dir'[e].say = dir[x].say
                                 /\ dir'[e].pkg = dir[x].pkg
    BY <1>2, <1>3, <2>5
  <2> QED
    BY <1>3, <2>1, <2>2, <2>3, <2>4, <2>5, PcStep
<1>4. ASSUME piece'.state = "ready" PROVE P(piece'.pkg)
  <2>1. CASE piece' = piece
    BY <1>1, <1>4, <2>1 DEF PassSound
  <2>2. ASSUME NEW d \in Director, OpenPiece(d) PROVE FALSE
    BY <1>4, <2>2, OpenPieceEffect
  <2>3. ASSUME NEW d \in Director, Record(d) PROVE P(piece'.pkg)
    BY <1>2, <1>4, <2>3, RecordEffect DEF At
  <2>4. CASE Abandon
    BY <1>4, <2>1, <2>4, AbandonEffect
  <2>5. ASSUME NEW answer \in {"approved", "discarded"}, Decide(answer)
        PROVE  FALSE
    BY <1>4, <2>5, DecideEffect
  <2> QED
    BY <2>1, <2>2, <2>3, <2>4, <2>5, PieceSteps
<1>5. NewestSays'
  BY SaysStep
<1> QED
  BY <1>3, <1>4, <1>5 DEF PassSound, NewestSays, Passed, Done, At, P

LEMMA RoundsStep ==
    ASSUME TypeOK, LocalsSound, PlanKept, StepsSound, ClaimsSound,
           DirectorsSound, RoundsSound, Next
    PROVE  RoundsSound'
<1> SUFFICES ASSUME ~past'.raced, ~past'.cut
             PROVE  (PairsSound /\ ClosedRounds /\ PassSound)'
  BY DEF RoundsSound
<1>1. Orderly
  BY PastGrows DEF Orderly, RoundsSound
<1> QED
  BY <1>1, PairsStep, ClosedStep, PassStep
-----------------------------------------------------------------------------
(* The theorems *)

\* How a piece begins.
LEMMA InitFacts ==
    ASSUME Init
    PROVE  /\ rows = Plan /\ Len(rows) = 5 /\ DOMAIN rows = 1..5
           /\ rows[1].status = "queued"
           /\ \A s \in 2..5 : rows[s].status = "blocked"
           /\ \A s \in 1..5 : rows[s].after = {} => s = 1
           /\ last = [script |-> 0, review |-> 0] /\ flow = "running"
           /\ piece = [state |-> "none", pkg |-> 0]
           /\ past = [raced |-> FALSE, died |-> FALSE, cut |-> FALSE,
                      stale |-> FALSE, calm |-> FALSE, unsaid |-> FALSE]
           /\ 1 \in Director /\ dir \in [Director -> DirRecord]
           /\ dir[1].pc = "open" /\ dir[1].gated = TRUE
           /\ dir[1].waits = {} /\ dir[1].runs = {} /\ dir[1].say = "none"
           /\ \A d \in Director : d # 1 => dir[d] = Off
<1>1. 1 \in Director
  BY MediaAssumption DEF Director
<1>2. [Off EXCEPT !.pc = "open"] \in DirRecord
  BY Records DEF DirRecord, Points
<1>3. dir = [[d \in Director |-> Off] EXCEPT ![1] = [@ EXCEPT !.pc = "open"]]
  BY DEF Init
<1>4. /\ dir \in [Director -> DirRecord]
      /\ dir[1] = [Off EXCEPT !.pc = "open"]
      /\ \A d \in Director : d # 1 => dir[d] = Off
  BY <1>1, <1>2, <1>3, Records
<1>5. /\ dir[1].pc = "open" /\ dir[1].gated = TRUE /\ dir[1].waits = {}
      /\ dir[1].runs = {} /\ dir[1].say = "none"
  BY <1>4 DEF Off
<1>6. /\ Plan[1].status = "queued" /\ Plan[2].status = "blocked"
      /\ Plan[3].status = "blocked" /\ Plan[4].status = "blocked"
      /\ Plan[5].status = "blocked"
      /\ Plan[2].after # {} /\ Plan[3].after # {} /\ Plan[4].after # {}
      /\ Plan[5].after # {}
  BY DEF Plan, Step
<1>7. /\ rows = Plan /\ last = [script |-> 0, review |-> 0] /\ flow = "running"
      /\ piece = [state |-> "none", pkg |-> 0]
      /\ past = [raced |-> FALSE, died |-> FALSE, cut |-> FALSE,
                 stale |-> FALSE, calm |-> FALSE, unsaid |-> FALSE]
  BY DEF Init
<1>8. Len(rows) = 5 /\ DOMAIN rows = 1..5
  BY <1>7, Records
<1>9. /\ rows[1].status = "queued"
      /\ \A s \in 2..5 : rows[s].status = "blocked"
      /\ \A s \in 1..5 : rows[s].after = {} => s = 1
  BY <1>6, <1>7
<1> QED
  BY <1>1, <1>4, <1>5, <1>7, <1>8, <1>9

LEMMA InitSound ==
    Init => IInv
<1> SUFFICES ASSUME Init PROVE IInv
  OBVIOUS
<1> USE InitFacts
<1>1. TypeOK
  BY Records DEF TypeOK, Flows, States, Recorded, Init
<1>2. \A d \in Director : /\ dir[d].pc \in {"open", "off"}
                          /\ dir[d].waits = {} /\ dir[d].runs = {}
                          /\ dir[d].gated = TRUE
                          /\ dir[d].pc = "open" => d = 1
  BY OffFields
<1>3. \A s \in DOMAIN rows : ~Done(s) /\ rows[s].status \in {"queued", "blocked"}
  BY DEF Done
<1>4. LocalsSound
  BY <1>2 DEF LocalsSound, At
<1>5. PlanKept
  BY DEF PlanKept
<1>6. StepsSound
  <2>1. \A s \in 1..5 : Begun(s) => s = 1
    BY <1>2, <1>3 DEF Begun, At
  <2>2. rows[1].after = {}
    BY <1>1, <1>5, PlanEdges
  <2> QED
    BY <1>2, <2>1, <2>2 DEF StepsSound
<1>7. ~Contradicted
  BY <1>3 DEF Contradicted, Saying
<1>8. ClaimsSound
  <2>1. ~Done(2) /\ last.review = 0 /\ piece.state \notin Deskbound
    BY <1>3 DEF Deskbound
  <2>2. \A d \in Director :
           dir[d].pc \notin {"script", "review", "record", "cancel", "flow"}
    BY <1>2
  <2> HIDE InitFacts
  <2>3. Len(rows) = 5
    BY InitFacts
  <2>4. ~(Len(rows) > 5)
    BY <2>3
  <2> QED
    BY <2>1, <2>2, <2>4 DEF ClaimsSound, At
<1>9. DirectorsSound
  BY <1>2 DEF DirectorsSound, Live, At
<1>10. GateSound
  BY <1>7 DEF GateSound
<1>11. RoundsSound
  <2>1. N = 5 /\ Newest = 4
    BY <1>2 DEF N, Newest, At
  <2>2. rows[4].kind = "script" /\ rows[5].kind = "review"
    BY <1>1, <1>5, PlanEdges
  <2>3. PairsSound
    BY <1>2, <2>1, <2>2 DEF PairsSound, Revised, At
  <2>4. ClosedRounds
    BY <1>2, <2>1 DEF ClosedRounds, At
  <2>5. PassSound
    BY <1>2, <1>3, <2>1 DEF PassSound, VerdictOf, At
  <2> QED
    BY <2>3, <2>4, <2>5 DEF RoundsSound
<1>12. Outlook
  BY DEF Outlook, Terminal
<1>13. AnswerSound
  BY DEF AnswerSound
<1> QED
  BY <1>1, <1>4, <1>5, <1>6, <1>8, <1>9, <1>10, <1>11, <1>12, <1>13 DEF IInv

LEMMA StutterSound ==
    ASSUME IInv, UNCHANGED vars
    PROVE  IInv'
<1> USE DEF vars
<1>1. TypeOK'
  BY DEF IInv, TypeOK
<1>2. LocalsSound' /\ PlanKept'
  BY DEF IInv, LocalsSound, PlanKept, At, Done
<1>3. StepsSound'
  BY DEF IInv, StepsSound, Begun, At, Done
<1>4. ClaimsSound'
  BY DEF IInv, ClaimsSound, Sound, Contradicted, Saying, At, Done
<1>5. DirectorsSound' /\ GateSound'
  BY DEF IInv, DirectorsSound, GateSound, Stopped, Live, Contradicted, Saying,
     At, Done
<1>6. RoundsSound'
  <2>1. PairsSound => PairsSound'
    BY DEF PairsSound, Revised, N, Newest, Settled, ScriptMade, ReviewMade,
       Unwired, Runner, At, Done
  <2>2. ClosedRounds => ClosedRounds'
    BY DEF ClosedRounds, N, At, Done
  <2>3. PassSound => PassSound'
    BY DEF PassSound, N, Newest, VerdictOf, Passed, At, Done
  <2> QED
    BY <2>1, <2>2, <2>3 DEF IInv, RoundsSound
<1>7. Outlook' /\ AnswerSound'
  BY DEF IInv, Outlook, AnswerSound, Pending, Live, Resumable, Open, Busy, At
<1> QED
  BY <1>1, <1>2, <1>3, <1>4, <1>5, <1>6, <1>7 DEF IInv

\* Whatever directors, crashes, ticks and the owner do, in any order: the plan
\* is worked through in its order, the claims gate what follows them, and an
\* undisturbed director adds its revisions pair by pair (director.run, _gate,
\* _settle, workflow.revision, resume_all).
THEOREM MediaInvariant == Spec => []IInv
<1>1. Init => IInv
  BY InitSound
<1>2. IInv /\ [Next]_vars => IInv'
  <2>1. ASSUME IInv, Next PROVE IInv'
    BY <2>1, TypeStep, LocalsStep, PlanStep, StepsStep, ClaimsStep,
       DirectorsStep, GateStep, RoundsStep, OutlookStep, AnswerStep DEF IInv
  <2> QED
    BY <2>1, StutterSound
<1> QED
  BY <1>1, <1>2, PTL DEF Spec

LEMMA DeskFollows ==
    IInv => DeskIsSound
<1> SUFFICES ASSUME IInv PROVE DeskIsSound
  OBVIOUS
<1>0. TypeOK /\ PlanKept
  BY DEF IInv
<1>1. Sound => ~Contradicted
  BY <1>0, VerifyRow DEF Sound
<1>2. piece.state \in Deskbound => ~Contradicted
  BY <1>1 DEF IInv, ClaimsSound
<1>3. ASSUME Contradicted, ~past.raced, ~past.died,
             NEW s \in DOMAIN rows, rows[s].kind = "script"
      PROVE  rows[s].status \in {"blocked", "cancelled"}
  <2>1. Len(rows) <= 5
    BY <1>0, <1>1, <1>3, RowsType DEF IInv, ClaimsSound
  <2>2. s \in 1..5
    BY <1>0, <2>1, RowsType
  <2>3. s = 4
    BY <1>0, <1>3, <2>2, PlanEdges
  <2> QED
    BY <1>3, <2>3 DEF IInv, GateSound, Stopped
<1>4. ASSUME piece.state = "ready", ~past.raced, ~past.cut
      PROVE  Passed(piece.pkg)
  BY <1>4 DEF IInv, RoundsSound, PassSound
<1> QED
  BY <1>2, <1>3, <1>4 DEF DeskIsSound, Passed

\* For any number of directors, revisions and restarts, what is on the owner's
\* desk does not rest on a contradicted claim, no script is begun on one, and
\* what is ready is the script that passed review (_gate, _settle,
\* verdict_of, package_of).
THEOREM DeskIsSoundTheorem == Spec => []DeskIsSound
BY MediaInvariant, DeskFollows, PTL

\* A closed workflow that nobody is at work on has left its piece with an
\* outcome (director._settle, _outcome, resume.unfinished).
THEOREM ClosedMeansSettledTheorem == Spec => []ClosedMeansSettled
<1>1. IInv => ClosedMeansSettled
  <2> SUFFICES ASSUME IInv, Live = {}, flow \in Terminal, ~past.cut, ~past.stale,
                      ~past.unsaid
               PROVE  piece.state \notin Unsettled
    BY DEF ClosedMeansSettled, Unsettled
  <2>1. \A d \in Director : ~Pending(d)
    BY DEF Live, Pending
  <2> QED
    BY <2>1 DEF IInv, Outlook
<1> QED
  BY <1>1, MediaInvariant, PTL

\* What the owner answers with nothing left to do is never undone, whatever
\* ticks and restarts follow (records.decide, resume.unfinished).
THEOREM AnswerIsFinalTheorem == Spec => AnswerIsFinal
<1> DEFINE Final == piece.state \in {"approved", "discarded"} /\ past.calm
                       => piece' = piece
<1>1. IInv /\ [Next]_vars => [Final]_vars
  BY AnswerStep DEF IInv
<1> QED
  BY <1>1, MediaInvariant, PTL DEF Spec, AnswerIsFinal

=============================================================================
