-------------------------- MODULE DevChangesProofs --------------------------
(***************************************************************************)
(* What TLAPS proves of the change JARVIS makes to its own code, for any   *)
(* number of builds, levels and events.                                    *)
(*                                                                         *)
(* Two taps may start two builds of one request, and the row, the branch   *)
(* and the worktree are shared.  What keeps them apart is the branch: git  *)
(* makes it only where there is none, and it may be deleted only when no   *)
(* build goes on.  So whoever made it is the only one who can commit, and  *)
(* whoever committed is the only one who can propose, be reviewed and act: *)
(* BranchOwned is the heart of the invariant.                              *)
(***************************************************************************)
EXTENDS DevChanges, SequenceTheorems, TLAPS

-----------------------------------------------------------------------------
(* Types *)

States == {"planned", "failed", "building", "proposed", "approved",
           "discarded", "refused"}
Stages == {"idle", "ask", "open", "write", "commit", "propose", "audit",
           "ceiling", "stop", "act"}
Written == [level : Level \cup {0}, tests : Tests, finding : BOOLEAN,
            seen : Level \cup {0}, whole : BOOLEAN]

Row == [state : States, by : {"none", "owner", "governor"},
        diff : Build \cup {Nothing}]
Call == [pc : Stages, diff : Written, allowed : 0..3,
         outcome : {"none", "refused", "ask", "autonomous"}]
Repo == [branch : Build \cup {Nothing, Fresh}, tree : Build \cup {Nothing},
         head : Nat, dirty : BOOLEAN]

TypeOK ==
    /\ row \in Row /\ plan \in {"none", "kept", "lost"}
    /\ build \in [Build -> Call]
    /\ ceiling \in 0..3 /\ stopped \in BOOLEAN
    /\ repo \in Repo
    /\ events \in Nat /\ peak \in [Build -> 0..3]

-----------------------------------------------------------------------------
(* The inductive invariant *)

Before == {"ask", "open", "write", "commit", "propose"}
UnderReview == {"audit", "ceiling", "stop", "act"}
Writing(b) == build[b].pc \in {"write", "commit"}
Committed(b) == build[b].pc \in UnderReview \cup {"propose"}

\* The row holds a diff that he sees or has answered.
Shown == row.state \in {"proposed", "approved", "discarded"}

\* The branch belongs to the one build that made it, and then holds what
\* that build committed, until every build is over.
BranchOwned ==
    /\ \A b \in Build : Writing(b) => repo.branch = Fresh
    /\ \A b, c \in Build : Writing(b) /\ Writing(c) => b = c
    /\ \A b \in Build : Committed(b) => repo.branch = b

\* Under review is what the row holds, and what the row shows is not being
\* made anew: while a build goes on the branch is there.
RowOwned ==
    /\ \A b \in Build : build[b].pc \in UnderReview => row.diff = b
    /\ Shown => /\ row.diff \in Build
                /\ repo.branch \in {row.diff, Nothing}
                /\ build[row.diff].pc \notin Before
                /\ repo.branch = Nothing =>
                      \A b \in Build : build[b].pc = "idle"

\* Nothing of the protected core is in a diff, and who is shown all of it sees
\* its level.
Sound(d) == d.level < 4 /\ (d.whole => d.seen = d.level)
NothingForbidden == \A b \in Build : Sound(build[b].diff)

\* The Governor compares with a ceiling that was in force since the proposal.
CeilingSound ==
    \A b \in Build :
       /\ build[b].pc \in {"audit", "ceiling"} => ceiling <= peak[b]
       /\ build[b].pc \in {"stop", "act"} => build[b].allowed <= peak[b]

\* What the Governor is about to approve is fit to be approved.
Fit(b) ==
    /\ build[b].diff.tests = "passed" /\ ~build[b].diff.finding
    /\ build[b].diff.seen <= peak[b]
    /\ build[b].diff.whole => build[b].diff.level <= peak[b]

OutcomeSound ==
    \A b \in Build : build[b].pc = "act" =>
       /\ build[b].outcome # "none"
       /\ build[b].outcome = "autonomous" => Fit(b)

ApprovalSound == ByGovernor => Fit(row.diff)

IInv ==
    /\ TypeOK /\ BranchOwned /\ RowOwned /\ NothingForbidden
    /\ CeilingSound /\ OutcomeSound /\ ApprovalSound
-----------------------------------------------------------------------------
(* Types are kept *)

\* A build that has nothing yet.
LEMMA IdleType == Idle \in Call /\ Idle.pc = "idle" /\ Sound(Idle.diff)
<1>1. Blank \in Written
  BY DEF Blank, Written, Tests
<1> QED
  BY <1>1 DEF Idle, Blank, Call, Stages, Sound

\* A level is a number.
LEMMA LevelType ==
    ASSUME TypeOK, NEW b \in Build
    PROVE  build[b].diff.level \in 0..4 /\ build[b].diff.seen \in 0..4
<1>1. /\ build[b].diff.level \in Level \cup {0}
      /\ build[b].diff.seen \in Level \cup {0}
  BY DEF TypeOK, Call, Written
<1>2. 0 \in 0..4 /\ Level \subseteq 0..4
  BY DevAssumption
<1> QED
  BY <1>1, <1>2

\* A build gets on, and changes nothing else.
LEMMA GoType ==
    ASSUME TypeOK, NEW b \in Build, NEW pc \in Stages, Go(b, pc)
    PROVE  /\ build' \in [Build -> Call]
           /\ build'[b].pc = pc /\ build'[b].diff = build[b].diff
           /\ build'[b].allowed = build[b].allowed
           /\ build'[b].outcome = build[b].outcome
           /\ \A c \in Build \ {b} : build'[c] = build[c]
<1>1. /\ [build[b] EXCEPT !.pc = pc] \in Call
      /\ [build[b] EXCEPT !.pc = pc].pc = pc
      /\ [build[b] EXCEPT !.pc = pc].diff = build[b].diff
      /\ [build[b] EXCEPT !.pc = pc].allowed = build[b].allowed
      /\ [build[b] EXCEPT !.pc = pc].outcome = build[b].outcome
  BY DEF TypeOK, Call
<1>2. build' = [build EXCEPT ![b] = [build[b] EXCEPT !.pc = pc]]
  BY DEF Go
<1> QED
  BY <1>1, <1>2 DEF TypeOK

\* A build that fails is over, and leaves the row to say so.
LEMMA FailsType ==
    ASSUME TypeOK, NEW b \in Build, Fails(b)
    PROVE  /\ build' \in [Build -> Call] /\ build'[b] = Idle
           /\ \A c \in Build \ {b} : build'[c] = build[c]
           /\ row' \in Row /\ row'.state = "failed" /\ row'.diff = row.diff
<1>1. build' = [build EXCEPT ![b] = Idle] /\ row' = [row EXCEPT !.state = "failed"]
  BY DEF Fails
<1>2. row' \in Row /\ row'.state = "failed" /\ row'.diff = row.diff
  BY <1>1 DEF TypeOK, Row, States
<1> QED
  BY <1>1, <1>2, IdleType DEF TypeOK

\* What git does to the repository.
LEMMA ClosedType ==
    ASSUME TypeOK
    PROVE  Closed \in Repo /\ Closed.branch = repo.branch
BY DEF TypeOK, Closed, Repo

\* What a build writes is in bounds, and what it commits is not forbidden.
LEMMA WriteType ==
    ASSUME TypeOK, NEW b \in Build, Write(b)
    PROVE  /\ build[b].pc = "write" /\ UNCHANGED <<ceiling, peak>>
           /\ build' \in [Build -> Call] /\ row' \in Row /\ repo' \in Repo
           /\ repo'.branch = repo.branch
           /\ \A c \in Build \ {b} : build'[c] = build[c]
           /\ \/ /\ build'[b].pc = "commit" /\ Sound(build'[b].diff)
                 /\ row' = row
              \/ /\ build'[b] = Idle
                 /\ row'.state = "failed" /\ row'.diff = row.diff
<1>0. build[b].pc = "write" /\ UNCHANGED <<ceiling, peak>>
  BY DEF Write, World, owner
<1>1. CASE Fails(b) /\ repo' = Closed
  BY <1>0, <1>1, FailsType, ClosedType
<1>2. ASSUME NEW d \in Inside,
             build' = [build EXCEPT ![b].pc = "commit", ![b].diff = d],
             UNCHANGED <<row, repo>>
      PROVE  /\ build' \in [Build -> Call]
             /\ \A c \in Build \ {b} : build'[c] = build[c]
             /\ build'[b].pc = "commit" /\ Sound(build'[b].diff)
  <2>1. d \in Written /\ Sound(d)
    <3>1. d \in Diff /\ d.level < 4
      BY DEF Inside
    <3> QED
      BY <3>1 DEF Diff, Written, Sound
  <2> DEFINE got == [build[b] EXCEPT !.pc = "commit", !.diff = d]
  <2>2. got \in Call /\ got.pc = "commit" /\ got.diff = d
    BY <2>1 DEF TypeOK, Call, Stages
  <2>3. build' = [build EXCEPT ![b] = got]
    BY <1>2
  <2> HIDE DEF got
  <2> QED
    BY <2>1, <2>2, <2>3 DEF TypeOK
<1>3. \/ Fails(b) /\ repo' = Closed
      \/ \E d \in Inside :
            /\ build' = [build EXCEPT ![b].pc = "commit", ![b].diff = d]
            /\ UNCHANGED <<row, repo>>
  BY Zenon DEF Write
<1> QED
  BY <1>0, <1>1, <1>2, <1>3 DEF TypeOK

LEMMA CommitType ==
    ASSUME TypeOK, NEW b \in Build, Commit(b)
    PROVE  /\ build[b].pc = "commit" /\ UNCHANGED <<ceiling, peak>>
           /\ build' \in [Build -> Call] /\ row' \in Row /\ repo' \in Repo
           /\ \A c \in Build \ {b} : build'[c] = build[c]
           /\ \/ /\ build'[b].pc = "propose" /\ Sound(build'[b].diff)
                 /\ row' = row /\ repo'.branch = b
              \/ /\ build'[b] = Idle /\ repo'.branch = repo.branch
                 /\ row'.state = "failed" /\ row'.diff = row.diff
<1>0. build[b].pc = "commit" /\ UNCHANGED <<ceiling, peak>>
  BY DEF Commit, World, owner
<1>1. CASE Fails(b) /\ repo' = Closed
  BY <1>0, <1>1, FailsType, ClosedType
<1> DEFINE d == build[b].diff
           Staged(stray) == IF stray > d.level THEN stray ELSE d.level
           New(stray, a) == [level |-> Staged(stray), tests |-> d.tests,
                             finding |-> a.finding, seen |-> a.seen,
                             whole |-> a.whole]
<1>2. ASSUME NEW stray \in {0} \cup Level,
             NEW a \in Audited(d, stray, Staged(stray)),
             ~Forbidden(Staged(stray)),
             repo' = [repo EXCEPT !.branch = b],
             build' = [build EXCEPT ![b].pc = "propose", ![b].diff = New(stray, a)],
             UNCHANGED row
      PROVE  /\ build' \in [Build -> Call] /\ repo' \in Repo
             /\ \A c \in Build \ {b} : build'[c] = build[c]
             /\ build'[b].pc = "propose" /\ Sound(build'[b].diff)
             /\ repo'.branch = b
  <2>1. d \in Written
    BY DEF TypeOK, Call
  <2>2. Found(d, stray) \in BOOLEAN /\ d.finding \in BOOLEAN
    BY <2>1 DEF Found, Written
  <2>3. Staged(stray) \in Level \cup {0} /\ Staged(stray) < 4
    BY <1>2, <2>1, DevAssumption DEF Forbidden, Written
  <2>8. /\ a.finding \in BOOLEAN /\ a.whole \in BOOLEAN
        /\ a.seen \in Level \cup {0} /\ (a.whole => a.seen = Staged(stray))
    <3> HIDE DEF Staged, d
    <3>1. a \in Audited(d, stray, Staged(stray))
      OBVIOUS
    <3>2. \/ a = [seen |-> Staged(stray), finding |-> Found(d, stray), whole |-> TRUE]
          \/ a = [seen |-> 0, finding |-> TRUE, whole |-> FALSE]
          \/ a \in [seen : {l \in Level : l <= Staged(stray)},
                   finding : {d.finding, Found(d, stray)}, whole : {FALSE}]
      BY <3>1, Zenon DEF Audited
    <3>3. CASE a = [seen |-> Staged(stray), finding |-> Found(d, stray), whole |-> TRUE]
      BY <2>2, <2>3, <3>3
    <3>4. CASE a = [seen |-> 0, finding |-> TRUE, whole |-> FALSE]
      BY <3>4
    <3>5. CASE a \in [seen : {l \in Level : l <= Staged(stray)},
                     finding : {d.finding, Found(d, stray)}, whole : {FALSE}]
      BY <2>2, <3>5
    <3> QED
      BY <3>2, <3>3, <3>4, <3>5
  <2>4. New(stray, a) \in Written /\ Sound(New(stray, a))
    BY <2>1, <2>3, <2>8 DEF Written, Sound
  <2> DEFINE got == [build[b] EXCEPT !.pc = "propose", !.diff = New(stray, a)]
  <2>5. build' = [build EXCEPT ![b] = got]
    BY <1>2
  <2> HIDE DEF New
  <2>6. got \in Call /\ got.pc = "propose" /\ got.diff = New(stray, a)
    BY <2>4 DEF TypeOK, Call, Stages
  <2> HIDE DEF got
  <2>7. repo' \in Repo /\ repo'.branch = b
    BY <1>2 DEF TypeOK, Repo
  <2> QED
    BY <2>4, <2>5, <2>6, <2>7 DEF TypeOK
<1>3. \/ Fails(b) /\ repo' = Closed
      \/ \E stray \in {0} \cup Level :
            \E a \in Audited(d, stray, Staged(stray)) :
               /\ ~Forbidden(Staged(stray))
               /\ repo' = [repo EXCEPT !.branch = b]
               /\ build' = [build EXCEPT ![b].pc = "propose",
                                         ![b].diff = New(stray, a)]
               /\ UNCHANGED row
  BY Zenon DEF Commit
<1> QED
  BY <1>0, <1>1, <1>2, <1>3 DEF TypeOK

\* The review ends in one of three words.
LEMMA ReviewType ==
    ASSUME TypeOK, NEW b \in Build, Review(b)
    PROVE  /\ build' \in [Build -> Call]
           /\ \A c \in Build \ {b} : build'[c] = build[c]
           /\ build'[b].pc = "act" /\ build'[b].diff = build[b].diff
           /\ build'[b].allowed = build[b].allowed
           /\ build'[b].outcome = Outcome(b)
<1>1. Outcome(b) \in {"none", "refused", "ask", "autonomous"}
  BY DEF Outcome
<1> DEFINE got == [build[b] EXCEPT !.pc = "act", !.outcome = Outcome(b)]
<1>2. /\ got \in Call /\ got.pc = "act" /\ got.diff = build[b].diff
      /\ got.allowed = build[b].allowed /\ got.outcome = Outcome(b)
  BY <1>1 DEF TypeOK, Call, Stages
<1>3. build' = [build EXCEPT ![b] = got]
  BY DEF Review
<1> HIDE DEF got
<1> QED
  BY <1>2, <1>3 DEF TypeOK

\* What the row says of a review.
LEMMA ActType ==
    ASSUME TypeOK, OutcomeSound, NEW b \in Build, Act(b)
    PROVE  /\ row' \in Row /\ row'.diff = row.diff
           /\ row'.state = "approved" =>
                 build[b].outcome = "autonomous" /\ row'.by = "governor"
           /\ row'.state \in {"approved", "proposed", "refused"}
           /\ Go(b, "idle") /\ repo' = Closed
<1>1. build[b].outcome \in {"refused", "ask", "autonomous"}
  BY DEF TypeOK, Call, OutcomeSound, Act
<1>2. CASE row' = Refused
  BY <1>2 DEF Refused, TypeOK, Row, States, Act, Go
<1>3. CASE row' = ApprovedByGovernor /\ build[b].outcome = "autonomous"
  BY <1>3 DEF ApprovedByGovernor, TypeOK, Row, States, Act, Go
<1>4. CASE row' = [row EXCEPT !.state = "proposed"]
  BY <1>4 DEF TypeOK, Row, States, Act, Go
<1> QED
  BY <1>1, <1>2, <1>3, <1>4 DEF Act

LEMMA TypeStep ==
    ASSUME TypeOK, OutcomeSound, [Next]_vars
    PROVE  TypeOK'
<1> USE DEF TypeOK
<1>1. CASE Plan
  <2>1. row' \in Row /\ plan' \in {"kept", "lost"}
    BY <1>1 DEF Plan, Planned, Row, States
  <2> QED
    BY <1>1, <2>1 DEF Plan
<1>2. ASSUME NEW b \in Build, Ask(b) PROVE TypeOK'
  <2>1. [Idle EXCEPT !.pc = "ask"] \in Call
    BY IdleType DEF Call, Stages
  <2> QED
    BY <1>2, <2>1 DEF Ask, Event, owner
<1>3. ASSUME NEW b \in Build, Begin(b) PROVE TypeOK'
  <2>1. row' \in Row
    BY <1>3 DEF Begin, Row, States
  <2> QED
    BY <1>3, <2>1, GoType DEF Begin, World, owner, Stages
<1>4. ASSUME NEW b \in Build, Open(b) PROVE TypeOK'
  <2>1. repo' \in Repo
    BY <1>4 DEF Open, Repo
  <2> QED
    BY <1>4, <2>1, GoType, FailsType DEF Open, World, owner, Stages
<1>5. ASSUME NEW b \in Build, Write(b) PROVE TypeOK'
  BY <1>5, WriteType DEF Write, World, owner
<1>6. ASSUME NEW b \in Build, Commit(b) PROVE TypeOK'
  BY <1>6, CommitType DEF Commit, World, owner
<1>7. ASSUME NEW b \in Build, Propose(b) PROVE TypeOK'
  <2>1. row' \in Row
    BY <1>7 DEF Propose, Row, States
  <2> QED
    BY <1>7, <2>1, GoType DEF Propose, World, owner, Stages
<1>8. ASSUME NEW b \in Build, Audit(b) PROVE TypeOK'
  BY <1>8, GoType DEF Audit, World, owner, Stages
<1>9. ASSUME NEW b \in Build, ReadCeiling(b) PROVE TypeOK'
  <2>1. [build[b] EXCEPT !.pc = "stop", !.allowed = ceiling] \in Call
    BY DEF Call, Stages
  <2> QED
    BY <1>9, <2>1 DEF ReadCeiling, World, owner
<1>10. ASSUME NEW b \in Build, Review(b) PROVE TypeOK'
  BY <1>10, ReviewType DEF Review, World, owner
<1>11. ASSUME NEW b \in Build, Act(b) PROVE TypeOK'
  BY <1>11, ActType, GoType, ClosedType DEF Act, World, owner, Stages
<1>12. ASSUME NEW state \in {"approved", "discarded"}, Decide(state)
       PROVE  TypeOK'
  <2>1. row' \in Row
    BY <1>12 DEF Decide, Row, States
  <2> QED
    BY <1>12, <2>1 DEF Decide, Event, owner
<1>13. ASSUME NEW level \in 0..4, SetCeiling(level) PROVE TypeOK'
  BY <1>13 DEF SetCeiling, Clamp, Event
<1>14. CASE ToggleStop
  BY <1>14 DEF ToggleStop, Event
<1>15. CASE AtTheRepository
  <2>1. repo' \in Repo
    <3>1. ASSUME NEW commit \in 1..Versions
          PROVE  [repo EXCEPT !.head = commit] \in Repo
      BY DevAssumption DEF Repo
    <3>2. [repo EXCEPT !.branch = Nothing, !.tree = Nothing] \in Repo
      BY DEF Repo
    <3>3. \A d \in BOOLEAN : [repo EXCEPT !.dirty = d] \in Repo
      BY DEF Repo
    <3>4. (~repo.dirty) \in BOOLEAN
      BY DEF Repo
    <3> QED
      BY <1>15, <3>1, <3>2, <3>3, <3>4, Zenon DEF AtTheRepository
  <2> QED
    BY <1>15, <2>1 DEF AtTheRepository, Event, owner
<1>16. CASE Restart
  <2>1. \A b \in Build : [build[b] EXCEPT !.pc = "idle"] \in Call
    BY DEF Call, Stages
  <2> QED
    BY <1>16, <2>1 DEF Restart, Event, owner
<1>17. CASE UNCHANGED vars
  BY <1>17 DEF vars, owner
<1> QED
  BY <1>1, <1>2, <1>3, <1>4, <1>5, <1>6, <1>7, <1>8, <1>9, <1>10, <1>11,
     <1>12, <1>13, <1>14, <1>15, <1>16, <1>17 DEF Next

-----------------------------------------------------------------------------
(* The invariant is kept *)

LEMMA AskStep ==
    ASSUME IInv, TypeOK', NEW b \in Build, Ask(b) PROVE IInv'
<1> USE DevAssumption DEF IInv, TypeOK
<1>1. BranchOwned'
  BY IdleType DEF Ask, MayBuild, owner, BranchOwned, Writing, Committed, UnderReview
<1>2. RowOwned'
  BY IdleType DEF Ask, MayBuild, owner, RowOwned, BranchOwned, Shown, Writing, Committed, UnderReview, Before
<1>3. NothingForbidden'
  BY IdleType DEF Ask, MayBuild, owner, NothingForbidden
<1>4. CeilingSound'
  BY IdleType DEF Ask, MayBuild, owner, CeilingSound
<1>5. OutcomeSound'
  BY IdleType DEF Ask, MayBuild, owner, OutcomeSound, Fit
<1>6. ApprovalSound'
  BY IdleType DEF Ask, MayBuild, owner, ApprovalSound, ByGovernor, Fit, RowOwned, Shown, Before
<1> QED
  BY <1>1, <1>2, <1>3, <1>4, <1>5, <1>6

LEMMA BeginStep ==
    ASSUME IInv, TypeOK', NEW b \in Build, Begin(b) PROVE IInv'
<1> USE DevAssumption DEF IInv, TypeOK
<1>1. BranchOwned'
  BY GoType DEF Begin, World, owner, Stages, BranchOwned, Writing, Committed, UnderReview
<1>2. RowOwned'
  BY GoType DEF Begin, World, owner, Stages, RowOwned, BranchOwned, Shown, Writing, Committed, UnderReview, Before
<1>3. NothingForbidden'
  BY GoType DEF Begin, World, owner, Stages, NothingForbidden
<1>4. CeilingSound'
  BY GoType DEF Begin, World, owner, Stages, CeilingSound
<1>5. OutcomeSound'
  BY GoType DEF Begin, World, owner, Stages, OutcomeSound, Fit
<1>6. ApprovalSound'
  BY GoType DEF Begin, World, owner, Stages, ApprovalSound, ByGovernor, Fit, RowOwned, Shown, Before
<1> QED
  BY <1>1, <1>2, <1>3, <1>4, <1>5, <1>6

LEMMA OpenStep ==
    ASSUME IInv, TypeOK', NEW b \in Build, Open(b) PROVE IInv'
<1> USE DevAssumption DEF IInv, TypeOK
<1>1. BranchOwned'
  <2>1. CASE Go(b, "write") /\ repo.branch = Nothing /\ repo'.branch = Fresh
    BY <2>1, GoType DEF Stages, BranchOwned, Writing, Committed, UnderReview
  <2>2. CASE Fails(b) /\ repo'.branch = repo.branch
    BY <2>2, FailsType, IdleType DEF BranchOwned, Writing, Committed, UnderReview
  <2> QED
    BY <2>1, <2>2 DEF Open, MayAdd, Repo
<1>2. RowOwned'
  BY GoType, FailsType, IdleType DEF Open, MayAdd, World, owner, Stages, RowOwned, BranchOwned, Shown, Writing, Committed, UnderReview, Before
<1>3. NothingForbidden'
  BY GoType, FailsType, IdleType DEF Open, MayAdd, World, owner, Stages, NothingForbidden
<1>4. CeilingSound'
  BY GoType, FailsType, IdleType DEF Open, MayAdd, World, owner, Stages, CeilingSound
<1>5. OutcomeSound'
  BY GoType, FailsType, IdleType DEF Open, MayAdd, World, owner, Stages, OutcomeSound, Fit
<1>6. ApprovalSound'
  BY GoType, FailsType, IdleType DEF Open, MayAdd, World, owner, Stages, ApprovalSound, ByGovernor, Fit, RowOwned, Shown, Before
<1> QED
  BY <1>1, <1>2, <1>3, <1>4, <1>5, <1>6

LEMMA WriteStep ==
    ASSUME IInv, TypeOK', NEW b \in Build, Write(b) PROVE IInv'
<1> USE DevAssumption DEF IInv, TypeOK
<1>1. BranchOwned'
  BY WriteType, IdleType DEF BranchOwned, Writing, Committed, UnderReview
<1>2. RowOwned'
  BY WriteType, IdleType DEF RowOwned, BranchOwned, Shown, Writing, Committed, UnderReview, Before
<1>3. NothingForbidden'
  BY WriteType, IdleType DEF NothingForbidden
<1>4. CeilingSound'
  BY WriteType, IdleType DEF CeilingSound
<1>5. OutcomeSound'
  BY WriteType, IdleType DEF OutcomeSound, Fit
<1>6. ApprovalSound'
  BY WriteType, IdleType DEF ApprovalSound, ByGovernor, Fit, RowOwned, Shown, Before
<1> QED
  BY <1>1, <1>2, <1>3, <1>4, <1>5, <1>6

LEMMA CommitStep ==
    ASSUME IInv, TypeOK', NEW b \in Build, Commit(b) PROVE IInv'
<1> USE DevAssumption DEF IInv, TypeOK
<1>1. BranchOwned'
  BY CommitType, IdleType DEF BranchOwned, Writing, Committed, UnderReview
<1>2. RowOwned'
  BY CommitType, IdleType DEF RowOwned, BranchOwned, Shown, Writing, Committed, UnderReview, Before
<1>3. NothingForbidden'
  BY CommitType, IdleType DEF NothingForbidden
<1>4. CeilingSound'
  BY CommitType, IdleType DEF CeilingSound
<1>5. OutcomeSound'
  BY CommitType, IdleType DEF OutcomeSound, Fit
<1>6. ApprovalSound'
  BY CommitType, IdleType DEF ApprovalSound, ByGovernor, Fit, RowOwned, Shown, Before
<1> QED
  BY <1>1, <1>2, <1>3, <1>4, <1>5, <1>6

LEMMA ProposeStep ==
    ASSUME IInv, TypeOK', NEW b \in Build, Propose(b) PROVE IInv'
<1> USE DevAssumption DEF IInv, TypeOK
<1>1. BranchOwned'
  BY GoType DEF Propose, World, owner, Stages, BranchOwned, Writing, Committed, UnderReview
<1>2. RowOwned'
  BY GoType DEF Propose, World, owner, Stages, RowOwned, BranchOwned, Shown, Writing, Committed, UnderReview, Before
<1>3. NothingForbidden'
  BY GoType DEF Propose, World, owner, Stages, NothingForbidden
<1>4. CeilingSound'
  BY GoType DEF Propose, World, owner, Stages, CeilingSound
<1>5. OutcomeSound'
  BY GoType DEF Propose, World, owner, Stages, OutcomeSound, Fit
<1>6. ApprovalSound'
  BY GoType DEF Propose, World, owner, Stages, ApprovalSound, ByGovernor, Fit, RowOwned, Shown, Before
<1> QED
  BY <1>1, <1>2, <1>3, <1>4, <1>5, <1>6

LEMMA AuditStep ==
    ASSUME IInv, TypeOK', NEW b \in Build, Audit(b) PROVE IInv'
<1> USE DevAssumption DEF IInv, TypeOK
<1>1. BranchOwned'
  BY GoType DEF Audit, World, owner, Stages, BranchOwned, Writing, Committed, UnderReview
<1>2. RowOwned'
  BY GoType DEF Audit, World, owner, Stages, RowOwned, BranchOwned, Shown, Writing, Committed, UnderReview, Before
<1>3. NothingForbidden'
  BY GoType DEF Audit, World, owner, Stages, NothingForbidden
<1>4. CeilingSound'
  BY GoType DEF Audit, World, owner, Stages, CeilingSound
<1>5. OutcomeSound'
  BY GoType DEF Audit, World, owner, Stages, OutcomeSound, Fit
<1>6. ApprovalSound'
  BY GoType DEF Audit, World, owner, Stages, ApprovalSound, ByGovernor, Fit, RowOwned, Shown, Before
<1> QED
  BY <1>1, <1>2, <1>3, <1>4, <1>5, <1>6

LEMMA ReadCeilingStep ==
    ASSUME IInv, TypeOK', NEW b \in Build, ReadCeiling(b) PROVE IInv'
<1> USE DevAssumption DEF IInv, TypeOK
<1>1. BranchOwned'
  BY DEF ReadCeiling, World, owner, BranchOwned, Writing, Committed, UnderReview
<1>2. RowOwned'
  BY DEF ReadCeiling, World, owner, RowOwned, BranchOwned, Shown, Writing, Committed, UnderReview, Before
<1>3. NothingForbidden'
  BY DEF ReadCeiling, World, owner, NothingForbidden
<1>4. CeilingSound'
  BY DEF ReadCeiling, World, owner, CeilingSound
<1>5. OutcomeSound'
  BY DEF ReadCeiling, World, owner, OutcomeSound, Fit
<1>6. ApprovalSound'
  BY DEF ReadCeiling, World, owner, ApprovalSound, ByGovernor, Fit, RowOwned, Shown, Before
<1> QED
  BY <1>1, <1>2, <1>3, <1>4, <1>5, <1>6

LEMMA ReviewStep ==
    ASSUME IInv, TypeOK', NEW b \in Build, Review(b) PROVE IInv'
<1> USE DevAssumption DEF IInv, TypeOK
<1>1. BranchOwned'
  BY ReviewType DEF Review, World, owner, BranchOwned, Writing, Committed, UnderReview
<1>2. RowOwned'
  BY ReviewType DEF Review, World, owner, RowOwned, BranchOwned, Shown, Writing, Committed, UnderReview, Before
<1>3. NothingForbidden'
  BY ReviewType DEF Review, World, owner, NothingForbidden
<1>4. CeilingSound'
  BY ReviewType DEF Review, World, owner, CeilingSound
<1>5. OutcomeSound'
  <2>1. /\ Outcome(b) # "none"
        /\ Outcome(b) = "autonomous" =>
              /\ build[b].diff.tests = "passed" /\ ~build[b].diff.finding
              /\ ~(build[b].diff.seen > build[b].allowed)
    BY Zenon DEF Outcome
  <2>2. build[b].pc = "stop" /\ peak' = peak
    BY DEF Review
  <2>3. build[b].allowed \in 0..3 /\ peak[b] \in 0..3
    BY DEF Call
  <2> QED
    BY <2>1, <2>2, <2>3, LevelType, ReviewType
       DEF OutcomeSound, CeilingSound, Fit, NothingForbidden, Sound
<1>6. ApprovalSound'
  <2>1. row' = row /\ peak' = peak
    BY DEF Review
  <2>2. \A c \in Build : build'[c].diff = build[c].diff
    BY ReviewType
  <2>3. ByGovernor => row.diff \in Build
    BY DEF ByGovernor, RowOwned, Shown
  <2> QED
    BY <2>1, <2>2, <2>3 DEF ApprovalSound, ByGovernor, Fit
<1> QED
  BY <1>1, <1>2, <1>3, <1>4, <1>5, <1>6

LEMMA ActStep ==
    ASSUME IInv, TypeOK', NEW b \in Build, Act(b) PROVE IInv'
<1> USE DevAssumption DEF IInv, TypeOK
<1>0. /\ row'.diff = row.diff /\ repo'.branch = repo.branch
      /\ row'.state = "approved" =>
            build[b].outcome = "autonomous" /\ row'.by = "governor"
      /\ row'.state \in {"approved", "proposed", "refused"}
      /\ build[b].pc = "act" /\ build'[b].pc = "idle"
      /\ build'[b].diff = build[b].diff
      /\ \A c \in Build \ {b} : build'[c] = build[c]
      /\ UNCHANGED <<ceiling, peak>>
  BY ActType, GoType, ClosedType DEF Act, World, owner, Stages
<1>1. BranchOwned'
  BY <1>0 DEF BranchOwned, Writing, Committed, UnderReview
<1>2. RowOwned'
  BY <1>0 DEF RowOwned, BranchOwned, Shown, Writing, Committed, UnderReview, Before
<1>3. NothingForbidden'
  BY <1>0 DEF NothingForbidden
<1>4. CeilingSound'
  BY <1>0 DEF CeilingSound
<1>5. OutcomeSound'
  BY <1>0 DEF OutcomeSound, Fit
<1>6. ApprovalSound'
  BY <1>0 DEF ApprovalSound, ByGovernor, OutcomeSound, Fit, RowOwned, UnderReview
<1> QED
  BY <1>1, <1>2, <1>3, <1>4, <1>5, <1>6

\* What the owner and the world do to a change.
LEMMA WorldStep ==
    ASSUME IInv, TypeOK',
           \/ Plan
           \/ \E state \in {"approved", "discarded"} : Decide(state)
           \/ \E level \in 0..4 : SetCeiling(level)
           \/ ToggleStop \/ AtTheRepository \/ Restart \/ UNCHANGED vars
    PROVE  IInv'
<1> USE DevAssumption DEF IInv, TypeOK
<1>1. ASSUME UNCHANGED <<build, ceiling, peak>>, UNCHANGED repo.branch,
             row'.diff = row.diff,
             \/ row' = row
             \/ ~Shown'
             \/ row.state = "proposed" /\ row'.by = "owner"
      PROVE  IInv'
  BY <1>1 DEF BranchOwned, Writing, Committed, RowOwned, Shown, UnderReview,
     NothingForbidden, CeilingSound, OutcomeSound, Fit, ApprovalSound, ByGovernor
<1>2. CASE Plan
  BY <1>1, <1>2 DEF Plan, Planned, Shown, owner, Row
<1>3. ASSUME NEW state \in {"approved", "discarded"}, Decide(state) PROVE IInv'
  BY <1>1, <1>3 DEF Decide, Awaits, owner, Row
<1>4. ASSUME NEW level \in 0..4, SetCeiling(level) PROVE IInv'
  <2>1. /\ UNCHANGED <<row, build, repo>> /\ ceiling' \in 0..3
        /\ \A b \in Build : peak[b] <= peak'[b] /\ ceiling' <= peak'[b]
    BY <1>4 DEF SetCeiling, Clamp
  <2>2. BranchOwned' /\ RowOwned' /\ NothingForbidden'
    BY <2>1 DEF BranchOwned, RowOwned, NothingForbidden, Writing, Committed,
       Shown
  <2>3. \A b \in Build : peak[b] \in 0..3 /\ peak'[b] \in 0..3
    OBVIOUS
  <2>4. ASSUME NEW b \in Build
        PROVE  /\ build[b].diff.level \in 0..4 /\ build[b].diff.seen \in 0..4
               /\ build[b].allowed \in 0..3
    BY LevelType DEF Call
  <2>5. CeilingSound'
    BY <2>1, <2>3, <2>4 DEF CeilingSound
  <2>6. \A b \in Build : Fit(b) => Fit(b)'
    BY <2>1, <2>3, <2>4 DEF Fit
  <2>7. OutcomeSound' /\ ApprovalSound'
    BY <2>1, <2>6 DEF OutcomeSound, ApprovalSound, ByGovernor, RowOwned, Shown
  <2> QED
    BY <2>2, <2>5, <2>7
<1>5. CASE ToggleStop \/ UNCHANGED vars
  BY <1>1, <1>5 DEF ToggleStop, vars, owner
<1>6. CASE AtTheRepository
  <2>1. CASE repo'.branch = repo.branch
    BY <1>1, <1>6, <2>1 DEF AtTheRepository, owner
  <2>2. CASE \A b \in Build : build[b].pc = "idle"
    <3>1. UNCHANGED <<row, build, ceiling, peak>>
          /\ repo'.branch \in {repo.branch, Nothing}
      BY <1>6 DEF AtTheRepository, owner, Repo
    <3> QED
      BY <2>2, <3>1 DEF BranchOwned, Writing, Committed, RowOwned, Shown,
         UnderReview, Before, NothingForbidden, CeilingSound, OutcomeSound,
         Fit, ApprovalSound, ByGovernor
  <2> QED
    BY <1>6, <2>1, <2>2 DEF AtTheRepository, Repo
<1>7. CASE Restart
  <2>1. /\ UNCHANGED <<row, ceiling, repo, peak>>
        /\ \A b \in Build : /\ build'[b].pc = "idle"
                            /\ build'[b].diff = build[b].diff
    BY <1>7 DEF Restart, owner, Call
  <2> QED
    BY <2>1 DEF BranchOwned, Writing, Committed, RowOwned, Shown,
       UnderReview, Before, NothingForbidden, CeilingSound, OutcomeSound,
       Fit, ApprovalSound, ByGovernor
<1> QED
  BY <1>2, <1>3, <1>4, <1>5, <1>6, <1>7

LEMMA InitInv == Init => IInv
<1> SUFFICES ASSUME Init PROVE IInv
  OBVIOUS
<1>1. TypeOK
  <2>1. row \in Row
    BY DEF Init, Row, States
  <2>2. repo \in Repo
    BY DEF Init, Repo
  <2>3. build \in [Build -> Call]
    BY IdleType DEF Init
  <2>4. peak \in [Build -> 0..3]
    BY DEF Init
  <2>5. plan \in {"none", "kept", "lost"} /\ stopped \in BOOLEAN
    BY Zenon DEF Init
  <2>6. ceiling \in 0..3 /\ events \in Nat
    BY DEF Init
  <2> QED
    BY <2>1, <2>2, <2>3, <2>4, <2>5, <2>6 DEF TypeOK
<1>2. \A b \in Build : build[b].pc = "idle" /\ Sound(build[b].diff)
  BY IdleType DEF Init
<1> QED
  BY <1>1, <1>2 DEF Init, IInv, BranchOwned, Writing, Committed, RowOwned,
     Shown, UnderReview, NothingForbidden, CeilingSound, OutcomeSound,
     ApprovalSound, ByGovernor

-----------------------------------------------------------------------------
(* Theorems *)

\* The inductive invariant of a change holds in every reachable state.
THEOREM DevChangesInvariant == Spec => []IInv
<1>1. IInv /\ [Next]_vars => IInv'
  <2> SUFFICES ASSUME IInv, [Next]_vars PROVE IInv'
    OBVIOUS
  <2>1. TypeOK'
    BY TypeStep DEF IInv
  <2> QED
    BY <2>1, AskStep, BeginStep, OpenStep, WriteStep, CommitStep, ProposeStep,
       AuditStep, ReadCeilingStep, ReviewStep, ActStep, WorldStep DEF Next
<1> QED
  BY InitInv, <1>1, PTL DEF Spec

\* What the Governor approved without asking had its tests passed, was not
\* blocked by the auditor and lies within a ceiling in force since it was
\* proposed, outside the protected core (review), for any number of builds.
THEOREM ApprovedWithinTheorem == Spec => []ApprovedWithin
<1>1. IInv => ApprovedWithin
  BY DEF IInv, ApprovalSound, ApprovedWithin, Fit, NothingForbidden, Sound,
     RowOwned, Shown, ByGovernor
<1> QED
  BY <1>1, DevChangesInvariant, PTL

\* The diff the owner is shown is what the branch holds while there is one, and
\* no branch holds anything of the protected core (_write, constitution.refuse).
THEOREM BranchIsSoundTheorem == Spec => []BranchIsSound
<1>1. IInv => BranchIsSound
  BY DEF IInv, BranchIsSound, RowOwned, Shown, NothingForbidden, Sound
<1> QED
  BY <1>1, DevChangesInvariant, PTL

\* If no build was on its way to a proposal when the owner answered, none
\* begins, what he answered is what the row holds, and only the reviews that
\* were under way go on.
AnswerSound ==
    /\ ans.said \in {"none", "approved", "discarded"}
    /\ ans.said # "none" /\ ans.building = {} =>
          /\ Building = {} /\ Reviewing \subseteq ans.reviewing
          /\ row.diff = ans.diff /\ ~MayBuild /\ row.state # "building"
          /\ ans.reviewing = {} => Answered

LEMMA AnswerStep ==
    ASSUME IInv, AnswerSound, [Next]_vars
    PROVE  AnswerSound'
<1> USE DEF IInv, TypeOK
<1> DEFINE Live(b) == build[b].pc # "idle"
           Clean == ans.said # "none" /\ ans.building = {}
<1>1. ASSUME UNCHANGED <<row, ans>>,
             \A b \in Build : /\ build'[b].pc = "idle" \/ build'[b].pc = build[b].pc
                                  \/ {build[b].pc, build'[b].pc} \subseteq UnderReview
      PROVE  AnswerSound'
  <2>1. Building' \subseteq Building /\ Reviewing' \subseteq Reviewing
    BY <1>1 DEF Building, Reviewing, UnderReview
  <2> QED
    BY <1>1, <2>1 DEF AnswerSound, MayBuild, Answered
<1>2. CASE ~Clean /\ UNCHANGED ans
  BY <1>2 DEF AnswerSound
<1>3. ASSUME Clean, NEW b \in Build, build[b].pc \in Before PROVE FALSE
  BY <1>3 DEF AnswerSound, Building, Reviewing, Before
<1>4. CASE Plan
  BY <1>2, <1>4 DEF Plan, AnswerSound, MayBuild
<1>5. ASSUME NEW b \in Build, Ask(b) PROVE AnswerSound'
  BY <1>2, <1>5 DEF Ask, AnswerSound
<1>6. ASSUME NEW b \in Build, \/ Begin(b) \/ Open(b) \/ Write(b) \/ Commit(b)
                              \/ Propose(b)
      PROVE  AnswerSound'
  <2>1. build[b].pc \in Before /\ UNCHANGED ans
    BY <1>6, Zenon DEF Begin, Open, Write, Commit, Propose, Before, World
  <2> QED
    BY <1>2, <1>3, <2>1
<1>7. ASSUME NEW b \in Build, Audit(b) \/ ReadCeiling(b) \/ Review(b)
      PROVE  AnswerSound'
  <2>1. /\ UNCHANGED <<row, ans>> /\ build[b].pc \in UnderReview
        /\ build'[b].pc \in UnderReview
        /\ \A c \in Build \ {b} : build'[c] = build[c]
    <3>1. CASE Audit(b)
      BY <3>1, GoType DEF Audit, World, Stages, UnderReview
    <3>2. CASE ReadCeiling(b)
      BY <3>2 DEF ReadCeiling, World, UnderReview, Call
    <3>3. CASE Review(b)
      BY <3>3, ReviewType DEF Review, World, UnderReview
    <3> QED
      BY <1>7, <3>1, <3>2, <3>3
  <2> QED
    BY <1>1, <2>1
<1>8. ASSUME NEW b \in Build, Act(b) PROVE AnswerSound'
  <2>1. /\ row'.diff = row.diff /\ UNCHANGED ans /\ build[b].pc = "act"
        /\ row'.state \in {"approved", "proposed", "refused"}
        /\ build'[b].pc = "idle"
        /\ \A c \in Build \ {b} : build'[c] = build[c]
    BY <1>8, ActType, GoType DEF Act, World, Stages
  <2>2. b \in Reviewing
    BY <2>1 DEF Reviewing
  <2>3. Building' \subseteq Building /\ Reviewing' \subseteq Reviewing
    BY <2>1 DEF Building, Reviewing
  <2> QED
    BY <1>2, <2>1, <2>2, <2>3 DEF AnswerSound, MayBuild
<1>9. ASSUME NEW state \in {"approved", "discarded"}, Decide(state)
      PROVE  AnswerSound'
  <2>1. /\ row.state = "proposed" /\ UNCHANGED build
        /\ row'.state = state /\ row'.by = "owner" /\ row'.diff = row.diff
    BY <1>9 DEF Decide, Awaits, Row
  <2>2. ~Answered
    BY <2>1 DEF Answered, AnswerSound
  <2>3. ans' = [said |-> state, diff |-> row.diff, reviewing |-> Reviewing,
                building |-> Building]
    BY <1>9, <2>2 DEF Decide
  <2>4. Building' = Building /\ Reviewing' = Reviewing
    BY <2>1 DEF Building, Reviewing
  <2> QED
    BY <2>1, <2>3, <2>4 DEF AnswerSound, MayBuild, Answered
<1>10. ASSUME NEW level \in 0..4, SetCeiling(level) PROVE AnswerSound'
  BY <1>1, <1>10 DEF SetCeiling
<1>11. CASE ToggleStop \/ AtTheRepository \/ UNCHANGED vars
  BY <1>1, <1>11 DEF ToggleStop, AtTheRepository, vars
<1>12. CASE Restart
  BY <1>1, <1>12 DEF Restart, Call
<1> QED
  BY <1>4, <1>5, <1>6, <1>7, <1>8, <1>9, <1>10, <1>11, <1>12 DEF Next

\* What the owner answered stands, but for the reviews and builds that were
\* under way when he did (records.decide), for any number of builds.
THEOREM FirstAnswerStandsTheorem == Spec => []FirstAnswerStands
<1>1. Init => AnswerSound
  BY DEF Init, AnswerSound
<1>2. IInv /\ AnswerSound /\ [Next]_vars => AnswerSound'
  BY AnswerStep
<1>3. AnswerSound => FirstAnswerStands
  BY DEF AnswerSound, FirstAnswerStands
<1> QED
  BY <1>1, <1>2, <1>3, DevChangesInvariant, PTL DEF Spec

-----------------------------------------------------------------------------
(* The way back *)

\* The two newest rows of known_good are the version seen to start last and
\* another before it, if there was one.
KnownSound ==
    /\ known \in Seq(Nat) /\ known # <<>>
    /\ version.last = known[Len(known)]
    /\ IF Len(known) = 1 THEN version.before = 0
       ELSE /\ version.before = known[Len(known) - 1]
            /\ version.before # version.last

\* Deleting the old rows leaves the newest two.
LEMMA KeptNewest ==
    ASSUME NEW rows \in Seq(Nat), rows # <<>>
    PROVE  /\ Kept(rows) \in Seq(Nat) /\ Len(Kept(rows)) \in Nat \ {0}
           /\ Kept(rows)[Len(Kept(rows))] = rows[Len(rows)]
           /\ Len(rows) = 1 <=> Len(Kept(rows)) = 1
           /\ Len(rows) # 1 =>
                 Kept(rows)[Len(Kept(rows)) - 1] = rows[Len(rows) - 1]
<1> DEFINE first == IF Len(rows) > KEEP THEN Len(rows) - KEEP + 1 ELSE 1
           kept == SubSeq(rows, first, Len(rows))
<1>1. /\ Len(rows) \in Nat /\ Len(rows) > 0
      /\ \A i \in 1..Len(rows) : rows[i] \in Nat
  BY EmptySeq, LenProperties, ElementOfSeq
<1>2. /\ first \in 1..Len(rows) /\ (Len(rows) = 1 <=> first = Len(rows))
  BY <1>1, DevAssumption
<1>3. Kept(rows) = kept
  BY DEF Kept
<1> HIDE DEF first
<1>4. /\ kept \in Seq(Nat) /\ Len(kept) = Len(rows) - first + 1
      /\ \A i \in 1..(Len(rows) - first + 1) : kept[i] = rows[first + i - 1]
  BY <1>1, <1>2, SubSeqProperties
<1> HIDE DEF kept
<1>5. kept[Len(kept)] = rows[Len(rows)]
  BY <1>1, <1>2, <1>4
<1>6. Len(rows) # 1 => kept[Len(kept) - 1] = rows[Len(rows) - 1]
  BY <1>1, <1>2, <1>4
<1>7. Len(kept) \in Nat \ {0} /\ (Len(rows) = 1 <=> Len(kept) = 1)
  BY <1>1, <1>2, <1>4
<1> QED
  BY <1>3, <1>4, <1>5, <1>6, <1>7

\* A start that is noted.
LEMMA NotedStep ==
    ASSUME KnownSound, repo.head \in Nat,
           known' = Kept(Recorded(known, repo.head)),
           version' = [runs |-> repo.head, last |-> repo.head,
                       before |-> IF repo.head = version.last
                                  THEN version.before ELSE version.last]
    PROVE  KnownSound'
<1> DEFINE rows == Recorded(known, repo.head)
<1>1. /\ known \in Seq(Nat) /\ known # <<>> /\ Len(known) \in Nat
      /\ Len(known) > 0 /\ Last(known) = version.last
  BY EmptySeq, LenProperties DEF KnownSound, Last
<1>2. CASE repo.head = version.last
  <2>1. rows = known
    BY <1>1, <1>2 DEF Recorded
  <2> HIDE DEF rows
  <2>2. known' = Kept(known)
    BY <2>1 DEF rows
  <2>3. version'.last = version.last /\ version'.before = version.before
    BY <1>2
  <2> QED
    BY <1>1, <2>2, <2>3, KeptNewest, EmptySeq DEF KnownSound
<1>3. CASE repo.head # version.last
  <2>1. rows = Append(known, repo.head)
    BY <1>1, <1>3 DEF Recorded
  <2> HIDE DEF rows
  <2>2. /\ rows \in Seq(Nat) /\ rows # <<>> /\ Len(rows) = Len(known) + 1
        /\ rows[Len(rows)] = repo.head
        /\ rows[Len(rows) - 1] = version.last
    BY <1>1, <2>1, AppendProperties, EmptySeq DEF Last
  <2>3. known' = Kept(rows)
    BY DEF rows
  <2>4. version'.last = repo.head /\ version'.before = version.last
    BY <1>3
  <2>5. Len(rows) # 1
    BY <1>1, <2>2
  <2> QED
    BY <1>3, <2>2, <2>3, <2>4, <2>5, KeptNewest, EmptySeq DEF KnownSound
<1> QED
  BY <1>2, <1>3

LEMMA KnownStep ==
    ASSUME TypeOK, KnownSound, [Next]_vars
    PROVE  KnownSound'
<1>1. CASE Restart
  <2>1. repo.head \in Nat
    BY DEF TypeOK, Repo
  <2>2. CASE UNCHANGED known /\ version' = [version EXCEPT !.runs = repo.head]
    <3>1. version'.last = version.last /\ version'.before = version.before
      BY <2>2
    <3> QED
      BY <2>2, <3>1 DEF KnownSound
  <2> QED
    BY <1>1, <2>1, <2>2, NotedStep DEF Restart
<1>2. CASE UNCHANGED <<known, version>>
  BY <1>2 DEF KnownSound
<1> QED
  BY <1>1, <1>2 DEF Next, vars, versions, World, Plan, Ask, Begin, Open, Write,
     Commit, Propose, Audit, ReadCeiling, Review, Act, Decide, SetCeiling,
     ToggleStop, AtTheRepository

LEMMA MaxIs ==
    ASSUME NEW S \in SUBSET Nat, NEW m \in S, \A i \in S : i <= m
    PROVE  Max(S) = m
<1> DEFINE Top(x) == x \in S /\ \A y \in S : x >= y
<1>1. Top(m)
  OBVIOUS
<1>2. \A x : Top(x) => x = m
  OBVIOUS
<1>3. Max(S) = CHOOSE x : Top(x)
  BY DEF Max
<1>4. Top(CHOOSE x : Top(x))
  BY <1>1
<1> QED
  BY <1>2, <1>3, <1>4

\* The row the way back is read from.
LEMMA NewestOther ==
    ASSUME KnownSound, repo.head = version.runs
    PROVE  WayBack
<1> DEFINE others == {i \in DOMAIN known : known[i] # repo.head}
<1>1. /\ Len(known) \in Nat /\ Len(known) > 0 /\ DOMAIN known = 1..Len(known)
  BY EmptySeq, LenProperties DEF KnownSound
<1>2. ASSUME NEW m \in others, \A i \in others : i <= m
      PROVE  PreviousToRunning = known[m]
  <2>1. others \in SUBSET Nat
    BY <1>1
  <2>2. PreviousToRunning = IF others = {} THEN 0 ELSE known[Max(others)]
    BY DEF PreviousToRunning
  <2> HIDE DEF others
  <2>3. Max(others) = m
    BY <1>2, <2>1, MaxIs
  <2> QED
    BY <1>2, <2>2, <2>3
<1>3. CASE version.last # repo.head
  <2>1. /\ Len(known) \in others /\ \A i \in others : i <= Len(known)
    BY <1>1, <1>3 DEF KnownSound
  <2> QED
    BY <1>2, <1>3, <2>1 DEF WayBack, KnownSound
<1>4. CASE version.last = repo.head /\ Len(known) # 1
  <2>0. /\ known[Len(known) - 1] # repo.head /\ known[Len(known)] = repo.head
        /\ version.before = known[Len(known) - 1]
    BY <1>4 DEF KnownSound
  <2>1. Len(known) - 1 \in others /\ \A i \in others : i <= Len(known) - 1
    BY <1>1, <1>4, <2>0
  <2> QED
    BY <1>2, <1>4, <2>1 DEF WayBack, KnownSound
<1>5. CASE version.last = repo.head /\ Len(known) = 1
  <2>0. known[1] = repo.head
    BY <1>5 DEF KnownSound
  <2>1. others = {}
    BY <1>1, <1>5, <2>0
  <2>2. PreviousToRunning = 0
    BY <2>1 DEF PreviousToRunning
  <2> QED
    BY <1>5, <2>2 DEF WayBack, KnownSound
<1> QED
  BY <1>3, <1>4, <1>5

\* The way back leads to the last other version that was seen to start, for
\* any number of versions, rows kept and restarts (record_running_version,
\* previous_to_running).
THEOREM WayBackTheorem == Spec => []WayBack
<1>1. Init => KnownSound
  BY EmptySeq DEF Init, KnownSound
<1>2. IInv /\ KnownSound /\ [Next]_vars => KnownSound'
  BY KnownStep DEF IInv
<1>3. KnownSound => WayBack
  BY NewestOther DEF WayBack
<1> QED
  BY <1>1, <1>2, <1>3, DevChangesInvariant, PTL DEF Spec
=============================================================================
