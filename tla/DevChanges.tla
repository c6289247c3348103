----------------------------- MODULE DevChanges -----------------------------
(***************************************************************************)
(* dev/director.py, dev/repo.py, dev/records.py, dev/recovery.py,          *)
(* governor.py and routes/dev.py: one change JARVIS makes to its own code, *)
(* from the brief to a decision, and the repository it is made in.         *)
(*                                                                         *)
(* The row is the one of change_requests; a call of director.build is a    *)
(* process.  routes/dev looks at the row and detaches the build, so two    *)
(* taps may start two, with one branch and one worktree between them: both *)
(* are named after the title.                                              *)
(*                                                                         *)
(*   ask -> open -> write -> commit -> propose -> audit -> ceiling         *)
(*       -> stop -> act                                                    *)
(*                                                                         *)
(* What a build wrote is the highest risk level of its files, the result   *)
(* of the tests, whether the auditor found something blocking, and what he *)
(* had to read: the first 120000 characters of the diff, which may leave   *)
(* out files that were committed.  A commit of the running checkout is a   *)
(* number.                                                                 *)
(***************************************************************************)
EXTENDS Integers, Sequences, SequencesExt

CONSTANTS
    Build,         \* calls of director.build (bound)
    Level,         \* risk levels of the files that are written
    MaxEvents,     \* what the owner and the world do (bound)
    Versions,      \* commits of the running checkout (bound)
    KEEP,          \* rows that known_good keeps
    Nothing,
    Fresh          \* a branch without a commit of its own

ASSUME DevAssumption ==
    /\ Level \subseteq 0..4 /\ MaxEvents \in Nat /\ Versions \in Nat
    /\ KEEP \in Nat \ {0, 1}
    /\ {Nothing, Fresh} \cap Build = {} /\ Nothing # Fresh

\* How the repository's tests end: "unknown" is that nobody checked.
Tests == {"passed", "failed", "unknown"}

\* What a build has to show: a level, from the paths; tests; whether the
\* auditor blocks it; and, once committed, the level of the paths in the diff
\* he is given, and whether these are all that was committed.
Blank == [level |-> 0, tests |-> "unknown", finding |-> FALSE, seen |-> 0,
          whole |-> FALSE]
Diff == [level : Level, tests : Tests, finding : BOOLEAN, seen : {0},
         whole : {FALSE}]

VARIABLES
    row,           \* state, decided_by, and whose diff it holds
    plan,          \* the plan: none, kept (with files) or absent from a row
    build,         \* build[b]: a call of director.build
    ceiling,       \* governor_policy.max_autonomous_level
    stopped,       \* the emergency stop
    repo,          \* branch: whose commit the branch of the change holds,
                   \* tree: who has it checked out, head, and whether the
                   \* running checkout has uncommitted changes
    known,         \* known_good, oldest first
    events,
    \* history
    peak,          \* peak[b]: highest ceiling in force since b was proposed
    ans,           \* the owner's answer, the diff it was given to, and which
                   \* builds were then reviewed, or still to be proposed
    version        \* runs: the commit that runs; and, of those that were
                   \* recorded at a start, the last and another before it

owner == <<plan, ceiling, stopped>>
versions == <<known, version>>
vars == <<row, owner, build, repo, versions, events, peak, ans>>

Idle == [pc |-> "idle", diff |-> Blank, allowed |-> 0, outcome |-> "none"]

Init ==
    /\ row = [state |-> "planned", by |-> "none", diff |-> Nothing]
    /\ plan = "none"
    /\ build = [b \in Build |-> Idle]
    /\ ceiling = 0
    /\ stopped = FALSE
    /\ repo = [branch |-> Nothing, tree |-> Nothing, head |-> 1, dirty |-> FALSE]
    /\ known = <<1>>
    /\ version = [runs |-> 1, last |-> 1, before |-> 0]
    /\ events = 0
    /\ peak = [b \in Build |-> 0]
    /\ ans = [said |-> "none", diff |-> Nothing, reviewing |-> {}, building |-> {}]

Event == events < MaxEvents /\ events' = events + 1

-----------------------------------------------------------------------------
(* begin: the plan *)

\* What the planner comes back with: nothing, something that is no change,
\* or files; those of the protected core are struck out of it.
Planned == {<<"lost", "failed">>, <<"kept", "failed">>, <<"kept", "planned">>}

Plan ==
    /\ plan = "none" /\ row.state = "planned"
    /\ \E said \in Planned :
          plan' = said[1] /\ row' = [row EXCEPT !.state = said[2]]
    /\ UNCHANGED <<build, ceiling, stopped, repo, versions, events, peak,
                   ans>>

-----------------------------------------------------------------------------
(* build *)

Go(b, pc) == build' = [build EXCEPT ![b].pc = pc]
World == <<owner, versions, events, ans>>

\* What the route asks of the row it read.
MayBuild == row.state \in {"planned", "failed"}

\* A tap on "build": a plan without files comes back at once.
Ask(b) ==
    /\ build[b].pc = "idle" /\ ~stopped /\ MayBuild /\ plan = "kept"
    /\ Event
    /\ build' = [build EXCEPT ![b] = [Idle EXCEPT !.pc = "ask"]]
    /\ UNCHANGED <<row, owner, repo, versions, peak, ans>>

Begin(b) ==
    /\ build[b].pc = "ask"
    /\ row' = [row EXCEPT !.state = "building"]
    /\ Go(b, "open")
    /\ UNCHANGED <<World, repo, peak>>

\* The build is over and has nothing to show.
Fails(b) ==
    /\ row' = [row EXCEPT !.state = "failed"]
    /\ build' = [build EXCEPT ![b] = Idle]

\* `git worktree add -b` makes the branch, and fails if there is one.
MayAdd == repo.branch = Nothing

\* repo.state: the checkout has no edits of the owner's.
Usable == ~repo.dirty

\* open_worktree: not from a dirty checkout; a worktree in the way is
\* removed, whosever it is.  Any git command may fail or take too long.
Open(b) ==
    /\ build[b].pc = "open"
    /\ \/ Usable /\ MayAdd /\ UNCHANGED row /\ Go(b, "write")
          /\ repo' = [repo EXCEPT !.branch = Fresh, !.tree = b]
       \/ Usable /\ repo' = [repo EXCEPT !.tree = Nothing] /\ Fails(b)
       \/ Fails(b) /\ UNCHANGED repo
    /\ UNCHANGED <<World, peak>>

\* close_worktree, by the path: the branch stays, and nothing else does.
Closed == [repo EXCEPT !.tree = Nothing]

\* What the patches come to: whole files, or nothing that may be written
\* (left alone, or cut off on the way).
Patched == Diff \cup {Nothing}

\* inside: a path of the protected core is refused, and so is the build.
Inside == {d \in Diff : d.level < 4}

Write(b) ==
    /\ build[b].pc = "write"
    /\ \E d \in Patched :
          \/ /\ d \in Inside
             /\ build' = [build EXCEPT ![b].pc = "commit", ![b].diff = d]
             /\ UNCHANGED <<row, repo>>
          \/ d \notin Inside /\ Fails(b) /\ repo' = Closed
    /\ UNCHANGED <<World, peak>>

\* Mutant: what was refused at the write is not looked at again.
NotLookedAt(level) == FALSE

\* constitution.refuse, on what is staged
Forbidden(level) == level >= 4

\* inspect: a file the plan never mentioned is a finding.
Found(diff, stray) == diff.finding \/ stray > 0

\* What the auditor has of a commit, from the paths _files_in finds in
\* diff[:120000]: all of it; a part, where a file past the cut or with a name
\* that git quotes is neither weighed nor missed; or no path at all, which is
\* a finding.
Audited(diff, stray, level) ==
    {[seen |-> level, finding |-> Found(diff, stray), whole |-> TRUE],
     [seen |-> 0, finding |-> TRUE, whole |-> FALSE]}
    \cup [seen : {l \in Level : l <= level},
          finding : {diff.finding, Found(diff, stray)}, whole : {FALSE}]

\* The tests have run in the worktree and may have left files there, which
\* are staged with the rest and which the auditor finds unplanned.  The
\* directory may have been taken from under the build: then it is no
\* worktree, and git refuses.
Commit(b) ==
    /\ build[b].pc = "commit"
    /\ \/ \E stray \in {0} \cup Level :
             LET d == build[b].diff
                 level == IF stray > d.level THEN stray ELSE d.level IN
             /\ repo.tree = b /\ ~Forbidden(level)
             /\ repo' = [repo EXCEPT !.branch = b]
             /\ \E s \in Audited(d, stray, level) :
                   build' = [build EXCEPT ![b].pc = "propose",
                     ![b].diff = [level |-> level, tests |-> d.tests,
                                  finding |-> s.finding, seen |-> s.seen,
                                  whole |-> s.whole]]
             /\ UNCHANGED row
       \/ Fails(b) /\ repo' = Closed
    /\ UNCHANGED <<World, peak>>

\* The diff and its state are in the row before the review begins.
Propose(b) ==
    /\ build[b].pc = "propose"
    /\ row' = [row EXCEPT !.state = "proposed", !.diff = b]
    /\ peak' = [peak EXCEPT ![b] = ceiling]
    /\ Go(b, "audit")
    /\ UNCHANGED <<World, repo>>

\* The auditor, a model call.
Audit(b) ==
    /\ build[b].pc = "audit"
    /\ Go(b, "ceiling")
    /\ UNCHANGED <<World, row, repo, peak>>

ReadCeiling(b) ==
    /\ build[b].pc = "ceiling"
    /\ build' = [build EXCEPT ![b].pc = "stop", ![b].allowed = ceiling]
    /\ UNCHANGED <<World, row, repo, peak>>

\* Mutant: tests that did not run are not held against the change.
OutcomeLenient(b) ==
    LET d == build[b].diff IN
    IF stopped \/ d.seen >= 4 THEN "refused"
    ELSE IF d.tests = "failed" \/ d.finding \/ d.seen > build[b].allowed
         THEN "ask" ELSE "autonomous"

\* review, from the emergency stop on: it weighs the paths the auditor found,
\* not what was committed.  The month's budget has no part in
\* it: budget.remaining does not exist, and the error is swallowed.
Outcome(b) ==
    LET d == build[b].diff IN
    IF stopped \/ d.seen >= 4 THEN "refused"
    ELSE IF d.tests # "passed" \/ d.finding \/ d.seen > build[b].allowed
         THEN "ask" ELSE "autonomous"

Review(b) ==
    /\ build[b].pc = "stop"
    /\ build' = [build EXCEPT ![b].pc = "act", ![b].outcome = Outcome(b)]
    /\ UNCHANGED <<World, row, repo, peak>>

\* records.refuse and records.approved_by_governor, whatever the row says by
\* now.
Refused == [row EXCEPT !.state = "refused", !.by = "governor"]
ApprovedByGovernor == [row EXCEPT !.state = "approved", !.by = "governor"]

Act(b) ==
    LET said == build[b].outcome IN
    /\ build[b].pc = "act"
    /\ row' = CASE said = "refused" -> Refused
                [] said = "autonomous" -> ApprovedByGovernor
                [] said = "ask" -> [row EXCEPT !.state = "proposed"]
    /\ build' = [build EXCEPT ![b].pc = "idle"]
    /\ repo' = Closed
    /\ UNCHANGED <<World, peak>>

-----------------------------------------------------------------------------
(* The owner and the world *)

\* Mutant: what was answered may be answered again.
MayAnswer == row.state \in {"proposed", "approved", "discarded"}

\* What the UPDATE of records.decide asks of the row.
Awaits == row.state = "proposed"

\* The row says what he answered.
Answered == row.state = ans.said /\ row.by = "owner" /\ row.diff = ans.diff

Reviewing == {b \in Build : build[b].pc \in {"audit", "ceiling", "stop", "act"}}
Building == {b \in Build : build[b].pc # "idle"} \ Reviewing

Decide(state) ==
    /\ Event /\ ~stopped /\ Awaits
    /\ row' = [row EXCEPT !.state = state, !.by = "owner"]
    /\ ans' = IF Answered THEN ans
              ELSE [said |-> state, diff |-> row.diff, reviewing |-> Reviewing,
                    building |-> Building]
    /\ UNCHANGED <<owner, build, repo, versions, peak>>

\* Above three is three.
Clamp(level) == IF level > 3 THEN 3 ELSE level

SetCeiling(level) ==
    /\ Event /\ ~stopped /\ Clamp(level) # ceiling
    /\ ceiling' = Clamp(level)
    /\ peak' = [b \in Build |-> IF ceiling' > peak[b] THEN ceiling'
                                ELSE peak[b]]
    /\ UNCHANGED <<row, plan, build, stopped, repo, versions, ans>>

ToggleStop ==
    /\ Event
    /\ stopped' = ~stopped
    /\ UNCHANGED <<row, plan, build, ceiling, repo, versions, peak, ans>>

\* He edits the running checkout, takes a commit there that is not started
\* yet, or deletes a branch whose build is over.
AtTheRepository ==
    /\ Event
    /\ \/ repo' = [repo EXCEPT !.dirty = ~@]
       \/ \E commit \in 1..Versions :
             ~repo.dirty /\ repo' = [repo EXCEPT !.head = commit]
       \/ /\ repo.branch # Nothing /\ \A b \in Build : build[b].pc = "idle"
          /\ repo' = [repo EXCEPT !.branch = Nothing, !.tree = Nothing]
    /\ UNCHANGED <<row, owner, build, versions, peak, ans>>

\* Mutant: every start is a row.
EveryStart(rows, commit) == Append(rows, commit)

\* record_running_version: a row if the newest is of another commit.
Recorded(rows, commit) == IF Last(rows) = commit THEN rows ELSE Append(rows, commit)

\* The rows but the newest KEEP are deleted.
Kept(rows) == SubSeq(rows, IF Len(rows) > KEEP THEN Len(rows) - KEEP + 1 ELSE 1, Len(rows))

\* The process dies and starts again, from what is checked out, and notes
\* that version unless git or the database fails.  A row that is building
\* stays so, a worktree stays where it was.
Restart ==
    /\ Event
    /\ build' = [b \in Build |-> [build[b] EXCEPT !.pc = "idle"]]
    /\ \/ /\ known' = Kept(Recorded(known, repo.head))
          /\ version' = [runs |-> repo.head, last |-> repo.head,
                         before |-> IF repo.head = version.last
                                    THEN version.before ELSE version.last]
       \/ UNCHANGED known /\ version' = [version EXCEPT !.runs = repo.head]
    /\ UNCHANGED <<row, owner, repo, peak, ans>>

Next ==
    \/ Plan
    \/ \E b \in Build :
          \/ Ask(b) \/ Begin(b) \/ Open(b) \/ Write(b) \/ Commit(b) \/ Propose(b)
          \/ Audit(b) \/ ReadCeiling(b) \/ Review(b) \/ Act(b)
    \/ \E state \in {"approved", "discarded"} : Decide(state)
    \/ \E level \in 0..4 : SetCeiling(level)
    \/ ToggleStop \/ AtTheRepository \/ Restart

Spec == Init /\ [][Next]_vars

-----------------------------------------------------------------------------
ByGovernor == row.state = "approved" /\ row.by = "governor"

\* What the Governor approved without asking is a change whose tests passed,
\* that the auditor did not block, and of which all that the auditor was shown
\* lies within a ceiling in force since the change was proposed (review),
\* however many builds of it two taps began.  What he was not shown, past the
\* first 120000 characters of the diff, may lie above every ceiling; but
\* nothing that was committed is of the protected core.
ApprovedWithin ==
    ByGovernor =>
       LET d == build[row.diff].diff IN
       /\ d.tests = "passed" /\ ~d.finding
       /\ d.seen <= peak[row.diff]
       /\ d.whole => d.level <= peak[row.diff]
       /\ d.level < 4

\* The diff he is shown is what the branch holds that he would merge, while
\* there is one (_write, open_worktree); and the protected core is on no
\* branch, whether a patch or a test wrote it: "The write boundary refuses
\* ... The commit boundary refuses" (constitution.py:24).
BranchIsSound ==
    /\ row.state \in {"proposed", "approved", "discarded"} =>
          repo.branch \in {row.diff, Nothing}
    /\ repo.branch \in Build => build[repo.branch].diff.level < 4

\* previous_to_running
PreviousToRunning ==
    LET others == {i \in DOMAIN known : known[i] # repo.head} IN
    IF others = {} THEN 0 ELSE known[Max(others)]

\* Once the checkout is what runs, the way back leads to the last other
\* version that was seen to start, over any number of restarts
\* (recovery.py:104).
WayBack ==
    repo.head = version.runs =>
        PreviousToRunning = IF version.last = version.runs THEN version.before
                            ELSE version.last

\* What the owner answered stands, for the diff he answered (decide): no
\* later tap, build or restart changes it.  Only what was already under way
\* when he answered does: a review that ends after his answer writes its own
\* over it, and leaves the diff; another build of the same request, that two
\* taps began, starts over.
FirstAnswerStands ==
    ans.said # "none" =>
       \/ Answered
       \/ ans.reviewing # {} /\ row.diff = ans.diff
       \/ ans.building # {}

=============================================================================
