---------------------------- MODULE EffectsProofs ----------------------------
(***************************************************************************)
(* Proofs about what JARVIS does to the world - commands, posts and pages  *)
(* - for any tasks, any number of runners and any plan for a page.         *)
(***************************************************************************)
EXTENDS Browsing, TLAPS

USE DEF Fixed, World, Past, pageVars, Rest

-----------------------------------------------------------------------------
(* Types *)

PC == {"idle", "gate", "piece", "account", "who", "post", "older", "record", "done",
       "stop", "exactly", "spawn", "tell", "open", "look", "asking", "touch",
       "park", "fail", "refuse"}

RunRecord == [task : Task \cup {"none"}, pc : PC, pkg : Nat,
              holds : {"none", "may", "cannot"}]

TaskRow == [status : {"queued", "running", "waiting", "completed", "failed",
                      "cancelled"},
            tries : Nat, old : BOOLEAN]

Tab == [step : Nat, on : Address, what : {"none", "link", "control"},
        turned : BOOLEAN]

RowsOK ==
    /\ job \in [Task -> Jobs] /\ named \in BOOLEAN
    /\ task \in [Task -> TaskRow]
    /\ yes \in [Task -> {"none", "approved", "rejected"}]
    /\ piece \in [state : {"ready", "approved", "published"}, pkg : Nat, id : Nat]
    /\ account \in {"none", "may", "cannot"} /\ policy \in {"ask", "auto"}

RunnersOK ==
    /\ run \in [Runner -> RunRecord]
    /\ tab \in [Runner -> Tab]
    /\ \A r \in Runner : run[r].pc # "idle" <=> run[r].task \in Task
    /\ acts \subseteq [task : Task, on : Address, turned : BOOLEAN]

PastOK ==
    /\ done \in [Task -> Nat]
    /\ out \in [n : Nat, pkgs : SUBSET Nat]
    /\ blessed \in [n : Nat, pkgs : SUBSET Nat]
    /\ past \in [together : BOOLEAN, overtaken : BOOLEAN]

TypeOK == RowsOK /\ RunnersOK /\ PastOK

-----------------------------------------------------------------------------
(* The inductive invariant *)

\* Where a runner is bound to have his yes, whatever the task is for.
PastGate == {"piece", "account", "who", "post", "older"}

AnswersSound ==
    /\ \A r \in Runner : At(r, "spawn") => yes[run[r].task] = "approved"
    /\ \A r \in Runner : run[r].pc \in PastGate \cup {"gate"} =>
          /\ job[run[r].task] = "piece"
          /\ named /\ ~At(r, "gate") =>
                yes[run[r].task] = "approved" \/ run[r].task \in unasked
    /\ \A t \in Task : done[t] > 0 /\ (job[t] = "command" \/ (named /\ t \notin unasked))
          => yes[t] = "approved"

\* What is on its way out, or is out, was approved; the runners at the piece
\* hold what its row holds, but for a director that came between.
PackagesSound ==
    /\ out.pkgs \subseteq blessed.pkgs
    /\ piece.state = "approved" => piece.pkg \in blessed.pkgs
    /\ \A r \in AtPiece :
          /\ run[r].pkg \in blessed.pkgs
          /\ At(r, "record") => run[r].pkg \in out.pkgs
          /\ ~past.overtaken => run[r].pkg = piece.pkg
    /\ PublishedIsOut

\* A task nobody lost sight of is run by one runner at most, while it says
\* running; its effect was had once, and a runner or its row knows of it.
TasksSound ==
    \A t \in Task \ lost :
       /\ \A r, q \in Holding(t) : r = q /\ task[t].status = "running"
       /\ yes[t] = "rejected" => task[t].status = "cancelled"
       /\ done[t] > 0 => /\ done[t] = 1
                         /\ \/ task[t].status = "completed"
                            \/ \E r \in Holding(t) : Unrecorded(r)

\* Every post is paid for by an approval of its own, and so is the one that a
\* runner is about to make, and the one that an approved piece invites.
PostsPaid ==
    /\ ~past.together => \A r, q \in AtPiece : r = q
    /\ lost = {} /\ ~past.together =>
          /\ out.n <= blessed.n
          /\ (\E r \in AtPiece : ~At(r, "record")) => out.n < blessed.n
          /\ piece.state = "approved" /\ (\A r \in AtPiece : ~At(r, "record"))
                => out.n < blessed.n

\* What is about to be done to a page: a link, or something he was asked about.
PagesSound ==
    /\ \A r \in Runner : At(r, "asking") => tab[r].what = "control"
    /\ \A r \in Runner : At(r, "touch") /\ tab[r].what # "link" =>
          yes[run[r].task] = "approved" /\ tab[r].on = "asked"
    /\ NothingUnseen

\* Tasks that may wait although they have their answer.
Excused(t) ==
    \/ t \in lost
    \/ job[t] # "piece" /\ t \in unread
    \/ job[t] = "page" /\ t \in strayed

OnPage == {"open", "look", "asking", "touch"}

\* Whoever is about to wait has no answer yet, but for the tasks named.
WaitsSound ==
    /\ \A r \in Runner : At(r, "park") =>
          yes[run[r].task] = "none" \/ Excused(run[r].task)
    /\ \A r \in Runner : run[r].pc \in {"stop", "exactly"} =>
          job[run[r].task] = "command"
    /\ \A r \in Runner : run[r].pc \in OnPage => job[run[r].task] = "page"
    /\ \A r \in Runner : At(r, "asking") /\ tab[r].on = "other" =>
          run[r].task \in strayed
    /\ CanBeAnswered

IInv == /\ TypeOK /\ AnswersSound /\ PackagesSound /\ TasksSound /\ PostsPaid
        /\ PagesSound /\ WaitsSound

\* A request to LinkedIn.
Request(r) == Post(r) \/ Older(r)

\* The records that things start from are of their types.
LEMMA Records ==
    /\ Idle \in RunRecord /\ NoTab \in Tab
    /\ Idle.task = "none" /\ Idle.pc = "idle"
    /\ \A t \in Task : t # "none"
BY EffectsAssumption DEF Idle, NoTab, RunRecord, Tab, PC, Address

\* A runner is sent on with what it holds.
LEMMA GoType ==
    ASSUME TypeOK, NEW r \in Runner, NEW pc \in PC \ {"idle"}, ~At(r, "idle"),
           Go(r, pc)
    PROVE  /\ run' \in [Runner -> RunRecord]
           /\ \A q \in Runner : run'[q].pc # "idle" <=> run'[q].task \in Task
<1>1. [run[r] EXCEPT !.pc = pc] \in RunRecord
  BY DEF TypeOK, RunnersOK, RunRecord
<1>2. run' = [run EXCEPT ![r] = [run[r] EXCEPT !.pc = pc]]
  BY DEF Go
<1>3. run' \in [Runner -> RunRecord]
  BY <1>1, <1>2 DEF TypeOK, RunnersOK
<1>4. [run[r] EXCEPT !.pc = pc].task = run[r].task /\ [run[r] EXCEPT !.pc = pc].pc = pc
  BY DEF TypeOK, RunnersOK, RunRecord
<1> QED
  BY <1>2, <1>3, <1>4 DEF TypeOK, RunnersOK, At

LEMMA LeaveType ==
    ASSUME TypeOK, NEW r \in Runner, Leave(r)
    PROVE  /\ run' \in [Runner -> RunRecord]
           /\ \A q \in Runner : run'[q].pc # "idle" <=> run'[q].task \in Task
BY Records DEF TypeOK, RunnersOK, Leave

LEMMA GoesType ==
    ASSUME TypeOK, NEW r \in Runner, NEW pc \in PC \ {"idle"}, ~At(r, "idle"),
           NEW page \in Tab, Goes(r, pc, page), acts' = acts
    PROVE  RunnersOK'
<1>1. tab' \in [Runner -> Tab]
  BY DEF Goes, TypeOK, RunnersOK
<1>2. Go(r, pc)
  BY DEF Goes
<1> QED
  BY <1>1, <1>2, GoType DEF TypeOK, RunnersOK

LEMMA PageTypes ==
    ASSUME NEW step \in Nat, NEW on \in Address
    PROVE  /\ Further(step) \in PC \ {"idle"}
           /\ [NoTab EXCEPT !.step = step, !.on = on] \in Tab
           /\ step + 1 \in Nat
<1>1. Further(step) \in PC \ {"idle"}
  BY Zenon DEF Further, PC
<1>2. NoTab \in Tab
  BY Records
<1>3. [NoTab EXCEPT !.step = step, !.on = on] \in Tab
  BY <1>2 DEF Tab
<1> QED
  BY <1>1, <1>3

\* Every step of the task engine around the effects keeps the types.
LEMMA TypeStep == TypeOK /\ [BrowsingNext]_<<vars, pageVars>> => TypeOK'
<1> SUFFICES ASSUME TypeOK, [BrowsingNext]_<<vars, pageVars>> PROVE TypeOK'
  OBVIOUS
<1> USE Records DEF TypeOK, At
<1>1. ASSUME NEW r \in Runner, NEW t \in Task, Claim(r, t), Closes, UNCHANGED acts
      PROVE TypeOK'
  <2>1. RowsOK'
    BY <1>1 DEF Claim, First, RowsOK, TaskRow
  <2>2. RunnersOK'
    <3>1. First(t) \in PC \ {"idle"}
      BY EffectsAssumption DEF First, PC, RowsOK
    <3>2. [Idle EXCEPT !.task = t, !.pc = First(t)] \in RunRecord
      BY <3>1 DEF RunRecord, Idle
    <3>3. /\ [Idle EXCEPT !.task = t, !.pc = First(t)].pc # "idle"
          /\ [Idle EXCEPT !.task = t, !.pc = First(t)].task = t
      BY <3>1 DEF Idle
    <3>4. run' = [run EXCEPT ![r] = [Idle EXCEPT !.task = t, !.pc = First(t)]]
      BY <1>1 DEF Claim
    <3> HIDE DEF First
    <3>5. /\ run' \in [Runner -> RunRecord]
          /\ \A q \in Runner : run'[q].pc # "idle" <=> run'[q].task \in Task
      BY <3>2, <3>3, <3>4 DEF RunnersOK
    <3> QED
      BY <1>1, <3>5 DEF Closes, RunnersOK
  <2>3. PastOK'
    BY <1>1 DEF Claim, First, PastOK, RowsOK, RunnersOK, RunRecord
  <2> QED
    BY <2>1, <2>2, <2>3
<1>2. ASSUME NEW r \in Runner, Park(r), Closes, UNCHANGED acts
      PROVE TypeOK'
  <2>1. RowsOK'
    BY <1>2 DEF Park, Leave, RowsOK, TaskRow
  <2>2. RunnersOK'
    BY <1>2, LeaveType DEF Park, RunnersOK, Closes, PC
  <2>3. PastOK'
    BY <1>2 DEF Park, Leave, PastOK, RowsOK, RunnersOK, RunRecord
  <2> QED
    BY <2>1, <2>2, <2>3
<1>3. ASSUME NEW r \in Runner, Fail(r), Closes, UNCHANGED acts
      PROVE TypeOK'
  <2>1. RowsOK'
    BY <1>3 DEF Fail, Leave, RowsOK, TaskRow
  <2>2. RunnersOK'
    BY <1>3, LeaveType DEF Fail, RunnersOK, Closes, PC
  <2>3. PastOK'
    BY <1>3 DEF Fail, Leave, PastOK, RowsOK, RunnersOK, RunRecord
  <2> QED
    BY <2>1, <2>2, <2>3
<1>4. ASSUME NEW r \in Runner, Complete(r), Closes, UNCHANGED acts
      PROVE TypeOK'
  <2>1. RowsOK'
    BY <1>4 DEF Complete, Leave, RowsOK, TaskRow
  <2>2. RunnersOK'
    BY <1>4, LeaveType DEF Complete, RunnersOK, Closes, PC
  <2>3. PastOK'
    BY <1>4 DEF Complete, Leave, PastOK, RowsOK, RunnersOK, RunRecord
  <2> QED
    BY <2>1, <2>2, <2>3
<1>5. ASSUME NEW r \in Runner, Stop(r), Closes, UNCHANGED acts
      PROVE TypeOK'
  <2>1. RowsOK'
    BY <1>5 DEF Stop, Go, RowsOK, TaskRow
  <2>2. RunnersOK'
    BY <1>5, GoType DEF Stop, RunnersOK, Closes, PC
  <2>3. PastOK'
    BY <1>5 DEF Stop, Go, PastOK, RowsOK, RunnersOK, RunRecord
  <2> QED
    BY <2>1, <2>2, <2>3
<1>6. ASSUME NEW r \in Runner, Exactly(r), Closes, UNCHANGED acts
      PROVE TypeOK'
  <2>1. RowsOK'
    BY <1>6 DEF Exactly, Misses, Event, Go, RowsOK, TaskRow
  <2>2. RunnersOK'
    BY <1>6, GoType DEF Exactly, Misses, RunnersOK, Closes, PC
  <2>3. PastOK'
    BY <1>6 DEF Exactly, Misses, Event, Go, PastOK, RowsOK, RunnersOK, RunRecord
  <2> QED
    BY <2>1, <2>2, <2>3
<1>7. ASSUME NEW r \in Runner, Spawn(r), Closes, UNCHANGED acts
      PROVE TypeOK'
  <2>1. RowsOK'
    BY <1>7 DEF Spawn, Did, Loses, Go, Event, RowsOK, TaskRow
  <2>2. RunnersOK'
    BY <1>7, GoType DEF Spawn, Did, Loses, Event, RunnersOK, Closes, PC
  <2>3. PastOK'
    BY <1>7 DEF Spawn, Did, Loses, Go, Event, PastOK, RowsOK, RunnersOK, RunRecord
  <2> QED
    BY <2>1, <2>2, <2>3
<1>8. ASSUME NEW r \in Runner, Tell(r), Closes, UNCHANGED acts
      PROVE TypeOK'
  <2>1. RowsOK'
    BY <1>8 DEF Tell, Go, RowsOK, TaskRow
  <2>2. RunnersOK'
    BY <1>8, GoType DEF Tell, RunnersOK, Closes, PC
  <2>3. PastOK'
    BY <1>8 DEF Tell, Go, PastOK, RowsOK, RunnersOK, RunRecord
  <2> QED
    BY <2>1, <2>2, <2>3
<1>9. ASSUME NEW r \in Runner, Gate(r), Closes, UNCHANGED acts
      PROVE TypeOK'
  <2>1. RowsOK'
    BY <1>9 DEF Gate, Passes, Go, RowsOK, TaskRow
  <2>2. RunnersOK'
    BY <1>9, GoType DEF Gate, Passes, RunnersOK, Closes, PC
  <2>3. PastOK'
    BY <1>9 DEF Gate, Passes, Go, PastOK, RowsOK, RunnersOK, RunRecord
  <2> QED
    BY <2>1, <2>2, <2>3
<1>10. ASSUME NEW r \in Runner, ReadPiece(r), Closes, UNCHANGED acts
      PROVE TypeOK'
  <2>1. RowsOK'
    BY <1>10 DEF ReadPiece, Go, RowsOK, TaskRow
  <2>2. RunnersOK'
    <3>1. CASE piece.state = "approved"
      <4>1. run' = [run EXCEPT ![r].pc = "account", ![r].pkg = piece.pkg]
        BY <1>10, <3>1 DEF ReadPiece
      <4>2. /\ run' \in [Runner -> RunRecord]
            /\ \A q \in Runner : run'[q].pc # "idle" <=> run'[q].task \in Task
        BY <1>10, <4>1 DEF ReadPiece, RunnersOK, RunRecord, PC, RowsOK
      <4> QED
        BY <1>10, <4>2 DEF Closes, RunnersOK
    <3>2. CASE piece.state # "approved"
      BY <1>10, <3>2, GoType DEF ReadPiece, RunnersOK, Closes, PC
    <3> QED
      BY <3>1, <3>2
  <2>3. PastOK'
    BY <1>10 DEF ReadPiece, Go, PastOK, RowsOK, RunnersOK, RunRecord
  <2> QED
    BY <2>1, <2>2, <2>3
<1>11. ASSUME NEW r \in Runner, ReadAccount(r), Closes, UNCHANGED acts
      PROVE TypeOK'
  <2>1. RowsOK'
    BY <1>11 DEF ReadAccount, RowsOK, TaskRow
  <2>2. RunnersOK'
    <3>1. /\ run' \in [Runner -> RunRecord]
          /\ \A q \in Runner : run'[q].pc # "idle" <=> run'[q].task \in Task
      BY <1>11 DEF ReadAccount, RunnersOK, RunRecord, PC, RowsOK
    <3> QED
      BY <1>11, <3>1 DEF Closes, RunnersOK
  <2>3. PastOK'
    BY <1>11 DEF ReadAccount, PastOK, RowsOK, RunnersOK, RunRecord
  <2> QED
    BY <2>1, <2>2, <2>3
<1>12. ASSUME NEW r \in Runner, Who(r), Closes, UNCHANGED acts
      PROVE TypeOK'
  <2>1. RowsOK'
    BY <1>12 DEF Who, Go, RowsOK, TaskRow
  <2>2. RunnersOK'
    BY <1>12, GoType DEF Who, RunnersOK, Closes, PC
  <2>3. PastOK'
    BY <1>12 DEF Who, Go, PastOK, RowsOK, RunnersOK, RunRecord
  <2> QED
    BY <2>1, <2>2, <2>3
<1>13. ASSUME NEW r \in Runner, Request(r), Closes, UNCHANGED acts
      PROVE TypeOK'
  <2>1. RowsOK'
    BY <1>13 DEF Request, Post, Older, Asks, Did, Loses, Go, Event, RowsOK, TaskRow
  <2>2. RunnersOK'
    BY <1>13, GoType DEF Request, Post, Older, Asks, Did, Loses, Event, RunnersOK, Closes, PC
  <2>3. PastOK'
    BY <1>13 DEF Request, Post, Older, Asks, Did, Loses, Go, Event, PastOK, RowsOK, RunnersOK, RunRecord
  <2> QED
    BY <2>1, <2>2, <2>3
<1>14. ASSUME NEW r \in Runner, Record(r), Closes, UNCHANGED acts
      PROVE TypeOK'
  <2>1. RowsOK'
    <3>1. run[r].pkg \in Nat
      BY DEF RunnersOK, RunRecord
    <3> QED
      BY <1>14, <3>1 DEF Record, RowsOK
  <2>2. RunnersOK'
    BY <1>14, GoType DEF Record, RunnersOK, Closes, PC
  <2>3. PastOK'
    BY <1>14 DEF Record, Go, PastOK, RowsOK, RunnersOK, RunRecord
  <2> QED
    BY <2>1, <2>2, <2>3
<1>32. ASSUME NEW r \in Runner, Slip(r), Closes, UNCHANGED acts
      PROVE TypeOK'
  <2>1. RowsOK'
    BY <1>32 DEF Slip, Unrecorded, Loses, Go, Event, RowsOK, TaskRow
  <2>2. RunnersOK'
    BY <1>32, GoType DEF Slip, Unrecorded, Loses, Event, RunnersOK, Closes, PC
  <2>3. PastOK'
    BY <1>32 DEF Slip, Unrecorded, Loses, Go, Event, PastOK, RowsOK, RunnersOK,
       RunRecord
  <2> QED
    BY <2>1, <2>2, <2>3
<1>33. ASSUME SetPolicy, Closes, UNCHANGED acts
      PROVE TypeOK'
  <2>1. RowsOK'
    BY <1>33 DEF SetPolicy, Event, RowsOK, TaskRow
  <2>2. RunnersOK'
    BY <1>33 DEF SetPolicy, Event, RunnersOK, Closes, PC
  <2>3. PastOK'
    BY <1>33 DEF SetPolicy, Event, PastOK, RowsOK, RunnersOK, RunRecord
  <2> QED
    BY <2>1, <2>2, <2>3
<1>15. ASSUME NEW t \in Task, Age(t), Closes, UNCHANGED acts
      PROVE TypeOK'
  <2>1. RowsOK'
    BY <1>15 DEF Age, RowsOK, TaskRow
  <2>2. RunnersOK'
    BY <1>15 DEF Age, RunnersOK, Closes, PC
  <2>3. PastOK'
    BY <1>15 DEF Age, PastOK, RowsOK, RunnersOK, RunRecord
  <2> QED
    BY <2>1, <2>2, <2>3
<1>16. ASSUME NEW t \in Task, Recover(t), Closes, UNCHANGED acts
      PROVE TypeOK'
  <2>1. RowsOK'
    BY <1>16 DEF Recover, RowsOK, TaskRow
  <2>2. RunnersOK'
    BY <1>16 DEF Recover, RunnersOK, Closes, PC
  <2>3. PastOK'
    BY <1>16 DEF Recover, PastOK, RowsOK, RunnersOK, RunRecord
  <2> QED
    BY <2>1, <2>2, <2>3
<1>17. ASSUME NEW t \in Task, NEW said \in {"approved", "rejected"}, Answer(t, said), Closes, UNCHANGED acts
      PROVE TypeOK'
  <2>1. RowsOK'
    BY <1>17 DEF Answer, RowsOK, TaskRow
  <2>2. RunnersOK'
    BY <1>17 DEF Answer, RunnersOK, Closes, PC
  <2>3. PastOK'
    BY <1>17 DEF Answer, PastOK, RowsOK, RunnersOK, RunRecord
  <2> QED
    BY <2>1, <2>2, <2>3
<1>18. ASSUME Crash, Closes, UNCHANGED acts
      PROVE TypeOK'
  <2>1. RowsOK'
    BY <1>18 DEF Crash, Event, RowsOK, TaskRow
  <2>2. RunnersOK'
    BY <1>18 DEF Crash, Event, RunnersOK, Closes, PC
  <2>3. PastOK'
    BY <1>18 DEF Crash, Event, PastOK, RowsOK, RunnersOK, RunRecord
  <2> QED
    BY <2>1, <2>2, <2>3
<1>19. ASSUME Approve, Closes, UNCHANGED acts
      PROVE TypeOK'
  <2>1. RowsOK'
    BY <1>19 DEF Approve, RowsOK, TaskRow
  <2>2. RunnersOK'
    BY <1>19 DEF Approve, RunnersOK, Closes, PC
  <2>3. PastOK'
    BY <1>19 DEF Approve, PastOK, RowsOK, RunnersOK, RunRecord
  <2> QED
    BY <2>1, <2>2, <2>3
<1>20. ASSUME Resettle, Closes, UNCHANGED acts
      PROVE TypeOK'
  <2>1. RowsOK'
    <3>1. piece' = [piece EXCEPT !.state = "ready", !.pkg = @ + 1]
      BY <1>20 DEF Resettle
    <3>2. piece.pkg + 1 \in Nat
      BY DEF RowsOK
    <3>3. piece' \in [state : {"ready", "approved", "published"}, pkg : Nat,
                      id : Nat]
      BY <3>1, <3>2 DEF RowsOK
    <3> QED
      BY <1>20, <3>3 DEF Resettle, RowsOK
  <2>2. RunnersOK'
    BY <1>20 DEF Resettle, Event, RunnersOK, Closes, PC
  <2>3. PastOK'
    BY <1>20 DEF Resettle, Event, PastOK, RowsOK, RunnersOK, RunRecord
  <2> QED
    BY <2>1, <2>2, <2>3
<1>21. ASSUME SetStopped, Closes, UNCHANGED acts
      PROVE TypeOK'
  <2>1. RowsOK'
    BY <1>21 DEF SetStopped, Event, RowsOK, TaskRow
  <2>2. RunnersOK'
    BY <1>21 DEF SetStopped, Event, RunnersOK, Closes, PC
  <2>3. PastOK'
    BY <1>21 DEF SetStopped, Event, PastOK, RowsOK, RunnersOK, RunRecord
  <2> QED
    BY <2>1, <2>2, <2>3
<1>22. ASSUME SignIn, Closes, UNCHANGED acts
      PROVE TypeOK'
  <2>1. RowsOK'
    BY <1>22 DEF SignIn, Event, RowsOK, TaskRow
  <2>2. RunnersOK'
    BY <1>22 DEF SignIn, Event, RunnersOK, Closes, PC
  <2>3. PastOK'
    BY <1>22 DEF SignIn, Event, PastOK, RowsOK, RunnersOK, RunRecord
  <2> QED
    BY <2>1, <2>2, <2>3
<1>23. ASSUME Disconnect, Closes, UNCHANGED acts
      PROVE TypeOK'
  <2>1. RowsOK'
    BY <1>23 DEF Disconnect, Event, RowsOK, TaskRow
  <2>2. RunnersOK'
    BY <1>23 DEF Disconnect, Event, RunnersOK, Closes, PC
  <2>3. PastOK'
    BY <1>23 DEF Disconnect, Event, PastOK, RowsOK, RunnersOK, RunRecord
  <2> QED
    BY <2>1, <2>2, <2>3
<1>24. ASSUME NEW b \in Redirect, Take(b), Closes, UNCHANGED acts
      PROVE TypeOK'
  <2>1. RowsOK'
    BY <1>24 DEF Take, RowsOK, TaskRow
  <2>2. RunnersOK'
    BY <1>24 DEF Take, RunnersOK, Closes, PC
  <2>3. PastOK'
    BY <1>24 DEF Take, PastOK, RowsOK, RunnersOK, RunRecord
  <2> QED
    BY <2>1, <2>2, <2>3
<1>25. ASSUME NEW b \in Redirect, Exchange(b), Closes, UNCHANGED acts
      PROVE TypeOK'
  <2>1. RowsOK'
    BY <1>25 DEF Exchange, RowsOK, TaskRow
  <2>2. RunnersOK'
    BY <1>25 DEF Exchange, RunnersOK, Closes, PC
  <2>3. PastOK'
    BY <1>25 DEF Exchange, PastOK, RowsOK, RunnersOK, RunRecord
  <2> QED
    BY <2>1, <2>2, <2>3
<1>26. ASSUME NEW r \in Runner, Open(r)
      PROVE TypeOK'
  <2>1. RowsOK'
    BY <1>26 DEF Open, Goes, Ends, Go, Further, Errors, RowsOK, TaskRow
  <2>2. RunnersOK'
    <3>1. CASE \E pc \in Errors : Ends(r, pc)
      BY <1>26, <3>1, GoesType DEF Open, Ends, Errors, PC
    <3>2. CASE \E on \in Address :
                  Goes(r, Further(1), [NoTab EXCEPT !.step = 1, !.on = on])
      BY <1>26, <3>2, GoesType, PageTypes DEF Open
    <3> QED
      BY <1>26, <3>1, <3>2 DEF Open
  <2>3. PastOK'
    BY <1>26 DEF Open, Goes, Ends, Go, Further, Errors, PastOK, RowsOK, RunnersOK, RunRecord
  <2> QED
    BY <2>1, <2>2, <2>3
<1>27. ASSUME NEW r \in Runner, Look(r)
      PROVE TypeOK'
  <2>1. RowsOK'
    BY <1>27 DEF Look, Goes, Ends, Go, Errors, RowsOK, TaskRow
  <2>2. RunnersOK'
    <3>1. /\ [tab[r] EXCEPT !.what = "link"] \in Tab
          /\ [tab[r] EXCEPT !.what = "control"] \in Tab
      BY DEF RunnersOK, Tab
    <3>2. ~At(r, "idle") /\ acts' = acts
      BY <1>27 DEF Look
    <3>3. CASE \E pc \in Errors : Ends(r, pc)
      BY <3>2, <3>3, GoesType DEF Ends, Errors, PC
    <3>4. CASE Goes(r, "touch", [tab[r] EXCEPT !.what = "link"])
      BY <3>1, <3>2, <3>4, GoesType DEF PC
    <3>5. CASE Goes(r, "asking", [tab[r] EXCEPT !.what = "control"])
      BY <3>1, <3>2, <3>5, GoesType DEF PC
    <3> QED
      BY <1>27, <3>3, <3>4, <3>5 DEF Look
  <2>3. PastOK'
    BY <1>27 DEF Look, Goes, Ends, Go, Errors, PastOK, RowsOK, RunnersOK, RunRecord
  <2> QED
    BY <2>1, <2>2, <2>3
<1>28. ASSUME NEW r \in Runner, MustBeApproved(r)
      PROVE TypeOK'
  <2>1. RowsOK'
    BY <1>28 DEF MustBeApproved, Misses, Event, Ends, Goes, Go, RowsOK, TaskRow
  <2>2. RunnersOK'
    BY <1>28, GoType DEF MustBeApproved, Ends, Goes, RunnersOK, Closes, PC
  <2>3. PastOK'
    BY <1>28 DEF MustBeApproved, Misses, Event, Ends, Goes, Go, PastOK, RowsOK, RunnersOK, RunRecord
  <2> QED
    BY <2>1, <2>2, <2>3
<1>29. ASSUME NEW r \in Runner, Turn(r)
      PROVE TypeOK'
  <2>1. RowsOK'
    BY <1>29 DEF Turn, Event, RowsOK, TaskRow
  <2>2. RunnersOK'
    <3>1. [tab[r] EXCEPT !.turned = TRUE] \in Tab
      BY DEF RunnersOK, Tab
    <3>2. tab' = [tab EXCEPT ![r] = [tab[r] EXCEPT !.turned = TRUE]]
      BY <1>29, Zenon DEF Turn
    <3>3. UNCHANGED <<run, acts>>
      BY <1>29, Zenon DEF Turn
    <3> QED
      BY <3>1, <3>2, <3>3 DEF RunnersOK
  <2>3. PastOK'
    BY <1>29 DEF Turn, Event, PastOK, RowsOK, RunnersOK, RunRecord
  <2> QED
    BY <2>1, <2>2, <2>3
<1>30. ASSUME NEW r \in Runner, Touch(r)
      PROVE TypeOK'
  <2>1. RowsOK'
    BY <1>30 DEF Touch, Goes, Ends, Go, Further, RowsOK, TaskRow
  <2>2. RunnersOK'
    <3> DEFINE did == IF tab[r].what = "link" /\ ~tab[r].turned THEN {}
                      ELSE {[task |-> run[r].task, on |-> tab[r].on,
                             turned |-> tab[r].turned]}
    <3>1. ~At(r, "idle") /\ run[r].task \in Task
      BY <1>30 DEF Touch, RunnersOK
    <3>2. did \subseteq [task : Task, on : Address, turned : BOOLEAN]
      BY <3>1 DEF RunnersOK, Tab
    <3>3. acts' \subseteq [task : Task, on : Address, turned : BOOLEAN]
      <4>1. acts' = acts \cup did \/ acts' = acts
        BY <1>30, Zenon DEF Touch
      <4> QED
        BY <3>2, <4>1 DEF RunnersOK
    <3>4. \E pc \in PC \ {"idle"}, page \in Tab : Goes(r, pc, page)
      <4>1. tab[r].step + 1 \in Nat
        BY DEF RunnersOK, Tab
      <4>2. CASE Ends(r, "fail")
        BY <4>2 DEF Ends, PC
      <4>3. CASE \E on \in Address :
                    Goes(r, Further(tab[r].step + 1),
                         [NoTab EXCEPT !.step = tab[r].step + 1, !.on = on])
        BY <4>1, <4>3, PageTypes
      <4> QED
        BY <1>30, <4>2, <4>3, Zenon DEF Touch
    <3>5. /\ run' \in [Runner -> RunRecord] /\ tab' \in [Runner -> Tab]
          /\ \A q \in Runner : run'[q].pc # "idle" <=> run'[q].task \in Task
      BY <3>1, <3>4, GoType DEF Goes, RunnersOK
    <3> QED
      BY <3>3, <3>5 DEF RunnersOK
  <2>3. PastOK'
    BY <1>30 DEF Touch, Goes, Ends, Go, Further, PastOK, RowsOK, RunnersOK, RunRecord
  <2> QED
    BY <2>1, <2>2, <2>3
<1>31. CASE UNCHANGED <<vars, pageVars>>
  BY <1>31 DEF vars, RowsOK, RunnersOK, PastOK
<1> QED
  BY <1>1, <1>2, <1>3, <1>4, <1>5, <1>6, <1>7, <1>8, <1>9, <1>10, <1>11, <1>12,
     <1>13, <1>14, <1>15, <1>16, <1>17, <1>18, <1>19, <1>20, <1>21, <1>22, <1>23,
     <1>24, <1>25, <1>26, <1>27, <1>28, <1>29, <1>30, <1>31, <1>32, <1>33
     DEF BrowsingNext, Next, Step, Request

-----------------------------------------------------------------------------
(* What a step does to a runner *)

\* Where a runner that moves on comes from.
Arrives(r) ==
    LET to == run'[r].pc IN
    /\ run'[r].task = run[r].task /\ ~At(r, "idle")
    /\ to \notin {"idle", "gate", "stop", "open"}
    /\ to = "exactly" => Stop(r)
    /\ to = "spawn" => Exactly(r)
    /\ to = "piece" => Gate(r)
    /\ to = "account" => ReadPiece(r)
    /\ to = "who" => ReadAccount(r)
    /\ to = "post" => Who(r)
    /\ to = "older" => Post(r)
    /\ to = "record" => Request(r)
    /\ to = "tell" => Spawn(r) \/ Open(r) \/ Touch(r)
    /\ to = "done" => Record(r) \/ Tell(r)
    /\ to = "look" => Open(r) \/ Touch(r)
    /\ to = "asking" => Look(r)
    /\ to = "touch" => Look(r) \/ MustBeApproved(r)
    /\ to = "park" => Exactly(r) \/ Gate(r) \/ MustBeApproved(r)
    /\ to \notin {"account", "who"} => run'[r].pkg = run[r].pkg
    /\ Unrecorded(r) => Unrecorded(r)' \/ run[r].task \in lost'

\* A runner takes a task up, moves on with it, or is through with it.
LEMMA Moves ==
    ASSUME TypeOK, [BrowsingNext]_<<vars, pageVars>>, NEW r \in Runner,
           run'[r] # run[r]
    PROVE  \/ /\ run'[r] = Idle
              /\ Crash \/ Park(r) \/ Fail(r) \/ Complete(r)
           \/ \E t \in Task : Claim(r, t)
           \/ Arrives(r)
<1> USE DEF TypeOK, RunnersOK, At
<1>1. ASSUME NEW q \in Runner, Park(q)
      PROVE  run'[r] = Idle /\ q = r
  BY <1>1 DEF Park, Leave
<1>2. ASSUME NEW q \in Runner, Fail(q)
      PROVE  run'[r] = Idle /\ q = r
  BY <1>2 DEF Fail, Leave
<1>3. ASSUME NEW q \in Runner, Complete(q)
      PROVE  run'[r] = Idle /\ q = r
  BY <1>3 DEF Complete, Leave
<1>4. ASSUME NEW q \in Runner, Stop(q)
      PROVE  q = r /\ Arrives(r)
  BY <1>4 DEF Stop, Go, Arrives, Unrecorded, RunRecord
<1>5. ASSUME NEW q \in Runner, Exactly(q)
      PROVE  q = r /\ Arrives(r)
  BY <1>5 DEF Exactly, Misses, Go, Arrives, Unrecorded, RunRecord
<1>6. ASSUME NEW q \in Runner, Spawn(q)
      PROVE  q = r /\ Arrives(r)
  BY <1>6 DEF Spawn, Did, Loses, Go, Event, Arrives, Unrecorded, RunRecord
<1>7. ASSUME NEW q \in Runner, Tell(q)
      PROVE  q = r /\ Arrives(r)
  BY <1>7 DEF Tell, Go, Arrives, Unrecorded, RunRecord
<1>8. ASSUME NEW q \in Runner, Gate(q)
      PROVE  q = r /\ Arrives(r)
  BY <1>8 DEF Gate, Passes, Go, Arrives, Unrecorded, RunRecord
<1>9. ASSUME NEW q \in Runner, ReadPiece(q)
      PROVE  q = r /\ Arrives(r)
  BY <1>9 DEF ReadPiece, Go, Arrives, Unrecorded, RunRecord
<1>10. ASSUME NEW q \in Runner, ReadAccount(q)
      PROVE  q = r /\ Arrives(r)
  BY <1>10 DEF ReadAccount, Arrives, Unrecorded, RunRecord
<1>11. ASSUME NEW q \in Runner, Who(q)
      PROVE  q = r /\ Arrives(r)
  BY <1>11 DEF Who, Go, Arrives, Unrecorded, RunRecord
<1>12. ASSUME NEW q \in Runner, Request(q)
      PROVE  q = r /\ Arrives(r)
  BY <1>12 DEF Request, Post, Older, Asks, Did, Loses, Go, Event, Arrives, Unrecorded, RunRecord
<1>13. ASSUME NEW q \in Runner, Record(q)
      PROVE  q = r /\ Arrives(r)
  BY <1>13 DEF Record, Go, Arrives, Unrecorded, RunRecord
<1>14. CASE Crash
  BY <1>14 DEF Crash
<1>15. ASSUME NEW q \in Runner, Open(q)
      PROVE  q = r /\ Arrives(r)
  <2>1. \A step : Further(step) \in {"tell", "look"}
    BY DEF Further
  <2>2. PICK pc \in {"refuse", "fail", "tell", "look"} : Go(q, pc)
    BY <1>15, <2>1, Zenon DEF Open, Goes, Ends, Errors
  <2>3. run[q].pc \in {"open", "touch"}
    BY <1>15, Zenon DEF Open
  <2> QED
    BY <1>15, <2>2, <2>3 DEF Go, Arrives, Unrecorded, RunRecord
<1>16. ASSUME NEW q \in Runner, Look(q)
      PROVE  q = r /\ Arrives(r)
  BY <1>16 DEF Look, Goes, Ends, Go, Errors, Arrives, Unrecorded, RunRecord
<1>17. ASSUME NEW q \in Runner, MustBeApproved(q)
      PROVE  q = r /\ Arrives(r)
  BY <1>17 DEF MustBeApproved, Misses, Ends, Goes, Go, Arrives, Unrecorded, RunRecord
<1>18. ASSUME NEW q \in Runner, Touch(q)
      PROVE  q = r /\ Arrives(r)
  <2>1. \A step : Further(step) \in {"tell", "look"}
    BY DEF Further
  <2>2. PICK pc \in {"refuse", "fail", "tell", "look"} : Go(q, pc)
    BY <1>18, <2>1, Zenon DEF Touch, Goes, Ends
  <2>3. run[q].pc \in {"open", "touch"}
    BY <1>18, Zenon DEF Touch
  <2> QED
    BY <1>18, <2>2, <2>3 DEF Go, Arrives, Unrecorded, RunRecord
<1>19. ASSUME NEW q \in Runner, NEW t \in Task, Claim(q, t)
      PROVE  q = r
  BY <1>19 DEF Claim
<1>20. ASSUME NEW q \in Runner, Slip(q)
      PROVE  q = r /\ Arrives(r)
  BY <1>20 DEF Slip, Loses, Go, Arrives, Unrecorded, RunRecord
<1> QED
  BY <1>1, <1>2, <1>3, <1>4, <1>5, <1>6, <1>7, <1>8, <1>9, <1>10, <1>11, <1>12,
     <1>13, <1>14, <1>15, <1>16, <1>17, <1>18, <1>19, <1>20
     DEF BrowsingNext, Next, Step, Request, Age, Recover, Answer, Approve,
         Resettle, SetStopped, SetPolicy, SignIn, Disconnect, Take, Exchange, Turn, vars

\* What the tasks are for is fixed; the owner's answer to a task is kept.
LEMMA AnswersFrame ==
    ASSUME TypeOK, [BrowsingNext]_<<vars, pageVars>>, NEW t \in Task
    PROVE  /\ job' = job /\ named' = named
           /\ \/ yes'[t] = yes[t]
              \/ /\ yes[t] = "none" /\ task[t].status = "waiting" /\ run' = run
                 /\ \/ yes'[t] = "approved" /\ task'[t].status = "queued"
                    \/ yes'[t] = "rejected" /\ task'[t].status = "cancelled"
<1>1. ASSUME NEW u \in Task, NEW said \in {"approved", "rejected"},
             Answer(u, said)
      PROVE  /\ job' = job /\ named' = named
             /\ \/ yes'[t] = yes[t]
                \/ /\ yes[t] = "none" /\ task[t].status = "waiting"
                   /\ run' = run
                   /\ \/ yes'[t] = "approved" /\ task'[t].status = "queued"
                      \/ yes'[t] = "rejected" /\ task'[t].status = "cancelled"
  BY <1>1 DEF Answer, TypeOK, RowsOK, TaskRow
<1> QED
  BY <1>1 DEF BrowsingNext, Next, Step, Claim, Park, Fail, Complete, Stop,
     Slip, Exactly, Spawn, Tell, Gate, Passes, ReadPiece, ReadAccount, Who, Post,
     Older, Asks, Record, Age, Recover, Crash, Approve, Resettle, SetStopped,
     SetPolicy, SignIn, Disconnect, Take, Exchange, Open, Look, MustBeApproved, Turn, Touch, vars

\* A task has an effect by a command that is spawned or a post that is taken.
LEMMA EffectsFrame ==
    ASSUME TypeOK, [BrowsingNext]_<<vars, pageVars>>
    PROVE  \/ UNCHANGED <<done, out>>
           \/ /\ UNCHANGED <<out, piece>>
              /\ \E r \in Runner :
                    /\ Spawn(r) /\ done' = [done EXCEPT ![run[r].task] = @ + 1]
                    /\ At(r, "tell")' \/ run[r].task \in lost'
           \/ /\ UNCHANGED <<piece, blessed, past>>
              /\ \E r \in Runner :
                    /\ Request(r) /\ done' = [done EXCEPT ![run[r].task] = @ + 1]
                    /\ out' = [n |-> out.n + 1, pkgs |-> out.pkgs \cup {run[r].pkg}]
                    /\ At(r, "record")' \/ run[r].task \in lost'
<1>1. ASSUME NEW r \in Runner, Spawn(r)
      PROVE  \/ UNCHANGED <<done, out>>
             \/ /\ UNCHANGED <<out, piece>>
                /\ done' = [done EXCEPT ![run[r].task] = @ + 1]
                /\ At(r, "tell")' \/ run[r].task \in lost'
  BY <1>1 DEF Spawn, Did, Loses, Go, At, TypeOK, RunnersOK, RunRecord
<1>2. ASSUME NEW r \in Runner, Request(r)
      PROVE  \/ UNCHANGED <<done, out>>
             \/ /\ UNCHANGED <<piece, blessed, past>>
                /\ done' = [done EXCEPT ![run[r].task] = @ + 1]
                /\ out' = [n |-> out.n + 1, pkgs |-> out.pkgs \cup {run[r].pkg}]
                /\ At(r, "record")' \/ run[r].task \in lost'
  BY <1>2 DEF Request, Post, Older, Asks, Did, Loses, Go, At, TypeOK, RunnersOK, RunRecord
<1>3. ASSUME NEW r \in Runner,
             \/ Park(r) \/ Fail(r) \/ Complete(r) \/ Slip(r) \/ Stop(r) \/ Exactly(r)
             \/ Tell(r) \/ Gate(r) \/ ReadPiece(r) \/ ReadAccount(r) \/ Who(r)
             \/ Record(r) \/ Open(r) \/ Look(r) \/ MustBeApproved(r) \/ Turn(r)
             \/ Touch(r) \/ \E t \in Task : Claim(r, t)
      PROVE  UNCHANGED <<done, out>>
  BY <1>3 DEF Claim, Park, Fail, Complete, Slip, Stop, Exactly, Tell, Gate, Passes,
     ReadPiece, ReadAccount, Who, Record, Open, Look, MustBeApproved, Turn, Touch
<1> QED
  BY <1>1, <1>2, <1>3 DEF BrowsingNext, Next, Step, Request, Age, Recover, Answer,
     Crash, Approve, Resettle, SetStopped, SetPolicy, SignIn, Disconnect, Take,
     Exchange, vars

\* The piece is approved by the owner, made anew by a director, and recorded.
LEMMA PieceFrame ==
    ASSUME [BrowsingNext]_<<vars, pageVars>>
    PROVE  /\ \/ UNCHANGED <<piece, blessed>>
              \/ Approve \/ Resettle \/ \E r \in Runner : Record(r)
           /\ \/ past' = past \/ Resettle
              \/ \E r \in Runner : ReadPiece(r)
           /\ lost \subseteq lost' /\ strayed \subseteq strayed'
           /\ unasked \subseteq unasked' /\ unread \subseteq unread'
<1>1. ASSUME NEW r \in Runner, Spawn(r) \/ Slip(r) \/ Request(r)
      PROVE  UNCHANGED <<piece, blessed, past, unasked, unread>> /\ lost \subseteq lost'
  BY <1>1 DEF Spawn, Slip, Loses, Request, Post, Older, Asks
<1>2. ASSUME NEW t \in Task, Recover(t)
      PROVE  UNCHANGED <<piece, blessed, past>> /\ lost \subseteq lost'
  BY <1>2 DEF Recover
<1>3. ASSUME Crash
      PROVE  UNCHANGED <<piece, blessed, past>> /\ lost \subseteq lost'
  BY <1>3 DEF Crash
<1>4. ASSUME NEW r \in Runner, MustBeApproved(r) \/ Exactly(r)
      PROVE  UNCHANGED <<piece, blessed, past, lost, unasked>> /\ unread \subseteq unread'
  BY <1>4 DEF MustBeApproved, Exactly, Misses
<1>5. ASSUME NEW r \in Runner, Gate(r)
      PROVE  UNCHANGED <<piece, blessed, past, lost, unread>> /\ unasked \subseteq unasked'
  BY <1>5 DEF Gate, Passes
<1>6. ASSUME NEW r \in Runner, Look(r)
      PROVE  /\ UNCHANGED <<piece, blessed, past, lost, unasked, unread>>
             /\ strayed \subseteq strayed'
  BY <1>6 DEF Look
<1>7. ASSUME NEW r \in Runner,
             \/ Park(r) \/ Fail(r) \/ Complete(r) \/ Stop(r) \/ Tell(r)
             \/ ReadAccount(r) \/ Who(r) \/ Open(r) \/ Turn(r) \/ Touch(r)
             \/ \E t \in Task : Claim(r, t)
      PROVE  UNCHANGED <<piece, blessed, past, lost, unasked, unread>>
  BY <1>7 DEF Claim, Park, Fail, Complete, Stop, Tell, ReadAccount, Who, Open, Turn,
     Touch
<1>8. ASSUME NEW r \in Runner, ReadPiece(r) \/ Record(r)
      PROVE  /\ UNCHANGED <<blessed, lost, unasked, unread>>
             /\ ReadPiece(r) => piece' = piece
             /\ Record(r) => past' = past
  BY <1>8 DEF ReadPiece, Record
<1>9. strayed \subseteq strayed'
  BY <1>6 DEF BrowsingNext, Open, MustBeApproved, Turn, Touch, pageVars, vars
<1>10. ASSUME \/ \E t \in Task : Age(t) \/ \E said \in {"approved", "rejected"} : Answer(t, said)
              \/ Approve \/ Resettle \/ SetStopped \/ SetPolicy \/ SignIn \/ Disconnect
              \/ \E b \in Redirect : Take(b) \/ Exchange(b)
       PROVE  /\ UNCHANGED <<lost, unasked, unread>>
              /\ UNCHANGED <<piece, blessed>> \/ Approve \/ Resettle
              /\ past' = past \/ Resettle
  BY <1>10 DEF Age, Answer, Approve, Resettle, SetStopped, SetPolicy, SignIn,
     Disconnect, Take, Exchange
<1>11. /\ \/ UNCHANGED <<piece, blessed>>
          \/ Approve \/ Resettle \/ \E r \in Runner : Record(r)
       /\ past' = past \/ Resettle \/ \E r \in Runner : ReadPiece(r)
  BY <1>1, <1>2, <1>3, <1>4, <1>5, <1>6, <1>7, <1>8, <1>10
     DEF BrowsingNext, Next, Step, Request, vars
<1>12. lost \subseteq lost' /\ unasked \subseteq unasked' /\ unread \subseteq unread'
  BY <1>1, <1>2, <1>4, <1>5, <1>6, <1>7, <1>8, <1>10
     DEF Crash, BrowsingNext, Next, Step, Request, Recover, vars
<1> QED
  BY <1>9, <1>11, <1>12

\* Who writes the status of a task.
LEMMA StatusFrame ==
    ASSUME TypeOK, [BrowsingNext]_<<vars, pageVars>>, NEW t \in Task
    PROVE  \/ task'[t].status = task[t].status
           \/ \E r \in Runner : Claim(r, t) /\ task'[t].status = "running"
           \/ \E r \in Runner :
                 /\ run[r].task = t /\ run'[r] = Idle /\ ~At(r, "idle")
                 /\ \/ Park(r) /\ task'[t].status = "waiting"
                    \/ Fail(r) /\ task'[t].status \in {"queued", "failed"}
                    \/ Complete(r) /\ task'[t].status = "completed"
           \/ Recover(t) /\ task'[t].status \in {"queued", "failed"}
           \/ \E said \in {"approved", "rejected"} :
                 Answer(t, said) /\ task'[t].status \in {"queued", "cancelled"}
<1> USE DEF TypeOK, RowsOK, TaskRow, RunnersOK, At
<1>1. ASSUME NEW r \in Runner, NEW u \in Task, Claim(r, u)
      PROVE  \/ task'[t].status = task[t].status
             \/ u = t /\ task'[t].status = "running"
  BY <1>1 DEF Claim
<1>2. ASSUME NEW r \in Runner, Park(r)
      PROVE  \/ task'[t].status = task[t].status
             \/ /\ run[r].task = t /\ run'[r] = Idle /\ ~At(r, "idle")
                /\ task'[t].status = "waiting"
  BY <1>2 DEF Park, Leave
<1>3. ASSUME NEW r \in Runner, Fail(r)
      PROVE  \/ task'[t].status = task[t].status
             \/ /\ run[r].task = t /\ run'[r] = Idle /\ ~At(r, "idle")
                /\ task'[t].status \in {"queued", "failed"}
  BY <1>3 DEF Fail, Leave
<1>4. ASSUME NEW r \in Runner, Complete(r)
      PROVE  \/ task'[t].status = task[t].status
             \/ /\ run[r].task = t /\ run'[r] = Idle /\ ~At(r, "idle")
                /\ task'[t].status = "completed"
  BY <1>4 DEF Complete, Leave
<1>5. ASSUME NEW u \in Task, Age(u)
      PROVE  task'[t].status = task[t].status
  BY <1>5 DEF Age
<1>6. ASSUME NEW u \in Task, Recover(u)
      PROVE  \/ task'[t].status = task[t].status
             \/ u = t /\ task'[t].status \in {"queued", "failed"}
  BY <1>6 DEF Recover
<1>7. ASSUME NEW u \in Task, NEW said \in {"approved", "rejected"},
             Answer(u, said)
      PROVE  \/ task'[t].status = task[t].status
             \/ u = t /\ task'[t].status \in {"queued", "cancelled"}
  BY <1>7 DEF Answer
<1> QED
  BY <1>1, <1>2, <1>3, <1>4, <1>5, <1>6, <1>7
     DEF BrowsingNext, Next, Step, Slip, Stop, Exactly, Spawn, Tell, Gate, Passes,
     ReadPiece, ReadAccount, Who, Post, Older, Asks, Record, Crash, Approve,
     Resettle, SetStopped, SetPolicy, SignIn, Disconnect, Take, Exchange, Open, Look, MustBeApproved, Turn,
     Touch, vars

-----------------------------------------------------------------------------
(* The inductive steps *)

\* A runner gets to an effect by asking for this task's answer, and the answer
\* is kept.
LEMMA AnswersStep ==
    ASSUME TypeOK, AnswersSound, [BrowsingNext]_<<vars, pageVars>>
    PROVE  AnswersSound'
<1> USE DEF TypeOK, RowsOK, RunnersOK, At
<1>1. ASSUME NEW t \in Task, yes[t] = "approved"
      PROVE  yes'[t] = "approved"
  BY <1>1, AnswersFrame
<1>2. UNCHANGED <<job, named>>
  <2>1. CASE Task = {}
    BY <2>1 DEF BrowsingNext, Next, Step, Park, Fail, Complete, Slip, Stop,
       Exactly, Spawn, Tell, Gate, Passes, ReadPiece, ReadAccount, Who, Post,
       Older, Asks, Record, Crash, Approve, Resettle, SetStopped, SetPolicy, SignIn, Disconnect, Take, Exchange, Open,
       Look, MustBeApproved, Turn, Touch, vars
  <2>2. CASE Task # {}
    BY <2>2, AnswersFrame
  <2> QED
    BY <2>1, <2>2
<1>3. ASSUME NEW r \in Runner, At(r, "spawn")'
      PROVE  yes'[run'[r].task] = "approved"
  <2>1. CASE run'[r] = run[r]
    BY <1>1, <1>3, <2>1 DEF AnswersSound
  <2>2. ASSUME NEW t \in Task, Claim(r, t) PROVE FALSE
    <3>1. run'[r].pc = First(t)
      BY <2>2 DEF Claim, Idle
    <3> QED
      BY <1>3, <3>1, EffectsAssumption DEF First
  <2>3. CASE Arrives(r)
    <3>1. Exactly(r) /\ run'[r].task = run[r].task /\ ~Go(r, "park")
      BY <1>3, <2>3 DEF Arrives, Go, RunRecord
    <3> QED
      BY <1>3, <3>1 DEF Exactly
  <2> QED
    BY <1>3, <2>1, <2>2, <2>3, Moves DEF Idle
<1>4. ASSUME NEW r \in Runner, run'[r].pc \in PastGate \cup {"gate"}
      PROVE  /\ job'[run'[r].task] = "piece"
             /\ named' /\ ~At(r, "gate")' =>
                   yes'[run'[r].task] = "approved" \/ run'[r].task \in unasked'
  <2>1. CASE run'[r] = run[r]
    BY <1>1, <1>2, <1>4, <2>1, PieceFrame DEF AnswersSound, PastGate
  <2>2. ASSUME NEW t \in Task, Claim(r, t)
        PROVE  job'[run'[r].task] = "piece" /\ At(r, "gate")'
    <3>1. run'[r].pc = First(t) /\ run'[r].task = t
      BY <2>2 DEF Claim, Idle
    <3> QED
      BY <1>2, <1>4, <3>1, EffectsAssumption DEF First, PastGate
  <2>3. CASE Arrives(r)
    <3>1. CASE run'[r].pc = "piece"
      <4>1. At(r, "gate") /\ run'[r].task = run[r].task /\ yes' = yes
        BY <2>3, <3>1 DEF Arrives, Gate, Passes
      <4>2. named => yes[run[r].task] = "approved" \/ run[r].task \in unasked'
        <5>1. Gate(r)
          BY <2>3, <3>1 DEF Arrives
        <5>2. ~Go(r, "park")
          BY <3>1 DEF Go, RunRecord
        <5> QED
          BY <5>1, <5>2 DEF Gate, Passes
      <4>3. job[run[r].task] = "piece"
        BY <4>1 DEF AnswersSound, PastGate
      <4> QED
        BY <1>2, <4>1, <4>2, <4>3
    <3>2. CASE run'[r].pc \in {"account", "who", "post", "older"}
      <4>1. run[r].pc \in PastGate \ {"gate"}
        BY <2>3, <3>2 DEF Arrives, ReadPiece, ReadAccount, Who, Post, Asks, PastGate
      <4> QED
        BY <1>1, <1>2, <2>3, <3>2, <4>1, PieceFrame
           DEF Arrives, AnswersSound, PastGate
    <3> QED
      BY <1>4, <2>3, <3>1, <3>2 DEF Arrives, PastGate
  <2> QED
    BY <1>4, <2>1, <2>2, <2>3, Moves DEF Idle, PastGate
<1>5. ASSUME NEW t \in Task, done'[t] > 0,
             job'[t] = "command" \/ (named' /\ t \notin unasked')
      PROVE  yes'[t] = "approved"
  <2>1. CASE done'[t] = done[t]
    BY <1>1, <1>2, <1>5, <2>1, PieceFrame DEF AnswersSound
  <2>2. CASE done'[t] # done[t]
    <3>1. PICK r \in Runner : run[r].task = t /\ (Spawn(r) \/ Request(r))
      BY <2>2, EffectsFrame DEF PastOK
    <3>2. run[r].pc = "spawn" \/ run[r].pc \in {"post", "older"}
      BY <3>1 DEF Spawn, Request, Post, Older, Asks
    <3> QED
      BY <1>1, <1>2, <1>5, <3>1, <3>2, PieceFrame DEF AnswersSound, PastGate
  <2> QED
    BY <2>1, <2>2
<1> QED
  BY <1>3, <1>4, <1>5 DEF AnswersSound

\* What a runner holds of the piece was approved when it read it, and stays
\* what the row holds unless a director made the piece anew.
LEMMA PackagesStep ==
    ASSUME TypeOK, PackagesSound, [BrowsingNext]_<<vars, pageVars>>
    PROVE  PackagesSound'
<1> USE DEF TypeOK, RowsOK, RunnersOK, PastOK, At
<1>1. blessed.pkgs \subseteq blessed'.pkgs
  <2>1. CASE Approve
    BY <2>1 DEF Approve
  <2>2. CASE Resettle
    BY <2>2 DEF Resettle
  <2>3. ASSUME NEW r \in Runner, Record(r) PROVE blessed' = blessed
    BY <2>3 DEF Record
  <2> QED
    BY <2>1, <2>2, <2>3, PieceFrame
<1>2. out.pkgs \subseteq out'.pkgs
  BY EffectsFrame
<1>3. out'.pkgs \subseteq blessed'.pkgs
  <2>1. CASE out' = out
    BY <1>1, <2>1 DEF PackagesSound
  <2>2. ASSUME NEW r \in Runner, Request(r),
               out' = [n |-> out.n + 1, pkgs |-> out.pkgs \cup {run[r].pkg}]
        PROVE  out'.pkgs \subseteq blessed'.pkgs
    <3>1. run[r].pkg \in blessed.pkgs
      BY <2>2 DEF Request, Post, Older, Asks, AtPiece, PackagesSound
    <3> QED
      BY <1>1, <2>2, <3>1 DEF PackagesSound
  <2> QED
    BY <2>1, <2>2, EffectsFrame
<1>4. piece'.state = "approved" => piece'.pkg \in blessed'.pkgs
  <2>1. CASE Approve
    BY <2>1 DEF Approve
  <2>2. CASE Resettle
    BY <2>2 DEF Resettle
  <2>3. ASSUME NEW r \in Runner, Record(r) PROVE piece'.state = "published"
    BY <2>3 DEF Record
  <2> QED
    BY <2>1, <2>2, <2>3, PieceFrame DEF PackagesSound
<1>5. ~past'.overtaken => ~past.overtaken
  <2>1. ASSUME NEW r \in Runner, ReadPiece(r)
        PROVE  past'.overtaken = past.overtaken
    BY <2>1 DEF ReadPiece
  <2>2. ASSUME Resettle
        PROVE  past'.overtaken = (past.overtaken \/ AtPiece # {})
    BY <2>2 DEF Resettle
  <2> QED
    BY <2>1, <2>2, PieceFrame
<1>6. ASSUME NEW r \in AtPiece, run'[r].pkg = run[r].pkg
      PROVE  /\ run'[r].pkg \in blessed'.pkgs
             /\ ~past'.overtaken => run'[r].pkg = piece'.pkg
  <2>1. run[r].pkg \in blessed.pkgs
    BY <1>6 DEF PackagesSound
  <2>2. ASSUME ~past'.overtaken PROVE piece'.pkg = piece.pkg
    <3>1. CASE Resettle
      BY <1>6, <2>2, <3>1 DEF Resettle
    <3> QED
      BY <3>1, PieceFrame DEF Approve, Record
  <2> QED
    BY <1>1, <1>5, <1>6, <2>1, <2>2 DEF PackagesSound
<1>7. ASSUME NEW r \in Runner, ReadPiece(r), run'[r].pc = "account"
      PROVE  run'[r].pkg \in blessed'.pkgs /\ run'[r].pkg = piece'.pkg
  <2>1. piece.state = "approved" /\ run'[r].pkg = piece.pkg /\ UNCHANGED piece
    BY <1>7 DEF ReadPiece, Go, RunRecord
  <2> QED
    BY <1>1, <2>1 DEF PackagesSound
<1>8. ASSUME NEW r \in Runner, r \in AtPiece'
      PROVE  /\ run'[r].pkg \in blessed'.pkgs
             /\ At(r, "record")' => run'[r].pkg \in out'.pkgs
             /\ ~past'.overtaken => run'[r].pkg = piece'.pkg
  <2>1. CASE run'[r] = run[r]
    BY <1>2, <1>6, <1>8, <2>1 DEF AtPiece, PackagesSound
  <2>2. ASSUME NEW t \in Task, Claim(r, t) PROVE FALSE
    <3>1. run'[r].pc = [Idle EXCEPT !.task = t, !.pc = First(t)].pc
      BY <2>2 DEF Claim
    <3>2. run'[r].pc = First(t)
      BY <3>1 DEF Idle
    <3> QED
      BY <1>8, <3>2, EffectsAssumption DEF First, AtPiece
  <2>3. CASE Arrives(r)
    <3>1. CASE run'[r].pc = "account"
      <4>1. run'[r].pkg \in blessed'.pkgs /\ run'[r].pkg = piece'.pkg
        BY <1>7, <2>3, <3>1 DEF Arrives
      <4> QED
        BY <3>1, <4>1
    <3>2. CASE run'[r].pc = "who"
      <4>1. r \in AtPiece /\ run'[r].pkg = run[r].pkg
        BY <2>3, <3>2 DEF Arrives, ReadAccount, AtPiece, RunRecord
      <4> QED
        BY <1>6, <3>2, <4>1
    <3>3. CASE run'[r].pc = "post"
      <4>1. r \in AtPiece /\ run'[r].pkg = run[r].pkg
        BY <2>3, <3>3 DEF Arrives, Who, AtPiece
      <4> QED
        BY <1>6, <3>3, <4>1
    <3>4. CASE run'[r].pc = "record"
      <4>1. r \in AtPiece /\ run'[r].pkg = run[r].pkg
        BY <2>3, <3>4 DEF Arrives, Request, Post, Older, Asks, AtPiece
      <4>2. run[r].pkg \in out'.pkgs
        <5>1. Request(r)
          BY <2>3, <3>4 DEF Arrives
        <5>2. \/ out' = [n |-> out.n + 1, pkgs |-> out.pkgs \cup {run[r].pkg}]
              \/ \E pc \in {"older", "fail"} : Go(r, pc)
          BY <5>1 DEF Request, Post, Older, Asks
        <5>3. ~\E pc \in {"older", "fail"} : Go(r, pc)
          BY <3>4 DEF Go, RunRecord
        <5> QED
          BY <5>2, <5>3
      <4> QED
        BY <1>6, <4>1, <4>2
    <3>5. CASE run'[r].pc = "older"
      <4>1. r \in AtPiece /\ run'[r].pkg = run[r].pkg
        BY <2>3, <3>5 DEF Arrives, Post, Asks, AtPiece
      <4> QED
        BY <1>6, <3>5, <4>1
    <3> QED
      BY <1>8, <3>1, <3>2, <3>3, <3>4, <3>5 DEF AtPiece
  <2> QED
    BY <1>8, <2>1, <2>2, <2>3, Moves DEF AtPiece, Idle
<1>9. PublishedIsOut'
  <2>1. CASE UNCHANGED piece \/ Approve \/ Resettle
    BY <1>2, <1>5, <2>1 DEF Approve, Resettle, PackagesSound, PublishedIsOut
  <2>2. ASSUME NEW r \in Runner, Record(r) PROVE PublishedIsOut'
    <3>1. /\ run[r].pkg \in out.pkgs
          /\ ~past.overtaken => run[r].pkg = piece.pkg
      BY <2>2 DEF Record, AtPiece, PackagesSound
    <3>2. piece'.id = run[r].pkg /\ piece'.pkg = piece.pkg
      BY <2>2 DEF Record
    <3> QED
      BY <1>2, <1>5, <3>1, <3>2 DEF PublishedIsOut
  <2> QED
    BY <2>1, <2>2, PieceFrame
<1> QED
  BY <1>3, <1>4, <1>8, <1>9 DEF PackagesSound, AtPiece

\* A task nobody lost sight of has one runner, so what that runner does to its
\* row is true of it: the runner that had the effect completes it.
LEMMA TasksStep ==
    ASSUME TypeOK, TasksSound, [BrowsingNext]_<<vars, pageVars>>
    PROVE  TasksSound'
<1> USE DEF TypeOK, RowsOK, RunnersOK, PastOK
<1> SUFFICES ASSUME NEW t \in Task, t \notin lost'
             PROVE  /\ \A r, q \in Holding(t)' :
                          r = q /\ task'[t].status = "running"
                    /\ yes'[t] = "rejected" => task'[t].status = "cancelled"
                    /\ done'[t] > 0 =>
                          /\ done'[t] = 1
                          /\ \/ task'[t].status = "completed"
                             \/ \E r \in Holding(t)' : Unrecorded(r)'
  BY DEF TasksSound
<1>1. t \notin lost
  BY PieceFrame
<1>2. ASSUME NEW r \in Holding(t)'
      PROVE  r \in Holding(t) \/ Claim(r, t)
  <2>1. ASSUME NEW u \in Task, Claim(r, u) PROVE u = t
    BY <1>2, <2>1 DEF Claim, Holding, Idle
  <2> QED
    BY <1>2, <2>1, Moves, Records DEF Holding, Arrives
<1>3. ASSUME NEW r \in Runner, Claim(r, t)
      PROVE  /\ Holding(t) = {} /\ task'[t].status = "running"
             /\ \A q \in Runner : Claim(q, t) => q = r
             /\ task[t].status = "queued"
  <2>1. task[t].status = "queued" /\ task'[t].status = "running"
    BY <1>3 DEF Claim, TaskRow
  <2>2. \A q \in Runner : Claim(q, t) => q = r
    <3> SUFFICES ASSUME NEW q \in Runner, Claim(q, t), q # r PROVE FALSE
      OBVIOUS
    <3>1. run'[q] = run[q] /\ run[q].pc = "idle" /\ run'[q].task = t
      BY <1>3 DEF Claim, At, Idle
    <3> QED
      BY <3>1
  <2>3. Holding(t) = {}
    BY <1>1, <2>1 DEF TasksSound
  <2> QED
    BY <2>1, <2>2, <2>3
<1>4. ASSUME NEW r \in Holding(t), r \in Holding(t)'
      PROVE  task'[t].status = "running"
  <2>1. \A q \in Holding(t) : q = r
    BY <1>1 DEF TasksSound
  <2>2. task[t].status = "running"
    BY <1>1 DEF TasksSound
  <2>3. ~Recover(t)
    BY <1>4 DEF Recover
  <2>4. run'[r] # Idle
    BY <1>4, Records DEF Holding
  <2>5. \A q \in Runner : run[q].task = t => q = r
    BY <2>1 DEF Holding
  <2> QED
    BY <2>2, <2>3, <2>4, <2>5, StatusFrame DEF Claim, Answer
<1>5. \A r, q \in Holding(t)' : r = q /\ task'[t].status = "running"
  <2> SUFFICES ASSUME NEW r \in Holding(t)', NEW q \in Holding(t)'
               PROVE  r = q /\ task'[t].status = "running"
    OBVIOUS
  <2>1. r \in Runner /\ q \in Runner
    BY DEF Holding
  <2>2. CASE r \in Holding(t) /\ q \in Holding(t)
    BY <1>1, <1>4, <2>2 DEF TasksSound
  <2>3. CASE Claim(r, t) \/ Claim(q, t)
    <3>1. Holding(t) = {} /\ task'[t].status = "running"
      BY <1>3, <2>1, <2>3
    <3>2. Claim(r, t) /\ Claim(q, t)
      BY <1>2, <3>1
    <3> QED
      BY <1>3, <2>1, <3>1, <3>2
  <2> QED
    BY <1>2, <2>2, <2>3
<1>6. ASSUME task[t].status \in {"cancelled", "completed"}
      PROVE  task'[t].status = task[t].status
  <2>1. \A r \in Runner : run[r].task # t
    BY <1>1, <1>6 DEF TasksSound, Holding
  <2> QED
    BY <1>6, <2>1, StatusFrame DEF Claim, Recover, Answer
<1>7. yes'[t] = "rejected" => task'[t].status = "cancelled"
  BY <1>1, <1>6, AnswersFrame DEF TasksSound
<1>8. ASSUME done'[t] > 0
      PROVE  /\ done'[t] = 1
             /\ \/ task'[t].status = "completed"
                \/ \E r \in Holding(t)' : Unrecorded(r)'
  <2>1. CASE done'[t] = done[t]
    <3>1. /\ done[t] = 1
          /\ \/ task[t].status = "completed"
             \/ \E r \in Holding(t) : Unrecorded(r)
      BY <1>1, <1>8, <2>1 DEF TasksSound
    <3>2. ASSUME NEW r \in Holding(t), Unrecorded(r)
          PROVE  \/ task'[t].status = "completed"
                 \/ r \in Holding(t)' /\ Unrecorded(r)'
      <4>1. CASE run'[r] = run[r]
        BY <3>2, <4>1 DEF Holding, Unrecorded
      <4>2. CASE Arrives(r)
        BY <3>2, <4>2 DEF Arrives, Holding, Unrecorded
      <4>3. ASSUME NEW u \in Task, Claim(r, u) PROVE FALSE
        BY <3>2, <4>3 DEF Claim, At, Unrecorded
      <4>4. CASE Crash
        BY <3>2, <4>4 DEF Crash, Holding
      <4>5. CASE Park(r) \/ Fail(r)
        BY <3>2, <4>5 DEF Park, Fail, At, Unrecorded
      <4>6. CASE Complete(r)
        BY <3>2, <4>6 DEF Complete, Holding, TaskRow
      <4> QED
        BY <4>1, <4>2, <4>3, <4>4, <4>5, <4>6, Moves DEF Holding
    <3> QED
      BY <1>6, <2>1, <3>1, <3>2
  <2>2. CASE done'[t] # done[t]
    <3>1. PICK r \in Runner :
            /\ Spawn(r) \/ Request(r)
            /\ done' = [done EXCEPT ![run[r].task] = @ + 1]
            /\ \/ At(r, "tell")' \/ At(r, "record")'
               \/ run[r].task \in lost'
      BY <2>2, EffectsFrame
    <3>2. run[r].task = t /\ done'[t] = done[t] + 1
      BY <2>2, <3>1
    <3>3. r \in Holding(t) /\ ~Unrecorded(r)
      BY <3>1, <3>2 DEF Holding, Unrecorded, Spawn, Request, Post, Older, Asks, At
    <3>4. done[t] = 0
      BY <1>1, <3>3 DEF TasksSound
    <3>5. At(r, "tell")' \/ At(r, "record")'
      BY <3>1, <3>2
    <3>6. run'[r].task = t
      BY <3>1, <3>2 DEF Spawn, Request, Post, Older, Asks, Go, RunRecord
    <3> QED
      BY <3>2, <3>4, <3>5, <3>6 DEF Holding, Unrecorded, At
  <2> QED
    BY <2>1, <2>2
<1> QED
  BY <1>5, <1>7, <1>8

\* One approval, one post: while no effect was lost sight of and no two tasks
\* took the piece up together, the one runner at the piece has an approval that
\* is not spent, and records the post before the piece can be read again.
LEMMA PostsStep ==
    ASSUME TypeOK, PostsPaid, [BrowsingNext]_<<vars, pageVars>>
    PROVE  PostsPaid'
<1> USE DEF TypeOK, RowsOK, RunnersOK, PastOK, At
<1>1. past.together => past'.together
  <2>1. ASSUME NEW r \in Runner, ReadPiece(r)
        PROVE  past' = past \/ past'.together = (past.together \/ AtPiece # {})
    BY <2>1 DEF ReadPiece
  <2>2. ASSUME Resettle
        PROVE  past'.together = past.together
    BY <2>2 DEF Resettle
  <2> QED
    BY <2>1, <2>2, PieceFrame
<1>2. ASSUME NEW r \in Runner, r \in AtPiece'
      PROVE  \/ r \in AtPiece /\ (At(r, "record") => At(r, "record")')
             \/ /\ ReadPiece(r) /\ At(r, "account")' /\ piece.state = "approved"
                /\ past'.together = (past.together \/ AtPiece # {})
                /\ \A q \in Runner : q # r => run'[q] = run[q]
                /\ UNCHANGED <<piece, out, blessed>>
  <2>1. CASE run'[r] = run[r]
    BY <1>2, <2>1 DEF AtPiece
  <2>2. ASSUME NEW t \in Task, Claim(r, t) PROVE FALSE
    <3>1. run'[r].pc = [Idle EXCEPT !.task = t, !.pc = First(t)].pc
      BY <2>2 DEF Claim
    <3>2. run'[r].pc = First(t)
      BY <3>1 DEF Idle
    <3> QED
      BY <1>2, <3>2, EffectsAssumption DEF First, AtPiece
  <2>3. CASE Arrives(r) /\ ReadPiece(r)
    <3>1. At(r, "account")'
      BY <1>2, <2>3 DEF ReadPiece, AtPiece, Go, RunRecord
    <3>2. piece.state = "approved"
      BY <2>3, <3>1 DEF ReadPiece, Go, RunRecord
    <3> QED
      BY <2>3, <3>1, <3>2 DEF ReadPiece
  <2>4. CASE Arrives(r) /\ ~ReadPiece(r)
    <3>1. ReadAccount(r) \/ Who(r) \/ Request(r)
      BY <1>2, <2>4 DEF Arrives, AtPiece, Request
    <3> QED
      BY <3>1 DEF ReadAccount, Who, Request, Post, Older, Asks, AtPiece
  <2> QED
    BY <1>2, <2>1, <2>2, <2>3, <2>4, Moves DEF AtPiece, Idle
<1>3. ASSUME ~past'.together, NEW r \in Runner, NEW q \in Runner,
             r \in AtPiece', q \in AtPiece'
      PROVE  r = q
  <2>1. CASE r \in AtPiece /\ q \in AtPiece
    BY <1>1, <1>3, <2>1 DEF PostsPaid
  <2>2. CASE r \notin AtPiece
    BY <1>2, <1>3, <2>2 DEF AtPiece
  <2>3. CASE q \notin AtPiece
    BY <1>2, <1>3, <2>3 DEF AtPiece
  <2> QED
    BY <2>1, <2>2, <2>3
<1>4. ASSUME lost' = {}, ~past'.together
      PROVE  /\ out'.n <= blessed'.n
             /\ (\E r \in AtPiece' : ~At(r, "record")') => out'.n < blessed'.n
             /\ piece'.state = "approved" /\ (\A r \in AtPiece' : ~At(r, "record")')
                   => out'.n < blessed'.n
  <2>1. /\ lost = {} /\ ~past.together
        /\ out.n <= blessed.n
        /\ (\E r \in AtPiece : ~At(r, "record")) => out.n < blessed.n
        /\ piece.state = "approved" /\ (\A r \in AtPiece : ~At(r, "record"))
              => out.n < blessed.n
    BY <1>1, <1>4, PieceFrame DEF PostsPaid
  <2>2. out.n \in Nat /\ blessed.n \in Nat /\ AtPiece \subseteq Runner
        /\ AtPiece' \subseteq Runner
    BY DEF AtPiece
  <2>3. ASSUME NEW r \in AtPiece, At(r, "record")
        PROVE  \/ r \in AtPiece' /\ At(r, "record")'
               \/ Record(r)
    <3>1. CASE run'[r] = run[r]
      BY <2>3, <3>1 DEF AtPiece
    <3>2. CASE Arrives(r)
      <4>1. run'[r].pc \in {"record", "tell", "done"}
        BY <1>4, <2>3, <3>2 DEF Arrives, Unrecorded
      <4>2. ~Request(r) /\ ~Spawn(r) /\ ~Open(r) /\ ~Touch(r) /\ ~Tell(r)
        BY <2>3 DEF Request, Post, Older, Asks, Spawn, Open, Touch, Tell
      <4> QED
        BY <3>2, <4>1, <4>2 DEF Arrives
    <3>3. CASE Crash
      <4>1. run[r].task \in lost'
        BY <2>2, <2>3, <3>3 DEF Crash, Unrecorded
      <4> QED
        BY <1>4, <4>1
    <3>4. ~Park(r) /\ ~Fail(r) /\ ~Complete(r) /\ \A t \in Task : ~Claim(r, t)
      BY <2>3 DEF Park, Fail, Complete, Claim
    <3> QED
      BY <2>2, <3>1, <3>2, <3>3, <3>4, Moves
  <2>4. ASSUME NEW r \in Runner, Request(r),
               out' = [n |-> out.n + 1, pkgs |-> out.pkgs \cup {run[r].pkg}],
               At(r, "record")', UNCHANGED blessed
        PROVE  /\ out'.n <= blessed'.n
               /\ \A q \in AtPiece' : q = r
               /\ r \in AtPiece'
    <3>1. r \in AtPiece /\ ~At(r, "record")
      BY <2>4 DEF Request, Post, Older, Asks, AtPiece
    <3>2. r \in AtPiece'
      BY <2>4 DEF AtPiece
    <3> QED
      BY <1>3, <1>4, <2>1, <2>2, <2>4, <3>1, <3>2
  <2>5. CASE UNCHANGED <<out, piece, blessed>>
    <3>1. ASSUME NEW r \in Runner, r \in AtPiece', ~At(r, "record")'
          PROVE  out.n < blessed.n
      BY <1>2, <1>4, <2>1, <3>1
    <3>2. ASSUME piece.state = "approved", NEW r \in AtPiece, At(r, "record")
          PROVE  \E q \in AtPiece' : At(q, "record")'
      <4>1. ~Record(r)
        BY <2>5, <3>2 DEF Record
      <4> QED
        BY <2>3, <3>2, <4>1
    <3> QED
      BY <2>1, <2>2, <2>5, <3>1, <3>2
  <2>6. CASE Approve
    BY <2>1, <2>2, <2>6 DEF Approve
  <2>7. CASE Resettle
    <3>1. /\ AtPiece' = AtPiece /\ run' = run /\ piece'.state = "ready"
          /\ UNCHANGED <<out, blessed>>
      BY <2>7 DEF Resettle, AtPiece
    <3> QED
      BY <2>1, <2>2, <3>1
  <2>8. ASSUME NEW r \in Runner, Record(r)
        PROVE  /\ out'.n <= blessed'.n
               /\ piece'.state # "approved"
               /\ (\E q \in AtPiece' : ~At(q, "record")') => out'.n < blessed'.n
    <3>1. piece'.state = "published" /\ UNCHANGED <<out, blessed>>
      BY <2>8 DEF Record
    <3>2. ASSUME NEW q \in Runner, q \in AtPiece', ~At(q, "record")'
          PROVE  q \in AtPiece /\ ~At(q, "record")
      BY <1>2, <3>1, <3>2
    <3> QED
      BY <2>1, <2>2, <3>1, <3>2
  <2>9. \/ UNCHANGED <<out, piece, blessed>> \/ Approve \/ Resettle
        \/ \E r \in Runner : Record(r)
        \/ \E r \in Runner :
              /\ Request(r) /\ At(r, "record")' /\ UNCHANGED blessed
              /\ out' = [n |-> out.n + 1, pkgs |-> out.pkgs \cup {run[r].pkg}]
    <3>1. CASE UNCHANGED out
      BY <3>1, PieceFrame
    <3>2. CASE ~UNCHANGED out
      BY <1>4, <3>2, EffectsFrame
    <3> QED
      BY <3>1, <3>2
  <2> QED
    BY <2>4, <2>5, <2>6, <2>7, <2>8, <2>9
<1> QED
  BY <1>3, <1>4 DEF PostsPaid, AtPiece

\* What happens to the page before a runner that is about to ask or to touch,
\* and what is done to pages.
LEMMA PagesFrame ==
    ASSUME TypeOK, [BrowsingNext]_<<vars, pageVars>>, NEW r \in Runner,
           run[r].pc \in {"asking", "touch"}, run'[r] = run[r]
    PROVE  tab'[r].what = tab[r].what /\ tab'[r].on = tab[r].on
<1> USE DEF TypeOK, RunnersOK, Tab, At
<1>1. CASE Closes
  BY <1>1 DEF Closes
<1>2. ASSUME NEW q \in Runner, Open(q) \/ Look(q) \/ Touch(q)
      PROVE  tab'[r] = tab[r]
  <2>1. PICK pc \in {"tell", "look", "refuse", "fail", "asking", "touch"} :
             \E page : Goes(q, pc, page) /\ pc # run[q].pc
    <3>1. \A step : Further(step) \in {"tell", "look"}
      BY DEF Further
    <3> QED
      BY <1>2, <3>1, Zenon DEF Open, Look, Touch, Ends, Errors
  <2>2. q # r
    BY <2>1 DEF Goes, Go, RunRecord
  <2> QED
    BY <2>1, <2>2 DEF Goes
<1>3. ASSUME NEW q \in Runner, MustBeApproved(q)
      PROVE  tab'[r] = tab[r]
  <2>1. CASE UNCHANGED tab
    BY <2>1
  <2>2. CASE Ends(q, "park")
    BY <2>2 DEF Ends, Goes, Go, RunRecord
  <2> QED
    BY <1>3, <2>1, <2>2, Zenon DEF MustBeApproved
<1>4. ASSUME NEW q \in Runner, Turn(q)
      PROVE  tab'[r].what = tab[r].what /\ tab'[r].on = tab[r].on
  <2>1. tab' = [tab EXCEPT ![q].turned = TRUE]
    BY <1>4, Zenon DEF Turn
  <2> QED
    BY <2>1
<1>5. CASE UNCHANGED <<vars, pageVars>>
  BY <1>5
<1> QED
  BY <1>1, <1>2, <1>3, <1>4, <1>5, Zenon DEF BrowsingNext

\* A runner touches what it was asked about at the address it asked with, and
\* the answer is kept.
LEMMA PagesStep ==
    ASSUME TypeOK, PagesSound, [BrowsingNext]_<<vars, pageVars>>
    PROVE  PagesSound'
<1> USE DEF TypeOK, RowsOK, RunnersOK, At
<1>1. ASSUME NEW t \in Task, yes[t] = "approved"
      PROVE  yes'[t] = "approved"
  BY <1>1, AnswersFrame
<1>2. ASSUME NEW r \in Runner, run'[r].pc \in {"asking", "touch"}
      PROVE  \/ run'[r] = run[r]
             \/ Look(r) /\ Arrives(r)
             \/ MustBeApproved(r) /\ Arrives(r) /\ run'[r].pc = "touch"
  <2>1. ASSUME NEW t \in Task, Claim(r, t) PROVE FALSE
    <3>1. run'[r].pc = [Idle EXCEPT !.task = t, !.pc = First(t)].pc
      BY <2>1 DEF Claim
    <3>2. run'[r].pc = First(t)
      BY <3>1 DEF Idle
    <3> QED
      BY <1>2, <3>2, EffectsAssumption DEF First
  <2> QED
    BY <1>2, <2>1, Moves DEF Arrives, Idle
<1>3. ASSUME NEW r \in Runner, Look(r), run'[r].pc \in {"asking", "touch"}
      PROVE  tab'[r].what = IF At(r, "asking")' THEN "control" ELSE "link"
  <2>1. PICK pc \in {"refuse", "fail", "asking", "touch"} : \E page :
          /\ Goes(r, pc, page)
          /\ pc = "asking" => page = [tab[r] EXCEPT !.what = "control"]
          /\ pc = "touch" => page = [tab[r] EXCEPT !.what = "link"]
    BY <1>3, Zenon DEF Look, Ends, Errors
  <2>2. /\ run'[r].pc = pc
        /\ pc = "asking" => tab'[r] = [tab[r] EXCEPT !.what = "control"]
        /\ pc = "touch" => tab'[r] = [tab[r] EXCEPT !.what = "link"]
    BY <2>1 DEF Goes, Go, RunRecord
  <2> QED
    BY <1>3, <2>1, <2>2 DEF Tab
<1>4. ASSUME NEW r \in Runner, MustBeApproved(r), run'[r].pc = "touch"
      PROVE  yes[run[r].task] = "approved" /\ tab'[r] = tab[r]
             /\ tab[r].on = "asked" /\ yes' = yes
  <2>1. ~Ends(r, "park")
    BY <1>4 DEF Ends, Goes, Go, RunRecord
  <2> QED
    BY <1>4, <2>1, Zenon DEF MustBeApproved, ApprovedExactly
<1>5. ASSUME NEW r \in Runner, At(r, "asking")'
      PROVE  tab'[r].what = "control"
  BY <1>2, <1>3, <1>5, PagesFrame DEF PagesSound
<1>6. ASSUME NEW r \in Runner, At(r, "touch")', tab'[r].what # "link"
      PROVE  yes'[run'[r].task] = "approved" /\ tab'[r].on = "asked"
  <2>1. CASE run'[r] = run[r]
    BY <1>1, <1>6, <2>1, PagesFrame DEF PagesSound
  <2>2. CASE Look(r)
    BY <1>3, <1>6, <2>2
  <2>3. CASE MustBeApproved(r) /\ Arrives(r)
    <3>1. run'[r].task = run[r].task
      BY <2>3 DEF Arrives
    <3> QED
      BY <1>4, <1>6, <2>3, <3>1
  <2> QED
    BY <1>2, <1>6, <2>1, <2>2, <2>3
<1>7. ASSUME NEW a \in acts', ~a.turned
      PROVE  yes'[a.task] = "approved" /\ a.on = "asked"
  <2>1. CASE a \in acts
    <3>1. a.task \in Task /\ yes[a.task] = "approved" /\ a.on = "asked"
      BY <1>7, <2>1, Zenon DEF PagesSound, NothingUnseen
    <3> QED
      BY <1>1, <3>1
  <2>2. CASE a \notin acts
    <3>1. PICK r \in Runner : Touch(r)
      BY <2>2, Zenon DEF BrowsingNext, Open, Look, MustBeApproved, Turn, pageVars
    <3>2. /\ At(r, "touch")
          /\ a = [task |-> run[r].task, on |-> tab[r].on, turned |-> tab[r].turned]
          /\ ~(tab[r].what = "link" /\ ~tab[r].turned)
      BY <2>2, <3>1 DEF Touch
    <3>3. tab[r].what # "link" /\ a.task = run[r].task /\ a.on = tab[r].on
      BY <1>7, <3>2
    <3> QED
      BY <1>1, <3>2, <3>3 DEF PagesSound
  <2> QED
    BY <2>1, <2>2
<1> QED
  BY <1>5, <1>6, <1>7, Zenon DEF PagesSound, NothingUnseen

\* What a task is for does not change while a runner has it, and the runner's
\* place tells it.
LEMMA PlacesStep ==
    ASSUME TypeOK, WaitsSound, [BrowsingNext]_<<vars, pageVars>>,
           NEW r \in Runner
    PROVE  /\ run'[r].pc \in {"stop", "exactly"} => job'[run'[r].task] = "command"
           /\ run'[r].pc \in OnPage => job'[run'[r].task] = "page"
<1> USE DEF TypeOK, RowsOK, RunnersOK, At
<1>1. CASE run'[r] = run[r]
  BY <1>1, AnswersFrame DEF WaitsSound, OnPage
<1>2. ASSUME NEW t \in Task, Claim(r, t)
      PROVE  /\ run'[r].pc \in {"stop", "exactly"} => job'[run'[r].task] = "command"
             /\ run'[r].pc \in OnPage => job'[run'[r].task] = "page"
  <2>1. run'[r].pc = First(t) /\ run'[r].task = t
    BY <1>2 DEF Claim, Idle
  <2>2. job' = job
    BY AnswersFrame
  <2> QED
    BY <2>1, <2>2, EffectsAssumption DEF First, OnPage
<1>3. CASE Arrives(r)
  <2>1. run'[r].task = run[r].task /\ run[r].task \in Task
    BY <1>3 DEF Arrives
  <2>2. job' = job
    BY <2>1, AnswersFrame
  <2>3. run'[r].pc = "exactly" => run[r].pc = "stop"
    BY <1>3 DEF Arrives, Stop
  <2>4. run'[r].pc \in OnPage => run[r].pc \in OnPage
    BY <1>3 DEF Arrives, Open, Look, MustBeApproved, Touch, OnPage
  <2>5. run'[r].pc # "stop"
    BY <1>3 DEF Arrives
  <2> QED
    BY <2>1, <2>2, <2>3, <2>4, <2>5 DEF WaitsSound
<1> QED
  BY <1>1, <1>2, <1>3, Moves DEF Idle, OnPage

\* An excuse is never taken back.
LEMMA ExcusesStay ==
    ASSUME TypeOK, [BrowsingNext]_<<vars, pageVars>>, NEW t \in Task, Excused(t)
    PROVE  Excused(t)'
<1>1. job' = job
  BY AnswersFrame
<1> QED
  BY <1>1, PieceFrame DEF Excused

\* Whoever parks had no answer when it looked, and no answer comes while its
\* task runs; a task that was cancelled by a no is not run.
LEMMA WaitsStep ==
    ASSUME TypeOK, TasksSound, WaitsSound, [BrowsingNext]_<<vars, pageVars>>
    PROVE  WaitsSound'
<1> USE DEF TypeOK, RowsOK, RunnersOK, At
<1>1. ASSUME NEW r \in Runner, ~At(r, "idle"), yes[run[r].task] # "approved",
             run[r].task \notin lost
      PROVE  yes[run[r].task] = "none" /\ yes'[run[r].task] = "none"
  <2>1. task[run[r].task].status = "running"
    BY <1>1 DEF TasksSound, Holding
  <2>2. yes[run[r].task] = "none"
    BY <1>1, <2>1 DEF TasksSound
  <2> QED
    BY <1>1, <2>1, <2>2, AnswersFrame
<1>2. ASSUME NEW r \in Runner, At(r, "park")', NEW t \in Task, t = run'[r].task
      PROVE  yes'[t] = "none" \/ Excused(t)'
  <2>1. CASE run'[r] = run[r]
    <3>1. run[r].task = t /\ At(r, "park")
      BY <1>2, <2>1
    <3>2. yes[t] = "none" \/ Excused(t)
      BY <3>1 DEF WaitsSound
    <3>3. CASE ~Excused(t) /\ yes[t] = "none"
      BY <1>1, <3>1, <3>3 DEF Excused
    <3> QED
      BY <3>2, <3>3, ExcusesStay
  <2>2. ASSUME NEW u \in Task, Claim(r, u) PROVE FALSE
    <3>1. run'[r].pc = First(u)
      BY <2>2 DEF Claim, Idle
    <3> QED
      BY <1>2, <3>1, EffectsAssumption DEF First
  <2>3. CASE Arrives(r)
    <3>1. run[r].task = t /\ ~At(r, "idle")
      BY <1>2, <2>3 DEF Arrives
    <3>2. job' = job
      BY AnswersFrame
    <3>3. yes[t] # "approved" \/ Excused(t)'
      <4>1. CASE Exactly(r)
        <5>1. job[t] = "command"
          BY <3>1, <4>1 DEF WaitsSound, Exactly
        <5>2. t \in unread' \/ yes[t] # "approved"
          BY <1>2, <3>1, <4>1 DEF Exactly, Misses, Go, RunRecord
        <5> QED
          BY <3>2, <5>1, <5>2 DEF Excused
      <4>2. CASE Gate(r)
        <5>1. ~Go(r, "piece")
          BY <1>2 DEF Go, RunRecord
        <5> QED
          BY <3>1, <4>2, <5>1 DEF Gate, Passes
      <4>3. CASE MustBeApproved(r)
        <5>1. ~Go(r, "touch")
          BY <1>2 DEF Go, RunRecord
        <5>2. At(r, "asking") /\ job[t] = "page"
          BY <3>1, <4>3 DEF MustBeApproved, WaitsSound, OnPage
        <5>3. tab[r].on \in {"asked", "other"}
          BY DEF Tab, Address
        <5>4. ~ApprovedExactly(r) \/ t \in unread'
          BY <3>1, <4>3, <5>1, Zenon DEF MustBeApproved, Misses
        <5>5. CASE ~ApprovedExactly(r)
          <6>1. yes[t] # "approved" \/ t \in strayed
            BY <3>1, <5>2, <5>3, <5>5 DEF ApprovedExactly, WaitsSound
          <6> QED
            BY <3>2, <5>2, <6>1, PieceFrame DEF Excused
        <5>6. CASE t \in unread'
          BY <3>2, <5>2, <5>6 DEF Excused
        <5> QED
          BY <5>4, <5>5, <5>6
      <4> QED
        BY <1>2, <2>3, <4>1, <4>2, <4>3 DEF Arrives
    <3>4. CASE yes[t] # "approved" /\ t \in lost
      BY <3>4, PieceFrame DEF Excused
    <3>5. CASE yes[t] # "approved" /\ t \notin lost
      BY <1>1, <3>1, <3>5
    <3> QED
      BY <3>3, <3>4, <3>5
  <2> QED
    BY <1>2, <2>1, <2>2, <2>3, Moves DEF Idle
<1>3. ASSUME NEW t \in Task, task'[t].status = "waiting", yes'[t] # "none"
      PROVE  Excused(t)'
  <2>1. yes'[t] = yes[t]
    BY <1>3, AnswersFrame
  <2>2. CASE task[t].status = "waiting"
    <3>1. Excused(t)
      BY <1>3, <2>1, <2>2 DEF WaitsSound, CanBeAnswered, Excused
    <3> QED
      BY <3>1, ExcusesStay
  <2>3. CASE task[t].status # "waiting"
    <3>1. PICK r \in Runner : run[r].task = t /\ Park(r)
      BY <1>3, <2>3, StatusFrame
    <3>2. Excused(t)
      BY <1>3, <2>1, <3>1 DEF Park, WaitsSound
    <3> QED
      BY <3>2, ExcusesStay
  <2> QED
    BY <2>2, <2>3
<1>4. ASSUME NEW r \in Runner, At(r, "asking")', tab'[r].on = "other"
      PROVE  run'[r].task \in strayed'
  <2>1. CASE run'[r] = run[r]
    <3>1. At(r, "asking") /\ tab[r].on = "other"
      BY <1>4, <2>1, PagesFrame
    <3> QED
      BY <2>1, <3>1, PieceFrame DEF WaitsSound
  <2>2. ASSUME NEW t \in Task, Claim(r, t) PROVE FALSE
    <3>1. run'[r].pc = First(t)
      BY <2>2 DEF Claim, Idle
    <3> QED
      BY <1>4, <3>1, EffectsAssumption DEF First
  <2>3. CASE Arrives(r)
    <3>1. Look(r) /\ run'[r].task = run[r].task
      BY <1>4, <2>3 DEF Arrives
    <3>2. \A pc \in Errors \cup {"touch"} : ~Go(r, pc)
      BY <1>4 DEF Go, RunRecord, Errors
    <3>3. /\ Goes(r, "asking", [tab[r] EXCEPT !.what = "control"])
          /\ strayed' = IF tab[r].on = "other"
                        THEN strayed \cup {run[r].task} ELSE strayed
      BY <3>1, <3>2, Zenon DEF Look, Goes, Ends
    <3>4. tab'[r].on = tab[r].on
      BY <3>3 DEF Goes, Tab
    <3> QED
      BY <1>4, <3>1, <3>3, <3>4
  <2> QED
    BY <1>4, <2>1, <2>2, <2>3, Moves DEF Idle
<1>5. \A r \in Runner : At(r, "park")' =>
          yes'[run'[r].task] = "none" \/ Excused(run[r].task)'
  <2> SUFFICES ASSUME NEW r \in Runner, At(r, "park")'
               PROVE  yes'[run'[r].task] = "none" \/ Excused(run[r].task)'
    OBVIOUS
  <2>1. run'[r].task \in Task
    BY TypeStep
  <2>2. PICK t \in Task : t = run'[r].task
    BY <2>1
  <2> QED
    BY <1>2, <2>2 DEF Excused
<1> QED
  BY <1>3, <1>4, <1>5, PlacesStep DEF WaitsSound, CanBeAnswered, Excused

-----------------------------------------------------------------------------
(* The theorems *)

LEMMA InitInv == BrowsingInit => IInv
<1> SUFFICES ASSUME BrowsingInit PROVE IInv
  OBVIOUS
<1> USE Records DEF BrowsingInit, Init
<1>1. TypeOK
  BY DEF TypeOK, RowsOK, RunnersOK, PastOK, TaskRow
<1>2. AtPiece = {} /\ \A t \in Task : Holding(t) = {}
  BY DEF AtPiece, Holding
<1>3. AnswersSound /\ TasksSound
  BY <1>2 DEF AnswersSound, TasksSound, At, PastGate
<1>4. PackagesSound /\ PostsPaid
  BY <1>2 DEF PackagesSound, PostsPaid, PublishedIsOut
<1>5. PagesSound /\ WaitsSound
  BY DEF PagesSound, WaitsSound, NothingUnseen, CanBeAnswered, At, OnPage
<1> QED
  BY <1>1, <1>3, <1>4, <1>5 DEF IInv

\* The inductive invariant of the effects holds in every reachable state.
THEOREM EffectsInvariant == BrowsingSpec => []IInv
<1>1. IInv /\ [BrowsingNext]_<<vars, pageVars>> => IInv'
  BY TypeStep, AnswersStep, PackagesStep, TasksStep, PostsStep, PagesStep,
     WaitsStep DEF IInv
<1> QED
  BY InitInv, <1>1, PTL DEF BrowsingSpec

\* No command is run and no package posted that the owner did not approve,
\* whatever is retried, taken up again or made anew (approved_exactly,
\* require_approval, _text_for).
THEOREM OnlyWhatHeApprovedTheorem == BrowsingSpec => []OnlyWhatHeApproved
<1>1. IInv => OnlyWhatHeApproved
  BY DEF IInv, AnswersSound, PackagesSound, OnlyWhatHeApproved
<1> QED
  BY <1>1, EffectsInvariant, PTL

\* A command runs once for a yes and a package goes out at most as often as it
\* was approved, unless an effect was lost sight of or two tasks took the piece
\* up together (run_anything, publish.run).
THEOREM OncePerYesTheorem == BrowsingSpec => []OncePerYes
<1>1. IInv => OncePerYes
  <2> SUFFICES ASSUME IInv PROVE OncePerYes
    OBVIOUS
  <2>1. ASSUME NEW t \in Task, done[t] > 1 PROVE t \in lost
    <3>1. t \notin lost /\ done[t] > 0 => done[t] = 1
      BY <2>1, Zenon DEF IInv, TasksSound
    <3>2. done[t] \in Nat
      BY <2>1 DEF IInv, TypeOK, PastOK
    <3> QED
      BY <2>1, <3>1, <3>2
  <2>2. ASSUME out.n > blessed.n, lost = {} PROVE past.together
    <3>1. out.n \in Nat /\ blessed.n \in Nat
      BY DEF IInv, TypeOK, PastOK
    <3> QED
      BY <2>2, <3>1 DEF IInv, PostsPaid
  <2> QED
    BY <2>1, <2>2, Zenon DEF OncePerYes
<1> QED
  BY <1>1, EffectsInvariant, PTL

\* What the rows tell of effects is true: what they call published went out, and
\* a task that failed or was cancelled did nothing, but for the cases they
\* name (publish.run, tasks.fail).
THEOREM RecordsAreTrueTheorem == BrowsingSpec => []RecordsAreTrue
<1>1. IInv => RecordsAreTrue
  <2> SUFFICES ASSUME IInv PROVE RecordsAreTrue
    OBVIOUS
  <2>1. ASSUME NEW t \in Task, task[t].status \in {"failed", "cancelled"},
               done[t] > 0, t \notin lost
        PROVE  FALSE
    <3>1. /\ \A r, q \in Holding(t) : task[t].status = "running"
          /\ task[t].status = "completed" \/ Holding(t) # {}
      BY <2>1, Zenon DEF IInv, TasksSound
    <3> QED
      BY <2>1, <3>1
  <2> QED
    BY <2>1 DEF IInv, PackagesSound, RecordsAreTrue, FailedDidNothing
<1> QED
  BY <1>1, EffectsInvariant, PTL

\* What is done to a page was approved for that task and at the address he was
\* shown, for any plan of steps (approved_exactly, _must_be_approved).
THEOREM NothingUnseenTheorem == BrowsingSpec => []NothingUnseen
<1>1. IInv => NothingUnseen
  BY DEF IInv, PagesSound
<1> QED
  BY <1>1, EffectsInvariant, PTL

\* A task that waits for the owner can be answered, but for those named
\* (await_approval, approvals.decide).
THEOREM CanBeAnsweredTheorem == BrowsingSpec => []CanBeAnswered
<1>1. IInv => CanBeAnswered
  BY DEF IInv, WaitsSound
<1> QED
  BY <1>1, EffectsInvariant, PTL

=============================================================================
