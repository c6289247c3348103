-------------------------- MODULE TaskEngineProofs --------------------------
(***************************************************************************)
(* Proofs about the task engine, for every plan, every number of           *)
(* concurrent advances and requests, and every bound.                      *)
(***************************************************************************)
EXTENDS TaskEngine, FiniteSetTheorems, TLAPS

USE DEF rows, flow, history, bounds

-----------------------------------------------------------------------------
(* Types *)

\* The records the coroutines start from are records of their types.
LEMMA IdleRecords ==
    /\ IdleAdv \in AdvRecord /\ IdleReq \in ReqRecord
    /\ "failed" \in WorkflowStatus /\ "cancelled" \in WorkflowStatus
BY CountsAssumption, PlanAssumption
   DEF IdleAdv, IdleReq, AdvRecord, ReqRecord, WorkflowStatus, TERMINAL

LEMMA OneWaveLess == \A n \in 0..MaxWaves : n # 0 => n - 1 \in 0..MaxWaves
BY CountsAssumption

LEMMA VerdictType == \A st : Verdict(st) \in WorkflowStatus
BY DEF Verdict, WorkflowStatus, TERMINAL

\* Moving a coroutine's program counter keeps its record's type.
LEMMA AdvMoves ==
    ASSUME NEW f \in [Advancer -> AdvRecord], NEW a \in Advancer,
           NEW pc \in {"idle", "look", "wave", "cancel", "cancelled",
                       "settle", "write"}
    PROVE  [f EXCEPT ![a].pc = pc] \in [Advancer -> AdvRecord]
<1>1. [f[a] EXCEPT !.pc = pc] \in AdvRecord
  BY DEF AdvRecord
<1> QED
  BY <1>1

LEMMA ReqMoves ==
    ASSUME NEW f \in [Request -> ReqRecord], NEW r \in Request,
           NEW pc \in {"idle", "decide", "apply", "downstream", "advance"}
    PROVE  [f EXCEPT ![r].pc = pc] \in [Request -> ReqRecord]
<1>1. [f[r] EXCEPT !.pc = pc] \in ReqRecord
  BY DEF ReqRecord
<1> QED
  BY <1>1

\* Every step of the engine keeps the types.
LEMMA TypeStep == TypeOK /\ [Next]_vars => TypeOK'
<1> SUFFICES ASSUME TypeOK, [Next]_vars PROVE TypeOK'
  OBVIOUS
<1> USE IdleRecords DEF TypeOK, RowsOK, FlowOK, CoroutinesOK, HistoryOK
<1>1. ASSUME StartEmpty
      PROVE TypeOK'
  BY <1>1 DEF StartEmpty
<1>2. ASSUME NEW t \in Task, CreateTask(t)
      PROVE TypeOK'
  BY <1>2 DEF CreateTask, Status
<1>3. ASSUME NEW t \in Task, WireTask(t)
      PROVE TypeOK'
  BY <1>3, PlanAssumption DEF WireTask, Status
<1>4. ASSUME NEW a \in Advancer, StartDone(a)
      PROVE TypeOK'
  BY <1>4, PlanAssumption, CountsAssumption DEF StartDone, AdvRecord, WorkflowStatus
<1>5. ASSUME NEW a \in Advancer, Look(a)
      PROVE TypeOK'
  <2>1. RowsOK'
    BY <1>5 DEF Look, Status
  <2>2. CoroutinesOK'
    <3>1. CASE adv[a].left = 0 \/ Runnable = {}
      <4>1. adv' = [adv EXCEPT ![a].pc = "settle"]
        BY <1>5, <3>1 DEF Look
      <4>2. adv' \in [Advancer -> AdvRecord]
        BY <4>1, AdvMoves
      <4> QED
        BY <1>5, <3>1, <4>2 DEF Look
    <3>2. CASE ~(adv[a].left = 0 \/ Runnable = {})
      <4>1. [adv[a] EXCEPT !.pc = "wave", !.left = @ - 1] \in AdvRecord
        <5>1. adv[a] \in AdvRecord /\ adv[a].left # 0
          BY <3>2
        <5>2. adv[a].left \in 0..MaxWaves
          BY <5>1 DEF AdvRecord
        <5>3. adv[a].left - 1 \in 0..MaxWaves
          BY <5>1, <5>2, OneWaveLess
        <5> QED
          BY <5>1, <5>3 DEF AdvRecord
      <4>2. adv' = [adv EXCEPT ![a] = [adv[a] EXCEPT !.pc = "wave", !.left = @ - 1]]
        BY <1>5, <3>2 DEF Look
      <4>3. adv' \in [Advancer -> AdvRecord]
        BY <4>1, <4>2
      <4>4. at' \in [Advancer -> [Task -> RunPC]]
        <5>1. [t \in Task |-> IF t \in Runnable THEN "start" ELSE "idle"]
                \in [Task -> RunPC]
          BY DEF RunPC
        <5> QED
          BY <1>5, <3>2, <5>1 DEF Look
      <4> QED
        BY <1>5, <4>3, <4>4 DEF Look
    <3> QED
      BY <3>1, <3>2
  <2>3. FlowOK' /\ HistoryOK'
    BY <1>5, PlanAssumption, CountsAssumption DEF Look
  <2> QED
    BY <2>1, <2>2, <2>3
<1>6. ASSUME NEW a \in Advancer, WaveDone(a)
      PROVE TypeOK'
  <2>1. RowsOK'
    BY <1>6 DEF WaveDone, Status
  <2>2. CoroutinesOK'
    <3>1. PICK stop \in BOOLEAN :
            adv' = [adv EXCEPT ![a].pc = IF stop THEN "cancel" ELSE "look"]
      BY <1>6 DEF WaveDone
    <3>2. adv' \in [Advancer -> AdvRecord]
      BY <3>1, AdvMoves
    <3> QED
      BY <1>6, <3>2 DEF WaveDone
  <2>3. FlowOK' /\ HistoryOK'
    BY <1>6, PlanAssumption, CountsAssumption DEF WaveDone
  <2> QED
    BY <2>1, <2>2, <2>3
<1>7. ASSUME NEW a \in Advancer, CancelTasks(a)
      PROVE TypeOK'
  <2>1. RowsOK'
    BY <1>7 DEF CancelTasks, Status
  <2>2. CoroutinesOK'
    BY <1>7, AdvMoves DEF CancelTasks
  <2>3. FlowOK' /\ HistoryOK'
    BY <1>7, PlanAssumption, CountsAssumption DEF CancelTasks
  <2> QED
    BY <2>1, <2>2, <2>3
<1>8. ASSUME NEW a \in Advancer, CancelFlow(a)
      PROVE TypeOK'
  <2>1. RowsOK'
    BY <1>8 DEF CancelFlow, Status
  <2>2. CoroutinesOK'
    BY <1>8, AdvMoves DEF CancelFlow
  <2>3. FlowOK' /\ HistoryOK'
    BY <1>8, PlanAssumption, CountsAssumption DEF CancelFlow
  <2> QED
    BY <2>1, <2>2, <2>3
<1>9. ASSUME NEW a \in Advancer, Settle(a)
      PROVE TypeOK'
  <2>1. RowsOK'
    BY <1>9 DEF Settle, Status
  <2>2. CoroutinesOK'
    <3>1. [adv[a] EXCEPT !.pc = "write", !.verdict = Verdict(status)] \in AdvRecord
      BY VerdictType DEF AdvRecord
    <3> QED
      BY <1>9, <3>1 DEF Settle
  <2>3. FlowOK' /\ HistoryOK'
    BY <1>9, PlanAssumption, CountsAssumption DEF Settle
  <2> QED
    BY <2>1, <2>2, <2>3
<1>10. ASSUME NEW a \in Advancer, WriteStatus(a)
      PROVE TypeOK'
  <2>1. adv[a].verdict \in WorkflowStatus
    BY DEF AdvRecord
  <2> QED
    BY <1>10, <2>1 DEF WriteStatus
<1>11. ASSUME NEW a \in Advancer, NEW t \in Task, FailUnclaimed(a, t)
      PROVE TypeOK'
  BY <1>11 DEF FailUnclaimed, Status, Goto, RunPC, Held
<1>12. ASSUME NEW a \in Advancer, NEW t \in Task, Claim(a, t)
      PROVE TypeOK'
  BY <1>12 DEF Claim, Status, Goto, RunPC, Held
<1>13. ASSUME NEW a \in Advancer, NEW t \in Task, ClaimLost(a, t)
      PROVE TypeOK'
  BY <1>13 DEF ClaimLost, Goto, RunPC
<1>14. ASSUME NEW a \in Advancer, NEW t \in Task, PassGate(a, t)
      PROVE TypeOK'
  <2>1. RowsOK'
    BY <1>14 DEF PassGate, Status
  <2>2. CoroutinesOK'
    <3>1. PICK pc \in RunPC : Goto(a, t, pc)
      BY <1>14, PlanAssumption DEF PassGate, Unanswered, RunPC, Held
    <3>2. at' \in [Advancer -> [Task -> RunPC]]
      BY <3>1 DEF Goto
    <3> QED
      BY <1>14, <3>2 DEF PassGate
  <2>3. FlowOK' /\ HistoryOK'
    BY <1>14, PlanAssumption, CountsAssumption DEF PassGate
  <2> QED
    BY <2>1, <2>2, <2>3
<1>32. ASSUME NEW a \in Advancer, NEW t \in Task, AskInside(a, t)
      PROVE TypeOK'
  <2>1. PICK c \in Inside[t] :
           /\ Goto(a, t, c)
           /\ again' = IF decision[t][c] = "none" THEN again
                                                  ELSE again \cup {<<t, c>>}
    BY <1>32 DEF AskInside
  <2>2. c \in Category
    BY PlanAssumption
  <2>3. at' \in [Advancer -> [Task -> RunPC]]
    BY <2>1, <2>2 DEF Goto, RunPC, Held
  <2>4. again' \subseteq Task \X Category
    BY <2>1, <2>2
  <2> QED
    BY <1>32, <2>3, <2>4 DEF AskInside
<1>15. ASSUME NEW a \in Advancer, NEW t \in Task, Complete(a, t)
      PROVE TypeOK'
  BY <1>15 DEF Complete, Status, Goto, RunPC
<1>16. ASSUME NEW a \in Advancer, NEW t \in Task, Fail(a, t)
      PROVE TypeOK'
  BY <1>16 DEF Fail, Status, Goto, RunPC
<1>17. ASSUME NEW a \in Advancer, NEW t \in Task, Park(a, t)
      PROVE TypeOK'
  BY <1>17 DEF Park, Status, Goto, RunPC
<1>18. ASSUME NEW r \in Request, NEW t \in Task, NEW x \in {"approved", "rejected"}, Ask(r, t, x)
      PROVE TypeOK'
  BY <1>18 DEF Ask, ReqRecord
<1>19. ASSUME NEW r \in Request, Decide(r)
      PROVE TypeOK'
  <2>1. req[r].answer \in {"approved", "rejected"} /\ req[r].task \in Task
    BY DEF ReqRecord
  <2>2. CASE decision[req[r].task][req[r].category] = "none"
    <3>1. decision' \in [Task -> [Category -> {"none", "approved", "rejected"}]]
      <4>1. decision' = [decision EXCEPT ![req[r].task] =
                           [@ EXCEPT ![req[r].category] = req[r].answer]]
        BY <1>19, <2>2 DEF Decide
      <4>2. decision[req[r].task] \in [Category -> {"none", "approved", "rejected"}]
        BY <2>1
      <4>3. [decision[req[r].task] EXCEPT ![req[r].category] = req[r].answer]
              \in [Category -> {"none", "approved", "rejected"}]
        BY <2>1, <4>2
      <4> QED
        BY <4>1, <4>3
    <3>2. req' \in [Request -> ReqRecord]
      <4>1. req' = [req EXCEPT ![r].pc = "apply"]
        BY <1>19, <2>2 DEF Decide
      <4> QED
        BY <4>1, ReqMoves
    <3> QED
      BY <1>19, <3>1, <3>2 DEF Decide
  <2>3. CASE decision[req[r].task][req[r].category] # "none"
    BY <1>19, <2>3 DEF Decide
  <2> QED
    BY <2>2, <2>3
<1>20. ASSUME NEW r \in Request, ApplyApproval(r)
      PROVE TypeOK'
  <2>1. req[r].task \in Task /\ req[r].category \in Category \cup {NoCategory}
    BY DEF ReqRecord
  <2>2. RowsOK'
    BY <1>20, <2>1 DEF ApplyApproval, Status
  <2>3. CoroutinesOK'
    BY <1>20, ReqMoves DEF ApplyApproval
  <2>4. FlowOK'
    BY <1>20 DEF ApplyApproval
  <2>5. reopened' \in [Task -> SUBSET (Category \cup {NoCategory})]
    <3> DEFINE new == [reopened EXCEPT ![req[r].task] = @ \cup {req[r].category}]
    <3>1. new \in [Task -> SUBSET (Category \cup {NoCategory})]
      BY <2>1
    <3>2. reopened' = reopened \/ reopened' = new
      BY <1>20 DEF ApplyApproval
    <3> QED
      BY <3>1, <3>2
  <2>6. HistoryOK'
    BY <1>20, <2>5 DEF ApplyApproval
  <2> QED
    BY <2>2, <2>3, <2>4, <2>6
<1>21. ASSUME NEW r \in Request, ApplyRejection(r)
      PROVE TypeOK'
  <2>1. RowsOK'
    BY <1>21 DEF ApplyRejection, Status
  <2>2. CoroutinesOK'
    <3>1. PICK pc \in {"downstream", "advance"} : req' = [req EXCEPT ![r].pc = pc]
      BY <1>21 DEF ApplyRejection
    <3>2. req' \in [Request -> ReqRecord]
      BY <3>1, ReqMoves
    <3> QED
      BY <1>21, <3>2 DEF ApplyRejection
  <2>3. FlowOK' /\ HistoryOK'
    BY <1>21, PlanAssumption, CountsAssumption DEF ApplyRejection
  <2> QED
    BY <2>1, <2>2, <2>3
<1>22. ASSUME NEW r \in Request, CancelDownstream(r)
      PROVE TypeOK'
  <2>1. RowsOK'
    BY <1>22 DEF CancelDownstream, Status
  <2>2. CoroutinesOK'
    BY <1>22, ReqMoves DEF CancelDownstream
  <2>3. FlowOK' /\ HistoryOK'
    BY <1>22, PlanAssumption, CountsAssumption DEF CancelDownstream
  <2> QED
    BY <2>1, <2>2, <2>3
<1>23. ASSUME NEW r \in Request, NEW a \in Advancer, AdvanceAfter(r, a)
      PROVE TypeOK'
  BY <1>23, CountsAssumption DEF AdvanceAfter, Spawn, AdvRecord, WorkflowStatus
<1>24. ASSUME Recover
      PROVE TypeOK'
  <2>1. RowsOK'
    BY <1>24 DEF Recover, Status
  <2>2. HistoryOK'
    BY <1>24 DEF Recover, Stuck
  <2>3. FlowOK' /\ CoroutinesOK'
    BY <1>24 DEF Recover
  <2> QED
    BY <2>1, <2>2, <2>3
<1>25. ASSUME Abandon
      PROVE TypeOK'
  BY <1>25 DEF Abandon
<1>26. ASSUME NEW a \in Advancer, Resume(a)
      PROVE TypeOK'
  BY <1>26, PlanAssumption, CountsAssumption DEF Resume, Spawn, AdvRecord, WorkflowStatus
<1>27. ASSUME NEW t \in Task, AgeTask(t)
      PROVE TypeOK'
  BY <1>27 DEF AgeTask
<1>28. ASSUME AgeFlow
      PROVE TypeOK'
  BY <1>28 DEF AgeFlow
<1>29. ASSUME ToggleStop
      PROVE TypeOK'
  BY <1>29, CountsAssumption DEF ToggleStop
<1>30. ASSUME Crash
      PROVE TypeOK'
  <2>1. cut' \subseteq Task \X (Category \cup {NoCategory})
    BY <1>30 DEF Crash, Applying, ReqRecord
  <2> QED
    BY <1>30, <2>1, CountsAssumption DEF Crash, RunPC
<1>31. CASE UNCHANGED vars
  BY <1>31 DEF vars
<1> HIDE DEF TypeOK
<1>33. CASE StartNext
  BY <1>33, <1>1, <1>2, <1>3, <1>4 DEF StartNext
<1>34. ASSUME NEW a \in Advancer, AdvanceNext(a) PROVE TypeOK'
  BY <1>34, <1>5, <1>6, <1>7, <1>8, <1>9, <1>10 DEF AdvanceNext
<1>35. ASSUME NEW a \in Advancer, NEW t \in Task, RunTask(a, t) PROVE TypeOK'
  BY <1>35, <1>11, <1>12, <1>13, <1>14, <1>32, <1>15, <1>16, <1>17 DEF RunTask
<1>36. ASSUME NEW r \in Request, Answer(r) PROVE TypeOK'
  BY <1>36, <1>19, <1>20, <1>21, <1>22, <1>23 DEF Answer
<1>37. CASE Owner
  BY <1>37, <1>18, <1>29 DEF Owner
<1>38. CASE Housekeeping
  BY <1>38, <1>24, <1>25, <1>26 DEF Housekeeping
<1>39. CASE World
  BY <1>39, <1>27, <1>28, <1>30 DEF World
<1> QED
  BY <1>31, <1>33, <1>34, <1>35, <1>36, <1>37, <1>38, <1>39 DEF Next

THEOREM TypeCorrect == Spec => []TypeOK
<1>1. Init => TypeOK
  <2> SUFFICES ASSUME Init PROVE TypeOK
    OBVIOUS
  <2>1. RowsOK /\ HistoryOK
    BY DEF Init, RowsOK, HistoryOK, Status
  <2>2. FlowOK
    <3>1. /\ wf = "planning" /\ wfOld = FALSE /\ stopped = FALSE
          /\ crashes = 0 /\ stops = 0
      BY DEF Init
    <3>2. 0 \in 0..MaxCrashes /\ 0 \in 0..MaxStops
      BY CountsAssumption
    <3> QED
      BY <3>1, <3>2 DEF FlowOK, WorkflowStatus
  <2>3. CoroutinesOK
    BY IdleRecords DEF Init, CoroutinesOK, RunPC
  <2> QED
    BY <2>1, <2>2, <2>3 DEF TypeOK
<1> QED
  BY <1>1, TypeStep, PTL DEF Spec

-----------------------------------------------------------------------------
(* Which steps touch what *)

LEMMA AtFrame ==
    ASSUME [Next]_vars
    PROVE  \/ UNCHANGED at
           \/ \E a \in Advancer : Look(a)
           \/ \E a \in Advancer, t \in Task : RunTask(a, t)
           \/ Crash
<1>1. CASE StartNext
  BY <1>1 DEF StartNext, StartEmpty, CreateTask, WireTask, StartDone
<1>2. ASSUME NEW a \in Advancer, AdvanceNext(a) PROVE UNCHANGED at \/ Look(a)
  BY <1>2 DEF AdvanceNext, WaveDone, CancelTasks, CancelFlow, Settle, WriteStatus
<1>3. ASSUME NEW r \in Request, Answer(r) PROVE UNCHANGED at
  BY <1>3 DEF Answer, Decide, ApplyApproval, ApplyRejection, CancelDownstream,
     AdvanceAfter
<1>4. CASE Owner
  BY <1>4 DEF Owner, Ask, ToggleStop
<1>5. CASE Housekeeping
  BY <1>5 DEF Housekeeping, Recover, Abandon, Resume
<1>6. CASE World
  BY <1>6 DEF World, AgeFlow, AgeTask
<1>7. CASE UNCHANGED vars
  BY <1>7 DEF vars
<1> QED
  BY <1>1, <1>2, <1>3, <1>4, <1>5, <1>6, <1>7 DEF Next

LEMMA DecisionFrame ==
    ASSUME [Next]_vars
    PROVE  UNCHANGED decision \/ \E r \in Request : Decide(r)
<1>1. CASE StartNext
  BY <1>1 DEF StartNext, StartEmpty, CreateTask, WireTask, StartDone
<1>2. ASSUME NEW a \in Advancer, AdvanceNext(a) PROVE UNCHANGED decision
  BY <1>2 DEF AdvanceNext, Look, WaveDone, CancelTasks, CancelFlow, Settle,
     WriteStatus
<1>3. ASSUME NEW a \in Advancer, NEW t \in Task, RunTask(a, t)
      PROVE  UNCHANGED decision
  BY <1>3 DEF RunTask, FailUnclaimed, Claim, ClaimLost, PassGate, AskInside, Complete,
     Fail, Park
<1>4. ASSUME NEW r \in Request, Answer(r) PROVE UNCHANGED decision \/ Decide(r)
  BY <1>4 DEF Answer, ApplyApproval, ApplyRejection, CancelDownstream,
     AdvanceAfter
<1>5. CASE Owner
  BY <1>5 DEF Owner, Ask, ToggleStop
<1>6. CASE Housekeeping
  BY <1>6 DEF Housekeeping, Recover, Abandon, Resume
<1>7. CASE World
  BY <1>7 DEF World, AgeFlow, AgeTask, Crash
<1>8. CASE UNCHANGED vars
  BY <1>8 DEF vars
<1> QED
  BY <1>1, <1>2, <1>3, <1>4, <1>5, <1>6, <1>7, <1>8 DEF Next

LEMMA DeliveredFrame ==
    ASSUME [Next]_vars
    PROVE  \/ UNCHANGED delivered
           \/ \E a \in Advancer, t \in Task : Complete(a, t)
<1>1. CASE StartNext
  BY <1>1 DEF StartNext, StartEmpty, CreateTask, WireTask, StartDone
<1>2. ASSUME NEW a \in Advancer, AdvanceNext(a) PROVE UNCHANGED delivered
  BY <1>2 DEF AdvanceNext, Look, WaveDone, CancelTasks, CancelFlow, Settle,
     WriteStatus
<1>3. ASSUME NEW a \in Advancer, NEW t \in Task, RunTask(a, t)
      PROVE  UNCHANGED delivered \/ Complete(a, t)
  BY <1>3 DEF RunTask, FailUnclaimed, Claim, ClaimLost, PassGate, AskInside, Fail, Park
<1>4. ASSUME NEW r \in Request, Answer(r) PROVE UNCHANGED delivered
  BY <1>4 DEF Answer, Decide, ApplyApproval, ApplyRejection, CancelDownstream,
     AdvanceAfter
<1>5. CASE Owner
  BY <1>5 DEF Owner, Ask, ToggleStop
<1>6. CASE Housekeeping
  BY <1>6 DEF Housekeeping, Recover, Abandon, Resume
<1>7. CASE World
  BY <1>7 DEF World, AgeFlow, AgeTask, Crash
<1>8. CASE UNCHANGED vars
  BY <1>8 DEF vars
<1> QED
  BY <1>1, <1>2, <1>3, <1>4, <1>5, <1>6, <1>7, <1>8 DEF Next

-----------------------------------------------------------------------------
(* The owner's answers *)

\* approvals.decide never overwrites: an approval stays one.
LEMMA ApprovalsFinal ==
    ASSUME TypeOK, [Next]_vars, NEW t \in Task
    PROVE  Approved(t) \subseteq Approved(t)'
<1>1. CASE UNCHANGED decision
  BY <1>1 DEF Approved
<1>2. ASSUME NEW r \in Request, Decide(r), decision' # decision
      PROVE  Approved(t) \subseteq Approved(t)'
  <2>1. /\ decision[req[r].task][req[r].category] = "none"
        /\ decision' = [decision EXCEPT ![req[r].task][req[r].category] =
                                           req[r].answer]
    BY <1>2 DEF Decide
  <2>2. ASSUME NEW c \in Category, decision[t][c] = "approved"
        PROVE  decision'[t][c] = "approved"
    BY <2>1, <2>2 DEF TypeOK, RowsOK
  <2> QED
    BY <2>2 DEF Approved
<1> QED
  BY <1>1, <1>2, DecisionFrame

\* A runner reaches the agent's function only through the gate.
LEMMA WorkBegins ==
    ASSUME TypeOK, [Next]_vars, NEW a \in Advancer, NEW t \in Task,
           at'[a][t] = "work"
    PROVE  at[a][t] = "work" \/ Needs[t] \subseteq Approved(t)
<1> USE DEF TypeOK, CoroutinesOK
<1>1. CASE UNCHANGED at
  BY <1>1
<1>2. ASSUME NEW b \in Advancer, Look(b) PROVE at[a][t] = "work"
  BY <1>2 DEF Look
<1>3. ASSUME NEW b \in Advancer, NEW s \in Task, RunTask(b, s)
      PROVE  at[a][t] = "work" \/ Needs[t] \subseteq Approved(t)
  <2>1. ASSUME NEW pc \in {"idle", "gate"}, Goto(b, s, pc)
        PROVE  at[a][t] = "work"
    BY <2>1 DEF Goto
  <2>2. CASE PassGate(b, s)
    <3>1. CASE Unanswered(s) = {} /\ Goto(b, s, "work")
      <4>1. CASE b = a /\ s = t
        BY <3>1, <4>1, PlanAssumption DEF Unanswered, Approved
      <4>2. CASE ~(b = a /\ s = t)
        BY <3>1, <4>2 DEF Goto
      <4> QED
        BY <4>1, <4>2
    <3>2. ASSUME NEW c \in Unanswered(s), Goto(b, s, c)
          PROVE  at[a][t] = "work"
      <4>1. c # "work"
        BY PlanAssumption, NamesAssumption DEF Unanswered
      <4> QED
        BY <3>2, <4>1 DEF Goto
    <3> QED
      BY <2>2, <3>1, <3>2 DEF PassGate
  <2>3. CASE AskInside(b, s)
    <3>1. PICK c \in Inside[s] : Goto(b, s, c)
      BY <2>3 DEF AskInside
    <3>2. c # "work"
      BY PlanAssumption, NamesAssumption
    <3> QED
      BY <3>1, <3>2 DEF Goto
  <2>4. CASE ~PassGate(b, s) /\ ~AskInside(b, s)
    BY <1>3, <2>1, <2>4 DEF RunTask, FailUnclaimed, Claim, ClaimLost, Complete,
       Fail, Park
  <2> QED
    BY <2>2, <2>3, <2>4
<1>4. CASE Crash
  BY <1>4 DEF Crash
<1> QED
  BY <1>1, <1>2, <1>3, <1>4, AtFrame

\* No agent works, and no result is delivered, without the owner's yes.
THEOREM OwnerGateHolds == Spec => []OwnerGate
<1>1. Init => OwnerGate
  BY DEF Init, OwnerGate
<1>2. TypeOK /\ OwnerGate /\ [Next]_vars => OwnerGate'
  <2> SUFFICES ASSUME TypeOK, OwnerGate, [Next]_vars, NEW t \in Task,
                      \/ t \in delivered'
                      \/ \E a \in Advancer : at'[a][t] = "work"
               PROVE  Needs[t] \subseteq Approved(t)'
    BY DEF OwnerGate
  <2>1. CASE \E a \in Advancer : at'[a][t] = "work"
    BY <2>1, WorkBegins, ApprovalsFinal DEF OwnerGate
  <2>2. CASE t \in delivered'
    <3>1. CASE t \in delivered
      BY <3>1, ApprovalsFinal DEF OwnerGate
    <3>2. CASE t \notin delivered
      <4>1. PICK a \in Advancer : Complete(a, t)
        BY <2>2, <3>2, DeliveredFrame DEF Complete
      <4> QED
        BY <4>1, ApprovalsFinal DEF Complete, OwnerGate
    <3> QED
      BY <3>1, <3>2
  <2> QED
    BY <2>1, <2>2
<1> QED
  BY <1>1, <1>2, TypeCorrect, PTL DEF Spec

-----------------------------------------------------------------------------
(* One runner for a task *)

\* Nothing advances a graph that is still being built, but for the tick that
\* sets early; and only an advance in its wave has runners.
Quiet ==
    /\ ~early /\ starter # "done" => \A a \in Advancer : adv[a].pc = "idle"
    /\ \A a \in Advancer :
          adv[a].pc # "wave" => \A t \in Task : at[a][t] = "idle"

\* While a runner holds a task nobody else does, and its row is one that no
\* claim, wiring or approval touches.
Exclusive ==
    \A t \in Task : t \notin usurped /\ ~early =>
       /\ \A a, b \in Advancer : at[a][t] \in Held /\ at[b][t] \in Held => a = b
       /\ \A a \in Advancer : at[a][t] \in Held =>
             status[t] \notin {"absent", "queued", "blocked", "waiting_approval"}

LEMMA SpawnEarly ==
    ASSUME NEW a \in Advancer, NEW waves, NEW gated, Spawn(a, waves, gated)
    PROVE  (early => early') /\ (starter # "done" => early')
BY Zenon DEF Spawn

\* Starting a call of advance keeps the quiet: it comes after the wiring or
\* sets early.
LEMMA SpawnQuiet ==
    ASSUME TypeOK, Quiet, NEW a \in Advancer, NEW waves, NEW gated,
           Spawn(a, waves, gated), UNCHANGED <<starter, at>>
    PROVE  Quiet'
<1>1. ~early' => ~early /\ starter = "done"
  BY SpawnEarly
<1>2. /\ adv[a].pc = "idle"
      /\ \A b \in Advancer : b # a => adv'[b] = adv[b]
  BY DEF Spawn, TypeOK, CoroutinesOK
<1> QED
  BY <1>1, <1>2 DEF Quiet

LEMMA QuietStep == TypeOK /\ Quiet /\ [Next]_vars => Quiet'
<1> SUFFICES ASSUME TypeOK, Quiet, [Next]_vars PROVE Quiet'
  OBVIOUS
<1> USE DEF Quiet, TypeOK, CoroutinesOK, HistoryOK
<1>1. CASE StartNext
  <2>1. CASE StartEmpty
    BY <2>1 DEF StartEmpty
  <2>2. ASSUME NEW t \in Task, CreateTask(t) \/ WireTask(t) PROVE Quiet'
    BY <2>2 DEF CreateTask, WireTask
  <2>3. ASSUME NEW a \in Advancer, StartDone(a) PROVE Quiet'
    BY <2>3 DEF StartDone
  <2> QED
    BY <1>1, <2>1, <2>2, <2>3 DEF StartNext
<1>2. ASSUME NEW a \in Advancer, AdvanceNext(a) PROVE Quiet'
  <2>1. CASE Look(a)
    <3>1. adv[a].pc = "look" /\ UNCHANGED <<starter, early>>
      BY <2>1 DEF Look
    <3>2. \A b \in Advancer : b # a => adv'[b] = adv[b] /\ at'[b] = at[b]
      BY <2>1 DEF Look
    <3>3. adv'[a].pc = "wave" \/ at'[a] = at[a]
      BY <2>1 DEF Look, AdvRecord
    <3> QED
      BY <3>1, <3>2, <3>3
  <2>2. CASE WaveDone(a)
    BY <2>2 DEF WaveDone
  <2>3. CASE CancelTasks(a)
    BY <2>3 DEF CancelTasks
  <2>4. CASE CancelFlow(a)
    BY <2>4 DEF CancelFlow
  <2>5. CASE Settle(a)
    BY <2>5 DEF Settle, IdleAdv
  <2>6. CASE WriteStatus(a)
    BY <2>6 DEF WriteStatus, IdleAdv
  <2> QED
    BY <1>2, <2>1, <2>2, <2>3, <2>4, <2>5, <2>6 DEF AdvanceNext
<1>3. ASSUME NEW a \in Advancer, NEW t \in Task, RunTask(a, t) PROVE Quiet'
  <2>1. at[a][t] # "idle"
    BY <1>3, NamesAssumption DEF RunTask, FailUnclaimed, Claim, ClaimLost,
       PassGate, AskInside, Complete, Fail, Park
  <2>2. UNCHANGED <<early, starter, adv>>
    BY <1>3 DEF RunTask, FailUnclaimed, Claim, ClaimLost, PassGate, AskInside, Complete,
       Fail, Park
  <2>3. \E pc : Goto(a, t, pc)
    BY <1>3 DEF RunTask, FailUnclaimed, Claim, ClaimLost, PassGate, AskInside, Complete,
       Fail, Park
  <2> QED
    BY <2>1, <2>2, <2>3 DEF Goto
<1>4. ASSUME NEW r \in Request, Answer(r) PROVE Quiet'
  <2>1. ASSUME NEW a \in Advancer, AdvanceAfter(r, a) PROVE Quiet'
    BY <2>1, SpawnQuiet DEF AdvanceAfter
  <2> QED
    BY <1>4, <2>1 DEF Answer, Decide, ApplyApproval, ApplyRejection,
       CancelDownstream
<1>5. CASE Owner
  BY <1>5 DEF Owner, Ask, ToggleStop
<1>6. CASE Housekeeping
  <2>1. ASSUME NEW a \in Advancer, Resume(a) PROVE Quiet'
    BY <2>1, SpawnQuiet DEF Resume
  <2> QED
    BY <1>6, <2>1 DEF Housekeeping, Recover, Abandon
<1>7. CASE World
  BY <1>7 DEF World, AgeFlow, AgeTask, Crash, IdleAdv
<1>8. CASE UNCHANGED vars
  BY <1>8 DEF vars
<1> QED
  BY <1>1, <1>2, <1>3, <1>4, <1>5, <1>6, <1>7, <1>8 DEF Next

\* The steps that leave the rows alone.
LEMMA StatusFrame ==
    ASSUME [Next]_vars
    PROVE  \/ UNCHANGED status
           \/ \E t \in Task : CreateTask(t) \/ WireTask(t)
           \/ \E a \in Advancer : CancelTasks(a)
           \/ \E a \in Advancer, t \in Task : RunTask(a, t)
           \/ \E r \in Request :
                 ApplyApproval(r) \/ ApplyRejection(r) \/ CancelDownstream(r)
           \/ Recover
<1>1. CASE StartNext
  BY <1>1 DEF StartNext, StartEmpty, StartDone
<1>2. ASSUME NEW a \in Advancer, AdvanceNext(a)
      PROVE  UNCHANGED status \/ CancelTasks(a)
  BY <1>2 DEF AdvanceNext, Look, WaveDone, CancelFlow, Settle, WriteStatus
<1>3. ASSUME NEW r \in Request, Answer(r)
      PROVE  \/ UNCHANGED status
             \/ ApplyApproval(r) \/ ApplyRejection(r) \/ CancelDownstream(r)
  BY <1>3 DEF Answer, Decide, AdvanceAfter
<1>4. CASE Owner
  BY <1>4 DEF Owner, Ask, ToggleStop
<1>5. CASE Housekeeping
  BY <1>5 DEF Housekeeping, Abandon, Resume
<1>6. CASE World
  BY <1>6 DEF World, AgeFlow, AgeTask, Crash
<1>7. CASE UNCHANGED vars
  BY <1>7 DEF vars
<1> QED
  BY <1>1, <1>2, <1>3, <1>4, <1>5, <1>6, <1>7 DEF Next

\* History only grows.
LEMMA HistoryGrows ==
    ASSUME [Next]_vars
    PROVE  usurped \subseteq usurped' /\ (early => early')
<1>1. CASE StartNext
  BY <1>1 DEF StartNext, StartEmpty, CreateTask, WireTask, StartDone
<1>2. ASSUME NEW a \in Advancer, AdvanceNext(a) PROVE UNCHANGED <<usurped, early>>
  BY <1>2 DEF AdvanceNext, Look, WaveDone, CancelTasks, CancelFlow, Settle,
     WriteStatus
<1>3. ASSUME NEW a \in Advancer, NEW t \in Task, RunTask(a, t)
      PROVE  UNCHANGED <<usurped, early>>
  BY <1>3 DEF RunTask, FailUnclaimed, Claim, ClaimLost, PassGate, AskInside, Complete,
     Fail, Park
<1>4. ASSUME NEW r \in Request, Answer(r)
      PROVE  UNCHANGED usurped /\ (early => early')
  <2>1. ASSUME NEW a \in Advancer, AdvanceAfter(r, a)
        PROVE  UNCHANGED usurped /\ (early => early')
    BY <2>1, SpawnEarly DEF AdvanceAfter
  <2> QED
    BY <1>4, <2>1 DEF Answer, Decide, ApplyApproval, ApplyRejection,
       CancelDownstream
<1>5. CASE Owner
  BY <1>5 DEF Owner, Ask, ToggleStop
<1>6. CASE Housekeeping
  <2>1. ASSUME NEW a \in Advancer, Resume(a)
        PROVE  UNCHANGED usurped /\ (early => early')
    BY <2>1, SpawnEarly DEF Resume
  <2> QED
    BY <1>6, <2>1 DEF Housekeeping, Recover, Abandon
<1>7. CASE World
  BY <1>7 DEF World, AgeFlow, AgeTask, Crash
<1>8. CASE UNCHANGED vars
  BY <1>8 DEF vars
<1> QED
  BY <1>1, <1>2, <1>3, <1>4, <1>5, <1>6, <1>7, <1>8 DEF Next

\* A step that adds no runner and opens no row keeps the task's holder alone.
LEMMA ExclusiveStep ==
    TypeOK /\ Quiet /\ Exclusive /\ [Next]_vars => Exclusive'
<1> SUFFICES ASSUME TypeOK, Quiet, Exclusive, [Next]_vars,
                    NEW t \in Task, t \notin usurped', ~early'
             PROVE  /\ \A a, b \in Advancer :
                          at'[a][t] \in Held /\ at'[b][t] \in Held => a = b
                    /\ \A a \in Advancer : at'[a][t] \in Held =>
                          status'[t] \notin {"absent", "queued", "blocked",
                                             "waiting_approval"}
  BY DEF Exclusive, Held
<1> DEFINE Open == {"absent", "queued", "blocked", "waiting_approval"}
<1>1. t \notin usurped /\ ~early
  BY HistoryGrows
<1>2. /\ \A a, b \in Advancer : at[a][t] \in Held /\ at[b][t] \in Held => a = b
      /\ \A a \in Advancer : at[a][t] \in Held => status[t] \notin Open
  BY <1>1 DEF Exclusive
<1>3. ASSUME \A a \in Advancer : at'[a][t] \in Held => at[a][t] \in Held,
             status[t] \notin Open => status'[t] \notin Open
      PROVE  /\ \A a, b \in Advancer :
                    at'[a][t] \in Held /\ at'[b][t] \in Held => a = b
             /\ \A a \in Advancer : at'[a][t] \in Held => status'[t] \notin Open
  BY <1>2, <1>3
<1>4. "idle" \notin Held /\ "start" \notin Held
  BY NamesAssumption DEF Held
<1>5. ASSUME NEW a \in Advancer, NEW s \in Task, RunTask(a, s)
      PROVE  /\ \A x, y \in Advancer :
                    at'[x][t] \in Held /\ at'[y][t] \in Held => x = y
             /\ \A x \in Advancer : at'[x][t] \in Held => status'[t] \notin Open
  <2>1. CASE s # t
    <3>1. \A x \in Advancer : at'[x][t] = at[x][t]
      <4>1. \E pc : Goto(a, s, pc)
        BY <1>5 DEF RunTask, FailUnclaimed, Claim, ClaimLost, PassGate, AskInside,
           Complete, Fail, Park
      <4> QED
        BY <2>1, <4>1 DEF Goto, TypeOK, CoroutinesOK
    <3>2. status'[t] = status[t]
      BY <1>5, <2>1 DEF RunTask, FailUnclaimed, Claim, ClaimLost, PassGate, AskInside,
         Complete, Fail, Park, TypeOK, RowsOK
    <3> QED
      BY <1>3, <3>1, <3>2
  <2>2. CASE Claim(a, t)
    <3>1. status[t] \in Open /\ status'[t] = "running"
      BY <2>2 DEF Claim, Claimable, TypeOK, RowsOK
    <3>2. \A x \in Advancer : at'[x][t] \in Held => x = a
      BY <2>2, <3>1, <1>2 DEF Claim, Goto, TypeOK, CoroutinesOK
    <3> QED
      BY <3>1, <3>2
  <2>3. CASE FailUnclaimed(a, t) \/ ClaimLost(a, t)
    <3>1. \A x \in Advancer : at'[x][t] \in Held => at[x][t] \in Held
      BY <2>3, <1>4 DEF FailUnclaimed, ClaimLost, Goto, TypeOK, CoroutinesOK
    <3>2. status'[t] \in {status[t], "failed"}
      BY <2>3 DEF FailUnclaimed, ClaimLost, TypeOK, RowsOK
    <3> QED
      BY <1>3, <3>1, <3>2
  <2>4. CASE PassGate(a, t) \/ AskInside(a, t)
    <3>1. at[a][t] \in Held /\ UNCHANGED status
      BY <2>4 DEF PassGate, AskInside, Held
    <3>2. \A x \in Advancer : x # a => at'[x][t] = at[x][t]
      BY <2>4 DEF PassGate, AskInside, Goto, TypeOK, CoroutinesOK
    <3> QED
      BY <1>3, <3>1, <3>2
  <2>5. CASE Complete(a, t) \/ Fail(a, t) \/ Park(a, t)
    <3>1. at[a][t] \in Held
      BY <2>5 DEF Complete, Fail, Park, Held
    <3>2. Goto(a, t, "idle")
      BY <2>5 DEF Complete, Fail, Park
    <3>3. \A x \in Advancer : at'[x][t] \notin Held
      BY <3>1, <3>2, <1>2, <1>4 DEF Goto, TypeOK, CoroutinesOK
    <3> QED
      BY <3>3
  <2> QED
    BY <1>5, <2>1, <2>2, <2>3, <2>4, <2>5 DEF RunTask
<1>6. CASE \E a \in Advancer, s \in Task : RunTask(a, s)
  BY <1>5, <1>6
<1>7. CASE ~\E a \in Advancer, s \in Task : RunTask(a, s)
  <2>1. \A a \in Advancer : at'[a][t] \in Held => at[a][t] \in Held
    <3>1. ASSUME NEW b \in Advancer, Look(b)
          PROVE  \A a \in Advancer : at'[a][t] \in Held => at[a][t] \in Held
      BY <3>1, <1>4 DEF Look, TypeOK, CoroutinesOK
    <3>2. CASE Crash
      BY <3>2, <1>4 DEF Crash
    <3> QED
      BY <1>7, <3>1, <3>2, AtFrame
  <2>2. CASE \A a \in Advancer : at[a][t] \notin Held
    BY <2>1, <2>2
  <2>3. CASE \E a \in Advancer : at[a][t] \in Held
    <3>1. starter = "done" /\ status[t] \notin Open
      <4>1. \E a \in Advancer : adv[a].pc # "idle"
        BY <2>3, <1>4 DEF Quiet
      <4> QED
        BY <4>1, <1>1, <1>2, <2>3 DEF Quiet
    <3>2. ASSUME NEW s \in Task, CreateTask(s) \/ WireTask(s) PROVE FALSE
      BY <3>1, <3>2 DEF CreateTask, WireTask
    <3>3. ASSUME NEW b \in Advancer, CancelTasks(b) PROVE status'[t] \notin Open
      BY <3>1, <3>3 DEF CancelTasks
    <3>4. ASSUME NEW r \in Request,
                 ApplyApproval(r) \/ ApplyRejection(r) \/ CancelDownstream(r)
          PROVE  status'[t] \notin Open
      <4>1. status \in [Task -> Status] /\ req[r].task \in Task
        BY DEF TypeOK, RowsOK, CoroutinesOK, ReqRecord
      <4>2. CASE ApplyApproval(r)
        BY <3>1, <4>1, <4>2 DEF ApplyApproval
      <4>3. CASE ApplyRejection(r)
        BY <3>1, <4>1, <4>3 DEF ApplyRejection
      <4>4. CASE CancelDownstream(r)
        BY <3>1, <4>4 DEF CancelDownstream
      <4> QED
        BY <3>4, <4>2, <4>3, <4>4
    <3>5. ASSUME Recover PROVE status'[t] \notin Open
      <4>1. t \notin Stuck
        BY <3>5, <2>3 DEF Recover, Holders
      <4> QED
        BY <3>1, <3>5, <4>1 DEF Recover, Stuck
    <3>6. status'[t] \notin Open
      <4>1. CASE UNCHANGED status
        BY <3>1, <4>1
      <4> QED
        BY <1>7, <3>2, <3>3, <3>4, <3>5, <4>1, StatusFrame
    <3> QED
      BY <1>2, <2>1, <3>6
  <2> QED
    BY <2>2, <2>3
<1> QED
  BY <1>6, <1>7

\* Two calls of advance never hold the same task.
THEOREM SingleRunnerHolds == Spec => []SingleRunner
<1>1. Init => Quiet /\ Exclusive
  BY NamesAssumption DEF Init, Quiet, Exclusive, Held, IdleAdv
<1>2. Exclusive => SingleRunner
  BY DEF Exclusive, SingleRunner
<1> QED
  BY <1>1, <1>2, QuietStep, ExclusiveStep, TypeCorrect, PTL DEF Spec

-----------------------------------------------------------------------------
(***************************************************************************)
(* Steps run in the order of the plan, and a workflow is reported          *)
(* completed only when all of it has delivered.                            *)
(***************************************************************************)

-----------------------------------------------------------------------------
(* Which steps touch what *)

LEMMA WiringFrame ==
    ASSUME [Next]_vars
    PROVE  \/ UNCHANGED <<deps, starter>>
           \/ UNCHANGED deps /\ (StartEmpty \/ Crash)
           \/ \E t \in Task : CreateTask(t) \/ WireTask(t)
           \/ \E a \in Advancer : StartDone(a)
<1>1. CASE StartNext
  BY <1>1 DEF StartNext, StartEmpty
<1>2. ASSUME NEW a \in Advancer, AdvanceNext(a) PROVE UNCHANGED <<deps, starter>>
  BY <1>2 DEF AdvanceNext, Look, WaveDone, CancelTasks, CancelFlow, Settle,
     WriteStatus
<1>3. ASSUME NEW a \in Advancer, NEW t \in Task, RunTask(a, t)
      PROVE  UNCHANGED <<deps, starter>>
  BY <1>3 DEF RunTask, FailUnclaimed, Claim, ClaimLost, PassGate, AskInside, Complete,
     Fail, Park
<1>4. ASSUME NEW r \in Request, Answer(r) PROVE UNCHANGED <<deps, starter>>
  BY <1>4 DEF Answer, Decide, ApplyApproval, ApplyRejection, CancelDownstream,
     AdvanceAfter
<1>5. CASE Owner
  BY <1>5 DEF Owner, Ask, ToggleStop
<1>6. CASE Housekeeping
  BY <1>6 DEF Housekeeping, Recover, Abandon, Resume
<1>7. CASE World
  BY <1>7 DEF World, AgeFlow, AgeTask, Crash
<1>8. CASE UNCHANGED vars
  BY <1>8 DEF vars
<1> QED
  BY <1>1, <1>2, <1>3, <1>4, <1>5, <1>6, <1>7, <1>8 DEF Next

\* A verdict is put into a call of advance by Settle alone.
LEMMA VerdictFrame ==
    ASSUME TypeOK, [Next]_vars, NEW a \in Advancer, adv'[a].pc = "write"
    PROVE  adv'[a] = adv[a] \/ Settle(a)
<1> USE DEF TypeOK, CoroutinesOK
<1>1. CASE StartNext
  BY <1>1 DEF StartNext, StartEmpty, CreateTask, WireTask, StartDone
<1>2. ASSUME NEW b \in Advancer, AdvanceNext(b)
      PROVE  adv'[a] = adv[a] \/ Settle(a)
  <2>1. CASE Look(b)
    <3>1. CASE adv' = [adv EXCEPT ![b].pc = "settle"]
      BY <3>1 DEF AdvRecord
    <3>2. CASE adv' = [adv EXCEPT ![b].pc = "wave", ![b].left = @ - 1]
      BY <3>2 DEF AdvRecord
    <3> QED
      BY <2>1, <3>1, <3>2 DEF Look
  <2>2. CASE WaveDone(b)
    BY <2>2 DEF WaveDone, AdvRecord
  <2>3. CASE CancelTasks(b) \/ CancelFlow(b)
    BY <2>3 DEF CancelTasks, CancelFlow, AdvRecord
  <2>4. CASE Settle(b)
    BY <2>4 DEF Settle
  <2>5. CASE WriteStatus(b)
    BY <2>5 DEF WriteStatus, IdleAdv
  <2> QED
    BY <1>2, <2>1, <2>2, <2>3, <2>4, <2>5 DEF AdvanceNext
<1>3. ASSUME NEW b \in Advancer, NEW t \in Task, RunTask(b, t)
      PROVE  adv'[a] = adv[a]
  BY <1>3 DEF RunTask, FailUnclaimed, Claim, ClaimLost, PassGate, AskInside, Complete,
     Fail, Park
<1>4. ASSUME NEW r \in Request, Answer(r) PROVE adv'[a] = adv[a]
  BY <1>4 DEF Answer, Decide, ApplyApproval, ApplyRejection, CancelDownstream,
     AdvanceAfter, Spawn
<1>5. CASE Owner
  BY <1>5 DEF Owner, Ask, ToggleStop
<1>6. CASE Housekeeping
  BY <1>6 DEF Housekeeping, Recover, Abandon, Resume, Spawn
<1>7. CASE World
  BY <1>7 DEF World, AgeFlow, AgeTask, Crash, IdleAdv
<1>8. CASE UNCHANGED vars
  BY <1>8 DEF vars
<1> QED
  BY <1>1, <1>2, <1>3, <1>4, <1>5, <1>6, <1>7, <1>8 DEF Next

\* A workflow's status is written as completed by WriteStatus alone.
LEMMA FlowFrame ==
    ASSUME [Next]_vars, wf' = "completed"
    PROVE  UNCHANGED wf \/ \E a \in Advancer : WriteStatus(a)
<1>1. CASE StartNext
  BY <1>1 DEF StartNext, StartEmpty, CreateTask, WireTask, StartDone
<1>2. ASSUME NEW a \in Advancer, AdvanceNext(a)
      PROVE  UNCHANGED wf \/ WriteStatus(a)
  BY <1>2 DEF AdvanceNext, Look, WaveDone, CancelTasks, CancelFlow, Settle
<1>3. ASSUME NEW a \in Advancer, NEW t \in Task, RunTask(a, t)
      PROVE  UNCHANGED wf
  BY <1>3 DEF RunTask, FailUnclaimed, Claim, ClaimLost, PassGate, AskInside, Complete,
     Fail, Park
<1>4. ASSUME NEW r \in Request, Answer(r) PROVE UNCHANGED wf
  BY <1>4 DEF Answer, Decide, ApplyApproval, ApplyRejection, CancelDownstream,
     AdvanceAfter
<1>5. CASE Owner
  BY <1>5 DEF Owner, Ask, ToggleStop
<1>6. CASE Housekeeping
  BY <1>6 DEF Housekeeping, Recover, Abandon, Resume
<1>7. CASE World
  BY <1>7 DEF World, AgeFlow, AgeTask, Crash
<1>8. CASE UNCHANGED vars
  BY <1>8 DEF vars
<1> QED
  BY <1>1, <1>2, <1>3, <1>4, <1>5, <1>6, <1>7, <1>8 DEF Next

LEMMA DeliveredGrows == ASSUME [Next]_vars PROVE delivered \subseteq delivered'
BY DeliveredFrame DEF Complete

-----------------------------------------------------------------------------
(* What a step does to a row *)

\* A row that is there stays, and only complete writes completed, with the
\* result.
LEMMA StatusMoves ==
    ASSUME TypeOK, [Next]_vars, NEW t \in Task
    PROVE  /\ status[t] # "absent" => status'[t] # "absent"
           /\ status'[t] = "completed" =>
                 status[t] = "completed" \/ t \in delivered'
<1> USE DEF TypeOK, RowsOK
<1>1. CASE UNCHANGED status
  BY <1>1
<1>2. ASSUME NEW s \in Task, CreateTask(s) \/ WireTask(s)
      PROVE  /\ status[t] # "absent" => status'[t] # "absent"
             /\ status'[t] = "completed" => status[t] = "completed"
  BY <1>2 DEF CreateTask, WireTask
<1>3. ASSUME NEW a \in Advancer, CancelTasks(a)
      PROVE  /\ status[t] # "absent" => status'[t] # "absent"
             /\ status'[t] = "completed" => status[t] = "completed"
  BY <1>3 DEF CancelTasks
<1>4. ASSUME NEW a \in Advancer, NEW s \in Task, RunTask(a, s)
      PROVE  /\ status[t] # "absent" => status'[t] # "absent"
             /\ status'[t] = "completed" =>
                   status[t] = "completed" \/ t \in delivered'
  <2>1. CASE Complete(a, s)
    BY <2>1 DEF Complete
  <2>2. CASE ~Complete(a, s)
    BY <1>4, <2>2 DEF RunTask, FailUnclaimed, Claim, ClaimLost, PassGate, AskInside, Fail,
       Park
  <2> QED
    BY <2>1, <2>2
<1>5. ASSUME NEW r \in Request,
             ApplyApproval(r) \/ ApplyRejection(r) \/ CancelDownstream(r)
      PROVE  /\ status[t] # "absent" => status'[t] # "absent"
             /\ status'[t] = "completed" => status[t] = "completed"
  BY <1>5 DEF ApplyApproval, ApplyRejection, CancelDownstream
<1>6. CASE Recover
  BY <1>6 DEF Recover, Stuck
<1> QED
  BY <1>1, <1>2, <1>3, <1>4, <1>5, <1>6, StatusFrame

-----------------------------------------------------------------------------
(* Order *)

\* Dependencies are set once, to what the plan says, for every task before
\* start returns, when every task has its row.
Wired ==
    /\ \A t \in Task : deps[t] \in {{}, After[t]}
    /\ starter = "done" => \A t \in Task : deps[t] = After[t]
    /\ starter \in {"wire", "done"} => \A t \in Task : status[t] # "absent"

\* A completed task has delivered, and a runner is spawned for a task only
\* after what comes before it has.
Ordered ==
    /\ \A t \in Task : status[t] = "completed" => t \in delivered
    /\ ~early => \A a \in Advancer, t \in Task :
          at[a][t] # "idle" => After[t] \subseteq delivered

LEMMA WiredStep == TypeOK /\ Wired /\ [Next]_vars => Wired'
<1> SUFFICES ASSUME TypeOK, Wired, [Next]_vars PROVE Wired'
  OBVIOUS
<1> USE DEF Wired, TypeOK, RowsOK
<1>1. \A t \in Task : status[t] # "absent" => status'[t] # "absent"
  BY StatusMoves
<1>2. CASE UNCHANGED <<deps, starter>>
  BY <1>1, <1>2
<1>3. CASE UNCHANGED deps /\ (StartEmpty \/ Crash)
  BY <1>1, <1>3 DEF StartEmpty, Crash
<1>4. ASSUME NEW t \in Task, CreateTask(t) PROVE Wired'
  <2>1. starter' = "wire" => \A s \in Task \ {t} : status[s] # "absent"
    BY <1>4 DEF CreateTask, Created
  <2>2. status'[t] = "queued" /\ starter' \in {"create", "wire"}
    BY <1>4 DEF CreateTask
  <2> QED
    BY <1>1, <1>4, <2>1, <2>2 DEF CreateTask
<1>5. ASSUME NEW t \in Task, WireTask(t) PROVE Wired'
  BY <1>1, <1>5 DEF WireTask
<1>6. ASSUME NEW a \in Advancer, StartDone(a) PROVE Wired'
  <2>1. \A t \in Task : deps[t] = After[t]
    BY <1>6 DEF StartDone, Unwired
  <2> QED
    BY <1>1, <1>6, <2>1 DEF StartDone
<1> QED
  BY <1>2, <1>3, <1>4, <1>5, <1>6, WiringFrame

LEMMA OrderedStep ==
    TypeOK /\ Quiet /\ Wired /\ Ordered /\ [Next]_vars => Ordered'
<1> SUFFICES ASSUME TypeOK, Quiet, Wired, Ordered, [Next]_vars PROVE Ordered'
  OBVIOUS
<1>1. delivered \subseteq delivered' /\ (early => early')
  BY DeliveredGrows, HistoryGrows
<1>2. ASSUME NEW t \in Task, status'[t] = "completed" PROVE t \in delivered'
  BY <1>1, <1>2, StatusMoves DEF Ordered
<1>3. ASSUME ~early', NEW a \in Advancer, NEW t \in Task, at'[a][t] # "idle"
      PROVE  After[t] \subseteq delivered
  <2> USE DEF TypeOK, CoroutinesOK
  <2>1. CASE at[a][t] # "idle"
    BY <1>1, <1>3, <2>1 DEF Ordered
  <2>2. CASE at[a][t] = "idle"
    <3>1. ASSUME NEW b \in Advancer, Look(b)
          PROVE  b = a /\ t \in Runnable
      BY <1>3, <2>2, <3>1 DEF Look
    <3>2. ASSUME NEW b \in Advancer, NEW s \in Task, RunTask(b, s)
          PROVE  FALSE
      <4>1. at[b][s] # "idle"
        BY <3>2, NamesAssumption DEF RunTask, FailUnclaimed, Claim, ClaimLost,
           PassGate, AskInside, Complete, Fail, Park
      <4>2. \E pc : Goto(b, s, pc)
        BY <3>2 DEF RunTask, FailUnclaimed, Claim, ClaimLost, PassGate, AskInside,
           Complete, Fail, Park
      <4> QED
        BY <1>3, <2>2, <4>1, <4>2 DEF Goto
    <3>3. ~Crash
      BY <1>3 DEF Crash
    <3>4. Look(a) /\ t \in Runnable
      BY <1>3, <2>2, <3>1, <3>2, <3>3, AtFrame
    <3>5. deps[t] = After[t]
      BY <1>1, <1>3, <3>4 DEF Look, Quiet, Wired
    <3>6. \A d \in After[t] : status[d] = "completed" /\ d \in Task
      BY <3>4, <3>5, PlanAssumption DEF Runnable
    <3> QED
      BY <3>6 DEF Ordered
  <2> QED
    BY <2>1, <2>2
<1> QED
  BY <1>1, <1>2, <1>3 DEF Ordered

LEMMA OrderInvariant == Spec => [](Quiet /\ Wired /\ Ordered)
<1>1. Init => Quiet /\ Wired /\ Ordered
  BY DEF Init, Quiet, Wired, Ordered, IdleAdv
<1> QED
  BY <1>1, QuietStep, WiredStep, OrderedStep, TypeCorrect, PTL DEF Spec

\* No step is held by a runner before the steps the plan puts first have
\* delivered (tasks.runnable).
THEOREM OrderRespectedHolds == Spec => []OrderRespected
<1>1. Ordered => OrderRespected
  BY NamesAssumption DEF Ordered, OrderRespected, Holders, Held
<1> QED
  BY <1>1, OrderInvariant, PTL

-----------------------------------------------------------------------------
(* What a workflow is reported as *)

\* Completed, in the row or in a verdict about to be written, means all.
Reported ==
    ~early => /\ wf = "completed" => delivered = Task
              /\ \A a \in Advancer :
                    adv[a].pc = "write" /\ adv[a].verdict = "completed"
                       => delivered = Task

LEMMA ReportedStep ==
    TypeOK /\ Quiet /\ Wired /\ Ordered /\ Reported /\ [Next]_vars => Reported'
<1> SUFFICES ASSUME TypeOK, TypeOK', Quiet, Wired, Ordered, Reported,
                    [Next]_vars, ~early'
             PROVE  /\ wf' = "completed" => delivered' = Task
                    /\ \A a \in Advancer :
                          adv'[a].pc = "write" /\ adv'[a].verdict = "completed"
                             => delivered' = Task
  BY TypeStep DEF Reported
<1>1. ~early
  BY HistoryGrows
<1>2. delivered = Task => delivered' = Task
  BY DeliveredGrows DEF TypeOK, HistoryOK
<1>3. ASSUME wf' = "completed" PROVE delivered = Task
  <2>1. ASSUME NEW a \in Advancer, WriteStatus(a) PROVE delivered = Task
    BY <1>1, <1>3, <2>1 DEF WriteStatus, Reported
  <2> QED
    BY <1>1, <1>3, <2>1, FlowFrame DEF Reported
<1>4. ASSUME NEW a \in Advancer,
             adv'[a].pc = "write", adv'[a].verdict = "completed"
      PROVE  delivered = Task
  <2>1. CASE adv'[a] = adv[a]
    BY <1>1, <1>4, <2>1 DEF Reported
  <2>2. CASE Settle(a)
    <3>1. starter = "done"
      BY <1>1, <2>2 DEF Settle, Quiet
    <3>2. Verdict(status) = "completed"
      <4>1. CASE Created = {}
        BY <1>4, <2>2, <4>1 DEF Settle, IdleAdv, TypeOK, CoroutinesOK
      <4>2. CASE Created # {}
        BY <1>4, <2>2, <4>2 DEF Settle, TypeOK, CoroutinesOK, AdvRecord
      <4> QED
        BY <4>1, <4>2
    <3>3. \A t \in Task : status[t] \in {"completed", "absent"}
      BY <3>2 DEF Verdict
    <3>4. \A t \in Task : t \in delivered
      BY <3>1, <3>3 DEF Wired, Ordered
    <3> QED
      BY <3>4 DEF TypeOK, HistoryOK
  <2> QED
    BY <1>4, <2>1, <2>2, VerdictFrame
<1> QED
  BY <1>2, <1>3, <1>4

\* A workflow reported completed has delivered every step of its plan
\* (_settle).
THEOREM CompletedMeansAllHolds == Spec => []CompletedMeansAll
<1>1. Init => Reported
  BY DEF Init, Reported, IdleAdv
<1>2. Reported => CompletedMeansAll
  BY DEF Reported, CompletedMeansAll
<1> QED
  BY <1>1, <1>2, ReportedStep, OrderInvariant, TypeCorrect, PTL DEF Spec

-----------------------------------------------------------------------------
(***************************************************************************)
(* A task is tried a bounded number of times, and the task engine          *)
(* implements GatedWork.                                                   *)
(***************************************************************************)

-----------------------------------------------------------------------------
(* Which steps touch what *)

LEMMA AttemptsFrame ==
    ASSUME [Next]_vars
    PROVE  UNCHANGED attempts \/ \E a \in Advancer, t \in Task : Claim(a, t)
<1>1. CASE StartNext
  BY <1>1 DEF StartNext, StartEmpty, CreateTask, WireTask, StartDone
<1>2. ASSUME NEW a \in Advancer, AdvanceNext(a) PROVE UNCHANGED attempts
  BY <1>2 DEF AdvanceNext, Look, WaveDone, CancelTasks, CancelFlow, Settle,
     WriteStatus
<1>3. ASSUME NEW a \in Advancer, NEW t \in Task, RunTask(a, t)
      PROVE  UNCHANGED attempts \/ Claim(a, t)
  BY <1>3 DEF RunTask, FailUnclaimed, ClaimLost, PassGate, AskInside, Complete, Fail, Park
<1>4. ASSUME NEW r \in Request, Answer(r) PROVE UNCHANGED attempts
  BY <1>4 DEF Answer, Decide, ApplyApproval, ApplyRejection, CancelDownstream,
     AdvanceAfter
<1>5. CASE Owner
  BY <1>5 DEF Owner, Ask, ToggleStop
<1>6. CASE Housekeeping
  BY <1>6 DEF Housekeeping, Recover, Abandon, Resume
<1>7. CASE World
  BY <1>7 DEF World, AgeFlow, AgeTask, Crash
<1>8. CASE UNCHANGED vars
  BY <1>8 DEF vars
<1> QED
  BY <1>1, <1>2, <1>3, <1>4, <1>5, <1>6, <1>7, <1>8 DEF Next

\* Requests move by the owner, by their own steps and in a crash; only these
\* and await_approval touch what an answer is filed under.
LEMMA RequestFrame ==
    ASSUME [Next]_vars
    PROVE  \/ UNCHANGED <<req, decision, reopened, awaiting>>
           \/ \E a \in Advancer, t \in Task : Park(a, t)
           \/ \E r \in Request : Answer(r)
           \/ \E r \in Request, t \in Task,
                 answer \in {"approved", "rejected"} : Ask(r, t, answer)
           \/ Crash
<1>1. CASE StartNext
  BY <1>1 DEF StartNext, StartEmpty, CreateTask, WireTask, StartDone
<1>2. ASSUME NEW a \in Advancer, AdvanceNext(a)
      PROVE  UNCHANGED <<req, decision, reopened, awaiting>>
  BY <1>2 DEF AdvanceNext, Look, WaveDone, CancelTasks, CancelFlow, Settle,
     WriteStatus
<1>3. ASSUME NEW a \in Advancer, NEW t \in Task, RunTask(a, t)
      PROVE  UNCHANGED <<req, decision, reopened, awaiting>> \/ Park(a, t)
  BY <1>3 DEF RunTask, FailUnclaimed, Claim, ClaimLost, PassGate, AskInside, Complete,
     Fail
<1>5. CASE Owner
  BY <1>5 DEF Owner, ToggleStop
<1>6. CASE Housekeeping
  BY <1>6 DEF Housekeeping, Recover, Abandon, Resume
<1>7. CASE World
  BY <1>7 DEF World, AgeFlow, AgeTask
<1>8. CASE UNCHANGED vars
  BY <1>8 DEF vars
<1> QED
  BY <1>1, <1>2, <1>3, <1>5, <1>6, <1>7, <1>8 DEF Next

\* Only await_approval leaves a task waiting.
LEMMA WaitingBegins ==
    ASSUME TypeOK, [Next]_vars, NEW t \in Task,
           status'[t] = "waiting_approval", status[t] # "waiting_approval"
    PROVE  \E a \in Advancer : Park(a, t)
<1> USE DEF TypeOK, RowsOK
<1>1. ~UNCHANGED status
  OBVIOUS
<1>2. ASSUME NEW s \in Task, CreateTask(s) \/ WireTask(s) PROVE FALSE
  BY <1>2 DEF CreateTask, WireTask
<1>3. ASSUME NEW a \in Advancer, CancelTasks(a) PROVE FALSE
  BY <1>3 DEF CancelTasks
<1>4. ASSUME NEW a \in Advancer, NEW s \in Task, RunTask(a, s)
      PROVE  Park(a, t)
  BY <1>4 DEF RunTask, FailUnclaimed, Claim, ClaimLost, PassGate, AskInside, Complete,
     Fail, Park
<1>5. ASSUME NEW r \in Request,
             ApplyApproval(r) \/ ApplyRejection(r) \/ CancelDownstream(r)
      PROVE  FALSE
  BY <1>5 DEF ApplyApproval, ApplyRejection, CancelDownstream
<1>6. ~Recover
  BY DEF Recover, Stuck
<1> QED
  BY <1>1, <1>2, <1>3, <1>4, <1>5, <1>6, StatusFrame

-----------------------------------------------------------------------------
(* What an answer is filed under *)

\* The request r is about to put a task back because of a yes.
Reopening(r) == req[r].pc = "apply" /\ req[r].answer = "approved"

\* A task waits on a category; a request that will put a task back holds a
\* yes nobody used before, and nobody else holds it.
Asked ==
    /\ \A t \in Task : status[t] = "waiting_approval" => awaiting[t] \in Category
    /\ \A r \in Request : req[r].pc # "idle" => req[r].category \in Category
    /\ \A r \in Request : Reopening(r) =>
          /\ decision[req[r].task][req[r].category] = "approved"
          /\ req[r].category \notin reopened[req[r].task]
    /\ \A r, s \in Request :
          /\ Reopening(r) /\ Reopening(s) /\ r # s
          /\ req[r].task = req[s].task
          => req[r].category # req[s].category
    /\ \A t \in Task : \A c \in reopened[t] :
          c \in Category /\ decision[t][c] = "approved"

\* A step that changes no request and no answer.
LEMMA AskedKept ==
    ASSUME TypeOK, Asked, UNCHANGED <<req, decision, reopened>>,
           \A t \in Task : status'[t] = "waiting_approval" =>
              awaiting'[t] \in Category
    PROVE  Asked'
BY DEF Asked, Reopening

\* A step that only moves request r on, to where it puts nothing back.
LEMMA AskedMoved ==
    ASSUME TypeOK, Asked, NEW r \in Request, NEW new,
           req' = [req EXCEPT ![r] = new],
           new.pc # "idle" => new.category \in Category,
           ~(new.pc = "apply" /\ new.answer = "approved"),
           UNCHANGED <<decision, reopened>>,
           \A t \in Task : status'[t] = "waiting_approval" =>
              awaiting'[t] \in Category
    PROVE  Asked'
<1>1. \A s \in Request : req'[s] = IF s = r THEN new ELSE req[s]
  BY DEF TypeOK, CoroutinesOK
<1>2. \A s \in Request : Reopening(s)' => s # r /\ Reopening(s)
  BY <1>1 DEF Reopening
<1>3. \A s \in Request : req'[s].pc # "idle" => req'[s].category \in Category
  BY <1>1 DEF Asked
<1> QED
  BY <1>1, <1>2, <1>3 DEF Asked

\* A task that waits after the step waits on a category.
LEMMA AwaitingCategory ==
    ASSUME TypeOK, Asked, [Next]_vars, NEW t \in Task,
           status'[t] = "waiting_approval"
    PROVE  awaiting'[t] \in Category
<1> USE DEF TypeOK, RowsOK
<1>1. ASSUME NEW a \in Advancer, NEW s \in Task, Park(a, s)
      PROVE  awaiting'[t] \in Category
  <2>1. CASE s = t
    BY <1>1, <2>1 DEF Park
  <2>2. CASE s # t
    BY <1>1, <2>2 DEF Park, Asked
  <2> QED
    BY <2>1, <2>2
<1>2. CASE status[t] # "waiting_approval"
  BY <1>1, <1>2, WaitingBegins
<1>3. CASE status[t] = "waiting_approval" /\ UNCHANGED awaiting
  BY <1>3 DEF Asked
<1>4. ASSUME NEW r \in Request, Answer(r) PROVE UNCHANGED awaiting
  BY <1>4 DEF Answer, Decide, ApplyApproval, ApplyRejection, CancelDownstream,
     AdvanceAfter
<1>5. UNCHANGED awaiting \/ \E a \in Advancer, s \in Task : Park(a, s)
  BY <1>4, RequestFrame DEF Ask, Crash
<1> QED
  BY <1>1, <1>2, <1>3, <1>5

LEMMA AskedStep == TypeOK /\ Asked /\ [Next]_vars => Asked'
<1> SUFFICES ASSUME TypeOK, Asked, [Next]_vars PROVE Asked'
  OBVIOUS
<1>1. \A t \in Task : status'[t] = "waiting_approval" =>
         awaiting'[t] \in Category
  BY AwaitingCategory
<1>2. CASE UNCHANGED <<req, decision, reopened>>
  BY <1>1, <1>2, AskedKept
<1>3. ASSUME NEW a \in Advancer, NEW t \in Task, Park(a, t) PROVE Asked'
  BY <1>2, <1>3 DEF Park
<1>4. ASSUME NEW r \in Request, NEW t \in Task,
             NEW answer \in {"approved", "rejected"}, Ask(r, t, answer)
      PROVE  Asked'
  <2> DEFINE new == [pc |-> "decide", task |-> t, answer |-> answer,
                     category |-> awaiting[t]]
  <2>1. new.category \in Category
    BY <1>4 DEF Ask, Asked
  <2>2. req' = [req EXCEPT ![r] = new] /\ UNCHANGED <<decision, reopened>>
    BY <1>4 DEF Ask
  <2>3. ~(new.pc = "apply" /\ new.answer = "approved")
    OBVIOUS
  <2> HIDE DEF new
  <2> QED
    BY <1>1, <2>1, <2>2, <2>3, AskedMoved
<1>5. ASSUME NEW r \in Request, Decide(r) PROVE Asked'
  <2> DEFINE t == req[r].task
             c == req[r].category
  <2>1. CASE decision[t][c] # "none"
    <3>1. req' = [req EXCEPT ![r] = IdleReq] /\ UNCHANGED <<decision, reopened>>
      BY <1>5, <2>1 DEF Decide
    <3>2. IdleReq.pc = "idle"
      BY DEF IdleReq
    <3> QED
      BY <1>1, <3>1, <3>2, AskedMoved
  <2>2. CASE decision[t][c] = "none"
    <3>1. /\ req[r].pc = "decide" /\ c \in Category /\ t \in Task
          /\ req[r] \in ReqRecord
      BY <1>5 DEF Decide, Asked, TypeOK, CoroutinesOK, ReqRecord
    <3>2. /\ decision' = [decision EXCEPT ![t][c] = req[r].answer]
          /\ req' = [req EXCEPT ![r].pc = "apply"]
          /\ UNCHANGED reopened
      BY <1>5, <2>2 DEF Decide
    <3>3. /\ \A s \in Request : s # r => req'[s] = req[s]
          /\ req'[r] = [req[r] EXCEPT !.pc = "apply"]
      BY <3>2 DEF TypeOK, CoroutinesOK
    <3>4. /\ req'[r].task = t /\ req'[r].category = c
          /\ req'[r].answer = req[r].answer
      BY <3>1, <3>3 DEF ReqRecord
    <3>5. \A s \in Task, z \in Category :
             decision[s][z] = "approved" => decision'[s][z] = "approved"
      BY <2>2, <3>2 DEF TypeOK, RowsOK
    <3>6. decision'[t][c] = req[r].answer
      BY <3>1, <3>2 DEF TypeOK, RowsOK
    <3>7. decision[t][c] # "approved" /\ c \notin reopened[t]
      BY <2>2, <3>1 DEF Asked
    <3>8. \A s \in Request : s # r => (Reopening(s)' <=> Reopening(s))
      BY <3>3 DEF Reopening
    <3>9. \A s \in Request :
             s # r /\ Reopening(s) /\ req[s].task = t => req[s].category # c
      BY <3>7 DEF Asked
    <3>10. \A s \in Request : Reopening(s)' =>
              /\ decision'[req'[s].task][req'[s].category] = "approved"
              /\ req'[s].category \notin reopened'[req'[s].task]
      <4>1. ASSUME NEW s \in Request, Reopening(s)', s # r
            PROVE  /\ decision'[req'[s].task][req'[s].category] = "approved"
                   /\ req'[s].category \notin reopened'[req'[s].task]
        <5>1. /\ decision[req[s].task][req[s].category] = "approved"
              /\ req[s].category \notin reopened[req[s].task]
          BY <4>1, <3>8 DEF Asked
        <5>2. req[s].task \in Task /\ req[s].category \in Category
          BY <4>1, <3>8 DEF Asked, Reopening, TypeOK, CoroutinesOK, ReqRecord
        <5>3. req'[s] = req[s]
          BY <4>1, <3>3
        <5> QED
          BY <3>2, <3>5, <5>1, <5>2, <5>3
      <4>2. ASSUME Reopening(r)'
            PROVE  /\ decision'[req'[r].task][req'[r].category] = "approved"
                   /\ req'[r].category \notin reopened'[req'[r].task]
        <5>1. req[r].answer = "approved"
          BY <4>2, <3>4 DEF Reopening
        <5> QED
          BY <3>2, <3>4, <3>6, <3>7, <5>1
      <4> QED
        BY <4>1, <4>2
    <3>11. \A q, s \in Request :
              /\ Reopening(q)' /\ Reopening(s)' /\ q # s
              /\ req'[q].task = req'[s].task
              => req'[q].category # req'[s].category
      <4>1. ASSUME NEW q \in Request, NEW s \in Request, q # r, s # r,
                   Reopening(q)', Reopening(s)', q # s,
                   req'[q].task = req'[s].task
            PROVE  req'[q].category # req'[s].category
        <5>1. req'[q] = req[q] /\ req'[s] = req[s]
          BY <4>1, <3>3
        <5>2. Reopening(q) /\ Reopening(s)
          BY <4>1, <3>8
        <5> QED
          BY <4>1, <5>1, <5>2 DEF Asked
      <4>2. ASSUME NEW s \in Request, s # r, Reopening(s)', req'[s].task = t
            PROVE  req'[s].category # c
        <5>1. req'[s] = req[s]
          BY <4>2, <3>3
        <5> QED
          BY <4>2, <5>1, <3>8, <3>9
      <4> QED
        BY <3>4, <4>1, <4>2
    <3>12. \A s \in Request : req'[s].pc # "idle" => req'[s].category \in Category
      BY <3>1, <3>3, <3>4 DEF Asked
    <3>13. \A s \in Task : \A z \in reopened'[s] :
              z \in Category /\ decision'[s][z] = "approved"
      BY <3>2, <3>5 DEF Asked
    <3> QED
      BY <1>1, <3>10, <3>11, <3>12, <3>13 DEF Asked
  <2> QED
    BY <2>1, <2>2
<1>6. ASSUME NEW r \in Request, ApplyApproval(r) PROVE Asked'
  <2> DEFINE t == req[r].task
             c == req[r].category
  <2>1. /\ Reopening(r) /\ t \in Task /\ c \in Category
        /\ req[r] \in ReqRecord
    BY <1>6 DEF ApplyApproval, Reopening, Asked, TypeOK, CoroutinesOK, ReqRecord
  <2>2. /\ req' = [req EXCEPT ![r].pc = "advance"]
        /\ UNCHANGED decision
        /\ reopened' \in {reopened, [reopened EXCEPT ![t] = @ \cup {c}]}
    BY <1>6 DEF ApplyApproval
  <2>3. /\ \A s \in Request : s # r => req'[s] = req[s]
        /\ req'[r].pc = "advance" /\ req'[r].category = c
    BY <2>1, <2>2 DEF TypeOK, CoroutinesOK, ReqRecord
  <2>4. \A s \in Task : reopened'[s] \subseteq
           IF s = t THEN reopened[s] \cup {c} ELSE reopened[s]
    BY <2>2 DEF TypeOK, HistoryOK
  <2>5. \A s \in Request : Reopening(s)' => s # r /\ Reopening(s)
    BY <2>3 DEF Reopening
  <2>6. \A s \in Request : s # r /\ Reopening(s) /\ req[s].task = t =>
           req[s].category # c
    BY <2>1 DEF Asked
  <2>7. ASSUME NEW s \in Request, Reopening(s)'
        PROVE  /\ decision'[req'[s].task][req'[s].category] = "approved"
               /\ req'[s].category \notin reopened'[req'[s].task]
    <3>1. req'[s] = req[s] /\ s # r /\ Reopening(s)
      BY <2>3, <2>5, <2>7
    <3>3. /\ decision[req[s].task][req[s].category] = "approved"
          /\ req[s].category \notin reopened[req[s].task]
          /\ req[s].task \in Task
      BY <3>1 DEF Asked, TypeOK, CoroutinesOK, ReqRecord
    <3>2. req[s].category \notin reopened'[req[s].task]
      BY <2>4, <2>6, <3>1, <3>3
    <3> QED
      BY <2>2, <3>1, <3>2, <3>3
  <2>8. \A s \in Task : \A z \in reopened'[s] :
           z \in Category /\ decision'[s][z] = "approved"
    <3>1. decision[t][c] = "approved"
      BY <2>1 DEF Asked
    <3> QED
      BY <2>1, <2>2, <2>4, <3>1 DEF Asked
  <2>9. \A q, s \in Request :
           /\ Reopening(q)' /\ Reopening(s)' /\ q # s
           /\ req'[q].task = req'[s].task
           => req'[q].category # req'[s].category
    BY <2>3, <2>5 DEF Asked
  <2>10. \A s \in Request : req'[s].pc # "idle" => req'[s].category \in Category
    BY <2>1, <2>3 DEF Asked
  <2> QED
    BY <1>1, <2>7, <2>8, <2>9, <2>10 DEF Asked
<1>7. ASSUME NEW r \in Request, NEW pc \in {"advance", "downstream"},
             req[r].pc # "idle", req' = [req EXCEPT ![r].pc = pc],
             UNCHANGED <<decision, reopened>>
      PROVE  Asked'
  <2> DEFINE new == [req[r] EXCEPT !.pc = pc]
  <2>1. new.pc = pc /\ new.category = req[r].category
    BY DEF TypeOK, CoroutinesOK, ReqRecord
  <2>2. new.category \in Category
    BY <1>7, <2>1 DEF Asked
  <2>3. req' = [req EXCEPT ![r] = new]
    BY <1>7
  <2> HIDE DEF new
  <2> QED
    BY <1>1, <1>7, <2>1, <2>2, <2>3, AskedMoved
<1>8. ASSUME NEW r \in Request, ApplyRejection(r) PROVE Asked'
  <2>1. \E pc \in {"advance", "downstream"} : req' = [req EXCEPT ![r].pc = pc]
    BY <1>8 DEF ApplyRejection
  <2> QED
    BY <1>7, <1>8, <2>1 DEF ApplyRejection
<1>9. ASSUME NEW r \in Request, CancelDownstream(r) PROVE Asked'
  BY <1>7, <1>9 DEF CancelDownstream
<1>10. ASSUME NEW r \in Request, NEW a \in Advancer, AdvanceAfter(r, a)
       PROVE  Asked'
  <2>1. req' = [req EXCEPT ![r] = IdleReq] /\ UNCHANGED <<decision, reopened>>
    BY <1>10 DEF AdvanceAfter
  <2>2. IdleReq.pc = "idle"
    BY DEF IdleReq
  <2> QED
    BY <1>1, <2>1, <2>2, AskedMoved
<1>11. ASSUME NEW r \in Request, Answer(r) PROVE Asked'
  BY <1>5, <1>6, <1>8, <1>9, <1>10, <1>11 DEF Answer
<1>12. CASE Crash
  <2>1. \A r \in Request : req'[r].pc = "idle"
    BY <1>12 DEF Crash, IdleReq
  <2> QED
    BY <1>1, <1>12, <2>1 DEF Crash, Asked, Reopening
<1> QED
  BY <1>2, <1>3, <1>4, <1>11, <1>12, RequestFrame

-----------------------------------------------------------------------------
(***************************************************************************)
(* A yes takes effect.  While a request that may still put a task back is  *)
(* on its way, nobody holds the task and it waits for that very answer, or *)
(* is over; and no runner sets out to park on what has a yes.              *)
(***************************************************************************)

\* Until an advance begins, the rows are as they were created and nobody is
\* asked.
Fresh ==
    ~early /\ starter \in {"create", "wire"} =>
       /\ \A t \in Task : status[t] \in {"absent", "queued", "blocked"}
       /\ \A r \in Request : req[r].pc = "idle"

\* The request r may still put its task back.
Pending(r) ==
    \/ req[r].pc = "decide" /\ decision[req[r].task][req[r].category] = "none"
    \/ Reopening(r)

\* Nobody holds t, and it waits on c or is over.
Settled(t, c) ==
    /\ \A a \in Advancer : at[a][t] \notin Held
    /\ \/ status[t] \in TERMINAL
       \/ status[t] = "waiting_approval" /\ awaiting[t] = c

Trusted(t) == t \notin usurped /\ ~early

InHand ==
    \A t \in Task : Trusted(t) =>
       /\ \A r \in Request : req[r].task = t /\ Pending(r)
                             => Settled(t, req[r].category)
       /\ \A a \in Advancer, c \in Category :
             at[a][t] = c => decision[t][c] # "approved" \/ <<t, c>> \in again

LEMMA FreshStep == TypeOK /\ Quiet /\ Fresh /\ [Next]_vars => Fresh'
<1> SUFFICES ASSUME TypeOK, Quiet, Fresh, [Next]_vars,
                    ~early', starter' \in {"create", "wire"}
             PROVE  /\ \A t \in Task : status'[t] \in {"absent", "queued", "blocked"}
                    /\ \A r \in Request : req'[r].pc = "idle"
  BY DEF Fresh
<1>1. ~early
  BY HistoryGrows
<1>2. starter \in {"create", "wire"} /\ ~Crash
  <2>1. ~Crash
    BY DEF Crash
  <2> QED
    BY <2>1, WiringFrame DEF StartEmpty, CreateTask, WireTask, StartDone
<1>3. /\ \A t \in Task : status[t] \in {"absent", "queued", "blocked"}
      /\ \A r \in Request : req[r].pc = "idle"
  BY <1>1, <1>2 DEF Fresh
<1>4. \A a \in Advancer : adv[a].pc = "idle" /\ \A t \in Task : at[a][t] = "idle"
  BY <1>1, <1>2 DEF Quiet
<1>5. ASSUME NEW a \in Advancer, NEW t \in Task, RunTask(a, t) PROVE FALSE
  BY <1>4, <1>5, NamesAssumption DEF RunTask, FailUnclaimed, Claim, ClaimLost,
     PassGate, AskInside, Complete, Fail, Park
<1>6. ASSUME NEW r \in Request, Answer(r) PROVE FALSE
  BY <1>3, <1>6 DEF Answer, Decide, ApplyApproval, ApplyRejection,
     CancelDownstream, AdvanceAfter
<1>7. ASSUME NEW r \in Request, NEW t \in Task, NEW x, Ask(r, t, x) PROVE FALSE
  BY <1>3, <1>7 DEF Ask
<1>8. ASSUME NEW a \in Advancer, CancelTasks(a) PROVE FALSE
  BY <1>4, <1>8 DEF CancelTasks
<1>9. ~Recover
  BY <1>3 DEF Recover, Stuck
<1>10. ASSUME NEW s \in Task, CreateTask(s) \/ WireTask(s)
       PROVE  \A t \in Task : status'[t] \in {"absent", "queued", "blocked"}
  BY <1>3, <1>10 DEF CreateTask, WireTask, TypeOK, RowsOK
<1>11. \A t \in Task : status'[t] \in {"absent", "queued", "blocked"}
  BY <1>3, <1>5, <1>6, <1>8, <1>9, <1>10, StatusFrame DEF Answer
<1>12. UNCHANGED req
  BY <1>2, <1>5, <1>6, <1>7, RequestFrame DEF RunTask
<1> QED
  BY <1>3, <1>11, <1>12

LEMMA MarksGrow == ASSUME [Next]_vars PROVE cut \subseteq cut' /\ again \subseteq again'
<1>1. CASE StartNext
  BY <1>1 DEF StartNext, StartEmpty, CreateTask, WireTask, StartDone
<1>2. ASSUME NEW a \in Advancer, AdvanceNext(a) PROVE UNCHANGED <<cut, again>>
  BY <1>2 DEF AdvanceNext, Look, WaveDone, CancelTasks, CancelFlow, Settle,
     WriteStatus
<1>3. ASSUME NEW a \in Advancer, NEW t \in Task, RunTask(a, t)
      PROVE  UNCHANGED cut /\ again \subseteq again'
  BY <1>3 DEF RunTask, FailUnclaimed, Claim, ClaimLost, PassGate, AskInside,
     Complete, Fail, Park
<1>4. ASSUME NEW r \in Request, Answer(r) PROVE UNCHANGED <<cut, again>>
  BY <1>4 DEF Answer, Decide, ApplyApproval, ApplyRejection, CancelDownstream,
     AdvanceAfter
<1>5. CASE Owner
  BY <1>5 DEF Owner, Ask, ToggleStop
<1>6. CASE Housekeeping
  BY <1>6 DEF Housekeeping, Recover, Abandon, Resume
<1>7. CASE World
  BY <1>7 DEF World, AgeFlow, AgeTask, Crash
<1>8. CASE UNCHANGED vars
  BY <1>8 DEF vars
<1> QED
  BY <1>1, <1>2, <1>3, <1>4, <1>5, <1>6, <1>7, <1>8 DEF Next

\* A request that may put its task back did so before the step, unless the
\* owner has just been asked.
LEMMA PendingBefore ==
    ASSUME TypeOK, [Next]_vars, NEW r \in Request, Pending(r)'
    PROVE  \/ /\ Pending(r)
              /\ req'[r].task = req[r].task
              /\ req'[r].category = req[r].category
           \/ \E x \in {"approved", "rejected"} : Ask(r, req'[r].task, x)
<1> USE DEF TypeOK, CoroutinesOK
<1>1. CASE UNCHANGED <<req, decision, reopened, awaiting>>
  BY <1>1 DEF Pending, Reopening
<1>2. ASSUME NEW a \in Advancer, NEW t \in Task, Park(a, t) PROVE Pending(r)
  BY <1>2 DEF Park, Pending, Reopening
<1>3. ASSUME NEW q \in Request, Decide(q)
      PROVE  /\ Pending(r)
             /\ req'[r].task = req[r].task
             /\ req'[r].category = req[r].category
  <2>1. CASE q = r
    <3>1. decision[req[r].task][req[r].category] = "none"
      BY <1>3, <2>1 DEF Decide, Pending, Reopening, IdleReq
    <3>2. req' = [req EXCEPT ![r].pc = "apply"]
      BY <1>3, <2>1, <3>1 DEF Decide
    <3> QED
      BY <1>3, <2>1, <3>1, <3>2 DEF Decide, Pending, ReqRecord
  <2>2. CASE q # r
    <3>1. req'[r] = req[r]
      BY <1>3, <2>2 DEF Decide
    <3>2. \A t, c : decision'[t][c] = "none" => decision[t][c] = "none"
      <4>1. SUFFICES ASSUME decision' # decision
            PROVE \A t, c : decision'[t][c] = "none" => decision[t][c] = "none"
        OBVIOUS
      <4>2. /\ decision[req[q].task][req[q].category] = "none"
            /\ decision' = [decision EXCEPT ![req[q].task][req[q].category] = req[q].answer]
            /\ req[q].task \in Task
        BY <1>3, <4>1 DEF Decide, ReqRecord
      <4>3. \A t : t # req[q].task => decision'[t] = decision[t]
        BY <4>2 DEF RowsOK
      <4> QED
        BY <4>2, <4>3 DEF RowsOK
    <3> QED
      BY <3>1, <3>2 DEF Pending, Reopening
  <2> QED
    BY <2>1, <2>2
<1>4. ASSUME NEW q \in Request, NEW pc \in {"advance", "downstream"},
             \/ req' = [req EXCEPT ![q].pc = pc]
             \/ req' = [req EXCEPT ![q] = IdleReq],
             UNCHANGED decision
      PROVE  /\ Pending(r)
             /\ req'[r].task = req[r].task
             /\ req'[r].category = req[r].category
  <2>1. q # r
    BY <1>4 DEF Pending, Reopening, IdleReq, ReqRecord
  <2>2. req'[r] = req[r]
    BY <1>4, <2>1
  <2> QED
    BY <1>4, <2>2 DEF Pending, Reopening
<1>5. ASSUME NEW q \in Request, Answer(q)
      PROVE  /\ Pending(r)
             /\ req'[r].task = req[r].task
             /\ req'[r].category = req[r].category
  <2>1. ASSUME ApplyApproval(q) \/ ApplyRejection(q) \/ CancelDownstream(q)
        PROVE  /\ UNCHANGED decision
               /\ \E pc \in {"advance", "downstream"} : req' = [req EXCEPT ![q].pc = pc]
    BY <2>1 DEF ApplyApproval, ApplyRejection, CancelDownstream
  <2>2. ASSUME NEW a \in Advancer, AdvanceAfter(q, a)
        PROVE  UNCHANGED decision /\ req' = [req EXCEPT ![q] = IdleReq]
    BY <2>2 DEF AdvanceAfter
  <2> QED
    BY <1>3, <1>4, <1>5, <2>1, <2>2 DEF Answer
<1>6. ASSUME NEW q \in Request, NEW t \in Task, NEW x \in {"approved", "rejected"},
             Ask(q, t, x)
      PROVE  \/ /\ Pending(r)
                /\ req'[r].task = req[r].task
                /\ req'[r].category = req[r].category
             \/ Ask(r, req'[r].task, x)
  <2>1. CASE q = r
    BY <1>6, <2>1 DEF Ask
  <2>2. CASE q # r
    BY <1>6, <2>2 DEF Ask, Pending, Reopening
  <2> QED
    BY <2>1, <2>2
<1>7. ~Crash
  BY DEF Crash, IdleReq, Pending, Reopening
<1>8. ASSUME NEW a \in Advancer, NEW t \in Task, Park(a, t)
      PROVE  req' = req
  BY <1>8 DEF Park
<1> QED
  BY <1>1, <1>2, <1>5, <1>6, <1>7, <1>8, RequestFrame

\* A task stays settled until a yes puts it back.
LEMMA SettledStays ==
    ASSUME TypeOK, Quiet, Fresh, [Next]_vars, NEW t \in Task, NEW c, ~early',
           Settled(t, c),
           \A r \in Request : ApplyApproval(r) /\ req[r].task = t
                             => status[t] # "waiting_approval"
    PROVE  Settled(t, c)'
<1> USE DEF TypeOK, RowsOK
<1>1. "idle" \notin Held /\ "start" \notin Held
  BY NamesAssumption DEF Held
<1>2. /\ \A a \in Advancer : at[a][t] \notin Held
      /\ status[t] \in TERMINAL \/ status[t] = "waiting_approval"
  BY DEF Settled
<1>3. \A a \in Advancer : at'[a][t] \notin Held
  <2>1. ASSUME NEW b \in Advancer, NEW s \in Task, RunTask(b, s),
               NEW a \in Advancer, at'[a][t] \in Held
        PROVE  FALSE
    <3>1. \E pc : Goto(b, s, pc)
      BY <2>1 DEF RunTask, FailUnclaimed, Claim, ClaimLost, PassGate, AskInside,
         Complete, Fail, Park
    <3>2. b = a /\ s = t
      BY <1>2, <2>1, <3>1 DEF Goto, CoroutinesOK
    <3>3. ~Claim(a, t)
      BY <1>2 DEF Claim, Claimable, TERMINAL
    <3>4. Goto(a, t, "idle")
      BY <1>2, <2>1, <3>2, <3>3 DEF RunTask, FailUnclaimed, ClaimLost, PassGate,
         AskInside, Complete, Fail, Park, Held
    <3> QED
      BY <1>1, <2>1, <3>4 DEF Goto, CoroutinesOK
  <2>2. ASSUME NEW b \in Advancer, Look(b)
        PROVE  \A a \in Advancer : at'[a][t] \notin Held
    <3>1. \A a \in Advancer : at'[a][t] \in {at[a][t], "idle", "start"}
      BY <2>2 DEF Look, CoroutinesOK
    <3> QED
      BY <1>1, <1>2, <3>1
  <2>3. ASSUME Crash PROVE \A a \in Advancer : at'[a][t] \notin Held
    BY <1>1, <2>3 DEF Crash
  <2> QED
    BY <1>2, <2>1, <2>2, <2>3, AtFrame
<1>4. awaiting'[t] = awaiting[t]
  <2>1. ASSUME NEW a \in Advancer, NEW s \in Task, Park(a, s)
        PROVE  awaiting'[t] = awaiting[t]
    BY <1>2, <2>1 DEF Park, Held
  <2>2. ASSUME NEW r \in Request, Answer(r) PROVE UNCHANGED awaiting
    BY <2>2 DEF Answer, Decide, ApplyApproval, ApplyRejection, CancelDownstream,
       AdvanceAfter
  <2> QED
    BY <2>1, <2>2, RequestFrame DEF Ask, Crash
<1>5. status'[t] = status[t] \/ status'[t] \in TERMINAL
  <2>1. ASSUME NEW s \in Task, CreateTask(s) \/ WireTask(s)
        PROVE  status'[t] = status[t]
    <3>1. ~early /\ starter \in {"create", "wire"}
      BY <2>1 DEF CreateTask, WireTask
    <3>2. status[t] \in {"absent", "queued", "blocked"}
      BY <3>1 DEF Fresh
    <3> QED
      BY <1>2, <3>2 DEF TERMINAL
  <2>2. ASSUME NEW a \in Advancer, CancelTasks(a)
        PROVE  status'[t] \in TERMINAL \cup {"absent"}
    BY <2>2 DEF CancelTasks, TERMINAL
  <2>3. ASSUME NEW a \in Advancer, NEW s \in Task, RunTask(a, s)
        PROVE  status'[t] = status[t] \/ status'[t] \in TERMINAL
    <3>1. CASE s # t
      BY <2>3, <3>1 DEF RunTask, FailUnclaimed, Claim, ClaimLost, PassGate,
         AskInside, Complete, Fail, Park
    <3>2. CASE s = t
      <4>1. FailUnclaimed(a, t) \/ ClaimLost(a, t)
        BY <1>2, <2>3, <3>2 DEF RunTask, Claim, PassGate, AskInside, Complete,
           Fail, Park, Held, Claimable, TERMINAL
      <4> QED
        BY <4>1 DEF FailUnclaimed, ClaimLost, TERMINAL
    <3> QED
      BY <3>1, <3>2
  <2>4. ASSUME NEW r \in Request,
               ApplyApproval(r) \/ ApplyRejection(r) \/ CancelDownstream(r)
        PROVE  status'[t] = status[t] \/ status'[t] \in TERMINAL
    <3>1. CASE ApplyApproval(r)
      BY <3>1 DEF ApplyApproval
    <3>2. CASE ApplyRejection(r)
      BY <3>2 DEF ApplyRejection, TERMINAL
    <3>3. CASE CancelDownstream(r)
      BY <3>3 DEF CancelDownstream, TERMINAL
    <3> QED
      BY <2>4, <3>1, <3>2, <3>3
  <2>5. ASSUME Recover PROVE status'[t] = status[t]
    BY <1>2, <2>5 DEF Recover, Stuck, TERMINAL
  <2>6. ASSUME NEW a \in Advancer, CancelTasks(a) PROVE status[t] # "absent"
    BY <1>2 DEF TERMINAL
  <2>7. ASSUME NEW a \in Advancer, CancelTasks(a)
        PROVE  status'[t] = status[t] \/ status'[t] \in TERMINAL
    BY <2>6, <2>7 DEF CancelTasks, TERMINAL
  <2> QED
    BY <2>1, <2>3, <2>4, <2>5, <2>7, StatusFrame
<1> QED
  BY <1>3, <1>4, <1>5 DEF Settled

\* No runner sets out to park on what already has a yes.
LEMMA InHandStep ==
    TypeOK /\ Quiet /\ Exclusive /\ Asked /\ Fresh /\ InHand /\ [Next]_vars
      => InHand'
<1> SUFFICES ASSUME TypeOK, Quiet, Exclusive, Asked, Fresh, InHand, [Next]_vars,
                    NEW t \in Task, Trusted(t)'
             PROVE  /\ \A r \in Request :
                          req'[r].task = t /\ Pending(r)'
                          => Settled(t, req[r].category)'
                    /\ \A a \in Advancer, c \in Category :
                          at'[a][t] = c =>
                             decision'[t][c] # "approved" \/ <<t, c>> \in again'
  BY DEF InHand
<1>1. Trusted(t) /\ ~early'
  BY HistoryGrows DEF Trusted
<1>2. /\ \A r \in Request : req[r].task = t /\ Pending(r)
                             => Settled(t, req[r].category)
      /\ \A a \in Advancer, c \in Category :
            at[a][t] = c => decision[t][c] # "approved" \/ <<t, c>> \in again
  BY <1>1 DEF InHand
<1>3. ASSUME NEW r \in Request, req'[r].task = t, Pending(r)'
      PROVE  Settled(t, req[r].category)'
  <2>1. CASE \E x \in {"approved", "rejected"} : Ask(r, t, x)
    <3>1. /\ status[t] = "waiting_approval" /\ UNCHANGED <<status, awaiting, at>>
          /\ req'[r].category = awaiting[t]
      BY <2>1 DEF Ask, TypeOK, CoroutinesOK
    <3>2. \A a \in Advancer : at[a][t] \notin Held
      BY <1>1, <3>1 DEF Exclusive, Trusted
    <3> QED
      BY <3>1, <3>2 DEF Settled
  <2>2. CASE ~\E x \in {"approved", "rejected"} : Ask(r, t, x)
    <3>1. /\ Pending(r) /\ req[r].task = t
          /\ req'[r].category = req[r].category
      BY <1>3, <2>2, PendingBefore
    <3>2. Settled(t, req[r].category)
      BY <1>2, <3>1
    <3>3. ASSUME NEW q \in Request, ApplyApproval(q), req[q].task = t,
                 status[t] = "waiting_approval"
          PROVE  FALSE
      <4>1. Reopening(q) /\ Pending(q)
        BY <3>3 DEF ApplyApproval, Reopening, Pending
      <4>2. Settled(t, req[q].category)
        BY <1>2, <3>3, <4>1
      <4>3. req[q].category = req[r].category
        BY <3>2, <3>3, <4>2 DEF Settled, TERMINAL
      <4>4. q # r
        BY <1>3, <3>3 DEF ApplyApproval, Pending, Reopening, TypeOK, CoroutinesOK,
           ReqRecord
      <4>5. decision[t][req[r].category] = "approved"
        BY <3>3, <4>1, <4>3 DEF Asked
      <4>6. Reopening(r)
        BY <3>1, <4>5 DEF Pending
      <4> QED
        BY <3>1, <3>3, <4>1, <4>3, <4>4, <4>6 DEF Asked
    <3>4. PICK c : c = req[r].category
      OBVIOUS
    <3>5. Settled(t, c)'
      BY <1>1, <3>2, <3>3, <3>4, SettledStays
    <3> QED
      BY <3>1, <3>4, <3>5
  <2> QED
    BY <2>1, <2>2
<1>4. ASSUME NEW a \in Advancer, NEW c \in Category, at'[a][t] = c
      PROVE  decision'[t][c] # "approved" \/ <<t, c>> \in again'
  <2>1. CASE at[a][t] = c
    <3>1. CASE UNCHANGED decision
      BY <1>2, <2>1, <3>1, MarksGrow
    <3>2. ASSUME NEW r \in Request, Decide(r), decision' # decision,
                 decision'[t][c] = "approved", decision[t][c] # "approved"
          PROVE  FALSE
      <4>1. /\ decision[req[r].task][req[r].category] = "none"
            /\ decision' = [decision EXCEPT ![req[r].task][req[r].category] = req[r].answer]
            /\ req[r].pc = "decide"
        BY <3>2 DEF Decide
      <4>2. req[r].task = t /\ Pending(r)
        BY <3>2, <4>1 DEF Pending, TypeOK, RowsOK
      <4>3. at[a][t] \notin Held
        BY <1>2, <4>2 DEF Settled
      <4> QED
        BY <2>1, <4>3 DEF Held
    <3> QED
      BY <1>2, <2>1, <3>1, <3>2, DecisionFrame, MarksGrow
  <2>2. CASE at[a][t] # c
    <3>1. PICK b \in Advancer, s \in Task : RunTask(b, s)
      <4>1. \A b \in Advancer : Look(b) => at'[a][t] \in {at[a][t], "idle", "start"}
        BY DEF Look, TypeOK, CoroutinesOK
      <4>2. Crash => at'[a][t] = "idle"
        BY DEF Crash
      <4>3. c \notin {"idle", "start"}
        BY NamesAssumption
      <4> QED
        BY <1>4, <2>2, <4>1, <4>2, <4>3, AtFrame
    <3>2. \A pc : Goto(b, s, pc) => b = a /\ s = t /\ pc = c
      BY <1>4, <2>2 DEF Goto, TypeOK, CoroutinesOK
    <3>3. c \notin {"idle", "gate", "work"}
      BY NamesAssumption
    <3>4. CASE PassGate(b, s)
      <4>1. c \in Unanswered(t) /\ UNCHANGED decision
        BY <3>2, <3>3, <3>4 DEF PassGate
      <4> QED
        BY <4>1 DEF Unanswered
    <3>5. CASE AskInside(b, s)
      BY <3>2, <3>5 DEF AskInside
    <3> QED
      BY <3>1, <3>2, <3>3, <3>4, <3>5 DEF RunTask, FailUnclaimed, Claim, ClaimLost,
         Complete, Fail, Park
  <2> QED
    BY <2>1, <2>2
<1> QED
  BY <1>3, <1>4

LEMMA UnderWayStep ==
    TypeOK /\ InHand /\ YesIsUnderWay /\ [Next]_vars => YesIsUnderWay'
<1> SUFFICES ASSUME TypeOK, InHand, YesIsUnderWay, [Next]_vars,
                    NEW t \in Task, NEW c \in Category, Stranded(t, c)'
             PROVE  <<t, c>> \in Applying'
  BY DEF YesIsUnderWay
<1> DEFINE Holds(r) == Reopening(r) /\ req[r].task = t /\ req[r].category = c
<1>1. /\ decision'[t][c] = "approved" /\ status'[t] = "waiting_approval"
      /\ awaiting'[t] = c /\ <<t, c>> \notin cut' \cup again'
      /\ t \notin usurped' /\ ~early'
  BY DEF Stranded
<1>2. Trusted(t) /\ <<t, c>> \notin cut \cup again
  BY <1>1, HistoryGrows, MarksGrow DEF Trusted
<1>3. ASSUME NEW r \in Request, Holds(r)' PROVE <<t, c>> \in Applying'
  BY <1>3 DEF Applying, Reopening
<1>4. ASSUME NEW a \in Advancer, Park(a, t) PROVE FALSE
  <2>1. at[a][t] = c /\ UNCHANGED <<decision, again>>
    BY <1>1, <1>4 DEF Park, TypeOK, RowsOK
  <2> QED
    BY <1>1, <1>2, <2>1 DEF InHand
<1>5. CASE decision[t][c] # "approved"
  <2>1. PICK r \in Request : Decide(r) /\ decision' # decision
    BY <1>1, <1>5, DecisionFrame
  <2>2. /\ decision' = [decision EXCEPT ![req[r].task][req[r].category] = req[r].answer]
        /\ req' = [req EXCEPT ![r].pc = "apply"]
    BY <2>1 DEF Decide
  <2>3. req[r].task = t /\ req[r].category = c /\ req[r].answer = "approved"
    BY <1>1, <1>5, <2>2 DEF TypeOK, RowsOK
  <2>4. Holds(r)'
    BY <2>2, <2>3 DEF Reopening, TypeOK, CoroutinesOK, ReqRecord
  <2> QED
    BY <1>3, <2>4
<1>6. CASE decision[t][c] = "approved"
  <2>1. status[t] = "waiting_approval"
    BY <1>1, <1>4, WaitingBegins
  <2>2. awaiting[t] = c
    <3>1. ASSUME NEW a \in Advancer, NEW s \in Task, Park(a, s)
          PROVE  awaiting'[t] = awaiting[t]
      BY <1>4, <3>1 DEF Park, TypeOK, RowsOK
    <3>2. ASSUME NEW r \in Request, Answer(r) PROVE UNCHANGED awaiting
      BY <3>2 DEF Answer, Decide, ApplyApproval, ApplyRejection,
         CancelDownstream, AdvanceAfter
    <3> QED
      BY <1>1, <3>1, <3>2, RequestFrame DEF Ask, Crash
  <2>3. PICK r \in Request : Holds(r)
    <3>1. <<t, c>> \in Applying
      BY <1>2, <1>6, <2>1, <2>2 DEF YesIsUnderWay, Stranded, Trusted
    <3> QED
      BY <3>1 DEF Applying, Reopening
  <2>4. ~Crash
    <3>1. <<t, c>> \in Applying
      BY <1>2, <1>6, <2>1, <2>2 DEF YesIsUnderWay, Stranded, Trusted
    <3> QED
      BY <1>1, <3>1 DEF Crash
  <2>5. ~ApplyApproval(r)
    BY <1>1, <2>1, <2>3 DEF ApplyApproval, TypeOK, RowsOK
  <2>6. req'[r] = req[r]
    <3>1. req[r].pc = "apply" /\ req[r].answer = "approved"
      BY <2>3 DEF Reopening
    <3>2. ASSUME NEW q \in Request, Answer(q) PROVE req'[r] = req[r]
      <4>1. CASE q = r
        BY <2>5, <3>1, <3>2, <4>1 DEF Answer, Decide, ApplyRejection,
           CancelDownstream, AdvanceAfter
      <4>2. CASE q # r
        BY <3>2, <4>2 DEF Answer, Decide, ApplyApproval, ApplyRejection,
           CancelDownstream, AdvanceAfter, TypeOK, CoroutinesOK
      <4> QED
        BY <4>1, <4>2
    <3>3. ASSUME NEW q \in Request, NEW s \in Task, NEW x, Ask(q, s, x)
          PROVE  req'[r] = req[r]
      BY <3>1, <3>3 DEF Ask
    <3>4. ASSUME NEW a \in Advancer, NEW s \in Task, Park(a, s)
          PROVE  req'[r] = req[r]
      BY <3>4 DEF Park
    <3> QED
      BY <2>4, <3>2, <3>3, <3>4, RequestFrame
  <2>7. Holds(r)'
    BY <2>3, <2>6 DEF Reopening
  <2> QED
    BY <1>3, <2>7
<1> QED
  BY <1>5, <1>6

\* The owner's yes takes effect: a task that waits on a yes it already has is
\* about to be put back by the request that kept it, unless the process died
\* in between, the task's own function asked again, or it had two runners.
THEOREM YesIsUnderWayHolds == Spec => []YesIsUnderWay
<1>1. Init => Quiet /\ Exclusive /\ Asked /\ Fresh /\ InHand /\ YesIsUnderWay
  <2> SUFFICES ASSUME Init
               PROVE  Quiet /\ Exclusive /\ Asked /\ Fresh /\ InHand /\ YesIsUnderWay
    OBVIOUS
  <2>1. Quiet /\ Exclusive
    BY NamesAssumption DEF Init, Quiet, Exclusive, Held, IdleAdv
  <2>2. Asked /\ Fresh /\ YesIsUnderWay
    BY DEF Init, Asked, Fresh, YesIsUnderWay, Stranded, Reopening, IdleReq
  <2>3. InHand
    BY NamesAssumption DEF Init, InHand, Pending, Reopening, IdleReq
  <2> QED
    BY <2>1, <2>2, <2>3
<1> QED
  BY <1>1, QuietStep, ExclusiveStep, AskedStep, FreshStep, InHandStep,
     UnderWayStep, TypeCorrect, PTL DEF Spec

-----------------------------------------------------------------------------
(* How often a task is claimed *)

\* A claimable task has one more claim to come.
Owed(t) == IF status[t] \in Claimable THEN 1 ELSE 0

\* A task that was wired after an advance began may be claimed once more.
Rewired(t) == IF early /\ deps[t] # {} THEN 1 ELSE 0

Counted ==
    /\ \A t \in Task :
          attempts[t] + Owed(t) <=
             MaxAttempts + Cardinality(reopened[t]) + Rewired(t)
    /\ \A t \in Task : status[t] = "absent" => attempts[t] = 0
    /\ ~early /\ starter \in {"create", "wire"} =>
          \A t \in Task : attempts[t] = 0

\* What a step does to the claims of a task.
LEMMA ClaimMoves ==
    ASSUME TypeOK, [Next]_vars, NEW t \in Task
    PROVE  \/ /\ attempts'[t] = attempts[t]
              /\ status'[t] \in Claimable => status[t] \in Claimable
           \/ /\ attempts'[t] = attempts[t] + 1
              /\ status[t] \in Claimable /\ status'[t] \notin Claimable
           \/ attempts'[t] = attempts[t] /\ attempts[t] < MaxAttempts
           \/ CreateTask(t) \/ WireTask(t)
           \/ \E r \in Request : /\ ApplyApproval(r) /\ req[r].task = t
                                 /\ status[t] = "waiting_approval"
<1> USE DEF TypeOK, RowsOK
<1>1. attempts'[t] = attempts[t] \/ \E a \in Advancer : Claim(a, t)
  BY AttemptsFrame DEF Claim
<1>2. ASSUME NEW a \in Advancer, Claim(a, t)
      PROVE  /\ attempts'[t] = attempts[t] + 1
             /\ status[t] \in Claimable /\ status'[t] \notin Claimable
  BY <1>2 DEF Claim, Claimable
<1>3. CASE UNCHANGED status
  BY <1>1, <1>2, <1>3
<1>4. ASSUME NEW s \in Task, CreateTask(s) \/ WireTask(s), s # t
      PROVE  UNCHANGED attempts /\ status'[t] = status[t]
  BY <1>4 DEF CreateTask, WireTask
<1>5. ASSUME NEW a \in Advancer, CancelTasks(a)
      PROVE  status'[t] \in Claimable => status[t] \in Claimable
  BY <1>5 DEF CancelTasks, Claimable
<1>6. ASSUME NEW a \in Advancer, NEW s \in Task, RunTask(a, s)
      PROVE  \/ status'[t] \in Claimable => status[t] \in Claimable
             \/ attempts[t] < MaxAttempts
  <2>1. CASE s # t
    BY <1>6, <2>1 DEF RunTask, FailUnclaimed, Claim, ClaimLost, PassGate, AskInside,
       Complete, Fail, Park
  <2>2. CASE Fail(a, t)
    BY <2>2, CountsAssumption DEF Fail, Claimable
  <2>3. CASE s = t /\ ~Fail(a, t)
    BY <1>6, <2>3 DEF RunTask, FailUnclaimed, Claim, ClaimLost, PassGate, AskInside,
       Complete, Park, Claimable
  <2> QED
    BY <1>6, <2>1, <2>2, <2>3
<1>7. ASSUME NEW r \in Request,
             ApplyApproval(r) \/ ApplyRejection(r) \/ CancelDownstream(r)
      PROVE  \/ status'[t] \in Claimable => status[t] \in Claimable
             \/ /\ ApplyApproval(r) /\ req[r].task = t
                /\ status[t] = "waiting_approval"
  BY <1>7 DEF ApplyApproval, ApplyRejection, CancelDownstream, Claimable
<1>8. ASSUME Recover
      PROVE  \/ status'[t] \in Claimable => status[t] \in Claimable
             \/ attempts[t] < MaxAttempts
  BY <1>8 DEF Recover, Claimable
<1> QED
  BY <1>1, <1>2, <1>3, <1>4, <1>5, <1>6, <1>7, <1>8, StatusFrame

\* What a step does to the bound: yeses are kept, and so is a late wiring.
LEMMA BoundGrows ==
    ASSUME TypeOK, TypeOK', Asked, Asked', Wired, [Next]_vars, NEW t \in Task
    PROVE  /\ Cardinality(reopened[t]) \in Nat
           /\ Cardinality(reopened'[t]) \in Nat
           /\ Cardinality(reopened[t]) <= Cardinality(reopened'[t])
           /\ Rewired(t) \in {0, 1} /\ Rewired(t)' \in {0, 1}
           /\ Rewired(t) <= Rewired(t)'
<1>1. reopened[t] \subseteq Category /\ reopened'[t] \subseteq Category
  BY DEF Asked
<1>2. IsFiniteSet(reopened[t]) /\ IsFiniteSet(reopened'[t])
  BY <1>1, PlanAssumption, FS_Subset
<1>3. reopened[t] \subseteq reopened'[t]
  <2>1. ASSUME NEW r \in Request, Answer(r) PROVE reopened[t] \subseteq reopened'[t]
    <3>1. reopened \in [Task -> SUBSET (Category \cup {NoCategory})]
      BY DEF TypeOK, HistoryOK
    <3>2. ASSUME NEW a \in Advancer, AdvanceAfter(r, a) PROVE UNCHANGED reopened
      BY <3>2 DEF AdvanceAfter
    <3>3. CASE ApplyApproval(r)
      BY <3>1, <3>3 DEF ApplyApproval
    <3>4. CASE Decide(r) \/ ApplyRejection(r) \/ CancelDownstream(r)
      BY <3>4 DEF Decide, ApplyRejection, CancelDownstream
    <3> QED
      BY <2>1, <3>2, <3>3, <3>4 DEF Answer
  <2> QED
    BY <2>1, RequestFrame DEF Park, Ask, Crash
<1>4. deps[t] # {} => deps'[t] # {}
  <2>1. ASSUME NEW s \in Task, CreateTask(s) \/ WireTask(s)
        PROVE  deps[t] # {} => deps'[t] # {}
    BY <2>1 DEF CreateTask, WireTask, Unwired, TypeOK, RowsOK
  <2> QED
    BY <2>1, WiringFrame DEF StartDone
<1>5. early => early'
  BY HistoryGrows
<1> QED
  BY <1>2, <1>3, <1>4, <1>5, FS_Subset, FS_CardinalityType DEF Rewired

LEMMA CountedStep ==
    TypeOK /\ Quiet /\ Wired /\ Asked /\ Counted /\ [Next]_vars => Counted'
<1> SUFFICES ASSUME TypeOK, TypeOK', Quiet, Wired, Asked, Asked', Counted,
                    [Next]_vars
             PROVE  Counted'
  BY TypeStep, AskedStep
<1>1. ASSUME NEW t \in Task
      PROVE  attempts'[t] + Owed(t)' <=
                MaxAttempts + Cardinality(reopened'[t]) + Rewired(t)'
  <2> DEFINE n == Cardinality(reopened[t])
             m == Cardinality(reopened'[t])
  <2>1. /\ n \in Nat /\ m \in Nat /\ n <= m
        /\ Rewired(t) \in {0, 1} /\ Rewired(t)' \in {0, 1}
        /\ Rewired(t) <= Rewired(t)'
    BY BoundGrows
  <2>2. /\ attempts[t] \in Nat /\ attempts'[t] \in Nat
        /\ MaxAttempts \in Nat /\ MaxAttempts >= 1
        /\ Owed(t) \in {0, 1} /\ Owed(t)' \in {0, 1}
    BY CountsAssumption DEF TypeOK, RowsOK, Owed
  <2>3. attempts[t] + Owed(t) <= MaxAttempts + n + Rewired(t)
    BY DEF Counted
  <2> HIDE DEF n, m
  <2>4. CASE /\ attempts'[t] = attempts[t]
             /\ status'[t] \in Claimable => status[t] \in Claimable
    <3>1. Owed(t)' <= Owed(t)
      BY <2>4 DEF Owed
    <3> QED
      BY <2>1, <2>2, <2>3, <2>4, <3>1 DEF m
  <2>5. CASE /\ attempts'[t] = attempts[t] + 1
             /\ status[t] \in Claimable /\ status'[t] \notin Claimable
    <3>1. Owed(t) = 1 /\ Owed(t)' = 0
      BY <2>5 DEF Owed
    <3> QED
      BY <2>1, <2>2, <2>3, <2>5, <3>1 DEF m
  <2>6. CASE attempts'[t] = attempts[t] /\ attempts[t] < MaxAttempts
    BY <2>1, <2>2, <2>6 DEF m
  <2>7. CASE CreateTask(t)
    <3>1. attempts[t] = 0 /\ attempts'[t] = 0
      BY <2>7 DEF CreateTask, Counted
    <3> QED
      BY <2>1, <2>2, <3>1 DEF m
  <2>8. CASE WireTask(t)
    <3>1. attempts'[t] = attempts[t] /\ starter = "wire" /\ t \in Unwired
          /\ UNCHANGED early
      BY <2>8 DEF WireTask
    <3>2. CASE ~early
      <4>1. attempts[t] = 0
        BY <3>1, <3>2 DEF Counted
      <4> QED
        BY <2>1, <2>2, <3>1, <4>1 DEF m
    <3>3. CASE early
      <4>1. Rewired(t) = 0
        BY <3>1 DEF Unwired, Rewired
      <4>2. Rewired(t)' = 1
        BY <2>8, <3>1, <3>3 DEF WireTask, Unwired, Rewired, TypeOK, RowsOK
      <4> QED
        BY <2>1, <2>2, <2>3, <3>1, <4>1, <4>2 DEF m
    <3> QED
      BY <3>2, <3>3
  <2>9. ASSUME NEW r \in Request, ApplyApproval(r), req[r].task = t,
               status[t] = "waiting_approval"
        PROVE  attempts'[t] + Owed(t)' <= MaxAttempts + m + Rewired(t)'
    <3>1. UNCHANGED attempts /\ Owed(t) = 0
      BY <2>9 DEF ApplyApproval, Owed, Claimable
    <3>2. /\ reopened'[t] = reopened[t] \cup {req[r].category}
          /\ req[r].category \notin reopened[t]
      BY <2>9 DEF ApplyApproval, Asked, Reopening, TypeOK, HistoryOK
    <3>3. IsFiniteSet(reopened[t])
      <4>1. reopened[t] \subseteq Category
        BY DEF Asked
      <4> QED
        BY <4>1, PlanAssumption, FS_Subset
    <3>4. m = n + 1
      BY <3>2, <3>3, FS_AddElement DEF m, n
    <3> QED
      BY <2>1, <2>2, <2>3, <3>1, <3>4
  <2> QED
    BY <2>4, <2>5, <2>6, <2>7, <2>8, <2>9, ClaimMoves DEF m
<1>2. ASSUME NEW a \in Advancer, NEW t \in Task, Claim(a, t)
      PROVE  /\ status[t] # "absent"
             /\ starter = "done" \/ early
  <2>1. at[a][t] = "start" /\ status[t] \in Claimable
    BY <1>2 DEF Claim
  <2>2. adv[a].pc # "idle"
    BY <2>1 DEF Quiet
  <2> QED
    BY <2>1, <2>2 DEF Quiet, Claimable
<1>3. ASSUME NEW t \in Task, status'[t] = "absent" PROVE attempts'[t] = 0
  <2>1. status[t] = "absent" /\ attempts[t] = 0
    BY <1>3, StatusMoves DEF Counted
  <2> QED
    BY <1>2, <2>1, AttemptsFrame DEF Claim, TypeOK, RowsOK
<1>4. ASSUME ~early', starter' \in {"create", "wire"}
      PROVE  \A t \in Task : attempts'[t] = 0
  <2>1. ~early
    BY <1>4, HistoryGrows
  <2>2. starter \in {"create", "wire"}
    <3>1. CASE \E a \in Advancer : StartDone(a)
      BY <1>4, <3>1 DEF StartDone
    <3>2. CASE StartEmpty \/ Crash
      BY <1>4, <3>2 DEF StartEmpty, Crash
    <3>3. CASE \E t \in Task : CreateTask(t) \/ WireTask(t)
      BY <3>3 DEF CreateTask, WireTask
    <3> QED
      BY <1>4, <3>1, <3>2, <3>3, WiringFrame
  <2> QED
    BY <1>2, <2>1, <2>2, AttemptsFrame DEF Counted
<1> QED
  BY <1>1, <1>3, <1>4 DEF Counted

LEMMA CountInvariant == Spec => [](Asked /\ Counted)
<1>1. Init => Asked
  BY DEF Init, Asked, Reopening, IdleReq
<1>2. Init => Counted
  <2> SUFFICES ASSUME Init PROVE Counted
    OBVIOUS
  <2>1. ASSUME NEW t \in Task
        PROVE  /\ attempts[t] = 0 /\ Owed(t) = 0 /\ Rewired(t) = 0
               /\ Cardinality(reopened[t]) = 0
    BY FS_EmptySet DEF Init, Owed, Rewired, Claimable
  <2> QED
    BY <2>1, CountsAssumption DEF Counted
<1> QED
  BY <1>1, <1>2, AskedStep, CountedStep, OrderInvariant, TypeCorrect, PTL
  DEF Spec

\* However retries, recoveries and approvals follow each other, a task is
\* claimed at most max_attempts times and once more for each category that
\* was approved (tasks.claim, tasks.fail).
THEOREM AttemptsBoundedHolds == Spec => []AttemptsBounded
<1>1. TypeOK /\ Wired /\ Asked /\ Counted => AttemptsBounded
  <2> SUFFICES ASSUME TypeOK, Wired, Asked, Counted, NEW t \in Task
               PROVE  attempts[t] <=
                         MaxAttempts + Cardinality(Approved(t)) + Slack(t)
    BY DEF AttemptsBounded
  <2>1. Approved(t) \subseteq Category /\ reopened[t] \subseteq Approved(t)
    BY DEF Asked, Approved
  <2>2. IsFiniteSet(Approved(t))
    BY <2>1, PlanAssumption, FS_Subset
  <2>3. /\ Cardinality(reopened[t]) \in Nat /\ Cardinality(Approved(t)) \in Nat
        /\ Cardinality(reopened[t]) <= Cardinality(Approved(t))
    BY <2>1, <2>2, FS_Subset, FS_CardinalityType
  <2>4. /\ Rewired(t) \in {0, 1} /\ Slack(t) \in {0, 1}
        /\ Rewired(t) <= Slack(t)
    BY DEF Rewired, Slack, Wired
  <2>5. attempts[t] \in Nat /\ Owed(t) \in {0, 1} /\ MaxAttempts \in Nat
    BY CountsAssumption DEF TypeOK, RowsOK, Owed
  <2>6. attempts[t] + Owed(t) <=
           MaxAttempts + Cardinality(reopened[t]) + Rewired(t)
    BY DEF Counted
  <2> QED
    BY <2>3, <2>4, <2>5, <2>6
<1> QED
  BY <1>1, CountInvariant, OrderInvariant, TypeCorrect, PTL

-----------------------------------------------------------------------------
(* The engine implements GatedWork *)

\* Begin work, or end it: the other steps leave the promise's state alone.
LEMMA WorkFrame ==
    ASSUME TypeOK, [Next]_vars
    PROVE  \/ Working' \subseteq Working
           \/ \E t \in Task : /\ Needs[t] \subseteq Approved(t)
                            /\ Working' = Working \cup {t}
                            /\ UNCHANGED <<decision, attempts>>
<1>1. CASE \E a \in Advancer, t \in Task : PassGate(a, t)
  <2>1. PICK a \in Advancer, t \in Task : PassGate(a, t)
    BY <1>1
  <2>2. CASE at'[a][t] = "work"
    <3>1. /\ \A b \in Advancer, s \in Task :
                (b # a \/ s # t) => at'[b][s] = at[b][s]
          /\ at[a][t] = "gate"
      BY <2>1 DEF PassGate, Goto, TypeOK, CoroutinesOK
    <3>2. Needs[t] \subseteq Approved(t)
      BY <2>2, <3>1, WorkBegins
    <3>3. Working' = Working \cup {t}
      BY <2>2, <3>1 DEF Working
    <3> QED
      BY <2>1, <3>2, <3>3 DEF PassGate
  <2>3. CASE at'[a][t] # "work"
    BY <2>1, <2>3 DEF PassGate, Goto, Working, TypeOK, CoroutinesOK
  <2> QED
    BY <2>2, <2>3
<1>2. CASE ~\E a \in Advancer, t \in Task : PassGate(a, t)
  <2>1. ASSUME NEW a \in Advancer, NEW t \in Task, at'[a][t] = "work"
        PROVE  at[a][t] = "work"
    <3>1. ASSUME NEW b \in Advancer, Look(b) PROVE at[a][t] = "work"
      BY <2>1, <3>1 DEF Look, TypeOK, CoroutinesOK
    <3>2. ASSUME NEW b \in Advancer, NEW s \in Task, RunTask(b, s)
          PROVE  at[a][t] = "work"
      <4>2. ASSUME AskInside(b, s)
            PROVE  \E c \in Category : Goto(b, s, c)
        BY <4>2, PlanAssumption DEF AskInside
      <4>3. "work" \notin Category
        BY NamesAssumption
      <4>1. \/ Goto(b, s, "idle") \/ Goto(b, s, "gate")
            \/ \E c \in Category : Goto(b, s, c)
        BY <1>2, <3>2, <4>2 DEF RunTask, FailUnclaimed, Claim, ClaimLost,
           Complete, Fail, Park
      <4> QED
        BY <2>1, <4>1, <4>2, <4>3 DEF Goto, TypeOK, CoroutinesOK
    <3>3. ~Crash
      BY <2>1 DEF Crash
    <3> QED
      BY <2>1, <3>1, <3>2, <3>3, AtFrame
  <2> QED
    BY <2>1 DEF Working
<1> QED
  BY <1>1, <1>2

LEMMA ClaimKeepsWork ==
    ASSUME TypeOK, NEW a \in Advancer, NEW t \in Task, Claim(a, t)
    PROVE  Working' = Working
<1>1. /\ \A b \in Advancer, s \in Task :
             (b # a \/ s # t) => at'[b][s] = at[b][s]
      /\ at[a][t] = "start" /\ at'[a][t] = "gate"
  BY DEF Claim, Goto, TypeOK, CoroutinesOK
<1> QED
  BY <1>1 DEF Working

\* A claim is one of the tries the promise allows.
LEMMA ClaimIsTry ==
    ASSUME TypeOK, Wired, Asked, Counted, [Next]_vars,
           NEW a \in Advancer, NEW t \in Task, Claim(a, t)
    PROVE  Promise!Try(t)
<1>1. attempts[t] < Promise!Allowed(t)
  <2> DEFINE n == Cardinality(reopened[t])
             m == Cardinality(Promise!Approved(t))
             extra == IF After[t] # {} THEN 1 ELSE 0
  <2>1. /\ Promise!Approved(t) \subseteq Category
        /\ reopened[t] \subseteq Promise!Approved(t)
    BY DEF Asked, Promise!Approved
  <2>2. n \in Nat /\ m \in Nat /\ n <= m
    BY <2>1, PlanAssumption, FS_Subset, FS_CardinalityType
  <2>3. Rewired(t) \in {0, 1} /\ extra \in {0, 1} /\ Rewired(t) <= extra
    BY DEF Rewired, Wired
  <2>4. Owed(t) = 1 /\ attempts[t] \in Nat /\ MaxAttempts \in Nat
    BY CountsAssumption DEF Claim, Owed, TypeOK, RowsOK
  <2>5. attempts[t] + Owed(t) <= MaxAttempts + n + Rewired(t)
    BY DEF Counted
  <2>6. Promise!Allowed(t) = MaxAttempts + m + extra
    <3>1. \A S : Promise!Cardinality(S) = Cardinality(S)
      BY DEF Promise!Cardinality, Cardinality
    <3> QED
      BY <3>1 DEF Promise!Allowed
  <2> HIDE DEF n, m, extra
  <2> QED
    BY <2>2, <2>3, <2>4, <2>5, <2>6
<1>2. attempts' = [attempts EXCEPT ![t] = @ + 1] /\ UNCHANGED decision
  BY DEF Claim
<1>3. UNCHANGED Working
  BY ClaimKeepsWork
<1> QED
  BY <1>1, <1>2, <1>3 DEF Promise!Try

LEMMA PromiseStep ==
    TypeOK /\ Wired /\ Asked /\ Counted /\ [Next]_vars
       => [Promise!Next]_(Promise!vars)
<1> SUFFICES ASSUME TypeOK, Wired, Asked, Counted, [Next]_vars
             PROVE  [Promise!Next]_(Promise!vars)
  OBVIOUS
<1>1. ASSUME NEW r \in Request, Decide(r) PROVE [Promise!Next]_(Promise!vars)
  <2>1. UNCHANGED <<Working, attempts>>
    BY <1>1 DEF Decide, Working
  <2>2. CASE UNCHANGED decision
    BY <2>1, <2>2 DEF Promise!vars
  <2>3. CASE ~UNCHANGED decision
    <3>1. /\ decision[req[r].task][req[r].category] = "none"
          /\ decision' = [decision EXCEPT ![req[r].task][req[r].category] =
                                             req[r].answer]
          /\ req[r].pc # "idle"
      BY <1>1, <2>3 DEF Decide
    <3>2. /\ req[r].task \in Task /\ req[r].category \in Category
          /\ req[r].answer \in {"approved", "rejected"}
      BY <3>1 DEF Asked, TypeOK, CoroutinesOK, ReqRecord
    <3>3. Promise!Answer(req[r].task, req[r].category)
      BY <2>1, <3>1, <3>2 DEF Promise!Answer
    <3> QED
      BY <3>2, <3>3 DEF Promise!Next
  <2> QED
    BY <2>2, <2>3
<1>2. ASSUME NEW a \in Advancer, NEW t \in Task, Claim(a, t)
      PROVE  [Promise!Next]_(Promise!vars)
  BY <1>2, ClaimIsTry DEF Promise!Next
<1>3. CASE UNCHANGED <<decision, attempts>>
  <2>1. CASE Working' \subseteq Working
    BY <1>3, <2>1 DEF Promise!Next, Promise!End
  <2>2. ASSUME NEW t \in Task, Needs[t] \subseteq Approved(t),
               Working' = Working \cup {t}
        PROVE  [Promise!Next]_(Promise!vars)
    <3>1. Promise!Begin(t)
      BY <1>3, <2>2 DEF Promise!Begin, Promise!Approved, Approved
    <3> QED
      BY <3>1 DEF Promise!Next
  <2> QED
    BY <2>1, <2>2, WorkFrame
<1> QED
  BY <1>1, <1>2, <1>3, DecisionFrame, AttemptsFrame

\* Whatever the scheduling, crashes and owner do, the task engine keeps the
\* promise of GatedWork.
THEOREM PromiseKept == Spec => KeepsPromise
<1>1. Init => Promise!Init
  BY DEF Init, Promise!Init, Working
<1> QED
  BY <1>1, PromiseStep, CountInvariant, OrderInvariant, TypeCorrect, PTL
  DEF Spec, KeepsPromise, Promise!Spec

=============================================================================
