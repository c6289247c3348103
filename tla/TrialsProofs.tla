---------------------------- MODULE TrialsProofs ----------------------------
(***************************************************************************)
(* What TLAPS proves of the comparison of two versions on real work, for   *)
(* any number of versions, requests, runs and trials.                      *)
(*                                                                         *)
(* The unique index keeps one trial running, always the latest row.  The   *)
(* rest holds while no request acts across another: then every request     *)
(* that holds a trial holds the running one, so only one of them sets the  *)
(* status of its versions, and nothing is measured twice or elsewhere.     *)
(***************************************************************************)
EXTENDS Trials, FiniteSetTheorems, SequenceTheorems, TLAPS

-----------------------------------------------------------------------------
(* Types *)

Tally == [runs : Nat, wins : Nat]
States == {"running", "promoted", "rejected", "abandoned"}
Verdicts == {"promote", "reject", "keep_watching", "not_enough_yet"}
Starting == {"running", "insert", "testing"}
Deciding == {"verdict", "compare", "stand_down", "activate", "disable",
             "close"}
Goes == {"stand_down", "activate", "disable", "close"}
Decisions == {"promote", "reject", "abandon"}

TrialRow == [status : States, forced : BOOLEAN, cand : Version,
             base : Version, cn : Tally, bn : Tally]
CallRow == [pc : {"idle"} \cup Starting \cup Deciding,
            op : {"none", "start"} \cup Decisions,
            v : Version \cup {None}, base : Version \cup {None},
            trial : Epoch \cup {None}, forced : BOOLEAN,
            cand : Tally, live : Tally, call : Verdicts \cup {"none"}]
WorkRow == [pc : {"idle", "version", "run"}, v : Version \cup {None}]

TypeOK ==
    /\ status \in [Version ->
                     {"active", "experimental", "testing", "disabled"}]
    /\ trials \in Seq(TrialRow) /\ Now <= MaxTrials
    /\ score \in [Version -> [Epoch -> Tally]]
    /\ call \in [Call -> CallRow]
    /\ work \in [Worker -> WorkRow]
    /\ cut \in BOOLEAN /\ crossed \in BOOLEAN

-----------------------------------------------------------------------------
(* The inductive invariant *)

\* The index on agent_trials: only the latest row can be running.
LatestRuns == \A e \in 1..Now : IsRunning(e) => e = Now

\* What the locals of a request are at each of its points.
Shape(c) ==
    /\ call[c].pc = "idle" => call[c].op = "none" /\ call[c].trial = None
    /\ call[c].pc # "idle" => call[c].v \in Version
    /\ call[c].pc \in Starting =>
          call[c].op = "start" /\ call[c].base \in Version
    /\ call[c].pc \in {"running", "insert"} => call[c].trial = None
    /\ call[c].pc = "testing" => call[c].trial \in 1..Now
    /\ call[c].pc \in Deciding =>
          /\ call[c].op \in Decisions
          /\ call[c].trial \in 1..Now
          /\ call[c].v = trials[call[c].trial].cand
    /\ call[c].pc \in Goes \ {"close"} =>
          call[c].op = IF call[c].pc = "disable" THEN "reject" ELSE "promote"
    /\ call[c].pc \in {"verdict", "compare"} => call[c].op # "abandon"

\* Unless requests crossed: a request that holds a trial holds the running
\* one; what start read is not the live version; whoever activates a version
\* has stood the others down; a decision has a verdict on its own baseline.
Handles(c) ==
    /\ call[c].trial # None => IsRunning(call[c].trial)
    /\ call[c].op = "start" => status[call[c].v] # "active"
    /\ call[c].pc = "activate" => Active \subseteq {call[c].v}
    /\ call[c].pc = "compare" => call[c].base = trials[call[c].trial].base
    /\ call[c].pc \in Goes \ {"close"} => call[c].call # "none"

\* The numbers a request carries were measured during its trial, and bear
\* out a promotion nobody forced.
Measured(c) ==
    /\ call[c].pc \in {"compare"} \cup Goes /\ call[c].op # "abandon" =>
          call[c].cand.runs <=
             score[trials[call[c].trial].cand][call[c].trial].runs
    /\ call[c].pc \in Goes /\ call[c].op # "abandon" =>
          call[c].live.runs <=
             score[trials[call[c].trial].base][call[c].trial].runs
    /\ call[c].pc \in Goes /\ call[c].op = "promote" /\ ~call[c].forced =>
          Judge(call[c].cand, call[c].live) = "promote"

CallsSound ==
    \A c \in Call : Shape(c) /\ (~crossed => Handles(c) /\ Measured(c))

OneLive == ~crossed => \A v, w \in Active : v = w

\* The version that stood down is replaced, and the candidate of a running
\* trial is live only while its promotion is being closed.
Answered ==
    ~crossed /\ ~cut =>
       /\ Active = {} => \E c \in Call : call[c].pc = "activate"
       /\ \A e \in 1..Now : IsRunning(e) /\ trials[e].cand \in Active =>
             \E c \in Call : call[c].pc = "close" /\ call[c].trial = e

IInv == /\ TypeOK /\ LatestRuns /\ CallsSound /\ OneLive /\ Answered
        /\ EvidenceKept
-----------------------------------------------------------------------------
(* Lemmas about the operators of the model *)

\* Any versions have a newest one: the smallest set without one would have one.
LEMMA HasMax ==
    ASSUME NEW S \in SUBSET Version, S # {}
    PROVE  \E x \in S : \A y \in S : x >= y
<1> DEFINE HasOne(T) == \E x \in T : \A y \in T : x >= y
           Bad == {T \in SUBSET Version : T # {} /\ ~HasOne(T)}
<1>1. IsFiniteSet(Version) /\ Version \subseteq Nat
  BY TrialsAssumption
<1>2. IsWellFoundedOn(StrictSubsetOrdering(Version), SUBSET Version)
  BY <1>1, FS_StrictSubsetOrderingWellFounded, FS_FiniteSubsetsOfFinite
<1>3. ASSUME Bad # {} PROVE FALSE
  <2>1. Bad \subseteq SUBSET Version
    OBVIOUS
  <2>2. \E T \in Bad : \A U \in Bad :
           <<U, T>> \notin StrictSubsetOrdering(Version)
    <3> HIDE DEF Bad
    <3> QED
      BY <1>2, <1>3, <2>1, WFMin
  <2>3. PICK T \in Bad : \A U \in Bad :
           <<U, T>> \notin StrictSubsetOrdering(Version)
    BY <2>2
  <2>4. PICK x \in T : TRUE
    OBVIOUS
  <2> DEFINE U == T \ {x}
  <2>5. U \notin Bad
    <3>1. U \subseteq T /\ U # T /\ U \in SUBSET Version
      OBVIOUS
    <3>2. <<U, T>> \in StrictSubsetOrdering(Version)
      <4> HIDE DEF U
      <4> QED
        BY <3>1 DEF StrictSubsetOrdering
    <3> QED
      BY <2>3, <3>2
  <2>6. CASE U = {}
    <3>1. \A y \in T : x >= y
      BY <1>1, <2>6
    <3> QED
      BY <3>1
  <2>7. CASE U # {}
    <3>1. PICK m \in U : \A y \in U : m >= y
      BY <2>5, <2>7
    <3>2. CASE m >= x
      <4>1. m \in T /\ \A y \in T : m >= y
        BY <3>1, <3>2
      <4> QED
        BY <4>1
    <3>3. CASE ~(m >= x)
      <4>1. \A y \in T : x >= y
        BY <1>1, <3>1, <3>3
      <4> QED
        BY <4>1
    <3> QED
      BY <3>2, <3>3
  <2> QED
    BY <2>6, <2>7
<1> QED
  BY <1>3

LEMMA VersionType == Version \subseteq Nat /\ None \notin Version
  BY TrialsAssumption DEF None

\* resolve answers with a live version whenever there is one.
LEMMA LiveIs ==
    /\ Live # None <=> Active # {}
    /\ Active # {} => Live \in Active /\ Live \in Version
<1>1. ASSUME Active # {} PROVE Max(Active) \in Active
  <2>1. Active \in SUBSET Version
    BY DEF Active
  <2>2. \E x \in Active : \A y \in Active : x >= y
    BY <1>1, <2>1, HasMax
  <2> QED
    BY <2>2 DEF Max
<1> QED
  BY <1>1, VersionType DEF Live, Active

LEMMA NowType ==
    ASSUME TypeOK
    PROVE  Now \in Nat /\ Now <= MaxTrials /\ 1..Now \subseteq Epoch
<1>1. Now \in Nat /\ Now <= MaxTrials /\ MaxTrials \in Nat
  BY TrialsAssumption, LenProperties DEF TypeOK, Now
<1> QED
  BY <1>1 DEF Epoch

\* running() finds the row that runs.
LEMMA RunningIs ==
    ASSUME TypeOK, LatestRuns
    PROVE  /\ Running # None => Running = Now /\ IsRunning(Running)
           /\ \A e \in 1..Now : IsRunning(e) => Running = e
<1>1. Now \in Nat
  BY NowType
<1>2. ASSUME \E e \in 1..Now : IsRunning(e)
      PROVE  Running \in 1..Now /\ IsRunning(Running)
  BY <1>2 DEF Running
<1>3. (\A e \in 1..Now : ~IsRunning(e)) => Running = None
  BY DEF Running
<1> QED
  BY <1>1, <1>2, <1>3 DEF LatestRuns

LEMMA JudgeType == \A c, b : Judge(c, b) \in Verdicts
  BY DEF Judge, Verdicts

LEMMA FreeType == Free \in CallRow
  BY DEF Free, CallRow, Nil, Tally, None

LEMMA RowType ==
    ASSUME TypeOK, NEW e \in 1..Now
    PROVE  /\ trials[e] \in TrialRow
           /\ trials[e].cand \in Version /\ trials[e].base \in Version
           /\ trials[e].status \in States
<1>1. trials[e] \in TrialRow
  BY ElementOfSeq DEF TypeOK, Now
<1> QED
  BY <1>1 DEF TrialRow

LEMMA CallType ==
    ASSUME TypeOK, NEW c \in Call
    PROVE  /\ call[c] \in CallRow
           /\ call[c].pc \in {"idle"} \cup Starting \cup Deciding
           /\ call[c].op \in {"none", "start"} \cup Decisions
           /\ call[c].v \in Version \cup {None}
           /\ call[c].base \in Version \cup {None}
           /\ call[c].trial \in Epoch \cup {None}
           /\ call[c].cand \in Tally /\ call[c].live \in Tally
           /\ call[c].call \in Verdicts \cup {"none"}
           /\ call[c].forced \in BOOLEAN
<1>1. call[c] \in CallRow
  BY DEF TypeOK
<1> QED
  BY <1>1 DEF CallRow

LEMMA ScoreType ==
    ASSUME TypeOK, NEW v \in Version, NEW e \in Epoch
    PROVE  /\ score[v][e] \in Tally
           /\ score[v][e].runs \in Nat /\ score[v][e].wins \in Nat
<1>1. score[v][e] \in Tally
  BY DEF TypeOK
<1> QED
  BY <1>1 DEF Tally

-----------------------------------------------------------------------------
(* What a step that leaves a request alone preserves of it *)

\* The rows there were keep their versions.
Kept == /\ Now <= Now'
        /\ \A e \in 1..Now : /\ trials'[e].cand = trials[e].cand
                             /\ trials'[e].base = trials[e].base

LEMMA ShapeKept ==
    ASSUME TypeOK, TypeOK', NEW d \in Call, Shape(d), call'[d] = call[d], Kept
    PROVE  Shape(d)'
<1>1. Now \in Nat /\ Now' \in Nat
  <2>1. Now' \in Nat
    BY LenProperties DEF TypeOK, Now
  <2> QED
    BY <2>1, NowType
<1>2. call[d].trial \in 1..Now => call[d].trial \in 1..Now'
  BY <1>1 DEF Kept
<1> QED
  BY <1>2 DEF Shape, Kept

LEMMA HandlesKept ==
    ASSUME TypeOK, NEW d \in Call, Shape(d), Handles(d), call'[d] = call[d],
           Kept,
           IsRunning(call[d].trial) => IsRunning(call[d].trial)',
           status'[call[d].v] = "active" => status[call[d].v] = "active",
           call[d].pc = "activate" => Active' \subseteq {call[d].v}
    PROVE  Handles(d)'
<1>1. call[d].pc = "compare" => call[d].trial \in 1..Now
  BY DEF Shape, Deciding
<1> QED
  BY <1>1 DEF Handles, Kept

LEMMA MeasuredKept ==
    ASSUME TypeOK, TypeOK', NEW d \in Call, Shape(d), Measured(d),
           call'[d] = call[d], Kept,
           \A v \in Version, e \in Epoch : score[v][e].runs <= score'[v][e].runs
    PROVE  Measured(d)'
<1>1. CASE call[d].pc \in {"compare"} \cup Goes
  <2> PICK t : t = call[d].trial
    OBVIOUS
  <2>1. t \in 1..Now /\ t \in Epoch
    BY <1>1, NowType DEF Shape, Goes, Deciding
  <2> PICK a : a = trials[t].cand
    OBVIOUS
  <2> PICK b : b = trials[t].base
    OBVIOUS
  <2>2. /\ a \in Version /\ b \in Version
        /\ a = trials'[t].cand /\ b = trials'[t].base
    BY <2>1, RowType DEF Kept
  <2>3. /\ score[a][t].runs \in Nat /\ score'[a][t].runs \in Nat
        /\ score[b][t].runs \in Nat /\ score'[b][t].runs \in Nat
        /\ score[a][t].runs <= score'[a][t].runs
        /\ score[b][t].runs <= score'[b][t].runs
    BY <2>1, <2>2 DEF TypeOK, Tally
  <2>4. call[d].cand.runs \in Nat /\ call[d].live.runs \in Nat
    BY CallType DEF Tally
  <2> QED
    BY <2>2, <2>3, <2>4 DEF Measured
<1>2. CASE call[d].pc \notin {"compare"} \cup Goes
  BY <1>2 DEF Measured
<1> QED
  BY <1>1, <1>2

-----------------------------------------------------------------------------
(* Steps of a request that change its locals alone *)

\* Such a step keeps the invariant when the request that took it is sound.
LEMMA LocalStep ==
    ASSUME IInv, NEW c \in Call, NEW r \in CallRow,
           call' = [call EXCEPT ![c] = r], UNCHANGED Rows,
           call[c].pc \notin {"activate", "close"},
           Shape(c)', ~crossed => Handles(c)' /\ Measured(c)'
    PROVE  IInv'
<1>1. /\ UNCHANGED <<status, trials, score, work, cut, crossed>>
      /\ UNCHANGED <<Now, Active>>
      /\ \A d \in Call \ {c} : call'[d] = call[d]
      /\ \A e : IsRunning(e)' = IsRunning(e)
  BY DEF Rows, Now, Active, IsRunning, IInv, TypeOK
<1>2. TypeOK'
  BY <1>1 DEF IInv, TypeOK
<1>3. LatestRuns'
  BY <1>1 DEF IInv, LatestRuns
<1>4. CallsSound'
  <2> SUFFICES ASSUME NEW d \in Call, d # c
               PROVE  Shape(d)' /\ (~crossed => Handles(d)' /\ Measured(d)')
    BY <1>1 DEF CallsSound
  <2>1. /\ Shape(d) /\ (~crossed => Handles(d) /\ Measured(d))
        /\ call'[d] = call[d] /\ TypeOK
    BY <1>1 DEF IInv, CallsSound
  <2> QED
    BY <1>1, <2>1 DEF Shape, Handles, Measured
<1>5. OneLive'
  BY <1>1 DEF IInv, OneLive
<1>6. Answered'
  BY <1>1 DEF IInv, Answered
<1>7. EvidenceKept'
  BY <1>1 DEF IInv, EvidenceKept
<1> QED
  BY <1>2, <1>3, <1>4, <1>5, <1>6, <1>7 DEF IInv

\* A request that returns is sound.
LEMMA Returns ==
    ASSUME TypeOK, NEW c \in Call, Return(c)
    PROVE  /\ call' = [call EXCEPT ![c] = Free] /\ Free \in CallRow
           /\ call'[c] = Free
           /\ Shape(c)' /\ Handles(c)' /\ Measured(c)'
<1>1. call' = [call EXCEPT ![c] = Free] /\ call'[c] = Free
  BY DEF Return, TypeOK
<1> QED
  BY <1>1, FreeType DEF Free, Shape, Handles, Measured, Starting, Deciding, Goes

LEMMA StartStep ==
    ASSUME IInv, NEW c \in Call, NEW v \in Version, Start(c, v)
    PROVE  IInv'
<1> DEFINE r == [Free EXCEPT !.op = "start", !.v = v,
                             !.pc = "running", !.base = Live]
<1>1. /\ call[c].pc = "idle" /\ Live # None /\ v # Live /\ ~crossed
      /\ call' = [call EXCEPT ![c] = r] /\ UNCHANGED Rows
  BY DEF Start, Asks
<1>2. Live \in Active /\ Live \in Version
  BY <1>1, LiveIs
<1>3. /\ r \in CallRow
      /\ r.pc = "running" /\ r.op = "start" /\ r.v = v /\ r.base = Live
      /\ r.trial = None
  BY <1>2 DEF Free, CallRow, Nil, Tally, None, Starting
<1> HIDE DEF r
<1>4. call'[c] = r
  BY <1>1 DEF IInv, TypeOK
<1>5. v \notin Active
  BY <1>1, <1>2 DEF IInv, OneLive
<1>6. status' = status
  BY <1>1 DEF Rows
<1>7. Shape(c)'
  BY <1>2, <1>3, <1>4 DEF Shape, Starting, Deciding, Goes
<1>8. Handles(c)' /\ Measured(c)'
  BY <1>3, <1>4, <1>5, <1>6 DEF Handles, Measured, Goes, Active
<1> QED
  BY <1>1, <1>3, <1>7, <1>8, LocalStep

LEMMA StartRunningStep ==
    ASSUME IInv, NEW c \in Call, StartRunning(c)
    PROVE  IInv'
<1>1. call[c].pc = "running" /\ UNCHANGED Rows
  BY DEF StartRunning
<1>2. CASE Return(c)
  BY <1>1, <1>2, Returns, LocalStep DEF IInv
<1>3. CASE Go(c, "insert")
  <2> DEFINE r == [call[c] EXCEPT !.pc = "insert"]
  <2>1. /\ r \in CallRow /\ r.pc = "insert" /\ r.op = call[c].op
        /\ r.v = call[c].v /\ r.base = call[c].base /\ r.trial = call[c].trial
    BY CallType DEF IInv, CallRow, Starting
  <2>2. call' = [call EXCEPT ![c] = r]
    BY <1>3 DEF Go
  <2> HIDE DEF r
  <2>3. call'[c] = r
    BY <2>2 DEF IInv, TypeOK
  <2>4. Shape(c) /\ (~crossed => Handles(c)) /\ status' = status
    BY <1>1 DEF IInv, CallsSound, Rows
  <2>5. Shape(c)'
    BY <1>1, <2>1, <2>3, <2>4 DEF Shape, Starting, Deciding, Goes
  <2>6. ~crossed => Handles(c)' /\ Measured(c)'
    BY <1>1, <2>1, <2>3, <2>4 DEF Shape, Handles, Measured, Goes, Starting
  <2> QED
    BY <1>1, <2>1, <2>2, <2>5, <2>6, LocalStep
<1> QED
  BY <1>2, <1>3 DEF StartRunning

LEMMA DecideStep ==
    ASSUME IInv, NEW c \in Call, NEW op \in Decisions, NEW f \in BOOLEAN,
           Decide(c, op, f)
    PROVE  IInv'
<1> DEFINE r == [Free EXCEPT !.op = op, !.forced = f, !.trial = Running,
                             !.v = trials[Running].cand,
                             !.pc = IF op = "abandon" THEN "close"
                                    ELSE "verdict"]
<1>1. /\ call[c].pc = "idle" /\ Running # None
      /\ call' = [call EXCEPT ![c] = r] /\ UNCHANGED Rows
  BY DEF Decide
<1>2. /\ Running = Now /\ IsRunning(Running)
      /\ Running \in 1..Now /\ Running \in Epoch
  BY <1>1, RunningIs, NowType DEF IInv, IsRunning
<1>3. trials[Running].cand \in Version
  BY <1>2, RowType DEF IInv
<1>4. /\ r \in CallRow
      /\ r.pc = IF op = "abandon" THEN "close" ELSE "verdict"
      /\ r.op = op /\ r.v = trials[Running].cand /\ r.trial = Running
  BY <1>2, <1>3 DEF Free, CallRow, Nil, Tally, None, Deciding, Decisions
<1> HIDE DEF r
<1>5. call'[c] = r
  BY <1>1 DEF IInv, TypeOK
<1>6. trials' = trials /\ UNCHANGED Running
  BY <1>1 DEF Rows, Running, Now, IsRunning
<1>7. Shape(c)'
  BY <1>2, <1>3, <1>4, <1>5, <1>6
     DEF Shape, Starting, Deciding, Goes, Decisions, Now
<1>8. Handles(c)' /\ Measured(c)'
  BY <1>2, <1>4, <1>5, <1>6
     DEF Handles, Measured, Goes, Decisions, IsRunning, Now
<1> QED
  BY <1>1, <1>4, <1>7, <1>8, LocalStep

LEMMA ReadVerdictStep ==
    ASSUME IInv, NEW c \in Call, ReadVerdict(c)
    PROVE  IInv'
<1> PICK b : b = IF Running = None THEN None ELSE trials[Running].base
  OBVIOUS
<1> PICK a : a = IF Running = None THEN Nil ELSE Arm(trials[Running].cand)
  OBVIOUS
<1> DEFINE r == [call[c] EXCEPT !.pc = "compare", !.base = b, !.cand = a]
<1>1. /\ call[c].pc = "verdict"
      /\ call' = [call EXCEPT ![c] = r] /\ UNCHANGED Rows
  BY DEF ReadVerdict
<1>2. Running # None => /\ Running = Now /\ IsRunning(Running)
                        /\ Running \in 1..Now /\ Running \in Epoch
  BY RunningIs, NowType DEF IInv, IsRunning
<1>3. /\ b \in Version \cup {None} /\ a \in Tally
      /\ Running # None => /\ b = trials[Now].base
                           /\ a = score[trials[Now].cand][Now]
  BY <1>2, RowType, ScoreType DEF IInv, Nil, Tally, Arm
<1>4. /\ r \in CallRow /\ r.pc = "compare" /\ r.base = b /\ r.cand = a
      /\ r.op = call[c].op /\ r.v = call[c].v /\ r.trial = call[c].trial
  BY <1>3, CallType DEF IInv, CallRow, Deciding
<1> HIDE DEF r
<1>5. call'[c] = r
  BY <1>1 DEF IInv, TypeOK
<1>6. /\ Shape(c) /\ (~crossed => Handles(c))
      /\ UNCHANGED <<status, trials, score>>
  BY <1>1 DEF IInv, CallsSound, Rows
<1>7. Shape(c)'
  BY <1>1, <1>4, <1>5, <1>6 DEF Shape, Starting, Deciding, Goes, Now
<1>8. ASSUME ~crossed PROVE Handles(c)' /\ Measured(c)'
  <2>1. call[c].trial \in 1..Now /\ call[c].op # "start"
    BY <1>1, <1>6 DEF Shape, Deciding, Decisions
  <2>2. IsRunning(call[c].trial)
    BY <1>6, <1>8, <2>1 DEF Handles, None, IsRunning
  <2>3. call[c].trial = Now /\ Running # None
    BY <2>1, <2>2, RunningIs, NowType DEF IInv, LatestRuns, None
  <2>4. Handles(c)'
    BY <1>3, <1>4, <1>5, <1>6, <2>1, <2>2, <2>3
       DEF Handles, Goes, IsRunning, Now
  <2>5. a.runs \in Nat
    BY <1>3 DEF Tally
  <2>6. Measured(c)'
    BY <1>3, <1>4, <1>5, <1>6, <2>3, <2>5 DEF Measured, Goes
  <2> QED
    BY <2>4, <2>6
<1> QED
  BY <1>1, <1>4, <1>7, <1>8, LocalStep

LEMMA GoesType ==
    ASSUME NEW r \in CallRow, NEW b \in Tally,
           NEW said \in Verdicts \cup {"none"},
           NEW n \in {"disable", "stand_down"}
    PROVE  [r EXCEPT !.live = b, !.call = said, !.pc = n] \in CallRow
  BY DEF CallRow, Deciding

LEMMA CompareStep ==
    ASSUME IInv, NEW c \in Call, Compare(c)
    PROVE  IInv'
<1> PICK b : b = IF call[c].base = None THEN Nil ELSE Arm(call[c].base)
  OBVIOUS
<1> PICK said : said = IF call[c].base = None THEN "none"
                       ELSE Judge(call[c].cand, b)
  OBVIOUS
<1> DEFINE goes == \/ call[c].op = "reject" \/ call[c].forced
                   \/ said = "promote"
<1>1. call[c].pc = "compare" /\ UNCHANGED Rows
  BY DEF Compare
<1>2. CASE ~goes
  <2>1. Return(c)
    BY <1>2 DEF Compare
  <2> QED
    BY <1>1, <2>1, Returns, LocalStep DEF IInv
<1>3. CASE goes
  <2> PICK n : n = IF call[c].op = "reject" THEN "disable" ELSE "stand_down"
    OBVIOUS
  <2> DEFINE r == [call[c] EXCEPT !.live = b, !.call = said, !.pc = n]
  <2>1. call' = [call EXCEPT ![c] = r]
    BY <1>3 DEF Compare
  <2>2. /\ Shape(c) /\ (~crossed => Handles(c) /\ Measured(c))
        /\ UNCHANGED <<status, trials, score>>
    BY <1>1 DEF IInv, CallsSound, Rows
  <2>3. /\ call[c].trial \in 1..Now /\ call[c].trial \in Epoch
        /\ call[c].op \in {"promote", "reject"}
    BY <1>1, <2>2, NowType DEF IInv, Shape, Deciding, Decisions
  <2>4. b \in Tally /\ said \in Verdicts \cup {"none"}
    BY <2>3, CallType, NowType, ScoreType, JudgeType
       DEF IInv, Nil, Tally, Arm, None, Epoch
  <2>5. /\ r \in CallRow /\ r.live = b /\ r.call = said
        /\ r.pc = IF call[c].op = "reject" THEN "disable" ELSE "stand_down"
        /\ r.op = call[c].op /\ r.v = call[c].v /\ r.trial = call[c].trial
        /\ r.cand = call[c].cand
    <3>1. n \in {"disable", "stand_down"}
      OBVIOUS
    <3>2. call[c] \in CallRow
      BY CallType DEF IInv
    <3>3. r \in CallRow
      BY <2>4, <3>1, <3>2, GoesType
    <3>4. /\ r.live = b /\ r.call = said /\ r.pc = n /\ r.op = call[c].op
          /\ r.v = call[c].v /\ r.trial = call[c].trial
          /\ r.cand = call[c].cand
      BY <3>2 DEF CallRow
    <3> QED
      BY <3>3, <3>4
  <2>6. r.forced = call[c].forced
    BY CallType, Zenon DEF IInv, CallRow
  <2> HIDE DEF r
  <2>7. call'[c] = r
    BY <2>1 DEF IInv, TypeOK
  <2>8. Shape(c)'
    BY <1>1, <2>2, <2>3, <2>5, <2>7
       DEF Shape, Starting, Deciding, Goes, Now
  <2>9. ASSUME ~crossed PROVE Handles(c)' /\ Measured(c)'
    <3>1. /\ IsRunning(call[c].trial)
          /\ call[c].base = trials[call[c].trial].base
      BY <1>1, <2>2, <2>3, <2>9 DEF Handles, None, IsRunning
    <3>2. call[c].trial = Now /\ call[c].base \in Version
      BY <2>3, <3>1, RowType DEF IInv, LatestRuns
    <3>3. said = Judge(call[c].cand, b) /\ said # "none" /\ b = Arm(call[c].base)
      BY <3>2, VersionType, JudgeType DEF Verdicts
    <3>4. Handles(c)'
      BY <2>2, <2>3, <2>5, <2>7, <3>1, <3>3
         DEF Handles, Goes, IsRunning, Now
    <3>5. b.runs \in Nat /\ b = score[trials[Now].base][Now]
      BY <2>4, <3>1, <3>2, <3>3 DEF Tally, Arm
    <3>6. call[c].op = "promote" /\ ~call[c].forced => said = "promote"
      BY <1>3
    <3>7. call[c].cand.runs <= score[trials[Now].cand][Now].runs
      BY <1>1, <2>2, <2>3, <2>9, <3>2 DEF Measured
    <3>8. Measured(c)'
      <4>1. b.runs <= b.runs
        BY <3>5
      <4> QED
        BY <2>2, <2>5, <2>6, <2>7, <3>2, <3>3, <3>5, <3>6, <3>7, <4>1
           DEF Measured, Goes
    <3> QED
      BY <3>4, <3>8
  <2> QED
    BY <1>1, <2>1, <2>5, <2>8, <2>9, LocalStep
<1> QED
  BY <1>2, <1>3

\* The index lets a trial in only when none runs.
LEMMA InsertStep ==
    ASSUME IInv, NEW c \in Call, Insert(c)
    PROVE  IInv'
<1>1. /\ call[c].pc = "insert" /\ Now < MaxTrials
      /\ UNCHANGED <<status, score, work, cut, crossed>>
  BY DEF Insert
<1>2. CASE ~Index
  <2>1. Return(c) /\ UNCHANGED Rows
    BY <1>1, <1>2 DEF Insert, Rows
  <2> QED
    BY <1>1, <2>1, Returns, LocalStep DEF IInv
<1>3. CASE Index
  <2> PICK n : n = Now + 1
    OBVIOUS
  <2> DEFINE new == [status |-> "running", forced |-> FALSE,
                     cand |-> call[c].v, base |-> call[c].base,
                     cn |-> Nil, bn |-> Nil]
             r == [call[c] EXCEPT !.pc = "testing", !.trial = n]
  <2>1. trials' = Append(trials, new) /\ call' = [call EXCEPT ![c] = r]
    BY <1>3 DEF Insert
  <2>2. /\ TypeOK /\ Shape(c) /\ (~crossed => Handles(c))
        /\ call[c].v \in Version /\ call[c].base \in Version
        /\ call[c].op = "start"
    BY <1>1 DEF IInv, CallsSound, Shape, Starting
  <2>3. new \in TrialRow
    BY <2>2 DEF TrialRow, States, Nil, Tally
  <2>4. /\ trials' \in Seq(TrialRow) /\ Now' = n
        /\ \A e \in 1..Now : trials'[e] = trials[e]
        /\ trials'[n] = new
    <3> HIDE DEF new
    <3> QED
      BY <2>1, <2>2, <2>3, AppendProperties DEF TypeOK, Now
  <2>5. /\ Now \in Nat /\ n \in Nat /\ n \in Epoch /\ n <= MaxTrials
        /\ n \in 1..n /\ 1..Now \subseteq 1..n
        /\ \A e \in 1..n : e \in 1..Now \/ e = n
        /\ Kept
    BY <1>1, <2>2, <2>4, NowType, TrialsAssumption DEF Epoch, Kept
  <2>6. \A e \in 1..Now : ~IsRunning(e)
    BY <1>3, <2>2, RunningIs DEF IInv, Index, None
  <2>7. /\ r \in CallRow /\ r.pc = "testing" /\ r.trial = n
        /\ r.op = call[c].op /\ r.v = call[c].v /\ r.base = call[c].base
    BY <2>2, <2>5, CallType DEF CallRow, Starting
  <2>8. new.status = "running" /\ new.cand = call[c].v
    OBVIOUS
  <2> HIDE DEF r, new
  <2>9. call'[c] = r /\ \A d \in Call \ {c} : call'[d] = call[d]
    BY <2>1, <2>2 DEF TypeOK
  <2>10. TypeOK'
    BY <1>1, <2>1, <2>2, <2>4, <2>5, <2>7 DEF TypeOK
  <2>11. \A e \in 1..n : IsRunning(e)' => e = n
    BY <2>4, <2>5, <2>6 DEF IsRunning
  <2>12. IsRunning(n)'
    BY <2>4, <2>5, <2>8 DEF IsRunning
  <2>13. LatestRuns'
    BY <2>4, <2>11 DEF LatestRuns
  <2>14. CallsSound'
    <3>1. Shape(c)'
      BY <2>2, <2>4, <2>5, <2>7, <2>9 DEF Shape, Starting, Deciding, Goes
    <3>2. ~crossed => Handles(c)' /\ Measured(c)'
      BY <1>1, <2>2, <2>7, <2>9, <2>12 DEF Handles, Measured, Goes
    <3>3. ASSUME NEW d \in Call, d # c
          PROVE  Shape(d)' /\ (~crossed => Handles(d)' /\ Measured(d)')
      <4>1. /\ Shape(d) /\ (~crossed => Handles(d) /\ Measured(d))
            /\ call'[d] = call[d] /\ UNCHANGED Active
        BY <1>1, <2>9, <3>3 DEF IInv, CallsSound, Active
      <4>2. IsRunning(call[d].trial) => IsRunning(call[d].trial)'
        BY <2>6 DEF IsRunning
      <4>3. \A v \in Version, e \in Epoch :
               score[v][e].runs <= score'[v][e].runs
        BY <1>1, <2>2, ScoreType
      <4>4. ~crossed => Handles(d)'
        BY <1>1, <2>2, <2>5, <4>1, <4>2, HandlesKept DEF Handles
      <4> QED
        BY <2>2, <2>5, <2>10, <4>1, <4>3, <4>4, ShapeKept, MeasuredKept
    <3> QED
      BY <1>1, <3>1, <3>2, <3>3 DEF CallsSound
  <2>15. UNCHANGED Active
    BY <1>1 DEF Active
  <2>16. OneLive'
    BY <1>1, <2>15 DEF IInv, OneLive
  <2>17. Answered'
    <3> SUFFICES ASSUME ~crossed, ~cut
                 PROVE  /\ Active = {} =>
                              \E d \in Call : call'[d].pc = "activate"
                        /\ trials'[n].cand \notin Active
      BY <1>1, <2>4, <2>11, <2>15 DEF Answered
    <3>1. Active = {} => \E d \in Call : call[d].pc = "activate"
      BY DEF IInv, Answered
    <3>2. call[c].v \notin Active
      BY <2>2 DEF Handles, Active
    <3> QED
      BY <1>1, <2>4, <2>8, <2>9, <3>1, <3>2
  <2>18. EvidenceKept'
    <3> SUFFICES ASSUME NEW e \in 1..Now, trials[e].status = "promoted",
                        ~trials[e].forced, ~crossed
                 PROVE  /\ Judge(trials[e].cn, trials[e].bn) = "promote"
                        /\ trials[e].cn.runs <= score[trials[e].cand][e].runs
                        /\ trials[e].bn.runs <= score[trials[e].base][e].runs
      BY <1>1, <2>4, <2>5, <2>8 DEF EvidenceKept
    <3> QED
      BY DEF IInv, EvidenceKept
  <2> QED
    BY <2>10, <2>13, <2>14, <2>16, <2>17, <2>18 DEF IInv
<1> QED
  BY <1>2, <1>3

-----------------------------------------------------------------------------
(* Steps of a request that set a status or close a trial *)

\* Unless requests crossed, whoever acts is alone with the running trial.
LEMMA Alone ==
    ASSUME IInv, NEW c \in Call, call[c].trial # None, Crossing(c), ~crossed'
    PROVE  /\ ~crossed /\ IsRunning(call[c].trial) /\ call[c].trial = Now
           /\ \A d \in Call \ {c} :
                 /\ call[d].trial = None
                 /\ call[d].pc \in {"idle", "running", "insert"}
                 /\ call[c].op # "start" =>
                       call[d].pc = "idle" /\ call[d].op = "none"
<1>1. /\ ~crossed /\ IsRunning(call[c].trial)
      /\ \A d \in Call \ {c} :
            /\ call[d].trial # call[c].trial
            /\ call[c].op # "start" => call[d].op # "start"
  BY DEF Crossing
<1>2. call[c].trial = Now
  BY <1>1 DEF IInv, LatestRuns, IsRunning
<1>3. ASSUME NEW d \in Call \ {c}
      PROVE  /\ call[d].trial = None
             /\ call[d].pc \in {"idle", "running", "insert"}
             /\ call[c].op # "start" =>
                   call[d].pc = "idle" /\ call[d].op = "none"
  <2>1. Shape(d) /\ Handles(d)
    BY <1>1 DEF IInv, CallsSound
  <2>2. call[d].trial = None
    BY <1>1, <1>2, <2>1 DEF Handles, IInv, LatestRuns, IsRunning
  <2>3. None \notin 1..Now
    BY NowType DEF None, IInv
  <2>4. call[d].pc \in {"idle", "running", "insert"}
    BY <2>1, <2>2, <2>3, CallType DEF IInv, Shape, Starting
  <2> QED
    BY <1>1, <2>1, <2>2, <2>4 DEF Shape, Starting
<1> QED
  BY <1>1, <1>2, <1>3

LEMMA StatusStep ==
    ASSUME IInv, NEW c \in Call, NEW r \in CallRow,
           call' = [call EXCEPT ![c] = r], call[c].trial # None, Crossing(c),
           status' \in [Version ->
                          {"active", "experimental", "testing", "disabled"}],
           UNCHANGED <<trials, score, work, cut>>,
           Shape(c)', ~crossed' => Handles(c)' /\ Measured(c)',
           call[c].op = "start" => Active' \subseteq Active,
           OneLive', Answered'
    PROVE  IInv'
<1>1. /\ \A d \in Call \ {c} : call'[d] = call[d]
      /\ \A e : IsRunning(e)' = IsRunning(e)
      /\ UNCHANGED Now /\ Kept
  BY NowType DEF IInv, TypeOK, IsRunning, Now, Kept
<1>2. TypeOK' /\ TypeOK
  <2>1. crossed' \in BOOLEAN
    BY Zenon DEF Crossing
  <2> QED
    BY <1>1, <2>1 DEF IInv, TypeOK
<1>3. LatestRuns'
  BY <1>1 DEF IInv, LatestRuns
<1>4. CallsSound'
  <2> SUFFICES ASSUME NEW d \in Call, d # c
               PROVE  Shape(d)' /\ (~crossed' => Handles(d)' /\ Measured(d)')
    BY DEF CallsSound
  <2>1. Shape(d) /\ call'[d] = call[d] /\ (~crossed => Handles(d) /\ Measured(d))
    BY <1>1 DEF IInv, CallsSound
  <2>2. Shape(d)'
    BY <1>1, <1>2, <2>1, ShapeKept
  <2>3. ASSUME ~crossed' PROVE Handles(d)' /\ Measured(d)'
    <3>1. /\ Handles(d) /\ call[d].trial = None
          /\ call[d].pc \in {"idle", "running", "insert"}
          /\ call[c].op # "start" => call[d].op = "none"
      BY <2>1, <2>3, Alone
    <3>2. call[d].op = "start" => call[d].v \in Version
      BY <2>1, <3>1 DEF Shape, Starting
    <3> QED
      BY <2>1, <3>1, <3>2 DEF Handles, Measured, Goes, Active
  <2> QED
    BY <2>2, <2>3
<1>5. EvidenceKept'
  BY <1>1 DEF IInv, EvidenceKept, Crossing
<1> QED
  BY <1>2, <1>3, <1>4, <1>5 DEF IInv

\* The request goes on to another statement of its own.
LEMMA GoType ==
    ASSUME TypeOK, NEW c \in Call, NEW n \in Deciding, Go(c, n)
    PROVE  \E r \in CallRow :
              /\ call' = [call EXCEPT ![c] = r] /\ call'[c] = r
              /\ r.pc = n /\ r.op = call[c].op /\ r.v = call[c].v
              /\ r.trial = call[c].trial /\ r.cand = call[c].cand
              /\ r.live = call[c].live /\ r.call = call[c].call
              /\ r.forced = call[c].forced
<1> DEFINE r == [call[c] EXCEPT !.pc = n]
<1>1. call[c] \in CallRow
  BY CallType
<1>2. /\ r \in CallRow
      /\ r.pc = n /\ r.op = call[c].op /\ r.v = call[c].v
      /\ r.trial = call[c].trial /\ r.cand = call[c].cand
      /\ r.live = call[c].live /\ r.call = call[c].call
  BY <1>1 DEF CallRow
<1>3. r.forced = call[c].forced
  BY <1>1, Zenon DEF CallRow
<1>4. call' = [call EXCEPT ![c] = r]
  BY DEF Go
<1> HIDE DEF r
<1>5. call'[c] = r
  BY <1>4 DEF TypeOK
<1> QED
  BY <1>2, <1>3, <1>4, <1>5

LEMMA TestingStep ==
    ASSUME IInv, NEW c \in Call, Testing(c)
    PROVE  IInv'
<1>1. /\ call[c].pc = "testing" /\ Crossing(c) /\ Return(c)
      /\ status' = [status EXCEPT ![call[c].v] = "testing"]
      /\ UNCHANGED <<trials, score, work, cut>>
  BY DEF Testing
<1>2. /\ TypeOK /\ Shape(c) /\ call[c].v \in Version /\ call[c].op = "start"
      /\ call[c].trial \in 1..Now
      /\ ~crossed => status[call[c].v] # "active"
  BY <1>1 DEF IInv, CallsSound, Shape, Starting, Handles
<1>3. call[c].trial # None
  BY <1>2, NowType DEF None
<1>4. /\ call' = [call EXCEPT ![c] = Free] /\ Free \in CallRow
      /\ Shape(c)' /\ Handles(c)' /\ Measured(c)'
  BY <1>1, <1>2, Returns
<1>5. /\ status' \in [Version ->
                        {"active", "experimental", "testing", "disabled"}]
      /\ Active' \subseteq Active
      /\ ~crossed => Active' = Active
  BY <1>1, <1>2 DEF TypeOK, Active
<1>6. OneLive'
  BY <1>5 DEF OneLive, IInv, Crossing, Testing
<1>7. Answered'
  <2> SUFFICES ASSUME ~crossed', ~cut'
               PROVE  /\ Active' = {} =>
                            \E d \in Call : call'[d].pc = "activate"
                      /\ \A e \in 1..Now : IsRunning(e)' /\ trials'[e].cand \in Active' =>
                            \E d \in Call : call'[d].pc = "close" /\ call'[d].trial = e
    BY <1>1 DEF Answered, Now
  <2>1. ~crossed /\ ~cut
    BY <1>1, <1>3, Alone
  <2>2. /\ Active = {} => \E d \in Call : call[d].pc = "activate"
        /\ \A e \in 1..Now : IsRunning(e) /\ trials[e].cand \in Active =>
              \E d \in Call : call[d].pc = "close" /\ call[d].trial = e
    BY <2>1 DEF IInv, Answered
  <2>3. \A d \in Call : call[d].pc # "testing" => call'[d] = call[d]
    BY <1>1, <1>2, <1>4 DEF TypeOK
  <2> QED
    BY <1>1, <1>5, <2>1, <2>2, <2>3 DEF IsRunning, Now
<1> QED
  BY <1>1, <1>3, <1>4, <1>5, <1>6, <1>7, StatusStep

LEMMA StandDownStep ==
    ASSUME IInv, NEW c \in Call, StandDown(c)
    PROVE  IInv'
<1>1. /\ call[c].pc = "stand_down" /\ Crossing(c) /\ Go(c, "activate")
      /\ status' = [v \in Version |->
                      IF v # call[c].v /\ status[v] = "active" THEN "disabled"
                      ELSE status[v]]
      /\ UNCHANGED <<trials, score, work, cut>>
  BY DEF StandDown
<1>2. /\ TypeOK /\ Shape(c) /\ call[c].trial \in 1..Now
      /\ call[c].op = "promote"
      /\ ~crossed => Handles(c) /\ Measured(c)
  BY <1>1 DEF IInv, CallsSound, Shape, Deciding, Goes
<1>3. call[c].trial # None
  BY <1>2, NowType DEF None
<1>4. PICK r \in CallRow :
         /\ call' = [call EXCEPT ![c] = r] /\ call'[c] = r
         /\ r.pc = "activate" /\ r.op = call[c].op /\ r.v = call[c].v
         /\ r.trial = call[c].trial /\ r.cand = call[c].cand
         /\ r.live = call[c].live /\ r.call = call[c].call
         /\ r.forced = call[c].forced
  <2>1. "activate" \in Deciding
    BY DEF Deciding
  <2> QED
    BY <1>1, <1>2, <2>1, GoType
<1>5. /\ status' \in [Version ->
                        {"active", "experimental", "testing", "disabled"}]
      /\ Active' \subseteq Active /\ Active' \subseteq {call[c].v}
  BY <1>1, <1>2 DEF TypeOK, Active
<1>6. Shape(c)'
  BY <1>1, <1>2, <1>4 DEF Shape, Starting, Deciding, Goes, Now
<1>7. ~crossed' => Handles(c)' /\ Measured(c)'
  <2> SUFFICES ASSUME ~crossed' PROVE Handles(c)' /\ Measured(c)'
    OBVIOUS
  <2>1. /\ ~crossed /\ Handles(c) /\ Measured(c)
        /\ \A e : IsRunning(e)' = IsRunning(e)
    BY <1>1, <1>2, <1>3, Alone DEF IsRunning, Now
  <2> QED
    BY <1>1, <1>2, <1>4, <1>5, <2>1 DEF Handles, Measured, Goes
<1>8. OneLive'
  BY <1>5 DEF OneLive
<1>9. Answered'
  <2> SUFFICES ASSUME ~crossed', ~cut, NEW e \in 1..Now, IsRunning(e),
                      trials[e].cand \in Active'
               PROVE  \E d \in Call :
                         call'[d].pc = "close" /\ call'[d].trial = e
    BY <1>1, <1>4 DEF Answered, Now, IsRunning
  <2>1. ~crossed /\ trials[e].cand \in Active
    BY <1>1, <1>3, <1>5, Alone
  <2>2. PICK d \in Call : call[d].pc = "close" /\ call[d].trial = e
    BY <2>1 DEF IInv, Answered
  <2> QED
    BY <1>1, <1>2, <1>4, <2>2 DEF TypeOK
<1> QED
  BY <1>1, <1>3, <1>4, <1>5, <1>6, <1>7, <1>8, <1>9, StatusStep

\* A request that has set its status closes the trial, or raises.
LEMMA ThenCloses ==
    ASSUME IInv, NEW c \in Call, call[c].pc \in {"activate", "disable"},
           ThenClose(c), Crossing(c), UNCHANGED <<trials, score>>
    PROVE  \E r \in CallRow :
              /\ call' = [call EXCEPT ![c] = r] /\ call'[c] = r
              /\ Shape(c)' /\ (~crossed' => Handles(c)' /\ Measured(c)')
              /\ ~crossed' => r.pc = "close" /\ r.trial = call[c].trial
<1>1. /\ TypeOK /\ Shape(c) /\ call[c].trial \in 1..Now
      /\ call[c].op \in {"promote", "reject"}
      /\ ~crossed => Handles(c) /\ Measured(c)
  BY DEF IInv, CallsSound, Shape, Deciding, Goes
<1>2. call[c].trial # None
  BY <1>1, NowType DEF None
<1>3. ~crossed' => ~crossed /\ call[c].call # "none" /\ IsRunning(call[c].trial)
  BY <1>1, <1>2, Alone DEF Handles, Goes
<1>4. CASE Return(c)
  <2>1. call[c].call = "none" \/ Go(c, "close")
    BY DEF ThenClose
  <2>2. call'[c].pc = "idle"
    BY <1>1, <1>4, Returns DEF Free
  <2>3. Go(c, "close") => call'[c].pc = "close"
    BY <1>1 DEF Go, TypeOK, CallRow
  <2> QED
    BY <1>1, <1>3, <1>4, <2>1, <2>2, <2>3, Returns
<1>5. CASE Go(c, "close")
  <2>1. PICK r \in CallRow :
           /\ call' = [call EXCEPT ![c] = r] /\ call'[c] = r
           /\ r.pc = "close" /\ r.op = call[c].op /\ r.v = call[c].v
           /\ r.trial = call[c].trial /\ r.cand = call[c].cand
           /\ r.live = call[c].live /\ r.call = call[c].call
           /\ r.forced = call[c].forced
    <3>1. "close" \in Deciding
      BY DEF Deciding
    <3> QED
      BY <1>1, <1>5, <3>1, GoType
  <2>2. Shape(c)'
    BY <1>1, <2>1 DEF Shape, Starting, Deciding, Goes, Now, Decisions
  <2>3. ~crossed' => Handles(c)' /\ Measured(c)'
    BY <1>1, <1>3, <2>1 DEF Handles, Measured, Goes, IsRunning, Now
  <2> QED
    BY <2>1, <2>2, <2>3
<1> QED
  BY <1>4, <1>5 DEF ThenClose

LEMMA ActivateStep ==
    ASSUME IInv, NEW c \in Call, Activate(c)
    PROVE  IInv'
<1>1. /\ call[c].pc = "activate" /\ Crossing(c) /\ ThenClose(c)
      /\ status' = [status EXCEPT ![call[c].v] = "active"]
      /\ UNCHANGED <<trials, score, work, cut>>
  BY DEF Activate
<1>2. /\ TypeOK /\ Shape(c) /\ call[c].trial \in 1..Now
      /\ call[c].op = "promote" /\ call[c].v \in Version
      /\ ~crossed => Handles(c)
  BY <1>1 DEF IInv, CallsSound, Shape, Deciding, Goes
<1>3. call[c].trial # None
  BY <1>2, NowType DEF None
<1>4. PICK r \in CallRow :
         /\ call' = [call EXCEPT ![c] = r] /\ call'[c] = r
         /\ Shape(c)' /\ (~crossed' => Handles(c)' /\ Measured(c)')
         /\ ~crossed' => r.pc = "close" /\ r.trial = call[c].trial
  BY <1>1, ThenCloses
<1>5. /\ status' \in [Version ->
                        {"active", "experimental", "testing", "disabled"}]
      /\ call[c].v \in Active' /\ Active' \subseteq Active \cup {call[c].v}
  BY <1>1, <1>2 DEF TypeOK, Active
<1>6. ~crossed' => Active \subseteq {call[c].v}
  BY <1>1, <1>2, <1>3, Alone DEF Handles
<1>7. OneLive'
  BY <1>5, <1>6 DEF OneLive
<1>8. Answered'
  <2> SUFFICES ASSUME ~crossed', NEW e \in 1..Now, IsRunning(e)
               PROVE  \E d \in Call :
                         call'[d].pc = "close" /\ call'[d].trial = e
    BY <1>1, <1>5 DEF Answered, Now, IsRunning
  <2>1. call[c].trial = e
    BY <1>3, <1>1, Alone DEF IInv, LatestRuns
  <2> QED
    BY <1>4, <2>1
<1> QED
  BY <1>1, <1>2, <1>3, <1>4, <1>5, <1>7, <1>8, StatusStep

LEMMA DisableStep ==
    ASSUME IInv, NEW c \in Call, Disable(c)
    PROVE  IInv'
<1>1. /\ call[c].pc = "disable" /\ Crossing(c) /\ ThenClose(c)
      /\ status' = [status EXCEPT ![call[c].v] = "disabled"]
      /\ UNCHANGED <<trials, score, work, cut>>
  BY DEF Disable
<1>2. /\ TypeOK /\ Shape(c) /\ call[c].trial \in 1..Now
      /\ call[c].op = "reject" /\ call[c].v = trials[call[c].trial].cand
  BY <1>1 DEF IInv, CallsSound, Shape, Deciding, Goes
<1>3. call[c].trial # None
  BY <1>2, NowType DEF None
<1>4. PICK r \in CallRow :
         /\ call' = [call EXCEPT ![c] = r] /\ call'[c] = r
         /\ Shape(c)' /\ (~crossed' => Handles(c)' /\ Measured(c)')
         /\ ~crossed' => r.pc = "close" /\ r.trial = call[c].trial
  BY <1>1, ThenCloses
<1>5. /\ status' \in [Version ->
                        {"active", "experimental", "testing", "disabled"}]
      /\ Active' = Active \ {call[c].v}
  BY <1>1, <1>2 DEF TypeOK, Active
<1>6. OneLive'
  BY <1>3, <1>1, <1>5, Alone DEF IInv, OneLive
<1>7. Answered'
  <2> SUFFICES ASSUME ~crossed', ~cut
               PROVE  /\ Active' # {}
                      /\ \A e \in 1..Now : IsRunning(e) =>
                            trials[e].cand \notin Active'
    BY <1>1 DEF Answered, Now, IsRunning
  <2>1. /\ ~crossed /\ IsRunning(call[c].trial) /\ call[c].trial = Now
        /\ \A d \in Call : call[d].pc \notin {"activate", "close"}
    BY <1>1, <1>3, Alone
  <2>2. /\ Active # {}
        /\ trials[Now].cand \notin Active
    BY <1>2, <2>1 DEF IInv, Answered
  <2>3. \A e \in 1..Now : IsRunning(e) => e = Now
    BY DEF IInv, LatestRuns
  <2> QED
    BY <1>2, <1>5, <2>1, <2>2, <2>3
<1> QED
  BY <1>1, <1>2, <1>3, <1>4, <1>5, <1>6, <1>7, StatusStep

LEMMA CloseStep ==
    ASSUME IInv, NEW c \in Call, Close(c)
    PROVE  IInv'
<1> PICK t : t = call[c].trial
  OBVIOUS
<1> PICK s : s = Outcome[call[c].op]
  OBVIOUS
<1> PICK f : f = call[c].forced
  OBVIOUS
<1> PICK a : a = call[c].cand
  OBVIOUS
<1> PICK b : b = call[c].live
  OBVIOUS
<1>1. /\ call[c].pc = "close" /\ Crossing(c) /\ Return(c)
      /\ trials' = [trials EXCEPT ![t] =
                      [trials[t] EXCEPT !.status = s, !.forced = f,
                                        !.cn = a, !.bn = b]]
      /\ UNCHANGED <<status, score, work, cut>>
  BY DEF Close
<1>2. /\ TypeOK /\ Shape(c) /\ t \in 1..Now /\ t \in Epoch
      /\ call[c].op \in Decisions
      /\ ~crossed => Handles(c) /\ Measured(c)
  BY <1>1, NowType DEF IInv, CallsSound, Shape, Deciding
<1>3. call[c].trial # None
  BY <1>2, NowType DEF None
<1>4. /\ s \in States /\ s # "running"
      /\ s = "promoted" => call[c].op = "promote"
  BY <1>2 DEF Outcome, Decisions, States
<1>5. f \in BOOLEAN /\ a \in Tally /\ b \in Tally
  BY <1>2, CallType
<1> PICK old : old = trials[t]
  OBVIOUS
<1>6. old \in TrialRow
  BY <1>2, RowType
<1> PICK new : new = [old EXCEPT !.status = s, !.forced = f,
                                 !.cn = a, !.bn = b]
  OBVIOUS
<1>7. /\ new \in TrialRow
      /\ new.status = s /\ new.cand = old.cand
      /\ new.base = old.base /\ new.cn = a /\ new.bn = b
  BY <1>4, <1>5, <1>6 DEF TrialRow
<1>8. new.forced = f
  BY <1>6, Zenon DEF TrialRow
<1>9. /\ trials' \in Seq(TrialRow) /\ Now' = Now
      /\ \A e \in 1..Now : trials'[e] = IF e = t THEN new ELSE trials[e]
  <2>1. trials' = [trials EXCEPT ![t] = new]
    BY <1>1, <1>7
  <2> QED
    BY <1>2, <1>7, <2>1, ExceptSeq DEF TypeOK, Now
<1>10. Kept /\ Now \in Nat
  <2>1. Now \in Nat /\ Now <= Now'
    BY <1>2, <1>9, NowType
  <2>2. \A e \in 1..Now : /\ trials'[e].cand = trials[e].cand
                          /\ trials'[e].base = trials[e].base
    BY <1>7, <1>9
  <2> QED
    BY <2>1, <2>2 DEF Kept
<1>11. /\ call' = [call EXCEPT ![c] = Free] /\ Free \in CallRow
       /\ Shape(c)' /\ Handles(c)' /\ Measured(c)'
       /\ \A d \in Call \ {c} : call'[d] = call[d]
  BY <1>1, <1>2, Returns DEF TypeOK
<1>12. TypeOK'
  <2>1. crossed' \in BOOLEAN
    BY <1>1, Zenon DEF Crossing
  <2> QED
    BY <1>1, <1>2, <1>9, <1>11, <2>1 DEF TypeOK
<1>13. \A e : IsRunning(e)' <=> IsRunning(e) /\ e # t
  BY <1>2, <1>4, <1>7, <1>9 DEF IsRunning
<1>14. LatestRuns'
  BY <1>9, <1>13 DEF IInv, LatestRuns
<1>15. CallsSound'
  <2> SUFFICES ASSUME NEW d \in Call, d # c
               PROVE  Shape(d)' /\ (~crossed' => Handles(d)' /\ Measured(d)')
    BY <1>11 DEF CallsSound
  <2>1. Shape(d) /\ call'[d] = call[d] /\ (~crossed => Handles(d) /\ Measured(d))
    BY <1>11 DEF IInv, CallsSound
  <2>2. Shape(d)'
    BY <1>2, <1>10, <1>12, <2>1, ShapeKept
  <2>3. ASSUME ~crossed' PROVE Handles(d)' /\ Measured(d)'
    <3>1. /\ Handles(d) /\ call[d].trial = None
          /\ call[d].pc \in {"idle", "running", "insert"}
          /\ status' = status
      BY <1>1, <1>3, <2>1, <2>3, Alone
    <3> QED
      BY <2>1, <3>1 DEF Handles, Measured, Goes
  <2> QED
    BY <2>2, <2>3
<1>16. ~crossed' => ~crossed /\ UNCHANGED Active
  BY <1>1, <1>3, Alone DEF Active
<1>17. OneLive'
  BY <1>16 DEF IInv, OneLive
<1>18. Answered'
  <2> SUFFICES ASSUME ~crossed', ~cut
               PROVE  /\ Active # {}
                      /\ \A e \in 1..Now : ~IsRunning(e)'
    BY <1>1, <1>9, <1>16 DEF Answered
  <2>1. /\ t = Now /\ ~crossed
        /\ \A d \in Call : call[d].pc # "activate"
    BY <1>1, <1>3, Alone
  <2>2. Active # {}
    BY <2>1 DEF IInv, Answered
  <2>3. \A e \in 1..Now : IsRunning(e) => e = t
    BY <2>1 DEF IInv, LatestRuns
  <2> QED
    BY <1>13, <2>2, <2>3
<1>19. EvidenceKept'
  <2> SUFFICES ASSUME NEW e \in 1..Now, trials'[e].status = "promoted",
                      ~trials'[e].forced, ~crossed'
               PROVE  /\ Judge(trials'[e].cn, trials'[e].bn) = "promote"
                      /\ trials'[e].cn.runs <= score[trials'[e].cand][e].runs
                      /\ trials'[e].bn.runs <= score[trials'[e].base][e].runs
    BY <1>1, <1>9 DEF EvidenceKept, Judge
  <2>1. ~crossed
    BY <1>16
  <2>2. CASE e # t
    BY <1>9, <2>1, <2>2 DEF IInv, EvidenceKept
  <2>3. CASE e = t
    <3>1. call[c].op = "promote" /\ ~call[c].forced
      BY <1>4, <1>7, <1>8, <1>9, <2>3
    <3> QED
      BY <1>1, <1>2, <1>7, <1>9, <2>1, <2>3, <3>1 DEF Measured, Goes
  <2> QED
    BY <2>2, <2>3
<1> QED
  BY <1>12, <1>14, <1>15, <1>17, <1>18, <1>19 DEF IInv

-----------------------------------------------------------------------------
(* Runs of tasks, and a crash *)

\* A run that reads what is live, or whether it is tried, changes nothing else.
LEMMA WorkStep ==
    ASSUME IInv, work' \in [Worker -> WorkRow],
           UNCHANGED <<status, trials, score, call, cut, crossed>>
    PROVE  IInv'
  BY DEF IInv, TypeOK, LatestRuns, CallsSound, Shape, Handles, Measured, OneLive,
     Answered, EvidenceKept, IsRunning, Now, Active

LEMMA PickStep ==
    ASSUME IInv, NEW w \in Worker, Pick(w)
    PROVE  IInv'
<1>1. Live \in Version
  BY LiveIs DEF Pick
<1>2. work' \in [Worker -> WorkRow]
  BY <1>1 DEF Pick, IInv, TypeOK, WorkRow
<1> QED
  BY <1>2, WorkStep DEF Pick

LEMMA VersionForStep ==
    ASSUME IInv, NEW w \in Worker, VersionFor(w)
    PROVE  IInv'
<1> PICK v : v = IF Running # None /\ Takes[w] THEN trials[Running].cand
                 ELSE work[w].v
  OBVIOUS
<1>1. work' = [work EXCEPT ![w] = [pc |-> "run", v |-> v]]
  BY DEF VersionFor
<1>2. Running # None => trials[Running].cand \in Version
  BY RunningIs, RowType DEF IInv, IsRunning
<1>3. work[w].v \in Version \cup {None}
  BY DEF IInv, TypeOK, WorkRow
<1>4. v \in Version \cup {None}
  BY <1>2, <1>3
<1>5. work' \in [Worker -> WorkRow]
  BY <1>1, <1>4 DEF IInv, TypeOK, WorkRow
<1> QED
  BY <1>5, WorkStep DEF VersionFor

\* What is measured is only ever added to.
LEMMA MeasureStep ==
    ASSUME IInv, NEW w \in Worker, Measure(w)
    PROVE  IInv'
<1> PICK v : v = work[w].v
  OBVIOUS
<1> PICK n : n = Now
  OBVIOUS
<1>1. /\ TypeOK /\ v \in Version \cup {None}
      /\ n \in Nat /\ (n # 0 => n \in Epoch)
      /\ work' = [work EXCEPT ![w] = Rest]
      /\ UNCHANGED <<status, trials, call, cut, crossed>>
      /\ UNCHANGED <<Now, Active>> /\ \A e : IsRunning(e)' = IsRunning(e)
  BY NowType DEF IInv, TypeOK, WorkRow, Measure, Epoch, Now, Active, IsRunning
<1>2. work' \in [Worker -> WorkRow]
  BY <1>1 DEF TypeOK, WorkRow, Rest
<1>3. CASE UNCHANGED score
  BY <1>1, <1>2, <1>3, WorkStep
<1>4. CASE ~UNCHANGED score
  <2>1. PICK won \in {0, 1} :
           score' = [score EXCEPT ![v][n] = [runs |-> score[v][n].runs + 1,
                                             wins |-> score[v][n].wins + won]]
    BY <1>4 DEF Measure
  <2>2. n # 0 => n \in Epoch
    BY <1>1
  <2>3. n # 0
    BY <1>4 DEF Measure
  <2>4. CASE v = None
    <3>1. v \notin DOMAIN score
      BY <1>1, <2>4, VersionType DEF TypeOK
    <3>2. score' = score
      BY <1>1, <2>1, <3>1 DEF TypeOK
    <3> QED
      BY <1>4, <3>2
  <2>5. CASE v \in Version
    <3> PICK add : add = [runs |-> score[v][n].runs + 1,
                          wins |-> score[v][n].wins + won]
      OBVIOUS
    <3>1. /\ add \in Tally /\ add.runs = score[v][n].runs + 1
          /\ score[v][n].runs \in Nat
      BY <1>1, <2>2, <2>3, <2>5, ScoreType DEF Tally
    <3>2. score' = [score EXCEPT ![v][n] = add]
      BY <2>1
    <3>3. /\ score' \in [Version -> [Epoch -> Tally]]
          /\ \A u \in Version, e \in Epoch :
                score'[u][e] = IF u = v /\ e = n THEN add ELSE score[u][e]
      BY <1>1, <2>2, <2>3, <2>5, <3>1, <3>2 DEF TypeOK
    <3>4. \A u \in Version, e \in Epoch : score[u][e].runs <= score'[u][e].runs
      <4> SUFFICES ASSUME NEW u \in Version, NEW e \in Epoch
                   PROVE  score[u][e].runs <= score'[u][e].runs
        OBVIOUS
      <4>1. score[u][e].runs \in Nat
        BY <1>1, ScoreType
      <4> QED
        BY <3>1, <3>3, <4>1
    <3>5. TypeOK'
      BY <1>1, <1>2, <3>3 DEF TypeOK
    <3>6. Kept
      BY <1>1, NowType DEF Kept
    <3>7. LatestRuns'
      BY <1>1 DEF IInv, LatestRuns
    <3>8. CallsSound'
      <4> SUFFICES ASSUME NEW c \in Call
                   PROVE  /\ Shape(c)'
                          /\ ~crossed => Handles(c)' /\ Measured(c)'
        BY <1>1 DEF CallsSound
      <4>1. /\ Shape(c) /\ (~crossed => Handles(c) /\ Measured(c))
            /\ call'[c] = call[c]
        BY <1>1 DEF IInv, CallsSound
      <4>2. ~crossed => Handles(c)'
        BY <1>1, <4>1 DEF Handles
      <4> QED
        BY <1>1, <3>4, <3>5, <3>6, <4>1, <4>2, ShapeKept, MeasuredKept
    <3>9. OneLive' /\ Answered'
      BY <1>1 DEF IInv, OneLive, Answered
    <3>10. EvidenceKept'
      <4> SUFFICES ASSUME NEW e \in 1..Now, trials[e].status = "promoted",
                          ~trials[e].forced, ~crossed
                   PROVE  /\ Judge(trials[e].cn, trials[e].bn) = "promote"
                          /\ trials[e].cn.runs <= score'[trials[e].cand][e].runs
                          /\ trials[e].bn.runs <= score'[trials[e].base][e].runs
        BY <1>1 DEF EvidenceKept
      <4>1. /\ Judge(trials[e].cn, trials[e].bn) = "promote"
            /\ trials[e].cn.runs <= score[trials[e].cand][e].runs
            /\ trials[e].bn.runs <= score[trials[e].base][e].runs
        BY DEF IInv, EvidenceKept
      <4>2. /\ trials[e].cand \in Version /\ trials[e].base \in Version
            /\ trials[e].cn.runs \in Nat /\ trials[e].bn.runs \in Nat
        <5>1. trials[e] \in TrialRow
          BY <1>1, RowType
        <5> QED
          BY <5>1 DEF TrialRow, Tally
      <4>3. e \in Epoch
        BY <1>1, NowType
      <4> PICK x : x = trials[e].cand
        OBVIOUS
      <4> PICK y : y = trials[e].base
        OBVIOUS
      <4>4. x \in Version /\ y \in Version
        BY <4>2
      <4>5. /\ score[x][e].runs \in Nat /\ score[y][e].runs \in Nat
            /\ score[x][e].runs <= score'[x][e].runs
            /\ score[y][e].runs <= score'[y][e].runs
        BY <1>1, <3>4, <4>3, <4>4, ScoreType
      <4>6. score'[x][e].runs \in Nat /\ score'[y][e].runs \in Nat
        BY <3>3, <4>3, <4>4 DEF Tally
      <4> QED
        BY <4>1, <4>2, <4>5, <4>6
    <3> QED
      BY <3>5, <3>7, <3>8, <3>9, <3>10 DEF IInv
  <2> QED
    BY <1>1, <2>4, <2>5
<1> QED
  BY <1>3, <1>4

LEMMA CrashStep ==
    ASSUME IInv, Crash
    PROVE  IInv'
<1>1. /\ call' = [c \in Call |-> Free] /\ work' = [w \in Worker |-> Rest]
      /\ cut' = TRUE /\ UNCHANGED <<status, trials, score, crossed>>
      /\ UNCHANGED <<Now, Active>> /\ \A e : IsRunning(e)' = IsRunning(e)
  BY DEF Crash, Now, Active, IsRunning
<1>2. cut' \in BOOLEAN
  BY <1>1
<1>3. TypeOK'
  BY <1>1, <1>2, FreeType DEF IInv, TypeOK, Rest, WorkRow
<1>4. LatestRuns'
  BY <1>1 DEF IInv, LatestRuns
<1>5. CallsSound'
  BY <1>1 DEF CallsSound, Shape, Handles, Measured, Free, Starting, Deciding, Goes
<1>6. OneLive' /\ EvidenceKept'
  BY <1>1 DEF IInv, OneLive, EvidenceKept
<1>7. Answered'
  BY <1>1 DEF Answered
<1> QED
  BY <1>3, <1>4, <1>5, <1>6, <1>7 DEF IInv

-----------------------------------------------------------------------------
(* The theorems *)

LEMMA InitInv == Init => IInv
<1> SUFFICES ASSUME Init PROVE IInv
  OBVIOUS
<1>1. Now = 0 /\ Active = {First} /\ First \in Version
  BY TrialsAssumption DEF Init, Now, Active
<1>2. TypeOK
  <2>1. cut \in BOOLEAN /\ crossed \in BOOLEAN
    BY Zenon DEF Init
  <2>2. trials \in Seq(TrialRow)
    BY DEF Init
  <2>3. Now <= MaxTrials
    BY <1>1, TrialsAssumption
  <2>4. score \in [Version -> [Epoch -> Tally]]
    BY DEF Init, Nil, Tally
  <2>5. work \in [Worker -> WorkRow] /\ call \in [Call -> CallRow]
    BY FreeType DEF Init, Rest, WorkRow
  <2>6. status \in [Version ->
                      {"active", "experimental", "testing", "disabled"}]
    BY DEF Init
  <2> QED
    BY <2>1, <2>2, <2>3, <2>4, <2>5, <2>6 DEF TypeOK
<1>3. LatestRuns /\ EvidenceKept /\ OneLive /\ Answered
  BY <1>1 DEF LatestRuns, EvidenceKept, OneLive, Answered
<1>4. CallsSound
  BY DEF CallsSound, Init, Shape, Handles, Measured, Free, Starting, Deciding,
     Goes
<1> QED
  BY <1>2, <1>3, <1>4 DEF IInv

\* However requests, runs and crashes interleave, the latest trial is the only
\* one that can run, and, unless requests crossed, only the request that holds
\* it sets a status and what it decides on was measured during it.
THEOREM TrialsInvariant == Spec => []IInv
<1>1. IInv /\ [Next]_vars => IInv'
  <2> SUFFICES ASSUME IInv, [Next]_vars PROVE IInv'
    OBVIOUS
  <2>1. CASE UNCHANGED vars
    BY <2>1, WorkStep DEF vars, IInv, TypeOK
  <2>2. ASSUME NEW c \in Call, NEW v \in Version, Start(c, v) PROVE IInv'
    BY <2>2, StartStep
  <2>3. ASSUME NEW c \in Call, NEW op \in Decisions, NEW f \in BOOLEAN,
               Decide(c, op, f)
        PROVE  IInv'
    BY <2>3, DecideStep
  <2>4. ASSUME NEW c \in Call,
               \/ StartRunning(c) \/ Insert(c) \/ Testing(c)
               \/ ReadVerdict(c) \/ Compare(c) \/ StandDown(c) \/ Activate(c)
               \/ Disable(c) \/ Close(c)
        PROVE  IInv'
    BY <2>4, StartRunningStep, InsertStep, TestingStep, ReadVerdictStep,
       CompareStep, StandDownStep, ActivateStep, DisableStep, CloseStep
  <2>5. ASSUME NEW w \in Worker, Pick(w) \/ VersionFor(w) \/ Measure(w)
        PROVE  IInv'
    BY <2>5, PickStep, VersionForStep, MeasureStep
  <2>6. CASE Crash
    BY <2>6, CrashStep
  <2> QED
    BY <2>1, <2>2, <2>3, <2>4, <2>5, <2>6, Zenon DEF Next, Decisions
<1> QED
  BY InitInv, <1>1, PTL DEF Spec

\* One trial of a capability runs at a time; unless requests crossed, two live
\* versions never answer at once, and when all is quiet one answers (start,
\* promote, reject, set_status), for any number of versions and requests.
THEOREM OneAnswersTheorem == Spec => []OneAnswers
<1>1. ASSUME IInv PROVE OneAnswers
  <2> DEFINE R == {e \in 1..Now : IsRunning(e)}
  <2>1. R \subseteq {Now}
    BY <1>1 DEF IInv, LatestRuns
  <2>2. Cardinality(R) <= 1
    <3> HIDE DEF R
    <3>1. IsFiniteSet({Now}) /\ Cardinality({Now}) = 1
      BY FS_Singleton
    <3> QED
      BY <2>1, <3>1, FS_Subset
  <2>3. ASSUME ~crossed PROVE Cardinality(Active) <= 1
    <3>1. CASE Active = {}
      BY <3>1, FS_EmptySet
    <3>2. CASE Active # {}
      <4>1. PICK v \in Active : TRUE
        BY <3>2
      <4>2. Active = {v}
        BY <1>1, <2>3, <4>1 DEF IInv, OneLive
      <4>3. Cardinality(Active) = 1
        BY <4>2, FS_Singleton, Zenon
      <4> QED
        BY <4>3
    <3> QED
      BY <3>1, <3>2
  <2>4. ASSUME ~crossed, ~cut, \A c \in Call : call[c].pc = "idle"
        PROVE  Live # None
    BY <1>1, <2>4, LiveIs DEF IInv, Answered
  <2> QED
    BY <2>2, <2>3, <2>4 DEF OneAnswers
<1> QED
  BY <1>1, TrialsInvariant, PTL

\* A promotion nobody forced rests on enough runs of both versions measured
\* during that very trial, and the numbers kept with it are those (promote,
\* _arm, _close), for any ENOUGH_EACH.
THEOREM EvidenceKeptTheorem == Spec => []EvidenceKept
<1>1. IInv => EvidenceKept
  BY DEF IInv
<1> QED
  BY <1>1, TrialsInvariant, PTL
=============================================================================
