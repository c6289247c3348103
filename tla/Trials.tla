------------------------------- MODULE Trials -------------------------------
(***************************************************************************)
(* agents/trials.py and agents/registry.py: two versions of one capability *)
(* compared on real work.                                                  *)
(*                                                                         *)
(* The rows are those of `agents` for one capability (status) and of       *)
(* agent_trials in order of started_at (trials).  A request of the owner   *)
(* and a run of a task are processes, one step for each statement they     *)
(* send, so that everything may happen between two of them:                *)
(*                                                                         *)
(*   start    resolve -> running -> insert -> testing                      *)
(*   promote  running -> verdict -> compare -> stand_down -> activate      *)
(*            -> close                                                     *)
(*   reject   running -> verdict -> compare -> disable -> close            *)
(*   abandon  running -> close                                             *)
(***************************************************************************)
EXTENDS Integers, Sequences, FiniteSets, FiniteSetsExt

CONSTANTS
    Version,       \* versions of the capability, newer ones larger
    First,         \* the one that is live at first
    Perms,         \* Perms[v]: permissions version v holds
    Call,          \* requests of the owner at a time (bound)
    Worker,        \* runs of tasks at a time (bound)
    Takes,         \* Takes[w]: takes_candidate of the tasks w runs
    Enough,        \* ENOUGH_EACH
    MaxTrials,     \* rows of agent_trials (bound)
    MaxRuns,       \* runs measured of one version in one trial (bound)
    MaxEvents      \* requests of the owner, and crashes (bound)

ASSUME TrialsAssumption ==
    /\ Version \subseteq Nat \ {0} /\ First \in Version /\ IsFiniteSet(Version)
    /\ DOMAIN Perms = Version
    /\ Takes \in [Worker -> BOOLEAN]
    /\ Enough \in Nat \ {0} /\ MaxTrials \in Nat /\ MaxRuns \in Nat
    /\ MaxEvents \in Nat

VARIABLES
    status,        \* agents.status of each version
    trials,        \* agent_trials: status, candidate, baseline, how decided
    score,         \* score[v][e]: metrics of v recorded from row e to row e+1
    call,          \* call[c]: a request of the owner
    work,          \* work[w]: a run of run_task
    events,
    \* history
    cut,           \* a crash cut requests short
    crossed        \* a request acted across another: see Crossing

vars == <<status, trials, score, call, work, events, cut, crossed>>

None == 0
Epoch == 1..MaxTrials
Nil == [runs |-> 0, wins |-> 0]
Free == [pc |-> "idle", op |-> "none", v |-> None, base |-> None,
         trial |-> None, forced |-> FALSE, cand |-> Nil, live |-> Nil,
         call |-> "none"]
Rest == [pc |-> "idle", v |-> None]

Now == Len(trials)
IsRunning(e) == e \in 1..Now /\ trials[e].status = "running"

\* running(): the row, if there is one.
Running == IF \E e \in 1..Now : IsRunning(e)
           THEN CHOOSE e \in 1..Now : IsRunning(e) ELSE None

\* resolve: the newest version that is active (nothing is ever degraded).
Active == {v \in Version : status[v] = "active"}
Live == IF Active = {} THEN None ELSE Max(Active)

Init ==
    /\ status = [v \in Version |-> IF v = First THEN "active"
                                   ELSE "experimental"]
    /\ trials = <<>>
    /\ score = [v \in Version |-> [e \in Epoch |-> Nil]]
    /\ call = [c \in Call |-> Free]
    /\ work = [w \in Worker |-> Rest]
    /\ events = 0
    /\ cut = FALSE /\ crossed = FALSE

-----------------------------------------------------------------------------
(* A request of the owner *)

Return(c) == call' = [call EXCEPT ![c] = Free]
Go(c, pc) == call' = [call EXCEPT ![c].pc = pc]
Rows == <<status, trials, score, work, cut, crossed>>

\* Bound: no further request once two have crossed.
Event == events < MaxEvents /\ events' = events + 1
Asks == Event /\ ~crossed

\* The first query of start.
Start(c, v) ==
    /\ Asks /\ call[c].pc = "idle"
    /\ Live # None /\ v # Live
    /\ Perms[v] \subseteq Perms[Live]
    /\ call' = [call EXCEPT ![c] = [Free EXCEPT !.op = "start", !.v = v,
                                      !.pc = "running", !.base = Live]]
    /\ UNCHANGED Rows

\* start refuses while a trial runs.
StartRunning(c) ==
    /\ call[c].pc = "running" /\ call[c].op = "start"
    /\ IF Running = None THEN Go(c, "insert") ELSE Return(c)
    /\ UNCHANGED <<Rows, events>>

\* idx_one_running_trial_per_capability.
Index == Running = None

\* The INSERT, which the index may refuse.
Insert(c) ==
    /\ call[c].pc = "insert" /\ Now < MaxTrials
    /\ IF Index
       THEN /\ trials' = Append(trials,
                    [status |-> "running", forced |-> FALSE,
                     cand |-> call[c].v, base |-> call[c].base,
                     cn |-> Nil, bn |-> Nil])
            /\ call' = [call EXCEPT ![c].pc = "testing", ![c].trial = Now + 1]
       ELSE Return(c) /\ UNCHANGED trials
    /\ UNCHANGED <<status, score, work, events, cut, crossed>>

\* It acts on a trial that is closed or in another request's hands, or
\* decides while a start that has read the live version goes on.
Crossing(c) ==
    crossed' = \/ crossed
               \/ ~IsRunning(call[c].trial)
               \/ \E d \in Call \ {c} :
                     \/ call[d].trial = call[c].trial
                     \/ call[c].op # "start" /\ call[d].op = "start"

\* The last statement of start: the candidate is TESTING.
Testing(c) ==
    /\ call[c].pc = "testing"
    /\ status' = [status EXCEPT ![call[c].v] = "testing"]
    /\ Crossing(c)
    /\ Return(c)
    /\ UNCHANGED <<trials, score, work, events, cut>>

\* promote, reject and abandon read the running trial, or refuse.
Decide(c, op, forced) ==
    /\ Asks /\ call[c].pc = "idle" /\ Running # None
    /\ forced => op = "promote"
    /\ call' = [call EXCEPT ![c] =
                  [Free EXCEPT !.op = op, !.forced = forced, !.trial = Running,
                               !.v = trials[Running].cand,
                               !.pc = IF op = "abandon" THEN "close"
                                      ELSE "verdict"]]
    /\ UNCHANGED Rows

\* Mutant: runs of earlier trials count too.
ArmLifetime(v) ==
    [runs |-> MapThenSumSet(LAMBDA e : score[v][e].runs, Epoch),
     wins |-> MapThenSumSet(LAMBDA e : score[v][e].wins, Epoch)]

\* _arm: what was measured of a version since the latest trial began.
Arm(v) == score[v][Now]

\* verdict: the running trial once more, and the candidate's arm.
ReadVerdict(c) ==
    /\ call[c].pc = "verdict"
    /\ call' = [call EXCEPT
          ![c].pc = "compare",
          ![c].base = IF Running = None THEN None
                      ELSE trials[Running].base,
          ![c].cand = IF Running = None THEN Nil
                      ELSE Arm(trials[Running].cand)]
    /\ UNCHANGED <<Rows, events>>

\* judge, in whole numbers: margins of a tenth either way.
Judge(c, b) ==
    LET ahead == 10 * (c.wins * b.runs - b.wins * c.runs)
        tenth == c.runs * b.runs
    IN IF c.runs < Enough \/ b.runs < Enough THEN "not_enough_yet"
       ELSE IF ahead >= tenth THEN "promote"
       ELSE IF ahead <= -tenth THEN "reject" ELSE "keep_watching"

\* The baseline's arm, and the call: promote goes on when the numbers say
\* so or it is forced; without a trial an unforced one is an error.
Compare(c) ==
    LET b == IF call[c].base = None THEN Nil ELSE Arm(call[c].base)
        said == IF call[c].base = None THEN "none" ELSE Judge(call[c].cand, b)
        goes == call[c].op = "reject" \/ call[c].forced \/ said = "promote"
    IN
    /\ call[c].pc = "compare"
    /\ IF goes
       THEN call' = [call EXCEPT ![c].live = b, ![c].call = said,
                                 ![c].pc = IF call[c].op = "reject"
                                           THEN "disable" ELSE "stand_down"]
       ELSE Return(c)
    /\ UNCHANGED <<Rows, events>>

\* Mutant: the version that is live is not stood down.
StandDownNone(c) ==
    /\ call[c].pc = "stand_down"
    /\ Go(c, "activate")
    /\ Crossing(c)
    /\ UNCHANGED <<status, trials, score, work, events, cut>>

\* set_status(ACTIVE), its first statement.
StandDown(c) ==
    /\ call[c].pc = "stand_down"
    /\ status' = [v \in Version |->
                    IF v # call[c].v /\ status[v] = "active" THEN "disabled"
                    ELSE status[v]]
    /\ Go(c, "activate")
    /\ Crossing(c)
    /\ UNCHANGED <<trials, score, work, events, cut>>

\* After the status: without a verdict, as_detail raises and nothing closes.
ThenClose(c) == IF call[c].call = "none" THEN Return(c) ELSE Go(c, "close")

\* set_status(ACTIVE), its second statement.
Activate(c) ==
    /\ call[c].pc = "activate"
    /\ status' = [status EXCEPT ![call[c].v] = "active"]
    /\ ThenClose(c) /\ Crossing(c)
    /\ UNCHANGED <<trials, score, work, events, cut>>

\* reject: set_status(DISABLED).
Disable(c) ==
    /\ call[c].pc = "disable"
    /\ status' = [status EXCEPT ![call[c].v] = "disabled"]
    /\ ThenClose(c) /\ Crossing(c)
    /\ UNCHANGED <<trials, score, work, events, cut>>

Outcome == [promote |-> "promoted", reject |-> "rejected",
            abandon |-> "abandoned"]

\* _close, by the id of the trial and nothing else.
Close(c) ==
    /\ call[c].pc = "close"
    /\ trials' = [trials EXCEPT ![call[c].trial] =
                    [@ EXCEPT !.status = Outcome[call[c].op],
                              !.forced = call[c].forced,
                              !.cn = call[c].cand, !.bn = call[c].live]]
    /\ Crossing(c)
    /\ Return(c)
    /\ UNCHANGED <<status, score, work, events, cut>>

-----------------------------------------------------------------------------
(* run_task, as far as it meets the registry *)

\* resolve; with nothing live the task fails for good.
Pick(w) ==
    /\ work[w].pc = "idle" /\ Live # None
    /\ work' = [work EXCEPT ![w] = [pc |-> "version", v |-> Live]]
    /\ UNCHANGED <<status, trials, score, call, events, cut, crossed>>

\* version_for.
VersionFor(w) ==
    /\ work[w].pc = "version"
    /\ work' = [work EXCEPT ![w] =
                  [pc |-> "run", v |-> IF Running # None /\ Takes[w]
                                       THEN trials[Running].cand ELSE @.v]]
    /\ UNCHANGED <<status, trials, score, call, events, cut, crossed>>

\* The outcome, measured against the version that did the work.
Measure(w) ==
    LET v == work[w].v IN
    /\ work[w].pc = "run"
    /\ IF Now = 0 THEN UNCHANGED score
       ELSE /\ score[v][Now].runs < MaxRuns
            /\ \E won \in {0, 1} :
                  score' = [score EXCEPT ![v][Now] = [runs |-> @.runs + 1,
                                                      wins |-> @.wins + won]]
    /\ work' = [work EXCEPT ![w] = Rest]
    /\ UNCHANGED <<status, trials, call, events, cut, crossed>>

\* The process dies: every request and run with it.
Crash ==
    /\ Event
    /\ cut' = TRUE
    /\ call' = [c \in Call |-> Free]
    /\ work' = [w \in Worker |-> Rest]
    /\ UNCHANGED <<status, trials, score, crossed>>

Next ==
    \/ \E c \in Call :
          \/ \E v \in Version : Start(c, v)
          \/ StartRunning(c) \/ Insert(c) \/ Testing(c)
          \/ \E op \in {"promote", "reject", "abandon"}, f \in BOOLEAN :
                Decide(c, op, f)
          \/ ReadVerdict(c) \/ Compare(c) \/ StandDown(c) \/ Activate(c)
          \/ Disable(c) \/ Close(c)
    \/ \E w \in Worker : Pick(w) \/ VersionFor(w) \/ Measure(w)
    \/ Crash

Spec == Init /\ [][Next]_vars

-----------------------------------------------------------------------------
\* However requests overlap, one trial runs at a time (start,
\* 013_agent_trials.sql).  Unless requests crossed, two live versions of the
\* capability never answer at once (set_status), and whenever no request is
\* under way, and none was cut short, there is one that does its work
\* (promote, reject).
OneAnswers ==
    /\ Cardinality({e \in 1..Now : IsRunning(e)}) <= 1
    /\ ~crossed => /\ Cardinality(Active) <= 1
                   /\ (~cut /\ \A c \in Call : call[c].pc = "idle") => Live # None

\* A promotion nobody forced rests on enough runs of both versions measured
\* during that very trial, and on a difference in them; the numbers kept
\* with it are those (promote, _arm, _close).
EvidenceKept ==
    \A e \in 1..Now :
       (trials[e].status = "promoted" /\ ~trials[e].forced /\ ~crossed) =>
          /\ Judge(trials[e].cn, trials[e].bn) = "promote"
          /\ trials[e].cn.runs <= score[trials[e].cand][e].runs
          /\ trials[e].bn.runs <= score[trials[e].base][e].runs
=============================================================================
