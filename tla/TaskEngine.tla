----------------------------- MODULE TaskEngine -----------------------------
(***************************************************************************)
(* The task engine: one workflow, its graph of tasks, and everything that  *)
(* reads or writes their rows.                                             *)
(*                                                                         *)
(* Every SQL statement of the code commits on its own, so an action here   *)
(* is one statement (or one read that a later statement acts on), and a    *)
(* coroutine is a program counter:                                         *)
(*                                                                         *)
(*   starter      orchestrator.start, which inserts the tasks and then     *)
(*                wires their dependencies                                 *)
(*   adv[a]       a live call of orchestrator.advance                      *)
(*   at[a][t]     the runtime.run_task that advance spawned for task t     *)
(*   req[r]       an approve or reject request of the owner                *)
(*   Recover, Abandon, Resume   resume.after_restart, at every start of    *)
(*                the process and then every minute from scheduler.loop    *)
(*                                                                         *)
(* A crash loses every coroutine and keeps every row.  Time is two flags:  *)
(* a task's started_at is older than fifteen minutes ("stale"), and the    *)
(* workflow's updated_at is older than six hours (wfOld).                  *)
(***************************************************************************)
EXTENDS Integers, FiniteSets

CONSTANTS
    Task,          \* the steps of the plan
    After,         \* After[t]: the steps t waits for (Step.after)
    Category,      \* approval categories
    Needs,         \* Needs[t]: categories whose policy is to ask the owner
    Inside,        \* Inside[t]: categories t's own function asks about
    NoCategory,    \* awaiting_category of a task that never parked
    Advancer,      \* concurrent calls of advance (bound)
    Request,       \* concurrent requests of the owner (bound)
    MaxAttempts,   \* tasks.max_attempts
    MaxWaves,      \* advance's max_waves
    MaxCrashes,    \* crashes or redeploys (bound)
    Gated,         \* the workflow is advanced with a gate (media) or without
    SlowSteps,     \* a single step may run for longer than fifteen minutes
    TickInStart,   \* the minute's tick may fall between start's statements
    MaxStops       \* uses of the emergency stop (bound)

ASSUME CountsAssumption ==
    /\ MaxAttempts \in Nat \ {0}
    /\ MaxWaves \in Nat \ {0}
    /\ MaxCrashes \in Nat
    /\ MaxStops \in Nat
ASSUME PlanAssumption ==
    /\ Task # {} /\ IsFiniteSet(Category)
    /\ After \in [Task -> SUBSET Task]
    /\ Needs \in [Task -> SUBSET Category]
    /\ Inside \in [Task -> SUBSET Category]
    /\ Gated \in BOOLEAN
    /\ SlowSteps \in BOOLEAN
    /\ TickInStart \in BOOLEAN
\* A category names the pc of a runner about to park on it: see RunPC.
ASSUME NamesAssumption ==
    /\ NoCategory \notin Category
    /\ Category \cap {"idle", "start", "gate", "work"} = {}

VARIABLES
    \* rows
    status,        \* tasks.status; "absent" before the INSERT
    deps,          \* tasks.depends_on
    attempts,      \* tasks.attempts
    started,       \* tasks.started_at: "null", "fresh" or "stale"
    awaiting,      \* tasks.awaiting_category
    decision,      \* task_approvals, one row per task and category
    wf,            \* workflows.status
    wfOld,         \* workflows.updated_at is more than RESUMABLE_HOURS ago
    stopped,       \* system_control's emergency_stop
    \* coroutines
    starter,
    adv,
    at,
    req,
    \* bounds
    crashes,
    stops,
    \* history: nothing in the code reads these
    usurped,       \* tasks recover_stuck re-queued under a live runner
    early,         \* an advance began before the plan was completely wired
    delivered,     \* tasks whose result was once written by complete
    reopened,      \* reopened[t]: categories whose approval put t back
    cut,           \* yeses that were kept when the process died before the
                   \* task was put back
    again          \* questions t's own function asked after their answer

rows == <<status, deps, attempts, started, awaiting, decision>>
flow == <<wf, wfOld>>
history == <<usurped, early, delivered, reopened, cut, again>>
bounds == <<crashes, stops>>
vars == <<rows, flow, stopped, starter, adv, at, req, bounds, history>>

-----------------------------------------------------------------------------
Status == {"absent", "queued", "blocked", "running", "waiting_approval",
           "completed", "failed", "cancelled"}
TERMINAL == {"completed", "failed", "cancelled"}
Claimable == {"queued", "blocked"}
WorkflowStatus == {"planning", "running", "waiting_approval"} \cup TERMINAL

\* Where a run_task stands; a category: about to park on that category.
Held == {"gate", "work"} \cup Category
RunPC == {"idle", "start"} \cup Held

Created == {t \in Task : status[t] # "absent"}
Holders(t) == {a \in Advancer : at[a][t] \in Held}
Unwired == {t \in Task : After[t] # {} /\ deps[t] = {}}

IdleAdv == [pc |-> "idle", left |-> 0, gated |-> FALSE, verdict |-> "planning"]
IdleReq == [pc |-> "idle", task |-> CHOOSE t \in Task : TRUE,
            answer |-> "approved", category |-> NoCategory]

Init ==
    /\ status = [t \in Task |-> "absent"]
    /\ deps = [t \in Task |-> {}]
    /\ attempts = [t \in Task |-> 0]
    /\ started = [t \in Task |-> "null"]
    /\ awaiting = [t \in Task |-> NoCategory]
    /\ decision = [t \in Task |-> [c \in Category |-> "none"]]
    /\ wf = "planning"
    /\ wfOld = FALSE
    /\ stopped = FALSE
    /\ starter = "create"
    /\ adv = [a \in Advancer |-> IdleAdv]
    /\ at = [a \in Advancer |-> [t \in Task |-> "idle"]]
    /\ req = [r \in Request |-> IdleReq]
    /\ crashes = 0
    /\ stops = 0
    /\ usurped = {}
    /\ early = FALSE
    /\ delivered = {}
    /\ reopened = [t \in Task |-> {}]
    /\ cut = {} /\ again = {}

-----------------------------------------------------------------------------
\* Mutant: a dependency that finished in any way counts.
RunnableAfterAny == {t \in Task : /\ status[t] \in Claimable
                                  /\ \A d \in deps[t] : status[d] \in TERMINAL}

\* tasks.runnable: no dependency is in any state but completed.
Runnable == {t \in Task : /\ status[t] \in Claimable
                          /\ \A d \in deps[t] : status[d] = "completed"}

\* A new call of orchestrator.advance on an idle slot.
Spawn(a, waves, gated) ==
    /\ adv[a].pc = "idle"
    /\ adv' = [adv EXCEPT ![a] = [pc |-> "look", left |-> waves,
                                  gated |-> gated, verdict |-> "planning"]]
    /\ early' = (early \/ starter # "done")

-----------------------------------------------------------------------------
(* orchestrator.start *)

\* The planner found no step: the workflow fails before any task exists.
StartEmpty ==
    /\ starter = "create" /\ Created = {}
    /\ starter' = "dead"
    /\ wf' = "failed" /\ wfOld' = FALSE
    /\ UNCHANGED <<rows, stopped, adv, at, req, bounds, history>>

\* First pass: tasks.create without dependencies, so every task is queued.
CreateTask(t) ==
    /\ starter = "create" /\ status[t] = "absent"
    /\ status' = [status EXCEPT ![t] = "queued"]
    /\ starter' = IF Created = Task \ {t} THEN "wire" ELSE "create"
    /\ UNCHANGED <<deps, attempts, started, awaiting, decision, flow, stopped,
                   adv, at, req, bounds, history>>

\* Second pass: the UPDATE that sets depends_on and, whatever the status is
\* by now, 'blocked'.
WireTask(t) ==
    /\ starter = "wire" /\ t \in Unwired
    /\ deps' = [deps EXCEPT ![t] = After[t]]
    /\ status' = [status EXCEPT ![t] = "blocked"]
    /\ UNCHANGED <<attempts, started, awaiting, decision, flow, stopped,
                   starter, adv, at, req, bounds, history>>

\* The graph is complete; the route (or the director) starts an advance.
StartDone(a) ==
    /\ starter = "wire" /\ Unwired = {}
    /\ starter' = "done"
    /\ adv[a].pc = "idle"
    /\ adv' = [adv EXCEPT ![a] = [pc |-> "look", left |-> MaxWaves,
                                  gated |-> Gated, verdict |-> "planning"]]
    /\ UNCHANGED <<rows, flow, stopped, at, req, bounds, history>>

-----------------------------------------------------------------------------
(* orchestrator.advance and _settle *)

\* Ask what can run; everything ready goes at once.
Look(a) ==
    /\ adv[a].pc = "look"
    /\ IF adv[a].left = 0 \/ Runnable = {}
       THEN /\ adv' = [adv EXCEPT ![a].pc = "settle"]
            /\ UNCHANGED at
       ELSE /\ adv' = [adv EXCEPT ![a].pc = "wave", ![a].left = @ - 1]
            /\ at' = [at EXCEPT ![a] = [t \in Task |->
                         IF t \in Runnable THEN "start" ELSE "idle"]]
    /\ UNCHANGED <<rows, flow, stopped, starter, req, bounds, history>>

\* Every run_task of the wave has returned.  A gate may now say stop.
WaveDone(a) ==
    /\ adv[a].pc = "wave"
    /\ \A t \in Task : at[a][t] = "idle"
    /\ \E stop \in (IF adv[a].gated THEN BOOLEAN ELSE {FALSE}) :
          adv' = [adv EXCEPT ![a].pc = IF stop THEN "cancel" ELSE "look"]
    /\ UNCHANGED <<rows, flow, stopped, starter, at, req, bounds, history>>

\* tasks.cancel_workflow, first statement.
CancelTasks(a) ==
    /\ adv[a].pc = "cancel"
    /\ status' = [t \in Task |-> IF status[t] \in TERMINAL \cup {"absent"}
                                 THEN status[t] ELSE "cancelled"]
    /\ adv' = [adv EXCEPT ![a].pc = "cancelled"]
    /\ UNCHANGED <<deps, attempts, started, awaiting, decision, flow, stopped,
                   starter, at, req, bounds, history>>

\* tasks.cancel_workflow, second statement.
CancelFlow(a) ==
    /\ adv[a].pc = "cancelled"
    /\ wf' = "cancelled" /\ wfOld' = FALSE
    /\ adv' = [adv EXCEPT ![a].pc = "settle"]
    /\ UNCHANGED <<rows, stopped, starter, at, req, bounds, history>>

\* Mutant: finished tasks count as completed ones.
VerdictFinished(st) ==
    LET is(s) == \E t \in Task : st[t] = s IN
    CASE is("waiting_approval") -> "waiting_approval"
      [] ~is("waiting_approval") /\ is("failed") -> "failed"
      [] \A t \in Task : st[t] \in {"completed", "cancelled"} -> "completed"
      [] OTHER -> "running"

\* What a workflow whose rows read st amounts to.
Verdict(st) ==
    LET is(s) == \E t \in Task : st[t] = s IN
    CASE is("waiting_approval") -> "waiting_approval"
      [] ~is("waiting_approval") /\ is("failed") -> "failed"
      [] \A t \in Task : st[t] \in {"completed", "absent"} -> "completed"
      [] OTHER -> "running"

\* _settle reads the rows...  (no rows: the status is left alone)
Settle(a) ==
    /\ adv[a].pc = "settle"
    /\ adv' = [adv EXCEPT ![a] =
                 IF Created = {} THEN IdleAdv
                 ELSE [@ EXCEPT !.pc = "write", !.verdict = Verdict(status)]]
    /\ UNCHANGED <<rows, flow, stopped, starter, at, req, bounds, history>>

\* ...and set_workflow_status writes what they amounted to.
WriteStatus(a) ==
    /\ adv[a].pc = "write"
    /\ wf' = adv[a].verdict /\ wfOld' = FALSE
    /\ adv' = [adv EXCEPT ![a] = IdleAdv]
    /\ UNCHANGED <<rows, stopped, starter, at, req, bounds, history>>

-----------------------------------------------------------------------------
(* runtime.run_task *)

Goto(a, t, pc) == at' = [at EXCEPT ![a][t] = pc]

\* registry.resolve found no routable version (one can be disabled at any
\* time): tasks.fail(terminal), without having claimed the task.
FailUnclaimed(a, t) ==
    /\ at[a][t] = "start"
    /\ status' = [status EXCEPT ![t] = "failed"]
    /\ Goto(a, t, "idle")
    /\ UNCHANGED <<deps, attempts, started, awaiting, decision, flow, stopped,
                   starter, adv, req, bounds, history>>

\* Mutant: the UPDATE names the id and not the status.
ClaimById(a, t) ==
    /\ at[a][t] = "start"
    /\ status' = [status EXCEPT ![t] = "running"]
    /\ attempts' = [attempts EXCEPT ![t] = @ + 1]
    /\ started' = [started EXCEPT ![t] = IF @ = "null" THEN "fresh" ELSE @]
    /\ Goto(a, t, "gate")
    /\ UNCHANGED <<deps, awaiting, decision, flow, stopped, starter, adv, req,
                   bounds, history>>

\* tasks.claim: the guard is in the WHERE clause.  started_at is COALESCEd,
\* so a task that ran before keeps the time it first started.
Claim(a, t) ==
    /\ at[a][t] = "start" /\ status[t] \in Claimable
    /\ status' = [status EXCEPT ![t] = "running"]
    /\ attempts' = [attempts EXCEPT ![t] = @ + 1]
    /\ started' = [started EXCEPT ![t] = IF @ = "null" THEN "fresh" ELSE @]
    /\ Goto(a, t, "gate")
    /\ UNCHANGED <<deps, awaiting, decision, flow, stopped, starter, adv, req,
                   bounds, history>>

\* The claim updated no row: somebody else has it.
ClaimLost(a, t) ==
    /\ at[a][t] = "start" /\ status[t] \notin Claimable
    /\ Goto(a, t, "idle")
    /\ UNCHANGED <<rows, flow, stopped, starter, adv, req, bounds, history>>

\* Mutant: a retry is not asked about again.
UnansweredFirst(t) ==
    {c \in Needs[t] : decision[t][c] # "approved" /\ attempts[t] = 1}

\* Categories t still has to be asked about.
Unanswered(t) == {c \in Needs[t] : decision[t][c] # "approved"}

\* require_approval for each permission, then affordable and the routing: go
\* to work, or set out to park on a category nobody said yes to yet.
PassGate(a, t) ==
    /\ at[a][t] = "gate"
    /\ \/ Unanswered(t) = {} /\ Goto(a, t, "work")
       \/ \E c \in Unanswered(t) : Goto(a, t, c)
    /\ UNCHANGED <<rows, flow, stopped, starter, adv, req, bounds, history>>

\* The agent's function raised ApprovalRequired on its way, as the computer
\* and the browser do: set out to park on the category it names, whether or
\* not that was answered before.
AskInside(a, t) ==
    /\ at[a][t] = "work"
    /\ \E c \in Inside[t] :
          /\ Goto(a, t, c)
          /\ again' = IF decision[t][c] = "none" THEN again
                                                 ELSE again \cup {<<t, c>>}
    /\ UNCHANGED <<rows, flow, stopped, starter, adv, req, bounds, usurped,
                   early, delivered, reopened, cut>>

\* The agent's function returned: cost.charge touches the workflow's row if
\* it cost anything, then tasks.complete, whatever the status is by now.
Complete(a, t) ==
    /\ at[a][t] = "work"
    /\ status' = [status EXCEPT ![t] = "completed"]
    /\ wfOld' \in {wfOld, FALSE}
    /\ delivered' = delivered \cup {t}
    /\ Goto(a, t, "idle")
    /\ UNCHANGED <<deps, attempts, started, awaiting, decision, wf, stopped,
                   starter, adv, req, bounds, usurped, early, reopened, cut,
                   again>>

\* Mutant: one attempt too many.
FailLate(a, t) ==
    /\ at[a][t] \in {"gate", "work"}
    /\ \E terminal \in BOOLEAN :
          status' = [status EXCEPT ![t] =
                       IF terminal \/ attempts[t] > MaxAttempts
                       THEN "failed" ELSE "queued"]
    /\ Goto(a, t, "idle")
    /\ UNCHANGED <<deps, attempts, started, awaiting, decision, flow, stopped,
                   starter, adv, req, bounds, history>>

\* tasks.fail, whatever the status is by now.  At the gate a refusal
\* (permission not held, budget gone) is terminal; the agent's function and
\* what prepares its context may fail either way.
Fail(a, t) ==
    /\ at[a][t] \in {"gate", "work"}
    /\ \E terminal \in BOOLEAN :
          status' = [status EXCEPT ![t] =
                       IF terminal \/ attempts[t] >= MaxAttempts
                       THEN "failed" ELSE "queued"]
    /\ Goto(a, t, "idle")
    /\ UNCHANGED <<deps, attempts, started, awaiting, decision, flow, stopped,
                   starter, adv, req, bounds, history>>

\* Mutant: the Stage 0 spelling, which the table's CHECK still accepts.
ParkOldSpelling(a, t) ==
    /\ at[a][t] \in Category
    /\ status' = [status EXCEPT ![t] = "awaiting_approval"]
    /\ awaiting' = [awaiting EXCEPT ![t] = at[a][t]]
    /\ Goto(a, t, "idle")
    /\ UNCHANGED <<deps, attempts, started, decision, flow, stopped,
                   starter, adv, req, bounds, history>>

\* tasks.await_approval, whatever the status is by now.
Park(a, t) ==
    /\ at[a][t] \in Category
    /\ status' = [status EXCEPT ![t] = "waiting_approval"]
    /\ awaiting' = [awaiting EXCEPT ![t] = at[a][t]]
    /\ Goto(a, t, "idle")
    /\ UNCHANGED <<deps, attempts, started, decision, flow, stopped,
                   starter, adv, req, bounds, history>>

-----------------------------------------------------------------------------
(* routes/agents.py approve and reject, over approvals.py *)

\* The route reads the task: it must be waiting, and the category it parked
\* on is what the answer will be filed under.
Ask(r, t, answer) ==
    /\ req[r].pc = "idle"
    /\ status[t] = "waiting_approval"
    /\ answer = "approved" => ~stopped
    /\ req' = [req EXCEPT ![r] = [pc |-> "decide", task |-> t,
                                  answer |-> answer, category |-> awaiting[t]]]
    /\ UNCHANGED <<rows, flow, stopped, starter, adv, at, bounds, history>>

\* Mutant: ON CONFLICT DO UPDATE.
DecideAgain(r) ==
    /\ req[r].pc = "decide"
    /\ decision' = [decision EXCEPT ![req[r].task][req[r].category] = req[r].answer]
    /\ req' = [req EXCEPT ![r].pc = "apply"]
    /\ UNCHANGED <<status, deps, attempts, started, awaiting, flow, stopped,
                   starter, adv, at, bounds, history>>

\* approvals.decide: INSERT ... ON CONFLICT DO NOTHING.  A second answer is
\* refused (409) and the request ends.
Decide(r) ==
    LET t == req[r].task
        c == req[r].category IN
    /\ req[r].pc = "decide"
    /\ IF decision[t][c] = "none"
       THEN /\ decision' = [decision EXCEPT ![t][c] = req[r].answer]
            /\ req' = [req EXCEPT ![r].pc = "apply"]
       ELSE /\ req' = [req EXCEPT ![r] = IdleReq]
            /\ UNCHANGED decision
    /\ UNCHANGED <<status, deps, attempts, started, awaiting, flow, stopped,
                   starter, adv, at, bounds, history>>

\* Mutant: the yes is recorded and the task left where it is.
ApplyNothing(r) ==
    /\ req[r].pc = "apply" /\ req[r].answer = "approved"
    /\ req' = [req EXCEPT ![r].pc = "advance"]
    /\ UNCHANGED <<rows, flow, stopped, starter, adv, at, bounds, history>>

\* approvals.resume: back to the queue, if it is still waiting.
ApplyApproval(r) ==
    LET t == req[r].task IN
    /\ req[r].pc = "apply" /\ req[r].answer = "approved"
    /\ IF status[t] = "waiting_approval"
       THEN /\ status' = [status EXCEPT ![t] = "queued"]
            /\ reopened' = [reopened EXCEPT ![t] = @ \cup {req[r].category}]
       ELSE UNCHANGED <<status, reopened>>
    /\ req' = [req EXCEPT ![r].pc = "advance"]
    /\ UNCHANGED <<deps, attempts, started, awaiting, decision, flow, stopped,
                   starter, adv, at, bounds, usurped, early, delivered, cut,
                   again>>

\* approvals.abandon, first statement: the rejected task is cancelled.
ApplyRejection(r) ==
    LET t == req[r].task IN
    /\ req[r].pc = "apply" /\ req[r].answer = "rejected"
    /\ IF status[t] = "waiting_approval"
       THEN /\ status' = [status EXCEPT ![t] = "cancelled"]
            /\ req' = [req EXCEPT ![r].pc = "downstream"]
       ELSE /\ req' = [req EXCEPT ![r].pc = "advance"]
            /\ UNCHANGED status
    /\ UNCHANGED <<deps, attempts, started, awaiting, decision, flow, stopped,
                   starter, adv, at, bounds, history>>

\* approvals.abandon, second statement: what names the task as a dependency.
CancelDownstream(r) ==
    /\ req[r].pc = "downstream"
    /\ status' = [t \in Task |->
                    IF req[r].task \in deps[t] /\ status[t] \notin TERMINAL
                    THEN "cancelled" ELSE status[t]]
    /\ req' = [req EXCEPT ![r].pc = "advance"]
    /\ UNCHANGED <<deps, attempts, started, awaiting, decision, flow, stopped,
                   starter, adv, at, bounds, history>>

\* An approval advances the workflow detached; a rejection runs one wave.
\* Neither passes a gate.
AdvanceAfter(r, a) ==
    /\ req[r].pc = "advance"
    /\ Spawn(a, IF req[r].answer = "approved" THEN MaxWaves ELSE 1, FALSE)
    /\ req' = [req EXCEPT ![r] = IdleReq]
    /\ UNCHANGED <<rows, flow, stopped, starter, at, bounds, usurped,
                   delivered, reopened, cut, again>>

-----------------------------------------------------------------------------
(* resume.after_restart: at every start, and every minute *)

\* tasks.recover_stuck: one UPDATE over every running task whose started_at
\* is old enough.
Stuck == {t \in Task : status[t] = "running" /\ started[t] = "stale"}
Recover ==
    /\ Stuck # {}
    /\ status' = [t \in Task |-> IF t \notin Stuck THEN status[t]
                    ELSE IF attempts[t] < MaxAttempts THEN "queued" ELSE "failed"]
    /\ started' = [t \in Task |-> IF t \in Stuck THEN "null" ELSE started[t]]
    /\ usurped' = usurped \cup {t \in Stuck : Holders(t) # {}}
    /\ UNCHANGED <<deps, attempts, awaiting, decision, flow, stopped, starter,
                   adv, at, req, bounds, early, delivered, reopened, cut,
                   again>>

\* resume.abandon_old: the workflow is failed, its tasks are left alone.
Abandon ==
    /\ wf \notin TERMINAL /\ wfOld
    /\ wf' = "failed" /\ wfOld' = FALSE
    /\ UNCHANGED <<rows, stopped, starter, adv, at, req, bounds, history>>

\* Mutant: a task still marked blocked is not work left to do.
UnfinishedQueued ==
    /\ wf \notin TERMINAL /\ ~wfOld
    /\ \E t \in Task : status[t] = "queued"

\* resume.unfinished: an open workflow, not too old, with work left to do.
Unfinished ==
    /\ wf \notin TERMINAL /\ ~wfOld
    /\ \E t \in Task : status[t] \in Claimable
\* resume_all: a detached run, whether or not one is already going on.
Resume(a) ==
    /\ Unfinished
    /\ TickInStart \/ starter \in {"done", "dead"}
    /\ Spawn(a, MaxWaves, Gated)
    /\ UNCHANGED <<rows, flow, stopped, starter, at, req, bounds, usurped,
                   delivered, reopened, cut, again>>

-----------------------------------------------------------------------------
(* The world *)

\* Fifteen minutes after started_at.  Unless SlowSteps, only while no runner
\* has the task: no single step takes that long.
AgeTask(t) ==
    /\ started[t] = "fresh"
    /\ SlowSteps \/ Holders(t) = {}
    /\ started' = [started EXCEPT ![t] = "stale"]
    /\ UNCHANGED <<status, deps, attempts, awaiting, decision, flow, stopped,
                   starter, adv, at, req, bounds, history>>

\* Six hours without a write to the workflow's row.
AgeFlow ==
    /\ ~wfOld /\ wf \notin TERMINAL
    /\ \A a \in Advancer : adv[a].pc = "idle"
    /\ wfOld' = TRUE
    /\ UNCHANGED <<rows, wf, stopped, starter, adv, at, req, bounds, history>>

\* set_stopped, from the dashboard.
ToggleStop ==
    /\ stops < MaxStops
    /\ stops' = stops + 1
    /\ stopped' = ~stopped
    /\ UNCHANGED <<rows, flow, starter, adv, at, req, crashes, history>>

\* Yeses recorded, whose request has yet to put the task back.
Applying == {<<req[r].task, req[r].category>> :
               r \in {q \in Request : /\ req[q].pc = "apply"
                                      /\ req[q].answer = "approved"}}

\* The process dies and is started again.
Crash ==
    /\ crashes < MaxCrashes
    /\ crashes' = crashes + 1
    /\ starter' = IF starter = "done" THEN "done" ELSE "dead"
    /\ adv' = [a \in Advancer |-> IdleAdv]
    /\ at' = [a \in Advancer |-> [t \in Task |-> "idle"]]
    /\ req' = [r \in Request |-> IdleReq]
    /\ cut' = cut \cup Applying
    /\ UNCHANGED <<rows, flow, stopped, stops, usurped, early, delivered,
                   reopened, again>>

-----------------------------------------------------------------------------
StartNext ==
    \/ StartEmpty
    \/ \E t \in Task : CreateTask(t) \/ WireTask(t)
    \/ \E a \in Advancer : StartDone(a)

AdvanceNext(a) ==
    \/ Look(a) \/ WaveDone(a) \/ CancelTasks(a) \/ CancelFlow(a)
    \/ Settle(a) \/ WriteStatus(a)

RunTask(a, t) ==
    \/ FailUnclaimed(a, t) \/ Claim(a, t) \/ ClaimLost(a, t)
    \/ PassGate(a, t) \/ AskInside(a, t) \/ Complete(a, t) \/ Fail(a, t)
    \/ Park(a, t)

Answer(r) ==
    \/ Decide(r) \/ ApplyApproval(r) \/ ApplyRejection(r)
    \/ CancelDownstream(r)
    \/ \E a \in Advancer : AdvanceAfter(r, a)

Owner ==
    \/ \E r \in Request, t \in Task, answer \in {"approved", "rejected"} :
          Ask(r, t, answer)
    \/ ToggleStop

Housekeeping == Recover \/ Abandon \/ \E a \in Advancer : Resume(a)

World == AgeFlow \/ Crash \/ \E t \in Task : AgeTask(t)

Next ==
    \/ StartNext
    \/ \E a \in Advancer : AdvanceNext(a) \/ \E t \in Task : RunTask(a, t)
    \/ \E r \in Request : Answer(r)
    \/ Owner \/ Housekeeping \/ World

Spec == Init /\ [][Next]_vars

\* The event loop runs every coroutine on, every request is served, and the
\* minute's tick comes round.  Nothing is assumed of the owner, of crashes or
\* of the agents.
Fairness ==
    /\ WF_vars(StartNext)
    /\ \A a \in Advancer :
          /\ WF_vars(AdvanceNext(a))
          /\ \A t \in Task : WF_vars(RunTask(a, t))
    /\ \A r \in Request : WF_vars(Answer(r))
    /\ WF_vars(Recover)
    /\ WF_vars(Abandon)
    /\ WF_vars(\E a \in Advancer : Resume(a))

FairSpec == Spec /\ Fairness

-----------------------------------------------------------------------------
AdvRecord == [pc : {"idle", "look", "wave", "cancel", "cancelled", "settle",
                    "write"},
              left : 0..MaxWaves, gated : BOOLEAN, verdict : WorkflowStatus]
ReqRecord == [pc : {"idle", "decide", "apply", "downstream", "advance"},
              task : Task, answer : {"approved", "rejected"},
              category : Category \cup {NoCategory}]

RowsOK ==
    /\ status \in [Task -> Status]
    /\ deps \in [Task -> SUBSET Task]
    /\ attempts \in [Task -> Nat]
    /\ started \in [Task -> {"null", "fresh", "stale"}]
    /\ awaiting \in [Task -> Category \cup {NoCategory}]
    /\ decision \in [Task -> [Category -> {"none", "approved", "rejected"}]]
FlowOK ==
    /\ wf \in WorkflowStatus /\ wfOld \in BOOLEAN /\ stopped \in BOOLEAN
    /\ crashes \in 0..MaxCrashes /\ stops \in 0..MaxStops
CoroutinesOK ==
    /\ starter \in {"create", "wire", "done", "dead"}
    /\ adv \in [Advancer -> AdvRecord]
    /\ at \in [Advancer -> [Task -> RunPC]]
    /\ req \in [Request -> ReqRecord]
HistoryOK ==
    /\ usurped \in SUBSET Task /\ early \in BOOLEAN
    /\ delivered \in SUBSET Task
    /\ reopened \in [Task -> SUBSET (Category \cup {NoCategory})]
    /\ cut \subseteq Task \X (Category \cup {NoCategory})
    /\ again \subseteq Task \X Category
TypeOK == RowsOK /\ FlowOK /\ CoroutinesOK /\ HistoryOK

Approved(t) == {c \in Category : decision[t][c] = "approved"}

\* No agent works on a task, and no result is written for it, unless the
\* owner said yes to every category that task must ask about (approvals.py
\* and permissions.require_approval; a resumed task passes the same gate).
OwnerGate ==
    \A t \in Task :
       (t \in delivered \/ \E a \in Advancer : at[a][t] = "work")
          => Needs[t] \subseteq Approved(t)

\* tasks.claim hands a task to one runner: two calls of advance never hold
\* the same task, unless recover_stuck put it back under a live runner or
\* its dependencies were wired after an advance had begun.
SingleRunner ==
    \A t \in Task : \A a, b \in Advancer :
       /\ t \notin usurped /\ ~early
       /\ at[a][t] \in Held /\ at[b][t] \in Held
       => a = b

\* A runner holds a task only after every step the plan puts before it has
\* delivered a result (tasks.runnable), provided the graph was wired before
\* anything advanced it.
OrderRespected ==
    \A t \in Task :
       ~early /\ Holders(t) # {} => After[t] \subseteq delivered

\* A workflow is reported completed only when each step of its plan has
\* delivered a result (_settle), whatever happened between its reads and its
\* write.
CompletedMeansAll ==
    ~early /\ wf = "completed" => delivered = Task

Slack(t) == IF early /\ After[t] # {} THEN 1 ELSE 0

\* The bound of tasks.fail holds across retries, recoveries and approvals: a
\* task is claimed at most max_attempts times, and once more for each
\* category the owner approved.
AttemptsBounded ==
    \A t \in Task :
       attempts[t] <= MaxAttempts + Cardinality(Approved(t)) + Slack(t)

\* The engine keeps the promise of GatedWork.
Working == {t \in Task : \E a \in Advancer : at[a][t] = "work"}
Promise == INSTANCE GatedWork
    WITH answer <- decision, working <- Working, tries <- attempts,
         Extra <- [t \in Task |-> IF After[t] # {} THEN 1 ELSE 0]
KeepsPromise == Promise!Spec

-----------------------------------------------------------------------------
\* Work that can run, of a workflow still open, does not wait for ever: the
\* minute's tick finds it even if the advance that was running it died
\* (resume.py).
RunnableIsServed ==
    \A t \in Task :
       (t \in Runnable /\ wf \notin TERMINAL)
          ~> ~(t \in Runnable /\ wf \notin TERMINAL)

\* t waits on a yes it already has, for none of three reasons: the process
\* died after that yes was kept and before the task was put back; the task's
\* own function asked again what was answered (runtime.run_task parks it, and
\* a second answer is refused); t had more than one runner, one of them late.
Stranded(t, c) ==
    /\ decision[t][c] = "approved"
    /\ status[t] = "waiting_approval" /\ awaiting[t] = c
    /\ <<t, c>> \notin cut \cup again
    /\ t \notin usurped /\ ~early

\* The owner's yes takes effect: a task does not stay at waiting_approval on
\* a category he approved (approvals.decide, then approvals.resume), but for
\* the reasons Stranded names.
ApprovalTakesEffect ==
    \A t \in Task, c \in Category : Stranded(t, c) ~> ~Stranded(t, c)

\* Why it does: whatever else runs, a request that holds this very yes is
\* about to put the task back (routes/agents.py approve, between decide and
\* resume).
YesIsUnderWay ==
    \A t \in Task, c \in Category : Stranded(t, c) => <<t, c>> \in Applying

\* recover_stuck never takes a task from a runner that is at work on it
\* (scheduler._pick_up_stalled_work: "cannot interrupt work that is
\* genuinely running").
NeverInterrupts == usurped = {}
=============================================================================
