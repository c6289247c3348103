------------------------------ MODULE Spending ------------------------------
(***************************************************************************)
(* agents/runtime.py, cost.py, model_router.py and performance.py: the     *)
(* money of one workflow.  Steps of a wave run side by side; each looks at *)
(* what is left, is given a model, asks whoever answers (Providers), and   *)
(* is charged, to its task and then to the workflow.  How it went is       *)
(* recorded against the model it was given.                                *)
(*                                                                         *)
(* The steps are those of TaskEngine, seen from the purse: their order,    *)
(* gates and answers are left to that module.                              *)
(***************************************************************************)
EXTENDS Providers, FiniteSets, FiniteSetsExt, Functions

CONSTANTS
    Runner,         \* the calls that steps of the workflow make
    Task,           \* the steps of the workflow
    Cheap, Risky,   \* steps planned for the cheap tier, and of high risk
    Allowed,        \* model_tiers of the agent
    MaxAttempts,    \* max_attempts of a task
    Budget,         \* budget_inr of the workflow, in units of half a rupee
    MaxPrice,       \* the most that one answer costs (bound)
    Enough          \* ENOUGH of performance.py

Tier == {"cheap", "standard", "deep"}
Estimate == 1       \* Rs. 0.5, for a task without a budget of its own
Rupee == 2

ASSUME SpendingAssumption ==
    /\ Runner \subseteq Call
    /\ Cheap \subseteq Task /\ Risky \subseteq Task /\ Allowed \subseteq Tier
    /\ {MaxAttempts, Budget, Enough} \subseteq Nat /\ MaxPrice \in Nat \ {0}
    /\ IsFiniteSet(Task) /\ IsFiniteSet(Runner) /\ Task # {} /\ Runner # {}

VARIABLES
    task,       \* rows of tasks
    flow,       \* workflows.spend_inr
    run,        \* run_task, one to a call
    measured,   \* agent_metrics that name a model
    \* history
    handed,     \* runs in which a model was given the work
    cut,        \* charged to a task when the process stopped
    adrift      \* charged to a task, while the workflow's UPDATE failed

purse == <<task, flow, run, measured, handed, cut, adrift>>
allvars == <<vars, purse>>

Free == [at |-> "free", task |-> CHOOSE t \in Task : TRUE, label |-> Nobody,
         amount |-> 0]

SpendingInit ==
    /\ Init
    /\ task = [t \in Task |-> [status |-> "queued", attempts |-> 0, spend |-> 0]]
    /\ flow = 0
    /\ run = [c \in Runner |-> Free]
    /\ measured = [p \in ToSet(Real) |-> [runs |-> 0, wins |-> 0]]
    /\ handed = [p \in ToSet(Real) |-> 0]
    /\ cut = 0 /\ adrift = 0

-----------------------------------------------------------------------------
(* Routing *)

Raised(tier) == IF tier = "cheap" THEN "standard" ELSE "deep"

\* worst_of(history): somebody with enough runs wins fewer than POOR of them.
Struggling ==
    \E p \in ToSet(Real) :
        measured[p].runs >= Enough /\ 10 * measured[p].wins < 6 * measured[p].runs

Best(tiers) ==
    CASE "deep" \in tiers -> "deep"
      [] "deep" \notin tiers /\ "standard" \in tiers -> "standard"
      [] OTHER -> "cheap"

\* model_router.choose: measurements, risk, the agent's tiers, then money.
Chosen(t, left) ==
    LET planned == IF t \in Cheap THEN "cheap" ELSE "standard"
        learned == IF Struggling THEN Raised(planned) ELSE planned
        weighed == IF t \in Risky THEN "deep" ELSE learned
        allowed == IF Allowed = {} \/ weighed \in Allowed THEN weighed ELSE Best(Allowed)
    IN  IF left < Rupee /\ allowed = "deep" THEN "standard" ELSE allowed

\* _model_for: the label that the step is priced and measured under.
ModelFor(tier) == IF tier = "cheap" /\ "local" \in Env THEN "local" ELSE Primary

\* provider_rates: two are priced, by the tokens of the answer.
Prices(label) == IF label \in {"claude", "gemini"} THEN 1..MaxPrice ELSE {0}

-----------------------------------------------------------------------------
(* run_task *)

CallsAside == UNCHANGED vars

Take(c, t) ==
    /\ run[c].at = "free" /\ call[c].at = "idle"
    /\ \E i \in Process : Serving(i)
    /\ task[t].status = "queued"
    /\ task' = [task EXCEPT ![t].status = "running", ![t].attempts = @ + 1]
    /\ run' = [run EXCEPT ![c] = [Free EXCEPT !.at = "taken", !.task = t]]
    /\ CallsAside /\ UNCHANGED <<flow, measured, handed, cut, adrift>>

\* Mutant: nobody looks.
Unguarded == TRUE

\* cost.affordable
Affordable == Budget - flow >= Estimate

Afford(c) ==
    /\ run[c].at = "taken" /\ Affordable
    /\ run' = [run EXCEPT ![c].at = "afforded"]
    /\ CallsAside /\ UNCHANGED <<task, flow, measured, handed, cut, adrift>>

Route(c) ==
    /\ run[c].at = "afforded"
    /\ run' = [run EXCEPT ![c].at = "routed",
                          ![c].label = ModelFor(Chosen(run[c].task, Budget - flow))]
    /\ CallsAside /\ UNCHANGED <<task, flow, measured, handed, cut, adrift>>

\* Past this line the model has the work.
Hand(c) ==
    /\ run[c].at = "routed"
    /\ \E i \in Process : AskAgent(c, i)
    /\ run' = [run EXCEPT ![c].at = "handed"]
    /\ handed' = [handed EXCEPT ![run[c].label] = @ + 1]
    /\ UNCHANGED <<task, flow, measured, cut, adrift>>

\* `attributed`
Attributed(c) == run[c].at \in {"handed", "between", "charged"}

\* _measure, of a run that did or did not succeed
Measure(c, won) ==
    measured' = IF ~Attributed(c) THEN measured
                ELSE [measured EXCEPT ![run[c].label].runs = @ + 1,
                                      ![run[c].label].wins = @ + won]

\* Mutant: the next attempt starts from an empty row.
StartedAfresh(t, terminal) ==
    [task EXCEPT ![t].spend = 0, ![t].status =
        IF terminal \/ task[t].attempts >= MaxAttempts THEN "failed" ELSE "queued"]

\* tasks.fail
Failed(t, terminal) ==
    [task EXCEPT ![t].status =
        IF terminal \/ task[t].attempts >= MaxAttempts THEN "failed" ELSE "queued"]

\* Refused for want of money, or for a permission, or no implementation is
\* loaded: for good, and before anybody had the work.
Refuse(c) ==
    /\ \/ run[c].at = "taken"
       \/ run[c].at = "routed"
    /\ task' = Failed(run[c].task, TRUE)
    /\ Measure(c, 0)
    /\ run' = [run EXCEPT ![c] = Free]
    /\ CallsAside /\ UNCHANGED <<flow, handed, cut, adrift>>

\* Charged to its task and not, yet, to the workflow.
Owed(c) == IF run[c].at = "between" THEN run[c].amount ELSE 0

\* Anything else that goes wrong: before the model has the work, in its
\* answer, in what the agent makes of it, which may be for good (retryable),
\* or a statement that fails while it is charged or completed.  What was
\* asked is not charged, and what was charged to the task stays so.
Fail(c) ==
    /\ \/ run[c].at \in {"taken", "afforded", "between", "charged"}
       \/ run[c].at = "handed" /\ call[c].at \in {"answered", "failed"}
    /\ \E terminal \in (IF run[c].at = "handed" THEN BOOLEAN ELSE {FALSE}) :
          task' = Failed(run[c].task, terminal)
    /\ Measure(c, 0)
    /\ adrift' = adrift + Owed(c)
    /\ run' = [run EXCEPT ![c] = Free]
    /\ IF Attributed(c) THEN Done(c) ELSE CallsAside
    /\ UNCHANGED <<flow, handed, cut>>

\* cost.charge: two statements, the task's and the workflow's.
ChargeTask(c) ==
    /\ run[c].at = "handed" /\ call[c].at = "answered"
    /\ \E amount \in Prices(run[c].label) :
          /\ task' = [task EXCEPT ![run[c].task].spend = @ + amount]
          /\ run' = [run EXCEPT ![c].amount = amount,
                                ![c].at = IF amount = 0 THEN "charged" ELSE "between"]
    /\ CallsAside /\ UNCHANGED <<flow, measured, handed, cut, adrift>>

ChargeFlow(c) ==
    /\ run[c].at = "between"
    /\ flow' = flow + run[c].amount
    /\ run' = [run EXCEPT ![c].at = "charged", ![c].amount = 0]
    /\ CallsAside /\ UNCHANGED <<task, measured, handed, cut, adrift>>

\* tasks.complete, and how it went
Complete(c) ==
    /\ run[c].at = "charged"
    /\ task' = [task EXCEPT ![run[c].task].status = "completed"]
    /\ measured' = [measured EXCEPT ![run[c].label] =
                       [runs |-> @.runs + 1, wins |-> @.wins + 1]]
    /\ run' = [run EXCEPT ![c] = Free]
    /\ Done(c)
    /\ UNCHANGED <<flow, handed, cut, adrift>>

\* recover_stuck, once the process serves: left running by one that stopped.
Recover(t) ==
    /\ \E i \in Process : Serving(i)
    /\ task[t].status = "running" /\ \A c \in Runner : run[c].at # "free" => run[c].task # t
    /\ task' = Failed(t, FALSE)
    /\ CallsAside /\ UNCHANGED <<flow, run, measured, handed, cut, adrift>>

\* What tasks were charged and the workflow was not, yet.
HalfMade == SumFunction([c \in Runner |-> Owed(c)])

\* The process stops wherever its runs were.
Crash(r, i) ==
    /\ Restart(r, i)
    /\ call' = Survivors(i)
    /\ run' = [c \in Runner |-> Free]
    /\ cut' = cut + HalfMade
    /\ UNCHANGED <<task, flow, measured, handed, adrift>>

Step(c) ==
    \/ \E t \in Task : Take(c, t)
    \/ Afford(c) \/ Route(c) \/ Hand(c) \/ Refuse(c) \/ Fail(c)
    \/ ChargeTask(c) \/ ChargeFlow(c) \/ Complete(c)

SpendingNext ==
    \/ \E c \in Runner : Step(c)
    \/ \E t \in Task : Recover(t)
    \/ \E r \in Request, i \in Process : Crash(r, i)
    \/ /\ \/ KeyStep
          \/ \E c \in Call \ Runner : CallStep(c)
          \/ \E c \in Runner : Again(c) \/ Answer(c) \/ NoAnswer(c)
       /\ UNCHANGED purse

SpendingSpec == SpendingInit /\ [][SpendingNext]_allvars

-----------------------------------------------------------------------------
(* Properties *)

\* "Checked BEFORE spending, not after" (cost.py:71), but by each step for
\* itself: a workflow goes over its budget by no more than the steps that
\* run side by side cost, less what one of them was estimated at.
OverspendBounded == flow <= Budget - Estimate + Cardinality(Runner) * MaxPrice

\* "A task rolls up to a workflow" (cost.py:4): what the workflow has spent
\* is what its tasks have, but for a charge that is half made, was cut by the
\* end of the process, or whose second statement failed; then the task goes
\* on, and only the workflow, which is what the budget looks at, never learns
\* of it.  And no model is held to account for more runs than it was given: a
\* refusal, or a failure on the way to it, "is JARVIS's failure"
\* (runtime.py:98).
BooksAreTrue ==
    /\ SumFunction([t \in Task |-> task[t].spend]) = flow + cut + adrift + HalfMade
    /\ \A p \in ToSet(Real) : measured[p].runs <= handed[p]
=============================================================================
