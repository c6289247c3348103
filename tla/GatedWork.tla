------------------------------ MODULE GatedWork ------------------------------
(***************************************************************************)
(* What the task engine promises its owner, whatever the scheduling:       *)
(* an agent works on a task only once every category the task needs has    *)
(* been approved for that very task; an answer, once given, is final; and  *)
(* a task is tried a bounded number of times, one more for each approval   *)
(* (and for each late wiring of its dependencies, see Extra).              *)
(***************************************************************************)
EXTENDS Integers, FiniteSets

CONSTANTS
    Task,
    Category,
    Needs,         \* Needs[t]: categories t must be approved for
    MaxAttempts,
    Extra          \* Extra[t]: tries t may have on top

VARIABLES
    answer,        \* the owner's answer per task and category
    working,       \* tasks an agent is at work on
    tries          \* how often a task has been claimed

vars == <<answer, working, tries>>

Approved(t) == {c \in Category : answer[t][c] = "approved"}
Allowed(t) == MaxAttempts + Cardinality(Approved(t)) + Extra[t]

Init ==
    /\ answer = [t \in Task |-> [c \in Category |-> "none"]]
    /\ working = {}
    /\ tries = [t \in Task |-> 0]

\* The owner answers, once.
Answer(t, c) ==
    /\ answer[t][c] = "none"
    /\ \E d \in {"approved", "rejected"} :
          answer' = [answer EXCEPT ![t][c] = d]
    /\ UNCHANGED <<working, tries>>

Try(t) ==
    /\ tries[t] < Allowed(t)
    /\ tries' = [tries EXCEPT ![t] = @ + 1]
    /\ UNCHANGED <<answer, working>>

Begin(t) ==
    /\ Needs[t] \subseteq Approved(t)
    /\ working' = working \cup {t}
    /\ UNCHANGED <<answer, tries>>

\* Work ends, for one task or, in a crash, for several.
End ==
    /\ working' \in SUBSET working
    /\ UNCHANGED <<answer, tries>>

Next ==
    \/ \E t \in Task : Try(t) \/ Begin(t) \/ \E c \in Category : Answer(t, c)
    \/ End

Spec == Init /\ [][Next]_vars
=============================================================================
