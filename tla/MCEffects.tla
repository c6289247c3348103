------------------------------ MODULE MCEffects ------------------------------
(* Two tasks and two runners are interchangeable; what is done to a page is  *)
(* a field to fill in and a button.                                        *)
EXTENDS Browsing, TLC

MCPlan == <<"type", "click">>

\* A task on a page shares nothing with the other tasks: it is alone.
Alone ==
    \A t \in Task : job[t] = "page" =>
        \A u \in Task \ {t} : job[u] # "page" /\ task[u].tries = 0

Symmetry == Permutations(Task) \cup Permutations(Runner)
=============================================================================
