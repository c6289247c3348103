----------------------------- MODULE MCSpending -----------------------------
(* Two steps side by side; the primary's key may be typed in, another is   *)
(* configured, and a model of the owner's own takes the cheap work.        *)
EXTENDS Spending

MCEnv == {"openai", "local"}
MCEdited == {"gemini"}
MCAllowed == {"cheap", "standard"}

\* Steps run, through one restart at most, while no key changes and nobody
\* else asks, or the other way round: the two meet only in who answers,
\* which no step looks at.
Apart ==
    \/ /\ table = NoKeys /\ changes <= 1
       /\ \A r \in Request : edit[r].at # "none" => edit[r].boot
       /\ \A c \in Call \ Runner : call[c].at = "idle"
    \/ \A t \in Task : task[t].attempts = 0

Interchangeable == Permutations(Runner) \cup Permutations(Request)
=============================================================================
