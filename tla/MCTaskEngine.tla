---------------------------- MODULE MCTaskEngine ----------------------------
(***************************************************************************)
(* Small instances of the task engine: a chain of two or three steps whose *)
(* first or second asks the owner before publishing.                       *)
(***************************************************************************)
EXTENDS TaskEngine, TLC

CONSTANTS t1, t2, t3, pub, a1, a2, r1

\* The plan is the chain t1, t2, t3.
MCAfter == [t \in Task |-> CASE t = t2 -> {t1}
                             [] t = t3 -> {t2}
                             [] OTHER -> {}]

\* One step asks before it publishes: the last of two, the first of three.
MCNeeds == [t \in Task |-> IF t = (IF t3 \in Task THEN t1 ELSE t2)
                           THEN {pub} ELSE {}]

\* The first step's own function asks about the same category.
MCInside == [t \in Task |-> IF t = t1 THEN {pub} ELSE {}]

Sym == Permutations(Advancer)
=============================================================================
