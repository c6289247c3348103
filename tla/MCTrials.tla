------------------------------ MODULE MCTrials ------------------------------
(***************************************************************************)
(* Two versions that may each be tried against the other.  One worker runs *)
(* the tasks a trial takes, the other the rest.                            *)
(***************************************************************************)
EXTENDS Trials, TLC

Sym == Permutations(Call)

MCPerms == 1 :> {"read"} @@ 2 :> {"read"}
MCTakes == "a" :> TRUE @@ "b" :> FALSE
=============================================================================
