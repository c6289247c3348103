---------------------------- MODULE MCDevChanges ----------------------------
(***************************************************************************)
(* Two builds of one request; files of the lowest, a middling and the      *)
(* protected level.                                                        *)
(***************************************************************************)
EXTENDS DevChanges, TLC

Sym == Permutations(Build)
=============================================================================
