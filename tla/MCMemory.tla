------------------------------ MODULE MCMemory ------------------------------
(* A typed exchange in which the owner tells two things, and beside or       *)
(* after it one that is spoken, opens a site or is for his device, in which  *)
(* only the reply may repeat them.                                           *)
EXTENDS Memory, TLC

Exchanges == {1, 2}
MCSays(e) == IF e = 1 THEN Thing ELSE {}
MCKinds(e) == IF e = 1 THEN {"typed"} ELSE {"spoken", "opened", "device"}

Alike == Permutations(Thing) \cup Permutations(Work)
=============================================================================
