------------------------------- MODULE MCLive -------------------------------
(* Two calls, the later one with the id() of the earlier, once nothing refers  *)
(* to that any more.  Calls at once share nothing, their ids being their own.  *)
EXTENDS Live
=============================================================================
