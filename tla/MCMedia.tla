------------------------------ MODULE MCMedia ------------------------------
(* One piece, on small bounds. *)
EXTENDS Media
=============================================================================
