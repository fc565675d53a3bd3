----------------------------- MODULE MCRequests -----------------------------
(***************************************************************************)
(* Requests with threads and handles that are alike.                       *)
(***************************************************************************)
EXTENDS Requests, TLC

Symmetry == Permutations(Thread) \cup Permutations(Handle)
=============================================================================
