----------------------------- MODULE MCStatCache -----------------------------
(***************************************************************************)
(* The instance of StatCache for TLC: threads are interchangeable.         *)
(***************************************************************************)
EXTENDS StatCache, TLC

Symmetry == Permutations(Thread)
=============================================================================
