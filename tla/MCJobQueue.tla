---------------------------- MODULE MCJobQueue -----------------------------
(***************************************************************************)
(* Finite instances of JobQueue for TLC.                                   *)
(***************************************************************************)
EXTENDS JobQueue, TLC

Symmetry == Permutations(Slots) \cup Permutations(Jobs \ Foreign)
=============================================================================
