------------------------------ MODULE MCFutures ------------------------------
(***************************************************************************)
(* Small instances of Futures.                                             *)
(***************************************************************************)
EXTENDS Futures, TLC

Symmetry == Permutations(Tasks) \cup Permutations(Values)
=============================================================================
