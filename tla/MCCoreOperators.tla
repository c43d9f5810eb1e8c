--------------------------- MODULE MCCoreOperators ---------------------------
(* Instances of CoreOperators for TLC.                                     *)
EXTENDS CoreOperators, TLC

\* No thread, and no value but the built-in, is special.
Symmetry == Permutations(Threads) \cup Permutations(Values \ {Core})

=============================================================================
