------------------------------ MODULE MCLazySeq ------------------------------
(***************************************************************************)
(* Small instances of LazySeq.                                             *)
(***************************************************************************)
EXTENDS LazySeq, TLC

CONSTANTS l1, l2, l3

MCSeqs == {l1, l2, l3}

\* A seq of Clojure code that reads itself, directly and through the native
\* step l2, which also reads the Clojure code of l3.
SelfReading == (l1 :> {l1, l2}) @@ (l2 :> {l1, l3}) @@ (l3 :> {})

\* Two seqs of Clojure code that read each other.
Mutual == (l1 :> {l2}) @@ (l2 :> {l1}) @@ (l3 :> {})

Symmetry == Permutations(Threads) \cup Permutations(Values)
=============================================================================
