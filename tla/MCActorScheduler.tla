-------------------------- MODULE MCActorScheduler --------------------------
(* The instances of ActorScheduler that TLC checks. *)
EXTENDS ActorScheduler, TLC

\* Safe for invariants: nothing in the specification tells the elements of
\* these sets apart.
Symmetry ==
    Permutations(Workers) \cup Permutations(Messages) \cup Permutations(Actors)
=============================================================================
