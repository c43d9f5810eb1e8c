------------------------------- MODULE MCAtoms -------------------------------
(***************************************************************************)
(* Small instances of Atoms.                                               *)
(***************************************************************************)
EXTENDS Atoms, TLC

CONSTANTS v0, v1, k1, k2

MCValues == {v0, v1}

\* (swap! a next): toggles, so that the atom comes back to old values.
MCF == (v0 :> v1) @@ (v1 :> v0)

Swap == [kind |-> "swap"]
Deref == [kind |-> "deref"]
Reset(v) == [kind |-> "reset", arg |-> v]
CompareAndSet(e, v) == [kind |-> "cas", expected |-> e, arg |-> v]
AddWatch(k) == [kind |-> "add", arg |-> k]
RemoveWatch(k) == [kind |-> "remove", arg |-> k]

\* Updates of the value, and changes of the watches around them.
MCCalls ==
    {Swap, Deref, Reset(v1), CompareAndSet(v0, v1), AddWatch(k1), RemoveWatch(k1),
     AddWatch(k2)}

=============================================================================
