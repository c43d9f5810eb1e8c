------------------------------- MODULE Actor -------------------------------
(***************************************************************************)
(* What a protoClojure program may rely on when it sends to actors         *)
(* (docs/tutorial/13-actors.md): a send adds a message to one of the three *)
(* bands of an actor, and the actor handles the oldest message of some     *)
(* band, one message at a time and each from the state the previous one    *)
(* left.  Which band goes first is not promised.                           *)
(***************************************************************************)
EXTENDS Integers, Sequences

CONSTANTS Actors, Messages

VARIABLES
    pending,    \* pending[a][b]: the messages sent and not handled, oldest first
    value,      \* value[a]: the messages folded into the state since it was nil
    issued      \* the messages sent so far

vars == <<pending, value, issued>>

Init ==
    /\ pending = [a \in Actors |-> [b \in 0..2 |-> <<>>]]
    /\ value = [a \in Actors |-> <<>>]
    /\ issued = {}

Send(a, b, m) ==
    /\ m \notin issued
    /\ issued' = issued \cup {m}
    /\ pending' = [pending EXCEPT ![a][b] = Append(@, m)]
    /\ UNCHANGED value

\* The handler gives a new state, or throws and leaves nil.
Handle(a, b) ==
    /\ pending[a][b] # <<>>
    /\ pending' = [pending EXCEPT ![a][b] = Tail(@)]
    /\ \/ value' = [value EXCEPT ![a] = Append(@, Head(pending[a][b]))]
       \/ value' = [value EXCEPT ![a] = <<>>]
    /\ UNCHANGED issued

Next ==
    \E a \in Actors, b \in 0..2 :
        Handle(a, b) \/ \E m \in Messages : Send(a, b, m)

Spec == Init /\ [][Next]_vars
=============================================================================
