--------------------------- MODULE AtomicReference ---------------------------
(***************************************************************************)
(* What an atom promises (src/docs/LANGUAGE.md, section 9.1): each call of *)
(* swap!, reset!, compare-and-set!, deref, add-watch and remove-watch      *)
(* takes effect in one step between its call and its return, on what it    *)
(* finds there, and returns what that step computed.                       *)
(***************************************************************************)
CONSTANTS
    Ops,            \* the calls a program makes
    Values,
    InitialValue,
    F,              \* the function given to swap!, of [Values -> Values]
    Calls,          \* records with a kind and arguments
    NoCall,         \* the call of an op not yet made
    Pending,        \* the result of an op that has not taken effect
    Thrown,         \* the result of a swap! whose function threw
    TheAtom         \* the result of add-watch and remove-watch

VARIABLES
    value,
    registered,     \* the watches: a map from keys to the ops that added them
    call,           \* call[o]
    result,         \* result[o]: what o returns, once it took effect
    returned        \* the ops that returned

vars == <<value, registered, call, result, returned>>

Init ==
    /\ value = InitialValue
    /\ registered = [k \in {} |-> NoCall]
    /\ call = [o \in Ops |-> NoCall]
    /\ result = [o \in Ops |-> Pending]
    /\ returned = {}

Call(o, c) ==
    /\ call[o] = NoCall
    /\ call' = [call EXCEPT ![o] = c]
    /\ UNCHANGED <<value, registered, result, returned>>

SetValue(o, v, r) ==
    /\ value' = v
    /\ result' = [result EXCEPT ![o] = r]
    /\ UNCHANGED registered

SetWatches(o, map) ==
    /\ registered' = map
    /\ result' = [result EXCEPT ![o] = TheAtom]
    /\ UNCHANGED value

TakeEffect(o) ==
    LET c == call[o] IN
    /\ c # NoCall
    /\ result[o] = Pending
    /\ \/ c.kind = "swap" /\ SetValue(o, F[value], F[value])
       \/ c.kind = "swap" /\ SetValue(o, value, Thrown)
       \/ c.kind = "reset" /\ SetValue(o, c.arg, c.arg)
       \/ c.kind = "cas" /\ value = c.expected /\ SetValue(o, c.arg, TRUE)
       \/ c.kind = "cas" /\ value # c.expected /\ SetValue(o, value, FALSE)
       \/ c.kind = "deref" /\ SetValue(o, value, value)
       \/ c.kind = "add" /\ SetWatches(o, [k \in DOMAIN registered \cup {c.arg} |->
                                             IF k = c.arg THEN o ELSE registered[k]])
       \/ c.kind = "remove" /\ SetWatches(o, [k \in DOMAIN registered \ {c.arg} |->
                                                registered[k]])
    /\ UNCHANGED <<call, returned>>

Return(o) ==
    /\ result[o] # Pending
    /\ returned' = returned \cup {o}
    /\ UNCHANGED <<value, registered, call, result>>

Next ==
    \E o \in Ops :
        \/ \E c \in Calls : Call(o, c)
        \/ TakeEffect(o)
        \/ Return(o)

Spec == Init /\ [][Next]_vars
=============================================================================
