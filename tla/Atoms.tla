-------------------------------- MODULE Atoms --------------------------------
(***************************************************************************)
(* One atom and its watches (src/src/runtime/Primitives.cpp: atom, deref,  *)
(* reset!, swap!, compare-and-set!, add-watch, remove-watch, fireWatches). *)
(*                                                                         *)
(* A step of the model is one access to the attributes of the atom that    *)
(* other threads write, or the return of Clojure code.  The function of a  *)
(* swap! and the watches are opaque code that may itself call any of these *)
(* primitives on the same atom, and that returns or throws; so a thread    *)
(* has a stack of calls.  Values are immediate (numbers, keywords): equal  *)
(* means identical, and an atom can hold again a value it held before.     *)
(* A call with a wrong argument throws before it touches the atom and is   *)
(* left out.                                                               *)
(***************************************************************************)
EXTENDS Naturals, Sequences, FiniteSets

CONSTANTS
    Threads,
    Ops,            \* the calls of a behaviour, each made at most once
    Keys,           \* the keys of watches
    Values,
    InitialValue,   \* the argument of (atom initial-value)
    F,              \* the function given to swap!, of [Values -> Values]
    Calls,          \* the calls a program makes
    NoCall, NoValue, Pending, Thrown, TheAtom

ASSUME ValuesAssumption ==
    /\ InitialValue \in Values
    /\ F \in [Values -> Values]

Kinds == {"swap", "reset", "cas", "deref", "add", "remove"}

ASSUME CallsAssumption ==
    /\ \A c \in Calls :
         /\ c.kind \in Kinds
         /\ c.kind = "reset" => c.arg \in Values
         /\ c.kind = "cas" => c.arg \in Values /\ c.expected \in Values
         /\ c.kind \in {"add", "remove"} => c.arg \in Keys
    /\ NoCall \notin Calls

\* No answer of a call looks like the absence of one.
ASSUME ResultsAssumption == Pending \notin Values \cup {Thrown, TheAtom, TRUE, FALSE}

VARIABLES
    value,      \* __value__
    watches,    \* __watches__: an immutable map, with the identity that a
                \*   compare-and-set compares: [id, map], map from keys to fns
    stack,      \* stack[t]: the calls thread t is in, the innermost last
    call,       \* call[o]
    pc,         \* pc[o]: where the call is
    old,        \* old[o]: the local `old' (`expected' of compare-and-set!)
    new,        \* new[o]: the local `neu' (`nv')
    base,       \* base[o]: the local `old' of add-watch and remove-watch
    todo,       \* todo[o]: the list of fireWatches, from the loop's index on
    result,     \* result[o]: what the call answers
    \* History, read by no action of the code:
    update,     \* update[o]: <<old, new>> of o's update of the value
    notified,   \* notified[o]: the watch calls o made, in order
    owed,       \* owed[o]: watches registered since before o's update
    seen        \* seen[o]: watches registered at o's update or later

locals == <<call, pc, old, new, base, todo, result>>
ghosts == <<update, notified, owed, seen>>
vars == <<value, watches, stack, locals, ghosts>>

\* A watch function is named by the call of add-watch that registered it.
Entries(map) == {<<k, map[k]>> : k \in DOMAIN map}

Init ==
    /\ value = InitialValue
    /\ watches = [id |-> 0, map |-> [k \in {} |-> NoCall]]
    /\ stack = [t \in Threads |-> <<>>]
    /\ call = [o \in Ops |-> NoCall]
    /\ pc = [o \in Ops |-> "unborn"]
    /\ old = [o \in Ops |-> NoValue]
    /\ new = [o \in Ops |-> NoValue]
    /\ base = [o \in Ops |-> [id |-> 0, map |-> [k \in {} |-> NoCall]]]
    /\ todo = [o \in Ops |-> {}]
    /\ result = [o \in Ops |-> Pending]
    /\ update = [o \in Ops |-> <<>>]
    /\ notified = [o \in Ops |-> <<>>]
    /\ owed = [o \in Ops |-> {}]
    /\ seen = [o \in Ops |-> {}]

Innermost(t, o) == stack[t] # <<>> /\ stack[t][Len(stack[t])] = o

\* Thread t is running Clojure code: its own, a swap! function, or a watch.
RunsClojure(t) ==
    stack[t] # <<>> => pc[stack[t][Len(stack[t])]] \in {"invoke", "inWatch"}

-----------------------------------------------------------------------------
(* The primitives. *)

\* The call; compare-and-set! goes straight to its one attempt.
Call(t, o, c) ==
    /\ RunsClojure(t)
    /\ pc[o] = "unborn"
    /\ stack' = [stack EXCEPT ![t] = Append(@, o)]
    /\ call' = [call EXCEPT ![o] = c]
    /\ pc' = [pc EXCEPT ![o] = CASE c.kind = "cas" -> "set"
                                 [] c.kind \in {"add", "remove"} -> "readWatches"
                                 [] OTHER -> "read"]
    /\ old' = [old EXCEPT ![o] = IF c.kind = "cas" THEN c.expected ELSE @]
    /\ new' = [new EXCEPT ![o] = IF c.kind \in {"cas", "reset"} THEN c.arg ELSE @]
    /\ UNCHANGED <<value, watches, base, todo, result, ghosts>>

\* getOwnAttributeDirect(valueKey), at the head of an attempt; all of deref.
Read(t, o) ==
    /\ Innermost(t, o)
    /\ pc[o] = "read"
    /\ old' = [old EXCEPT ![o] = value]
    /\ pc' = [pc EXCEPT ![o] = CASE call[o].kind = "swap" -> "invoke"
                                 [] call[o].kind = "reset" -> "set"
                                 [] call[o].kind = "deref" -> "return"]
    /\ result' = [result EXCEPT ![o] = IF call[o].kind = "deref" THEN value ELSE @]
    /\ UNCHANGED <<value, watches, stack, call, new, base, todo, ghosts>>

\* engine->invoke(f, old, extras...) returned.
FnReturns(t, o) ==
    /\ Innermost(t, o)
    /\ pc[o] = "invoke"
    /\ new' = [new EXCEPT ![o] = F[old[o]]]
    /\ pc' = [pc EXCEPT ![o] = "set"]
    /\ UNCHANGED <<value, watches, stack, call, old, base, todo, result, ghosts>>

\* It threw: the swap! ends with the atom as it is.
FnThrows(t, o) ==
    /\ Innermost(t, o)
    /\ pc[o] = "invoke"
    /\ result' = [result EXCEPT ![o] = Thrown]
    /\ pc' = [pc EXCEPT ![o] = "return"]
    /\ UNCHANGED <<value, watches, stack, call, old, new, base, todo, ghosts>>

\* The new value is installed without a compare.
Mutant_SetUnchecked(t, o) ==
    /\ Innermost(t, o)
    /\ pc[o] = "set"
    /\ value' = new[o]
    /\ update' = [update EXCEPT ![o] = <<value, new[o]>>]
    /\ owed' = [owed EXCEPT ![o] = Entries(watches.map)]
    /\ seen' = [seen EXCEPT ![o] = Entries(watches.map)]
    /\ pc' = [pc EXCEPT ![o] = "fire"]
    /\ UNCHANGED <<watches, stack, call, old, new, base, todo, result, notified>>

\* A failed attempt is repeated on the value it read before.
Mutant_RetryStale(t, o) ==
    /\ Innermost(t, o)
    /\ pc[o] = "set"
    /\ \/ /\ value = old[o]
          /\ value' = new[o]
          /\ update' = [update EXCEPT ![o] = <<value, new[o]>>]
          /\ owed' = [owed EXCEPT ![o] = Entries(watches.map)]
          /\ seen' = [seen EXCEPT ![o] = Entries(watches.map)]
          /\ pc' = [pc EXCEPT ![o] = "fire"]
          /\ UNCHANGED result
       \/ /\ value # old[o]
          /\ IF call[o].kind = "cas"
               THEN /\ pc' = [pc EXCEPT ![o] = "return"]
                    /\ result' = [result EXCEPT ![o] = FALSE]
               ELSE /\ pc' = [pc EXCEPT ![o] = IF call[o].kind = "swap" THEN "invoke" ELSE "set"]
                    /\ UNCHANGED result
          /\ UNCHANGED <<value, update, owed, seen>>
    /\ UNCHANGED <<watches, stack, call, old, new, base, todo, notified>>

\* setAttributeIfEqual(valueKey, old, new): reset! and swap! retry a failed
\* one, compare-and-set! answers false.
SetIfEqual(t, o) ==
    /\ Innermost(t, o)
    /\ pc[o] = "set"
    /\ \/ /\ value = old[o]
          /\ value' = new[o]
          /\ update' = [update EXCEPT ![o] = <<value, new[o]>>]
          /\ owed' = [owed EXCEPT ![o] = Entries(watches.map)]
          /\ seen' = [seen EXCEPT ![o] = Entries(watches.map)]
          /\ pc' = [pc EXCEPT ![o] = "fire"]
          /\ UNCHANGED result
       \/ /\ value # old[o]
          /\ IF call[o].kind = "cas"
               THEN /\ pc' = [pc EXCEPT ![o] = "return"]
                    /\ result' = [result EXCEPT ![o] = FALSE]
               ELSE /\ pc' = [pc EXCEPT ![o] = "read"]
                    /\ UNCHANGED result
          /\ UNCHANGED <<value, update, owed, seen>>
    /\ UNCHANGED <<watches, stack, call, old, new, base, todo, notified>>

-----------------------------------------------------------------------------
(* fireWatches. *)

\* The watches are read once, after the update, and collected.
FireWatches(t, o) ==
    /\ Innermost(t, o)
    /\ pc[o] = "fire"
    /\ todo' = [todo EXCEPT ![o] = Entries(watches.map)]
    /\ pc' = [pc EXCEPT ![o] = "watch"]
    /\ UNCHANGED <<value, watches, stack, call, old, new, base, result, ghosts>>

\* The watch is told the value the atom has now.
Mutant_TellCurrent(t, o) ==
    /\ Innermost(t, o)
    /\ pc[o] = "watch"
    /\ \E w \in todo[o] :
        /\ todo' = [todo EXCEPT ![o] = @ \ {w}]
        /\ notified' = [notified EXCEPT ![o] =
               Append(@, [key |-> w[1], fn |-> w[2], old |-> old[o], new |-> value])]
    /\ pc' = [pc EXCEPT ![o] = "inWatch"]
    /\ UNCHANGED <<value, watches, stack, call, old, new, base, result,
                   update, owed, seen>>

\* engine->invoke(watch, key, atom, old, new), in the map's unspecified order.
NotifyWatch(t, o) ==
    /\ Innermost(t, o)
    /\ pc[o] = "watch"
    /\ \E w \in todo[o] :
        /\ todo' = [todo EXCEPT ![o] = @ \ {w}]
        /\ notified' = [notified EXCEPT ![o] =
               Append(@, [key |-> w[1], fn |-> w[2], old |-> old[o], new |-> new[o]])]
    /\ pc' = [pc EXCEPT ![o] = "inWatch"]
    /\ UNCHANGED <<value, watches, stack, call, old, new, base, result,
                   update, owed, seen>>

\* What a watch throws ends the notifications.
Mutant_WatchThrows(t, o) ==
    /\ Innermost(t, o)
    /\ pc[o] = "inWatch"
    /\ todo' \in {todo, [todo EXCEPT ![o] = {}]}
    /\ pc' = [pc EXCEPT ![o] = "watch"]
    /\ UNCHANGED <<value, watches, stack, call, old, new, base, result, ghosts>>

\* The watch returned or threw: catch (...) makes the two alike.
WatchEnds(t, o) ==
    /\ Innermost(t, o)
    /\ pc[o] = "inWatch"
    /\ pc' = [pc EXCEPT ![o] = "watch"]
    /\ UNCHANGED <<value, watches, stack, call, old, new, base, todo, result, ghosts>>

\* All watches called: swap! answers neu, reset! nv, compare-and-set! true.
WatchesDone(t, o) ==
    /\ Innermost(t, o)
    /\ pc[o] = "watch"
    /\ todo[o] = {}
    /\ pc' = [pc EXCEPT ![o] = "return"]
    /\ result' = [result EXCEPT ![o] = IF call[o].kind = "cas" THEN TRUE ELSE new[o]]
    /\ UNCHANGED <<value, watches, stack, call, old, new, base, todo, ghosts>>

\* The call returns, or throws, to the code that made it.
Return(t, o) ==
    /\ Innermost(t, o)
    /\ pc[o] = "return"
    /\ stack' = [stack EXCEPT ![t] = SubSeq(@, 1, Len(@) - 1)]
    /\ pc' = [pc EXCEPT ![o] = "returned"]
    /\ UNCHANGED <<value, watches, call, old, new, base, todo, result, ghosts>>

-----------------------------------------------------------------------------
(* add-watch and remove-watch. *)

\* getOwnAttributeDirect(watchesKey); remove-watch of an absent key is done.
ReadWatches(t, o) ==
    /\ Innermost(t, o)
    /\ pc[o] = "readWatches"
    /\ base' = [base EXCEPT ![o] = watches]
    /\ pc' = [pc EXCEPT ![o] =
                IF call[o].kind = "remove" /\ call[o].arg \notin DOMAIN watches.map
                  THEN "return" ELSE "setWatches"]
    /\ result' = [result EXCEPT ![o] = IF pc'[o] = "return" THEN TheAtom ELSE @]
    /\ UNCHANGED <<value, watches, stack, call, old, new, todo, ghosts>>

\* mapAssocPairs and mapDissoc on the map that was read.
NewWatches(o) ==
    LET map == base[o].map IN
    IF call[o].kind = "add"
      THEN [k \in DOMAIN map \cup {call[o].arg} |->
              IF k = call[o].arg THEN o ELSE map[k]]
      ELSE [k \in DOMAIN map \ {call[o].arg} |-> map[k]]

InstallWatches(o) ==
    LET map == NewWatches(o) IN
    /\ watches' = [id |-> watches.id + 1, map |-> map]
    /\ owed' = [p \in Ops |-> owed[p] \cap Entries(map)]
    /\ seen' = [p \in Ops |-> IF pc[p] = "fire" THEN seen[p] \cup Entries(map)
                                                 ELSE seen[p]]
    /\ result' = [result EXCEPT ![o] = TheAtom]
    /\ pc' = [pc EXCEPT ![o] = "return"]

\* setAttributeIfEqual(watchesKey, old, map), which compares identities.
SetWatches(t, o) ==
    /\ Innermost(t, o)
    /\ pc[o] = "setWatches"
    /\ \/ /\ watches.id = base[o].id
          /\ InstallWatches(o)
       \/ /\ watches.id # base[o].id
          /\ pc' = [pc EXCEPT ![o] = "readWatches"]
          /\ UNCHANGED <<watches, result, owed, seen>>
    /\ UNCHANGED <<value, stack, call, old, new, base, todo, update, notified>>

-----------------------------------------------------------------------------

\* A step of the call that thread t is in.
Step(t) ==
    \E o \in Ops :
        \/ Read(t, o) \/ FnReturns(t, o) \/ FnThrows(t, o) \/ SetIfEqual(t, o)
        \/ FireWatches(t, o) \/ NotifyWatch(t, o) \/ WatchEnds(t, o)
        \/ WatchesDone(t, o) \/ Return(t, o)
        \/ ReadWatches(t, o) \/ SetWatches(t, o)

\* All calls were made and have returned.
Terminated ==
    /\ \A o \in Ops : pc[o] = "returned"
    /\ UNCHANGED vars

Next ==
    \/ \E t \in Threads, o \in Ops, c \in Calls : Call(t, o, c)
    \/ \E t \in Threads : Step(t)
    \/ Terminated

Spec == Init /\ [][Next]_vars

\* A thread in a call goes on with it: the primitives wait for nobody, and the
\* functions they invoke end.  Nothing obliges a program to make calls.
FairSpec == Spec /\ \A t \in Threads : WF_vars(Step(t))

-----------------------------------------------------------------------------
(* Properties. *)

\* A watch is told of an update once, with exactly the value the update
\* replaced and the value it installed, however many other updates and changes
\* of the watches fall between the update and the call (fireWatches).
WatchSeesUpdate ==
    \A o \in Ops :
        /\ \A i \in DOMAIN notified[o] :
              <<notified[o][i].old, notified[o][i].new>> = update[o]
        /\ \A i, j \in DOMAIN notified[o] :
              notified[o][i].key = notified[o][j].key => i = j

Called(o) == {<<notified[o][i].key, notified[o][i].fn>> : i \in DOMAIN notified[o]}

\* An update that has returned has called every watch registered from before
\* the update until now, though other watches threw; and it only calls watches
\* that were registered when it took effect or were added before it looked.
NotifiesRegistered ==
    \A o \in Ops :
        /\ Called(o) \subseteq seen[o]
        /\ pc[o] \in {"return", "returned"} => owed[o] \subseteq Called(o)

\* Every call takes effect in one step between its call and its return: no
\* update and no registration is lost, and compare-and-set! answers truly.
Abs ==
    INSTANCE AtomicReference WITH
        registered <- watches.map,
        result <- [o \in Ops |-> IF pc[o] \in {"fire", "watch", "inWatch"}
                                   THEN IF call[o].kind = "cas" THEN TRUE ELSE new[o]
                                   ELSE result[o]],
        returned <- {o \in Ops : pc[o] = "returned"}

ImplementsAtomicReference == Abs!Spec

\* Every call returns: an attempt of a swap!, a reset! or an add-watch fails
\* only because another call made progress (the retry loops).
EveryCallReturns ==
    \A o \in Ops : pc[o] # "unborn" ~> pc[o] = "returned"
=============================================================================
