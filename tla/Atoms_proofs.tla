---------------------------- MODULE Atoms_proofs ----------------------------
(***************************************************************************)
(* Proofs about Atoms, for any threads, calls, watch keys, values and swap *)
(* function: what the watches are told, that the primitives implement      *)
(* AtomicReference, and that an attempt fails only by the success of       *)
(* another call.                                                           *)
(***************************************************************************)
EXTENDS Atoms, SequenceTheorems, TLAPS

-----------------------------------------------------------------------------
(* The inductive invariant.  It speaks of one call at a time: every action *)
(* is guarded by the program counter of the call it belongs to, so nothing *)
(* need be known of the stacks.                                            *)

Early == {"unborn", "read", "invoke", "set", "readWatches", "setWatches"}
Firing == {"fire", "watch", "inWatch"}
Pcs == Early \cup Firing \cup {"return", "returned"}

Pairs == Keys \X Ops
Maps == UNION {[D -> Ops] : D \in SUBSET Keys}
Versions == [id : Nat, map : Maps]
Notes == [key : Keys, fn : Ops, old : Values, new : Values]
Answers == Values \cup {Pending, Thrown, TheAtom, TRUE, FALSE}

LocalTypes ==
    /\ call \in [Ops -> Calls \cup {NoCall}]
    /\ pc \in [Ops -> Pcs]
    /\ old \in [Ops -> Values \cup {NoValue}]
    /\ new \in [Ops -> Values \cup {NoValue}]
    /\ base \in [Ops -> Versions]
    /\ todo \in [Ops -> SUBSET Pairs]
    /\ result \in [Ops -> Answers]

GhostTypes ==
    /\ update \in [Ops -> {<<>>} \cup (Values \X Values)]
    /\ notified \in [Ops -> Seq(Notes)]
    /\ owed \in [Ops -> SUBSET Pairs]
    /\ seen \in [Ops -> SUBSET Pairs]

TypeOK ==
    /\ value \in Values
    /\ watches \in Versions
    /\ stack \in [Threads -> Seq(Ops)]
    /\ LocalTypes
    /\ GhostTypes

\* Which calls are at which label, and what they have computed there.
CallAt(o) ==
    /\ pc[o] = "unborn" <=> call[o] = NoCall
    /\ pc[o] = "read" => call[o].kind \in {"swap", "reset", "deref"}
    /\ pc[o] \in {"invoke", "set"} \cup Firing => old[o] \in Values
    /\ pc[o] = "invoke" => call[o].kind = "swap"
    /\ pc[o] \in {"set"} \cup Firing =>
         /\ call[o].kind \in {"swap", "reset", "cas"}
         /\ new[o] \in Values
    /\ pc[o] = "set" =>
         /\ call[o].kind = "swap" => new[o] = F[old[o]]
         /\ call[o].kind = "cas" => old[o] = call[o].expected
    /\ pc[o] # "unborn" /\ call[o].kind \in {"reset", "cas"} => new[o] = call[o].arg
    /\ pc[o] \in {"readWatches", "setWatches"} => call[o].kind \in {"add", "remove"}
    /\ pc[o] \in Early \cup Firing <=> result[o] = Pending

\* A map that was read is the current one as long as its identity is.
BaseAt(o) ==
    /\ base[o].id <= watches.id
    /\ base[o].id = watches.id => base[o] = watches

\* What an update has told its watches, and what it still has to tell.
NotedAt(o) ==
    /\ pc[o] \in Early => update[o] = <<>>
    /\ pc[o] \in Early \cup {"fire"} => notified[o] = <<>>
    /\ pc[o] \in Firing => update[o] = <<old[o], new[o]>>
    /\ \A i \in 1..Len(notified[o]) :
         <<notified[o][i].old, notified[o][i].new>> = update[o]
    /\ \A i, j \in 1..Len(notified[o]) :
         notified[o][i].key = notified[o][j].key => i = j
    /\ pc[o] \in {"watch", "inWatch"} =>
         /\ \A w, x \in todo[o] : w[1] = x[1] => w = x
         /\ \A w \in todo[o] : \A i \in 1..Len(notified[o]) : w[1] # notified[o][i].key

\* The watches an update owes a call, and those it may call.
DebtAt(o) ==
    /\ pc[o] \in Early => owed[o] = {}
    /\ pc[o] = "fire" => owed[o] \subseteq Entries(watches.map) /\ Entries(watches.map) \subseteq seen[o]
    /\ pc[o] \in {"watch", "inWatch"} =>
         owed[o] \subseteq Called(o) \cup todo[o] /\ todo[o] \subseteq seen[o]
    /\ Called(o) \subseteq seen[o]
    /\ pc[o] \in {"return", "returned"} => owed[o] \subseteq Called(o)

IInv ==
    /\ TypeOK
    /\ \A o \in Ops : CallAt(o) /\ BaseAt(o) /\ NotedAt(o) /\ DebtAt(o)

-----------------------------------------------------------------------------

\* The watches of a map, one function for each key.
LEMMA EntriesType ==
    ASSUME NEW map \in Maps
    PROVE  /\ Entries(map) \subseteq Pairs
           /\ DOMAIN map \subseteq Keys
           /\ \A k \in DOMAIN map : map[k] \in Ops
           /\ \A w, x \in Entries(map) : w[1] = x[1] => w = x
<1>1. PICK D \in SUBSET Keys : map \in [D -> Ops]
  BY DEF Maps
<1> QED
  BY <1>1 DEF Entries, Pairs

\* At the start no call has been made.
LEMMA InvInit == Init => IInv
<1> SUFFICES ASSUME Init PROVE IInv
  OBVIOUS
<1> DEFINE none == [k \in {} |-> NoCall]
<1>1. none \in Maps /\ DOMAIN none = {}
  <2>1. none \in [{} -> Ops]
    OBVIOUS
  <2> QED
    BY <2>1 DEF Maps
<1> HIDE DEF none
<1>2. /\ [id |-> 0, map |-> none] \in Versions
      /\ watches = [id |-> 0, map |-> none]
      /\ base = [o \in Ops |-> [id |-> 0, map |-> none]]
  BY <1>1 DEF Init, Versions, none
<1>3. Entries(none) = {}
  BY <1>1 DEF Entries
<1>4. LocalTypes
  BY <1>2 DEF Init, LocalTypes, Pcs, Early, Answers
<1>5. GhostTypes
  BY DEF Init, GhostTypes
<1>6. TypeOK
  BY <1>2, <1>4, <1>5, ValuesAssumption DEF Init, TypeOK
<1>7. ASSUME NEW o \in Ops PROVE CallAt(o) /\ BaseAt(o) /\ NotedAt(o) /\ DebtAt(o)
  <2>1. CallAt(o)
    BY DEF Init, CallAt, Early, Firing
  <2>2. BaseAt(o)
    BY <1>2 DEF BaseAt
  <2>3. notified[o] = <<>> /\ Len(notified[o]) = 0 /\ Called(o) = {}
    BY DEF Init, Called
  <2>4. NotedAt(o)
    BY <2>3 DEF Init, NotedAt, Early, Firing
  <2>5. DebtAt(o)
    BY <2>3 DEF Init, DebtAt
  <2> QED
    BY <2>1, <2>2, <2>4, <2>5
<1> QED
  BY <1>6, <1>7 DEF IInv

\* What belongs to call o.
Same(o) ==
    /\ call'[o] = call[o] /\ pc'[o] = pc[o] /\ old'[o] = old[o] /\ new'[o] = new[o]
    /\ base'[o] = base[o] /\ todo'[o] = todo[o] /\ result'[o] = result[o]
    /\ update'[o] = update[o] /\ notified'[o] = notified[o]
    /\ owed'[o] = owed[o] /\ seen'[o] = seen[o]

\* A step that leaves the watches alone and changes one call.
LEMMA OneCallChanges ==
    ASSUME IInv, NEW o \in Ops, UNCHANGED watches, TypeOK',
           \A p \in Ops \ {o} : Same(p),
           CallAt(o)', BaseAt(o)', NotedAt(o)', DebtAt(o)'
    PROVE  IInv'
<1>1. ASSUME NEW p \in Ops \ {o} PROVE (CallAt(p) /\ BaseAt(p) /\ NotedAt(p) /\ DebtAt(p))'
  <2>1. Same(p) /\ CallAt(p) /\ BaseAt(p) /\ NotedAt(p) /\ DebtAt(p)
    BY DEF IInv
  <2>2. CallAt(p)'
    BY <2>1 DEF CallAt, Same
  <2>3. BaseAt(p)'
    BY <2>1 DEF BaseAt, Same
  <2>4. NotedAt(p)'
    BY <2>1 DEF NotedAt, Same
  <2>5. Called(p)' = Called(p)
    BY <2>1 DEF Called, Same
  <2>6. DebtAt(p)'
    BY <2>1, <2>5 DEF DebtAt, Same
  <2> QED
    BY <2>2, <2>3, <2>4, <2>6
<1> QED
  BY <1>1 DEF IInv

-----------------------------------------------------------------------------
(* The primitives. *)

\* A primitive is called.
LEMMA CallKeepsInv ==
    ASSUME IInv, NEW t \in Threads, NEW o \in Ops, NEW c \in Calls, Call(t, o, c)
    PROVE  IInv'
<1>1. /\ c \in Calls /\ c.kind \in Kinds /\ c # NoCall
      /\ c.kind = "reset" => c.arg \in Values
      /\ c.kind = "cas" => c.arg \in Values /\ c.expected \in Values
  BY CallsAssumption
<1>2. pc[o] = "unborn" /\ CallAt(o) /\ BaseAt(o) /\ NotedAt(o) /\ DebtAt(o) /\ TypeOK
  BY DEF IInv, Call
<1>3. TypeOK'
  <2>1. stack' \in [Threads -> Seq(Ops)]
    BY <1>2 DEF Call, TypeOK
  <2>2. LocalTypes'
    BY <1>1, <1>2 DEF Call, TypeOK, LocalTypes, Pcs, Early
  <2>3. GhostTypes'
    BY <1>2 DEF Call, TypeOK, GhostTypes, ghosts
  <2> QED
    BY <1>2, <2>1, <2>2, <2>3 DEF Call, TypeOK
<1>4. \A p \in Ops \ {o} : Same(p)
  BY <1>2 DEF Call, Same, TypeOK, LocalTypes, GhostTypes, ghosts
<1>5. CallAt(o)'
  BY <1>1, <1>2 DEF Call, CallAt, Kinds, TypeOK, LocalTypes, Early, Firing
<1>6. BaseAt(o)'
  BY <1>2 DEF Call, BaseAt
<1>7. pc'[o] \in Early \ {"unborn"} /\ UNCHANGED <<watches, ghosts>>
  BY <1>2 DEF Call, TypeOK, LocalTypes, Early
<1>8. NotedAt(o)'
  BY <1>2, <1>7 DEF NotedAt, ghosts, Early, Firing
<1>9. DebtAt(o)'
  BY <1>2, <1>7 DEF DebtAt, Called, ghosts, Early
<1> QED
  BY <1>3, <1>4, <1>5, <1>6, <1>7, <1>8, <1>9, OneCallChanges

\* The read of the retry loop, and of deref.
LEMMA ReadKeepsInv ==
    ASSUME IInv, NEW t \in Threads, NEW o \in Ops, Read(t, o)
    PROVE  IInv'
<1>1. /\ pc[o] = "read" /\ CallAt(o) /\ BaseAt(o) /\ NotedAt(o) /\ DebtAt(o) /\ TypeOK
      /\ UNCHANGED <<value, watches, stack, ghosts>>
  BY DEF IInv, Read
<1>2. /\ call[o].kind \in {"swap", "reset", "deref"}
      /\ pc'[o] = CASE call[o].kind = "swap" -> "invoke"
                    [] call[o].kind = "reset" -> "set"
                    [] call[o].kind = "deref" -> "return"
      /\ pc'[o] \in {"invoke", "set", "return"}
  BY <1>1 DEF Read, CallAt, TypeOK, LocalTypes
<1>3. TypeOK'
  <2>1. LocalTypes'
    BY <1>1, <1>2 DEF Read, TypeOK, LocalTypes, Pcs, Early, Answers
  <2>2. GhostTypes'
    BY <1>1 DEF TypeOK, GhostTypes, ghosts
  <2> QED
    BY <1>1, <2>1, <2>2 DEF TypeOK
<1>4. \A p \in Ops \ {o} : Same(p)
  BY <1>1 DEF Read, Same, TypeOK, LocalTypes, GhostTypes, ghosts
<1>5. CallAt(o)'
  <2>1. call[o] \in Calls
    BY <1>1 DEF CallAt, TypeOK, LocalTypes
  <2> QED
    BY <1>1, <1>2, <2>1, CallsAssumption, ResultsAssumption
       DEF Read, CallAt, TypeOK, LocalTypes, Early, Firing
<1>6. BaseAt(o)'
  BY <1>1 DEF Read, BaseAt
<1>7. NotedAt(o)'
  BY <1>1, <1>2 DEF NotedAt, ghosts, Early, Firing
<1>8. DebtAt(o)'
  BY <1>1, <1>2 DEF DebtAt, Called, ghosts, Early
<1> QED
  BY <1>1, <1>3, <1>4, <1>5, <1>6, <1>7, <1>8, OneCallChanges

\* The function of swap! returns.
LEMMA FnReturnsKeepsInv ==
    ASSUME IInv, NEW t \in Threads, NEW o \in Ops, FnReturns(t, o)
    PROVE  IInv'
<1>1. /\ pc[o] = "invoke" /\ CallAt(o) /\ BaseAt(o) /\ NotedAt(o) /\ DebtAt(o) /\ TypeOK
      /\ UNCHANGED <<value, watches, stack, ghosts>>
  BY DEF IInv, FnReturns
<1>2. pc'[o] = "set" /\ F[old[o]] \in Values /\ call[o].kind = "swap"
  BY <1>1, ValuesAssumption DEF FnReturns, CallAt, TypeOK, LocalTypes
<1>3. TypeOK'
  <2>1. LocalTypes'
    BY <1>1, <1>2 DEF FnReturns, TypeOK, LocalTypes, Pcs, Early
  <2>2. GhostTypes'
    BY <1>1 DEF TypeOK, GhostTypes, ghosts
  <2> QED
    BY <1>1, <2>1, <2>2 DEF TypeOK
<1>4. \A p \in Ops \ {o} : Same(p)
  BY <1>1 DEF FnReturns, Same, TypeOK, LocalTypes, GhostTypes, ghosts
<1>5. CallAt(o)'
  BY <1>1, <1>2 DEF FnReturns, CallAt, TypeOK, LocalTypes, Early, Firing
<1>6. BaseAt(o)'
  BY <1>1 DEF FnReturns, BaseAt
<1>7. NotedAt(o)'
  BY <1>1, <1>2 DEF NotedAt, ghosts, Early, Firing
<1>8. DebtAt(o)'
  BY <1>1, <1>2 DEF DebtAt, Called, ghosts, Early
<1> QED
  BY <1>1, <1>3, <1>4, <1>5, <1>6, <1>7, <1>8, OneCallChanges

\* The function of swap! throws: the call ends with no update.
LEMMA FnThrowsKeepsInv ==
    ASSUME IInv, NEW t \in Threads, NEW o \in Ops, FnThrows(t, o)
    PROVE  IInv'
<1>1. /\ pc[o] = "invoke" /\ CallAt(o) /\ BaseAt(o) /\ NotedAt(o) /\ DebtAt(o) /\ TypeOK
      /\ UNCHANGED <<value, watches, stack, ghosts>>
  BY DEF IInv, FnThrows
<1>2. pc'[o] = "return" /\ result'[o] = Thrown /\ call[o].kind = "swap"
  BY <1>1 DEF FnThrows, CallAt, TypeOK, LocalTypes
<1>3. TypeOK'
  <2>1. LocalTypes'
    BY <1>1 DEF FnThrows, TypeOK, LocalTypes, Pcs, Answers
  <2>2. GhostTypes'
    BY <1>1 DEF TypeOK, GhostTypes, ghosts
  <2> QED
    BY <1>1, <2>1, <2>2 DEF TypeOK
<1>4. \A p \in Ops \ {o} : Same(p)
  BY <1>1 DEF FnThrows, Same, TypeOK, LocalTypes, GhostTypes, ghosts
<1>5. CallAt(o)'
  BY <1>1, <1>2, ResultsAssumption DEF FnThrows, CallAt, Early, Firing
<1>6. BaseAt(o)'
  BY <1>1 DEF FnThrows, BaseAt
<1>7. NotedAt(o)'
  BY <1>1, <1>2 DEF NotedAt, ghosts, Early, Firing
<1>8. DebtAt(o)'
  BY <1>1, <1>2 DEF DebtAt, Called, ghosts, Early
<1> QED
  BY <1>1, <1>3, <1>4, <1>5, <1>6, <1>7, <1>8, OneCallChanges

\* The compare-and-set: an update, another turn, or a refusal.
LEMMA SetIfEqualKeepsInv ==
    ASSUME IInv, NEW t \in Threads, NEW o \in Ops, SetIfEqual(t, o)
    PROVE  IInv'
<1>1. /\ pc[o] = "set" /\ CallAt(o) /\ BaseAt(o) /\ NotedAt(o) /\ DebtAt(o) /\ TypeOK
      /\ UNCHANGED <<watches, stack, call, old, new, base, todo, notified>>
  BY DEF IInv, SetIfEqual
<1>2. /\ old[o] \in Values /\ new[o] \in Values
      /\ call[o].kind \in {"swap", "reset", "cas"}
      /\ Entries(watches.map) \subseteq Pairs
      /\ notified[o] = <<>> /\ Len(notified[o]) = 0 /\ Called(o) = {}
  BY <1>1, EntriesType DEF CallAt, TypeOK, Versions, NotedAt, Early, Called
<1>3. BaseAt(o)'
  BY <1>1 DEF BaseAt
<1>4. CASE value = old[o]
  <2>1. /\ value' = new[o]
        /\ update' = [update EXCEPT ![o] = <<value, new[o]>>]
        /\ owed' = [owed EXCEPT ![o] = Entries(watches.map)]
        /\ seen' = [seen EXCEPT ![o] = Entries(watches.map)]
        /\ pc' = [pc EXCEPT ![o] = "fire"]
        /\ result' = result
    BY <1>4 DEF SetIfEqual
  <2>2. TypeOK'
    <3>1. LocalTypes'
      BY <1>1, <2>1 DEF TypeOK, LocalTypes, Pcs, Firing
    <3>2. GhostTypes'
      BY <1>1, <1>2, <2>1 DEF TypeOK, GhostTypes
    <3> QED
      BY <1>1, <1>2, <2>1, <3>1, <3>2 DEF TypeOK
  <2>3. \A p \in Ops \ {o} : Same(p)
    BY <1>1, <2>1 DEF Same, TypeOK, LocalTypes, GhostTypes
  <2>4. /\ pc'[o] = "fire" /\ update'[o] = <<old'[o], new'[o]>>
        /\ owed'[o] = Entries(watches'.map) /\ seen'[o] = Entries(watches'.map)
    BY <1>1, <1>4, <2>1 DEF TypeOK, LocalTypes, GhostTypes
  <2>5. CallAt(o)'
    BY <1>1, <1>2, <2>1, <2>4 DEF CallAt, Early, Firing
  <2>6. NotedAt(o)'
    BY <1>1, <1>2, <2>4 DEF NotedAt, Early, Firing
  <2>7. DebtAt(o)'
    <3>1. Called(o)' = {}
      BY <1>1, <1>2 DEF Called
    <3> QED
      BY <2>4, <3>1 DEF DebtAt, Early
  <2> QED
    BY <1>1, <1>3, <2>2, <2>3, <2>5, <2>6, <2>7, OneCallChanges
<1>5. CASE value # old[o]
  <2>1. /\ UNCHANGED <<value, update, owed, seen>>
        /\ \/ /\ call[o].kind = "cas"
              /\ pc' = [pc EXCEPT ![o] = "return"]
              /\ result' = [result EXCEPT ![o] = FALSE]
           \/ /\ call[o].kind # "cas"
              /\ pc' = [pc EXCEPT ![o] = "read"]
              /\ result' = result
    BY <1>5 DEF SetIfEqual
  <2>2. TypeOK'
    <3>1. LocalTypes'
      BY <1>1, <2>1 DEF TypeOK, LocalTypes, Pcs, Early, Answers
    <3>2. GhostTypes'
      BY <1>1, <2>1 DEF TypeOK, GhostTypes
    <3> QED
      BY <1>1, <2>1, <3>1, <3>2 DEF TypeOK
  <2>3. \A p \in Ops \ {o} : Same(p)
    BY <1>1, <2>1 DEF Same, TypeOK, LocalTypes, GhostTypes
  <2>4. \/ pc'[o] = "return" /\ result'[o] = FALSE
        \/ pc'[o] = "read" /\ result'[o] = result[o] /\ call[o].kind \in {"swap", "reset"}
    BY <1>1, <1>2, <2>1 DEF TypeOK, LocalTypes
  <2>5. CallAt(o)'
    BY <1>1, <1>2, <2>4, ResultsAssumption DEF CallAt, Early, Firing
  <2>6. NotedAt(o)'
    BY <1>1, <1>2, <2>1, <2>4 DEF NotedAt, Early, Firing
  <2>7. DebtAt(o)'
    BY <1>1, <2>1, <2>4 DEF DebtAt, Called, Early
  <2> QED
    BY <1>1, <1>3, <2>2, <2>3, <2>5, <2>6, <2>7, OneCallChanges
<1> QED
  BY <1>4, <1>5

\* fireWatches reads the map of watches after the update.
LEMMA FireWatchesKeepsInv ==
    ASSUME IInv, NEW t \in Threads, NEW o \in Ops, FireWatches(t, o)
    PROVE  IInv'
<1>1. /\ pc[o] = "fire" /\ CallAt(o) /\ BaseAt(o) /\ NotedAt(o) /\ DebtAt(o) /\ TypeOK
      /\ UNCHANGED <<value, watches, stack, call, old, new, base, result, ghosts>>
  BY DEF IInv, FireWatches
<1>2. /\ Entries(watches.map) \subseteq Pairs
      /\ \A w, x \in Entries(watches.map) : w[1] = x[1] => w = x
      /\ notified[o] = <<>> /\ Len(notified[o]) = 0
  BY <1>1, EntriesType DEF TypeOK, Versions, NotedAt
<1>3. pc'[o] = "watch" /\ todo'[o] = Entries(watches.map)
  BY <1>1 DEF FireWatches, TypeOK, LocalTypes
<1>4. TypeOK'
  <2>1. LocalTypes'
    BY <1>1, <1>2 DEF FireWatches, TypeOK, LocalTypes, Pcs, Firing
  <2>2. GhostTypes'
    BY <1>1 DEF TypeOK, GhostTypes, ghosts
  <2> QED
    BY <1>1, <2>1, <2>2 DEF TypeOK
<1>5. \A p \in Ops \ {o} : Same(p)
  BY <1>1 DEF FireWatches, Same, TypeOK, LocalTypes, GhostTypes, ghosts
<1>6. CallAt(o)'
  BY <1>1, <1>3 DEF CallAt, Early, Firing
<1>7. BaseAt(o)'
  BY <1>1 DEF BaseAt
<1>8. NotedAt(o)'
  BY <1>1, <1>2, <1>3 DEF NotedAt, ghosts, Early, Firing
<1>9. DebtAt(o)'
  BY <1>1, <1>3 DEF DebtAt, Called, ghosts, Early
<1> QED
  BY <1>1, <1>4, <1>5, <1>6, <1>7, <1>8, <1>9, OneCallChanges

\* The next watch is called.
LEMMA NotifyWatchKeepsInv ==
    ASSUME IInv, NEW t \in Threads, NEW o \in Ops, NotifyWatch(t, o)
    PROVE  IInv'
<1>1. /\ pc[o] = "watch" /\ CallAt(o) /\ BaseAt(o) /\ NotedAt(o) /\ DebtAt(o) /\ TypeOK
      /\ UNCHANGED <<value, watches, stack, call, old, new, base, result, update, owed, seen>>
  BY DEF IInv, NotifyWatch
<1>2. PICK w \in todo[o] :
        /\ todo' = [todo EXCEPT ![o] = @ \ {w}]
        /\ notified' = [notified EXCEPT ![o] =
               Append(@, [key |-> w[1], fn |-> w[2], old |-> old[o], new |-> new[o]])]
  BY DEF NotifyWatch
<1> DEFINE note == [key |-> w[1], fn |-> w[2], old |-> old[o], new |-> new[o]]
<1>3. w \in Pairs /\ w[1] \in Keys /\ w[2] \in Ops /\ w = <<w[1], w[2]>>
  BY <1>1 DEF TypeOK, LocalTypes, Pairs
<1>4. /\ note \in Notes /\ note.key = w[1] /\ note.fn = w[2]
      /\ <<note.old, note.new>> = update[o]
  BY <1>1, <1>3 DEF CallAt, NotedAt, Notes, Firing
<1> HIDE DEF note
<1>5. /\ pc'[o] = "inWatch" /\ todo'[o] = todo[o] \ {w}
      /\ notified'[o] = Append(notified[o], note)
      /\ notified[o] \in Seq(Notes)
  BY <1>1, <1>2 DEF NotifyWatch, TypeOK, LocalTypes, GhostTypes, note
<1>6. /\ Len(notified[o]) \in Nat
      /\ Len(notified'[o]) = Len(notified[o]) + 1
      /\ \A i \in 1..Len(notified[o]) : notified'[o][i] = notified[o][i]
      /\ notified'[o][Len(notified[o]) + 1] = note
      /\ notified'[o] \in Seq(Notes)
      /\ DOMAIN notified[o] = 1..Len(notified[o])
      /\ DOMAIN notified'[o] = 1..(Len(notified[o]) + 1)
  BY <1>4, <1>5
<1>7. TypeOK'
  <2>1. LocalTypes'
    BY <1>1, <1>2 DEF NotifyWatch, TypeOK, LocalTypes, Pcs, Firing
  <2>2. notified' \in [Ops -> Seq(Notes)]
    BY <1>1, <1>2, <1>5, <1>6 DEF TypeOK, GhostTypes
  <2>3. GhostTypes'
    BY <1>1, <2>2 DEF TypeOK, GhostTypes
  <2> QED
    BY <1>1, <2>1, <2>3 DEF TypeOK
<1>8. \A p \in Ops \ {o} : Same(p)
  BY <1>1, <1>2 DEF NotifyWatch, Same, TypeOK, LocalTypes, GhostTypes
<1>9. CallAt(o)'
  BY <1>1, <1>5 DEF CallAt, Early, Firing
<1>10. BaseAt(o)'
  BY <1>1 DEF BaseAt
<1>11. NotedAt(o)'
  <2>1. ASSUME NEW i \in 1..Len(notified'[o])
        PROVE  /\ <<notified'[o][i].old, notified'[o][i].new>> = update[o]
               /\ \A x \in todo'[o] : x[1] # notified'[o][i].key
               /\ i # Len(notified[o]) + 1 => notified'[o][i].key # w[1]
    <3>1. CASE i \in 1..Len(notified[o])
      BY <1>1, <1>5, <1>6, <3>1 DEF NotedAt
    <3>2. CASE i = Len(notified[o]) + 1
      BY <1>1, <1>4, <1>5, <1>6, <3>2 DEF NotedAt
    <3> QED
      BY <1>6, <2>1, <3>1, <3>2
  <2>2. ASSUME NEW i \in 1..Len(notified'[o]), NEW j \in 1..Len(notified'[o]),
               notified'[o][i].key = notified'[o][j].key
        PROVE  i = j
    <3>1. CASE i \in 1..Len(notified[o]) /\ j \in 1..Len(notified[o])
      BY <1>1, <1>6, <2>2, <3>1 DEF NotedAt
    <3>2. CASE i = Len(notified[o]) + 1 \/ j = Len(notified[o]) + 1
      BY <1>4, <1>6, <2>1, <2>2, <3>2
    <3> QED
      BY <1>6, <3>1, <3>2
  <2> QED
    BY <1>1, <1>5, <2>1, <2>2 DEF NotedAt, Early, Firing
<1>12. DebtAt(o)'
  <2>1. Called(o)' = Called(o) \cup {w}
    <3>1. ASSUME NEW x \in Called(o)' PROVE x \in Called(o) \cup {w}
      <4>1. PICK i \in 1..(Len(notified[o]) + 1) :
              x = <<notified'[o][i].key, notified'[o][i].fn>>
        BY <1>6 DEF Called
      <4>2. CASE i \in 1..Len(notified[o])
        BY <1>6, <4>1, <4>2 DEF Called
      <4>3. CASE i = Len(notified[o]) + 1
        BY <1>3, <1>4, <1>6, <4>1, <4>3
      <4> QED
        BY <1>6, <4>2, <4>3
    <3>2. ASSUME NEW x \in Called(o) PROVE x \in Called(o)'
      <4>1. PICK i \in 1..Len(notified[o]) : x = <<notified[o][i].key, notified[o][i].fn>>
        BY <1>6 DEF Called
      <4>2. i \in DOMAIN notified'[o] /\ x = <<notified'[o][i].key, notified'[o][i].fn>>
        BY <1>6, <4>1
      <4> QED
        BY <4>2 DEF Called
    <3>3. w \in Called(o)'
      <4>1. Len(notified[o]) + 1 \in DOMAIN notified'[o]
        BY <1>6
      <4> QED
        BY <1>3, <1>4, <1>6, <4>1 DEF Called
    <3> QED
      BY <3>1, <3>2, <3>3
  <2> QED
    BY <1>1, <1>2, <1>5, <2>1 DEF DebtAt, Early
<1> QED
  BY <1>1, <1>7, <1>8, <1>9, <1>10, <1>11, <1>12, OneCallChanges

\* A watch returns or throws.
LEMMA WatchEndsKeepsInv ==
    ASSUME IInv, NEW t \in Threads, NEW o \in Ops, WatchEnds(t, o)
    PROVE  IInv'
<1>1. /\ pc[o] = "inWatch" /\ CallAt(o) /\ BaseAt(o) /\ NotedAt(o) /\ DebtAt(o) /\ TypeOK
      /\ pc' = [pc EXCEPT ![o] = "watch"] /\ pc'[o] = "watch"
      /\ UNCHANGED <<value, watches, stack, call, old, new, base, todo, result, ghosts>>
  BY DEF IInv, WatchEnds, TypeOK, LocalTypes
<1>2. TypeOK'
  <2>1. LocalTypes'
    BY <1>1 DEF TypeOK, LocalTypes, Pcs, Firing
  <2>2. GhostTypes'
    BY <1>1 DEF TypeOK, GhostTypes, ghosts
  <2> QED
    BY <1>1, <2>1, <2>2 DEF TypeOK
<1>3. \A p \in Ops \ {o} : Same(p)
  BY <1>1 DEF Same, TypeOK, LocalTypes, GhostTypes, ghosts
<1>4. CallAt(o)'
  BY <1>1 DEF CallAt, Early, Firing
<1>5. BaseAt(o)'
  BY <1>1 DEF BaseAt
<1>6. NotedAt(o)'
  BY <1>1 DEF NotedAt, ghosts, Early, Firing
<1>7. DebtAt(o)'
  BY <1>1 DEF DebtAt, Called, ghosts, Early
<1> QED
  BY <1>1, <1>2, <1>3, <1>4, <1>5, <1>6, <1>7, OneCallChanges

\* All the watches were called.
LEMMA WatchesDoneKeepsInv ==
    ASSUME IInv, NEW t \in Threads, NEW o \in Ops, WatchesDone(t, o)
    PROVE  IInv'
<1>1. /\ pc[o] = "watch" /\ CallAt(o) /\ BaseAt(o) /\ NotedAt(o) /\ DebtAt(o) /\ TypeOK
      /\ todo[o] = {}
      /\ UNCHANGED <<value, watches, stack, call, old, new, base, todo, ghosts>>
  BY DEF IInv, WatchesDone
<1>2. /\ new[o] \in Values
      /\ pc'[o] = "return" /\ result'[o] = IF call[o].kind = "cas" THEN TRUE ELSE new[o]
      /\ result'[o] \in Values \cup {TRUE}
  BY <1>1 DEF WatchesDone, CallAt, TypeOK, LocalTypes, Firing
<1>3. TypeOK'
  <2>1. LocalTypes'
    BY <1>1, <1>2 DEF WatchesDone, TypeOK, LocalTypes, Pcs, Answers
  <2>2. GhostTypes'
    BY <1>1 DEF TypeOK, GhostTypes, ghosts
  <2> QED
    BY <1>1, <2>1, <2>2 DEF TypeOK
<1>4. \A p \in Ops \ {o} : Same(p)
  BY <1>1 DEF WatchesDone, Same, TypeOK, LocalTypes, GhostTypes, ghosts
<1>5. CallAt(o)'
  BY <1>1, <1>2, ResultsAssumption DEF CallAt, Early, Firing
<1>6. BaseAt(o)'
  BY <1>1 DEF BaseAt
<1>7. NotedAt(o)'
  BY <1>1, <1>2 DEF NotedAt, ghosts, Early, Firing
<1>8. DebtAt(o)'
  BY <1>1, <1>2 DEF DebtAt, Called, ghosts, Early
<1> QED
  BY <1>1, <1>3, <1>4, <1>5, <1>6, <1>7, <1>8, OneCallChanges

\* A primitive returns.
LEMMA ReturnKeepsInv ==
    ASSUME IInv, NEW t \in Threads, NEW o \in Ops, Return(t, o)
    PROVE  IInv'
<1>1. /\ pc[o] = "return" /\ CallAt(o) /\ BaseAt(o) /\ NotedAt(o) /\ DebtAt(o) /\ TypeOK
      /\ pc' = [pc EXCEPT ![o] = "returned"] /\ pc'[o] = "returned"
      /\ UNCHANGED <<value, watches, call, old, new, base, todo, result, ghosts>>
  BY DEF IInv, Return, TypeOK, LocalTypes
<1>2. TypeOK'
  <2>1. LocalTypes'
    BY <1>1 DEF TypeOK, LocalTypes, Pcs
  <2>2. GhostTypes'
    BY <1>1 DEF TypeOK, GhostTypes, ghosts
  <2>3. /\ stack[t] \in Seq(Ops) /\ stack[t] # <<>>
        /\ stack' = [stack EXCEPT ![t] = SubSeq(stack[t], 1, Len(stack[t]) - 1)]
    BY <1>1 DEF Return, Innermost, TypeOK
  <2>4. SubSeq(stack[t], 1, Len(stack[t]) - 1) \in Seq(Ops)
    BY <2>3, SubSeqProperties
  <2>5. stack' \in [Threads -> Seq(Ops)]
    BY <1>1, <2>3, <2>4 DEF TypeOK
  <2> QED
    BY <1>1, <2>1, <2>2, <2>5 DEF TypeOK
<1>3. \A p \in Ops \ {o} : Same(p)
  BY <1>1 DEF Same, TypeOK, LocalTypes, GhostTypes, ghosts
<1>4. CallAt(o)'
  BY <1>1 DEF CallAt, Early, Firing
<1>5. BaseAt(o)'
  BY <1>1 DEF BaseAt
<1>6. NotedAt(o)'
  BY <1>1 DEF NotedAt, ghosts, Early, Firing
<1>7. DebtAt(o)'
  BY <1>1 DEF DebtAt, Called, ghosts, Early
<1> QED
  BY <1>1, <1>2, <1>3, <1>4, <1>5, <1>6, <1>7, OneCallChanges

\* add-watch and remove-watch read the map.
LEMMA ReadWatchesKeepsInv ==
    ASSUME IInv, NEW t \in Threads, NEW o \in Ops, ReadWatches(t, o)
    PROVE  IInv'
<1>1. /\ pc[o] = "readWatches" /\ CallAt(o) /\ BaseAt(o) /\ NotedAt(o) /\ DebtAt(o) /\ TypeOK
      /\ UNCHANGED <<value, watches, stack, call, old, new, todo, ghosts>>
  BY DEF IInv, ReadWatches
<1>2. /\ base'[o] = watches
      /\ \/ pc'[o] = "return" /\ result'[o] = TheAtom
         \/ pc'[o] = "setWatches" /\ result'[o] = result[o]
      /\ call[o].kind \in {"add", "remove"}
  BY <1>1 DEF ReadWatches, CallAt, TypeOK, LocalTypes
<1>3. TypeOK'
  <2>1. LocalTypes'
    BY <1>1 DEF ReadWatches, TypeOK, LocalTypes, Pcs, Early, Answers
  <2>2. GhostTypes'
    BY <1>1 DEF TypeOK, GhostTypes, ghosts
  <2> QED
    BY <1>1, <2>1, <2>2 DEF TypeOK
<1>4. \A p \in Ops \ {o} : Same(p)
  BY <1>1 DEF ReadWatches, Same, TypeOK, LocalTypes, GhostTypes, ghosts
<1>5. CallAt(o)'
  BY <1>1, <1>2, ResultsAssumption DEF CallAt, Early, Firing
<1>6. BaseAt(o)'
  BY <1>1, <1>2 DEF BaseAt, TypeOK, Versions
<1>7. NotedAt(o)'
  BY <1>1, <1>2 DEF NotedAt, ghosts, Early, Firing
<1>8. DebtAt(o)'
  BY <1>1, <1>2 DEF DebtAt, Called, ghosts, Early
<1> QED
  BY <1>1, <1>3, <1>4, <1>5, <1>6, <1>7, <1>8, OneCallChanges

\* The map they would install is one.
LEMMA NewWatchesType ==
    ASSUME IInv, NEW o \in Ops, pc[o] = "setWatches"
    PROVE  NewWatches(o) \in Maps
<1>1. /\ base[o] \in Versions /\ base[o].map \in Maps
      /\ call[o] \in Calls /\ call[o].kind \in {"add", "remove"}
  BY DEF IInv, TypeOK, LocalTypes, Versions, CallAt
<1>2. call[o].arg \in Keys
  BY <1>1, CallsAssumption
<1>3. PICK D \in SUBSET Keys : base[o].map \in [D -> Ops]
  BY <1>1 DEF Maps
<1>4. CASE call[o].kind = "add"
  <2>1. NewWatches(o) \in [D \cup {call[o].arg} -> Ops]
    BY <1>3, <1>4 DEF NewWatches
  <2> QED
    BY <1>2, <2>1 DEF Maps
<1>5. CASE call[o].kind = "remove"
  <2>1. NewWatches(o) \in [D \ {call[o].arg} -> Ops]
    BY <1>3, <1>5 DEF NewWatches
  <2> QED
    BY <1>2, <2>1 DEF Maps
<1> QED
  BY <1>1, <1>4, <1>5

\* They install it, or try again.
LEMMA SetWatchesKeepsInv ==
    ASSUME IInv, NEW t \in Threads, NEW o \in Ops, SetWatches(t, o)
    PROVE  IInv'
<1>1. /\ pc[o] = "setWatches" /\ CallAt(o) /\ BaseAt(o) /\ NotedAt(o) /\ DebtAt(o) /\ TypeOK
      /\ UNCHANGED <<value, stack, call, old, new, base, todo, update, notified>>
  BY DEF IInv, SetWatches
<1>2. CASE watches.id # base[o].id
  <2>1. pc' = [pc EXCEPT ![o] = "readWatches"] /\ UNCHANGED <<watches, result, owed, seen>>
    BY <1>2 DEF SetWatches
  <2>2. TypeOK'
    <3>1. LocalTypes'
      BY <1>1, <2>1 DEF TypeOK, LocalTypes, Pcs, Early
    <3>2. GhostTypes'
      BY <1>1, <2>1 DEF TypeOK, GhostTypes
    <3> QED
      BY <1>1, <2>1, <3>1, <3>2 DEF TypeOK
  <2>3. pc'[o] = "readWatches" /\ \A p \in Ops \ {o} : Same(p)
    BY <1>1, <2>1 DEF Same, TypeOK, LocalTypes, GhostTypes
  <2>4. CallAt(o)'
    BY <1>1, <2>1, <2>3 DEF CallAt, Early, Firing
  <2>5. BaseAt(o)'
    BY <1>1, <2>1 DEF BaseAt
  <2>6. NotedAt(o)'
    BY <1>1, <2>1, <2>3 DEF NotedAt, Early, Firing
  <2>7. DebtAt(o)'
    BY <1>1, <2>1, <2>3 DEF DebtAt, Called, Early
  <2> QED
    BY <2>1, <2>2, <2>3, <2>4, <2>5, <2>6, <2>7, OneCallChanges
<1>3. CASE watches.id = base[o].id
  <2> DEFINE map == NewWatches(o)
  <2>1. map \in Maps /\ Entries(map) \subseteq Pairs
    BY <1>1, NewWatchesType, EntriesType
  <2>2. /\ watches' = [id |-> watches.id + 1, map |-> map]
        /\ owed' = [p \in Ops |-> owed[p] \cap Entries(map)]
        /\ seen' = [p \in Ops |-> IF pc[p] = "fire" THEN seen[p] \cup Entries(map) ELSE seen[p]]
        /\ result' = [result EXCEPT ![o] = TheAtom]
        /\ pc' = [pc EXCEPT ![o] = "return"]
    BY <1>3 DEF SetWatches, InstallWatches
  <2> HIDE DEF map
  <2>3. watches.id \in Nat /\ watches' \in Versions /\ watches'.id = watches.id + 1 /\ watches'.map = map
    BY <1>1, <2>1, <2>2 DEF TypeOK, Versions
  <2>4. TypeOK'
    <3>1. LocalTypes'
      BY <1>1, <2>2 DEF TypeOK, LocalTypes, Pcs, Answers
    <3>2. GhostTypes'
      BY <1>1, <2>1, <2>2 DEF TypeOK, GhostTypes
    <3> QED
      BY <1>1, <2>3, <3>1, <3>2 DEF TypeOK
  <2>5. ASSUME NEW p \in Ops PROVE (CallAt(p) /\ BaseAt(p) /\ NotedAt(p) /\ DebtAt(p))'
    <3>1. /\ CallAt(p) /\ BaseAt(p) /\ NotedAt(p) /\ DebtAt(p)
          /\ base[p].id \in Nat /\ notified'[p] = notified[p] /\ Called(p)' = Called(p)
      BY <1>1 DEF IInv, TypeOK, LocalTypes, Versions, Called
    <3>2. /\ pc'[p] = IF p = o THEN "return" ELSE pc[p]
          /\ result'[p] = IF p = o THEN TheAtom ELSE result[p]
          /\ owed'[p] = owed[p] \cap Entries(map)
          /\ seen'[p] = IF pc[p] = "fire" THEN seen[p] \cup Entries(map) ELSE seen[p]
      BY <1>1, <2>2 DEF TypeOK, LocalTypes
    <3>3. CallAt(p)'
      BY <1>1, <3>1, <3>2, ResultsAssumption DEF CallAt, Early, Firing
    <3>4. BaseAt(p)'
      BY <1>1, <2>3, <3>1 DEF BaseAt
    <3>5. NotedAt(p)'
      BY <1>1, <3>1, <3>2 DEF NotedAt, Early, Firing
    <3>6. DebtAt(p)'
      BY <1>1, <2>3, <3>1, <3>2 DEF DebtAt, Early
    <3> QED
      BY <3>3, <3>4, <3>5, <3>6
  <2> QED
    BY <2>4, <2>5 DEF IInv
<1> QED
  BY <1>2, <1>3

\* No step breaks the invariant.
LEMMA InvStep == IInv /\ [Next]_vars => IInv'
<1> SUFFICES ASSUME IInv, [Next]_vars PROVE IInv'
  OBVIOUS
<1>1. CASE UNCHANGED vars
  <2>1. TypeOK'
    BY <1>1 DEF vars, locals, ghosts, IInv, TypeOK, LocalTypes, GhostTypes
  <2>2. ASSUME NEW o \in Ops PROVE (CallAt(o) /\ BaseAt(o) /\ NotedAt(o) /\ DebtAt(o))'
    BY <1>1 DEF vars, locals, ghosts, IInv, CallAt, BaseAt, NotedAt, DebtAt, Called
  <2> QED
    BY <2>1, <2>2 DEF IInv
<1>2. CASE \E t \in Threads : Step(t)
  BY <1>2, ReadKeepsInv, FnReturnsKeepsInv, FnThrowsKeepsInv, SetIfEqualKeepsInv,
     FireWatchesKeepsInv, NotifyWatchKeepsInv, WatchEndsKeepsInv, WatchesDoneKeepsInv,
     ReturnKeepsInv, ReadWatchesKeepsInv, SetWatchesKeepsInv DEF Step
<1> QED
  BY <1>1, <1>2, CallKeepsInv DEF Next, Terminated

\* The invariant contains what the runs check.
LEMMA InvImplies == IInv => WatchSeesUpdate /\ NotifiesRegistered
<1> SUFFICES ASSUME IInv PROVE WatchSeesUpdate /\ NotifiesRegistered
  OBVIOUS
<1>1. \A o \in Ops : DOMAIN notified[o] = 1..Len(notified[o])
  BY DEF IInv, TypeOK, GhostTypes
<1>2. WatchSeesUpdate
  BY <1>1 DEF WatchSeesUpdate, IInv, NotedAt
<1>3. NotifiesRegistered
  BY DEF NotifiesRegistered, IInv, DebtAt
<1> QED
  BY <1>2, <1>3

\* A watch is told of an update once, with the value the update replaced and
\* the one it installed (fireWatches), whatever runs meanwhile.
THEOREM WatchSeesUpdateTheorem == Spec => []WatchSeesUpdate
<1>1. Spec => []IInv
  BY InvInit, InvStep, PTL DEF Spec
<1> QED
  BY <1>1, InvImplies, PTL

\* An update calls every watch that was registered from before the update until
\* it returned, and only watches it can have found registered (fireWatches
\* against add-watch and remove-watch).
THEOREM NotifiesRegisteredTheorem == Spec => []NotifiesRegistered
<1>1. Spec => []IInv
  BY InvInit, InvStep, PTL DEF Spec
<1> QED
  BY <1>1, InvImplies, PTL

-----------------------------------------------------------------------------
(* The refinement: each step of a primitive is a step of AtomicReference or *)
(* leaves its variables alone.                                             *)

\* What the refinement mapping takes for the result of call o.
AbsResult(o) ==
    IF pc[o] \in {"fire", "watch", "inWatch"}
      THEN IF call[o].kind = "cas" THEN TRUE ELSE new[o]
      ELSE result[o]

AbsResults == [o \in Ops |-> AbsResult(o)]
AbsReturned == {o \in Ops : pc[o] = "returned"}

\* The atom starts where the abstract reference does.
LEMMA AbsInit == Init => Abs!Init
  BY DEF Init, Abs!Init

\* Steps before and after the one that takes effect.
LEMMA AbsUnchanged ==
    ASSUME UNCHANGED <<value, call>>, watches'.map = watches.map,
           AbsResults' = AbsResults, AbsReturned' = AbsReturned
    PROVE  UNCHANGED Abs!vars
  BY DEF Abs!vars, AbsResults, AbsResult, AbsReturned

\* One call o changes, and with it at most its own result.
LEMMA ResultStep ==
    ASSUME NEW o \in Ops, NEW r,
           \A p \in Ops \ {o} : pc'[p] = pc[p] /\ AbsResult(p)' = AbsResult(p),
           pc[o] # "returned", pc'[o] # "returned", AbsResult(o)' = r
    PROVE  /\ AbsResults' = [AbsResults EXCEPT ![o] = r]
           /\ AbsReturned' = AbsReturned
           /\ r = AbsResult(o) => AbsResults' = AbsResults
<1>1. AbsResults' = [AbsResults EXCEPT ![o] = r]
  BY DEF AbsResults
<1>2. AbsReturned' = AbsReturned
  BY DEF AbsReturned
<1>3. r = AbsResult(o) => AbsResults' = AbsResults
  BY DEF AbsResults
<1> QED
  BY <1>1, <1>2, <1>3

\* A call that has not taken effect is pending in the abstract reference.
LEMMA AbsPending ==
    ASSUME NEW o \in Ops, AbsResult(o) = Pending
    PROVE  [p \in Ops |-> IF pc[p] \in {"fire", "watch", "inWatch"}
                             THEN IF call[p].kind = "cas" THEN TRUE ELSE new[p]
                             ELSE result[p]][o] = Pending
  BY DEF AbsResult

\* An instance of TakeEffect on the value.
LEMMA ValueEffect ==
    ASSUME NEW o \in Ops, NEW r, call[o] # NoCall, AbsResult(o) = Pending,
           AbsResults' = [AbsResults EXCEPT ![o] = r], AbsReturned' = AbsReturned,
           UNCHANGED <<watches, call>>,
           \/ call[o].kind = "swap" /\ value' = F[value] /\ r = F[value]
           \/ call[o].kind = "swap" /\ value' = value /\ r = Thrown
           \/ call[o].kind = "reset" /\ value' = call[o].arg /\ r = call[o].arg
           \/ /\ call[o].kind = "cas" /\ value = call[o].expected
              /\ value' = call[o].arg /\ r = TRUE
           \/ /\ call[o].kind = "cas" /\ value # call[o].expected
              /\ value' = value /\ r = FALSE
           \/ call[o].kind = "deref" /\ value' = value /\ r = value
    PROVE  Abs!Next
<1>1. \/ call[o].kind = "swap" /\ Abs!SetValue(o, F[value], F[value])
      \/ call[o].kind = "swap" /\ Abs!SetValue(o, value, Thrown)
      \/ call[o].kind = "reset" /\ Abs!SetValue(o, call[o].arg, call[o].arg)
      \/ call[o].kind = "cas" /\ value = call[o].expected /\ Abs!SetValue(o, call[o].arg, TRUE)
      \/ call[o].kind = "cas" /\ value # call[o].expected /\ Abs!SetValue(o, value, FALSE)
      \/ call[o].kind = "deref" /\ Abs!SetValue(o, value, value)
  <2>1. CASE call[o].kind = "swap" /\ value' = F[value] /\ r = F[value]
    <3>1. Abs!SetValue(o, F[value], F[value])
      BY <2>1 DEF Abs!SetValue, AbsResults, AbsResult
    <3> QED
      BY <2>1, <3>1
  <2>2. CASE call[o].kind = "swap" /\ value' = value /\ r = Thrown
    <3>1. Abs!SetValue(o, value, Thrown)
      BY <2>2 DEF Abs!SetValue, AbsResults, AbsResult
    <3> QED
      BY <2>2, <3>1
  <2>3. CASE call[o].kind = "reset" /\ value' = call[o].arg /\ r = call[o].arg
    <3>1. Abs!SetValue(o, call[o].arg, call[o].arg)
      BY <2>3 DEF Abs!SetValue, AbsResults, AbsResult
    <3> QED
      BY <2>3, <3>1
  <2>4. CASE /\ call[o].kind = "cas" /\ value = call[o].expected
             /\ value' = call[o].arg /\ r = TRUE
    <3>1. Abs!SetValue(o, call[o].arg, TRUE)
      BY <2>4 DEF Abs!SetValue, AbsResults, AbsResult
    <3> QED
      BY <2>4, <3>1
  <2>5. CASE /\ call[o].kind = "cas" /\ value # call[o].expected
             /\ value' = value /\ r = FALSE
    <3>1. Abs!SetValue(o, value, FALSE)
      BY <2>5 DEF Abs!SetValue, AbsResults, AbsResult
    <3> QED
      BY <2>5, <3>1
  <2>6. CASE call[o].kind = "deref" /\ value' = value /\ r = value
    <3>1. Abs!SetValue(o, value, value)
      BY <2>6 DEF Abs!SetValue, AbsResults, AbsResult
    <3> QED
      BY <2>6, <3>1
  <2> QED
    BY <2>1, <2>2, <2>3, <2>4, <2>5, <2>6
<1>2. Abs!TakeEffect(o)
  BY <1>1, AbsPending DEF Abs!TakeEffect, AbsReturned
<1> QED
  BY <1>2 DEF Abs!Next

\* An instance of TakeEffect on the watches.
LEMMA WatchesEffect ==
    ASSUME NEW o \in Ops, call[o] # NoCall, AbsResult(o) = Pending,
           AbsResults' = [AbsResults EXCEPT ![o] = TheAtom], AbsReturned' = AbsReturned,
           UNCHANGED <<value, call>>,
           \/ /\ call[o].kind = "add"
              /\ watches'.map = [k \in DOMAIN watches.map \cup {call[o].arg} |->
                                   IF k = call[o].arg THEN o ELSE watches.map[k]]
           \/ /\ call[o].kind = "remove"
              /\ watches'.map = [k \in DOMAIN watches.map \ {call[o].arg} |-> watches.map[k]]
    PROVE  Abs!Next
<1>1. \/ /\ call[o].kind = "add"
         /\ Abs!SetWatches(o, [k \in DOMAIN watches.map \cup {call[o].arg} |->
                                 IF k = call[o].arg THEN o ELSE watches.map[k]])
      \/ /\ call[o].kind = "remove"
         /\ Abs!SetWatches(o, [k \in DOMAIN watches.map \ {call[o].arg} |-> watches.map[k]])
  <2> DEFINE added == [k \in DOMAIN watches.map \cup {call[o].arg} |->
                         IF k = call[o].arg THEN o ELSE watches.map[k]]
             removed == [k \in DOMAIN watches.map \ {call[o].arg} |-> watches.map[k]]
  <2>1. \/ call[o].kind = "add" /\ watches'.map = added
        \/ call[o].kind = "remove" /\ watches'.map = removed
    OBVIOUS
  <2> HIDE DEF added, removed
  <2>2. watches'.map = added => Abs!SetWatches(o, added)
    BY DEF Abs!SetWatches, AbsResults, AbsResult
  <2>3. watches'.map = removed => Abs!SetWatches(o, removed)
    BY DEF Abs!SetWatches, AbsResults, AbsResult
  <2> QED
    BY <2>1, <2>2, <2>3 DEF added, removed
<1>2. Abs!TakeEffect(o)
  BY <1>1, AbsPending DEF Abs!TakeEffect, AbsReturned
<1> QED
  BY <1>2 DEF Abs!Next

\* Every step is one of the abstract reference or changes nothing it has.
LEMMA AbsStep == IInv /\ [Next]_vars => [Abs!Next]_(Abs!vars)
<1> SUFFICES ASSUME IInv, [Next]_vars PROVE Abs!Next \/ UNCHANGED Abs!vars
  OBVIOUS
<1> USE DEF IInv, TypeOK, LocalTypes
<1>1. \A o \in Ops : pc[o] \in Early \ {"unborn"} =>
          AbsResult(o) = Pending /\ call[o] \in Calls /\ call[o] # NoCall
  BY CallsAssumption DEF AbsResult, Early, CallAt
<1>2. ASSUME NEW t \in Threads, NEW o \in Ops, NEW c \in Calls, Call(t, o, c)
      PROVE  Abs!Next
  <2>1. /\ call[o] = NoCall /\ call' = [call EXCEPT ![o] = c]
        /\ UNCHANGED <<value, watches, result>>
        /\ pc[o] = "unborn" /\ pc'[o] \in Early
        /\ \A p \in Ops \ {o} : pc'[p] = pc[p] /\ AbsResult(p)' = AbsResult(p)
    BY <1>2 DEF Call, CallAt, AbsResult, Early
  <2>2. pc[o] # "returned" /\ pc'[o] # "returned" /\ AbsResult(o)' = AbsResult(o)
    BY <2>1 DEF AbsResult, Early
  <2>3. AbsResults' = AbsResults /\ AbsReturned' = AbsReturned
    BY <2>1, <2>2, ResultStep
  <2>4. Abs!Call(o, c)
    BY <2>1, <2>3 DEF Abs!Call, AbsResults, AbsResult, AbsReturned
  <2> QED
    BY <2>4 DEF Abs!Next
<1>3. ASSUME NEW t \in Threads, NEW o \in Ops, Read(t, o)
      PROVE  Abs!Next \/ UNCHANGED Abs!vars
  <2>1. /\ pc[o] = "read" /\ UNCHANGED <<value, watches, call>>
        /\ pc[o] # "returned" /\ pc'[o] \in {"invoke", "set", "return"}
        /\ call[o].kind \in {"swap", "reset", "deref"}
        /\ result'[o] = IF call[o].kind = "deref" THEN value ELSE result[o]
        /\ \A p \in Ops \ {o} : pc'[p] = pc[p] /\ AbsResult(p)' = AbsResult(p)
    BY <1>3 DEF Read, CallAt, AbsResult
  <2>2. AbsResult(o)' = IF call[o].kind = "deref" THEN value ELSE AbsResult(o)
    BY <2>1 DEF AbsResult
  <2>3. CASE call[o].kind = "deref"
    BY <1>1, <2>1, <2>2, <2>3, ResultStep, ValueEffect DEF Early
  <2>4. CASE call[o].kind # "deref"
    BY <2>1, <2>2, <2>4, ResultStep, AbsUnchanged
  <2> QED
    BY <2>3, <2>4
<1>4. ASSUME NEW t \in Threads, NEW o \in Ops, FnReturns(t, o)
      PROVE  UNCHANGED Abs!vars
  <2>1. /\ UNCHANGED <<value, watches, call>>
        /\ pc[o] # "returned" /\ pc'[o] # "returned" /\ AbsResult(o)' = AbsResult(o)
        /\ \A p \in Ops \ {o} : pc'[p] = pc[p] /\ AbsResult(p)' = AbsResult(p)
    BY <1>4 DEF FnReturns, AbsResult
  <2> QED
    BY <2>1, ResultStep, AbsUnchanged
<1>5. ASSUME NEW t \in Threads, NEW o \in Ops, FnThrows(t, o)
      PROVE  Abs!Next
  <2>1. /\ UNCHANGED <<value, watches, call>> /\ call[o].kind = "swap" /\ pc[o] = "invoke"
        /\ pc[o] # "returned" /\ pc'[o] # "returned" /\ AbsResult(o)' = Thrown
        /\ \A p \in Ops \ {o} : pc'[p] = pc[p] /\ AbsResult(p)' = AbsResult(p)
    BY <1>5 DEF FnThrows, AbsResult, CallAt
  <2> QED
    BY <1>1, <2>1, ResultStep, ValueEffect DEF Early
<1>6. ASSUME NEW t \in Threads, NEW o \in Ops, SetIfEqual(t, o)
      PROVE  Abs!Next \/ UNCHANGED Abs!vars
  <2>1. /\ UNCHANGED <<watches, call, new>> /\ pc[o] = "set"
        /\ call[o].kind \in {"swap", "reset", "cas"}
        /\ call[o].kind = "swap" => new[o] = F[old[o]]
        /\ call[o].kind = "cas" => old[o] = call[o].expected
        /\ call[o].kind \in {"reset", "cas"} => new[o] = call[o].arg
        /\ pc[o] # "returned" /\ pc'[o] # "returned"
        /\ \A p \in Ops \ {o} : pc'[p] = pc[p] /\ AbsResult(p)' = AbsResult(p)
    BY <1>6 DEF SetIfEqual, AbsResult, CallAt
  <2>2. CASE value = old[o]
    <3>1. value' = new[o] /\ AbsResult(o)' = IF call[o].kind = "cas" THEN TRUE ELSE new[o]
      BY <1>6, <2>1, <2>2 DEF SetIfEqual, AbsResult
    <3> QED
      BY <1>1, <2>1, <2>2, <3>1, ResultStep, ValueEffect DEF Early
  <2>3. CASE value # old[o]
    <3>1. value' = value /\ AbsResult(o)' = IF call[o].kind = "cas" THEN FALSE ELSE AbsResult(o)
      BY <1>6, <2>1, <2>3 DEF SetIfEqual, AbsResult
    <3>2. CASE call[o].kind = "cas"
      BY <1>1, <2>1, <2>3, <3>1, <3>2, ResultStep, ValueEffect DEF Early
    <3>3. CASE call[o].kind # "cas"
      BY <2>1, <3>1, <3>3, ResultStep, AbsUnchanged
    <3> QED
      BY <3>2, <3>3
  <2> QED
    BY <2>2, <2>3
<1>7. ASSUME NEW t \in Threads, NEW o \in Ops,
             FireWatches(t, o) \/ NotifyWatch(t, o) \/ WatchEnds(t, o) \/ WatchesDone(t, o)
      PROVE  UNCHANGED Abs!vars
  <2>1. /\ UNCHANGED <<value, watches, call, new>>
        /\ pc[o] # "returned" /\ pc'[o] # "returned" /\ AbsResult(o)' = AbsResult(o)
        /\ \A p \in Ops \ {o} : pc'[p] = pc[p] /\ AbsResult(p)' = AbsResult(p)
    BY <1>7 DEF FireWatches, NotifyWatch, WatchEnds, WatchesDone, AbsResult
  <2> QED
    BY <2>1, ResultStep, AbsUnchanged
<1>8. ASSUME NEW t \in Threads, NEW o \in Ops, Return(t, o)
      PROVE  Abs!Next
  <2>1. /\ UNCHANGED <<value, watches, call>> /\ pc' = [pc EXCEPT ![o] = "returned"]
        /\ \A p \in Ops : AbsResult(p)' = AbsResult(p)
        /\ AbsResults[o] # Pending
    BY <1>8 DEF Return, AbsResult, AbsResults, CallAt, Early, Firing
  <2>2. AbsResults' = AbsResults /\ AbsReturned' = AbsReturned \cup {o}
    BY <2>1 DEF AbsResults, AbsReturned
  <2>3. Abs!Return(o)
    BY <2>1, <2>2 DEF Abs!Return, AbsResults, AbsResult, AbsReturned
  <2> QED
    BY <2>3 DEF Abs!Next
<1>9. ASSUME NEW t \in Threads, NEW o \in Ops, ReadWatches(t, o)
      PROVE  Abs!Next \/ UNCHANGED Abs!vars
  <2>1. /\ UNCHANGED <<value, watches, call>> /\ pc[o] = "readWatches"
        /\ pc[o] # "returned" /\ pc'[o] # "returned"
        /\ \A p \in Ops \ {o} : pc'[p] = pc[p] /\ AbsResult(p)' = AbsResult(p)
    BY <1>9 DEF ReadWatches, AbsResult
  <2>2. CASE call[o].kind = "remove" /\ call[o].arg \notin DOMAIN watches.map
    <3>1. AbsResult(o)' = TheAtom
      BY <1>9, <2>2 DEF ReadWatches, AbsResult
    <3>2. PICK D \in SUBSET Keys : watches.map \in [D -> Ops]
      BY DEF Versions, Maps
    <3>3. watches.map = [k \in DOMAIN watches.map \ {call[o].arg} |-> watches.map[k]]
      <4>1. DOMAIN watches.map \ {call[o].arg} = DOMAIN watches.map
        BY <2>2
      <4>2. watches.map = [k \in DOMAIN watches.map |-> watches.map[k]]
        BY <3>2
      <4> QED
        BY <4>1, <4>2, Zenon
    <3>4. watches'.map = [k \in DOMAIN watches.map \ {call[o].arg} |-> watches.map[k]]
      BY <2>1, <3>3
    <3>5. AbsResults' = [AbsResults EXCEPT ![o] = TheAtom] /\ AbsReturned' = AbsReturned
      BY <2>1, <3>1, ResultStep
    <3>6. AbsResult(o) = Pending /\ call[o] # NoCall /\ UNCHANGED <<value, call>>
      BY <1>1, <2>1 DEF Early
    <3> QED
      BY <2>2, <3>4, <3>5, <3>6, WatchesEffect, Zenon
  <2>3. CASE ~(call[o].kind = "remove" /\ call[o].arg \notin DOMAIN watches.map)
    <3>1. AbsResult(o)' = AbsResult(o)
      BY <1>9, <2>3 DEF ReadWatches, AbsResult
    <3> QED
      BY <2>1, <3>1, ResultStep, AbsUnchanged
  <2> QED
    BY <2>2, <2>3
<1>10. ASSUME NEW t \in Threads, NEW o \in Ops, SetWatches(t, o)
      PROVE  Abs!Next \/ UNCHANGED Abs!vars
  <2>1. /\ UNCHANGED <<value, call>> /\ pc[o] = "setWatches"
        /\ call[o].kind \in {"add", "remove"}
        /\ pc[o] # "returned" /\ pc'[o] # "returned"
        /\ \A p \in Ops \ {o} : pc'[p] = pc[p] /\ AbsResult(p)' = AbsResult(p)
    BY <1>10 DEF SetWatches, InstallWatches, AbsResult, CallAt
  <2>2. CASE watches.id = base[o].id
    <3>1. watches'.map = NewWatches(o) /\ AbsResult(o)' = TheAtom
      BY <1>10, <2>2 DEF SetWatches, InstallWatches, AbsResult
    <3>2. base[o].map = watches.map
      BY <2>2 DEF BaseAt
    <3>3. \/ /\ call[o].kind = "add"
             /\ watches'.map = [k \in DOMAIN watches.map \cup {call[o].arg} |->
                                  IF k = call[o].arg THEN o ELSE watches.map[k]]
          \/ /\ call[o].kind = "remove"
             /\ watches'.map = [k \in DOMAIN watches.map \ {call[o].arg} |-> watches.map[k]]
      BY <2>1, <3>1, <3>2 DEF NewWatches
    <3> QED
      BY <1>1, <2>1, <3>1, <3>3, ResultStep, WatchesEffect DEF Early
  <2>3. CASE watches.id # base[o].id
    <3>1. watches' = watches /\ AbsResult(o)' = AbsResult(o)
      BY <1>10, <2>3 DEF SetWatches, AbsResult
    <3> QED
      BY <2>1, <3>1, ResultStep, AbsUnchanged
  <2> QED
    BY <2>2, <2>3
<1>11. CASE UNCHANGED vars
  <2>1. AbsResults' = AbsResults /\ AbsReturned' = AbsReturned /\ UNCHANGED <<value, watches, call>>
    BY <1>11 DEF vars, locals, AbsResults, AbsResult, AbsReturned
  <2> QED
    BY <2>1, AbsUnchanged
<1>12. CASE \E t \in Threads : Step(t)
  BY <1>3, <1>4, <1>5, <1>6, <1>7, <1>8, <1>9, <1>10, <1>12 DEF Step
<1> QED
  BY <1>2, <1>11, <1>12 DEF Next, Terminated

\* Each call of swap!, reset!, compare-and-set!, deref, add-watch and
\* remove-watch takes effect in one step between its call and its return: the
\* retry loops of the primitives implement the atomic reference.
THEOREM RefinementTheorem == Spec => ImplementsAtomicReference
<1>1. Spec => []IInv
  BY InvInit, InvStep, PTL DEF Spec
<1> QED
  BY <1>1, AbsInit, AbsStep, PTL DEF Spec, ImplementsAtomicReference, Abs!Spec

-----------------------------------------------------------------------------
(* The retry loops. *)

\* The attempt that call o has begun with its read will fail.
Spoiled(o) ==
    \/ pc[o] \in {"invoke", "set"} /\ call[o].kind # "cas" /\ value # old[o]
    \/ pc[o] = "setWatches" /\ watches.id # base[o].id

\* o goes back to the head of its loop.
Retries(o) == pc[o] \in {"set", "setWatches"} /\ pc'[o] \in {"read", "readWatches"}

\* p installs its value or its map, which a call does once.
TakesEffect(p) ==
    (pc[p] = "set" /\ pc'[p] = "fire") \/ (pc[p] = "setWatches" /\ pc'[p] = "return")

FailsByProgress ==
    \A o \in Ops :
        /\ Retries(o) => Spoiled(o)
        /\ Spoiled(o)' => Spoiled(o) \/ \E p \in Ops \ {o} : TakesEffect(p)

\* A step of call p that changes neither the value nor the watches spoils
\* nobody's attempt.
LEMMA QuietStep ==
    ASSUME IInv, NEW p \in Ops, UNCHANGED <<value, watches>>,
           \A o \in Ops \ {p} : /\ pc'[o] = pc[o] /\ call'[o] = call[o]
                                /\ old'[o] = old[o] /\ base'[o] = base[o],
           Spoiled(p)' => Spoiled(p), ~Retries(p)
    PROVE  FailsByProgress
<1>1. ASSUME NEW o \in Ops, o # p PROVE ~Retries(o) /\ (Spoiled(o)' => Spoiled(o))
  BY <1>1 DEF Retries, Spoiled
<1> QED
  BY <1>1 DEF FailsByProgress

\* The compare-and-set of the value.
LEMMA ValueAttempt ==
    ASSUME IInv, NEW t \in Threads, NEW p \in Ops, SetIfEqual(t, p)
    PROVE  FailsByProgress
<1>1. /\ pc[p] = "set" /\ UNCHANGED <<watches, call, old, base>>
      /\ TypeOK /\ CallAt(p)
  BY DEF SetIfEqual, IInv
<1>2. pc' = [pc EXCEPT ![p] = pc'[p]]
  BY <1>1 DEF SetIfEqual, TypeOK, LocalTypes
<1>3. \A o \in Ops \ {p} : pc'[o] = pc[o]
  BY <1>1, <1>2 DEF TypeOK, LocalTypes
<1>4. CASE value = old[p]
  <2>1. pc'[p] = "fire"
    BY <1>1, <1>4 DEF SetIfEqual, TypeOK, LocalTypes
  <2>2. TakesEffect(p) /\ ~Retries(p) /\ ~Spoiled(p)'
    BY <1>1, <2>1 DEF TakesEffect, Retries, Spoiled
  <2>3. \A o \in Ops \ {p} : ~Retries(o)
    BY <1>3 DEF Retries
  <2> QED
    BY <2>2, <2>3 DEF FailsByProgress
<1>5. CASE value # old[p]
  <2>1. /\ value' = value
        /\ pc'[p] = IF call[p].kind = "cas" THEN "return" ELSE "read"
    BY <1>1, <1>5 DEF SetIfEqual, TypeOK, LocalTypes
  <2>2. ~Spoiled(p)'
    BY <2>1 DEF Spoiled
  <2>3. Retries(p) => Spoiled(p)
    BY <1>1, <1>5, <2>1 DEF Retries, Spoiled
  <2>4. ASSUME NEW o \in Ops, o # p PROVE ~Retries(o) /\ (Spoiled(o)' => Spoiled(o))
    BY <1>1, <1>3, <2>1, <2>4 DEF Retries, Spoiled
  <2> QED
    BY <2>2, <2>3, <2>4 DEF FailsByProgress
<1> QED
  BY <1>4, <1>5

\* The compare-and-set of the watches.
LEMMA WatchesAttempt ==
    ASSUME IInv, NEW t \in Threads, NEW p \in Ops, SetWatches(t, p)
    PROVE  FailsByProgress
<1>1. pc[p] = "setWatches" /\ UNCHANGED <<value, call, old, base>> /\ TypeOK
  BY DEF SetWatches, IInv
<1>2. CASE watches.id = base[p].id
  <2>1. pc' = [pc EXCEPT ![p] = "return"]
    BY <1>2 DEF SetWatches, InstallWatches
  <2>2. pc'[p] = "return" /\ \A o \in Ops \ {p} : pc'[o] = pc[o]
    BY <1>1, <2>1 DEF TypeOK, LocalTypes
  <2>3. TakesEffect(p) /\ ~Retries(p) /\ ~Spoiled(p)'
    BY <1>1, <2>2 DEF TakesEffect, Retries, Spoiled
  <2>4. \A o \in Ops \ {p} : ~Retries(o)
    BY <2>2 DEF Retries
  <2> QED
    BY <2>3, <2>4 DEF FailsByProgress
<1>3. CASE watches.id # base[p].id
  <2>1. pc' = [pc EXCEPT ![p] = "readWatches"] /\ watches' = watches
    BY <1>3 DEF SetWatches
  <2>2. pc'[p] = "readWatches" /\ \A o \in Ops \ {p} : pc'[o] = pc[o]
    BY <1>1, <2>1 DEF TypeOK, LocalTypes
  <2>3. ~Spoiled(p)' /\ Spoiled(p)
    BY <1>1, <1>3, <2>2 DEF Spoiled
  <2>4. ASSUME NEW o \in Ops, o # p PROVE ~Retries(o) /\ (Spoiled(o)' => Spoiled(o))
    BY <1>1, <2>1, <2>2, <2>4 DEF Retries, Spoiled
  <2> QED
    BY <2>3, <2>4 DEF FailsByProgress
<1> QED
  BY <1>2, <1>3

\* The part of EveryCallReturns that needs no fairness: an attempt of swap!,
\* reset!, add-watch or remove-watch fails only when, since its read, another
\* call has taken effect, and a call takes effect once.  So no two calls make
\* each other retry for ever, however they are nested or interleaved, whatever
\* their functions do, and though the value may have come back in between.
THEOREM FailsByProgressTheorem == Spec => [][FailsByProgress]_vars
<1>1. Spec => []IInv
  BY InvInit, InvStep, PTL DEF Spec
<1>2. IInv /\ [Next]_vars => [FailsByProgress]_vars
  <2> SUFFICES ASSUME IInv, Next PROVE FailsByProgress \/ UNCHANGED vars
    OBVIOUS
  <2>1. ASSUME NEW t \in Threads, NEW p \in Ops, NEW c \in Calls, Call(t, p, c)
        PROVE  FailsByProgress
    <3>1. /\ TypeOK /\ pc[p] = "unborn" /\ UNCHANGED <<value, watches, base>>
          /\ call' = [call EXCEPT ![p] = c]
          /\ pc' = [pc EXCEPT ![p] = CASE c.kind = "cas" -> "set"
                                       [] c.kind \in {"add", "remove"} -> "readWatches"
                                       [] OTHER -> "read"]
          /\ old' = [old EXCEPT ![p] = IF c.kind = "cas" THEN c.expected ELSE old[p]]
      BY <2>1 DEF Call, IInv
    <3>2. /\ \A o \in Ops \ {p} : /\ pc'[o] = pc[o] /\ call'[o] = call[o]
                                  /\ old'[o] = old[o] /\ base'[o] = base[o]
          /\ call'[p] = c
          /\ pc'[p] = CASE c.kind = "cas" -> "set"
                        [] c.kind \in {"add", "remove"} -> "readWatches"
                        [] OTHER -> "read"
      BY <3>1 DEF TypeOK, LocalTypes
    <3>3. ~Spoiled(p)' /\ ~Retries(p)
      BY <3>1, <3>2 DEF Spoiled, Retries
    <3> QED
      BY <3>1, <3>2, <3>3, QuietStep
  <2>2. ASSUME NEW t \in Threads, NEW p \in Ops, Read(t, p) PROVE FailsByProgress
    <3>1. /\ TypeOK /\ CallAt(p) /\ pc[p] = "read" /\ UNCHANGED <<value, watches, call, base>>
          /\ old' = [old EXCEPT ![p] = value]
          /\ pc' = [pc EXCEPT ![p] = CASE call[p].kind = "swap" -> "invoke"
                                       [] call[p].kind = "reset" -> "set"
                                       [] call[p].kind = "deref" -> "return"]
      BY <2>2 DEF Read, IInv
    <3>2. call[p].kind \in {"swap", "reset", "deref"}
      BY <3>1 DEF CallAt
    <3>3. /\ \A o \in Ops \ {p} : /\ pc'[o] = pc[o] /\ call'[o] = call[o]
                                  /\ old'[o] = old[o] /\ base'[o] = base[o]
          /\ old'[p] = value /\ pc'[p] \in {"invoke", "set", "return"}
      BY <3>1, <3>2 DEF TypeOK, LocalTypes
    <3>4. ~Spoiled(p)' /\ ~Retries(p)
      BY <3>1, <3>3 DEF Spoiled, Retries
    <3> QED
      BY <3>1, <3>3, <3>4, QuietStep
  <2>3. ASSUME NEW t \in Threads, NEW p \in Ops,
               FnReturns(t, p) \/ FnThrows(t, p) \/ FireWatches(t, p) \/ NotifyWatch(t, p)
                 \/ WatchEnds(t, p) \/ WatchesDone(t, p) \/ Return(t, p)
        PROVE  FailsByProgress
    <3>1. /\ TypeOK /\ UNCHANGED <<value, watches, call, old, base>>
          /\ \/ pc[p] = "invoke" /\ pc' = [pc EXCEPT ![p] = "set"]
             \/ /\ pc[p] \in {"invoke", "fire", "watch", "inWatch", "return"}
                /\ \E l \in {"return", "watch", "inWatch", "returned"} : pc' = [pc EXCEPT ![p] = l]
      BY <2>3 DEF FnReturns, FnThrows, FireWatches, NotifyWatch, WatchEnds, WatchesDone, Return,
         IInv
    <3>2. /\ \A o \in Ops \ {p} : pc'[o] = pc[o]
          /\ \/ pc[p] = "invoke" /\ pc'[p] = "set"
             \/ pc'[p] \in {"return", "watch", "inWatch", "returned"}
      BY <3>1 DEF TypeOK, LocalTypes
    <3>3. (Spoiled(p)' => Spoiled(p)) /\ ~Retries(p)
      BY <3>1, <3>2 DEF Spoiled, Retries
    <3> QED
      BY <3>1, <3>2, <3>3, QuietStep
  <2>4. ASSUME NEW t \in Threads, NEW p \in Ops, ReadWatches(t, p) PROVE FailsByProgress
    <3>1. /\ TypeOK /\ pc[p] = "readWatches" /\ UNCHANGED <<value, watches, call, old>>
          /\ base' = [base EXCEPT ![p] = watches]
          /\ \E l \in {"return", "setWatches"} : pc' = [pc EXCEPT ![p] = l]
      BY <2>4 DEF ReadWatches, IInv
    <3>2. /\ \A o \in Ops \ {p} : pc'[o] = pc[o] /\ base'[o] = base[o]
          /\ base'[p] = watches /\ pc'[p] \in {"return", "setWatches"}
      BY <3>1 DEF TypeOK, LocalTypes
    <3>3. ~Spoiled(p)' /\ ~Retries(p)
      BY <3>1, <3>2 DEF Spoiled, Retries
    <3> QED
      BY <3>1, <3>2, <3>3, QuietStep
  <2> QED
    BY <2>1, <2>2, <2>3, <2>4, ValueAttempt, WatchesAttempt DEF Next, Step, Terminated
<1> QED
  BY <1>1, <1>2, PTL DEF Spec
=============================================================================
