------------------------ MODULE CoreOperators_proofs -------------------------
(***************************************************************************)
(* What CoreOperators keeps for any threads, operators and values, with    *)
(* any number of defs of one operator under way at once.                   *)
(***************************************************************************)
EXTENDS CoreOperators, TLAPS

\* With no `def' of it under way, an operator that was not crossed is bound to
\* the built-in just when it settled on it.
SettledAt(o) ==
    (\A t \in Threads : ~Noting(t, o)) => (bound[o] = Core <=> settled[o] = Core)

\* A `def' that gives the built-in back is alone, and nobody has bound the name
\* since; with other defs under way the name is bound to something else.
NotingAt(o) ==
    /\ \A t \in Threads : Noting(t, o) /\ val[t] = Core =>
         bound[o] = Core /\ \A u \in Threads : Noting(u, o) => u = t
    /\ (\E t \in Threads : Noting(t, o)) /\ (\A t \in Threads : Noting(t, o) => val[t] # Core)
         => bound[o] # Core

DefsInOrder == \A o \in Operators : o \notin crossed => SettledAt(o) /\ NotingAt(o)

\* The bit says whether the operator settled on something else.
BitIsSettled == \A o \in Operators : o \in redefined <=> settled[o] # Core

\* A call in progress may get the present binding, and the built-in where a clear
\* bit stands for it.
CallAt(t) ==
    /\ pc[t] \in {"load", "global"} =>
         bound[op[t]] \in valid[t] /\ (op[t] \in crossed => Core \in valid[t])
    /\ pc[t] = "load" => (settled[op[t]] = Core => Core \in valid[t])

CallSees == \A t \in Threads : CallAt(t)

Inv == TypeOK /\ DefsInOrder /\ BitIsSettled /\ CallSees /\ CallIsCurrent

-----------------------------------------------------------------------------

\* At the start every operator is bound to the built-in one.
LEMMA InitInv == Init => Inv
  <1> SUFFICES ASSUME Init PROVE Inv
    OBVIOUS
  <1>1. (CHOOSE o \in Operators : TRUE) \in Operators
    BY CoreAssumption
  <1>2. TypeOK
    BY <1>1, CoreAssumption DEF Init, TypeOK
  <1>3. DefsInOrder
    BY DEF Init, DefsInOrder, SettledAt, NotingAt, Noting
  <1>4. BitIsSettled /\ CallSees /\ CallIsCurrent
    BY DEF Init, BitIsSettled, CallSees, CallAt, CallIsCurrent
  <1> QED
    BY <1>2, <1>3, <1>4 DEF Inv

\* The first half of STORE_GLOBAL, the binding: either it is the only `def' of the
\* name, or it and all the others bind it to something else, or it crosses one.
LEMMA StoreInv ==
    ASSUME Inv, NEW t \in Threads, NEW o \in Operators, NEW v \in Values, Store(t, o, v)
    PROVE  Inv'
  <1> USE DEF Inv
  <1> DEFINE others == {u \in Threads : Noting(u, o)}
  <1>1. /\ crossed' = IF others = {} THEN crossed \ {o}
                      ELSE IF v = Core \/ \E u \in others : val[u] = Core
                        THEN crossed \cup {o} ELSE crossed
        /\ UNCHANGED <<redefined, settled>>
    BY DEF Store
  <1>2. TypeOK'
    <2>1. \A u \in Threads : valid'[u] \in SUBSET Values
      BY CoreAssumption DEF TypeOK, Store
    <2>2. valid' \in [Threads -> SUBSET Values]
      BY <2>1 DEF Store
    <2> QED
      BY <1>1, <2>2 DEF TypeOK, Store
  <1>3. /\ \A p \in Operators : bound'[p] = IF p = o THEN v ELSE bound[p]
        /\ \A u \in Threads : val'[u] = IF u = t THEN v ELSE val[u]
        /\ \A u \in Threads, p \in Operators :
             Noting(u, p)' <=> IF u = t THEN p = o ELSE Noting(u, p)
    BY DEF Store, TypeOK, Noting
  <1>4. DefsInOrder'
    <2> SUFFICES ASSUME NEW p \in Operators, p \notin crossed'
                 PROVE  SettledAt(p)' /\ NotingAt(p)'
      BY DEF DefsInOrder
    <2>1. CASE p # o
      <3>1. p \notin crossed
        BY <1>1, <2>1
      <3>2. SettledAt(p) /\ NotingAt(p) /\ ~Noting(t, p)
        BY <3>1 DEF DefsInOrder, Store, Noting
      <3>3. bound'[p] = bound[p] /\ settled'[p] = settled[p]
            /\ \A u \in Threads : /\ Noting(u, p)' <=> Noting(u, p)
                                  /\ Noting(u, p) => val'[u] = val[u]
        BY <1>1, <1>3, <2>1, <3>2
      <3> QED
        BY <3>2, <3>3 DEF SettledAt, NotingAt
    <2>2. CASE p = o
      <3>1. SettledAt(p)'
        BY <1>3, <2>2 DEF SettledAt
      <3>2. CASE others = {}
        <4>1. \A u \in Threads : Noting(u, o)' <=> u = t
          BY <1>3, <3>2
        <4> QED
          BY <1>3, <2>2, <3>1, <4>1 DEF NotingAt
      <3>3. CASE others # {}
        <4>1. v # Core /\ \A u \in Threads : Noting(u, o) => val[u] # Core
          BY <1>1, <2>2, <3>3
        <4>2. \A u \in Threads : Noting(u, o)' => val'[u] # Core
          BY <1>3, <4>1
        <4> QED
          BY <1>3, <2>2, <3>1, <4>1, <4>2 DEF NotingAt
      <3> QED
        BY <3>2, <3>3
    <2> QED
      BY <2>1, <2>2
  <1>5. BitIsSettled'
    BY <1>1 DEF BitIsSettled
  <1>6. ASSUME NEW u \in Threads PROVE CallAt(u)'
    <2> SUFFICES ASSUME pc'[u] \in {"load", "global"}
                 PROVE  CallAt(u)'
      BY DEF CallAt
    <2>1. u # t /\ pc'[u] = pc[u] /\ op'[u] = op[u] /\ op[u] \in Operators
      BY DEF Store, TypeOK
    <2>2. CallAt(u)
      BY DEF CallSees
    <2>3. CASE op[u] = o
      <3>1. valid'[u] = valid[u] \cup {v} \cup (IF o \in crossed' THEN {Core} ELSE {})
        BY <2>1, <2>3 DEF Store
      <3> QED
        BY <1>1, <1>3, <2>1, <2>2, <2>3, <3>1 DEF CallAt
    <2>4. CASE op[u] # o
      <3>1. valid'[u] = valid[u]
        BY <2>1, <2>4 DEF Store
      <3>2. op[u] \in crossed' => op[u] \in crossed
        BY <1>1, <2>4
      <3> QED
        BY <1>1, <1>3, <2>1, <2>2, <2>4, <3>1, <3>2 DEF CallAt
    <2> QED
      BY <2>3, <2>4
  <1>7. CallIsCurrent'
    <2> SUFFICES ASSUME NEW u \in Threads, pc'[u] = "called" PROVE val'[u] \in valid'[u]
      BY DEF CallIsCurrent
    <2>1. u # t /\ pc[u] = "called"
      BY DEF Store, TypeOK
    <2>2. valid'[u] = valid[u]
      BY <2>1 DEF Store
    <2> QED
      BY <1>3, <2>1, <2>2 DEF CallIsCurrent
  <1> QED
    BY <1>2, <1>4, <1>5, <1>6, <1>7 DEF CallSees

\* Its second half, the bit.
LEMMA NoteInv ==
    ASSUME Inv, NEW t \in Threads, Note(t)
    PROVE  Inv'
  <1> USE DEF Inv
  <1> DEFINE o == op[t]
  <1>1. TypeOK'
    BY DEF TypeOK, Note
  <1>2. /\ o \in Operators /\ Noting(t, o)
        /\ UNCHANGED <<bound, op, val, crossed, valid>>
        /\ \A p \in Operators : settled'[p] = IF p = o THEN val[t] ELSE settled[p]
        /\ \A u \in Threads : pc'[u] = IF u = t THEN "idle" ELSE pc[u]
    BY DEF Note, TypeOK, Noting
  <1>3. \A u \in Threads, p \in Operators : Noting(u, p)' <=> u # t /\ Noting(u, p)
    BY <1>2 DEF Noting
  <1>4. o \notin crossed /\ val[t] = Core => bound[o] = Core
    BY <1>2 DEF DefsInOrder, NotingAt
  <1>5. DefsInOrder'
    <2> SUFFICES ASSUME NEW p \in Operators, p \notin crossed
                 PROVE  SettledAt(p)' /\ NotingAt(p)'
      BY <1>2 DEF DefsInOrder
    <2>1. SettledAt(p) /\ NotingAt(p)
      BY DEF DefsInOrder
    <2>2. CASE p # o
      <3>1. ~Noting(t, p)
        BY <2>2 DEF Noting
      <3>2. \A u \in Threads : Noting(u, p)' <=> Noting(u, p)
        BY <1>3, <3>1
      <3> QED
        BY <1>2, <2>1, <2>2, <3>2 DEF SettledAt, NotingAt
    <2>3. CASE p = o
      <3>1. NotingAt(p)'
        <4>1. ASSUME NEW u \in Threads, Noting(u, p)' PROVE val[u] # Core /\ val[t] # Core
          BY <1>2, <1>3, <2>1, <2>3, <4>1 DEF NotingAt
        <4>2. (\E u \in Threads : Noting(u, p)') => bound[p] # Core
          BY <1>2, <1>3, <2>1, <2>3, <4>1 DEF NotingAt
        <4> QED
          BY <1>2, <4>1, <4>2 DEF NotingAt
      <3>2. SettledAt(p)'
        <4> SUFFICES ASSUME \A u \in Threads : ~Noting(u, p)'
                     PROVE  bound[p] = Core <=> val[t] = Core
          BY <1>2, <2>3 DEF SettledAt
        <4>1. \A u \in Threads : Noting(u, p) => u = t
          BY <1>3
        <4> QED
          BY <1>2, <1>4, <2>1, <2>3, <4>1 DEF NotingAt
      <3> QED
        BY <3>1, <3>2
    <2> QED
      BY <2>2, <2>3
  <1>6. BitIsSettled'
    BY DEF BitIsSettled, Note, TypeOK
  <1>7. ASSUME NEW u \in Threads PROVE CallAt(u)'
    <2> SUFFICES ASSUME pc'[u] \in {"load", "global"} PROVE CallAt(u)'
      BY DEF CallAt
    <2>1. u # t /\ pc[u] = pc'[u] /\ CallAt(u) /\ op[u] \in Operators
      BY <1>2 DEF CallSees, TypeOK
    <2>2. CASE op[u] # o
      BY <1>2, <2>1, <2>2 DEF CallAt
    <2>3. CASE op[u] = o
      <3>1. val[t] = Core => Core \in valid[u]
        BY <1>4, <2>1, <2>3 DEF CallAt
      <3> QED
        BY <1>2, <2>1, <2>3, <3>1 DEF CallAt
    <2> QED
      BY <2>2, <2>3
  <1>8. CallIsCurrent'
    BY <1>2 DEF CallIsCurrent
  <1> QED
    BY <1>1, <1>5, <1>6, <1>7, <1>8 DEF CallSees

\* The steps of a call of an inlined operator.
LEMMA CallInv ==
    ASSUME Inv, NEW t \in Threads,
           LoadBit(t) \/ LoadGlobal(t) \/ Return(t) \/ \E o \in Operators : Call(t, o)
    PROVE  Inv'
  <1> USE DEF Inv
  <1>0. UNCHANGED <<bound, redefined, settled, crossed>>
    BY DEF LoadBit, LoadGlobal, Return, Call, hist
  <1>1. TypeOK'
    <2>1. CASE \E o \in Operators : Call(t, o)
      <3>1. PICK o \in Operators : Call(t, o)
        BY <2>1
      <3>2. valid'[t] \in SUBSET Values /\ valid' \in [Threads -> SUBSET Values]
        BY <3>1, CoreAssumption DEF Call, TypeOK
      <3> QED
        BY <1>0, <3>1, <3>2 DEF Call, TypeOK
    <2>2. CASE ~\E o \in Operators : Call(t, o)
      BY <2>2, CoreAssumption DEF TypeOK, LoadBit, LoadGlobal, Return, hist
    <2> QED
      BY <2>1, <2>2
  <1>2. BitIsSettled'
    BY <1>0 DEF BitIsSettled
  <1>3. DefsInOrder'
    <2>1. \A u \in Threads, p \in Operators : /\ Noting(u, p)' <=> Noting(u, p)
                                              /\ Noting(u, p) => val'[u] = val[u]
      BY DEF Noting, TypeOK, LoadBit, LoadGlobal, Return, Call
    <2> QED
      BY <1>0, <2>1 DEF DefsInOrder, SettledAt, NotingAt
  <1>4. ASSUME NEW u \in Threads PROVE CallAt(u)'
    <2>1. CallAt(u)
      BY DEF CallSees
    <2>2. CASE u # t
      <3>1. pc'[u] = pc[u] /\ op'[u] = op[u] /\ valid'[u] = valid[u]
        BY <2>2 DEF TypeOK, LoadBit, LoadGlobal, Return, Call, hist
      <3> QED
        BY <1>0, <2>1, <3>1 DEF CallAt
    <2>3. CASE u = t /\ LoadBit(t)
      BY <1>0, <2>1, <2>3 DEF CallAt, LoadBit, TypeOK, hist
    <2>4. CASE u = t /\ (LoadGlobal(t) \/ Return(t))
      <3>1. pc'[u] \in {"called", "idle"}
        BY <2>4 DEF LoadGlobal, Return, TypeOK
      <3> QED
        BY <3>1 DEF CallAt
    <2>5. CASE u = t /\ \E o \in Operators : Call(t, o)
      <3>1. PICK o \in Operators : Call(t, o)
        BY <2>5
      <3>2. /\ op'[t] = o /\ pc'[t] = "load"
            /\ valid'[t] = {bound[o]}
                 \cup (IF \E w \in Threads : Noting(w, o) THEN {settled[o]} ELSE {})
                 \cup (IF o \in crossed THEN {Core} ELSE {})
        BY <3>1 DEF Call, TypeOK
      <3>3. settled[o] = Core => Core \in valid'[t]
        <4>1. o \notin crossed => SettledAt(o)
          BY DEF DefsInOrder
        <4> QED
          BY <3>2, <4>1 DEF SettledAt
      <3> QED
        BY <1>0, <2>5, <3>2, <3>3 DEF CallAt
    <2> QED
      BY <2>2, <2>3, <2>4, <2>5
  <1>5. CallIsCurrent'
    <2>1. CASE LoadBit(t)
      BY <2>1 DEF CallIsCurrent, CallSees, CallAt, BitIsSettled, TypeOK, LoadBit, hist
    <2>2. CASE LoadGlobal(t)
      BY <2>2 DEF CallIsCurrent, CallSees, CallAt, TypeOK, LoadGlobal, hist
    <2>3. CASE Return(t) \/ \E o \in Operators : Call(t, o)
      BY <2>3 DEF CallIsCurrent, TypeOK, Return, Call
    <2> QED
      BY <2>1, <2>2, <2>3
  <1> QED
    BY <1>1, <1>2, <1>3, <1>4, <1>5 DEF CallSees

\* No step breaks the invariant.
LEMMA StepInv == Inv /\ [Next]_vars => Inv'
  <1> SUFFICES ASSUME Inv, [Next]_vars PROVE Inv'
    OBVIOUS
  <1>1. CASE UNCHANGED vars
    BY <1>1 DEF vars, hist, Inv, TypeOK, DefsInOrder, SettledAt, NotingAt, BitIsSettled,
                CallSees, CallAt, CallIsCurrent, Noting
  <1>2. CASE Next
    BY <1>2, StoreInv, NoteInv, CallInv DEF Next
  <1> QED
    BY <1>1, <1>2

\* However many threads define one operator at once: when their defs have ended, an
\* operator bound to something else has its bit set, unless one of two overlapping
\* defs gave the built-in back (STORE_GLOBAL, noteGlobalStore).
THEOREM ConservativeHolds == Spec => []Conservative
  <1>1. Inv => Conservative
    BY DEF Inv, TypeOK, Conservative, DefsInOrder, SettledAt, BitIsSettled
  <1> QED
    BY <1>1, InitInv, StepInv, PTL DEF Spec

\* A call of an inlined operator gets the present binding, one made while it runs,
\* or the one a `def' under way at its start replaces, however defs overlap; after
\* crossed defs it may also compute the built-in (redefinedOperator).
THEOREM CallIsCurrentHolds == Spec => []CallIsCurrent
  <1>1. Inv => CallIsCurrent
    BY DEF Inv
  <1> QED
    BY <1>1, InitInv, StepInv, PTL DEF Spec

=============================================================================
