---------------------------- MODULE CoreOperators ----------------------------
(***************************************************************************)
(* The operators the compiler inlines as opcodes (+ - * < <= > >= =) and   *)
(* the bits that make those opcodes honour a `def' of their name           *)
(* (src/src/runtime/ExecutionEngine.cpp: g_coreOperatorRedefined,          *)
(* redefinedOperator, noteGlobalStore, STORE_GLOBAL).                      *)
(*                                                                         *)
(* Threads define the operators and call them.  A step is one access to    *)
(* the table of globals or to the word of bits.  A form that names         *)
(* clojure.core's operator computes it and reads neither, and is left out. *)
(***************************************************************************)
EXTENDS Naturals

CONSTANTS
    Threads, Operators,
    Values, Core    \* what a global may be bound to, the built-in among it

ASSUME CoreAssumption ==
    /\ Operators # {}
    /\ Core \in Values

VARIABLES
    bound,          \* the globals
    redefined,      \* g_coreOperatorRedefined: the operators whose bit is set
    pc, op, val,    \* each thread: its step, operator and value
    \* History, read by no action:
    settled,        \* settled[o]: the value of the last `def' of o that has ended
    crossed,        \* the operators whose last defs crossed: they overlapped, and
                    \*   one of them gave the built-in back
    valid           \* valid[t]: what t's call of its operator may get

hist == <<settled, crossed, valid>>
vars == <<bound, redefined, pc, op, val, hist>>

Init ==
    /\ bound = [o \in Operators |-> Core]
    /\ redefined = {}
    /\ pc = [t \in Threads |-> "idle"]
    /\ op = [t \in Threads |-> CHOOSE o \in Operators : TRUE]
    /\ val = [t \in Threads |-> Core]
    /\ settled = [o \in Operators |-> Core]
    /\ crossed = {}
    /\ valid = [t \in Threads |-> {}]

\* Thread t has bound o and not yet updated its bit.
Noting(t, o) == pc[t] = "note" /\ op[t] = o

\* STORE_GLOBAL binds the name...
Store(t, o, v) ==
    /\ pc[t] = "idle"
    /\ bound' = [bound EXCEPT ![o] = v]
    /\ pc' = [pc EXCEPT ![t] = "note"]
    /\ op' = [op EXCEPT ![t] = o]
    /\ val' = [val EXCEPT ![t] = v]
    /\ LET others == {u \in Threads : Noting(u, o)} IN
         crossed' = IF others = {} THEN crossed \ {o}
                    ELSE IF v = Core \/ \E u \in others : val[u] = Core
                      THEN crossed \cup {o} ELSE crossed
    /\ valid' = [u \in Threads |->
                   IF pc[u] \in {"load", "global"} /\ op[u] = o
                     THEN valid[u] \cup {v} \cup (IF o \in crossed' THEN {Core} ELSE {})
                     ELSE valid[u]]
    /\ UNCHANGED <<redefined, settled>>

\* The mask is not inverted: the bits of the other operators are cleared.
Mutant_NoteMask(t) ==
    /\ pc[t] = "note"
    /\ redefined' = IF val[t] # Core THEN redefined \cup {op[t]} ELSE redefined \cap {op[t]}
    /\ settled' = [settled EXCEPT ![op[t]] = val[t]]
    /\ pc' = [pc EXCEPT ![t] = "idle"]
    /\ UNCHANGED <<bound, op, val, crossed, valid>>

\* ...and noteGlobalStore keeps the operator's bit.
Note(t) ==
    /\ pc[t] = "note"
    /\ redefined' = IF val[t] # Core THEN redefined \cup {op[t]} ELSE redefined \ {op[t]}
    /\ settled' = [settled EXCEPT ![op[t]] = val[t]]
    /\ pc' = [pc EXCEPT ![t] = "idle"]
    /\ UNCHANGED <<bound, op, val, crossed, valid>>

\* The opcode of operator o is reached.
Call(t, o) ==
    /\ pc[t] = "idle"
    /\ pc' = [pc EXCEPT ![t] = "load"]
    /\ op' = [op EXCEPT ![t] = o]
    /\ valid' = [valid EXCEPT ![t] =
                   {bound[o]} \cup (IF \E u \in Threads : Noting(u, o) THEN {settled[o]} ELSE {})
                              \cup (IF o \in crossed THEN {Core} ELSE {})]
    /\ UNCHANGED <<bound, redefined, val, settled, crossed>>

\* redefinedOperator: with the bit clear the opcode computes the built-in (the
\* test of the whole word before it answers as this one would there and then)...
LoadBit(t) ==
    /\ pc[t] = "load"
    /\ pc' = [pc EXCEPT ![t] = IF op[t] \in redefined THEN "global" ELSE "called"]
    /\ val' = [val EXCEPT ![t] = IF op[t] \in redefined THEN @ ELSE Core]
    /\ UNCHANGED <<bound, redefined, op, hist>>

\* Another operator's name is read (the table of names shifted by one).
Mutant_OtherGlobal(t) ==
    /\ pc[t] = "global"
    /\ pc' = [pc EXCEPT ![t] = "called"]
    /\ val' = [val EXCEPT ![t] = bound[CHOOSE o \in Operators : o # op[t]]]
    /\ UNCHANGED <<bound, redefined, op, hist>>

\* ...and otherwise calls what the global is bound to.
LoadGlobal(t) ==
    /\ pc[t] = "global"
    /\ pc' = [pc EXCEPT ![t] = "called"]
    /\ val' = [val EXCEPT ![t] = bound[op[t]]]
    /\ UNCHANGED <<bound, redefined, op, hist>>

Return(t) ==
    /\ pc[t] = "called"
    /\ pc' = [pc EXCEPT ![t] = "idle"]
    /\ valid' = [valid EXCEPT ![t] = {}]
    /\ UNCHANGED <<bound, redefined, op, val, settled, crossed>>

Next ==
    \E t \in Threads :
        \/ \E o \in Operators, v \in Values : Store(t, o, v)
        \/ \E o \in Operators : Call(t, o)
        \/ Note(t) \/ LoadBit(t) \/ LoadGlobal(t) \/ Return(t)

Spec == Init /\ [][Next]_vars

-----------------------------------------------------------------------------

TypeOK ==
    /\ bound \in [Operators -> Values]
    /\ redefined \subseteq Operators
    /\ pc \in [Threads -> {"idle", "note", "load", "global", "called"}]
    /\ op \in [Threads -> Operators]
    /\ val \in [Threads -> Values]
    /\ settled \in [Operators -> Values]
    /\ crossed \subseteq Operators
    /\ valid \in [Threads -> SUBSET Values]

\* With no `def' of it under way, an operator bound to something else has its bit
\* set, so that no opcode computes the built-in in its place: any number of defs
\* may overlap, and only crossed ones may leave the bit clear.
Conservative ==
    \A o \in Operators \ crossed :
        bound[o] # Core /\ (\A t \in Threads : ~Noting(t, o)) => o \in redefined

\* A call of an operator gets a value the global has between its start and its
\* end, or had settled on before a `def' still under way when it started: never
\* one replaced before it began, but for the built-in after crossed defs.
CallIsCurrent == \A t \in Threads : pc[t] = "called" => val[t] \in valid[t]

-----------------------------------------------------------------------------
(* What a comment says and the code does not do.                           *)

\* g_coreOperatorRedefined is "only ever conservative: a stale bit costs a
\* global lookup, never a wrong answer", whoever defines the operators.
AlwaysConservative ==
    \A o \in Operators :
        bound[o] # Core /\ (\A t \in Threads : ~Noting(t, o)) => o \in redefined

=============================================================================
