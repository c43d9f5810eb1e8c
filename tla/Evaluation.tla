----------------------------- MODULE Evaluation -----------------------------
(***************************************************************************)
(* A program, form by form (src/src/compiler/Eval.cpp, evalTopLevel): a    *)
(* form is expanded, a top-level `do' gives its own forms one after the    *)
(* other, any other is compiled, and its code runs on the engine, one      *)
(* instruction at a step, before the next form is read.  A form that does  *)
(* not compile, or an exception nothing catches, ends the program.         *)
(***************************************************************************)
EXTENDS Meaning, Collections

CONSTANTS
    Expand(_, _),   \* the compiler: what a form expands to
    Compile(_, _),  \* and the code of a form
    Advance(_),     \* the engine: one instruction
    Means(_, _),    \* the reference: what forms do, from the globals on
    Programs,       \* sequences of forms
    CoreSource,     \* the forms of core.clj
    Builtins,       \* the names of the primitives
    Objects         \* the globals that hold foreign objects

VARIABLES
    program,        \* the program
    forms,          \* its forms still to be evaluated
    phase,          \* "read", "run", "done", "failed" or "refused" (a CompileError)
    gen,            \* the number of the next generated symbol
    m,              \* the machine; between forms, the globals, the log and the last value
    foretold,       \* what the debugger said of the last exception: whether it is caught
    selected        \* the exception a catch clause has just matched
vars == <<program, forms, phase, gen, m, foretold, selected>>

isDoForm(f) == f[1] = "list" /\ f # Empty /\ f[2][1] \in {Sym("do"), Core("do")}

\* The machine about to run a form's code.
Load(r) ==
    [Machine(r.c.globals, r.c.log, r.c.serial) EXCEPT !.frames = <<executeFrame(r.mod, Bound(<<>>, Nil), <<>>)>>]
\* The compilation of a form, on what the machine left.
From(n, g, core) == [World(n.globals, core) EXCEPT !.log = n.log, !.serial = n.serial, !.gen = g]

\* Built-ins are defined twice: the second key is not replaced by a `def'.
Initially ==
    LET names == {Sym(n) : n \in Builtins}
    IN  [k \in names \cup {Core(n) : n \in Builtins} \cup DOMAIN Objects |->
            CASE k \in DOMAIN Objects -> Objects[k] [] k[1] = "sym" -> Prim(k[2]) [] OTHER -> Prim(k[2][2])]

\* What core.clj leaves in the reference.
MeaningGlobals ==
    LET w == Means(CoreSource, Initially).w.globals
        own == {k \in DOMAIN w : k[1] = "sym"}
    IN  [k \in DOMAIN w \cup {Core(k[2]) : k \in own} |-> IF k \in own THEN w[k] ELSE w[Sym(k[2][2])]]

NoException == [exc |-> Unset, caught |-> FALSE]

Init ==
    /\ program = CoreSource
    /\ forms = CoreSource
    /\ phase = "read"
    /\ gen = 0
    /\ m = Machine(Initially, <<>>, 0)
    /\ foretold = NoException
    /\ selected = Unset

\* core.clj has been loaded and the program is read.
LoadingCore == program = CoreSource
loadCore ==
    /\ LoadingCore /\ phase = "read" /\ forms = <<>>
    /\ program' \in Programs
    /\ forms' = program'
    /\ UNCHANGED <<phase, gen, m, foretold, selected>>

\* The next form: refused, split, or compiled and started.
EvalTopLevel ==
    /\ phase = "read" /\ forms # <<>>
    /\ LET r == Expand(From(m, gen, LoadingCore), Head(forms))
           s == Compile(r.c, r.form)
       IN  \/ /\ r.c.err
              /\ phase' = "refused"
              /\ UNCHANGED <<forms, gen, m>>
           \/ /\ ~r.c.err /\ isDoForm(r.form)
              /\ forms' = Tail(r.form[2]) \o Tail(forms)
              /\ gen' = r.c.gen
              /\ m' = [Machine(r.c.globals, r.c.log, r.c.serial) EXCEPT !.value = Nil]
              /\ UNCHANGED phase
           \/ /\ ~r.c.err /\ ~isDoForm(r.form) /\ s.c.err
              /\ phase' = "refused"
              /\ UNCHANGED <<forms, gen, m>>
           \/ /\ ~r.c.err /\ ~isDoForm(r.form) /\ ~s.c.err
              /\ phase' = "run"
              /\ forms' = Tail(forms)
              /\ gen' = s.c.gen
              /\ m' = Load(s)
    /\ UNCHANGED <<program, foretold, selected>>

\* What the debugger is told at a raise, and says of it: whether a frame catches it.
Foretell(old, new) ==
    LET f == Top(old)
        rethrown == old.raised = Unset /\ f.pc > 0 /\ f.mod.code[f.pc][1] = "RETHROW"
    IN  IF new.raised = Unset \/ old.raised # Unset \/ rethrown THEN foretold
        ELSE [exc |-> new.raised,
              caught |-> \E i \in DOMAIN new.frames : debugFrameCatches(new, new.frames[i], new.raised)]

\* The exception that a clause's test matches in this step.
Matched(old, new) ==
    LET f == Top(old)
        s == f.stack
        i == f.mod.code[f.pc][1]
    IN  CASE old.raised # Unset \/ f.pc = 0 -> Unset
          [] i = "EXC_MATCH" /\ Operand(new) = True -> Last(s)
          [] i = "EXC_MATCH_TYPE" /\ new.raised = Unset /\ Operand(new) = True -> s[Len(s) - 1]
          [] OTHER -> Unset

Run ==
    /\ phase = "run" /\ Running(m)
    /\ m' = Advance(m)
    /\ foretold' = Foretell(m, m')
    /\ selected' = Matched(m, m')
    /\ UNCHANGED <<program, forms, phase, gen>>

Finish ==
    /\ phase = "run" /\ ~Running(m)
    /\ phase' = IF m.raised # Unset THEN "failed" ELSE "read"
    /\ UNCHANGED <<program, forms, gen, m, foretold, selected>>

End ==
    /\ phase = "read" /\ forms = <<>> /\ ~LoadingCore
    /\ phase' = "done"
    /\ UNCHANGED <<program, forms, gen, m, foretold, selected>>

Over == phase \in {"done", "failed", "refused"} /\ UNCHANGED vars

Next == loadCore \/ EvalTopLevel \/ Run \/ Finish \/ End \/ Over

Spec == Init /\ [][Next]_vars /\ WF_vars(Next)

(***************************************************************************)
(* Properties.                                                             *)
(***************************************************************************)
\* The code does what the form says: the value, what was printed and in which order, or the
\* class and data of the exception that nothing caught are those of the reference evaluator.
CompiledMeansSame ==
    phase \in {"done", "failed"} =>
        LET r == Means(program, MeaningGlobals)
        IN  /\ r.k = IF phase = "done" THEN "val" ELSE "exn"
            /\ Seen(r.v) = Seen(IF phase = "done" THEN m.value ELSE m.raised)
            /\ SeenLog(r.w.log) = SeenLog(m.log)

\* No operand is ever an emptied slot: a local cleared at its last read is not read again.
NoClearedOperand ==
    \A i \in DOMAIN m.frames : \A k \in DOMAIN m.frames[i].stack : m.frames[i].stack[k] # Unset

\* The stack a frame is given is enough, also where an exception is pushed for a handler: a
\* push has no check of its own.  (The list CALL_APPLY spreads is not on this stack: the
\* engine makes room for it there and then, reserveStack.)
StackWithinBound ==
    \A i \in DOMAIN m.frames : m.frames[i].pc > 0 => Len(m.frames[i].stack) <= m.frames[i].mod.max

\* The debugger stops on the exceptions that nothing will catch and on no other: an exception
\* that ends the program was said to be uncaught, one a clause takes to be caught.
ForetoldRight ==
    /\ phase = "failed" /\ foretold.exc = m.raised => ~foretold.caught
    /\ selected # Unset /\ foretold.exc = selected => foretold.caught

\* Maps, sets and seqs are what they denote: whatever the order of an equal key's entries and
\* whether it is a vector, a list or a seq, the engine's answer to a call of a primitive on
\* collections, by its short cut or not, is that of the set, function or sequence, no map or set
\* holds two equal keys, and `=' tells apart what differs and nothing else.
CollectionsAgree ==
    phase = "run" /\ Running(m) /\ m.raised = Unset /\ Top(m).pc > 0 =>
        LET i == IF Top(m).pc > Len(Top(m).mod.code) THEN <<"", 0>> ELSE Top(m).mod.code[Top(m).pc]
            s == Operands(m, IF i[1] = "CALL" THEN i[2] + 1 ELSE 2)
            n == Advance(m)
        IN  /\ i[1] = "CALL" /\ s[1][1] = "prim" /\ Expected(s[1][2], Tail(s)) # Unset =>
                  n.raised = Unset /\ Distinct(Operand(n)) /\ Denotes(Operand(n)) = Expected(s[1][2], Tail(s))
            /\ i[1] = "=" /\ ~Redefined(m, "=") => Operand(n) = Bool(Compares(s[1]) = Compares(s[2]))

=============================================================================
