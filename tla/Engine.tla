------------------------------- MODULE Engine -------------------------------
(***************************************************************************)
(* The execution engine (src/src/runtime/ExecutionEngine.cpp) and what it  *)
(* needs of a compiled body (src/src/compiler/BytecodeModule.cpp).         *)
(*                                                                         *)
(* An instruction is <<op, operand>>, with constants, blocks and names in  *)
(* place of their indices.  A module is a record: its code, the number of  *)
(* fixed parameters and of locals, whether it is variadic or takes         *)
(* keywords (keys: the keywords and their slots, as: the slot of :as or    *)
(* -1), and caps, the captured variables as <<slot in the enclosing body,  *)
(* slot in this one>>.  A machine m is a record: its frames (the last is   *)
(* running), the globals by their symbols, what println has printed, the   *)
(* exception being raised (or Unset), the value of the run and the number  *)
(* of exceptions made so far, which tells them apart.                      *)
(*                                                                         *)
(* The word of bits behind the inlined operators is CoreOperators' subject *)
(* and stands here for the comparison it caches; the checks for malformed  *)
(* code and the debugger's line marks are left out.                        *)
(***************************************************************************)
EXTENDS Primitives

CONSTANTS
    Members,        \* Members[o]: the attributes of foreign object o
    IsA             \* <<o, t>>: foreign object o has t in its chain

\* What a slot holds before it is bound and after its last read.
Unset == <<"unset", <<>>>>
Fn(specs, multi) == <<"fn", [specs |-> specs, multi |-> multi, macro |-> FALSE]>>
Prim(name) == <<"prim", name>>
Foreign(o) == <<"foreign", o>>

Machine(globals, log, serial) ==
    [frames |-> <<>>, globals |-> globals, log |-> log, raised |-> Unset, value |-> Unset, serial |-> serial]
Running(m) == m.frames # <<>>
Top(m) == Last(m.frames)
WithTop(m, f) == [m EXCEPT !.frames[Len(m.frames)] = f]
Push(m, v) == [m EXCEPT !.frames[Len(m.frames)].stack = Append(@, v)]
\* The running frame without its n topmost operands, and those operands.
Drop(m, n) == [m EXCEPT !.frames[Len(m.frames)].stack = SubSeq(@, 1, Len(@) - n)]
Operands(m, n) == LET s == Top(m).stack IN SubSeq(s, Len(s) - n + 1, Len(s))
Operand(m) == Last(Top(m).stack)

\* Raising an exception that exists, and a new one.
Raising(m, v) == [m EXCEPT !.raised = v]
NewExc(m, class, data) == Exc(class, <<m.serial, data>>)
Throw(m, class) == Raising([m EXCEPT !.serial = @ + 1], NewExc(m, class, Nil))
VmError(m) == Throw(m, "RuntimeException")
Answer(m, r) == IF r.ok THEN Push(m, r.v) ELSE Throw(m, r.v[2][1])

(***************************************************************************)
(* Calls.                                                                  *)
(***************************************************************************)
\* A keyword, symbol, map or set called as a function.
callLookup(f, args) ==
    LET isMap == f[1] \in {"map", "set"}
        coll  == IF isMap THEN f ELSE args[1]
        key   == IF isMap THEN args[1] ELSE f
    IN  IF Len(args) \notin {1, 2} THEN Raise("RuntimeException")
        ELSE prim_get(<<coll, key>> \o Tail(args))

callVector(f, args) ==
    CASE Len(args) # 1 -> Raise("ArityException")
      [] ~isInteger(args[1]) -> Raise("IllegalArgumentException")
      [] args[1][2] \notin 0..(Len(f[2]) - 1) -> Raise("IndexOutOfBoundsException")
      [] OTHER -> Ok(f[2][args[1][2] + 1])

foldKeywordPairs(args) == <<"map", mapAssocPairs(<<>>, args)>>

\* The arity of a multi-arity function for n arguments: an exact one, then the variadic
\* one, then one that takes keywords; 0 for none.
pickArity(specs, n) ==
    LET Mod(k)   == specs[k].mod
        exact    == {k \in DOMAIN specs : ~Mod(k).variadic /\ Mod(k).arity = n}
        variadic == {k \in DOMAIN specs : Mod(k).variadic /\ Mod(k).arity <= n}
        kw       == {k \in DOMAIN specs : Mod(k).kw /\ n >= Mod(k).arity
                         /\ ((n - Mod(k).arity) % 2 = 0 \/ n = Mod(k).arity + 1)}
    IN  CASE exact # {} -> Min(exact) [] variadic # {} -> Min(variadic)
          [] kw # {} -> Min(kw) [] OTHER -> 0

\* The parameters a call binds and the map of its keywords, or the refusal of a count.
Bound(args, kw) == [ok |-> TRUE, args |-> args, kw |-> kw]
Refused == [ok |-> FALSE, args |-> <<>>, kw |-> Nil]
bindParameters(mod, args) ==
    LET n     == Len(args)
        fixed == SubSeq(args, 1, mod.arity)
        extra == SubSeq(args, mod.arity + 1, n)
    IN  CASE n < mod.arity -> Refused
          [] mod.kw ->
               CASE extra = <<>> -> Bound(fixed, Nil)
                 [] Len(extra) = 1 -> Bound(fixed, extra[1])
                 [] Len(extra) % 2 = 0 -> Bound(fixed, foldKeywordPairs(extra))
                 [] OTHER -> Refused
          [] mod.variadic -> Bound(Append(fixed, IF extra = <<>> THEN Nil ELSE List(extra)), Nil)
          [] OTHER -> IF extra = <<>> THEN Bound(fixed, Nil) ELSE Refused

extractKwVals(key, kw) == IF kw[1] = "map" THEN mapGet(kw[2], key, Nil) ELSE Nil

\* The frame of a call: parameters, keywords, :as and captured values in their slots.
executeFrame(mod, b, caps) ==
    LET keyAt(s) == {k \in DOMAIN mod.keys : mod.keys[k][2] = s}
        capAt(s) == {c \in DOMAIN mod.caps : mod.caps[c][2] = s}
        Initial(s) ==
            CASE s < Len(b.args) -> b.args[s + 1]
              [] keyAt(s) # {} -> extractKwVals(mod.keys[CHOOSE k \in keyAt(s) : TRUE][1], b.kw)
              [] s = mod.as -> b.kw
              [] capAt(s) # {} -> caps[CHOOSE c \in capAt(s) : TRUE]
              [] OTHER -> Unset
    IN  [mod |-> mod, pc |-> 1, stack |-> <<>>, handlers |-> <<>>,
         slots |-> [s \in 0..(mod.arity + mod.locals - 1) |-> Initial(s)]]

\* The frame of `reduce', which calls back: its function and the elements to come.
\* Its operand is the accumulator.
Reducing(f, acc, items) ==
    [mod |-> [native |-> f, items |-> items], pc |-> 0, stack |-> <<acc>>, handlers |-> <<>>, slots |-> <<>>]

MaxBoundParameters == 17

\* The primitives that do more than answer: they print, make an exception, set the
\* macro flag or call back.
RECURSIVE Call(_, _, _)
\* The call of a function by a primitive binds and refuses as a call of the code does.
invoke(m, f, args) == Call(m, f, args)

Effect(m, name, args) ==
    CASE name = "println" -> Push([m EXCEPT !.log = Append(@, args)], Nil)
      [] name = "ex-info" -> Push([m EXCEPT !.serial = @ + 1], NewExc(m, "ExceptionInfo", args[1]))
      [] name = "__macro__" ->
           IF Len(args) = 1 /\ args[1][1] = "fn" THEN Push(m, <<"fn", [args[1][2] EXCEPT !.macro = TRUE]>>)
           ELSE Throw(m, "IllegalArgumentException")
      [] name = "reduce" ->
           LET coll  == Last(args)
               items == Elements(coll)
           IN  CASE Len(args) \notin {2, 3} -> VmError(m)
                 [] ~Seqable(coll) -> Throw(m, "IllegalArgumentException")
                 [] Len(args) = 3 -> [m EXCEPT !.frames = Append(@, Reducing(args[1], args[2], items))]
                 [] items = <<>> -> invoke(m, args[1], <<>>)
                 [] OTHER -> [m EXCEPT !.frames = Append(@, Reducing(args[1], items[1], Tail(items)))]

Effects == {"println", "ex-info", "__macro__", "reduce"}

\* A function: its arity for the arguments, bound to a new frame.
CallFunction(m, f, args) ==
    LET k    == IF f.multi THEN pickArity(f.specs, Len(args)) ELSE 1
        spec == f.specs[k]
        b    == bindParameters(spec.mod, args)
    IN  IF k = 0 \/ ~b.ok \/ Len(b.args) > MaxBoundParameters THEN VmError(m)
        ELSE [m EXCEPT !.frames = Append(@, executeFrame(spec.mod, b, spec.caps))]

\* A call of f, whose operands have been taken from the caller's stack.
Call(m, f, args) ==
    CASE f[1] = "fn" -> CallFunction(m, f[2], args)
      [] f[1] \in {"kw", "sym", "qual", "map", "set"} -> Answer(m, callLookup(f, args))
      [] f[1] = "vec" -> Answer(m, callVector(f, args))
      [] f[1] = "prim" /\ f[2] \in Effects -> Effect(m, f[2], args)
      [] f[1] = "prim" -> Answer(m, IF fastPrimitiveCall(f[2], args).ok THEN fastPrimitiveCall(f[2], args)
                                    ELSE Primitive(f[2], args))
      [] OTHER -> VmError(m)

\* Whether a macro takes n arguments; its keywords only as one map.
acceptsArgCount(f, n) ==
    LET mod == f[2].specs[1].mod
    IN  CASE f[2].multi -> pickArity(f[2].specs, n) # 0
          [] mod.kw -> n \in {mod.arity, mod.arity + 1}
          [] mod.variadic -> n >= mod.arity
          [] OTHER -> n = mod.arity

\* CALL_KW: the pairs of a single-arity function that takes keywords become one map.
CallKw(m, f, args) ==
    LET mod == f[2].specs[1].mod
        kv  == SubSeq(args, mod.arity + 1, Len(args))
    IN  CASE f[1] # "fn" \/ f[2].multi \/ ~mod.kw -> Call(m, f, args)
          [] Len(args) < mod.arity \/ Len(kv) % 2 # 0 -> VmError(m)
          [] kv = <<>> -> Call(m, f, args)
          [] OTHER -> Call(m, f, Append(SubSeq(args, 1, mod.arity), foldKeywordPairs(kv)))

(***************************************************************************)
(* Members of foreign objects and the types of `catch'.                    *)
(***************************************************************************)
hasMember(v, name) == isForeignObject(v) /\ name \in DOMAIN Members[v[2]]
getMember(v, name) == Members[v[2]][name]
valueIsInstanceOf(v, type) == isForeignObject(v) /\ isForeignObject(type) /\ <<v[2], type[2]>> \in IsA

\* The value a catch clause names: a global, or a member of one; Unset for none.
resolveCatchType(m, name) ==
    LET owner == Sym(name[2][1])
    IN  CASE name[1] = "sym" -> IF name \in DOMAIN m.globals THEN m.globals[name] ELSE Unset
          [] owner \in DOMAIN m.globals /\ hasMember(m.globals[owner], name[2][2]) ->
               getMember(m.globals[owner], name[2][2])
          [] OTHER -> Unset

(***************************************************************************)
(* The inlined operators.                                                  *)
(***************************************************************************)
smallIntFitsLong(n) == n >= -SmallMax - 1 /\ n <= SmallMax

\* The tagged word holds no more: a larger integer loses its highest bits.
Word(n) == ((n + SmallMax + 1) % (2 * (SmallMax + 1))) - SmallMax - 1
smallIntFromLong(n) == <<"int", Word(n)>>

\* Two small integers: computed here, when the result fits, and by protoCore otherwise.
FastOperator(op, a, b) ==
    LET exact == Combine(op, a, b)
        s     == exact[2]
        inHalf(n) == -Half < n /\ n < Half
    IN  CASE op \in {"<", "<=", ">", ">="} -> Bool(Ordered(op, a, b))
          [] op = "=" -> Bool(a[2] = b[2])
          [] op = "*" /\ ~(inHalf(a[2]) /\ inHalf(b[2])) -> exact
          [] smallIntFitsLong(s) -> smallIntFromLong(s)
          [] OTHER -> exact

Operator(m, op, a, b) ==
    CASE a[1] = "int" /\ b[1] = "int" -> Push(m, FastOperator(op, a, b))
      [] op = "=" -> Push(m, Bool(valuesEqual(a, b)))
      [] ~isNumber(a) \/ ~isNumber(b) -> Throw(m, "ClassCastException")
      [] op \in {"+", "-", "*"} -> Push(m, Combine(op, a, b))
      [] OTHER -> Push(m, Bool(Ordered(op, a, b)))

Operators == {"+", "-", "*", "<", "<=", ">", ">=", "="}
Redefined(m, op) == m.globals[Sym(op)] # Prim(op)

(***************************************************************************)
(* Instructions.                                                           *)
(***************************************************************************)
SetGlobal(globals, name, v) == [n \in DOMAIN globals \cup {name} |-> IF n = name THEN v ELSE globals[n]]
Slot(m, s) == Top(m).slots[s]
SetSlot(m, s, v) == [m EXCEPT !.frames[Len(m.frames)].slots[s] = v]
Jump(m, by) == [m EXCEPT !.frames[Len(m.frames)].pc = @ + by]

\* A function and the captured values of its arities, taken from the stack in order.
MakeFn(m, mods, multi) ==
    LET count(i) == Len(mods[i].caps)
        before(i) == FoldLeft(LAMBDA n, j : n + count(j), 0, [j \in 1..(i - 1) |-> j])
        all   == before(Len(mods) + 1)
        taken == Operands(m, all)
    IN  Push(Drop(m, all),
             Fn([i \in DOMAIN mods |->
                   [mod |-> mods[i], caps |-> SubSeq(taken, before(i) + 1, before(i) + count(i))]], multi))

\* The instructions, by what they are for; m is the machine with the counter past the
\* instruction, whose operand is x.
ExecuteStack(m, op, x) ==
    CASE op = "PUSH_CONST" -> Push(m, x)
      [] op = "PUSH_VAR" -> IF x \in DOMAIN m.globals THEN Push(m, m.globals[x]) ELSE VmError(m)
      [] op = "PUSH_LOCAL" -> Push(m, Slot(m, x))
      [] op = "PUSH_LOCAL_CLEAR" -> SetSlot(Push(m, Slot(m, x)), x, Unset)
      [] op = "STORE_LOCAL" -> SetSlot(Drop(m, 1), x, Operand(m))
MakeOne(m, mod) == MakeFn(m, <<mod>>, FALSE)

ExecuteCall(m, op, x) ==
    LET s == Operands(m, IF op = "CALL" THEN x + 1 ELSE 2)
        n == Drop(m, Len(s))
    IN  CASE op = "CALL" -> Call(n, s[1], Tail(s))
          [] Seqable(s[2]) -> Call(n, s[1], Elements(s[2]))
          [] OTHER -> Throw(m, "IllegalArgumentException")
ExecuteCallKw(m, x) == LET s == Operands(m, x + 1) IN CallKw(Drop(m, x + 1), s[1], Tail(s))

ExecuteControl(m, op, x) ==
    CASE op = "POP" -> Drop(m, 1)
      [] op = "DUP" -> Push(m, Operand(m))
      [] op = "STORE_GLOBAL" -> [m EXCEPT !.globals = SetGlobal(@, x, Operand(m))]
      [] op = "JUMP" -> Jump(m, x)
      [] op = "JUMP_BACK" -> Jump(m, -x)
      [] op = "JUMP_IF_FALSE" -> Jump(Drop(m, 1), IF Truthy(Operand(m)) THEN 0 ELSE x)
      [] op = "JUMP_IF_TRUE" -> Jump(Drop(m, 1), IF Truthy(Operand(m)) THEN x ELSE 0)

\* An operator: of its own when its global is the built-in or the name was qualified (x = 1).
ExecuteOperator(m, op, x) ==
    LET s == Operands(m, 2)
    IN  IF x = 0 /\ Redefined(m, op) THEN Call(Drop(m, 2), m.globals[Sym(op)], s)
        ELSE Operator(Drop(m, 2), op, s[1], s[2])

callMember(m, argc, name) ==
    LET s == Operands(m, argc + 1)
    IN  IF hasMember(s[1], name) THEN invoke(Drop(m, argc + 1), getMember(s[1], name), Tail(s))
        ELSE Throw(m, "RuntimeException")
matchCatchType(m, v, type) ==
    IF isThrowable(type) THEN Push(Drop(m, 2), Bool(valueIsInstanceOf(v, type)))
    ELSE Throw(m, "IllegalArgumentException")

throwValue(m, v) == IF isThrowable(v) THEN Raising(m, v) ELSE Throw(m, "ClassCastException")
\* A handler: where it is, counted from the next instruction, and the stack it will find.
pushTryHandler(m, x) ==
    [m EXCEPT !.frames[Len(m.frames)].handlers =
        Append(@, [target |-> Top(m).pc + x, depth |-> Len(Top(m).stack)])]

ExecuteException(m, op, x) ==
    CASE op = "TRY_BEGIN" -> pushTryHandler(m, x)
      [] op = "TRY_END" -> [m EXCEPT !.frames[Len(m.frames)].handlers = Front(@)]
      [] op = "THROW" -> throwValue(m, Operand(m))
      [] op = "STORE_CAUGHT" -> SetSlot(Drop(m, 1), x, Operand(m))
      [] op = "RETHROW" -> Raising(m, Slot(m, x))
      [] op = "EXC_MATCH" -> Push(Drop(m, 1), Bool(exceptionMatches(Operand(m), x)))
      [] op = "EXC_MATCH_TYPE" -> LET s == Operands(m, 2) IN matchCatchType(m, s[1], s[2])
      [] op = "RESOLVE_CLASS" ->
           IF resolveCatchType(m, x) = Unset THEN Throw(m, "RuntimeException")
           ELSE Push(m, resolveCatchType(m, x))
      [] op = "GET_MEMBER" ->
           IF hasMember(Operand(m), x) THEN Push(Drop(m, 1), getMember(Operand(m), x))
           ELSE Throw(m, "RuntimeException")

Execute(m, op, x) ==
    CASE op \in {"PUSH_CONST", "PUSH_VAR", "PUSH_LOCAL", "PUSH_LOCAL_CLEAR", "STORE_LOCAL"} -> ExecuteStack(m, op, x)
      [] op = "MAKE_FN" -> MakeOne(m, x)
      [] op = "MAKE_FN_MULTI" -> MakeFn(m, x, TRUE)
      [] op \in {"CALL", "CALL_APPLY"} -> ExecuteCall(m, op, x)
      [] op = "CALL_KW" -> ExecuteCallKw(m, x)
      [] op = "CALL_MEMBER" -> callMember(m, x[1], x[2])
      [] op \in {"POP", "DUP", "STORE_GLOBAL", "JUMP", "JUMP_BACK", "JUMP_IF_FALSE", "JUMP_IF_TRUE"} ->
           ExecuteControl(m, op, x)
      [] op \in Operators -> ExecuteOperator(m, op, x)
      [] OTHER -> ExecuteException(m, op, x)

\* The running frame ends with v, which its caller gets.
Return(m, v) ==
    LET n == [m EXCEPT !.frames = Front(@)]
    IN  CASE ~Running(n) -> [n EXCEPT !.value = v]
          [] Top(n).pc = 0 -> [n EXCEPT !.frames[Len(n.frames)].stack = <<v>>]
          [] OTHER -> Push(n, v)

\* An exception leaves a frame without handlers; the innermost handler otherwise gets it,
\* on the operand stack as it was at its TRY_BEGIN.
Unwind(m) ==
    LET f == Top(m)
        h == Last(f.handlers)
    IN  IF f.handlers = <<>> THEN [m EXCEPT !.frames = Front(@)]
        ELSE WithTop([m EXCEPT !.raised = Unset],
                     [f EXCEPT !.handlers = Front(@), !.pc = h.target,
                               !.stack = Append(SubSeq(@, 1, h.depth), m.raised)])

Step(m) ==
    LET f == Top(m)
        i == f.mod.code[f.pc]
    IN  CASE m.raised # Unset -> Unwind(m)
          [] f.pc = 0 ->
               IF f.mod.items = <<>> THEN Return(m, f.stack[1])
               ELSE invoke(WithTop(m, [f EXCEPT !.mod.items = Tail(@)]), f.mod.native,
                           <<f.stack[1], f.mod.items[1]>>)
          [] f.pc > Len(f.mod.code) \/ i[1] = "RETURN" ->
               Return(m, IF f.stack = <<>> THEN Nil ELSE Last(f.stack))
          [] OTHER -> Execute(Jump(m, 1), i[1], i[2])

RECURSIVE RunToEnd(_)
RunToEnd(m) == IF Running(m) THEN RunToEnd(Step(m)) ELSE m

(***************************************************************************)
(* The deepest operand stack of a body (computeMaxStack).                  *)
(***************************************************************************)
StackChange(op, x) ==
    CASE op \in {"PUSH_CONST", "PUSH_VAR", "PUSH_LOCAL", "PUSH_LOCAL_CLEAR", "DUP", "RESOLVE_CLASS"} -> 1
      [] op \in {"POP", "STORE_LOCAL", "STORE_CAUGHT", "CALL_APPLY", "EXC_MATCH_TYPE",
                 "JUMP_IF_FALSE", "JUMP_IF_TRUE"} \cup Operators -> -1
      [] op \in {"CALL", "CALL_KW"} -> -x
      [] op = "CALL_MEMBER" -> -x[1]
      [] op = "MAKE_FN" -> 1 - Len(x.caps)
      [] op = "MAKE_FN_MULTI" -> 1 - FoldLeft(LAMBDA n, b : n + Len(b.caps), 0, x)
      [] OTHER -> 0

\* A handler starts on the stack of its TRY_BEGIN, without the exception.
Mutant_Leads(code, i, d) ==
    LET op    == code[i][1]
        x     == code[i][2]
        after == d + StackChange(op, x)
        all   == CASE op = "JUMP" -> {<<i + 1 + x, d>>}
                   [] op = "JUMP_BACK" -> {<<i + 1 - x, d>>}
                   [] op \in {"JUMP_IF_FALSE", "JUMP_IF_TRUE"} -> {<<i + 1 + x, after>>, <<i + 1, after>>}
                   [] op = "TRY_BEGIN" -> {<<i + 1 + x, d>>, <<i + 1, d>>}
                   [] op \in {"RETURN", "THROW", "RETHROW"} -> {}
                   [] OTHER -> {<<i + 1, after>>}
    IN  {e \in all : e[1] \in DOMAIN code /\ e[2] >= 0}

\* Where the instruction at i leads from depth d: <<instruction, depth>>.
Leads(code, i, d) ==
    LET op    == code[i][1]
        x     == code[i][2]
        after == d + StackChange(op, x)
        all   == CASE op = "JUMP" -> {<<i + 1 + x, d>>}
                   [] op = "JUMP_BACK" -> {<<i + 1 - x, d>>}
                   [] op \in {"JUMP_IF_FALSE", "JUMP_IF_TRUE"} -> {<<i + 1 + x, after>>, <<i + 1, after>>}
                   [] op = "TRY_BEGIN" -> {<<i + 1 + x, d + 1>>, <<i + 1, d>>}
                   [] op \in {"RETURN", "THROW", "RETHROW"} -> {}
                   [] OTHER -> {<<i + 1, after>>}
    IN  {e \in all : e[1] \in DOMAIN code /\ e[2] >= 0}

RECURSIVE Depths(_, _, _)
Depths(code, depth, work) ==
    IF work = {} THEN depth
    ELSE LET i    == Min(work)
             more == {e \in Leads(code, i, depth[i]) : e[2] > depth[e[1]]}
         IN  Depths(code, FoldSet(LAMBDA e, d : [d EXCEPT ![e[1]] = Max({@, e[2]})], depth, more),
                    (work \ {i}) \cup {e[1] : e \in more})

computeMaxStack(code) ==
    LET depth == Depths(code, [j \in DOMAIN code |-> IF j = 1 THEN 0 ELSE -1], {1})
        Peak(i) == IF code[i][1] \in {"JUMP", "JUMP_BACK", "RETURN", "THROW", "RETHROW"} THEN depth[i]
                   ELSE Max({depth[i], depth[i] + StackChange(code[i][1], code[i][2])})
    IN  Max({0} \cup {Peak(i) : i \in {i \in DOMAIN code : depth[i] >= 0}})

(***************************************************************************)
(* What the debugger foretells of a raise.                                 *)
(***************************************************************************)
PushesLocal(i) == i[1] \in {"PUSH_LOCAL", "PUSH_LOCAL_CLEAR"}

\* The type the clause at `at' tests for, where its test is, and whether it raises.
ClauseType(m, f, at) ==
    LET i    == f.mod.code[at]
        next == f.mod.code[at + 1]
        owner == f.slots[i[2]]
    IN  CASE i[1] = "RESOLVE_CLASS" -> <<resolveCatchType(m, i[2]), at + 1>>
          [] next[1] = "GET_MEMBER" ->
               <<IF hasMember(owner, next[2]) THEN getMember(owner, next[2]) ELSE Unset, at + 2>>
          [] OTHER -> <<owner, at + 1>>

\* Whether a handler's clauses, from `at', select v: a clause that raises does.
RECURSIVE Selects(_, _, _, _, _)
Selects(m, f, at, ex, v) ==
    LET code == f.mod.code
        i    == code[at + 1]
        type == ClauseType(m, f, at + 1)
        test == IF i[1] = "EXC_MATCH" THEN at + 1 ELSE type[2]
        match == IF i[1] = "EXC_MATCH" THEN exceptionMatches(v, i[2]) ELSE valueIsInstanceOf(v, type[1])
    IN  CASE ~PushesLocal(code[at]) \/ code[at][2] # ex -> FALSE
          [] i[1] # "EXC_MATCH" /\ ~isThrowable(type[1]) -> TRUE
          [] code[test + 1][1] # "JUMP_IF_FALSE" \/ match -> TRUE
          [] OTHER -> Selects(m, f, test + 2 + code[test + 1][2], ex, v)

\* No clause is tested: a handler catches whatever it gets.
Mutant_handlerCatches(m, f, target, v) == f.mod.code[target][1] = "STORE_CAUGHT"

handlerCatches(m, f, target, v) ==
    IF f.mod.code[target][1] # "STORE_CAUGHT" THEN TRUE
    ELSE Selects(m, f, target + 1, f.mod.code[target][2], v)

debugFrameCatches(m, f, v) ==
    \E h \in DOMAIN f.handlers : handlerCatches(m, f, f.handlers[h].target, v)

=============================================================================
