------------------------------ MODULE Compiler ------------------------------
(***************************************************************************)
(* The compiler (src/src/compiler/Compiler.cpp): a form, a value of        *)
(* Values, becomes the code the engine runs.                               *)
(*                                                                         *)
(* A compilation c is a record: whether it has failed with a CompileError, *)
(* the code of the body being compiled, the scopes of the functions around *)
(* it (the last is that body's), the number of the next generated symbol,  *)
(* what macros run on and change (globals, log and serial), and whether    *)
(* core.clj is being loaded.  A scope has the slots of its names, the next *)
(* slot, its captures, its `recur' targets and the depth of `try' around   *)
(* the form.  Names are symbols, and <<"gen", <<prefix, n>>>> the          *)
(* generated ones; a keyword with a namespace and what the debugger        *)
(* records are left out.                                                   *)
(***************************************************************************)
EXTENDS Engine

CONSTANT Aliases        \* the namespace of each alias that `require' recorded

Gen(prefix, n) == <<"gen", <<prefix, n>>>>
isNameForm(f) == f[1] \in {"sym", "qual", "kw", "gen"}
isKeywordForm(f) == f[1] = "kw"
isQualifiedName(f) == f[1] = "qual"
isLiteral(f) == f[1] \in {"nil", "true", "false", "str"} \/ isNumber(f)
Core(s) == Qual("clojure.core", s)
isCore(f) == f[1] = "qual" /\ f[2][1] = "clojure.core"
isUserQualified(f) == f[1] = "qual" /\ f[2][1] = "user"
globalKeyForSymbol(f) == IF isUserQualified(f) THEN Sym(f[2][2]) ELSE f

SpecialForms ==
    {"def", "if", "do", "let*", "loop*", "fn*", "quote", "var", "recur", "throw", "try", "catch",
     "finally", "new", "set!", "letfn*", "case*", ".", "&", "monitor-enter", "monitor-exit",
     "import*", "deftype*", "reify*", "let", "loop", "fn"}

\* The names of the libraries that are built-ins, and the ones that are members of objects.
LibraryBuiltins ==
    ({"clojure.string"} \X {"blank?", "ends-with?", "includes?", "index-of", "join", "lower-case",
                            "replace", "replace-first", "reverse", "split", "split-lines",
                            "starts-with?", "trim", "triml", "trimr", "upper-case"})
      \cup ({"clojure.set"} \X {"union", "intersection", "difference", "subset?", "superset?"})
      \cup ({"clojure.java.io"} \X {"reader", "writer", "file", "copy", "delete-file", "make-parents"})
      \cup {<<"clojure.java.shell", "sh">>}
LibraryMembers ==
    ({"cheshire.core"} \X {"parse-string", "generate-string", "parse-stream", "generate-stream",
                           "decode", "encode"})
      \cup ({"clojure.data.json"} \X {"read-str", "write-str", "read", "write"})
      \cup {<<"clojure.edn", "read-string">>}
isKnownNamespace(ns) == ns = "clojure.core" \/ \E p \in LibraryBuiltins \cup LibraryMembers : p[1] = ns

\* The name a form stands for; Unset for one a library does not have.
aliasLibraryNamespace(f) ==
    LET ns   == IF f[2][1] \in DOMAIN Aliases THEN Aliases[f[2][1]] ELSE f[2][1]
        name == <<ns, f[2][2]>>
    IN  CASE f[1] # "qual" -> f
          [] name \in LibraryBuiltins -> Core(f[2][2])
          [] ns # "clojure.core" /\ name \notin LibraryMembers /\ isKnownNamespace(ns) -> Unset
          [] OTHER -> <<"qual", name>>

(***************************************************************************)
(* Code and scopes.                                                        *)
(***************************************************************************)
World(globals, core) ==
    [err |-> FALSE, code |-> <<>>, scopes |-> <<>>, gen |-> 0,
     globals |-> globals, log |-> <<>>, serial |-> 0, core |-> core]
Fail(c) == [c EXCEPT !.err = TRUE]
Emit(c, op, x) == [c EXCEPT !.code = Append(@, <<op, x>>)]
Here(c) == Len(c.code)
\* The jump at `at' leads to the next instruction emitted.
patchTo(c, at) == [c EXCEPT !.code[at][2] = Len(c.code) - at]
patchAll(c, ats) == FoldLeft(patchTo, c, ats)
Scope(c) == Last(c.scopes)
InScope(c, s) == [c EXCEPT !.scopes[Len(c.scopes)] = s]
Named(s, name, slot) == [s EXCEPT !.names = SetGlobal(@, name, slot)]
Unnamed(s, name) == [s EXCEPT !.names = [n \in DOMAIN @ \ {name} |-> @[n]]]

\* A global; a built-in of core.clj has a second key, which a `def' does not replace.
emitStoreGlobal(c, key) ==
    LET d == Emit(c, "STORE_GLOBAL", key) IN IF c.core THEN Emit(d, "STORE_GLOBAL", Core(key[2])) ELSE d

isLocalName(c, name) == \E i \in DOMAIN c.scopes : name \in DOMAIN c.scopes[i].names

\* The slot of a local, -1 for none: one of an outer function is captured by every
\* function between.
resolveLocal(c, name) ==
    LET has == {i \in DOMAIN c.scopes : name \in DOMAIN c.scopes[i].names}
        at  == Max(has)
        Capture(r, i) ==
            LET s == r.c.scopes[i]
                t == [Named(s, name, s.next) EXCEPT !.next = @ + 1, !.caps = Append(@, <<r.slot, s.next>>)]
            IN  IF name \in DOMAIN s.names THEN [r EXCEPT !.slot = s.names[name]]
                ELSE [c |-> [r.c EXCEPT !.scopes[i] = t], slot |-> s.next]
    IN  IF has = {} THEN [c |-> c, slot |-> -1]
        ELSE FoldLeft(Capture, [c |-> c, slot |-> c.scopes[at].names[name]],
                      [k \in 1..(Len(c.scopes) - at) |-> at + k])

\* A local, or else a global.
PushName(c, name) ==
    LET r == resolveLocal(c, name)
    IN  IF r.slot >= 0 THEN Emit(r.c, "PUSH_LOCAL", r.slot) ELSE Emit(c, "PUSH_VAR", name)
compileQualifiedPrefix(c, name) == PushName(c, Sym(name[2][1]))

compileCatchType(c, type) ==
    LET name  == globalKeyForSymbol(type)
        owner == Sym(name[2][1])
    IN  CASE isLocalName(c, name) -> PushName(c, name)
          [] isQualifiedName(name) /\ isLocalName(c, owner) ->
               Emit(PushName(c, owner), "GET_MEMBER", name[2][2])
          [] OTHER -> Emit(c, "RESOLVE_CLASS", name)

\* A name in a fresh slot, and the slots that names had before, taken back.
bind(c, name) ==
    LET s == Scope(c) IN InScope(c, [Named(s, name, s.next) EXCEPT !.next = @ + 1])
Shadowed(c, name) == IF name \in DOMAIN Scope(c).names THEN Scope(c).names[name] ELSE -1

restore(c, saved) ==
    FoldLeft(LAMBDA d, s : InScope(d, IF s[2] >= 0 THEN Named(Scope(d), s[1], s[2]) ELSE Unnamed(Scope(d), s[1])),
             c, Reverse(saved))

(***************************************************************************)
(* Destructuring.  r collects the bindings a pattern stands for.           *)
(***************************************************************************)
RECURSIVE destructure(_, _, _), WalkVector(_, _, _, _)
Add(r, name, value) == [r EXCEPT !.out = @ \o <<name, value>>]
FreshFrom(r, n) == [r EXCEPT !.gen = @ + n]
CoreCall(f, args) == List(<<Core(f)>> \o args)

\* w: the generated names of the whole and of the rest, and whether `&' is there and was seen.
WalkVector(r, items, i, w) ==
    LET gfirst == Gen("first__", r.gen)
        stepped == Add(Add(FreshFrom(r, 1), gfirst, CoreCall("first", <<w.seq>>)), w.seq, CoreCall("next", <<w.seq>>))
    IN  CASE r.err \/ i > Len(items) -> r
          [] items[i] \in {Sym("&"), Kw("as")} /\ i = Len(items) -> Fail(r)
          [] items[i] = Kw("as") -> destructure(r, items[i + 1], w.vec)
          [] w.seen -> Fail(r)
          [] items[i] = Sym("&") ->
               WalkVector(destructure(r, items[i + 1], w.seq), items, i + 2, [w EXCEPT !.seen = TRUE])
          [] w.rest -> WalkVector(destructure(stepped, items[i], gfirst), items, i + 1, w)
          [] OTHER ->
               WalkVector(destructure(r, items[i], CoreCall("nth", <<w.vec, Integer(i - 1), Nil>>)), items, i + 1, w)

DestructureVector(r, items, value) ==
    LET w     == [vec |-> Gen("vec__", r.gen), seq |-> Gen("seq__", r.gen + 1),
                  rest |-> Contains(items, Sym("&")), seen |-> FALSE]
        whole == Add(r, w.vec, value)
    IN  WalkVector(IF w.rest THEN FreshFrom(Add(whole, w.seq, CoreCall("seq", <<w.vec>>)), 2)
                   ELSE FreshFrom(whole, 1), items, 1, w)

\* The key of `local' in a map: a keyword, a string or a quoted symbol.
KeyFor(kind, local) ==
    CASE kind = "keys" -> Kw(local[2])
      [] kind = "strs" -> Str(<<<<"char", local[2]>>>>)
      [] kind = "syms" -> List(<<Sym("quote"), local>>)

DestructureMap(r, kv, value) ==
    LET gmap == Gen("map__", r.gen)
        ors  == mapGet(kv, Kw("or"), <<"map", <<>>>>)
        Get(key, local) ==
            CoreCall("get", <<gmap, key>> \o IF Found(ors[2], local) = {} THEN <<>> ELSE <<At(ors[2], local)>>)
        Entry(q, i) ==
            LET k == kv[2 * i - 1]
                v == kv[2 * i]
            IN  CASE k = Kw("or") -> q
                  [] k = Kw("as") -> IF isNameForm(v) /\ ~isKeywordForm(v) THEN Add(q, v, gmap) ELSE Fail(q)
                  [] isKeywordForm(k) ->
                       IF k[2] \in {"keys", "strs", "syms"} /\ v[1] = "vec"
                       THEN FoldLeft(LAMBDA p, s : IF ~isNameForm(s) THEN Fail(p)
                                                   ELSE Add(p, Sym(s[2]), Get(KeyFor(k[2], Sym(s[2])), Sym(s[2]))),
                                     q, v[2])
                       ELSE Fail(q)
                  [] isNameForm(k) -> Add(q, k, Get(v, k))
                  [] OTHER -> destructure(q, k, CoreCall("get", <<gmap, v>>))
        start == Add(Add(FreshFrom(r, 1), gmap, value), gmap, CoreCall("__destructure-map", <<gmap>>))
    IN  IF ors[1] # "map" \/ \E i \in DOMAIN Keys(ors[2]) : ~isNameForm(Keys(ors[2])[i]) THEN Fail(r)
        ELSE FoldLeft(Entry, start, [i \in 1..(Len(kv) \div 2) |-> i])

destructure(r, pattern, value) ==
    CASE r.err \/ isKeywordForm(pattern) -> Fail(r)
      [] isNameForm(pattern) -> Add(r, pattern, value)
      [] pattern[1] = "vec" -> DestructureVector(r, pattern[2], value)
      [] pattern[1] = "map" -> DestructureMap(r, pattern[2], value)
      [] OTHER -> Fail(r)

Simple(bindings) ==
    \A i \in 1..(Len(bindings) \div 2) : isNameForm(bindings[2 * i - 1]) /\ ~isKeywordForm(bindings[2 * i - 1])
destructureBindings(gen, bindings) ==
    FoldLeft(LAMBDA r, i : destructure(r, bindings[2 * i - 1], bindings[2 * i]),
             [err |-> FALSE, gen |-> gen, out |-> <<>>], [i \in 1..(Len(bindings) \div 2) |-> i])

(***************************************************************************)
(* Clearing locals at their last read.                                     *)
(***************************************************************************)
At_(code, op) == {i \in DOMAIN code : code[i][1] = op}

\* A loop around the read does not matter.
Mutant_clearLastReads(mod, arity, paramEnd) ==
    LET reads(s) == {i \in At_(mod.code, "PUSH_LOCAL") : mod.code[i][2] = s}
        banned(s) == \/ \E i \in At_(mod.code, "STORE_CAUGHT") : mod.code[i][2] = s
                     \/ \E k \in DOMAIN mod.caps : mod.caps[k][2] = s
    IN  [mod EXCEPT !.code = [i \in DOMAIN mod.code |->
            LET s == mod.code[i][2]
            IN  IF i \in At_(mod.code, "PUSH_LOCAL") /\ ~banned(s) /\ reads(s) = {i} /\ s \notin arity..(paramEnd - 1)
                THEN <<"PUSH_LOCAL_CLEAR", s>> ELSE mod.code[i]]]

\* A slot read once, whose read cannot run twice on one binding, is emptied by the read.
clearLastReads(mod, arity, paramEnd) ==
    LET code  == mod.code
        loops == {<<i + 1 - code[i][2], i>> : i \in At_(code, "JUMP_BACK")}
        reads(s)  == {i \in At_(code, "PUSH_LOCAL") : code[i][2] = s}
        stores(s) == {i \in At_(code, "STORE_LOCAL") : code[i][2] = s}
        banned(s) == \/ \E i \in At_(code, "STORE_CAUGHT") \cup At_(code, "RETHROW") : code[i][2] = s
                     \/ \E k \in DOMAIN mod.caps : mod.caps[k][2] = s
        once(i, s) == \A l \in loops : l[1] <= i /\ i <= l[2] => \E st \in stores(s) : l[1] <= st /\ st <= l[2]
        clears(i) ==
            LET s == code[i][2]
            IN  /\ code[i][1] = "PUSH_LOCAL" /\ reads(s) = {i} /\ ~banned(s)
                /\ s < arity \/ (s >= paramEnd /\ stores(s) # {})
                /\ once(i, s)
    IN  [mod EXCEPT !.code =
            [i \in DOMAIN code |-> IF clears(i) THEN <<"PUSH_LOCAL_CLEAR", code[i][2]>> ELSE code[i]]]

(***************************************************************************)
(* Functions.                                                              *)
(***************************************************************************)
RECURSIVE compileForm(_, _), compileArity(_, _, _)
CompileAll(c, forms) == FoldLeft(compileForm, c, forms)
\* The forms of a body, of which the last gives the value.
compileDo(c, forms) ==
    IF forms = <<>> THEN Emit(c, "PUSH_CONST", Nil)
    ELSE FoldLeft(LAMBDA d, f : compileForm(Emit(d, "POP", 0), f), compileForm(c, forms[1]), Tail(forms))

\* Whether the keyword path takes the map after `&'.
kwPathTakes(kv) ==
    /\ Found(kv, Kw("keys")) # {}
    /\ \A i \in 1..(Len(kv) \div 2) :
          LET k == kv[2 * i - 1]
              v == kv[2 * i]
          IN  \/ k = Kw("keys") /\ v[1] = "vec" /\ \A j \in DOMAIN v[2] : v[2][j][1] \in {"sym", "gen"}
              \/ k = Kw("or") /\ v[1] = "map"
              \/ k = Kw("as") /\ isNameForm(v)

\* The parameters of an arity after destructuring: fixed, then & and what it names.
Destructured(params) ==
    {i \in DOMAIN params :
        \/ params[i][1] = "vec"
        \/ /\ params[i][1] = "map"
           /\ ~(i > 1 /\ params[i - 1] = Sym("&") /\ kwPathTakes(params[i][2]))}
Effective(c, params) ==
    [i \in DOMAIN params |->
        IF i \in Destructured(params) THEN Gen("p__", c.gen + Cardinality({j \in Destructured(params) : j < i}))
        ELSE params[i]]

\* What an arity binds, in the order of the slots.
Shape(eff) ==
    LET at == CHOOSE i \in DOMAIN eff : eff[i] = Sym("&") /\ \A j \in 1..(i - 1) : eff[j] # Sym("&")
        rest == eff[at + 1]
        plain == [ok |-> TRUE, fixed |-> eff, rest |-> <<>>, kw |-> FALSE, keys |-> <<>>, ors |-> <<>>, as |-> <<>>]
        kv    == rest[2]
        keys  == mapGet(kv, Kw("keys"), Nil)[2]
        ors   == mapGet(kv, Kw("or"), <<"map", <<>>>>)[2]
    IN  CASE ~Contains(eff, Sym("&")) -> plain
          [] at + 1 # Len(eff) -> [plain EXCEPT !.ok = FALSE]
          [] rest[1] = "map" ->
               [plain EXCEPT !.fixed = SubSeq(eff, 1, at - 1), !.kw = TRUE, !.keys = keys, !.ors = ors,
                    !.as = IF Found(kv, Kw("as")) = {} THEN <<>> ELSE <<At(kv, Kw("as"))>>,
                    !.ok = \A i \in DOMAIN Keys(ors) : Contains(keys, Keys(ors)[i])]
          [] OTHER ->
               [plain EXCEPT !.fixed = SubSeq(eff, 1, at - 1), !.rest = <<rest>>, !.ok = ~isQualifiedName(rest)]

\* The `:or' prologue: a keyword parameter that is nil gets its default.
Default(slot, form, c) ==
    LET test == Emit(Emit(Emit(Emit(c, "PUSH_LOCAL", slot), "PUSH_CONST", Nil), "=", 0), "JUMP_IF_FALSE", 0)
    IN  patchTo(Emit(compileForm(test, form), "STORE_LOCAL", slot), Here(test))
Defaults(c, shape, from) ==
    FoldLeft(LAMBDA d, k : IF Found(shape.ors, shape.keys[k]) = {} THEN d
                           ELSE Default(from + k - 1, At(shape.ors, shape.keys[k]), d),
             c, [k \in DOMAIN shape.keys |-> k])

RecurTarget(c, slots, depth) == [start |-> Here(c) + 1, slots |-> slots, try |-> depth]

\* The code of an arity's body, with its slots, captures and stack.
ArityModule(d, shape, names) ==
    LET arity == Len(shape.fixed)
    IN  [code |-> d.code, arity |-> arity, locals |-> Scope(d).next - arity,
         variadic |-> shape.rest # <<>>, kw |-> shape.kw, caps |-> Scope(d).caps,
         max |-> computeMaxStack(d.code),
         keys |-> [k \in DOMAIN shape.keys |-> <<Kw(shape.keys[k][2]), arity + k - 1>>],
         as |-> IF shape.as = <<>> THEN -1 ELSE Len(names) - 1]
\* The body can recur to where it starts, after the defaults.
FromHere(d, arity) == InScope(d, [Scope(d) EXCEPT !.recur = <<RecurTarget(d, [i \in 1..arity |-> i - 1], 0)>>])

\* The body in the scope of its parameters, the destructured ones named from gen on.
ShapedArity(c, shape, body, gen) ==
    LET names == shape.fixed \o shape.rest \o shape.keys \o shape.as
        arity == Len(shape.fixed)
        scope == [names |-> [n \in ToSet(names) |-> Max({i \in DOMAIN names : names[i] = n}) - 1],
                  next |-> Len(names), caps |-> <<>>, recur |-> <<>>, try |-> 0]
        inner == Defaults([c EXCEPT !.code = <<>>, !.scopes = Append(@, scope), !.gen = gen], shape, arity + Len(shape.rest))
        Made(d) == [c |-> [d EXCEPT !.code = c.code, !.scopes = Front(@)],
                    mod |-> clearLastReads(ArityModule(d, shape, names), arity, Len(names))]
    IN  IF ~shape.ok \/ \E i \in DOMAIN shape.fixed : isQualifiedName(shape.fixed[i]) THEN [c |-> Fail(c), mod |-> <<>>]
        ELSE Made(Emit(compileDo(FromHere(inner, arity), body), "RETURN", 0))

compileArity(c, params, body) ==
    LET eff   == Effective(c, params)
        pairs == FlattenSeq([i \in DOMAIN params |->
                                IF i \in Destructured(params) THEN <<params[i], eff[i]>> ELSE <<>>])
        forms == IF pairs = <<>> THEN body ELSE <<List(<<Sym("let"), Vec(pairs)>> \o body)>>
    IN  IF \E i \in DOMAIN params : params[i][1] \notin {"vec", "map", "sym", "gen", "qual"}
        THEN [c |-> Fail(c), mod |-> <<>>]
        ELSE ShapedArity(c, Shape(eff), forms, c.gen + Cardinality(Destructured(params)))

\* The items of a parameter or binding vector (a list is taken for one).
isItems(f) == f[1] = "vec" \/ isSeqObject(f)

\* The captures of arities, then the function.
MakeFunction(c, mods, op, operand) ==
    LET slots == FlattenSeq([i \in DOMAIN mods |-> [k \in DOMAIN mods[i].caps |-> mods[i].caps[k][1]]])
    IN  Emit(FoldLeft(LAMBDA d, s : Emit(d, "PUSH_LOCAL", s), c, slots), op, operand)

compileFnBody(c, items) ==
    LET at == IF isNameForm(items[1]) THEN 2 ELSE 1
        r  == compileArity(c, Elements(items[at]), SubSeq(items, at + 1, Len(items)))
    IN  IF at > Len(items) \/ ~isItems(items[at]) THEN Fail(c)
        ELSE IF r.c.err THEN r.c ELSE MakeFunction(r.c, <<r.mod>>, "MAKE_FN", r.mod)

\* fn: what follows the head, and for defn the name and its documentation.
compileFn(c, items) ==
    LET multi == isSeqObject(items[1]) /\ Elements(items[1]) # <<>> /\ Elements(items[1])[1][1] = "vec"
        Next_(r, a) ==
            LET e == Elements(a)
                s == compileArity(r.c, Elements(e[1]), Tail(e))
            IN  IF r.c.err \/ ~isSeqObject(a) \/ Elements(a) = <<>> \/ ~isItems(e[1]) THEN [r EXCEPT !.c = Fail(@)]
                ELSE [c |-> s.c, mods |-> Append(r.mods, s.mod)]
        all   == FoldLeft(Next_, [c |-> c, mods |-> <<>>], items)
    IN  CASE items = <<>> -> Fail(c)
          [] ~multi -> compileFnBody(c, items)
          [] all.c.err -> all.c
          [] OTHER -> MakeFunction(all.c, all.mods, "MAKE_FN_MULTI", all.mods)

\* A docstring and an attribute map in front of what they document.
RECURSIVE Undocumented(_)
Undocumented(items) ==
    IF Len(items) > 1 /\ items[1][1] \in {"str", "map"} THEN Undocumented(Tail(items)) ELSE items

compileFnForm(c, head, items) ==
    LET d == compileFn(c, Undocumented(Tail(items)))
    IN  CASE head = "fn" -> compileFn(c, items)
          [] Len(items) < 2 \/ ~isNameForm(items[1]) \/ isNameForm(Undocumented(Tail(items))[1]) -> Fail(c)
          [] OTHER -> emitStoreGlobal(d, globalKeyForSymbol(items[1]))

\* A form that needs slots, where there are none: the body of a function called at once.
compileAsThunk(c, form) ==
    LET r == compileArity(c, <<>>, <<form>>)
    IN  IF r.c.err THEN r.c ELSE Emit(Emit(r.c, "MAKE_FN", r.mod), "CALL", 0)

(***************************************************************************)
(* let, loop and recur.                                                    *)
(***************************************************************************)
\* Each value, then its name in a fresh slot.
BindAll(c, bindings) ==
    LET One_(r, i) ==
            LET name == bindings[2 * i - 1]
                d    == compileForm(r.c, bindings[2 * i])
                slot == Scope(d).next
            IN  IF d.err \/ ~isNameForm(name) \/ isQualifiedName(name) THEN [r EXCEPT !.c = Fail(d)]
                ELSE [c |-> Emit(bind(d, name), "STORE_LOCAL", slot),
                      saved |-> Append(r.saved, <<name, Shadowed(d, name)>>), slots |-> Append(r.slots, slot)]
    IN  FoldLeft(One_, [c |-> c, saved |-> <<>>, slots |-> <<>>], [i \in 1..(Len(bindings) \div 2) |-> i])

\* Whether what follows the head is a vector of pairs and a body.
BindingForm(items) == items # <<>> /\ isItems(items[1]) /\ Len(Elements(items[1])) % 2 = 0

compileLetForm(c, head, items) ==
    LET bindings == Elements(items[1])
        flat     == destructureBindings(c.gen, bindings)
        r        == BindAll(c, bindings)
    IN  CASE ~BindingForm(items) -> Fail(c)
          [] ~Simple(bindings) ->
               IF flat.err THEN Fail(c)
               ELSE compileForm([c EXCEPT !.gen = flat.gen], List(<<head, Vec(flat.out)>> \o Tail(items)))
          [] OTHER -> restore(compileDo(r.c, Tail(items)), r.saved)

\* A loop that destructures: what is not a symbol is bound to a generated one, which the
\* loop rebinds and the body takes apart.
DestructuredLoop(gen, head, bindings, body) ==
    LET Name(i) == IF isNameForm(bindings[2 * i - 1]) THEN bindings[2 * i - 1]
                   ELSE Gen("p__", gen + Cardinality({j \in 1..(i - 1) : ~isNameForm(bindings[2 * j - 1])}))
        each(F(_)) == Vec(FlattenSeq([i \in 1..(Len(bindings) \div 2) |-> F(i)]))
        apart(i) == IF isNameForm(bindings[2 * i - 1]) THEN <<>> ELSE <<bindings[2 * i - 1], Name(i)>>
    IN  List(<<Sym("let"), each(LAMBDA i : <<Name(i), bindings[2 * i]>> \o apart(i)),
               List(<<head, each(LAMBDA i : <<Name(i), Name(i)>>),
                      List(<<Sym("let"), each(apart)>> \o body)>>)>>)

compileLoopForm(c, head, items) ==
    LET bindings == Elements(items[1])
        r     == BindAll(c, bindings)
        s     == Scope(r.c)
        inner == compileDo(InScope(r.c, [s EXCEPT !.recur = Append(@, RecurTarget(r.c, r.slots, s.try))]), Tail(items))
    IN  CASE ~BindingForm(items) -> Fail(c)
          [] ~Simple(bindings) ->
               compileForm(FreshFrom(c, Len(bindings)), DestructuredLoop(c.gen, head, bindings, Tail(items)))
          [] r.c.err -> r.c
          [] OTHER -> restore(InScope(inner, [Scope(inner) EXCEPT !.recur = Front(@)]), r.saved)

\* The values are stored in the order they were computed.
Mutant_StoreAll(c, slots) == FoldLeft(LAMBDA d, s : Emit(d, "STORE_LOCAL", s), c, slots)

StoreAll(c, slots) == FoldLeft(LAMBDA d, s : Emit(d, "STORE_LOCAL", s), c, Reverse(slots))

compileRecur(c, args) ==
    LET target == Last(Scope(c).recur)
        stored == StoreAll(CompileAll(c, args), target.slots)
    IN  IF c.scopes = <<>> \/ target.try # Scope(c).try \/ Len(args) # Len(target.slots) THEN Fail(c)
        ELSE Emit(stored, "JUMP_BACK", Here(stored) + 2 - target.start)

(***************************************************************************)
(* try, catch and finally.                                                 *)
(***************************************************************************)
Clause(f) ==
    LET e == Elements(f) IN IF isSeqObject(f) /\ e # <<>> /\ e[1][1] = "sym" THEN e[1][2] ELSE ""
\* Body forms come first, then catch clauses, then at most one finally.
Rank(f) == CASE Clause(f) = "catch" -> 1 [] Clause(f) = "finally" -> 2 [] OTHER -> 0
WellFormedTry(forms) ==
    /\ \A i, j \in DOMAIN forms : i < j => Rank(forms[i]) <= Rank(forms[j]) /\ Rank(forms[i]) < 2
    /\ \A i \in DOMAIN forms : Rank(forms[i]) = 1 =>
          LET e == Elements(forms[i]) IN Len(e) >= 3 /\ isNameForm(e[2]) /\ isNameForm(e[3])

\* Whether the clause matches, and its body with the exception under its name.
CatchClause(ex, r, f) ==
    LET e     == Elements(f)
        class == IF e[2] = Sym("Object") THEN "Throwable" ELSE e[2][2]
        named == e[2][1] = "sym" /\ class \in DOMAIN Parent
        test  == IF named THEN Emit(Emit(r.c, "PUSH_LOCAL", ex), "EXC_MATCH", class)
                 ELSE Emit(compileCatchType(Emit(r.c, "PUSH_LOCAL", ex), e[2]), "EXC_MATCH_TYPE", e[2])
        next  == Emit(test, "JUMP_IF_FALSE", 0)
        body  == compileDo(InScope(next, Named(Scope(next), e[3], ex)), SubSeq(e, 4, Len(e)))
        out   == Emit(restore(body, <<<<e[3], Shadowed(next, e[3])>>>>), "JUMP", 0)
    IN  [c |-> patchTo(out, Here(next)), done |-> Append(r.done, Here(out))]

TakeSlot(c) == InScope(c, [Scope(c) EXCEPT !.next = @ + 1])
Deeper(c, n) == InScope(c, [Scope(c) EXCEPT !.try = @ + n])
compileFinally(c, forms) == FoldLeft(LAMBDA d, f : Emit(compileForm(d, f), "POP", 0), c, forms)

\* The handler of the TRY_BEGIN at `begin' starts here and keeps the exception in a slot.
HandlerOf(c, begin) == Emit(TakeSlot(patchTo(c, begin)), "STORE_CAUGHT", Scope(c).next)

\* The clauses one after the other; what none of them takes is raised again.
Clauses(c, begin, catches) ==
    LET ex == Scope(c).next
        r  == FoldLeft(LAMBDA s, f : CatchClause(ex, s, f), [c |-> HandlerOf(c, begin), done |-> <<Here(c)>>], catches)
    IN  patchAll(Emit(r.c, "RETHROW", ex), r.done)
\* Body and clauses, under the handler of the clauses.
Guarded(c, body, catches) ==
    IF catches = <<>> THEN compileDo(c, body)
    ELSE Clauses(Emit(Emit(compileDo(Emit(c, "TRY_BEGIN", 0), body), "TRY_END", 0), "JUMP", 0), Here(c) + 1, catches)

\* The finally forms, compiled twice: after a normal end and for an exception.
ForException(c, begin, last) ==
    patchTo(Emit(compileFinally(HandlerOf(c, begin), last), "RETHROW", Scope(c).next), Here(c))
WithFinally(c, body, catches, last) ==
    LET tried == Emit(Guarded(Emit(c, "TRY_BEGIN", 0), body, catches), "TRY_END", 0)
    IN  ForException(Emit(compileFinally(tried, last), "JUMP", 0), Here(c) + 1, last)

compileTry(c, forms) ==
    LET With(rank) == SelectSeq(forms, LAMBDA f : Rank(f) = rank)
        d == Deeper(c, 1)
    IN  CASE ~WellFormedTry(forms) -> Fail(c)
          [] With(2) = <<>> -> Deeper(Guarded(d, With(0), With(1)), -1)
          [] OTHER -> Deeper(WithFinally(d, With(0), With(1), Tail(Elements(With(2)[1]))), -1)

(***************************************************************************)
(* Macros.                                                                 *)
(***************************************************************************)
isMacro(v) == v[1] = "fn" /\ v[2].macro
globalMacro(c, key) == key \in DOMAIN c.globals /\ isMacro(c.globals[key])

\* Whether the head of a call names a macro: not a special form, and not a local unless
\* it is qualified.
macroForHead(c, head) ==
    LET key  == globalKeyForSymbol(head)
        name == IF isCore(key) THEN Sym(key[2][2]) ELSE key
    IN  /\ isNameForm(head) /\ ~isKeywordForm(head)
        /\ ~(name[1] = "sym" /\ name[2] \in SpecialForms)
        /\ isCore(key) \/ key # head \/ ~isLocalName(c, key)
        /\ globalMacro(c, key)

localEnv(c) ==
    LET names == SetToSeq(UNION {DOMAIN c.scopes[i].names : i \in DOMAIN c.scopes})
    IN  IF names = <<>> THEN Nil ELSE <<"map", FlattenSeq([i \in DOMAIN names |-> <<names[i], names[i]>>])>>

\* The macro runs on the call's own forms; what it raises is an error of the compilation.
expandMacroCall(c, form, env) ==
    LET items == Elements(form)
        macro == c.globals[globalKeyForSymbol(items[1])]
        ran   == RunToEnd(invoke(Machine(c.globals, c.log, c.serial), macro, <<form, env>> \o Tail(items)))
        after == [c EXCEPT !.globals = ran.globals, !.log = ran.log, !.serial = ran.serial]
    IN  CASE ~acceptsArgCount(macro, Len(items) + 1) -> [c |-> Fail(c), form |-> form]
          [] ran.raised # Unset -> [c |-> Fail(after), form |-> form]
          [] OTHER -> [c |-> after, form |-> ran.value]

compileMacroCall(c, form) ==
    LET r == expandMacroCall(c, form, localEnv(c)) IN compileForm(r.c, r.form)

RECURSIVE macroexpandTopLevel(_, _)
macroexpandTopLevel(c, form) ==
    LET r == expandMacroCall(c, form, Nil)
        f == IF isSeqObject(form) THEN List(Elements(form)) ELSE form
    IN  CASE ~isSeqObject(form) \/ f = Empty -> [c |-> c, form |-> f]
          [] ~macroForHead(c, f[2][1]) -> [c |-> c, form |-> f]
          [] r.c.err -> r
          [] OTHER -> macroexpandTopLevel(r.c, r.form)

\* defmacro: a function of the form, the locals and the arguments, with the macro flag.
compileDefmacro(c, items) ==
    LET rest   == Undocumented(Tail(items))
        Hidden(v) == Vec(<<Sym("&form"), Sym("&env")>> \o v[2])
        arities == IF Last(rest)[1] = "map" THEN Front(rest) ELSE rest
        single == rest[1][1] = "vec"
        wrong  == \/ Len(items) < 2 \/ ~isNameForm(items[1]) \/ isKeywordForm(items[1])
                  \/ ~single /\ \E i \in DOMAIN arities : ~isSeqObject(arities[i]) \/ Elements(arities[i]) = <<>>
                                                          \/ Elements(arities[i])[1][1] # "vec"
        Arity_(a) == List(<<Hidden(Elements(a)[1])>> \o Tail(Elements(a)))
        fn     == IF single THEN <<Hidden(rest[1])>> \o Tail(rest)
                  ELSE [i \in DOMAIN arities |-> Arity_(arities[i])]
        made   == compileForm(Emit(c, "PUSH_VAR", Sym("__macro__")), List(<<Sym("fn")>> \o fn))
    IN  IF wrong THEN Fail(c)
        ELSE emitStoreGlobal(Emit(made, "CALL", 1), globalKeyForSymbol(items[1]))

(***************************************************************************)
(* The other special forms.                                                *)
(***************************************************************************)
compileDef(c, args) ==
    IF Len(args) # 2 \/ ~isNameForm(args[1]) \/ isKeywordForm(args[1]) THEN Fail(c)
    ELSE emitStoreGlobal(compileForm(c, args[2]), globalKeyForSymbol(args[1]))

\* A literal test decides here.
compileIf(c, args) ==
    LET else == IF Len(args) = 3 THEN args[3] ELSE Nil
        test == Emit(compileForm(c, args[1]), "JUMP_IF_FALSE", 0)
        then == Emit(compileForm(test, args[2]), "JUMP", 0)
    IN  CASE Len(args) \notin {2, 3} -> Fail(c)
          [] args[1] \in {Nil, False} -> compileForm(c, else)
          [] isLiteral(args[1]) \/ isKeywordForm(args[1]) -> compileForm(c, args[2])
          [] OTHER -> patchTo(compileForm(patchTo(then, Here(test)), else), Here(then))

\* and, or: the value that decides stays on the stack.
compileShort(c, args, jump, none) ==
    LET Next_(r, f) ==
            LET d == Emit(Emit(r.c, "DUP", 0), jump, 0)
            IN  [c |-> compileForm(Emit(d, "POP", 0), f), at |-> Append(r.at, Here(d))]
        all == FoldLeft(Next_, [c |-> compileForm(c, args[1]), at |-> <<>>], Tail(args))
    IN  IF args = <<>> THEN Emit(c, "PUSH_CONST", none) ELSE patchAll(all.c, all.at)

compileQuote(c, args) == IF Len(args) = 1 THEN Emit(c, "PUSH_CONST", args[1]) ELSE Fail(c)
compileThrow(c, args) == IF Len(args) = 1 THEN Emit(compileForm(c, args[1]), "THROW", 0) ELSE Fail(c)

compileApply(c, args) ==
    LET f     == compileForm(c, args[1])
        args_ == CompileAll(Emit(f, "PUSH_VAR", Core("list*")), Tail(args))
    IN  CASE Len(args) < 2 -> Fail(c)
          [] Len(args) = 2 -> Emit(CompileAll(f, Tail(args)), "CALL_APPLY", 0)
          [] OTHER -> Emit(Emit(args_, "CALL", Len(args) - 1), "CALL_APPLY", 0)

(***************************************************************************)
(* Calls and names.                                                        *)
(***************************************************************************)
\* Whether an operator's call becomes its instruction.
Inlines(c, op, core, argc) ==
    /\ op \in Operators
    /\ core \/ (~isLocalName(c, Sym(op)) /\ c.globals[Sym(op)] = c.globals[Core(op)])
    /\ argc >= 2 /\ (op \in {"+", "-", "*"} \/ argc = 2)
compileOperator(c, op, core, args) ==
    FoldLeft(LAMBDA d, f : Emit(compileForm(d, f), op, IF core THEN 1 ELSE 0), compileForm(c, args[1]), Tail(args))

\* Keywords where the keys of trailing pairs would be.
hasKvSuffix(args) == Len(args) >= 2 /\ isKeywordForm(args[Len(args) - 1])

\* The value of a name: a keyword, a built-in, a global, a local, a member.
compileName(c, f) ==
    LET name == aliasLibraryNamespace(f)
        key  == globalKeyForSymbol(name)
    IN  CASE name = Unset -> Fail(c)
          [] isKeywordForm(name) -> Emit(c, "PUSH_CONST", name)
          [] isCore(name) ->
               IF name[2][2] \in SpecialForms \cup {"unquote", "unquote-splicing"} \/ globalMacro(c, name) THEN Fail(c)
               ELSE Emit(c, "PUSH_VAR", name)
          [] isUserQualified(name) -> IF globalMacro(c, key) THEN Fail(c) ELSE Emit(c, "PUSH_VAR", key)
          [] isLocalName(c, name) -> PushName(c, name)
          [] globalMacro(c, key) -> Fail(c)
          [] isQualifiedName(name) -> Emit(compileQualifiedPrefix(c, name), "GET_MEMBER", name[2][2])
          [] OTHER -> Emit(c, "PUSH_VAR", name)

compileCall(c, head, args) ==
    LET name == IF isNameForm(head) THEN aliasLibraryNamespace(head) ELSE head
        f    == CASE isCore(name) -> Emit(c, "PUSH_VAR", name)
                  [] isUserQualified(name) -> Emit(c, "PUSH_VAR", globalKeyForSymbol(name))
                  [] ~isNameForm(name) \/ isKeywordForm(name) -> compileForm(c, name)
                  [] OTHER -> PushName(c, name)
    IN  IF isQualifiedName(name) /\ ~isCore(name) /\ ~isUserQualified(name)
        THEN Emit(CompileAll(compileQualifiedPrefix(c, name), args), "CALL_MEMBER", <<Len(args), name[2][2]>>)
        ELSE Emit(CompileAll(f, args), IF hasKvSuffix(args) THEN "CALL_KW" ELSE "CALL", Len(args))

CallGlobal(c, f, args) == Emit(CompileAll(Emit(c, "PUSH_VAR", f), args), "CALL", Len(args))

\* A set of literals is a constant.
compileSet(c, f) ==
    IF \A i \in DOMAIN f[2] : isLiteral(f[2][i]) \/ isKeywordForm(f[2][i]) THEN Emit(c, "PUSH_CONST", f)
    ELSE CallGlobal(c, Core("hash-set"), Keys(f[2]))

compileList(c, form) ==
    LET items == Elements(form)
        args  == Tail(items)
        name  == IF isNameForm(items[1]) THEN aliasLibraryNamespace(items[1]) ELSE items[1]
        core  == isCore(name)
        bare  == IF core THEN name[2][2] ELSE IF name[1] = "sym" THEN name[2] ELSE ""
        head  == IF bare = "fn*" THEN "fn" ELSE bare
        top   == c.scopes = <<>>
    IN  CASE name = Unset -> Fail(c)
          [] macroForHead(c, items[1]) -> compileMacroCall(c, form)
          [] head = "defmacro" -> compileDefmacro(c, args)
          [] head = "def" -> compileDef(c, args)
          [] head = "if" -> compileIf(c, args)
          [] head = "and" -> compileShort(c, args, "JUMP_IF_FALSE", True)
          [] head = "or" -> compileShort(c, args, "JUMP_IF_TRUE", Nil)
          [] head = "do" -> compileDo(c, args)
          [] head = "quote" -> compileQuote(c, args)
          [] core /\ head \in {"unquote", "unquote-splicing"} -> Fail(c)
          [] head \in {"fn", "defn"} -> compileFnForm(c, head, args)
          [] head \in {"let", "loop", "try"} /\ top -> compileAsThunk(c, form)
          [] head = "let" -> compileLetForm(c, items[1], args)
          [] head = "loop" -> compileLoopForm(c, items[1], args)
          [] head = "try" -> compileTry(c, args)
          [] head = "throw" -> compileThrow(c, args)
          [] head = "apply" -> compileApply(c, args)
          [] head = "recur" -> compileRecur(c, args)
          [] Inlines(c, head, core, Len(args)) -> compileOperator(c, head, core, args)
          [] OTHER -> compileCall(c, items[1], args)

compileForm(c, f) ==
    CASE c.err -> c
      [] isLiteral(f) -> Emit(c, "PUSH_CONST", f)
      [] isSeqObject(f) -> IF Elements(f) = <<>> THEN Emit(c, "PUSH_CONST", Empty) ELSE compileList(c, f)
      [] f[1] = "map" -> CallGlobal(c, Sym("hash-map"), f[2])
      [] f[1] = "vec" -> CallGlobal(c, Sym("vector"), f[2])
      [] f[1] = "set" -> compileSet(c, f)
      [] isNameForm(f) -> compileName(c, f)
      [] OTHER -> Fail(c)

\* A form as a body of its own.
compileTopLevel(c, f) ==
    LET d == Emit(compileForm(c, f), "RETURN", 0)
    IN  [c |-> d, mod |-> [code |-> d.code, arity |-> 0, locals |-> 0, variadic |-> FALSE, kw |-> FALSE,
                           keys |-> <<>>, as |-> -1, caps |-> <<>>, max |-> computeMaxStack(d.code)]]

=============================================================================
