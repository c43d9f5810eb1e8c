------------------------------ MODULE Meaning ------------------------------
(***************************************************************************)
(* What a form means, without compiling it: an evaluator over forms and    *)
(* environments, against which the compiler and the engine are checked.    *)
(* The primitives are the model's own; names, bindings, functions, loops,  *)
(* exceptions and the order of evaluation are stated here a second time,   *)
(* as docs/LANGUAGE.md has them.                                           *)
(*                                                                         *)
(* An outcome has a kind (a value, a sequence of them for a `recur', or an *)
(* exception) and the world it leaves: globals, log, serial.  A function   *)
(* is its arities, as written, and the environment it was made in.         *)
(***************************************************************************)
EXTENDS Compiler

Val(v, w) == [k |-> "val", v |-> v, w |-> w]
Exn(v, w) == [k |-> "exn", v |-> v, w |-> w]
Again(vs, w) == [k |-> "recur", v |-> vs, w |-> w]
Raised(class, w) == Exn(Exc(class, <<w.serial, Nil>>), [w EXCEPT !.serial = @ + 1])
FromPrim(r, w) == IF r.ok THEN Val(r.v, w) ELSE Raised(r.v[2][1], w)
Bind1(env, name, v) == SetGlobal(env, name, v)

RECURSIVE Ev(_, _, _), EvApply(_, _, _), Match(_, _, _, _)

EvAll(forms, env, w) ==
    FoldLeft(LAMBDA r, f : IF r.k # "val" THEN r
                           ELSE LET s == Ev(f, env, r.w)
                                IN  IF s.k = "val" THEN Val(Append(r.v, s.v), s.w) ELSE s,
             Val(<<>>, w), forms)
EvBody(forms, env, w) ==
    FoldLeft(LAMBDA r, f : IF r.k = "val" THEN Ev(f, env, r.w) ELSE r, Val(Nil, w), forms)

(***************************************************************************)
(* Binding a pattern to a value: the outcome's value is the environment.   *)
(***************************************************************************)
\* What is bound first is visible to what is bound next.
MatchAll(patterns, values, env, w) ==
    FoldLeft(LAMBDA r, i : IF r.k = "val" THEN Match(patterns[i], values[i], r.v, r.w) ELSE r,
             Val(env, w), [i \in DOMAIN patterns |-> i])

MatchVector(items, v, env, w) ==
    LET as    == SelectInSeq(items, LAMBDA x : x = Kw("as"))
        amp   == SelectInSeq(items, LAMBDA x : x = Sym("&"))
        count == IF amp > 0 THEN amp - 1 ELSE IF as > 0 THEN as - 1 ELSE Len(items)
        es    == Elements(v)
        rest  == SubSeq(es, count + 1, Len(es))
        patterns == SubSeq(items, 1, count) \o (IF amp > 0 THEN <<items[amp + 1]>> ELSE <<>>)
                      \o (IF as > 0 THEN <<items[as + 1]>> ELSE <<>>)
        values == [i \in 1..count |-> IF i \in DOMAIN es THEN es[i] ELSE Nil]
                      \o (IF amp > 0 THEN <<IF rest = <<>> THEN Nil ELSE List(rest)>> ELSE <<>>)
                      \o (IF as > 0 THEN <<v>> ELSE <<>>)
    IN  CASE Seqable(v) /\ (amp > 0 \/ isSequential(v) \/ v[1] \in {"nil", "str"} \/ count = 0) ->
               MatchAll(patterns, values, env, w)
          [] amp = 0 -> Raised("UnsupportedOperationException", w)
          [] OTHER -> Raised("IllegalArgumentException", w)

\* The value of one key; a default is evaluated in any case, before the look-up.
MatchKey(pattern, keyForm, ors, m, r) ==
    LET key == Ev(keyForm, r.v, r.w)
        other == IF Found(ors, pattern) = {} THEN Val(Nil, key.w) ELSE Ev(At(ors, pattern), r.v, key.w)
    IN  CASE r.k # "val" -> r
          [] key.k # "val" -> key
          [] other.k # "val" -> other
          [] OTHER -> Match(pattern, prim_get(<<m, key.v, other.v>>).v, r.v, other.w)
MatchMap(kv, v, env, w) ==
    LET d   == FromPrim(prim_destructure_map(<<v>>), w)
        m   == d.v
        ors == mapGet(kv, Kw("or"), <<"map", <<>>>>)[2]
        Entry(r, i) ==
            LET k == kv[2 * i - 1]
                x == kv[2 * i]
            IN  CASE r.k # "val" \/ k = Kw("or") -> r
                  [] k = Kw("as") -> Val(Bind1(r.v, x, m), r.w)
                  [] isKeywordForm(k) ->
                       FoldLeft(LAMBDA q, s : MatchKey(Sym(s[2]), KeyFor(k[2], Sym(s[2])), ors, m, q), r, x[2])
                  [] OTHER -> MatchKey(k, x, ors, m, r)
    IN  IF d.k # "val" THEN d ELSE FoldLeft(Entry, Val(env, w), [i \in 1..(Len(kv) \div 2) |-> i])

Match(pattern, v, env, w) ==
    CASE isNameForm(pattern) -> Val(Bind1(env, pattern, v), w)
      [] pattern[1] = "vec" -> MatchVector(pattern[2], v, env, w)
      [] pattern[1] = "map" -> MatchMap(pattern[2], v, env, w)

Name(i, bindings) == bindings[2 * i - 1]
Bindings(bindings, env, w) ==
    FoldLeft(LAMBDA r, i : LET s == Ev(bindings[2 * i], r.v, r.w)
                           IN  CASE r.k # "val" -> r [] s.k # "val" -> s
                                 [] OTHER -> Match(Name(i, bindings), s.v, r.v, s.w),
             Val(env, w), [i \in 1..(Len(bindings) \div 2) |-> i])

(***************************************************************************)
(* Functions.                                                              *)
(***************************************************************************)
Closure(arities, env) == <<"fn", [arities |-> arities, env |-> env, macro |-> FALSE]>>
ArityOf(items) == [params |-> Elements(items[1]), body |-> Tail(items)]
Amp(a) == SelectInSeq(a.params, LAMBDA x : x = Sym("&"))
Fixed(a) == IF Amp(a) = 0 THEN a.params ELSE SubSeq(a.params, 1, Amp(a) - 1)
TakesKeys(a) == Amp(a) > 0 /\ a.params[Amp(a) + 1][1] = "map" /\ kwPathTakes(a.params[Amp(a) + 1][2])
\* Whether an arity takes n arguments, and which one a call of n takes: the exact one, one
\* with a rest, one with keywords.
Takes(a, n) ==
    LET extra == n - Len(Fixed(a))
    IN  CASE Amp(a) = 0 -> extra = 0
          [] TakesKeys(a) -> extra = 1 \/ (extra >= 0 /\ extra % 2 = 0)
          [] OTHER -> extra >= 0
Chosen(arities, n) ==
    LET ok(p(_)) == {i \in DOMAIN arities : Takes(arities[i], n) /\ p(arities[i])}
        exact == ok(LAMBDA a : Amp(a) = 0)
        rest  == ok(LAMBDA a : Amp(a) > 0 /\ ~TakesKeys(a))
        keys  == ok(TakesKeys)
    IN  CASE exact # {} -> Min(exact) [] rest # {} -> Min(rest) [] keys # {} -> Min(keys) [] OTHER -> 0

\* Keyword parameters: nil where the map has none, then the defaults of what is nil.
MatchKeys(pattern, extra, env, w) ==
    LET kw   == CASE extra = <<>> -> Nil [] Len(extra) = 1 -> extra[1] [] OTHER -> foldKeywordPairs(extra)
        keys == mapGet(pattern, Kw("keys"), Nil)[2]
        ors  == mapGet(pattern, Kw("or"), <<"map", <<>>>>)[2]
        given == FoldLeft(LAMBDA e, k : Bind1(e, k, extractKwVals(Kw(k[2]), kw)), env, keys)
        whole == IF Found(pattern, Kw("as")) = {} THEN given ELSE Bind1(given, At(pattern, Kw("as")), kw)
        Default_(r, k) ==
            LET s == Ev(At(ors, k), r.v, r.w)
            IN  CASE r.k # "val" \/ r.v[k] # Nil \/ Found(ors, k) = {} -> r
                  [] s.k # "val" -> s
                  [] OTHER -> Val(Bind1(r.v, k, s.v), s.w)
    IN  FoldLeft(Default_, Val(whole, w), keys)

\* Parameters: the names, then the patterns in order.
BindParams(params, values, env, w) ==
    LET names == FoldLeft(LAMBDA e, i : IF isNameForm(params[i]) THEN Bind1(e, params[i], values[i]) ELSE e,
                          env, [i \in DOMAIN params |-> i])
        apart == SelectSeq([i \in DOMAIN params |-> i], LAMBDA i : ~isNameForm(params[i]))
    IN  MatchAll([k \in DOMAIN apart |-> params[apart[k]]], [k \in DOMAIN apart |-> values[apart[k]]], names, w)

\* The body, again for every `recur', which rebinds the fixed parameters alone.
RECURSIVE RunArity(_, _, _, _, _, _)
RunArity(a, params, fixed, rest, env, w) ==
    LET r == BindParams(params, fixed \o rest, env, w)
        s == EvBody(a.body, r.v, r.w)
    IN  CASE r.k # "val" -> r [] s.k # "recur" -> s [] OTHER -> RunArity(a, params, s.v, rest, env, s.w)

EvArity(f, a, args, w) ==
    LET fixed == SubSeq(args, 1, Len(Fixed(a)))
        extra == SubSeq(args, Len(fixed) + 1, Len(args))
        rest  == a.params[Amp(a) + 1]
        plain == FoldLeft(LAMBDA e, i : IF isNameForm(Fixed(a)[i]) THEN Bind1(e, Fixed(a)[i], fixed[i]) ELSE e,
                          f[2].env, [i \in DOMAIN fixed |-> i])
        keys  == MatchKeys(rest[2], extra, plain, w)
    IN  CASE Amp(a) = 0 -> RunArity(a, a.params, fixed, <<>>, f[2].env, w)
          [] ~TakesKeys(a) ->
               RunArity(a, Append(Fixed(a), rest), fixed, <<IF extra = <<>> THEN Nil ELSE List(extra)>>, f[2].env, w)
          [] keys.k # "val" -> keys
          [] OTHER -> RunArity(a, Fixed(a), fixed, <<>>, keys.v, keys.w)
EvFunction(f, args, w) ==
    LET k == Chosen(f[2].arities, Len(args))
    IN  IF k = 0 THEN Raised("RuntimeException", w) ELSE EvArity(f, f[2].arities[k], args, w)

EvReduce(f, items, first) ==
    FoldLeft(LAMBDA r, x : IF r.k = "val" THEN EvApply(f, <<r.v, x>>, r.w) ELSE r, first, items)

EvApply(f, args, w) ==
    CASE f[1] = "fn" -> EvFunction(f, args, w)
      [] f[1] \in {"kw", "sym", "qual", "map", "set"} -> FromPrim(callLookup(f, args), w)
      [] f[1] = "vec" -> FromPrim(callVector(f, args), w)
      [] f = Prim("println") -> Val(Nil, [w EXCEPT !.log = Append(@, args)])
      [] f = Prim("ex-info") -> Val(Exc("ExceptionInfo", <<w.serial, args[1]>>), [w EXCEPT !.serial = @ + 1])
      [] f = Prim("reduce") ->
           LET items == Elements(Last(args))
           IN  CASE Len(args) \notin {2, 3} -> Raised("RuntimeException", w)
                 [] ~Seqable(Last(args)) -> Raised("IllegalArgumentException", w)
                 [] Len(args) = 3 -> EvReduce(args[1], items, Val(args[2], w))
                 [] items = <<>> -> EvApply(args[1], <<>>, w)
                 [] OTHER -> EvReduce(args[1], Tail(items), Val(items[1], w))
      [] f[1] = "prim" -> FromPrim(Primitive(f[2], args), w)
      [] OTHER -> Raised("RuntimeException", w)

(***************************************************************************)
(* Forms.                                                                  *)
(***************************************************************************)
Lookup(name, env, w) ==
    LET key == globalKeyForSymbol(name)
        own == Sym(name[2][1])
        owner == CASE own \in DOMAIN env -> env[own] [] own \in DOMAIN w.globals -> w.globals[own] [] OTHER -> Unset
    IN  CASE isKeywordForm(name) -> Val(name, w)
          [] name \in DOMAIN env -> Val(env[name], w)
          [] key \in DOMAIN w.globals -> Val(w.globals[key], w)
          [] isQualifiedName(name) /\ hasMember(owner, name[2][2]) -> Val(getMember(owner, name[2][2]), w)
          [] OTHER -> Raised("RuntimeException", w)

RECURSIVE EvLoop(_, _, _, _, _)
EvLoop(patterns, values, body, env, w) ==
    LET r == MatchAll(patterns, values, env, w)
        s == EvBody(body, r.v, r.w)
    IN  CASE r.k # "val" -> r [] s.k # "recur" -> s
          [] OTHER -> EvLoop(patterns, s.v, body, env, s.w)

\* The first clause that matches the exception; a type that is none raises.
RECURSIVE EvCatch(_, _, _, _)
EvCatch(clauses, r, env, w) ==
    LET e     == Elements(clauses[1])
        class == IF e[2] = Sym("Object") THEN "Throwable" ELSE e[2][2]
        named == e[2][1] = "sym" /\ class \in DOMAIN Parent
        type  == Lookup(e[2], env, w)
    IN  CASE clauses = <<>> -> r
          [] ~named /\ type.k # "val" -> type
          [] ~named /\ ~isThrowable(type.v) -> Raised("IllegalArgumentException", w)
          [] (IF named THEN exceptionMatches(r.v, class) ELSE valueIsInstanceOf(r.v, type.v)) ->
               EvBody(SubSeq(e, 4, Len(e)), Bind1(env, e[3], r.v), w)
          [] OTHER -> EvCatch(Tail(clauses), r, env, w)

EvTry(forms, env, w) ==
    LET With(rank) == SelectSeq(forms, LAMBDA f : Rank(f) = rank)
        r == EvBody(With(0), env, w)
        s == IF r.k = "exn" THEN EvCatch(With(1), r, env, r.w) ELSE r
        t == EvBody(Tail(Elements(With(2)[1])), env, s.w)
    IN  CASE With(2) = <<>> -> s [] t.k = "exn" -> t [] OTHER -> [s EXCEPT !.w = t.w]

RECURSIVE EvShort(_, _, _, _, _)
EvShort(forms, go, none, env, w) ==
    LET r == Ev(forms[1], env, w)
    IN  CASE forms = <<>> -> Val(none, w)
          [] r.k # "val" \/ Len(forms) = 1 \/ Truthy(r.v) # go -> r
          [] OTHER -> EvShort(Tail(forms), go, none, env, r.w)

EvFn(items, env) ==
    LET named == isNameForm(items[1])
        as    == IF named THEN Tail(items) ELSE items
    IN  IF as[1][1] = "vec" THEN Closure(<<ArityOf(as)>>, env)
        ELSE Closure([i \in DOMAIN as |-> ArityOf(Elements(as[i]))], env)
EvMacroFn(items, env) ==
    LET f == EvFn(items, env)
        hidden == [i \in DOMAIN f[2].arities |->
                     [f[2].arities[i] EXCEPT !.params = <<Sym("&form"), Sym("&env")>> \o @]]
    IN  <<"fn", [f[2] EXCEPT !.arities = hidden, !.macro = TRUE]>>
Define(name, v, w) == Val(v, [w EXCEPT !.globals = SetGlobal(@, globalKeyForSymbol(name), v)])

EvCall(f, env, w) ==
    LET items == Elements(f)
        r     == Ev(items[1], env, w)
        s     == EvAll(Tail(items), env, r.w)
    IN  CASE r.k # "val" -> r [] s.k # "val" -> s [] OTHER -> EvApply(r.v, s.v, s.w)

EvList(f, env, w) ==
    LET items == Elements(f)
        args  == Tail(items)
        name  == aliasLibraryNamespace(items[1])
        head  == CASE isCore(name) -> name[2][2] [] name[1] = "sym" -> name[2] [] OTHER -> ""
        key   == globalKeyForSymbol(items[1])
        macro == /\ items[1][1] \in {"sym", "qual"} /\ items[1] \notin DOMAIN env /\ head \notin SpecialForms
                 /\ key \in DOMAIN w.globals /\ isMacro(w.globals[key])
        r     == Ev(args[1], env, w)
        all   == EvAll(args, env, w)
        expansion == EvApply(w.globals[key], <<f, Nil>> \o args, w)
        bs    == Bindings(Elements(args[1]), env, w)
    IN  CASE macro -> IF expansion.k = "val" THEN Ev(expansion.v, env, expansion.w) ELSE expansion
          [] head = "quote" -> Val(args[1], w)
          [] head = "def" -> LET s == Ev(args[2], env, w) IN IF s.k = "val" THEN Define(args[1], s.v, s.w) ELSE s
          [] head = "defn" -> Define(args[1], EvFn(Undocumented(Tail(args)), env), w)
          [] head = "defmacro" -> Define(args[1], EvMacroFn(Undocumented(Tail(args)), env), w)
          [] head = "do" -> EvBody(args, env, w)
          [] head = "if" ->
               CASE r.k # "val" -> r
                 [] Truthy(r.v) -> Ev(args[2], env, r.w)
                 [] OTHER -> IF Len(args) = 3 THEN Ev(args[3], env, r.w) ELSE Val(Nil, r.w)
          [] head = "and" -> EvShort(args, TRUE, True, env, w)
          [] head = "or" -> EvShort(args, FALSE, Nil, env, w)
          [] head \in {"fn", "fn*"} -> Val(EvFn(args, env), w)
          [] head = "let" -> IF bs.k = "val" THEN EvBody(Tail(args), bs.v, bs.w) ELSE bs
          [] head = "loop" ->
               LET b  == Elements(args[1])
                   ps == [i \in 1..(Len(b) \div 2) |-> Name(i, b)]
                   \* the initial values, each seen by the next, before the loop starts
                   vs == FoldLeft(LAMBDA q, i :
                             LET s == Ev(b[2 * i], q.e, q.r.w)
                                 m == Match(ps[i], s.v, q.e, s.w)
                             IN  CASE q.r.k # "val" -> q
                                   [] s.k # "val" -> [q EXCEPT !.r = s]
                                   [] m.k # "val" -> [q EXCEPT !.r = m]
                                   [] OTHER -> [r |-> Val(Append(q.r.v, s.v), m.w), e |-> m.v],
                             [r |-> Val(<<>>, w), e |-> env], [i \in DOMAIN ps |-> i])
               IN  IF vs.r.k # "val" THEN vs.r ELSE EvLoop(ps, vs.r.v, Tail(args), env, vs.r.w)
          [] head = "recur" -> IF all.k = "val" THEN Again(all.v, all.w) ELSE all
          [] head = "try" -> EvTry(args, env, w)
          [] head = "throw" ->
               CASE r.k # "val" -> r [] isThrowable(r.v) -> Exn(r.v, r.w)
                 [] OTHER -> Raised("ClassCastException", r.w)
          [] head = "apply" ->
               LET tail == Last(all.v)
               IN  CASE all.k # "val" -> all
                     [] ~Seqable(tail) -> Raised(IF Len(args) = 2 THEN "IllegalArgumentException"
                                                 ELSE "RuntimeException", all.w)
                     [] OTHER -> EvApply(all.v[1], Tail(Front(all.v)) \o Elements(tail), all.w)
          [] OTHER -> EvCall(f, env, w)

Ev(f, env, w) ==
    CASE isLiteral(f) \/ f = Empty -> Val(f, w)
      [] isSeqObject(f) -> EvList(f, env, w)
      [] isNameForm(f) -> Lookup(IF isKeywordForm(f) THEN f ELSE aliasLibraryNamespace(f), env, w)
      [] OTHER ->
           LET all == EvAll(IF f[1] = "set" THEN Keys(f[2]) ELSE f[2], env, w)
           IN  CASE all.k # "val" -> all
                 [] f[1] = "vec" -> Val(Vec(all.v), all.w)
                 [] f[1] = "map" -> FromPrim(prim_hash_map(all.v), all.w)
                 [] f[1] = "set" -> FromPrim(prim_hash_set(all.v), all.w)

\* A program: its forms in turn, up to the first that raises.
EvProgram(forms, globals) ==
    LET w == [globals |-> globals, log |-> <<>>, serial |-> 0] IN EvBody(forms, <<>>, w)

\* What a reader sees of a value: a seq by its elements, a function as one, an
\* exception by its class and its data.
RECURSIVE Seen(_)
Seen(v) ==
    CASE isSequential(v) -> List([i \in DOMAIN Elements(v) |-> Seen(Elements(v)[i])])
      [] v[1] = "map" -> <<"map", [i \in DOMAIN v[2] |-> Seen(v[2][i])]>>
      [] v[1] = "set" -> <<"set", [i \in DOMAIN v[2] |-> Seen(v[2][i])]>>
      [] v[1] = "fn" -> <<"fn", <<>>>>
      [] v[1] = "exc" -> <<"exc", <<v[2][1], Seen(v[2][2][2])>>>>
      [] OTHER -> v
SeenLog(log) == [i \in DOMAIN log |-> Seen(List(log[i]))]

=============================================================================
