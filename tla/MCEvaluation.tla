---------------------------- MODULE MCEvaluation ----------------------------
(***************************************************************************)
(* Evaluation over programs made from templates: every choice of small     *)
(* forms for their holes, so that effects, exceptions, shadowed names and  *)
(* falsy values meet every construct.                                      *)
(***************************************************************************)
EXTENDS Evaluation

S(s) == Sym(s)
L(items) == List(items)
N(n) == Integer(n)
Call1(g, a) == L(<<S(g), a>>)
Call2(g, a, b) == L(<<S(g), a, b>>)
Lst(items) == L(<<S("list")>> \o items)
Say(n) == Call1("println", N(n))
Boom(n) == Call1("throw", Call1("ex-info", N(n)))
Do(a, b) == Call2("do", a, b)
Quote(v) == Call1("quote", v)
Let(bs, body) == L(<<S("let"), Vec(bs)>> \o body)
Loop(bs, body) == L(<<S("loop"), Vec(bs), body>>)
Recur(args) == L(<<S("recur")>> \o args)
If(a, b, c) == L(<<S("if"), a, b, c>>)
FnOf(params, body) == L(<<S("fn"), Vec(params), body>>)
Catch(type, body) == L(<<S("catch"), type, S("e")>> \o body)
Finally(body) == L(<<S("finally")>> \o body)
Map(kv) == <<"map", kv>>
x == S("x")
y == S("y")
z == S("z")
i == S("i")
r == S("r")

\* What a hole holds: a value, nothing, a local, an effect, an exception of each sort.
Holes == {N(1), Nil, x, Do(Say(7), x), Boom(1), Call2("+", x, Kw("a"))}
Few   == {x, Do(Say(7), x), Boom(1)}

Around(form) == Let(<<x, N(5)>>, <<form>>)

Control ==
    UNION {{If(a, b, c), L(<<S("and"), a, b, c>>), L(<<S("or"), a, b, c>>), Vec(<<Kw("k"), a, b>>), Lst(<<a, b, c>>),
            Let(<<x, a, y, b>>, <<c, Lst(<<x, y>>)>>),
            Let(<<y, Let(<<x, a>>, <<b>>)>>, <<Lst(<<x, y, c>>)>>)} : a, b, c \in Holes}

Tries ==
    UNION {{L(<<S("try"), a, Catch(S("ExceptionInfo"), <<b, S("e")>>), Catch(S("Exception"), <<Say(3), c>>),
                Finally(<<d>>)>>),
            Lst(<<N(1), L(<<S("try"), L(<<S("try"), a, Finally(<<b>>)>>), Catch(S("Throwable"), <<c>>)>>), d>>)}
           : a \in Holes \cup {Call1("throw", x)}, b, c, d \in {x, Say(8), Boom(2)}}

\* Types that are foreign: a member of a global, a local, a member of a local, none at all.
Foreigners ==
    UNION {{L(<<S("try"), a, Catch(t, <<b>>), Catch(S("IOException"), <<Say(1)>>)>>),
            Let(<<S("t"), Qual("mod", "T"), S("o"), S("mod")>>,
                <<L(<<S("try"), L(<<S("try"), a, Finally(<<b>>)>>), Catch(t, <<S("e"), S("t"), S("o")>>)>>)>>)}
           : a \in {Call1("throw", Qual("mod", "err")), Boom(1), L(<<Qual("mod", "call"), x>>)}, b \in Few,
             t \in {Qual("mod", "T"), Qual("o", "T"), S("t"), S("unknown"), x, S("Object")}}

Functions ==
    UNION {{Let(<<S("f"), FnOf(<<y>>, Do(a, Lst(<<x, y>>)))>>, <<Let(<<x, N(2)>>, <<Call1("f", b)>>)>>),
            L(<<L(<<FnOf(<<y>>, FnOf(<<z>>, Lst(<<x, y, z, a>>))), a>>), b>>),
            Let(<<S("g"), FnOf(<<>>, Let(<<y, x, x, N(3)>>, <<Lst(<<y, x, a>>)>>))>>, <<Lst(<<L(<<S("g")>>), b>>)>>),
            L(<<FnOf(<<z, S("n")>>, If(Call2("<", S("n"), N(2)), Recur(<<Lst(<<z, a>>), Call2("+", S("n"), N(1))>>),
                                       Lst(<<z, b>>))), x, N(0)>>),
            L(<<S("apply"), S("list"), a, b, Vec(<<x, a>>)>>), Call2("apply", S("list"), a),
            L(<<S("reduce"), FnOf(<<y, z>>, Lst(<<y, z, a>>)), b, Vec(<<N(1), N(2)>>)>>)} : a, b \in Holes}
      \cup {L(<<L(<<S("fn"), L(<<Vec(<<>>), x>>), L(<<Vec(<<y>>), Lst(<<y, x>>)>>),
                    L(<<Vec(<<y, S("&"), rest>>), Do(a, y)>>)>>)>> \o args)
            : a \in Few, rest \in {r, Vec(<<z, r>>), Map(<<Kw("keys"), Vec(<<z>>)>>)},
              args \in UNION {[1..n -> {N(1), Kw("z")}] : n \in 0..3}}

Loops ==
    UNION {{Let(<<y, N(9)>>, <<Loop(<<i, N(0)>>, If(Call2("<", i, N(2)), Do(a, Recur(<<Call2("+", i, N(1))>>)), b))>>),
            Let(<<y, N(9)>>, <<Loop(<<i, N(0), z, y>>, If(Call2("<", i, N(2)), Recur(<<Call2("+", i, N(1)), a>>), Lst(<<z, b>>)))>>),
            Loop(<<i, N(0)>>, Let(<<z, Call2("+", i, N(1))>>, <<If(Call2("<", z, N(3)), Do(a, Recur(<<z>>)), Lst(<<z, b>>))>>)),
            Loop(<<y, a, z, b, i, N(0)>>, If(Call2("<", i, N(1)), Recur(<<z, y, Call2("+", i, N(1))>>), Lst(<<y, z>>))),
            Loop(<<i, N(0)>>, If(Call2("<", i, N(2)),
                                 Do(L(<<S("try"), a, Catch(S("Exception"), <<S("e"), b>>)>>), Recur(<<Call2("+", i, N(1))>>)), i)),
            Loop(<<i, N(0), r, Nil>>, If(Call2("<", i, N(2)),
                     Recur(<<Call2("+", i, N(1)), Call2("cons", FnOf(<<>>, Lst(<<i, a>>)), r)>>),
                     Lst(<<L(<<Call1("first", r)>>), b>>))),
            Loop(<<Vec(<<z, S("&"), r>>), Vec(<<N(1), a>>), i, b>>, If(z, Recur(<<r, Lst(<<i, z>>)>>), i))}
           : a, b \in {x, y, Do(Say(7), y), Nil, Boom(1)}}
      \cup {Loop(<<i, N(0)>>, L(<<S("try"), Recur(<<i>>), Finally(<<x>>)>>))}

Destructurings ==
    {Let(<<p, v>>, <<Lst(<<S("a"), S("b")>>)>>) :
        p \in {Vec(<<S("a"), S("b")>>), Vec(<<S("a"), S("&"), S("b")>>), Vec(<<Vec(<<S("a")>>), Kw("as"), S("b")>>),
               Vec(<<S("&"), Vec(<<S("a"), S("b")>>)>>), Map(<<Kw("keys"), Vec(<<S("a"), S("b")>>), Kw("or"), Map(<<S("b"), Do(Say(4), x)>>)>>),
               Map(<<S("a"), Kw("b"), Kw("strs"), Vec(<<S("b")>>)>>), Map(<<Vec(<<S("a")>>), Kw("a"), Kw("as"), S("b")>>),
               Map(<<Kw("syms"), Vec(<<S("a")>>), S("b"), Do(Say(5), Kw("b")), Kw("or"), Map(<<S("a"), Boom(3)>>)>>)},
        v \in {Nil, N(4), Vec(<<>>), Vec(<<N(1)>>), Vec(<<Vec(<<N(1)>>), N(2), N(3)>>), Lst(<<N(1), N(2)>>),
               Map(<<Kw("a"), Vec(<<N(1)>>), Kw("b"), Nil>>), Map(<<Kw("b"), N(2)>>), Quote(L(<<Kw("a"), N(1)>>))}}
    \cup {L(<<FnOf(<<Vec(<<y>>), S("&"), k>>, Lst(<<y, S("a"), S("b")>>)), Vec(<<x>>)>> \o args) :
        k \in {Map(<<Kw("keys"), Vec(<<S("a"), S("b")>>), Kw("or"), Map(<<S("a"), Do(Say(4), x)>>)>>),
               Map(<<Kw("keys"), Vec(<<S("a")>>), Kw("as"), S("b")>>), Map(<<S("a"), Kw("a"), S("b"), Kw("b")>>)},
        args \in {<<>>, <<Kw("a"), N(1)>>, <<Kw("b"), N(2), Kw("a"), Nil>>, <<Map(<<Kw("a"), N(3)>>)>>, <<Kw("a")>>,
                  <<Kw("a"), Say(1), Kw("a"), Boom(1)>>, <<N(1), N(2), N(3)>>}}

Lookups ==
    {L(<<g>> \o args) : g \in {Kw("k"), Quote(S("k")), Map(<<Kw("k"), x, N(0), Say(1)>>), Vec(<<x, Say(2)>>),
                               <<"set", <<Kw("k"), Kw("k"), x, x>>>>, <<"set", <<Kw("k"), Kw("k")>>>>, x},
                        args \in {<<Kw("k")>>, <<N(0)>>, <<N(2)>>, <<Map(<<Kw("k"), N(1)>>), x>>, <<>>, <<Kw("k"), Nil, x>>}}

Unary == {"nil?", "not", "vector?", "list?", "map?", "set?", "seq?", "symbol?", "keyword?", "even?", "odd?", "keys", "vals"}
Questions == {Call1(g, v) : g \in Unary, v \in {Nil, N(1), N(2), Kw("a"), Quote(S("a")), Vec(<<N(1)>>), Lst(<<N(1)>>),
                                                Call2("cons", N(1), Vec(<<N(2)>>)), Map(<<Kw("a"), N(1)>>), <<"set", <<N(1), N(1)>>>>}}
               \cup {L(<<S(g)>>) : g \in Unary}

\* The edges of small integers.
Edges == {N(-16), N(-4), N(-3), N(1), N(3), N(4), N(14), N(15), N(16), <<"float", 2>>, Nil}
Whole == {e \in Edges : e[1] # "float"}
Arithmetic == {Call2(op, a, b) : op \in Operators, a, b \in Edges} \cup {Call1(op, a) : op \in {"inc", "dec", "-"}, a \in Edges}
                \cup {Call2("/", a, b) : a \in Whole, b \in Whole \cup {N(0)}} \cup {Call1("/", a) : a \in Whole \cup {N(0)}} \cup {L(<<S("+"), N(15), a, N(-1)>>) : a \in Edges}

\* Keys that are equal and yet differ in type, in the order of their entries or in how they were
\* made, keys that differ only in the type of a number, and what is done with them.
KeyForms == {N(1), <<"float", 1>>, Vec(<<N(1)>>), Lst(<<N(1)>>), Call2("cons", N(1), Nil), Kw("a"),
             Map(<<Kw("a"), N(1), Kw("b"), Vec(<<>>)>>), Map(<<Kw("b"), Lst(<<>>), Kw("a"), N(1)>>),
             <<"set", <<Kw("a"), Kw("a"), Kw("b"), Kw("b")>>>>, <<"set", <<Kw("b"), Kw("b"), Kw("a"), Kw("a")>>>>}
Collected ==
    UNION {{Let(<<S("m"), L(<<S("hash-map"), a, N(1), b, N(2)>>)>>,
                <<Lst(<<Call2("get", S("m"), c), Call2("contains?", S("m"), c), Call1("count", S("m")),
                        L(<<S("assoc"), S("m"), c, Nil>>), Call2("dissoc", S("m"), c),
                        Call2("=", S("m"), L(<<S("hash-map"), b, N(2), c, <<"float", 1>>>>))>>)>>),
            Let(<<S("s"), Call2("hash-set", a, b), S("t"), Call2("conj", Call1("hash-set", b), c)>>,
                <<Lst(<<L(<<S("get"), S("s"), c, N(0)>>), Call2("disj", S("s"), c), Call2("union", S("s"), S("t")),
                        Call2("intersection", S("s"), S("t")), Call2("difference", S("t"), S("s")),
                        Call2("subset?", S("s"), S("t")), Call2("superset?", S("s"), S("t")),
                        Call2("=", S("s"), S("t")), Call2("not=", S("t"), S("s"))>>)>>)} : a, b, c \in KeyForms}
      \cup {Let(<<S("s"), a, S("t"), Call2("concat", b, S("s"))>>,
                <<Lst(<<Call1("reverse", S("t")), Call1("rest", S("t")), Call2("conj", S("t"), N(7)), Call2("cons", S("s"), S("t")),
                        L(<<S("nth"), S("t"), c, Nil>>), Call1("count", S("t")), Call1("set", S("t")),
                        Call1("last", S("t")), Call1("second", S("t")), Call1("vec", S("t")), Call1("first", S("t")), Call1("next", S("t")), Call1("empty?", S("s"))>>)>>)
            : a, b \in {Vec(<<>>), Vec(<<N(1), N(2)>>), Lst(<<N(3)>>), Call2("cons", N(4), Vec(<<N(5)>>)), Call1("seq", Vec(<<N(6), N(8)>>)), Nil},
              c \in {N(-1), N(0), N(1), N(3)}}

\* Top-level forms in a row: definitions, macros, redefinitions, `do'.
Rows ==
    UNION {{<<Call2("def", S("g"), a), L(<<S("defn"), S("h"), Str(<<>>), Vec(<<y>>), Lst(<<S("g"), y>>)>>), Call1("h", b)>>,
            <<L(<<S("do"), Call2("def", S("g"), a), Do(b, S("g"))>>), S("g")>>,
            <<L(<<S("defmacro"), S("m"), Vec(<<y, S("&"), r>>), Lst(<<Quote(S("list")), y, Call1("first", r), y>>)>>),
              Around(L(<<S("m"), a, b>>)), L(<<Qual("user", "m"), b>>), Let(<<S("m"), S("list")>>, <<L(<<S("m"), a>>)>>)>>,
            <<L(<<S("defmacro"), S("m"), L(<<Vec(<<y>>), a>>), L(<<Vec(<<y, z>>), z>>)>>), Lst(<<L(<<S("m"), N(1), b>>)>>), L(<<S("m"), N(1)>>)>>,
            <<L(<<S("when"), a, Say(1), b>>), Call2("twice", S("inc"), b), L(<<Core("when"), Nil>>)>>,
            <<L(<<S("defn"), S("h"), Vec(<<y, z>>), Call2("-", y, z)>>), Call2("def", S("-"), S("+")),
              Lst(<<Call2("h", a, b), Call2("-", a, b), L(<<Core("-"), a, b>>)>>)>>,
            <<L(<<Qual("set", "union"), <<"set", <<N(1), N(1)>>>>, <<"set", <<a, a>>>>>>), L(<<Qual("str", "foo"), b>>)>>,
            <<L(<<S("try"), a, Finally(<<b>>)>>)>>, <<Call1("recur", a)>>, <<S("when")>>, <<S("undefined")>>}
           : a, b \in {N(1), N(2), Say(7), Boom(1)}}

MCPrograms ==
    {<<Around(p)>> : p \in Control \cup Tries \cup Foreigners \cup Functions \cup Loops \cup Destructurings \cup Lookups}
      \cup {<<p>> : p \in Arithmetic \cup Questions \cup Collected} \cup Rows

MCCoreSource ==
    <<L(<<S("defmacro"), S("when"), Vec(<<S("test"), S("&"), S("body")>>),
          Lst(<<Quote(S("if")), S("test"), Call2("cons", Quote(S("do")), S("body"))>>)>>),
      L(<<S("defn"), S("twice"), Vec(<<S("g"), y>>), Call1("g", Call1("g", y))>>)>>
MCObjects == Sym("mod") :> Foreign("mod")
MCMembers == [mod |-> [T |-> Foreign("T"), err |-> Foreign("err"), call |-> Prim("inc")],
              T |-> <<>>, err |-> <<>>]
MCIsA == {<<"err", "T">>, <<"T", "T">>}
MCAliases == [set |-> "clojure.set", str |-> "clojure.string"]
MCBuiltins == Operators \cup
    {"inc", "list", "vector", "hash-map", "hash-set", "println", "ex-info", "__macro__", "reduce", "nth",
     "first", "next", "seq", "get", "list*", "__destructure-map", "cons", "union", "intersection", "difference",
     "subset?", "superset?", "set", "disj", "conj", "contains?", "assoc", "dissoc", "count", "rest", "reverse", "concat",
     "last", "second", "vec", "empty?", "not=", "dec", "/"} \cup Unary
=============================================================================
