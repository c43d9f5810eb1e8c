----------------------------- MODULE Primitives -----------------------------
(***************************************************************************)
(* The primitives on numbers, collections and seqs                         *)
(* (src/src/runtime/Primitives.cpp) that call nothing back: what each      *)
(* answers, or raises, for a sequence of arguments.                        *)
(***************************************************************************)
EXTENDS Values

(***************************************************************************)
(* Numbers.                                                                *)
(***************************************************************************)
AllNumbers(args) == \A i \in DOMAIN args : isNumber(args[i])
Combine(op, a, b) ==
    Num("float" \in {a[1], b[1]},
        CASE op = "+" -> a[2] + b[2] [] op = "-" -> a[2] - b[2] [] op = "*" -> a[2] * b[2])

\* The left fold of a binary operation; every argument is checked first.
numericFold(op, args) ==
    IF AllNumbers(args) THEN Ok(FoldLeft(LAMBDA a, b : Combine(op, a, b), Head(args), Tail(args)))
    ELSE Raise("ClassCastException")

prim_plus(args) == IF args = <<>> THEN Ok(Integer(0)) ELSE numericFold("+", args)
prim_mul(args)  == IF args = <<>> THEN Ok(Integer(1)) ELSE numericFold("*", args)
prim_minus(args) ==
    CASE args = <<>> -> Raise("RuntimeException")
      [] Len(args) = 1 -> numericFold("-", <<Num(args[1][1] = "float", 0), args[1]>>)
      [] OTHER -> numericFold("-", args)

\* Of integers (a quotient of doubles is a double, seldom of integral value, and not modelled):
\* it truncates toward zero.
Quotient(a, b) ==
    LET q == (IF a < 0 THEN -a ELSE a) \div (IF b < 0 THEN -b ELSE b)
    IN  IF (a < 0) = (b < 0) THEN q ELSE -q
prim_div(args) ==
    LET all == IF Len(args) = 1 THEN <<Integer(1)>> \o args ELSE args
    IN  CASE args = <<>> -> Raise("RuntimeException")
          [] ~AllNumbers(args) -> Raise("ClassCastException")
          [] \E i \in 2..Len(all) : all[i][2] = 0 -> Raise("ArithmeticException")
          [] OTHER -> Ok(FoldLeft(LAMBDA a, b : Integer(Quotient(a[2], b[2])), all[1], Tail(all)))

prim_inc(args) == One(args, numericFold("+", <<args[1], Integer(1)>>))
prim_dec(args) == One(args, numericFold("-", <<args[1], Integer(1)>>))

Ordered(op, a, b) ==
    CASE op = "<" -> a[2] < b[2] [] op = "<=" -> a[2] <= b[2]
      [] op = ">" -> a[2] > b[2] [] op = ">=" -> a[2] >= b[2]

\* The pairs are compared, and the arguments checked, up to the first that fails.
monotonicChain(op, args) ==
    LET bad  == {i \in DOMAIN args : ~isNumber(args[i])}
        fail == {i \in 2..Len(args) : {i - 1, i} \cap bad = {} /\ ~Ordered(op, args[i - 1], args[i])}
    IN  CASE Len(args) < 2 -> Ok(True)
          [] bad # {} /\ \A f \in fail : \E i \in bad : i < f -> Raise("ClassCastException")
          [] OTHER -> Ok(Bool(fail = {}))

prim_eq(args) == Ok(Bool(\A i \in 2..Len(args) : valuesEqual(args[i - 1], args[i])))
prim_not_eq(args) == Ok(Bool(prim_eq(args).v = False))

integerIsEven(args, r(_)) ==
    Arity(args, {1}, "ArityException",
          IF isInteger(args[1]) THEN Ok(Bool(r(args[1][2] % 2 = 0))) ELSE Raise("IllegalArgumentException"))

(***************************************************************************)
(* Sequential collections.                                                 *)
(***************************************************************************)
\* asSeqOrNull's callers: the elements of any seqable value.
WithItems(v, r(_)) == IF Seqable(v) THEN Ok(r(Elements(v))) ELSE Raise("IllegalArgumentException")

prim_vec(args) == One(args, IF args[1][1] = "vec" THEN Ok(args[1]) ELSE WithItems(args[1], Vec))

prim_nth(args) ==
    LET coll  == args[1]
        items == Elements(coll)
        other == IF Len(args) = 3 THEN Ok(args[3]) ELSE Raise(
                    IF coll[1] = "str" THEN "StringIndexOutOfBoundsException" ELSE "IndexOutOfBoundsException")
    IN  CASE Len(args) \notin {2, 3} -> Raise("RuntimeException")
          [] ~isInteger(args[2]) -> Raise("ClassCastException")
          [] coll = Nil -> Ok(IF Len(args) = 3 THEN args[3] ELSE Nil)
          [] coll[1] # "str" /\ ~isSequential(coll) -> Raise("UnsupportedOperationException")
          [] args[2][2] + 1 \in DOMAIN items -> Ok(items[args[2][2] + 1])
          [] OTHER -> other

prim_first(args) ==
    One(args, LET s == seqOf(args[1])
              IN  IF ~s.ok \/ s.v = Nil THEN s ELSE Ok(seqFirst(s.v)))
prim_rest(args) ==
    One(args, LET s == seqOf(args[1])
              IN  IF ~s.ok THEN s ELSE Ok(IF s.v = Nil THEN Empty ELSE seqMore(s.v)))
prim_next(args) ==
    Arity(args, {1}, "ArityException",
          LET s == seqOf(args[1]) IN IF ~s.ok \/ s.v = Nil THEN s ELSE seqNext(s.v))
prim_cons(args) ==
    Two(args, LET s == seqOf(args[2])
              IN  CASE isSeqObject(args[2]) -> Ok(ConsCell(args[1], args[2]))
                    [] ~s.ok -> s
                    [] s.v = Nil -> Ok(List(<<args[1]>>))
                    [] OTHER -> Ok(ConsCell(args[1], s.v)))
prim_count(args) == One(args, WithItems(args[1], LAMBDA items : Integer(Len(items))))
prim_empty_p(args) == One(args, WithItems(args[1], LAMBDA items : Bool(items = <<>>)))
prim_reverse(args) == One(args, WithItems(args[1], LAMBDA items : List(Reverse(items))))
prim_second(args) ==
    Arity(args, {1}, "ArityException",
          WithItems(args[1], LAMBDA items : IF Len(items) < 2 THEN Nil ELSE items[2]))
prim_last(args) ==
    Arity(args, {1}, "ArityException",
          WithItems(args[1], LAMBDA items : IF items = <<>> THEN Nil ELSE Last(items)))
prim_seq(args) == One(args, seqOf(args[1]))

\* A list, or, with a seq that is not a list among the arguments, a lazy seq, which is
\* taken here as already realised.
prim_concat(args) ==
    LET items == FlattenSeq([i \in DOMAIN args |-> Elements(args[i])])
    IN  CASE \E i \in DOMAIN args : ~Seqable(args[i]) -> Raise("RuntimeException")
          [] \E i \in DOMAIN args : args[i][1] \in {"cons", "chunk"} -> Ok(Chunk(items, Nil))
          [] OTHER -> Ok(List(items))
prim_list_star(args) ==
    LET tail == Last(args)
        lead == Front(args)
    IN  CASE args = <<>> -> Raise("ArityException")
          [] isSeqObject(tail) -> Ok(FoldRight(ConsCell, lead, tail))
          [] ~Seqable(tail) -> Raise("RuntimeException")
          [] lead \o Elements(tail) = <<>> -> Ok(Nil)
          [] OTHER -> Ok(List(lead \o Elements(tail)))

\* The entries conj adds to a map: those of a map, a [k v] vector's, none of nil.
Entries(x) ==
    CASE x[1] = "map" -> x[2] [] x[1] = "vec" /\ Len(x[2]) = 2 -> x[2] [] OTHER -> <<>>
prim_conj(args) ==
    LET coll == args[1]
        more == Tail(args)
    IN  CASE args = <<>> -> Ok(Vec(<<>>))
          [] more = <<>> -> Ok(coll)
          [] coll[1] = "map" ->
               IF \E i \in DOMAIN more : more[i] # Nil /\ more[i] # <<"map", <<>>>> /\ Entries(more[i]) = <<>>
               THEN Raise("IllegalArgumentException")
               ELSE Ok(<<"map", mapAssocPairs(coll[2], FlattenSeq([i \in DOMAIN more |-> Entries(more[i])]))>>)
          [] coll[1] = "set" -> Ok(<<"set", setConj(coll[2], more)>>)
          [] coll[1] = "vec" -> Ok(Vec(coll[2] \o more))
          [] coll[1] \in {"nil", "list"} -> Ok(List(Reverse(more) \o coll[2]))
          [] isSeqObject(coll) -> Ok(FoldRight(ConsCell, Reverse(more), coll))
          [] OTHER -> Raise("ClassCastException")

(***************************************************************************)
(* Maps.                                                                   *)
(***************************************************************************)
prim_hash_map(args) ==
    IF Len(args) % 2 = 0 THEN Ok(<<"map", mapAssocPairs(<<>>, args)>>) ELSE Raise("RuntimeException")

\* A vector by index, its count included.
AssocIndex(r, k, v) ==
    CASE ~r.ok -> r
      [] k[1] # "int" \/ k[2] \notin 0..Len(r.v[2]) -> Raise("IndexOutOfBoundsException")
      [] OTHER -> Ok(Vec([i \in 1..(IF k[2] = Len(r.v[2]) THEN k[2] + 1 ELSE Len(r.v[2])) |->
                            IF i = k[2] + 1 THEN v ELSE r.v[2][i]]))
prim_assoc(args) ==
    LET kv == Tail(args)
    IN  CASE Len(args) < 3 \/ Len(args) % 2 = 0 -> Raise("RuntimeException")
          [] args[1][1] \in {"nil", "map"} -> Ok(<<"map", mapAssocPairs(args[1][2], kv)>>)
          [] args[1][1] = "vec" ->
               FoldLeft(LAMBDA r, i : AssocIndex(r, kv[2 * i - 1], kv[2 * i]), Ok(args[1]),
                        [i \in 1..(Len(kv) \div 2) |-> i])
          [] OTHER -> Raise("ClassCastException")
prim_dissoc(args) ==
    CASE args = <<>> -> Raise("RuntimeException")
      [] args[1] = Nil -> Ok(Nil)
      [] args[1][1] # "map" -> Raise("ClassCastException")
      [] OTHER -> Ok(<<"map", FoldLeft(mapDissoc, args[1][2], Tail(args))>>)
prim_get(args) ==
    LET other == IF Len(args) = 3 THEN args[3] ELSE Nil
    IN  CASE Len(args) \notin {2, 3} -> Raise("RuntimeException")
          [] args[1][1] \in {"map", "set"} -> Ok(mapGet(args[1][2], args[2], other))
          [] OTHER -> Ok(other)
prim_contains_p(args) ==
    Two(args, Ok(Bool(args[1][1] \in {"map", "set"} /\ Found(args[1][2], args[2]) # {})))
mapWalk(args, r(_)) == One(args, Ok(IF args[1][1] = "map" THEN List(r(args[1][2])) ELSE Empty))

\* What a map binding form destructures.
prim_destructure_map(args) ==
    LET v == IF Len(args) = 1 THEN args[1] ELSE Nil
        items == Elements(v)
    IN  CASE ~isSeqObject(v) -> Ok(v)
          [] Len(items) = 1 -> Ok(items[1])
          [] Len(items) % 2 = 1 -> Raise("IllegalArgumentException")
          [] OTHER -> Ok(<<"map", mapAssocPairs(<<>>, items)>>)

(***************************************************************************)
(* Sets.  nil is the empty set.                                            *)
(***************************************************************************)
Set(m) == Ok(<<"set", m>>)
SetArgs(args, r) ==
    IF \A i \in DOMAIN args : args[i][1] \in {"nil", "set"} THEN r ELSE Raise("ClassCastException")
Holds(s, e) == s # Nil /\ Found(s[2], e) # {}

prim_hash_set(args) == Set(setConj(<<>>, args))
prim_set(args) ==
    One(args, IF args[1][1] = "set" THEN Ok(args[1])
              ELSE WithItems(args[1], LAMBDA items : <<"set", setConj(<<>>, items)>>))
prim_disj(args) ==
    CASE args = <<>> -> Raise("RuntimeException")
      [] args[1] = Nil -> Ok(Nil)
      [] args[1][1] # "set" -> Raise("ClassCastException")
      [] OTHER -> Set(FoldLeft(mapDissoc, args[1][2], Tail(args)))
prim_union(args) ==
    CASE args = <<>> -> Set(<<>>)
      [] args = <<Nil>> -> Ok(Nil)
      [] OTHER -> SetArgs(args, Set(setConj(args[1][2], FlattenSeq(
                     [i \in 1..(Len(args) - 1) |-> Keys(args[i + 1][2])]))))

\* The elements of the first set that `keep' chooses; the set itself when that is all.
Kept(first, keep(_)) ==
    LET items == Keys(first[2])
        kept  == SelectSeq(items, keep)
    IN  IF Len(kept) = Len(items) THEN Ok(first) ELSE Set(setConj(<<>>, kept))
prim_intersection(args) ==
    IF args = <<>> THEN Raise("RuntimeException")
    ELSE SetArgs(args, Kept(args[1], LAMBDA e : \A i \in 2..Len(args) : Holds(args[i], e)))
prim_difference(args) ==
    IF args = <<>> THEN Raise("RuntimeException")
    ELSE SetArgs(args, Kept(args[1], LAMBDA e : \A i \in 2..Len(args) : ~Holds(args[i], e)))
isSubset(a, b) == Ok(Bool(\A i \in DOMAIN Keys(a[2]) : Holds(b, Keys(a[2])[i])))

(***************************************************************************)
(* Constructors, comparisons, predicates and what else is one test.        *)
(***************************************************************************)
prim_list(args) == Ok(List(args))
prim_vector(args) == Ok(Vec(args))
prim_lt(args) == monotonicChain("<", args)
prim_le(args) == monotonicChain("<=", args)
prim_gt(args) == monotonicChain(">", args)
prim_ge(args) == monotonicChain(">=", args)
prim_even_p(args) == integerIsEven(args, LAMBDA b : b)
prim_odd_p(args) == integerIsEven(args, LAMBDA b : ~b)
prim_keys(args) == mapWalk(args, Keys)
prim_vals(args) == mapWalk(args, Vals)
prim_subset_p(args) == Two(args, SetArgs(args, isSubset(args[1], args[2])))
prim_superset_p(args) == Two(args, SetArgs(args, isSubset(args[2], args[1])))

Is(args, class, p(_)) == Arity(args, {1}, class, Ok(Bool(p(args[1]))))
prim_nil_p(args) == Is(args, "RuntimeException", LAMBDA v : v = Nil)
prim_not(args) == Is(args, "RuntimeException", LAMBDA v : ~Truthy(v))
prim_vector_p(args) == Is(args, "RuntimeException", LAMBDA v : v[1] = "vec")
prim_list_p(args) == Is(args, "RuntimeException", LAMBDA v : v[1] = "list")
prim_map_p(args) == Is(args, "RuntimeException", LAMBDA v : v[1] = "map")
prim_set_p(args) == Is(args, "RuntimeException", LAMBDA v : v[1] = "set")
prim_seq_p(args) == Is(args, "ArityException", isSeqObject)
prim_symbol_p(args) == Is(args, "RuntimeException", LAMBDA v : v[1] \in {"sym", "qual"})
prim_keyword_p(args) == Is(args, "RuntimeException", LAMBDA v : v[1] = "kw")

(***************************************************************************)
(* The short cut the engine takes before it calls a primitive: an answer   *)
(* for the common arguments, or none (ok is FALSE).                        *)
(***************************************************************************)
NoAnswer == [ok |-> FALSE, v |-> Nil]
Direct(v) == v = Nil \/ isSequential(v)

tryFirst(v) ==
    CASE ~Direct(v) -> NoAnswer
      [] v[2] = <<>> -> Ok(Nil)
      [] v[1] = "chunk" -> Ok(v[2][1][1])
      [] OTHER -> Ok(v[2][1])
tryRest(v) ==
    CASE ~Direct(v) -> NoAnswer
      [] v = Nil \/ (v[1] = "vec" /\ Len(v[2]) <= 1) -> Ok(Empty)
      [] v[1] = "vec" -> Ok(Chunk(Tail(v[2]), Nil))
      [] v = Empty -> Ok(v)
      [] OTHER -> Ok(seqMore(v))
trySeq(v) ==
    CASE ~Direct(v) -> NoAnswer
      [] v[2] = <<>> -> Ok(Nil)
      [] v[1] = "vec" -> seqOf(v)
      [] OTHER -> Ok(v)
tryNext(v) ==
    CASE ~Direct(v) -> NoAnswer
      [] v[1] \in {"nil", "vec", "list"} /\ Len(v[2]) <= 1 -> Ok(Nil)
      [] v[1] = "vec" -> Ok(Chunk(Tail(v[2]), Nil))
      [] v[1] = "list" -> Ok(seqMore(v))
      [] v[1] = "chunk" /\ Len(v[2][1]) > 1 -> Ok(seqMore(v))
      [] OTHER -> trySeq(v[2][2])
tryEmpty(v) == IF Direct(v) THEN Ok(Bool(v[2] = <<>>)) ELSE NoAnswer

\* Along conses and chunks to the vector or list they end in.
RECURSIVE tryCount(_, _)
tryCount(v, n) ==
    CASE ~Direct(v) -> NoAnswer
      [] v[1] \in {"nil", "vec", "list"} -> Ok(Integer(n + Len(v[2])))
      [] v[1] = "cons" -> tryCount(v[2][2], n + 1)
      [] v[1] = "chunk" -> tryCount(v[2][2], n + Len(v[2][1]))
tryCons(x, coll) ==
    CASE coll = Nil -> Ok(List(<<x>>))
      [] isSeqObject(coll) -> Ok(ConsCell(x, coll))
      [] OTHER -> NoAnswer

fastIndexed(coll, i) ==
    IF i[1] = "int" /\ coll[1] \in {"vec", "list"} /\ i[2] + 1 \in DOMAIN coll[2]
    THEN Ok(coll[2][i[2] + 1]) ELSE NoAnswer
\* Small integers whose sum is small.
FastSum(a, b) ==
    IF a[1] = "int" /\ b[1] = "int" /\ Integer(a[2] + b[2])[1] = "int" THEN Ok(Integer(a[2] + b[2])) ELSE NoAnswer
FastConj(coll, x) ==
    CASE coll[1] \in {"nil", "list"} -> Ok(List(<<x>> \o coll[2]))
      [] coll[1] = "vec" -> Ok(Vec(Append(coll[2], x)))
      [] OTHER -> NoAnswer

fastPrimitiveCall(name, args) ==
    IF Len(args) = 1
    THEN CASE name = "inc" -> FastSum(args[1], Integer(1))
           [] name = "dec" -> FastSum(args[1], Integer(-1))
           [] name = "first" -> tryFirst(args[1])
           [] name = "rest" -> tryRest(args[1])
           [] name = "next" -> tryNext(args[1])
           [] name = "seq" -> trySeq(args[1])
           [] name = "empty?" -> tryEmpty(args[1])
           [] name = "count" -> tryCount(args[1], 0)
           [] OTHER -> NoAnswer
    ELSE CASE Len(args) # 2 -> NoAnswer
           [] name = "nth" -> fastIndexed(args[1], args[2])
           [] name = "cons" -> tryCons(args[1], args[2])
           [] name = "conj" -> FastConj(args[1], args[2])
           [] name = "+" -> FastSum(args[1], args[2])
           [] OTHER -> NoAnswer

(***************************************************************************)
(* The table of primitives.                                                *)
(***************************************************************************)
Primitive(name, args) ==
    CASE name = "+" -> prim_plus(args)
      [] name = "-" -> prim_minus(args)
      [] name = "*" -> prim_mul(args)
      [] name = "/" -> prim_div(args)
      [] name = "inc" -> prim_inc(args)
      [] name = "dec" -> prim_dec(args)
      [] name = "<" -> prim_lt(args)
      [] name = "<=" -> prim_le(args)
      [] name = ">" -> prim_gt(args)
      [] name = ">=" -> prim_ge(args)
      [] name = "=" -> prim_eq(args)
      [] name = "not=" -> prim_not_eq(args)
      [] name = "even?" -> prim_even_p(args)
      [] name = "odd?" -> prim_odd_p(args)
      [] name = "list" -> prim_list(args)
      [] name = "vector" -> prim_vector(args)
      [] name = "vec" -> prim_vec(args)
      [] name = "nth" -> prim_nth(args)
      [] name = "first" -> prim_first(args)
      [] name = "rest" -> prim_rest(args)
      [] name = "next" -> prim_next(args)
      [] name = "cons" -> prim_cons(args)
      [] name = "count" -> prim_count(args)
      [] name = "empty?" -> prim_empty_p(args)
      [] name = "reverse" -> prim_reverse(args)
      [] name = "second" -> prim_second(args)
      [] name = "last" -> prim_last(args)
      [] name = "seq" -> prim_seq(args)
      [] name = "concat" -> prim_concat(args)
      [] name = "list*" -> prim_list_star(args)
      [] name = "conj" -> prim_conj(args)
      [] name = "hash-map" -> prim_hash_map(args)
      [] name = "assoc" -> prim_assoc(args)
      [] name = "dissoc" -> prim_dissoc(args)
      [] name = "get" -> prim_get(args)
      [] name = "contains?" -> prim_contains_p(args)
      [] name = "keys" -> prim_keys(args)
      [] name = "vals" -> prim_vals(args)
      [] name = "__destructure-map" -> prim_destructure_map(args)
      [] name = "hash-set" -> prim_hash_set(args)
      [] name = "set" -> prim_set(args)
      [] name = "disj" -> prim_disj(args)
      [] name = "union" -> prim_union(args)
      [] name = "intersection" -> prim_intersection(args)
      [] name = "difference" -> prim_difference(args)
      [] name = "subset?" -> prim_subset_p(args)
      [] name = "superset?" -> prim_superset_p(args)
      [] name = "nil?" -> prim_nil_p(args)
      [] name = "not" -> prim_not(args)
      [] name = "vector?" -> prim_vector_p(args)
      [] name = "list?" -> prim_list_p(args)
      [] name = "map?" -> prim_map_p(args)
      [] name = "set?" -> prim_set_p(args)
      [] name = "seq?" -> prim_seq_p(args)
      [] name = "symbol?" -> prim_symbol_p(args)
      [] name = "keyword?" -> prim_keyword_p(args)

=============================================================================
