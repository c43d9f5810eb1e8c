---------------------------- MODULE Collections ----------------------------
(***************************************************************************)
(* What the collection primitives promise, in terms of mathematical sets,  *)
(* functions and sequences: the reference of Evaluation's CollectionsAgree.*)
(* Nothing here hashes, walks or compares entry by entry.                  *)
(***************************************************************************)
EXTENDS Engine

(***************************************************************************)
(* What a value is: all sequential values with the same elements are one,  *)
(* a map is the set of its entries, a set the set of its elements.  Equal  *)
(* keys are values with one meaning.                                       *)
(***************************************************************************)
RECURSIVE Denotes(_)
Denotes(v) ==
    CASE isSequential(v) -> <<"seq", [i \in DOMAIN Elements(v) |-> Denotes(Elements(v)[i])]>>
      [] v[1] = "map" -> <<"map", {<<Denotes(v[2][2 * i - 1]), Denotes(v[2][2 * i])>> : i \in 1..(Len(v[2]) \div 2)}>>
      [] v[1] = "set" -> <<"set", {Denotes(v[2][2 * i - 1]) : i \in 1..(Len(v[2]) \div 2)}>>
      [] OTHER -> v

\* What `=' compares: numbers by value, but not where they are keys or elements of sets.
RECURSIVE Compares(_)
Compares(v) ==
    CASE isNumber(v) -> <<"number", v[2]>>
      [] isSequential(v) -> <<"seq", [i \in DOMAIN Elements(v) |-> Compares(Elements(v)[i])]>>
      [] v[1] = "map" -> <<"map", {<<Denotes(v[2][2 * i - 1]), Compares(v[2][2 * i])>> : i \in 1..(Len(v[2]) \div 2)}>>
      [] OTHER -> Denotes(v)

\* No key is held twice.
Distinct(v) ==
    v[1] \in {"map", "set"} => Len(v[2]) = 2 * Cardinality({Denotes(v[2][2 * i - 1]) : i \in 1..(Len(v[2]) \div 2)})

EntryOf(entries, k) == {e \in entries : e[1] = k}
\* The entries with kv, keys and values in turn, added from the first to the last.
Extended(entries, kv) ==
    FoldLeft(LAMBDA es, i : (es \ EntryOf(es, kv[2 * i - 1])) \cup {<<kv[2 * i - 1], kv[2 * i]>>}, entries,
             [i \in 1..(Len(kv) \div 2) |-> i])

(***************************************************************************)
(* What a call of a primitive denotes; Unset where nothing is said of it.  *)
(***************************************************************************)
Expected(name, args) ==
    LET a    == [i \in DOMAIN args |-> Denotes(args[i])]
        kind == IF args = <<>> THEN "" ELSE a[1][1]
        c    == a[1][2]
        n    == Len(args)
        more == ToSet(Tail(a))
        other == IF n = 3 THEN a[3] ELSE Nil
        item(i) == IF i \in DOMAIN c THEN c[i] ELSE Nil
        sets == \A i \in DOMAIN args : a[i][1] = "set"
    IN  CASE name = "hash-map" /\ n % 2 = 0 -> <<"map", Extended({}, a)>>
          [] name = "hash-set" -> <<"set", ToSet(a)>>
          [] name = "set" /\ kind = "seq" -> <<"set", ToSet(c)>>
          [] name = "get" /\ kind = "map" /\ n > 1 ->
               IF EntryOf(c, a[2]) = {} THEN other ELSE (CHOOSE e \in EntryOf(c, a[2]) : TRUE)[2]
          [] name = "get" /\ kind = "set" /\ n > 1 -> IF a[2] \in c THEN a[2] ELSE other
          [] name = "contains?" /\ kind = "map" -> Bool(EntryOf(c, a[2]) # {})
          [] name = "contains?" /\ kind = "set" -> Bool(a[2] \in c)
          [] name = "assoc" /\ kind = "map" -> <<"map", Extended(c, Tail(a))>>
          [] name = "dissoc" /\ kind = "map" -> <<"map", {e \in c : e[1] \notin more}>>
          [] name = "conj" /\ kind = "set" -> <<"set", c \cup more>>
          [] name = "disj" /\ kind = "set" -> <<"set", c \ more>>
          [] name = "count" /\ kind = "seq" -> Integer(Len(c))
          [] name = "count" /\ kind \in {"map", "set"} -> Integer(Cardinality(c))
          [] name = "union" /\ sets -> <<"set", UNION {a[i][2] : i \in DOMAIN a}>>
          [] name = "intersection" /\ sets -> <<"set", {e \in c : \A s \in more : e \in s[2]}>>
          [] name = "difference" /\ sets -> <<"set", {e \in c : \A s \in more : e \notin s[2]}>>
          [] name = "subset?" /\ sets -> Bool(c \subseteq a[2][2])
          [] name = "superset?" /\ sets -> Bool(a[2][2] \subseteq c)
          [] name = "conj" /\ kind = "seq" ->
               <<"seq", IF args[1][1] = "vec" THEN c \o Tail(a) ELSE Reverse(Tail(a)) \o c>>
          [] name = "cons" /\ n = 2 /\ a[2][1] = "seq" -> <<"seq", <<a[1]>> \o a[2][2]>>
          [] name = "concat" /\ \A i \in DOMAIN a : a[i][1] = "seq" -> <<"seq", FlattenSeq([i \in DOMAIN a |-> a[i][2]])>>
          [] name \in {"first", "second", "last"} /\ kind = "seq" ->
               item(CASE name = "first" -> 1 [] name = "second" -> 2 [] name = "last" -> Len(c))
          [] name = "vec" /\ kind = "seq" -> a[1]
          [] name = "empty?" /\ kind = "seq" -> Bool(c = <<>>)
          [] name = "next" /\ kind = "seq" -> IF Len(c) < 2 THEN Nil ELSE <<"seq", Tail(c)>>
          [] name = "not=" /\ n = 2 -> Bool(Compares(args[1]) # Compares(args[2]))
          [] name = "reverse" /\ kind = "seq" -> <<"seq", Reverse(c)>>
          [] name = "rest" /\ kind = "seq" /\ c # <<>> -> <<"seq", Tail(c)>>
          [] name = "nth" /\ kind = "seq" /\ n = 3 ->
               IF a[2][2] + 1 \in DOMAIN c THEN c[a[2][2] + 1] ELSE a[3]
          [] OTHER -> Unset

=============================================================================
