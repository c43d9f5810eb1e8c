------------------------------- MODULE Values -------------------------------
(***************************************************************************)
(* Values, their equality and hash, maps, sets and seqs, and exceptions    *)
(* (src/src/runtime: MapOps.cpp, SetOps.cpp, SeqTypes.cpp, LazySeq.cpp,    *)
(* Exceptions.cpp, and the primitives of Primitives.cpp on them).          *)
(*                                                                         *)
(* A value is a pair <<tag, contents>>.  int is an integer of the tagged   *)
(* word and big one beyond it, float a double (of integral value here);    *)
(* list and vec hold their elements, chunk a part of a vector and what     *)
(* follows it, cons an element and what follows it; map holds its keys and *)
(* values in the order of its walk, and a set the map of its elements to   *)
(* themselves.  What protoCore's hashed collections do is taken from how   *)
(* MapOps.cpp uses them.                                                   *)
(***************************************************************************)
EXTENDS Integers, SequencesExt, BagsExt

CONSTANTS
    SmallMax,       \* the largest small integer (the least is -SmallMax - 1)
    Half            \* the bound of the factors whose product the engine computes itself

ASSUME SmallAssumption == SmallMax \in Nat /\ Half \in Nat /\ Half > 1

Nil == <<"nil", <<>>>>
True == <<"true", <<>>>>
False == <<"false", <<>>>>
Bool(b) == IF b THEN True ELSE False
Truthy(v) == v \notin {Nil, False}
Str(s) == <<"str", s>>
Kw(s)  == <<"kw", s>>
Sym(s) == <<"sym", s>>
Qual(ns, s) == <<"qual", <<ns, s>>>>
List(items) == <<"list", items>>
Vec(items)  == <<"vec", items>>
Empty == List(<<>>)

isInteger(v) == v[1] \in {"int", "big"}
isNumber(v)  == isInteger(v) \/ v[1] = "float"
isSeqObject(v) == v[1] \in {"list", "cons", "chunk"}
isSequential(v) == isSeqObject(v) \/ v[1] = "vec"

\* protoCore's integers: small when they fit the tagged word.
Integer(n) == <<IF n \in (-SmallMax - 1)..SmallMax THEN "int" ELSE "big", n>>
Num(isFloat, n) == IF isFloat THEN <<"float", n>> ELSE Integer(n)

(***************************************************************************)
(* Exceptions.                                                             *)
(***************************************************************************)
Parent ==
    [Throwable |-> "", Exception |-> "Throwable", Error |-> "Throwable",
     RuntimeException |-> "Exception", IOException |-> "Exception", ExecutionException |-> "Exception",
     ExceptionInfo |-> "RuntimeException", ArithmeticException |-> "RuntimeException",
     ClassCastException |-> "RuntimeException", IllegalArgumentException |-> "RuntimeException",
     IllegalStateException |-> "RuntimeException", IndexOutOfBoundsException |-> "RuntimeException",
     NullPointerException |-> "RuntimeException", UnsupportedOperationException |-> "RuntimeException",
     ArityException |-> "IllegalArgumentException", NumberFormatException |-> "IllegalArgumentException",
     PatternSyntaxException |-> "IllegalArgumentException",
     StringIndexOutOfBoundsException |-> "IndexOutOfBoundsException", StackOverflowError |-> "Error"]

RECURSIVE exceptionClassIsA(_, _)
exceptionClassIsA(class, ancestor) ==
    class # "" /\ (class = ancestor \/ exceptionClassIsA(Parent[class], ancestor))

Exc(class, payload) == <<"exc", <<class, payload>>>>
isException(v) == v[1] = "exc"
isForeignObject(v) == v[1] = "foreign"       \* an object of a protoCore module
isThrowable(v) == isException(v) \/ isForeignObject(v)
\* Throwable takes every value, Exception every foreign one.
exceptionMatches(v, class) ==
    \/ class = "Throwable"
    \/ IF isException(v) THEN exceptionClassIsA(v[2][1], class) ELSE class = "Exception"

\* What a primitive answers.
Ok(v) == [ok |-> TRUE, v |-> v]
Raise(class) == [ok |-> FALSE, v |-> Exc(class, Nil)]
Arity(args, counts, class, r) == IF Len(args) \in counts THEN r ELSE Raise(class)
One(args, r) == Arity(args, {1}, "RuntimeException", r)
Two(args, r) == Arity(args, {2}, "RuntimeException", r)

(***************************************************************************)
(* Seqs.                                                                   *)
(***************************************************************************)
Chunk(items, more) == <<"chunk", <<items, more>>>>
ConsCell(x, more) == <<"cons", <<x, more>>>>

Pairs(m) == [i \in 1..(Len(m) \div 2) |-> Vec(<<m[2 * i - 1], m[2 * i]>>)]
Keys(m) == [i \in 1..(Len(m) \div 2) |-> m[2 * i - 1]]
Vals(m) == [i \in 1..(Len(m) \div 2) |-> m[2 * i]]

\* The elements of a value that is not a seq object: a map's entries, a set's
\* elements, a string's characters.
collectionItems(v) ==
    CASE v[1] = "map" -> Pairs(v[2]) [] v[1] = "set" -> Keys(v[2]) [] v[1] = "str" -> v[2]
Seqable(v) == isSequential(v) \/ v[1] \in {"nil", "map", "set", "str"}

\* What `seq' answers.
seqOf(v) ==
    CASE v \in {Nil, Empty, Vec(<<>>)} -> Ok(Nil)
      [] v[1] = "vec" -> Ok(Chunk(v[2], Nil))
      [] isSeqObject(v) -> Ok(v)
      [] ~Seqable(v) -> Raise("IllegalArgumentException")
      [] collectionItems(v) = <<>> -> Ok(Nil)
      [] OTHER -> Ok(Chunk(collectionItems(v), Nil))

seqFirst(s) == IF s[1] = "chunk" THEN s[2][1][1] ELSE s[2][1]
seqMore(s) ==
    CASE s[1] = "list" -> List(Tail(s[2]))
      [] s[1] = "chunk" /\ Len(s[2][1]) > 1 -> Chunk(Tail(s[2][1]), s[2][2])
      [] s[2][2] = Nil -> Empty
      [] OTHER -> s[2][2]
seqNext(s) == seqOf(seqMore(s))

\* The elements of a seqable value, to its end (pushSeqElements, seqToList).
RECURSIVE Elements(_)
Elements(v) ==
    CASE v = Nil -> <<>>
      [] v[1] \in {"list", "vec"} -> v[2]
      [] v[1] = "cons" -> <<v[2][1]>> \o Elements(v[2][2])
      [] v[1] = "chunk" -> v[2][1] \o Elements(v[2][2])
      [] OTHER -> collectionItems(v)

(***************************************************************************)
(* Keys.  A hash is a term: combine is taken to be injective and a sum to  *)
(* be the bag of what was added, so that two hashes are equal exactly when *)
(* the code computes them from equal parts.                                *)
(***************************************************************************)
RECURSIVE keyHash(_), keyEquals(_, _)

\* Keywords, symbols, functions and the like: equal only to themselves.
keyIsIdentity(k) == k[1] \notin {"int", "big", "float", "str", "map", "set"} /\ ~isSequential(k)

sequenceHash(items) == <<"sequence", [i \in DOMAIN items |-> keyHash(items[i])]>>
BagOf(s) == FoldLeft(LAMBDA b, x : BagAdd(b, x), EmptyBag, s)

\* The entries' hashes are combined in the order of the walk.
Mutant_mapHash(m) == <<"map", [i \in DOMAIN m |-> keyHash(m[i])]>>

mapHash(m) ==
    <<"map", BagOf([i \in 1..(Len(m) \div 2) |-> <<keyHash(m[2 * i - 1]), keyHash(m[2 * i])>>])>>
setHash(m) == <<"set", BagOf([i \in 1..(Len(m) \div 2) |-> keyHash(m[2 * i - 1])])>>

keyHash(k) ==
    CASE isSequential(k) -> sequenceHash(Elements(k))
      [] k[1] = "map" -> mapHash(k[2])
      [] k[1] = "set" -> setHash(k[2])
      [] OTHER -> k

\* protoCore's hashed lookup: the stored keys that match.
Found(m, k) ==
    {i \in 1..(Len(m) \div 2) :
        LET key == m[2 * i - 1]
        IN  IF keyIsIdentity(k) \/ keyIsIdentity(key) THEN key = k
            ELSE keyHash(key) = keyHash(k) /\ keyEquals(key, k)}
At(m, k) == m[2 * (CHOOSE i \in Found(m, k) : TRUE)]

mapKeyEquals(a, b) ==
    /\ Len(a) = Len(b)
    /\ \A i \in 1..(Len(a) \div 2) :
          Found(b, a[2 * i - 1]) # {} /\ keyEquals(a[2 * i], At(b, a[2 * i - 1]))
setEquals(a, b) ==
    Len(a) = Len(b) /\ \A i \in 1..(Len(a) \div 2) : Found(b, a[2 * i - 1]) # {}
sequenceEquals(a, b) == Len(a) = Len(b) /\ \A i \in DOMAIN a : keyEquals(a[i], b[i])

keyEquals(a, b) ==
    CASE a = b -> TRUE
      [] a[1] = "str" \/ b[1] = "str" -> FALSE
      [] isSequential(a) \/ isSequential(b) ->
           isSequential(a) /\ isSequential(b) /\ sequenceEquals(Elements(a), Elements(b))
      [] a[1] = "map" \/ b[1] = "map" -> a[1] = b[1] /\ mapKeyEquals(a[2], b[2])
      [] a[1] = "set" \/ b[1] = "set" -> a[1] = b[1] /\ setEquals(a[2], b[2])
      [] OTHER -> FALSE

\* `=': numbers by value, whatever their type.
RECURSIVE valuesEqual(_, _)
mapEquals(a, b) ==
    /\ Len(a) = Len(b)
    /\ \A i \in 1..(Len(a) \div 2) :
          Found(b, a[2 * i - 1]) # {} /\ valuesEqual(a[2 * i], At(b, a[2 * i - 1]))
valuesEqual(a, b) ==
    CASE a = b -> TRUE
      [] a[1] = "map" \/ b[1] = "map" -> a[1] = b[1] /\ mapEquals(a[2], b[2])
      [] a[1] = "set" \/ b[1] = "set" -> a[1] = b[1] /\ setEquals(a[2], b[2])
      [] isSequential(a) \/ isSequential(b) ->
           /\ isSequential(a) /\ isSequential(b)
           /\ LET x == Elements(a)
                  y == Elements(b)
              IN  Len(x) = Len(y) /\ \A i \in DOMAIN x : valuesEqual(x[i], y[i])
      [] OTHER -> isNumber(a) /\ isNumber(b) /\ a[2] = b[2]

(***************************************************************************)
(* Maps and sets.                                                          *)
(***************************************************************************)
\* A present key keeps its stored object and takes the new value.
Assoc(m, k, v) ==
    IF Found(m, k) = {} THEN m \o <<k, v>>
    ELSE [m EXCEPT ![2 * (CHOOSE i \in Found(m, k) : TRUE)] = v]
mapAssocPairs(m, kv) ==
    FoldLeft(LAMBDA acc, i : Assoc(acc, kv[2 * i - 1], kv[2 * i]), m, [i \in 1..(Len(kv) \div 2) |-> i])
mapDissoc(m, k) ==
    LET at == 2 * (CHOOSE i \in Found(m, k) : TRUE)
    IN  IF Found(m, k) = {} THEN m ELSE SubSeq(m, 1, at - 2) \o SubSeq(m, at + 1, Len(m))
mapGet(m, k, other) == IF Found(m, k) = {} THEN other ELSE At(m, k)

\* Elements already in the base are skipped; the rest are associated with themselves.
setConj(m, items) ==
    LET new == SelectSeq(items, LAMBDA e : Found(m, e) = {})
    IN  mapAssocPairs(m, FlattenSeq([i \in DOMAIN new |-> <<new[i], new[i]>>]))

=============================================================================
