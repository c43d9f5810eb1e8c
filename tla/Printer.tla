------------------------------- MODULE Printer -------------------------------
(***************************************************************************)
(* The printer (src/src/runtime/Primitives.cpp: printTo,                   *)
(* appendReadableString).  The values are the forms of Reader, which       *)
(* evaluate to themselves or are quoted.  A seq prints as the list of its  *)
(* elements.                                                               *)
(***************************************************************************)
EXTENDS Reader

Escaped == [c \in {"dq", "\\", "nl", "tab", "cr", "ff", "bs"} |->
    CASE c = "dq" -> "dq" [] c = "\\" -> "\\" [] c = "nl" -> "n" [] c = "tab" -> "t"
      [] c = "cr" -> "r" [] c = "ff" -> "f" [] c = "bs" -> "b"]

\* Backslashes are copied as they are.
Mutant_RawBackslash(text) ==
    <<"dq">> \o FlattenSeq([i \in DOMAIN text |->
        IF text[i] \in DOMAIN Escaped \ {"\\"} THEN <<"\\", Escaped[text[i]]>> ELSE <<text[i]>>]) \o <<"dq">>

appendReadableString(text) ==
    <<"dq">> \o FlattenSeq([i \in DOMAIN text |->
        IF text[i] \in DOMAIN Escaped THEN <<"\\", Escaped[text[i]]>> ELSE <<text[i]>>]) \o <<"dq">>

\* s[1] sep s[2] sep ...
Joined(s, sep) == FlattenSeq([i \in DOMAIN s |-> IF i = 1 THEN s[i] ELSE sep \o s[i]])

RECURSIVE printTo(_, _)
printTo(v, readable) ==
    LET items == [i \in DOMAIN v[2] |-> printTo(v[2][i], readable)]
        pairs == [i \in 1..(Len(v[2]) \div 2) |-> items[2 * i - 1] \o <<" ">> \o items[2 * i]]
    IN  CASE v[1] \in {"nil", "true", "false"} -> <<v[1]>>
          [] v[1] = "list"  -> <<"(">> \o Joined(items, <<" ">>) \o <<")">>
          [] v[1] = "vec"   -> <<"[">> \o Joined(items, <<" ">>) \o <<"]">>
          [] v[1] = "map"   -> <<"{">> \o Joined(pairs, <<",", " ">>) \o <<"}">>
          [] v[1] = "set"   -> <<"#", "{">> \o Joined(items, <<" ">>) \o <<"}">>
          [] v[1] = "str"   -> IF readable THEN appendReadableString(v[2]) ELSE v[2]
          [] v[1] = "regex" -> IF readable THEN <<"#", "dq">> \o v[2] \o <<"dq">> ELSE v[2]
          [] OTHER -> v[2]

\* Values without a readable form of their own: a regular expression is not EDN, a float
\* is printed by a conversion that is not modelled.
RECURSIVE Holds(_, _)
Holds(v, tag) ==
    v[1] = tag \/ (v[1] \in {"list", "vec", "map", "set"} /\ \E i \in DOMAIN v[2] : Holds(v[2][i], tag))

=============================================================================
