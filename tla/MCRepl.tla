-------------------------------- MODULE MCRepl --------------------------------
(* An instance of Repl, with the reader and scanBalance, for TLC.         *)
EXTENDS ReplText

MCOpen(text) == NewReader(text, FALSE)
MCReadForms(rd) == LET all == readAllForms(rd, <<>>) IN all

MCKeys ==
    {<<"(">>, <<")">>, <<"dq">>, <<"\\">>, <<";">>, <<"#", "_">>, <<"#", "!">>, <<"'">>,
     <<"a">>, <<" ">>, <<":", "quit">>, <<":", "time", " ", "a">>, <<":", "load", " ", "f">>}

\* Texts of up to two of these.
Fragments == {<<"(">>, <<")">>, <<"dq">>, <<"\\">>, <<";">>, <<"#", "_">>, <<"#", "!">>, <<"'">>, <<"a">>,
              <<" ">>, <<"nl">>, <<"-">>, <<"1">>, <<"^">>, <<":">>, <<"a", " ", "1">>, <<"dq", "a", "dq">>}
MCSamples == {<<>>} \cup Fragments \cup {a \o b : a \in Fragments, b \in Fragments}

MCFiles == <<"f">> :> <<"a", " ", "a", " ", ")">>
MCSpecials == {<<"if">>}
MCBuiltins == {<<"inc">>, <<"list">>}
MCRedefined == {<<"list">>}

\* Texts of collections of one or two of the given texts.
Collections(texts, brackets) ==
    {b[1] \o Joined(items, <<" ">>) \o b[2] : b \in brackets, items \in UNION {[1..n -> texts] : n \in 1..2}}
Brackets == {<<<<"(">>, <<")">>>>, <<<<"[">>, <<"]">>>>, <<<<"#", "{">>, <<"}">>>>, <<<<"{">>, <<"}">>>>}
Lists    == {<<<<"(">>, <<")">>>>, <<<<"[">>, <<"]">>>>}

\* Templates: symbols of every sort, what is unquoted and spliced, one inside the other.
Plain     == {<<"a">>, <<"a", "#">>, <<"b", "#">>, <<":", "a">>, <<"if">>, <<"inc">>, <<"list">>, <<"a", "/", "b">>, <<"(", ")">>}
Unquotes  == {<<"~", "x">>, <<"~", "@", "y">>, <<"~", "@", "z">>}
Inner     == Collections({<<"a", "#">>, <<"~", "@", "y">>, <<"~", "@", "z">>}, Lists)
Templates == Plain \cup Unquotes \cup Collections(Plain \cup Unquotes, Brackets)
               \cup Collections(Inner \cup {<<"a", "#">>}, Lists)

\* Data: strings with every escape, numbers, keywords, patterns, literals, function
\* literals, and what is not data or not well formed.
Quarter  == {<<"a">>, <<"\\", "n">>, <<"\\", "dq">>, <<"\\", "\\">>, <<"\\", "4", "2">>, <<"\\", "1", "2", "8">>,
             <<"\\", "u", "0", "0", "2", "2">>, <<"\\", "u", "d", "8", "0", "0", "\\", "u", "d", "c", "0", "0">>,
             <<"\\", "u", "d", "8", "0", "0">>, <<"nl">>, <<";">>}
Strings  == {<<"dq">> \o FlattenSeq(s) \o <<"dq">> : s \in UNION {[1..n -> Quarter] : n \in 0..2}}
Numbers  == {<<"-", "0">>, <<"0", "7">>, <<"-", "1", "N">>, <<"1", "a">>, <<"1", ".", "8">>, <<"#", "#", "Inf">>, <<"1", "e">>}
Others   == {<<"nil">>, <<":", "a">>, <<"a">>, <<"-">>, <<"a", "-", "1">>, <<"#", "_", "a">>, <<"'", "a">>, <<"@", "a">>,
             <<"#", "dq", "\\", "dq", "dq">>, <<"#", "(", "%", "2", " ", "%", "&", ")">>, <<"^">>, <<"nbsp">>, <<"%">>}
Data     == Strings \cup Numbers \cup Others
              \cup Collections(Numbers \cup Others \cup {<<"dq", "\\", "n", "dq">>}, Lists)
              \cup Collections({<<"a">>, <<"dq", "\\", "\\", "dq">>} \cup Collections({<<"a">>}, Brackets), Brackets)

MCPastes  == {<<"bq">> \o t : t \in Templates} \cup Data
MCGlobals == [n \in {<<"x">>, <<"y">>, <<"z">>} |->
    CASE n = <<"x">> -> <<"int", <<"7">>>> [] n = <<"y">> -> List(<<Nil, Nil>>) [] OTHER -> Nil]

=============================================================================
