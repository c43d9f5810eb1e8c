------------------------------- MODULE Reader -------------------------------
(***************************************************************************)
(* From tokens to forms (src/src/reader/Reader.cpp) and read-string        *)
(* (src/src/runtime/Edn.cpp).                                              *)
(*                                                                         *)
(* A form is a pair <<tag, contents>>: the text of an atom, the sequence   *)
(* of a collection's forms (a map's keys and values in source order).  A   *)
(* reader is a record rd: its text, its position, the kind of the last     *)
(* token, whether it reads EDN, the parameters of the function literal it  *)
(* is in, and the number of the next generated symbol.                     *)
(***************************************************************************)
EXTENDS Lexer, SequencesExt

CONSTANTS
    Specials,       \* names syntax-quote leaves alone
    Builtins,       \* names clojure.core defines...
    Redefined       \* ...and among them those the program has bound itself

NoLiteral == [open |-> FALSE, params |-> <<>>, rest |-> 0]
NewReader(src, edn) ==
    [src |-> src, p |-> 1, prev |-> "EndOfFile", edn |-> edn, lit |-> NoLiteral, gen |-> 1]

Nil        == <<"nil", <<>>>>
Sym(text)  == <<"sym", text>>
Core(name) == Sym(<<"clojure.core/", name>>)
List(items) == <<"list", items>>

\* What a step of reading yields: a form, the end of the text or an error, with its
\* position, and the reader afterwards.
Form(f, rd)          == [kind |-> "form", form |-> f, error |-> "", at |-> 0, rd |-> rd]
EndOfText(rd)        == [kind |-> "eof", form |-> Nil, error |-> "", at |-> 0, rd |-> rd]
Failure(what, p, rd) == [kind |-> "error", form |-> Nil, error |-> what, at |-> p, rd |-> rd]

\* The errors a longer text could have avoided.
Unfinished == {"unterminated string", "unterminated escape", "unterminated regex",
               "unterminated", "macro without form"}

Take(rd) == nextToken(rd.src, rd.p, rd.prev)
Past(rd, tok) == [rd EXCEPT !.p = tok.next, !.prev = tok.kind]

\* An integer by its value: its sign and its digits without leading zeros.
Integer(text) ==
    LET neg    == text[1] = "-"
        digits == IF neg THEN Tail(text) ELSE text
        first  == Min({i \in DOMAIN digits : digits[i] # "0"} \cup {Len(digits)})
        value  == SubSeq(digits, first, Len(digits))
    IN  IF neg /\ value # <<"0">> THEN <<"-">> \o value ELSE value

Constant(tok) ==
    CASE tok.kind = "Integer" -> <<"int", Integer(tok.text)>>
      [] tok.kind = "Float"   -> <<"float", tok.text>>
      [] tok.kind = "String"  -> <<"str", tok.text>>
      [] tok.kind = "Regex"   -> <<"regex", tok.text>>
      [] tok.text \in {<<"nil">>, <<"true">>, <<"false">>} -> <<tok.text[1], <<>>>>
      [] OTHER -> Sym(tok.text)

(***************************************************************************)
(* `#(...)': % and %1 to %20 name parameters, %& the rest.  A parameter is *)
(* a generated symbol, made when it is first used; those skipped are made  *)
(* at the end.  params holds the numbers of the symbols, 0 for none yet.   *)
(***************************************************************************)
Param(n, id) == Sym(<<"p", ToString(n), "__", ToString(id), "#">>)
Rest(id)     == Sym(<<"rest", "__", ToString(id), "#">>)

Index(text) ==
    LET d == [i \in 1..(Len(text) - 1) |-> DigitValue[text[i + 1]]]
    IN  IF d = <<>> THEN 1 ELSE FoldLeft(LAMBDA n, x : Min({n * 10 + x, 100}), 0, d)

fnLiteralArg(rd, tok) ==
    LET n      == Index(tok.text)
        params == rd.lit.params \o [i \in 1..(IF n > Len(rd.lit.params) THEN n - Len(rd.lit.params) ELSE 0) |-> 0]
        fresh  == [rd EXCEPT !.gen = @ + 1]
    IN  CASE tok.text = <<"%", "&">> ->
               IF rd.lit.rest > 0 THEN Form(Rest(rd.lit.rest), rd)
               ELSE Form(Rest(rd.gen), [fresh EXCEPT !.lit.rest = rd.gen])
          [] \E i \in 2..Len(tok.text) : tok.text[i] \notin Digits -> Form(Sym(tok.text), rd)
          [] n \notin 1..20 -> Failure("arg literal", 0, rd)
          [] params[n] > 0 -> Form(Param(n, params[n]), rd)
          [] OTHER -> Form(Param(n, rd.gen), [fresh EXCEPT !.lit.params = [params EXCEPT ![n] = rd.gen]])

\* (fn* [p1 ... & rest] body), and the literal closed.
FnForm(r) ==
    LET lit    == r.rd.lit
        missing(i) == Cardinality({j \in 1..i : lit.params[j] = 0})
        ids    == [i \in DOMAIN lit.params |->
                     IF lit.params[i] > 0 THEN lit.params[i] ELSE r.rd.gen + missing(i) - 1]
        params == [i \in DOMAIN ids |-> Param(i, ids[i])]
                     \o IF lit.rest > 0 THEN <<Sym(<<"&">>), Rest(lit.rest)>> ELSE <<>>
    IN  Form(List(<<Sym(<<"fn*">>), <<"vec", params>>, r.form>>),
             [r.rd EXCEPT !.lit = NoLiteral, !.gen = @ + missing(Len(ids))])

(***************************************************************************)
(* Syntax-quote: the form that builds `form'.  g holds the number of the   *)
(* next generated symbol and the table of this syntax-quote's symbols.     *)
(***************************************************************************)
qualifySyntaxQuoteSymbol(text) ==
    CASE text \in Specials -> text
      [] text = <<"/">> -> <<"clojure.core/", "/">>
      [] \E i \in DOMAIN text : text[i] \in {"/", ".", "clojure.core/", "user/"} -> text
      [] text \in Builtins \ Redefined -> <<"clojure.core/">> \o text
      [] OTHER -> <<"user/">> \o text

Tagged(form, name) == form[1] = "list" /\ Len(form[2]) > 0 /\ form[2][1] = Core(name)
Keyword(form) == form[1] = "sym" /\ form[2][1] = ":"
SelfEvaluating(form) ==
    form[1] \in {"nil", "true", "false", "str", "int", "float"} \/ Keyword(form)
Quoted(form) == List(<<Sym(<<"quote">>), form>>)

Generated(text, id) == Sym(Front(text) \o <<"__", ToString(id), "__auto__">>)
AutoGensym(text) == Len(text) > 1 /\ Last(text) = "#" /\ "/" \notin Range(text)

Piece(f, g)   == [error |-> "", form |-> f, g |-> g]
Refused(e, g) == [error |-> e, form |-> Nil, g |-> g]

\* Each use of x# is given a symbol of its own.
Mutant_FreshEachTime(text, g) ==
    IF ~AutoGensym(text) THEN Piece(Quoted(Sym(qualifySyntaxQuoteSymbol(text))), g)
    ELSE Piece(Quoted(Generated(text, g.gen)),
               [gen |-> g.gen + 1, table |-> g.table \cup {<<text, Generated(text, g.gen)>>}])

QuotedSymbol(text, g) ==
    IF ~AutoGensym(text) THEN Piece(Quoted(Sym(qualifySyntaxQuoteSymbol(text))), g)
    ELSE LET known == {e \in g.table : e[1] = text}
             entry == IF known = {} THEN <<text, Generated(text, g.gen)>> ELSE CHOOSE e \in known : TRUE
         IN  Piece(Quoted(entry[2]),
                   IF known = {} THEN [gen |-> g.gen + 1, table |-> g.table \cup {entry}] ELSE g)

Builder == [vec |-> "vector", map |-> "hash-map", set |-> "hash-set"]

RECURSIVE syntaxQuote(_, _), Pieces(_, _, _)

\* The arguments of concat: an item, spliced, unquoted or quoted.
Pieces(items, done, g) ==
    IF items = <<>> THEN Piece(List(<<Core("concat")>> \o done), g)
    ELSE LET item == Head(items)
             two  == item[1] = "list" /\ Len(item[2]) = 2
             q    == syntaxQuote(item, g)
         IN  CASE two /\ Tagged(item, "unquote-splicing") ->
                    Pieces(Tail(items), Append(done, item[2][2]), g)
               [] two /\ Tagged(item, "unquote") ->
                    Pieces(Tail(items), Append(done, List(<<Core("list"), item[2][2]>>)), g)
               [] q.error # "" -> q
               [] OTHER -> Pieces(Tail(items), Append(done, List(<<Core("list"), q.form>>)), q.g)

syntaxQuote(form, g) ==
    CASE SelfEvaluating(form) -> Piece(form, g)
      [] form[1] = "sym" -> QuotedSymbol(form[2], g)
      [] form[1] = "regex" -> Piece(Quoted(form), g)
      [] Tagged(form, "unquote") ->
           IF Len(form[2]) = 2 THEN Piece(form[2][2], g) ELSE Refused("unquote", g)
      [] Tagged(form, "unquote-splicing") -> Refused("splice", g)
      [] form = List(<<>>) -> Piece(List(<<Core("list")>>), g)
      [] OTHER ->
           LET concat == Pieces(form[2], <<>>, g)
               seq    == List(<<Core("seq"), concat.form>>)
           IN  CASE concat.error # "" -> concat
                 [] form[1] = "list" -> Piece(seq, concat.g)
                 [] OTHER -> Piece(List(<<Core("apply"), Core(Builder[form[1]]), seq>>), concat.g)

(***************************************************************************)
(* Forms.                                                                  *)
(***************************************************************************)
Wraps   == [At |-> Core("deref"), Quote |-> Sym(<<"quote">>), Tilde |-> Core("unquote"),
            TildeAt |-> Core("unquote-splicing")]
Openers == [LParen |-> "RParen", HashLParen |-> "RParen", LBracket |-> "RBracket",
            LBrace |-> "RBrace", HashLBrace |-> "RBrace"]
Closers == {"RParen", "RBracket", "RBrace"}
CodeOnly == {"HashLParen", "Regex", "Quote", "Backtick", "Tilde", "TildeAt", "At"}

Repeated(keys) == \E i, j \in DOMAIN keys : i < j /\ keys[i] = keys[j]

\* The value of a collection whose forms have been read (readVector, readMap, readSet,
\* readFnLiteral), opened by tok.
Collect(tok, r) ==
    LET items == r.form[2]
        keys  == [i \in 1..(Len(items) \div 2) |-> items[2 * i - 1]]
    IN  CASE tok.kind = "LParen"     -> r
          [] tok.kind = "HashLParen" -> FnForm(r)
          [] tok.kind = "LBracket"   -> Form(<<"vec", items>>, r.rd)
          [] tok.kind = "LBrace" ->
               IF Len(items) % 2 # 0 THEN Failure("odd map", tok.at, r.rd)
               ELSE IF Repeated(keys) THEN Failure("duplicate key", tok.at, r.rd)
               ELSE Form(<<"map", items>>, r.rd)
          [] tok.kind = "HashLBrace" ->
               IF Repeated(items) THEN Failure("duplicate key", tok.at, r.rd)
               ELSE Form(<<"set", items>>, r.rd)

RECURSIVE readFromToken(_, _), readNextForm(_, _), readList(_, _, _)

readNextForm(rd, macro) ==
    LET tok == Take(rd)
    IN  IF tok.kind = "EndOfFile" THEN Failure("macro without form", macro.at, Past(rd, tok))
        ELSE readFromToken(Past(rd, tok), tok)

\* The forms up to the one that closes `open', items having been read.
readList(rd, open, items) ==
    LET tok  == Take(rd)
        next == Past(rd, tok)
        r    == IF tok.kind = "HashUnderscore" THEN readNextForm(next, tok) ELSE readFromToken(next, tok)
    IN  CASE tok.kind = "EndOfFile"        -> Failure("unterminated", open.at, next)
          [] tok.kind = Openers[open.kind] -> Form(List(items), next)
          [] tok.kind \in Closers          -> Failure("mismatched", tok.at, next)
          [] r.kind = "error"              -> r
          [] tok.kind = "HashUnderscore"   -> readList(r.rd, open, items)
          [] OTHER                         -> readList(r.rd, open, Append(items, r.form))

readFromToken(rd, tok) ==
    CASE rd.edn /\ tok.kind \in CodeOnly -> Failure("not EDN", tok.at, rd)
      [] tok.kind = "HashUnderscore" ->
           LET dropped == readNextForm(rd, tok)
           IN  IF dropped.kind = "error" THEN dropped ELSE readNextForm(dropped.rd, tok)
      [] tok.kind = "Symbol" /\ rd.lit.open /\ tok.text[1] = "%" -> fnLiteralArg(rd, tok)
      [] tok.kind \in {"Integer", "Float", "String", "Regex", "Symbol"} -> Form(Constant(tok), rd)
      [] tok.kind = "HashLParen" /\ rd.lit.open -> Failure("nested literal", tok.at, rd)
      [] tok.kind \in DOMAIN Openers ->
           LET r == readList(IF tok.kind = "HashLParen" THEN [rd EXCEPT !.lit.open = TRUE] ELSE rd,
                             tok, <<>>)
           IN  IF r.kind = "error" THEN r ELSE Collect(tok, r)
      [] tok.kind \in DOMAIN Wraps ->
           LET r == readNextForm(rd, tok)
           IN  IF r.kind = "error" THEN r ELSE Form(List(<<Wraps[tok.kind], r.form>>), r.rd)
      [] tok.kind = "Backtick" ->
           LET r == readNextForm(rd, tok)
               q == syntaxQuote(r.form, [gen |-> r.rd.gen, table |-> {}])
           IN  CASE r.kind = "error" -> r
                 [] q.error # ""     -> Failure(q.error, tok.at, r.rd)
                 [] OTHER            -> Form(q.form, [r.rd EXCEPT !.gen = q.g.gen])
      [] tok.kind = "Error" -> Failure(tok.text[1], tok.at, rd)
      [] OTHER -> Failure("unexpected", tok.at, rd)

\* The next top-level form: the `#_' forms before it are read and dropped.
RECURSIVE readOne(_)
readOne(rd) ==
    LET tok     == Take(rd)
        dropped == readNextForm(Past(rd, tok), tok)
    IN  CASE tok.kind = "HashUnderscore" -> IF dropped.kind = "error" THEN dropped ELSE readOne(dropped.rd)
          [] tok.kind = "EndOfFile" -> EndOfText(Past(rd, tok))
          [] OTHER -> readFromToken(Past(rd, tok), tok)

\* All forms of a text, and how it ended.
RECURSIVE readAllForms(_, _)
readAllForms(rd, forms) ==
    LET r == readOne(rd)
    IN  IF r.kind = "form" THEN readAllForms(r.rd, Append(forms, r.form))
        ELSE [forms |-> forms, error |-> r.error, at |-> r.at]

readAll(src, edn) == LET rd == NewReader(src, edn) IN readAllForms(rd, <<>>)

\* read-string: the first form; a text without one answers the :eof option when there
\* is one (EDN's read-string without options has nil) and is an error otherwise.
readFirstForm(src, edn, hasEof) ==
    LET r == readOne(NewReader(src, edn))
    IN  CASE r.kind = "form" -> <<"form", r.form>>
          [] r.kind = "eof" /\ hasEof -> <<"eof", Nil>>
          [] OTHER -> <<"RuntimeException", Nil>>

(***************************************************************************)
(* What a syntax-quote must build.  The arguments of ~ and ~@ are symbols, *)
(* env gives their values.                                                 *)
(***************************************************************************)
Items(v) == IF v = Nil THEN <<>> ELSE v[2]

\* The value of an expansion: quote, list, concat, seq and apply as Clojure has them.
RECURSIVE Evaluated(_, _)
Evaluated(f, env) ==
    IF f[1] # "list" THEN IF f[1] = "sym" /\ ~Keyword(f) THEN env[f[2]] ELSE f
    ELSE LET op   == f[2][1]
             args == [i \in 1..(Len(f[2]) - 1) |-> f[2][i + 1]]
             vals == [i \in DOMAIN args |-> Evaluated(args[i], env)]
         IN  CASE op = Sym(<<"quote">>) -> args[1]
               [] op = Core("list")   -> List(vals)
               [] op = Core("concat") -> List(FlattenSeq([i \in DOMAIN vals |-> Items(vals[i])]))
               [] op = Core("seq")    -> IF Items(vals[1]) = <<>> THEN Nil ELSE vals[1]
               [] op = Core("apply")  ->
                    LET t == CHOOSE t \in DOMAIN Builder : Core(Builder[t]) = args[1]
                    IN  <<t, Items(Evaluated(args[2], env))>>

\* The template filled in directly; ren gives the generated symbols.
RECURSIVE Filled(_, _, _)
Filled(f, env, ren) ==
    LET Spliced(x) == IF Tagged(x, "unquote-splicing") THEN Items(env[x[2][2][2]])
                      ELSE <<Filled(x, env, ren)>>
        all == FlattenSeq([i \in DOMAIN f[2] |-> Spliced(f[2][i])])
    IN  CASE SelfEvaluating(f) -> f
          [] f[1] = "sym" ->
               IF AutoGensym(f[2]) THEN ren[f[2]] ELSE Sym(qualifySyntaxQuoteSymbol(f[2]))
          [] Tagged(f, "unquote") -> env[f[2][2][2]]
          [] f[1] = "list" /\ f[2] # <<>> /\ all = <<>> -> Nil
          [] OTHER -> <<f[1], all>>

\* The expansion of a template evaluates to the template filled in.
ExpansionBuilds(form, env) ==
    LET q   == syntaxQuote(form, [gen |-> 1, table |-> {}])
        ren == [x \in {e[1] : e \in q.g.table} |-> (CHOOSE e \in q.g.table : e[1] = x)[2]]
    IN  IF q.error # "" THEN Tagged(form, "unquote-splicing")
        ELSE /\ Evaluated(q.form, env) = Filled(form, env, ren)
             /\ \A x, y \in DOMAIN ren : ren[x] = ren[y] => x = y

=============================================================================
