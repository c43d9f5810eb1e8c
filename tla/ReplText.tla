------------------------------ MODULE ReplText ------------------------------
(***************************************************************************)
(* The loop of Repl with its reader and its scanner: scanBalance           *)
(* (src/src/repl/Repl.cpp), which decides whether a line is complete,      *)
(* against the reader that reads it, the printer and syntax-quote.         *)
(***************************************************************************)
EXTENDS Repl, Printer

CONSTANTS
    ReadAll(_, _),          \* the reader's readAll and readFirstForm, passed in like
    ReadFirst(_, _, _),     \*   the operators of Repl
    Globals,    \* the values of the names a syntax-quote unquotes
    Samples     \* texts on which the reader is held to the laws of Repl

(***************************************************************************)
(* The reader keeps the laws.  Samples make no generated symbols: those    *)
(* are numbered through the process, and the laws hold up to their names.  *)
(***************************************************************************)
RECURSIVE Onward(_)
Onward(rd) == {rd} \cup IF ReadOne(rd).kind = "form" THEN Onward(ReadOne(rd).rd) ELSE {}

ASSUME SamplesAssumption ==
    LET readers == UNION {Onward(Open(text)) : text \in Samples}
        forms   == UNION {Range(Forms(text)) : text \in Samples}
    IN  ReaderLaws(Samples, readers, forms)

(***************************************************************************)
(* scanBalance.  s: the counts of open delimiters, whether the scan is in  *)
(* a string, whether a reader macro still waits for its form.              *)
(***************************************************************************)
endsBeforeMacro == isspace \cup {",", "(", "[", "{", "'", "bq", "~", "@"}

Pending(src, i) ==
    \/ src[i] \in {"bq", "~", "@"}
    \/ src[i] = "'" /\ (i = 1 \/ At(src, i - 1) \in endsBeforeMacro)

RECURSIVE Scan(_, _, _)
Scan(src, i, s) ==
    LET c      == At(src, i)
        next   == IF i < Len(src) THEN i + 2 ELSE i + 1     \* past an escaped character
        macro  == IF c \in isspace \cup {",", ";"} \/ Comment(src, i)
                  THEN s.pending ELSE Pending(src, i)
        t      == [s EXCEPT !.pending = macro]
        Opens(k)  == Scan(src, i + 1, [t EXCEPT !.open[k] = @ + 1])
        Closes(k) == IF s.open[k] = 0 THEN "Error"
                     ELSE Scan(src, i + 1, [t EXCEPT !.open[k] = @ - 1])
    IN  CASE i > Len(src) ->
               IF s.inStr \/ (\E k \in 1..3 : s.open[k] > 0) \/ s.pending
               THEN "Incomplete" ELSE "Balanced"
          [] s.inStr /\ c = "\\" -> Scan(src, next, s)
          [] s.inStr -> Scan(src, i + 1, [s EXCEPT !.inStr = c # "dq"])
          [] Comment(src, i) -> Scan(src, LineEnd(src, i) + 1, t)
          [] c = "dq" -> Scan(src, i + 1, [t EXCEPT !.inStr = TRUE])
          [] c = "(" -> Opens(1) [] c = "[" -> Opens(2) [] c = "{" -> Opens(3)
          [] c = ")" -> Closes(1) [] c = "]" -> Closes(2) [] c = "}" -> Closes(3)
          [] c = "\\" -> Scan(src, next, t)
          [] OTHER -> Scan(src, i + 1, t)

\* A string does not hide delimiters.
Mutant_NoStrings(src) ==
    Scan([i \in DOMAIN src |-> IF src[i] = "dq" THEN "a" ELSE src[i]], 1,
         [open |-> <<0, 0, 0>>, inStr |-> FALSE, pending |-> FALSE])

scanBalance(src) == Scan(src, 1, [open |-> <<0, 0, 0>>, inStr |-> FALSE, pending |-> FALSE])

(***************************************************************************)
(* Properties.                                                             *)
(***************************************************************************)
\* `#!' and two quotes in a symbol are part of it for the lexer; scanBalance takes them
\* for a comment and for a quote that waits for its form.
HiddenInSymbol(src) ==
    \E i \in 2..Len(src) :
        At(src, i - 1) \in SymbolChars /\ <<At(src, i), At(src, i + 1)>> \in {<<"#", "!">>, <<"'", "'">>}

\* scanBalance (Repl.cpp:84) agrees with the reader, those spellings apart: what it takes
\* for complete never leaves the reader inside a delimiter, a string or a regular
\* expression, so the loop does not give up on text that needs its next line; and it
\* never asks for another line when the reader could read all that has been typed.
BalanceAgrees ==
    ~HiddenInSymbol(line) =>
        LET error == ReadAll(line, FALSE).error
        IN  /\ Balance(line) = "Balanced" => error \notin Unfinished \ {"macro without form"}
            /\ Balance(line) = "Incomplete" => error # ""

\* What `pr' prints of the data that has been read, escapes included, is read back as the
\* same data and to its end, by the reader and by EDN's read-string, alone and in front
\* of more text (printTo, Primitives.cpp:196, against Reader.cpp, Lexer.cpp and Edn.cpp).
PrintedReadsBack ==
    run # <<>> /\ source # Idle => \A edn \in BOOLEAN :
        LET v == Last(run)
            text == printTo(v, TRUE)
        IN  ~Holds(v, "float") /\ ~(edn /\ Holds(v, "regex")) =>
                /\ ReadOne(NewReader(text, edn)).rd.p = Len(text) + 1
                /\ ReadFirst(text, edn, FALSE) = <<"form", v>>
                /\ ReadFirst(text \o <<" ", "(">>, edn, FALSE) = <<"form", v>>

\* Evaluating what syntaxQuote makes of a template (Reader.cpp:484) gives the template
\* with ~ and ~@ filled in, every other symbol resolved, and one new symbol for each
\* spelling x#; only a misplaced splice is refused.
SyntaxQuoteBuilds ==
    line # <<>> /\ Head(line) = "bq" =>
        LET r == ReadOne(NewReader(Tail(line), FALSE))
        IN  r.kind = "form" => ExpansionBuilds(r.form, Globals)

\* "a line that ends in a reader macro (`'`, ...) is incomplete: the REPL waits for the
\* form on the next line" (docs/DESIGN.md:905).  Not so for a quote that touches the end
\* of another form, as in (f)': endsBeforeMacro does not know the closing delimiters.
MacroWaits ==
    Balance(line) = "Balanced" => ReadAll(line, FALSE).error # "macro without form"

=============================================================================
