-------------------------------- MODULE Lexer --------------------------------
(***************************************************************************)
(* The tokens of a source text (src/src/reader/Lexer.cpp).                 *)
(*                                                                         *)
(* A text is a sequence of characters, written as strings: "(" is a        *)
(* parenthesis, "dq" a double quote, "bq" a back quote, "nl" a newline.  A *)
(* letter, or a run of letters no rule looks into, is one member of        *)
(* Letters, the non-ASCII letters of UnicodeLetters.h among them; "nbsp"   *)
(* stands for the non-ASCII characters that are not letters, "bad" for     *)
(* bytes that are not UTF-8.                                               *)
(* Nothing is kept of a message but which one it is.                       *)
(***************************************************************************)
EXTENDS Integers, Sequences, FiniteSetsExt, TLC

CONSTANT Letters

Octals     == {"0", "1", "2", "3", "4", "5", "6", "7"}
Digits     == Octals \cup {"8", "9"}
HexDigits  == Digits \cup {"c", "d", "e", "f"}
Whitespace == {" ", "nl", ","}
Alpha      == Letters \cup {"c", "d", "e", "f", "n", "u", "N"}
isAsciiSymbolChar ==
    {"*", "+", "!", "-", "_", "'", "?", "<", ">", "=", ".", "/", ":", "&", "$", "%"}
SymbolChars == Alpha \cup Digits \cup isAsciiSymbolChar
DigitValue  == [c \in HexDigits |->
    CHOOSE n \in 0..15 : <<"0", "1", "2", "3", "4", "5", "6", "7", "8", "9", "a", "b", "c", "d", "e", "f">>[n + 1] = c]

\* The character at p, the NUL of lookahead() beyond the end; the first position
\* from p on whose character is not in S.
At(src, p) == IF p <= Len(src) THEN src[p] ELSE "NUL"
Span(src, p, S) == Min({i \in p..(Len(src) + 1) : At(src, i) \notin S})

\* `#!' starts a comment as `;' does.
Comment(src, p) == At(src, p) = ";" \/ (At(src, p) = "#" /\ At(src, p + 1) = "!")
LineEnd(src, p) == Min({i \in p..(Len(src) + 1) : At(src, i) \in {"nl", "NUL"}})

RECURSIVE skipWhitespaceAndComments(_, _)
skipWhitespaceAndComments(src, p) ==
    CASE At(src, p) \in Whitespace -> skipWhitespaceAndComments(src, p + 1)
      [] Comment(src, p)           -> skipWhitespaceAndComments(src, LineEnd(src, p))
      [] OTHER                     -> p

(***************************************************************************)
(* A token: its kind, its text, where it starts and where the next begins. *)
(***************************************************************************)
Token(kind, text, p, next) == [kind |-> kind, text |-> text, at |-> p, next |-> next]
makeError(what, p, next) == Token("Error", <<what>>, p, next)

\* After these kinds a `-' that touches them is no sign.
prevEndsOperand(prev) ==
    prev \in {"Integer", "Float", "String", "Symbol", "RParen", "RBracket", "RBrace"}

\* A number from p, its digits from `digits' on: a fraction, an exponent, the suffix N,
\* and nothing that could continue it.
lexNumber(src, p, digits) ==
    LET whole    == Span(src, digits, Digits)
        fraction == At(src, whole) = "." /\ At(src, whole + 1) \in Digits
        mantissa == IF fraction THEN Span(src, whole + 1, Digits) ELSE whole
        exponent == At(src, mantissa) = "e"
        power    == IF exponent /\ At(src, mantissa + 1) \in {"+", "-"}
                    THEN mantissa + 2 ELSE mantissa + 1
        value    == IF exponent THEN Span(src, power, Digits) ELSE mantissa
        float    == fraction \/ exponent
        end      == IF ~float /\ At(src, value) = "N" THEN value + 1 ELSE value
        trail    == Alpha \cup Digits \cup {"_", "."}
    IN  CASE exponent /\ At(src, power) \notin Digits -> makeError("exponent", p, power)
          [] At(src, end) \in trail -> makeError("number", p, Span(src, end, trail))
          [] OTHER -> Token(IF float THEN "Float" ELSE "Integer", SubSeq(src, p, value - 1), p, end)

\* The four hexadecimal digits from p, or -1.
hex4(src, p) ==
    IF \E i \in p..(p + 3) : At(src, i) \notin HexDigits THEN -1
    ELSE LET d(i) == DigitValue[src[p + i]]
         IN  ((d(0) * 16 + d(1)) * 16 + d(2)) * 16 + d(3)

Escapes == [n |-> "nl", dq |-> "dq", t |-> "tab", r |-> "cr", b |-> "bs", f |-> "ff"]
SimpleEscape(c) == IF c \in DOMAIN Escapes THEN {Escapes[c]} ELSE IF c = "\\" THEN {"\\"} ELSE {}

\* One to three octal digits from p: where they end and their value.
OctalEnd(src, p) == Min({Span(src, p, Octals), p + 3})
OctalValue(src, p) ==
    LET d == [i \in 1..(OctalEnd(src, p) - p) |-> DigitValue[src[p + i - 1]]]
    IN  CASE Len(d) = 1 -> d[1] [] Len(d) = 2 -> d[1] * 8 + d[2]
          [] Len(d) = 3 -> (d[1] * 8 + d[2]) * 8 + d[3]

\* The character of a code point, and the code point of two surrogates.
Char(cp) ==
    CASE cp = 8 -> "bs" [] cp = 9 -> "tab" [] cp = 10 -> "nl" [] cp = 12 -> "ff"
      [] cp = 13 -> "cr" [] cp = 34 -> "dq" [] cp = 92 -> "\\" [] OTHER -> "U+" \o ToString(cp)
SurrogatePair(hi, lo) == 65536 + (hi - 55296) * 1024 + (lo - 56320)

\* An escape at p (its backslash): the text it stands for and where it ends, or an error.
Escape(src, p) ==
    LET c      == At(src, p + 1)
        cp     == hex4(src, p + 2)
        paired == At(src, p + 6) = "\\" /\ At(src, p + 7) = "u"
        lo     == IF paired THEN hex4(src, p + 8) ELSE -1
        Means(text, next) == [error |-> "", text |-> text, next |-> next]
        Fails(what)       == [error |-> what, text |-> <<>>, next |-> p]
    IN  CASE SimpleEscape(c) # {} -> Means(<<CHOOSE e \in SimpleEscape(c) : TRUE>>, p + 2)
          [] c = "NUL" -> Fails("unterminated escape")
          [] c = "u" /\ cp < 0 -> Fails("hexadecimal")
          [] c = "u" /\ cp \in 55296..56319 ->
               IF lo \in 56320..57343 THEN Means(<<Char(SurrogatePair(cp, lo))>>, p + 12)
                                      ELSE Fails("surrogate")
          [] c = "u" /\ cp \in 56320..57343 -> Fails("surrogate")
          [] c = "u" -> Means(<<Char(cp)>>, p + 6)
          [] c \in Octals ->
               IF OctalValue(src, p + 1) > 255 THEN Fails("octal")
               ELSE Means(<<Char(OctalValue(src, p + 1))>>, OctalEnd(src, p + 1))
          [] OTHER -> Fails("escape")

\* lexString from its quote at p; q is the position reached, out the text so far.
RECURSIVE StringFrom(_, _, _, _)
StringFrom(src, p, q, out) ==
    CASE At(src, q) = "NUL" -> makeError("unterminated string", p, q)
      [] At(src, q) = "dq"  -> Token("String", out, p, q + 1)
      [] At(src, q) = "\\"  ->
           LET e == Escape(src, q)
           IN  IF e.error # "" THEN makeError(e.error, p, q) ELSE StringFrom(src, p, e.next, out \o e.text)
      [] OTHER -> StringFrom(src, p, q + 1, Append(out, src[q]))

lexString(src, p) == StringFrom(src, p, p + 1, <<>>)

\* A regular expression keeps its backslashes; one hides the quote after it.
RECURSIVE RegexFrom(_, _, _)
RegexFrom(src, p, q) ==
    CASE At(src, q) = "NUL" -> makeError("unterminated regex", p, q)
      [] At(src, q) = "dq"  -> Token("Regex", SubSeq(src, p + 2, q - 1), p, q + 1)
      [] At(src, q) = "\\"  -> RegexFrom(src, p, Min({q + 2, Len(src) + 1}))
      [] OTHER              -> RegexFrom(src, p, q + 1)

lexRegex(src, p) == RegexFrom(src, p, p + 2)

\* `##Inf' and the like, `##' possibly apart from its symbol.
lexSymbolicValue(src, p) ==
    LET from == skipWhitespaceAndComments(src, p + 2)
        end  == Span(src, from, SymbolChars)
        name == SubSeq(src, from, end - 1)
    IN  IF name \in {<<"Inf">>, <<"-", "Inf">>, <<"NaN">>}
        THEN Token("Float", <<"#", "#">> \o name, p, end)
        ELSE makeError("symbolic value", p, end)

Punctuation == [LParen |-> "(", RParen |-> ")", LBracket |-> "[", RBracket |-> "]",
             LBrace |-> "{", RBrace |-> "}", At |-> "@", Quote |-> "'", Backtick |-> "bq"]
Dispatch == [HashLBrace |-> "{", HashLParen |-> "(", HashUnderscore |-> "_"]

lexSymbolOrPunct(src, p) ==
    LET c    == src[p]
        la   == At(src, p + 1)
        body == Span(src, p + 1, SymbolChars \cup {"#"})
    IN  CASE c = "~" -> IF la = "@" THEN Token("TildeAt", <<"~", "@">>, p, p + 2)
                                    ELSE Token("Tilde", <<"~">>, p, p + 1)
          [] c = "^" -> makeError("reserved", p, p + 1)
          [] c = "#" /\ la = "#"  -> lexSymbolicValue(src, p)
          [] c = "#" /\ la = "dq" -> lexRegex(src, p)
          [] c = "#" /\ \E k \in DOMAIN Dispatch : Dispatch[k] = la ->
               Token(CHOOSE k \in DOMAIN Dispatch : Dispatch[k] = la, <<"#", la>>, p, p + 2)
          [] c = "#" /\ la \in Alpha -> makeError("tag", p, Span(src, p + 1, SymbolChars))
          [] c = "#" -> makeError("reserved", p, IF la = "'" THEN p + 2 ELSE p + 1)
          [] c \notin SymbolChars -> makeError("character", p, p + 1)
          [] OTHER -> Token("Symbol", SubSeq(src, p, body - 1), p, body)

\* nextImpl_: the token after position p, prev being the kind of the one before.
nextToken(src, p, prev) ==
    LET q == skipWhitespaceAndComments(src, p)
        c == At(src, q)
    IN  CASE q > Len(src) -> Token("EndOfFile", <<>>, q, q)
          [] \E k \in DOMAIN Punctuation : Punctuation[k] = c ->
               Token(CHOOSE k \in DOMAIN Punctuation : Punctuation[k] = c, <<c>>, q, q + 1)
          [] c = "dq" -> lexString(src, q)
          [] c \in Digits -> lexNumber(src, q, q)
          [] c = "-" /\ At(src, q + 1) \in Digits /\ (~prevEndsOperand(prev) \/ q # p) ->
               lexNumber(src, q, q + 1)
          [] OTHER -> lexSymbolOrPunct(src, q)

=============================================================================
