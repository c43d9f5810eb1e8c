----------------------------- MODULE Repl_proofs -----------------------------
(***************************************************************************)
(* The loop runs what was typed, in a session of any length, whatever      *)
(* scanBalance answers: proved of every reader that keeps the laws of      *)
(* Repl (ReaderLaws), whose texts are the sequences over Chars.            *)
(***************************************************************************)
EXTENDS Repl, SequenceTheorems, TLAPS

nl == <<"nl">>

\* pre is what was typed and has been read to its end, line by line, fs its forms.
ReadToEnd(pre, fs, Chars) ==
    \/ pre = <<>> /\ fs = <<>>
    \/ \E a \in Seq(Chars) : pre = a \o nl /\ Clean(a) /\ fs = Forms(a)

\* At a prompt: after what was read to its end comes what the buffer gathers.
AtPrompt(pre, fs) ==
    /\ session # "raised" /\ source = Idle
    /\ run = fs
    /\ typed = IF inMultiline THEN pre \o buffer \o nl ELSE pre

\* While a text is evaluated: the forms run so far and those the reader has yet to read.
AtWork(pre, fs, text, rd, AllForms) ==
    /\ session # "raised" /\ source = [mode |-> "input", rd |-> rd]
    /\ ~inMultiline
    /\ typed = pre \o text \o nl
    /\ run \in Seq(AllForms)
    /\ run \o ReadForms(rd).forms = fs \o Forms(text)
    /\ ReadForms(rd).error = "" <=> Clean(text)

\* After an exception from printing: some forms of the text may not have been run.
AtRaise(pre, fs, text, AllForms) ==
    /\ session = "raised" /\ source = Idle
    /\ typed = pre \o text \o nl
    /\ run \in Seq(AllForms)
    /\ \E rest \in Seq(AllForms) : run \o rest = fs \o Forms(text)

TypedOK(Chars) ==
    /\ line \in Seq(Chars) /\ buffer \in Seq(Chars) /\ typed \in Seq(Chars)
    /\ inMultiline \in BOOLEAN

Accounted(Chars, Readers, AllForms) ==
    \E pre \in Seq(Chars), fs \in Seq(AllForms) :
        /\ ReadToEnd(pre, fs, Chars)
        /\ \/ AtPrompt(pre, fs)
           \/ \E text \in Seq(Chars), rd \in Readers : AtWork(pre, fs, text, rd, AllForms)
           \/ \E text \in Seq(Chars) : AtRaise(pre, fs, text, AllForms)

\* The inductive invariant.
IInv(Chars, Readers, AllForms) ==
    /\ TypedOK(Chars)
    /\ ~broken => Accounted(Chars, Readers, AllForms)

\* The hypotheses about the reader and about what can be typed.
Session(Chars, Readers, AllForms) ==
    /\ "nl" \in Chars
    /\ Keys \subseteq Seq(Chars) /\ Pastes \subseteq Seq(Chars)
    /\ ReaderLaws(Seq(Chars), Readers, AllForms)

-----------------------------------------------------------------------------
\* Lines joined: the line break is a text, and joining associates.
LEMMA Joining ==
    ASSUME NEW Chars, "nl" \in Chars, NEW a \in Seq(Chars), NEW b \in Seq(Chars)
    PROVE  /\ nl \in Seq(Chars)
           /\ a \o nl \in Seq(Chars)
           /\ a \o nl \o b \in Seq(Chars)
           /\ a \o b \o nl \in Seq(Chars)
           /\ (a \o nl) \o b \o nl = (a \o nl \o b) \o nl
           /\ a \o (b \o nl) = a \o b \o nl
           /\ <<>> \o b \o nl = b \o nl
           /\ a \o nl \o <<>> = a \o nl
<1>1. nl \in Seq(Chars)
  BY DEF nl
<1>2. /\ a \o nl \in Seq(Chars) /\ a \o b \in Seq(Chars) /\ <<>> \in Seq(Chars)
  BY <1>1, ConcatProperties
<1>3. a \o nl \o b \in Seq(Chars) /\ a \o b \o nl \in Seq(Chars)
  BY <1>1, <1>2, ConcatProperties
<1>4. a \o (b \o nl) = a \o b \o nl
  BY <1>1, ConcatAssociative
<1>5. <<>> \o b = b /\ (a \o nl) \o <<>> = a \o nl
  BY <1>2, ConcatEmptySeq
<1> QED BY <1>1, <1>2, <1>3, <1>4, <1>5

\* A sequence of three parts, from either end.
LEMMA Regroup ==
    ASSUME NEW S, NEW a \in Seq(S), NEW b \in Seq(S), NEW c \in Seq(S)
    PROVE  (a \o b) \o c = a \o (b \o c) /\ a \o b \in Seq(S)
BY ConcatAssociative, ConcatProperties

\* The text of a session, and the forms read from it, are sequences.
LEMMA FormsType ==
    ASSUME NEW Chars, NEW Readers, NEW AllForms, Session(Chars, Readers, AllForms),
           NEW a \in Seq(Chars)
    PROVE  Open(a) \in Readers /\ Forms(a) \in Seq(AllForms)
BY DEF Session, ReaderLaws, ReadsOneByOne, Forms

\* A text without characters has no forms.
LEMMA NothingTyped ==
    ASSUME NEW Chars, NEW Readers, NEW AllForms, Session(Chars, Readers, AllForms)
    PROVE  Forms(<<>>) = <<>> /\ Clean(<<>>)
<1>1. trim(<<>>) = <<>>
  BY DEF trim
<1>2. <<>> \in Seq(Chars)
  OBVIOUS
<1> QED BY <1>1, <1>2 DEF Session, ReaderLaws, BlankIsEmpty

\* One more text read to its end (LinesSeparate): its forms follow those before it.
LEMMA ReadMore ==
    ASSUME NEW Chars, NEW Readers, NEW AllForms, Session(Chars, Readers, AllForms),
           NEW pre \in Seq(Chars), NEW fs \in Seq(AllForms), NEW text \in Seq(Chars),
           ReadToEnd(pre, fs, Chars), Clean(text)
    PROVE  ReadToEnd(pre \o text \o nl, fs \o Forms(text), Chars)
<1>0. "nl" \in Chars /\ Forms(text) \in Seq(AllForms)
  BY FormsType DEF Session
<1>1. CASE pre = <<>> /\ fs = <<>>
  <2>1. pre \o text \o nl = text \o nl
    BY <1>0, <1>1, Joining
  <2>2. fs \o Forms(text) = Forms(text)
    BY <1>0, <1>1, ConcatEmptySeq
  <2> QED BY <2>1, <2>2 DEF ReadToEnd
<1>2. ASSUME NEW a \in Seq(Chars), pre = a \o nl, Clean(a), fs = Forms(a)
      PROVE  ReadToEnd(pre \o text \o nl, fs \o Forms(text), Chars)
  <2> DEFINE both == a \o nl \o text
  <2>1. both \in Seq(Chars) /\ pre \o text \o nl = both \o nl
    BY <1>0, <1>2, Joining
  <2>2. Forms(both) = Forms(a) \o Forms(text) /\ Clean(both)
    BY <1>2 DEF Session, ReaderLaws, LinesSeparate, nl
  <2> HIDE DEF both
  <2> QED BY <1>2, <2>1, <2>2 DEF ReadToEnd
<1> QED BY <1>1, <1>2 DEF ReadToEnd

\* What was read line by line is what reading it at once gives.
LEMMA ReadAtOnce ==
    ASSUME NEW Chars, NEW Readers, NEW AllForms, Session(Chars, Readers, AllForms),
           NEW pre, NEW fs, ReadToEnd(pre, fs, Chars)
    PROVE  fs = Forms(pre)
<1>1. CASE pre = <<>> /\ fs = <<>>
  BY <1>1, NothingTyped
<1>2. ASSUME NEW a \in Seq(Chars), pre = a \o nl, Clean(a), fs = Forms(a)
      PROVE  fs = Forms(pre)
  <2>0. <<>> \in Seq(Chars)
    OBVIOUS
  <2>1. Forms(a \o nl \o <<>>) = Forms(a) \o Forms(<<>>)
    BY <1>2, <2>0 DEF Session, ReaderLaws, LinesSeparate, nl
  <2>2. a \o nl \o <<>> = pre
    BY <1>2, Joining DEF Session
  <2>3. Forms(a) \o Forms(<<>>) = Forms(a)
    BY NothingTyped, FormsType, ConcatEmptySeq
  <2> QED BY <1>2, <2>1, <2>2, <2>3
<1> QED BY <1>1, <1>2 DEF ReadToEnd

\* A text read in part (LinesKeep): the forms before its error are among those of the whole.
LEMMA ReadInPart ==
    ASSUME NEW Chars, NEW Readers, NEW AllForms, Session(Chars, Readers, AllForms),
           NEW pre \in Seq(Chars), NEW fs \in Seq(AllForms), NEW text \in Seq(Chars),
           ReadToEnd(pre, fs, Chars)
    PROVE  IsPrefix(fs \o Forms(text), Forms(pre \o text \o nl))
<1>0. "nl" \in Chars /\ Forms(text) \in Seq(AllForms)
  BY FormsType DEF Session
<1>1. PICK both \in Seq(Chars) : pre \o text \o nl = both \o nl /\ Forms(both) = fs \o Forms(text)
  <2>1. CASE pre = <<>> /\ fs = <<>>
    <3>1. pre \o text \o nl = text \o nl
      BY <1>0, <2>1, Joining
    <3>2. fs \o Forms(text) = Forms(text)
      BY <1>0, <2>1, ConcatEmptySeq
    <3> QED BY <3>1, <3>2
  <2>2. ASSUME NEW a \in Seq(Chars), pre = a \o nl, Clean(a), fs = Forms(a)
        PROVE  \E both \in Seq(Chars) :
                 pre \o text \o nl = both \o nl /\ Forms(both) = fs \o Forms(text)
    <3>1. a \o nl \o text \in Seq(Chars) /\ pre \o text \o nl = (a \o nl \o text) \o nl
      BY <1>0, <2>2, Joining
    <3>2. Forms(a \o nl \o text) = Forms(a) \o Forms(text)
      BY <2>2 DEF Session, ReaderLaws, LinesSeparate, nl
    <3> QED BY <2>2, <3>1, <3>2
  <2> QED BY <2>1, <2>2 DEF ReadToEnd
<1> QED BY <1>1 DEF Session, ReaderLaws, LinesKeep, nl

\* A beginning of a beginning.
LEMMA PrefixOfPrefix ==
    ASSUME NEW S, NEW a \in Seq(S), NEW b \in Seq(S), NEW c \in Seq(S), IsPrefix(a \o b, c)
    PROVE  IsPrefix(a, c)
<1> DEFINE ab == a \o b
<1>1. /\ ab \in Seq(S) /\ Len(ab) = Len(a) + Len(b)
      /\ \A i \in 1..Len(a) : ab[i] = a[i]
  BY ConcatProperties
<1>2. Len(a) \in Nat /\ Len(b) \in Nat /\ Len(c) \in Nat
  BY LenProperties
<1> HIDE DEF ab
<1>3. Len(ab) <= Len(c) /\ SubSeq(ab, 1, Len(ab)) = SubSeq(c, 1, Len(ab))
  BY DEF IsPrefix, ab
<1>4. \A i \in 1..Len(a) : c[i] = a[i]
  <2> TAKE i \in 1..Len(a)
  <2>1. i \in 1..Len(ab)
    BY <1>1, <1>2
  <2>2. SubSeq(ab, 1, Len(ab))[i] = ab[i] /\ SubSeq(c, 1, Len(ab))[i] = c[i]
    BY <1>1, <1>2, <1>3, <2>1
  <2> QED BY <1>1, <1>3, <2>2
<1>5. SubSeq(a, 1, Len(a)) = SubSeq(c, 1, Len(a))
  <2>1. Len(a) <= Len(c)
    BY <1>1, <1>2, <1>3
  <2>2. /\ SubSeq(a, 1, Len(a)) = [i \in 1..Len(a) |-> a[i]]
        /\ SubSeq(c, 1, Len(a)) = [i \in 1..Len(a) |-> c[i]]
    BY <1>2, <2>1
  <2> QED BY <1>4, <2>2
<1> QED BY <1>1, <1>2, <1>3, <1>5 DEF IsPrefix

-----------------------------------------------------------------------------
\* Evaluate (runRepl and cmdTime call evalSource): nothing of the text has been run.
LEMMA EvaluateStarts ==
    ASSUME NEW Chars, NEW Readers, NEW AllForms, Session(Chars, Readers, AllForms),
           NEW pre \in Seq(Chars), NEW fs \in Seq(AllForms), NEW text \in Seq(Chars),
           Evaluate(text), ~inMultiline', typed' = pre \o text \o nl, run' = fs,
           session' # "raised"
    PROVE  AtWork(pre, fs, text, Open(text), AllForms)'
BY FormsType DEF AtWork, Evaluate, Forms, Clean

\* A key, a line pasted, the end of the input: what was typed stays in its line.
LEMMA LineStep ==
    ASSUME NEW Chars, NEW Readers, NEW AllForms, Session(Chars, Readers, AllForms),
           IInv(Chars, Readers, AllForms),
           (\E k \in Keys : Type(k)) \/ Paste \/ EndOfInput
    PROVE  IInv(Chars, Readers, AllForms)'
<1>1. line' \in Seq(Chars)
  BY ConcatProperties DEF Type, Paste, EndOfInput, IInv, TypedOK, Session
<1>2. /\ UNCHANGED <<buffer, inMultiline, source, typed, run, broken>>
      /\ session = "open" /\ session' # "raised"
  BY DEF Type, Paste, EndOfInput, Prompting
<1> QED BY <1>1, <1>2 DEF IInv, TypedOK, Accounted, AtPrompt, AtWork, AtRaise

\* A line entered (runRepl): gathered, evaluated with the buffer, or blank and ignored.
LEMMA EnterStep ==
    ASSUME NEW Chars, NEW Readers, NEW AllForms, Session(Chars, Readers, AllForms),
           IInv(Chars, Readers, AllForms), Enter
    PROVE  IInv(Chars, Readers, AllForms)'
<1> DEFINE ignored == ~inMultiline /\ trim(line) = <<>>
<1>t. PICK text : text = IF inMultiline THEN buffer \o nl \o line ELSE line
  OBVIOUS
<1>0. "nl" \in Chars /\ TypedOK(Chars)
  BY DEF Session, IInv
<1>1. /\ session = "open" /\ session' = "open" /\ source = Idle
      /\ line' = <<>> /\ typed' = typed \o line \o nl
      /\ UNCHANGED <<run, broken>>
  BY DEF Enter, Prompting, nl
<1>2. \/ ignored /\ UNCHANGED <<buffer, inMultiline, source>>
      \/ ~ignored /\ buffer' = text /\ inMultiline' = TRUE /\ UNCHANGED source
      \/ ~ignored /\ buffer' = <<>> /\ inMultiline' = FALSE /\ Evaluate(text)
  <2>1. CASE ignored
    BY <2>1 DEF Enter
  <2>2. CASE ~ignored
    <3> USE <1>t, <2>2 DEF nl
    <3>1. \/ buffer' = text /\ inMultiline' = TRUE /\ UNCHANGED source
          \/ buffer' = <<>> /\ inMultiline' = FALSE /\ Evaluate(text)
      BY DEF Enter
    <3> QED BY <2>2, <3>1
  <2> QED BY <2>1, <2>2
<1>3. text \in Seq(Chars) /\ typed' \in Seq(Chars)
  BY <1>0, <1>t, <1>1, Joining DEF TypedOK
<1>4. TypedOK(Chars)'
  <2>1. <<>> \in Seq(Chars)
    OBVIOUS
  <2> QED BY <1>0, <1>1, <1>2, <1>3, <2>1 DEF TypedOK
<1>5. ASSUME ~broken PROVE Accounted(Chars, Readers, AllForms)'
  <2>1. PICK pre \in Seq(Chars), fs \in Seq(AllForms) :
          ReadToEnd(pre, fs, Chars) /\ AtPrompt(pre, fs)
    BY <1>1, <1>5 DEF IInv, Accounted, AtWork, AtRaise, Idle
  <2>2. ~ignored => typed' = pre \o text \o nl
    <3>1. CASE inMultiline
      <4>1. typed' = (pre \o buffer \o nl) \o line \o nl
        BY <1>1, <2>1, <3>1 DEF AtPrompt
      <4>2. PICK b \in Seq(Chars), l \in Seq(Chars) : b = buffer /\ l = line
        BY <1>0 DEF TypedOK
      <4>3. nl \in Seq(Chars)
        BY <1>0, Joining
      <4>4. PICK front \in Seq(Chars), back \in Seq(Chars) : front = pre \o b /\ back = nl \o l
        BY <4>3, Regroup
      <4>5. (front \o nl) \o l = front \o back
        BY <4>3, <4>4, Regroup
      <4>6. (pre \o b) \o back = pre \o (b \o back)
        BY ConcatAssociative
      <4>7. (b \o nl) \o l = b \o (nl \o l)
        BY <4>3, ConcatAssociative
      <4> QED BY <1>t, <3>1, <4>1, <4>2, <4>4, <4>5, <4>6, <4>7
    <3>2. CASE ~inMultiline
      BY <1>1, <1>t, <2>1, <3>2 DEF AtPrompt
    <3> QED BY <3>1, <3>2
  <2> HIDE DEF ignored
  <2>3. CASE ignored
    <3>1. /\ trim(line) = <<>> /\ ~inMultiline
          /\ UNCHANGED <<buffer, inMultiline, source>>
      BY <1>2, <2>3 DEF ignored
    <3>2. Forms(line) = <<>> /\ Clean(line) /\ line \in Seq(Chars)
      BY <1>0, <3>1 DEF Session, ReaderLaws, BlankIsEmpty, TypedOK
    <3>3. ReadToEnd(pre \o line \o nl, fs \o Forms(line), Chars)
      BY <2>1, <3>2, ReadMore
    <3>4. fs \o Forms(line) = fs /\ pre \o line \o nl = typed'
      BY <1>1, <2>1, <3>1, <3>2, ConcatEmptySeq DEF AtPrompt
    <3>5. PICK all \in Seq(Chars) : all = typed'
      BY <1>3
    <3>6. AtPrompt(all, fs)'
      BY <1>1, <2>1, <3>1, <3>5 DEF AtPrompt, Idle
    <3>7. ReadToEnd(all, fs, Chars)
      BY <3>3, <3>4, <3>5
    <3> QED BY <2>1, <3>6, <3>7 DEF Accounted, ReadToEnd
  <2>4. CASE ~ignored /\ buffer' = text /\ inMultiline' = TRUE /\ UNCHANGED source
    <3>1. AtPrompt(pre, fs)'
      BY <1>1, <2>1, <2>2, <2>4 DEF AtPrompt, Idle
    <3> QED BY <2>1, <3>1 DEF Accounted, ReadToEnd
  <2>5. CASE ~ignored /\ inMultiline' = FALSE /\ Evaluate(text)
    <3>1. AtWork(pre, fs, text, Open(text), AllForms)'
      BY <1>1, <1>3, <2>1, <2>2, <2>5, EvaluateStarts DEF AtPrompt
    <3>2. Open(text) \in Readers
      BY <1>3, FormsType
    <3> QED BY <1>3, <2>1, <3>1, <3>2 DEF Accounted, ReadToEnd
  <2> QED BY <1>2, <2>3, <2>4, <2>5
<1> QED BY <1>1, <1>4, <1>5 DEF IInv

\* A command: what is typed and what is run part ways, and broken says so.
LEMMA MetaStep ==
    ASSUME NEW Chars, NEW Readers, NEW AllForms, Session(Chars, Readers, AllForms),
           IInv(Chars, Readers, AllForms), Meta
    PROVE  IInv(Chars, Readers, AllForms)'
<1>1. /\ line' = <<>> /\ typed' = typed \o line \o nl /\ broken' = TRUE
      /\ UNCHANGED <<buffer, inMultiline>>
  BY DEF Meta, nl
<1>2. typed' \in Seq(Chars)
  BY <1>1, Joining DEF Session, IInv, TypedOK
<1> QED BY <1>1, <1>2 DEF IInv, TypedOK

\* A form read and run, failed or not (evalSource): it moves from what the reader has yet
\* to read to what has been run.  When its result cannot be printed
\* the rest is left.
LEMMA RunFormStep ==
    ASSUME NEW Chars, NEW Readers, NEW AllForms, Session(Chars, Readers, AllForms),
           IInv(Chars, Readers, AllForms), NEW s \in Outcomes, RunForm(s)
    PROVE  IInv(Chars, Readers, AllForms)'
<1>t. PICK one : one = ReadOne(source.rd)
  OBVIOUS
<1>1. /\ source # Idle /\ one.kind = "form"
      /\ run' = Append(run, one.form)
      /\ \/ source' = GoOn(s, one.rd) /\ UNCHANGED session
         \/ source' = Idle /\ session' = "raised"
      /\ UNCHANGED <<line, buffer, inMultiline, typed, broken>>
  BY <1>t DEF RunForm, PrintAndBind
<1>2. ASSUME ~broken PROVE Accounted(Chars, Readers, AllForms)'
  <2>1. PICK pre \in Seq(Chars), fs \in Seq(AllForms), text \in Seq(Chars), rd \in Readers :
          ReadToEnd(pre, fs, Chars) /\ AtWork(pre, fs, text, rd, AllForms)
    BY <1>1, <1>2 DEF IInv, Accounted, AtPrompt, AtRaise
  <2>2. source.rd = rd /\ source.mode = "input"
    BY <2>1 DEF AtWork
  <2>3. \/ source' = [mode |-> "input", rd |-> one.rd] /\ UNCHANGED session
        \/ source' = Idle /\ session' = "raised"
    BY <1>1, <2>1, <2>2 DEF GoOn, AtWork
  <2>4. /\ one.form \in AllForms /\ one.rd \in Readers
        /\ ReadForms(rd).forms = <<one.form>> \o ReadForms(one.rd).forms
        /\ ReadForms(rd).error = ReadForms(one.rd).error
        /\ ReadForms(one.rd).forms \in Seq(AllForms)
    BY <1>1, <1>t, <2>2 DEF Session, ReaderLaws, ReadsOneByOne
  <2>5. run \in Seq(AllForms) /\ run' = run \o <<one.form>> /\ <<one.form>> \in Seq(AllForms)
    <3>1. run \in Seq(AllForms) /\ one.form \in AllForms
      BY <2>1, <2>4 DEF AtWork
    <3>2. run \o <<one.form>> = Append(run, one.form)
      BY ONLY <3>1, AppendIsConcat
    <3>3. run' = run \o <<one.form>>
      BY <1>1, <3>2
    <3>4. <<one.form>> \in Seq(AllForms)
      BY ONLY <3>1
    <3> QED BY <3>1, <3>3, <3>4
  <2>6. run' \o ReadForms(one.rd).forms = run \o ReadForms(rd).forms /\ run' \in Seq(AllForms)
    <3>1. PICK rest \in Seq(AllForms), new \in Seq(AllForms) :
            rest = ReadForms(one.rd).forms /\ new = <<one.form>>
      BY <2>4, <2>5
    <3>2. (run \o new) \o rest = run \o (new \o rest) /\ run \o new \in Seq(AllForms)
      BY ONLY rest \in Seq(AllForms), new \in Seq(AllForms), <2>5, Regroup
    <3> QED BY <2>4, <2>5, <3>1, <3>2
  <2>7. CASE source' = [mode |-> "input", rd |-> one.rd] /\ UNCHANGED session
    <3>1. AtWork(pre, fs, text, one.rd, AllForms)'
      BY <1>1, <2>1, <2>4, <2>6, <2>7 DEF AtWork
    <3> QED BY <2>1, <2>4, <3>1 DEF Accounted, ReadToEnd
  <2>8. CASE source' = Idle /\ session' = "raised"
    <3>1. run' \o ReadForms(one.rd).forms = fs \o Forms(text)
      BY <2>1, <2>6 DEF AtWork
    <3>2. AtRaise(pre, fs, text, AllForms)'
      BY <1>1, <2>1, <2>4, <2>6, <2>8, <3>1 DEF AtRaise, AtWork, Idle, Forms
    <3> QED BY <2>1, <3>2 DEF Accounted, ReadToEnd
  <2> QED BY <2>3, <2>7, <2>8
<1> QED BY <1>1, <1>2 DEF IInv, TypedOK

\* The end of a text or a read error (evalSource): at the end everything has been run.
LEMMA EndOfSourceStep ==
    ASSUME NEW Chars, NEW Readers, NEW AllForms, Session(Chars, Readers, AllForms),
           IInv(Chars, Readers, AllForms), EndOfSource
    PROVE  IInv(Chars, Readers, AllForms)'
<1> DEFINE one == ReadOne(source.rd)
<1>1. /\ source # Idle /\ one.kind # "form"
      /\ source' = Idle
      /\ broken' = (broken \/ one.kind = "error")
      /\ UNCHANGED <<line, buffer, inMultiline, session, typed, run>>
  BY DEF EndOfSource
<1>2. ASSUME ~broken' PROVE Accounted(Chars, Readers, AllForms)'
  <2>1. PICK pre \in Seq(Chars), fs \in Seq(AllForms), text \in Seq(Chars), rd \in Readers :
          ReadToEnd(pre, fs, Chars) /\ AtWork(pre, fs, text, rd, AllForms)
    BY <1>1, <1>2 DEF IInv, Accounted, AtPrompt, AtRaise
  <2>2. source.rd = rd
    BY <2>1 DEF AtWork
  <2>3. ReadForms(rd).forms = <<>> /\ ReadForms(rd).error = ""
    BY <1>1, <1>2, <2>2 DEF Session, ReaderLaws, ReadsOneByOne
  <2>4. Clean(text) /\ run = fs \o Forms(text)
    BY <2>1, <2>3, ConcatEmptySeq DEF AtWork
  <2>5. PICK all \in Seq(Chars), forms \in Seq(AllForms) : all = typed /\ forms = run
    BY <2>1 DEF AtWork, IInv, TypedOK
  <2>6. ReadToEnd(all, forms, Chars)
    BY <2>1, <2>4, <2>5, ReadMore DEF AtWork
  <2>7. AtPrompt(all, forms)'
    BY <1>1, <2>1, <2>5 DEF AtWork, AtPrompt, Idle
  <2> QED BY <2>6, <2>7 DEF Accounted, ReadToEnd
<1> QED BY <1>1, <1>2 DEF IInv, TypedOK

\* Form by form and line by line, the loop (runRepl, evalSource) runs what reading the
\* whole input at once gives, whatever scanBalance says of a line, whichever forms fail,
\* and however long the session; when printing a result raises and so ends the session,
\* what has been run is a beginning of it.
THEOREM RunsWhatWasTypedTheorem ==
    ASSUME NEW Chars, NEW Readers, NEW AllForms, Session(Chars, Readers, AllForms)
    PROVE  Spec => []RunsWhatWasTyped
<1>1. Init => IInv(Chars, Readers, AllForms)
  <2> SUFFICES ASSUME Init PROVE IInv(Chars, Readers, AllForms)
    OBVIOUS
  <2>0. <<>> \in Seq(Chars) /\ <<>> \in Seq(AllForms)
    OBVIOUS
  <2>1. TypedOK(Chars)
    BY <2>0 DEF Init, TypedOK
  <2>2. ReadToEnd(<<>>, <<>>, Chars) /\ AtPrompt(<<>>, <<>>)
    BY DEF Init, AtPrompt, ReadToEnd
  <2> QED BY <2>0, <2>1, <2>2 DEF IInv, Accounted
<1>2. IInv(Chars, Readers, AllForms) /\ [Next]_vars => IInv(Chars, Readers, AllForms)'
  <2> SUFFICES ASSUME IInv(Chars, Readers, AllForms), [Next]_vars
               PROVE  IInv(Chars, Readers, AllForms)'
    OBVIOUS
  <2>1. CASE (\E k \in Keys : Type(k)) \/ Paste \/ EndOfInput
    BY <2>1, LineStep
  <2>2. CASE Meta
    BY <2>2, MetaStep
  <2>3. CASE Enter
    BY <2>3, EnterStep
  <2>4. CASE \E outcome \in Outcomes : RunForm(outcome)
    BY <2>4, RunFormStep
  <2>5. CASE EndOfSource
    BY <2>5, EndOfSourceStep
  <2>6. CASE UNCHANGED vars
    BY <2>6 DEF vars, IInv, TypedOK, Accounted, AtPrompt, AtWork, AtRaise
  <2> QED BY <2>1, <2>2, <2>3, <2>4, <2>5, <2>6 DEF Next
<1>3. IInv(Chars, Readers, AllForms) => RunsWhatWasTyped
  <2> SUFFICES ASSUME IInv(Chars, Readers, AllForms), source = Idle, ~inMultiline, ~broken
               PROVE  IF session = "raised" THEN IsPrefix(run, Forms(typed)) ELSE run = Forms(typed)
    BY DEF RunsWhatWasTyped, Forms
  <2>1. PICK pre \in Seq(Chars), fs \in Seq(AllForms) :
          /\ ReadToEnd(pre, fs, Chars)
          /\ AtPrompt(pre, fs) \/ \E text \in Seq(Chars) : AtRaise(pre, fs, text, AllForms)
    BY DEF IInv, Accounted, AtWork, Idle
  <2>2. CASE AtPrompt(pre, fs)
    <3>1. fs = Forms(pre)
      BY <2>1, ReadAtOnce
    <3> QED BY <2>2, <3>1 DEF AtPrompt
  <2>3. ASSUME NEW text \in Seq(Chars), AtRaise(pre, fs, text, AllForms)
        PROVE  session = "raised" /\ IsPrefix(run, Forms(typed))
    <3>1. PICK rest \in Seq(AllForms) : run \o rest = fs \o Forms(text)
      BY <2>3 DEF AtRaise
    <3>2. IsPrefix(run \o rest, Forms(typed))
      BY <2>1, <2>3, <3>1, ReadInPart DEF AtRaise
    <3>3. run \in Seq(AllForms) /\ Forms(typed) \in Seq(AllForms)
      BY <2>3, FormsType DEF AtRaise, IInv, TypedOK
    <3> QED BY <2>3, <3>2, <3>3, PrefixOfPrefix DEF AtRaise
  <2> QED BY <2>1, <2>2, <2>3
<1> QED BY <1>1, <1>2, <1>3, PTL DEF Spec

=============================================================================
