-------------------------------- MODULE Repl --------------------------------
(***************************************************************************)
(* The read-eval-print loop (src/src/repl/Repl.cpp): lines are gathered    *)
(* until scanBalance takes them for complete, then read form by form, each *)
(* run before the next is read.  The reader and scanBalance are parameters *)
(* here; ReplText has them.                                                *)
(*                                                                         *)
(* What a form evaluates to is the number of its evaluation; it may fail   *)
(* instead, at compile time or at run time, or give a result that cannot   *)
(* be printed: a lazy seq whose elements raise as printing realises them.  *)
(***************************************************************************)
EXTENDS Integers, SequencesExt

CONSTANTS
    Open(_),        \* the reader at the start of a text,
    ReadOne(_),     \* the next form it reads, and itself afterwards,
    ReadForms(_),   \* all the forms it has yet to read, and the error that ends them
    Balance(_),     \* what scanBalance says of a text
    Keys,           \* what can be typed: sequences of characters
    MaxKeys,        \* bound on what is typed in a session
    Files,          \* Files[path]: the text :load finds there
    Pastes          \* longer lines, each entered alone

VARIABLES
    line,           \* the line being typed
    buffer, inMultiline,
    source,         \* evalSource: its reader and its mode, or Idle
    stars,          \* *1, *2, *3 (0 is nil)
    session,        \* "open", "left" by the user, or "raised": ended by an exception
    \* History, read by no action but for the bound on `typed':
    typed,          \* everything typed at the prompts of forms, as one text
    run,            \* the forms that have been run, in order
    pasted,         \* the line came at once, whatever its length
    broken          \* a read error has dropped input, or a command intervened

vars == <<line, buffer, inMultiline, source, stars, session, typed, run, pasted, broken>>

Idle == [mode |-> "idle", rd |-> Open(<<>>)]

Init ==
    /\ line = <<>> /\ buffer = <<>> /\ inMultiline = FALSE
    /\ source = Idle
    /\ stars = <<0, 0, 0>>
    /\ session = "open"
    /\ typed = <<>> /\ run = <<>> /\ pasted = FALSE /\ broken = FALSE

isspace == {" ", "nl"}

trim(s) ==
    LET kept == {i \in DOMAIN s : s[i] \notin isspace}
    IN  IF kept = {} THEN <<>> ELSE SubSeq(s, Min(kept), Max(kept))

(***************************************************************************)
(* The loop.                                                               *)
(***************************************************************************)
Prompting == session = "open" /\ source = Idle

\* The bound on a session.
Room == Len(typed) + Len(line) <= MaxKeys \/ pasted

\* A key: readLine gathers the line.
Type(k) ==
    /\ Prompting
    /\ Room /\ ~pasted
    /\ line' = line \o k
    /\ UNCHANGED <<buffer, inMultiline, source, stars, session, typed, run, pasted, broken>>

\* The same for a line that is there at once.
Paste ==
    /\ Prompting
    /\ line = <<>> /\ typed = <<>>
    /\ line' \in Pastes /\ pasted' = TRUE
    /\ UNCHANGED <<buffer, inMultiline, source, stars, session, typed, run, broken>>

Evaluate(text) == source' = [mode |-> "input", rd |-> Open(text)]

\* A line that starts with `:' at the primary prompt is a command: its name, and the
\* argument after the first space.
Command == ~inMultiline /\ trim(line) # <<>> /\ trim(line)[1] = ":"
CommandName ==
    SubSeq(trim(line), 1, Min({i \in DOMAIN trim(line) : trim(line)[i] = " "} \cup {Len(trim(line)) + 1}) - 1)
Argument    == trim(SubSeq(trim(line), Len(CommandName) + 1, Len(trim(line))))

Meta ==
    /\ Prompting /\ Command /\ Room
    /\ CASE CommandName = <<":", "quit">> -> session' = "left" /\ UNCHANGED source
         [] CommandName = <<":", "time">> /\ Argument # <<>> ->
              Evaluate(Argument) /\ UNCHANGED session
         [] CommandName = <<":", "load">> /\ Argument \in DOMAIN Files ->
              /\ source' = [mode |-> "load", rd |-> Open(Files[Argument])]
              /\ UNCHANGED session
         [] OTHER -> UNCHANGED <<source, session>>
    /\ line' = <<>>
    /\ typed' = typed \o line \o <<"nl">>
    /\ broken' = TRUE /\ pasted' = FALSE
    /\ UNCHANGED <<buffer, inMultiline, stars, run>>

\* Any other line: a blank one at the primary prompt is ignored, at the continuation
\* prompt it forces evaluation; otherwise scanBalance decides.
Enter ==
    LET blank == trim(line) = <<>>
        text  == IF inMultiline THEN buffer \o <<"nl">> \o line ELSE line
        more  == ~blank /\ Balance(text) = "Incomplete"
    IN  /\ Prompting /\ ~Command /\ Room
        /\ CASE ~inMultiline /\ blank -> UNCHANGED <<buffer, inMultiline, source>>
             [] more -> buffer' = text /\ inMultiline' = TRUE /\ UNCHANGED source
             [] OTHER -> buffer' = <<>> /\ inMultiline' = FALSE /\ Evaluate(text)
        /\ line' = <<>>
        /\ typed' = typed \o line \o <<"nl">>
        /\ pasted' = FALSE
        /\ UNCHANGED <<stars, session, run, broken>>

\* The end of the input ends the session.
EndOfInput ==
    /\ Prompting /\ line = <<>>
    /\ session' = "left"
    /\ UNCHANGED <<line, buffer, inMultiline, source, stars, typed, run, pasted, broken>>

(***************************************************************************)
(* evalSource reads a form and runs it.  After a failure the loop goes on  *)
(* with the next form, a :load stops.  A read error drops the rest.        *)
(* A :load prints no results; elsewhere the result is printed, then bound  *)
(* to *1.  Printing is outside evalSource's handlers and nobody above it   *)
(* has any: what it raises ends the session.                               *)
(***************************************************************************)
Outcomes == {"ok", "fails", "unprintable"}

bindStars(fresh) == stars' = <<fresh, stars[1], stars[2]>>

\* A failed form ends the input, as it ends a :load.
Mutant_StopAtFailure(outcome, rd) == IF outcome = "fails" THEN Idle ELSE [source EXCEPT !.rd = rd]

GoOn(outcome, rd) ==
    IF outcome = "fails" /\ source.mode = "load" THEN Idle ELSE [source EXCEPT !.rd = rd]

\* printAndBind, of the result of a form that has been run.
PrintAndBind(outcome, rd) ==
    IF outcome = "unprintable"
      THEN session' = "raised" /\ source' = Idle /\ UNCHANGED stars
      ELSE source' = GoOn(outcome, rd) /\ bindStars(Len(run')) /\ UNCHANGED session

RunForm(outcome) ==
    LET r == ReadOne(source.rd)
    IN  /\ source # Idle /\ r.kind = "form"
        /\ run' = Append(run, r.form)
        /\ IF outcome # "fails" /\ source.mode = "input"
             THEN PrintAndBind(outcome, r.rd)
             ELSE source' = GoOn(outcome, r.rd) /\ UNCHANGED <<stars, session>>
        /\ UNCHANGED <<line, buffer, inMultiline, typed, pasted, broken>>

EndOfSource ==
    LET r == ReadOne(source.rd)
    IN  /\ source # Idle /\ r.kind # "form"
        /\ source' = Idle
        /\ broken' = (broken \/ r.kind = "error")
        /\ UNCHANGED <<line, buffer, inMultiline, stars, session, typed, run, pasted>>

Next ==
    \/ \E k \in Keys : Type(k)
    \/ Paste
    \/ Meta
    \/ Enter
    \/ EndOfInput
    \/ \E outcome \in Outcomes : RunForm(outcome)
    \/ EndOfSource

Spec ==
    /\ Init /\ [][Next]_vars
    /\ WF_vars(\E outcome \in Outcomes : RunForm(outcome)) /\ WF_vars(EndOfSource)

(***************************************************************************)
(* Properties.                                                             *)
(***************************************************************************)
\* Form by form and line by line, the loop runs what reading the whole input at once
\* gives: gathering lines, splitting at complete ones and going on after failed forms
\* (Repl.cpp:326, :544) lose, repeat and reorder nothing.  A result whose printing raises
\* (Repl.cpp:381) ends the session: what has been run by then is a beginning of it.
RunsWhatWasTyped ==
    (source = Idle /\ ~inMultiline /\ ~broken) =>
        LET forms == ReadForms(Open(typed)).forms
        IN  IF session = "raised" THEN IsPrefix(run, forms) ELSE run = forms

(***************************************************************************)
(* What a comment says and the code does not do.                           *)
(***************************************************************************)
\* "A compile or runtime error is printed and the REPL goes on with the next form of the
\* input, as Clojure's REPL does" (Repl.cpp:312-314).  Not so for a runtime error raised
\* while the result is printed: onResult is called outside the try.
RunsAllTyped ==
    (source = Idle /\ ~inMultiline /\ ~broken) => run = ReadForms(Open(typed)).forms

(***************************************************************************)
(* What the loop relies on in the reader, for readers and texts in given   *)
(* sets: reading all is reading one form after another; a line break       *)
(* separates what was read to its end from what follows; one at the end of *)
(* a text takes away none of its forms; a blank line has no forms.         *)
(***************************************************************************)
Forms(text) == ReadForms(Open(text)).forms
Clean(text) == ReadForms(Open(text)).error = ""

ReadsOneByOne(Readers, AllForms) ==
    \A rd \in Readers :
        LET all == ReadForms(rd)
            one == ReadOne(rd)
        IN  /\ all.forms \in Seq(AllForms)
            /\ one.kind = "form" =>
                 /\ one.form \in AllForms /\ one.rd \in Readers
                 /\ all.forms = <<one.form>> \o ReadForms(one.rd).forms
                 /\ all.error = ReadForms(one.rd).error
            /\ one.kind # "form" => all.forms = <<>> /\ (all.error = "" <=> one.kind # "error")

LinesSeparate(Texts) ==
    \A a, b \in Texts : Clean(a) =>
        /\ Forms(a \o <<"nl">> \o b) = Forms(a) \o Forms(b)
        /\ Clean(a \o <<"nl">> \o b) <=> Clean(b)

LinesKeep(Texts) == \A a \in Texts : IsPrefix(Forms(a), Forms(a \o <<"nl">>))

BlankIsEmpty(Texts) == \A a \in Texts : trim(a) = <<>> => Forms(a) = <<>> /\ Clean(a)

ReaderLaws(Texts, Readers, AllForms) ==
    /\ \A text \in Texts : Open(text) \in Readers
    /\ ReadsOneByOne(Readers, AllForms)
    /\ LinesSeparate(Texts)
    /\ LinesKeep(Texts)
    /\ BlankIsEmpty(Texts)

=============================================================================
