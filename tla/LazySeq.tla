------------------------------- MODULE LazySeq -------------------------------
(***************************************************************************)
(* Realisation of lazy seqs shared by threads (realizeLazy and runThunk in *)
(* src/src/runtime/LazySeq.cpp).                                           *)
(*                                                                         *)
(* A step is one access to the lazy slot of a seq.  The thunk of a seq is  *)
(* Clojure code, or a native step that runs none ("pure"); either reads    *)
(* other seqs, and returns a seq or raises.  The slot itself and its       *)
(* compare-and-sets are protoCore's (claimLazy, unclaimLazy, publishLazy). *)
(***************************************************************************)
EXTENDS Naturals, Sequences, FiniteSets

CONSTANTS
    Threads,
    Seqs,
    Pure,           \* the seqs whose thunk is a native step without Clojure code
    Reads,          \* Reads[s]: the seqs the thunk of s reads
    Values,         \* the seqs a thunk may produce, distinct objects
    None,           \* no value
    Raised,         \* what a read answers when it raises
    MaxDepth        \* nested reads a native stack has room for

ASSUME LazyAssumption ==
    /\ Pure \subseteq Seqs
    /\ Reads \in [Seqs -> SUBSET Seqs]
    /\ {None, Raised} \cap Values = {} /\ None # Raised
    /\ MaxDepth \in Nat \ {0}

VARIABLES
    slot,       \* slot[s]: "unrealized", "claimed" or "realized"
    published,  \* published[s]: the value of a realized slot
    frames,     \* frames[t]: the calls of realizeLazy t is in, innermost last
    realizing,  \* realizing[t]: tl_realizing
    \* History, read by no action:
    ran         \* ran[s]: how often the thunk of s has returned

vars == <<slot, published, frames, realizing, ran>>

\* A call of realizeLazy: `value' is s.get(1), then the answer; `hurt' is set
\* when a read the thunk made has raised.
Frame(s) == [seq |-> s, pc |-> "look", value |-> None, hurt |-> FALSE]

Init ==
    /\ slot = [s \in Seqs |-> "unrealized"]
    /\ published = [s \in Seqs |-> None]
    /\ frames = [t \in Threads |-> <<>>]
    /\ realizing = [t \in Threads |-> <<>>]
    /\ ran = [s \in Seqs |-> 0]

Depth(t) == Len(frames[t])
Top(t) == frames[t][Depth(t)]
At(t, label) == frames[t] # <<>> /\ Top(t).pc = label
InTop(t, f) == frames' = [frames EXCEPT ![t][Depth(t)] = f]
Goto(t, label) == InTop(t, [Top(t) EXCEPT !.pc = label])
Answer(t, v) == InTop(t, [Top(t) EXCEPT !.pc = "return", !.value = v])
Pop(stack) == SubSeq(stack, 1, Len(stack) - 1)

-----------------------------------------------------------------------------

\* Clojure code of the thread itself reads a seq.
Read(t, s) ==
    /\ frames[t] = <<>>
    /\ frames' = [frames EXCEPT ![t] = <<Frame(s)>>]
    /\ UNCHANGED <<slot, published, realizing, ran>>

\* A running thunk reads a seq; checkNativeStack may refuse the call.
ThunkReads(t, s) ==
    /\ At(t, "run")
    /\ ~(Top(t).hurt /\ Top(t).seq \in Pure)
    /\ s \in Reads[Top(t).seq]
    /\ IF Depth(t) < MaxDepth
         THEN frames' = [frames EXCEPT ![t] = Append(@, Frame(s))]
         ELSE InTop(t, [Top(t) EXCEPT !.hurt = TRUE])
    /\ UNCHANGED <<slot, published, realizing, ran>>

\* A seq claimed by the same thread is not recognised.
Mutant_LookWaits(t) ==
    /\ At(t, "look")
    /\ LET s == Top(t).seq IN
         \/ slot[s] = "realized" /\ Answer(t, published[s])
         \/ slot[s] = "unrealized" /\ Goto(t, "produce")
    /\ UNCHANGED <<slot, published, realizing, ran>>

\* getLazyState: a seq this thread is computing raises; one that another
\* thread is computing is waited for (waitABit), without a step.
Look(t) ==
    /\ At(t, "look")
    /\ LET s == Top(t).seq IN
         \/ slot[s] = "realized" /\ Answer(t, published[s])
         \/ /\ slot[s] = "claimed"
            /\ \E i \in DOMAIN realizing[t] : realizing[t][i] = s
            /\ Answer(t, Raised)
         \/ slot[s] = "unrealized" /\ Goto(t, "produce")
    /\ UNCHANGED <<slot, published, realizing, ran>>

\* getLazyProducer and thunkIsPure; a seq published meanwhile has no producer.
Produce(t) ==
    /\ At(t, "produce")
    /\ Goto(t, IF slot[Top(t).seq] = "realized" THEN "look"
               ELSE IF Top(t).seq \in Pure THEN "run" ELSE "claim")
    /\ UNCHANGED <<slot, published, realizing, ran>>

\* The thunk is run without a claim.
Mutant_ClaimBlind(t) ==
    /\ At(t, "claim")
    /\ slot' = [slot EXCEPT ![Top(t).seq] =
                  IF @ = "unrealized" THEN "claimed" ELSE @]
    /\ realizing' = [realizing EXCEPT ![t] = Append(@, Top(t).seq)]
    /\ Goto(t, "run")
    /\ UNCHANGED <<published, ran>>

\* claimLazy, one compare-and-set.
Claim(t) ==
    /\ At(t, "claim")
    /\ \/ /\ slot[Top(t).seq] = "unrealized"
          /\ slot' = [slot EXCEPT ![Top(t).seq] = "claimed"]
          /\ realizing' = [realizing EXCEPT ![t] = Append(@, Top(t).seq)]
          /\ Goto(t, "run")
       \/ /\ slot[Top(t).seq] # "unrealized"
          /\ Goto(t, "look")
          /\ UNCHANGED <<slot, realizing>>
    /\ UNCHANGED <<published, ran>>

\* The thunk returned; a native step does not survive an error of its reads.
ThunkReturns(t, v) ==
    /\ At(t, "run")
    /\ ~(Top(t).hurt /\ Top(t).seq \in Pure)
    /\ InTop(t, [Top(t) EXCEPT !.pc = "publish", !.value = v])
    /\ realizing' = [realizing EXCEPT ![t] = IF Top(t).seq \in Pure THEN @ ELSE Pop(@)]
    /\ ran' = [ran EXCEPT ![Top(t).seq] = IF @ < 2 THEN @ + 1 ELSE @]
    /\ UNCHANGED <<slot, published>>

\* The thunk raised.
ThunkRaises(t) ==
    /\ At(t, "run")
    /\ IF Top(t).seq \in Pure
         THEN Answer(t, Raised) /\ UNCHANGED realizing
         ELSE /\ Goto(t, "unclaim")
              /\ realizing' = [realizing EXCEPT ![t] = Pop(@)]
    /\ UNCHANGED <<slot, published, ran>>

\* unclaimLazy: the seq is unrealised again and the error goes on.
Unclaim(t) ==
    /\ At(t, "unclaim")
    /\ slot' = [slot EXCEPT ![Top(t).seq] = "unrealized"]
    /\ Answer(t, Raised)
    /\ UNCHANGED <<published, realizing, ran>>

\* A publication that does not compare.
Mutant_PublishAgain(t) ==
    /\ At(t, "publish")
    /\ slot' = [slot EXCEPT ![Top(t).seq] = "realized"]
    /\ published' = [published EXCEPT ![Top(t).seq] = Top(t).value]
    /\ Answer(t, Top(t).value)
    /\ UNCHANGED <<realizing, ran>>

\* publishLazy: the first one wins; a pure loser looks again, a claimed one
\* answers what was published.
Publish(t) ==
    /\ At(t, "publish")
    /\ LET s == Top(t).seq IN
         \/ /\ slot[s] # "realized"
            /\ slot' = [slot EXCEPT ![s] = "realized"]
            /\ published' = [published EXCEPT ![s] = Top(t).value]
            /\ Answer(t, Top(t).value)
         \/ /\ slot[s] = "realized"
            /\ IF s \in Pure THEN Goto(t, "look") ELSE Answer(t, published[s])
            /\ UNCHANGED <<slot, published>>
    /\ UNCHANGED <<realizing, ran>>

\* The read answers, or raises in the thunk that made it.
Return(t) ==
    /\ At(t, "return")
    /\ frames' = [frames EXCEPT ![t] =
         IF Depth(t) > 1 /\ Top(t).value = Raised
           THEN [Pop(@) EXCEPT ![Depth(t) - 1].hurt = TRUE]
           ELSE Pop(@)]
    /\ UNCHANGED <<slot, published, realizing, ran>>

-----------------------------------------------------------------------------

Step(t) ==
    \/ Look(t) \/ Produce(t) \/ Claim(t) \/ Unclaim(t) \/ Publish(t) \/ Return(t)

ThunkEnds(t) ==
    \/ \E v \in Values : ThunkReturns(t, v)
    \/ ThunkRaises(t)

Next ==
    \E t \in Threads :
        \/ \E s \in Seqs : Read(t, s) \/ ThunkReads(t, s)
        \/ Step(t)
        \/ ThunkEnds(t)

Spec == Init /\ [][Next]_vars

\* Threads are scheduled, and a thunk whose reads all end comes to its end,
\* however many seqs it reads.
FairSpec ==
    /\ Spec
    /\ \A t \in Threads :
         /\ WF_vars(Step(t))
         /\ \A d \in 1..MaxDepth : SF_vars(Depth(t) = d /\ ThunkEnds(t))

-----------------------------------------------------------------------------
(* Properties. *)

Runs(t, s) ==
    \E i \in DOMAIN frames[t] :
        frames[t][i].seq = s /\ frames[t][i].pc \in {"run", "publish"}

\* A thunk of Clojure code is run by one thread at a time and returns at most
\* once, whatever the number of readers and of times it raised before.
ThunkRunsOnce ==
    \A s \in Seqs \ Pure :
        /\ ran[s] <= 1
        /\ \A t, u \in Threads : Runs(t, s) /\ Runs(u, s) => t = u
        /\ slot[s] = "realized" => \A t \in Threads : ~Runs(t, s)

\* Every reader that is answered a seq is answered the same one, though two
\* threads may compute a native step at the same time (publishLazy).
OneValue ==
    \A t \in Threads, s \in Seqs :
        At(t, "return") /\ Top(t).seq = s /\ Top(t).value # Raised =>
            slot[s] = "realized" /\ Top(t).value = published[s]

\* Every read ends, with a seq or an error, unless thunks raise for ever: a
\* reader that waits for another thread's computation is not left waiting.
EveryReadEnds ==
    <>[][\A t \in Threads : ~Unclaim(t)]_vars =>
        \A t \in Threads : frames[t] # <<>> ~> frames[t] = <<>>

\* "a seq read while its own body computes it raises `StackOverflowError` at
\* once" (src/docs/STATUS.md:726): no read of a seq that depends on itself
\* waits for ever.
SelfReadRaises ==
    \A t \in Threads : At(t, "look") ~> ~At(t, "look")
=============================================================================
