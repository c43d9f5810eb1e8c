--------------------------- MODULE LazySeq_proofs ---------------------------
(***************************************************************************)
(* Proofs about LazySeq, for any threads, any graph of seqs that read each *)
(* other and any depth of the native stack.                                *)
(***************************************************************************)
EXTENDS LazySeq, SequenceTheorems, WellFoundedInduction, TLAPS

Pcs == {"look", "produce", "claim", "run", "publish", "unclaim", "return"}

Frames == [seq : Seqs, pc : Pcs, value : Values \cup {None, Raised}, hurt : BOOLEAN]

TypeOK ==
    /\ slot \in [Seqs -> {"unrealized", "claimed", "realized"}]
    /\ published \in [Seqs -> Values \cup {None}]
    /\ frames \in [Threads -> Seq(Frames)]
    /\ realizing \in [Threads -> Seq(Seqs)]
    /\ ran \in [Seqs -> 0..2]

\* The i-th call of thread t has claimed s and not yet given it back.
Holds(t, i, s) ==
    /\ frames[t][i].seq = s
    /\ frames[t][i].pc \in {"run", "publish", "unclaim"}

\* A call that has made another call waits in its thunk.
CallersRun ==
    \A t \in Threads : \A i \in 1..Len(frames[t]) :
        i < Len(frames[t]) => frames[t][i].pc = "run"

\* Only thunks of Clojure code are claimed.
ClaimersImpure ==
    \A t \in Threads : \A i \in 1..Len(frames[t]) :
        frames[t][i].pc \in {"claim", "unclaim"} => frames[t][i].seq \notin Pure

\* While one call computes a seq of Clojure code the slot is claimed, and no
\* other call, of any thread, computes it.
OneHolder ==
    \A s \in Seqs \ Pure, t, u \in Threads :
        \A i \in 1..Len(frames[t]), j \in 1..Len(frames[u]) :
            /\ Holds(t, i, s) => slot[s] = "claimed"
            /\ Holds(t, i, s) /\ Holds(u, j, s) => t = u /\ i = j

\* The thunk has not returned before the holder is about to publish.
RanCounts ==
    \A s \in Seqs \ Pure :
        /\ ran[s] <= 1
        /\ slot[s] = "unrealized" => ran[s] = 0
        /\ \A t \in Threads : \A i \in 1..Len(frames[t]) :
             Holds(t, i, s) /\ frames[t][i].pc # "publish" => ran[s] = 0

\* A result to be published is a seq, and an answer is the published one.
FrameRight(f, slots, values) ==
    /\ f.pc = "publish" => f.value \in Values
    /\ f.pc = "return" /\ f.value # Raised =>
         slots[f.seq] = "realized" /\ f.value = values[f.seq]

ValuesRight ==
    \A t \in Threads : \A i \in 1..Len(frames[t]) :
        FrameRight(frames[t][i], slot, published)

IInv ==
    /\ TypeOK
    /\ CallersRun
    /\ ClaimersImpure
    /\ OneHolder
    /\ RanCounts
    /\ ValuesRight

-----------------------------------------------------------------------------
(* What the actions do to a stack of calls. *)

\* Popping a stack.
LEMMA PopFacts ==
    ASSUME NEW S, NEW s \in Seq(S)
    PROVE  /\ Pop(s) \in Seq(S)
           /\ s # <<>> => /\ Len(s) \in Nat \ {0}
                          /\ Len(Pop(s)) = Len(s) - 1
                          /\ \A i \in 1..(Len(s) - 1) : Pop(s)[i] = s[i]
<1>1. Len(s) \in Nat /\ 1 \in Int /\ Len(s) - 1 \in Int
  OBVIOUS
<1>2. \A i \in 1..(Len(s) - 1) : s[i] \in S
  BY <1>1
<1>3. /\ Pop(s) \in Seq(S)
      /\ Len(Pop(s)) = IF 1 <= Len(s) - 1 THEN Len(s) - 1 - 1 + 1 ELSE 0
      /\ \A i \in 1..(Len(s) - 1 - 1 + 1) : Pop(s)[i] = s[1 + i - 1]
  BY <1>1, <1>2, SubSeqProperties DEF Pop
<1>4. s # <<>> => Len(s) \in Nat \ {0}
  BY EmptySeq
<1>5. \A i \in 1..(Len(s) - 1) : Pop(s)[i] = s[i]
  BY <1>1, <1>3
<1>6. s # <<>> => Len(Pop(s)) = Len(s) - 1
  <2>1. CASE 1 <= Len(s) - 1
    <3>1. Len(Pop(s)) = Len(s) - 1 - 1 + 1
      BY <1>3, <2>1
    <3> QED
      BY <1>1, <3>1
  <2>2. CASE ~(1 <= Len(s) - 1)
    <3>1. Len(Pop(s)) = 0
      BY <1>3, <2>2
    <3>2. s # <<>> => Len(s) = 1
      BY <1>1, <1>4, <2>2
    <3> QED
      BY <3>1, <3>2
  <2> QED
    BY <2>1, <2>2
<1> QED
  BY <1>3, <1>4, <1>5, <1>6

\* The innermost call of a thread.
LEMMA TopFacts ==
    ASSUME TypeOK, NEW t \in Threads, frames[t] # <<>>
    PROVE  /\ Depth(t) = Len(frames[t])
           /\ Depth(t) \in Nat \ {0}
           /\ Depth(t) \in 1..Len(frames[t])
           /\ Top(t) = frames[t][Depth(t)]
           /\ Top(t) \in Frames
           /\ Top(t).seq \in Seqs
<1>1. frames[t] \in Seq(Frames) /\ Len(frames[t]) \in Nat \ {0}
  BY DEF TypeOK
<1>2. Top(t) \in Frames
  BY <1>1 DEF Top, Depth
<1> QED
  BY <1>1, <1>2 DEF Top, Depth, Frames

\* A call goes on to another label.
LEMMA GotoFrame ==
    ASSUME NEW f \in Frames, NEW label \in Pcs
    PROVE  LET g == [f EXCEPT !.pc = label]
           IN  g \in Frames /\ g.seq = f.seq /\ g.pc = label /\ g.value = f.value
  BY DEF Frames, Pcs

\* A call is about to return a value.
LEMMA AnswerFrame ==
    ASSUME NEW f \in Frames, NEW v \in Values \cup {None, Raised}
    PROVE  LET g == [f EXCEPT !.pc = "return", !.value = v]
           IN  g \in Frames /\ g.seq = f.seq /\ g.pc = "return" /\ g.value = v
  BY DEF Frames, Pcs

\* The innermost call of a thread is replaced.
LEMMA InTopEffect ==
    ASSUME TypeOK, NEW t \in Threads, frames[t] # <<>>, NEW f \in Frames, InTop(t, f)
    PROVE  /\ Depth(t) \in Nat \ {0}
           /\ Top(t) \in Frames
           /\ frames' \in [Threads -> Seq(Frames)]
           /\ \A u \in Threads : Len(frames'[u]) = Len(frames[u])
           /\ \A u \in Threads : \A i \in 1..Len(frames[u]) :
                frames'[u][i] = IF u = t /\ i = Depth(t) THEN f ELSE frames[u][i]
<1>1. frames[t] \in Seq(Frames) /\ Len(frames[t]) \in Nat \ {0}
  BY DEF TypeOK
<1>2. Len(frames[t]) \in 1..Len(frames[t]) /\ Top(t) \in Frames
  BY <1>1 DEF Top, Depth
<1>3. [frames[t] EXCEPT ![Depth(t)] = f] \in Seq(Frames)
  BY <1>1, <1>2 DEF Depth
<1>4. frames' = [frames EXCEPT ![t] = [frames[t] EXCEPT ![Depth(t)] = f]]
  BY DEF InTop
<1>5. \A u \in Threads : frames'[u] = IF u = t THEN [frames[t] EXCEPT ![Depth(t)] = f]
                                                ELSE frames[u]
  BY <1>4 DEF TypeOK
<1>6. frames' \in [Threads -> Seq(Frames)]
  BY <1>3, <1>4 DEF TypeOK
<1> QED
  BY <1>1, <1>2, <1>3, <1>5, <1>6 DEF Depth, TypeOK

\* A call is made.
LEMMA PushEffect ==
    ASSUME TypeOK, NEW t \in Threads, NEW s \in Seqs,
           frames' = [frames EXCEPT ![t] = Append(@, Frame(s))]
    PROVE  /\ Frame(s) \in Frames
           /\ frames' \in [Threads -> Seq(Frames)]
           /\ Depth(t) \in Nat
           /\ Len(frames'[t]) = Depth(t) + 1
           /\ \A u \in Threads \ {t} : Len(frames'[u]) = Len(frames[u])
           /\ \A u \in Threads : \A i \in 1..Len(frames[u]) : frames'[u][i] = frames[u][i]
           /\ frames'[t][Depth(t) + 1] = Frame(s)
<1>1. Frame(s) \in Frames
  BY DEF Frame, Frames, Pcs
<1>2. frames[t] \in Seq(Frames) /\ Len(frames[t]) \in Nat
  BY DEF TypeOK
<1>3. \A u \in Threads : frames'[u] = IF u = t THEN Append(frames[t], Frame(s)) ELSE frames[u]
  BY DEF TypeOK
<1>4. frames' \in [Threads -> Seq(Frames)]
  BY <1>1, <1>2 DEF TypeOK
<1> QED
  BY <1>1, <1>2, <1>3, <1>4 DEF Depth, TypeOK

\* A call returns; the caller learns only whether it raised.
LEMMA ReturnEffect ==
    ASSUME TypeOK, NEW t \in Threads, Return(t)
    PROVE  /\ frames' \in [Threads -> Seq(Frames)]
           /\ Depth(t) \in Nat \ {0}
           /\ Len(frames'[t]) = Depth(t) - 1
           /\ \A u \in Threads \ {t} : Len(frames'[u]) = Len(frames[u])
           /\ \A u \in Threads : \A i \in 1..Len(frames'[u]) :
                /\ i \in 1..Len(frames[u])
                /\ frames'[u][i].seq = frames[u][i].seq
                /\ frames'[u][i].pc = frames[u][i].pc
                /\ frames'[u][i].value = frames[u][i].value
<1> DEFINE q == Pop(frames[t])
<1>1. /\ frames[t] \in Seq(Frames) /\ frames[t] # <<>>
      /\ Len(frames[t]) \in Nat \ {0}
      /\ q \in Seq(Frames) /\ Len(q) = Depth(t) - 1
      /\ \A i \in 1..(Depth(t) - 1) : q[i] = frames[t][i]
  BY PopFacts DEF TypeOK, Return, At, Depth
<1> HIDE DEF q
<1>2. PICK r \in Seq(Frames) :
        /\ frames' = [frames EXCEPT ![t] = r]
        /\ Len(r) = Depth(t) - 1
        /\ \A i \in 1..(Depth(t) - 1) :
             /\ r[i].seq = frames[t][i].seq
             /\ r[i].pc = frames[t][i].pc
             /\ r[i].value = frames[t][i].value
  <2>1. CASE Depth(t) > 1 /\ Top(t).value = Raised
    <3> DEFINE d == Depth(t) - 1
               h == [q[d] EXCEPT !.hurt = TRUE]
               r == [q EXCEPT ![d] = h]
    <3>1. d \in 1..Len(q) /\ q[d] \in Frames
      BY <1>1, <2>1 DEF Depth
    <3>2. /\ h \in Frames /\ h.seq = q[d].seq /\ h.pc = q[d].pc /\ h.value = q[d].value
      BY <3>1 DEF Frames
    <3> HIDE DEF h
    <3>3. /\ r \in Seq(Frames) /\ Len(r) = Len(q)
          /\ \A i \in 1..Len(q) : r[i] = IF i = d THEN h ELSE q[i]
      BY <1>1, <3>1, <3>2, ExceptSeq
    <3>4. frames' = [frames EXCEPT ![t] = r]
      BY <2>1 DEF Return, q, h
    <3> HIDE DEF r
    <3>5. \A i \in 1..(Depth(t) - 1) :
             /\ r[i].seq = frames[t][i].seq
             /\ r[i].pc = frames[t][i].pc
             /\ r[i].value = frames[t][i].value
      BY <1>1, <3>2, <3>3
    <3>6. r \in Seq(Frames) /\ Len(r) = Depth(t) - 1
      BY <1>1, <3>3
    <3> QED
      BY <3>4, <3>5, <3>6, Zenon
  <2>2. CASE ~(Depth(t) > 1 /\ Top(t).value = Raised)
    <3>1. frames' = [frames EXCEPT ![t] = q]
      BY <2>2 DEF Return, q
    <3> QED
      BY <1>1, <3>1
  <2> QED
    BY <2>1, <2>2
<1>3. \A u \in Threads : frames'[u] = IF u = t THEN r ELSE frames[u]
  BY <1>2 DEF TypeOK
<1>4. frames' \in [Threads -> Seq(Frames)]
  BY <1>2 DEF TypeOK
<1>5. Len(frames'[t]) = Depth(t) - 1
  BY <1>2, <1>3
<1>6. ASSUME NEW u \in Threads, NEW i \in 1..Len(frames'[u])
      PROVE  /\ i \in 1..Len(frames[u])
             /\ frames'[u][i].seq = frames[u][i].seq
             /\ frames'[u][i].pc = frames[u][i].pc
             /\ frames'[u][i].value = frames[u][i].value
  <2>1. CASE u = t
    BY <1>1, <1>2, <1>3, <1>5, <1>6, <2>1 DEF Depth
  <2>2. CASE u # t
    BY <1>3, <1>6, <2>2
  <2> QED
    BY <2>1, <2>2
<1> QED
  BY <1>1, <1>3, <1>4, <1>5, <1>6 DEF Depth

-----------------------------------------------------------------------------
(* The invariant. *)

\* At the start no seq is realised and nobody reads.
LEMMA InvInit == Init => IInv
<1> SUFFICES ASSUME Init PROVE IInv
  OBVIOUS
<1>1. \A t \in Threads : frames[t] = <<>> /\ 1..Len(frames[t]) = {}
  BY DEF Init
<1>2. TypeOK
  BY DEF Init, TypeOK
<1>3. CallersRun /\ ClaimersImpure /\ ValuesRight
  BY <1>1 DEF CallersRun, ClaimersImpure, ValuesRight, FrameRight
<1>4. OneHolder /\ RanCounts
  BY <1>1 DEF Init, OneHolder, RanCounts
<1> QED
  BY <1>2, <1>3, <1>4 DEF IInv

\* The innermost call goes on, with the slots as they are: the invariant is kept
\* when the call neither becomes nor ceases to be a holder of Clojure code.
LEMMA MoveKeepsInv ==
    ASSUME IInv, NEW t \in Threads, frames[t] # <<>>, NEW f \in Frames, InTop(t, f),
           f.seq = Top(t).seq,
           f.pc \in {"claim", "unclaim"} => f.seq \notin Pure,
           f.pc = "publish" => f.value \in Values,
           f.pc = "return" /\ f.value # Raised =>
             slot[f.seq] = "realized" /\ f.value = published[f.seq],
           f.seq \notin Pure /\ f.pc \in {"run", "publish", "unclaim"} =>
             Top(t).pc \in {"run", "publish", "unclaim"} /\ ran[f.seq] = 0,
           UNCHANGED <<slot, published, ran>>, realizing' \in [Threads -> Seq(Seqs)]
    PROVE  IInv'
<1>1. /\ Depth(t) \in Nat \ {0}
      /\ Top(t) \in Frames
      /\ Depth(t) \in 1..Len(frames[t])
      /\ Top(t) = frames[t][Depth(t)]
      /\ frames' \in [Threads -> Seq(Frames)]
      /\ \A u \in Threads : Len(frames'[u]) = Len(frames[u])
      /\ \A u \in Threads : \A i \in 1..Len(frames[u]) :
           frames'[u][i] = IF u = t /\ i = Depth(t) THEN f ELSE frames[u][i]
  BY InTopEffect DEF IInv, Depth, Top
<1>2. TypeOK'
  BY <1>1 DEF IInv, TypeOK
<1>3. CallersRun'
  BY <1>1 DEF IInv, CallersRun, Depth
<1>4. ClaimersImpure'
  BY <1>1 DEF IInv, ClaimersImpure
<1>5. OneHolder'
  <2>1. ASSUME NEW s \in Seqs \ Pure, NEW u \in Threads, NEW i \in 1..Len(frames'[u]),
               Holds(u, i, s)'
        PROVE  i \in 1..Len(frames[u]) /\ Holds(u, i, s)
    BY <1>1, <2>1 DEF Holds
  <2> QED
    BY <1>1, <2>1 DEF IInv, OneHolder
<1>6. RanCounts'
  <2> SUFFICES ASSUME NEW s \in Seqs \ Pure, NEW u \in Threads, NEW i \in 1..Len(frames'[u]),
                      Holds(u, i, s)', frames'[u][i].pc # "publish"
               PROVE  ran[s] = 0
    BY DEF IInv, RanCounts
  <2>1. i \in 1..Len(frames[u])
    BY <1>1
  <2>2. CASE u = t /\ i = Depth(t)
    <3>1. frames'[u][i] = f
      BY <1>1, <2>1, <2>2
    <3> QED
      BY <3>1 DEF Holds
  <2>3. CASE ~(u = t /\ i = Depth(t))
    <3>1. frames'[u][i] = frames[u][i]
      BY <1>1, <2>1, <2>3
    <3> QED
      BY <2>1, <3>1 DEF IInv, RanCounts, Holds
  <2> QED
    BY <2>2, <2>3
<1>7. FrameRight(f, slot, published)
  BY DEF FrameRight
<1>8. ValuesRight'
  BY <1>1, <1>7 DEF IInv, ValuesRight
<1> QED
  BY <1>2, <1>3, <1>4, <1>5, <1>6, <1>8 DEF IInv

\* realizeLazy is called, from outside or from a thunk.
LEMMA CallKeepsInv ==
    ASSUME IInv, NEW t \in Threads, NEW s \in Seqs,
           frames[t] = <<>> \/ At(t, "run"),
           frames' = [frames EXCEPT ![t] = Append(@, Frame(s))],
           UNCHANGED <<slot, published, realizing, ran>>
    PROVE  IInv'
<1>1. /\ Frame(s) \in Frames
      /\ frames' \in [Threads -> Seq(Frames)]
      /\ Depth(t) \in Nat
      /\ Len(frames'[t]) = Depth(t) + 1
      /\ \A u \in Threads \ {t} : Len(frames'[u]) = Len(frames[u])
      /\ \A u \in Threads : \A i \in 1..Len(frames[u]) : frames'[u][i] = frames[u][i]
      /\ frames'[t][Depth(t) + 1] = Frame(s)
  BY PushEffect DEF IInv
<1>2. /\ Frame(s).seq = s /\ Frame(s).pc = "look"
      /\ frames[t] # <<>> => frames[t][Len(frames[t])].pc = "run"
      /\ frames[t] = <<>> => Len(frames[t]) = 0
  BY DEF Frame, At, Top, Depth
<1>3. ASSUME NEW u \in Threads, NEW i \in 1..Len(frames'[u])
      PROVE  \/ i \in 1..Len(frames[u]) /\ frames'[u][i] = frames[u][i]
             \/ u = t /\ i = Len(frames'[t]) /\ frames'[u][i] = Frame(s)
  BY <1>1, <1>3 DEF Depth
<1>4. TypeOK'
  BY <1>1 DEF IInv, TypeOK
<1>5. CallersRun'
  BY <1>1, <1>2, <1>3 DEF IInv, CallersRun, Depth
<1>6. ClaimersImpure'
  BY <1>2, <1>3 DEF IInv, ClaimersImpure
<1>7. ASSUME NEW r \in Seqs, NEW u \in Threads, NEW i \in 1..Len(frames'[u]),
             Holds(u, i, r)'
      PROVE  i \in 1..Len(frames[u]) /\ Holds(u, i, r) /\ frames'[u][i] = frames[u][i]
  BY <1>2, <1>3, <1>7 DEF Holds
<1>8. OneHolder'
  BY <1>7 DEF IInv, OneHolder
<1>9. RanCounts'
  BY <1>7 DEF IInv, RanCounts
<1>10. FrameRight(Frame(s), slot, published)
  BY <1>2 DEF FrameRight
<1>11. ValuesRight'
  BY <1>3, <1>10 DEF IInv, ValuesRight
<1> QED
  BY <1>4, <1>5, <1>6, <1>8, <1>9, <1>11 DEF IInv

\* It returns, and an error goes on to the call that made it.
LEMMA ReturnKeepsInv ==
    ASSUME IInv, NEW t \in Threads, Return(t)
    PROVE  IInv'
<1>1. /\ frames' \in [Threads -> Seq(Frames)]
      /\ Depth(t) \in Nat \ {0}
      /\ Len(frames'[t]) = Depth(t) - 1
      /\ \A u \in Threads \ {t} : Len(frames'[u]) = Len(frames[u])
      /\ \A u \in Threads : \A i \in 1..Len(frames'[u]) :
           /\ i \in 1..Len(frames[u])
           /\ frames'[u][i].seq = frames[u][i].seq
           /\ frames'[u][i].pc = frames[u][i].pc
           /\ frames'[u][i].value = frames[u][i].value
      /\ UNCHANGED <<slot, published, realizing, ran>>
  BY ReturnEffect DEF IInv, Return
<1>2. TypeOK'
  BY <1>1 DEF IInv, TypeOK
<1>3. CallersRun'
  BY <1>1 DEF IInv, CallersRun, Depth
<1>4. ClaimersImpure'
  BY <1>1 DEF IInv, ClaimersImpure
<1>5. OneHolder'
  <2>1. ASSUME NEW s \in Seqs \ Pure, NEW u \in Threads, NEW i \in 1..Len(frames'[u]),
               Holds(u, i, s)'
        PROVE  i \in 1..Len(frames[u]) /\ Holds(u, i, s)
    BY <1>1, <2>1 DEF Holds
  <2> QED
    BY <1>1, <2>1 DEF IInv, OneHolder
<1>6. RanCounts'
  BY <1>1 DEF IInv, RanCounts, Holds
<1>7. ValuesRight'
  <2> SUFFICES ASSUME NEW u \in Threads, NEW i \in 1..Len(frames'[u])
               PROVE  FrameRight(frames'[u][i], slot', published')
    BY DEF ValuesRight
  <2>1. /\ i \in 1..Len(frames[u])
        /\ frames'[u][i].seq = frames[u][i].seq
        /\ frames'[u][i].pc = frames[u][i].pc
        /\ frames'[u][i].value = frames[u][i].value
        /\ slot' = slot /\ published' = published
    BY <1>1
  <2> QED
    BY <2>1 DEF IInv, ValuesRight, FrameRight
<1> QED
  BY <1>2, <1>3, <1>4, <1>5, <1>6, <1>7 DEF IInv

\* The successful compare-and-set of claimLazy makes one holder.
LEMMA ClaimKeepsInv ==
    ASSUME IInv, NEW t \in Threads, Claim(t)
    PROVE  IInv'
<1> DEFINE s == Top(t).seq
<1>1. frames[t] # <<>> /\ Top(t).pc = "claim"
  BY DEF Claim, At
<1>2. /\ Top(t) \in Frames /\ s \in Seqs
      /\ Depth(t) \in 1..Len(frames[t]) /\ Top(t) = frames[t][Depth(t)]
      /\ s \notin Pure
  BY <1>1, TopFacts DEF IInv, ClaimersImpure
<1>3. CASE slot[s] # "unrealized"
  <2> DEFINE f == [Top(t) EXCEPT !.pc = "look"]
  <2>1. f \in Frames /\ f.seq = s /\ f.pc = "look"
    BY <1>2 DEF Frames, Pcs
  <2>2. InTop(t, f) /\ UNCHANGED <<slot, published, realizing, ran>>
    BY <1>3 DEF Claim, Goto
  <2>3. realizing' \in [Threads -> Seq(Seqs)]
    BY <2>2 DEF IInv, TypeOK
  <2> QED
    BY <1>1, <2>1, <2>2, <2>3, MoveKeepsInv
<1>4. CASE slot[s] = "unrealized"
  <2> DEFINE f == [Top(t) EXCEPT !.pc = "run"]
  <2>1. f \in Frames /\ f.seq = s /\ f.pc = "run"
    BY <1>2 DEF Frames, Pcs
  <2>2. /\ InTop(t, f)
        /\ slot' = [slot EXCEPT ![s] = "claimed"]
        /\ realizing' = [realizing EXCEPT ![t] = Append(@, s)]
        /\ UNCHANGED <<published, ran>>
    BY <1>4 DEF Claim, Goto
  <2>3. /\ frames' \in [Threads -> Seq(Frames)]
        /\ \A u \in Threads : Len(frames'[u]) = Len(frames[u])
        /\ \A u \in Threads : \A i \in 1..Len(frames[u]) :
             frames'[u][i] = IF u = t /\ i = Depth(t) THEN f ELSE frames[u][i]
    BY <1>1, <2>1, <2>2, InTopEffect DEF IInv
  <2> HIDE DEF f
  <2> HIDE DEF s
  <2>4. TypeOK'
    <3>1. slot' \in [Seqs -> {"unrealized", "claimed", "realized"}]
      BY <1>2, <2>2 DEF IInv, TypeOK
    <3>2. Append(realizing[t], s) \in Seq(Seqs)
      BY <1>2 DEF IInv, TypeOK
    <3>3. realizing' \in [Threads -> Seq(Seqs)]
      BY <2>2, <3>2 DEF IInv, TypeOK
    <3> QED
      BY <2>2, <2>3, <3>1, <3>3 DEF IInv, TypeOK
  <2>5. CallersRun'
    BY <1>2, <2>3 DEF IInv, CallersRun, Depth
  <2>6. ClaimersImpure'
    BY <2>1, <2>3 DEF IInv, ClaimersImpure
  <2>7. slot[s] = "unrealized" /\ slot'[s] = "claimed" /\ \A r \in Seqs \ {s} : slot'[r] = slot[r]
    BY <1>2, <1>4, <2>2 DEF IInv, TypeOK
  <2>8. ASSUME NEW r \in Seqs \ Pure, NEW u \in Threads, NEW i \in 1..Len(frames'[u]),
               Holds(u, i, r)'
        PROVE  \/ u = t /\ i = Depth(t) /\ r = s
               \/ i \in 1..Len(frames[u]) /\ Holds(u, i, r) /\ r # s /\ frames'[u][i] = frames[u][i]
    BY <2>1, <2>3, <2>7, <2>8 DEF IInv, OneHolder, Holds
  <2>9. OneHolder'
    <3>1. ASSUME NEW r \in Seqs \ Pure, NEW u \in Threads, NEW i \in 1..Len(frames'[u]),
                 Holds(u, i, r)'
          PROVE  slot'[r] = "claimed"
      BY <2>7, <2>8, <3>1 DEF IInv, OneHolder
    <3>2. ASSUME NEW r \in Seqs \ Pure, NEW u \in Threads, NEW v \in Threads,
                 NEW i \in 1..Len(frames'[u]), NEW j \in 1..Len(frames'[v]),
                 Holds(u, i, r)', Holds(v, j, r)'
          PROVE  u = v /\ i = j
      BY <2>8, <3>2 DEF IInv, OneHolder
    <3> QED
      BY <3>1, <3>2 DEF OneHolder
  <2>10. RanCounts'
    <3>1. ran[s] = 0 /\ ran' = ran
      BY <1>2, <2>2, <2>7 DEF IInv, RanCounts
    <3> QED
      BY <2>2, <2>7, <2>8, <3>1 DEF IInv, RanCounts
  <2>11. ValuesRight'
    <3> SUFFICES ASSUME NEW u \in Threads, NEW i \in 1..Len(frames'[u])
                 PROVE  FrameRight(frames'[u][i], slot', published')
      BY DEF ValuesRight
    <3>1. i \in 1..Len(frames[u])
      BY <2>3
    <3>2. CASE u = t /\ i = Depth(t)
      <4>1. frames'[u][i].pc = "run"
        BY <2>1, <2>3, <3>1, <3>2
      <4> QED
        BY <4>1 DEF FrameRight
    <3>3. CASE ~(u = t /\ i = Depth(t))
      <4>1. frames'[u][i] = frames[u][i] /\ published' = published
        BY <2>2, <2>3, <3>1, <3>3
      <4>2. frames[u][i].seq \in Seqs
        <5>1. frames[u] \in Seq(Frames)
          BY DEF IInv, TypeOK
        <5>2. frames[u][i] \in Frames
          BY <3>1, <5>1
        <5> QED
          BY <5>2 DEF Frames
      <4>3. slot[frames[u][i].seq] = "realized" => slot'[frames[u][i].seq] = "realized"
        BY <2>7, <4>2
      <4> QED
        BY <3>1, <4>1, <4>3 DEF IInv, ValuesRight, FrameRight
    <3> QED
      BY <3>2, <3>3
  <2> QED
    BY <2>4, <2>5, <2>6, <2>9, <2>10, <2>11 DEF IInv
<1> QED
  BY <1>3, <1>4

\* The thunk returned a seq, or raised: the call still holds the slot.
LEMMA ThunkReturnsKeepsInv ==
    ASSUME IInv, NEW t \in Threads, NEW v \in Values, ThunkReturns(t, v)
    PROVE  IInv'
<1> DEFINE s == Top(t).seq
           f == [Top(t) EXCEPT !.pc = "publish", !.value = v]
<1>1. frames[t] # <<>> /\ Top(t).pc = "run"
  BY DEF ThunkReturns, At
<1>2. /\ Top(t) \in Frames /\ s \in Seqs /\ Depth(t) \in Nat \ {0}
      /\ Depth(t) \in 1..Len(frames[t]) /\ Top(t) = frames[t][Depth(t)]
  BY <1>1, TopFacts DEF IInv
<1>3. f \in Frames /\ f.seq = s /\ f.pc = "publish" /\ f.value = v
  BY <1>2 DEF Frames, Pcs
<1>4. /\ InTop(t, f) /\ UNCHANGED <<slot, published>>
      /\ ran' = [ran EXCEPT ![s] = IF @ < 2 THEN @ + 1 ELSE @]
  BY DEF ThunkReturns
<1>5. /\ frames' \in [Threads -> Seq(Frames)]
      /\ \A u \in Threads : Len(frames'[u]) = Len(frames[u])
      /\ \A u \in Threads : \A i \in 1..Len(frames[u]) :
           frames'[u][i] = IF u = t /\ i = Depth(t) THEN f ELSE frames[u][i]
  BY <1>1, <1>3, <1>4, InTopEffect DEF IInv
<1>6. /\ Holds(t, Depth(t), s)
      /\ s \notin Pure => slot[s] = "claimed" /\ ran[s] = 0
  BY <1>1, <1>2 DEF IInv, Holds, OneHolder, RanCounts
<1>7. realizing' \in [Threads -> Seq(Seqs)]
  BY PopFacts DEF ThunkReturns, IInv, TypeOK
<1> HIDE DEF f, s
<1>8. TypeOK'
  <2>1. ran' \in [Seqs -> 0..2]
    BY <1>2, <1>4 DEF IInv, TypeOK
  <2> QED
    BY <1>4, <1>5, <1>7, <2>1 DEF IInv, TypeOK
<1>9. CallersRun'
  BY <1>2, <1>5 DEF IInv, CallersRun, Depth
<1>10. ClaimersImpure'
  BY <1>3, <1>5 DEF IInv, ClaimersImpure
<1>11. ASSUME NEW r \in Seqs, NEW u \in Threads, NEW i \in 1..Len(frames'[u]),
              Holds(u, i, r)'
       PROVE  /\ i \in 1..Len(frames[u]) /\ Holds(u, i, r)
              /\ \/ frames'[u][i] = frames[u][i]
                 \/ u = t /\ i = Depth(t) /\ r = s
  BY <1>2, <1>3, <1>5, <1>6, <1>11 DEF Holds
<1>12. OneHolder'
  BY <1>4, <1>11 DEF IInv, OneHolder
<1>13. RanCounts'
  <2>1. \A r \in Seqs \ {s} : ran'[r] = ran[r]
    BY <1>4 DEF IInv, TypeOK
  <2>2. s \notin Pure => ran'[s] = 1
    BY <1>2, <1>4, <1>6 DEF IInv, TypeOK
  <2>3. ASSUME NEW r \in Seqs \ Pure, NEW u \in Threads, NEW i \in 1..Len(frames'[u]),
               Holds(u, i, r)', frames'[u][i].pc # "publish"
        PROVE  ran'[r] = 0
    <3>1. i \in 1..Len(frames[u]) /\ Holds(u, i, r) /\ frames'[u][i] = frames[u][i]
      BY <1>3, <1>5, <1>11, <2>3
    <3>2. r # s
      BY <1>2, <1>3, <1>5, <1>6, <2>3, <3>1 DEF IInv, OneHolder
    <3> QED
      BY <2>1, <2>3, <3>1, <3>2 DEF IInv, RanCounts
  <2> QED
    BY <1>4, <1>6, <2>1, <2>2, <2>3 DEF IInv, RanCounts
<1>14. FrameRight(f, slot, published)
  BY <1>3 DEF FrameRight
<1>15. ValuesRight'
  BY <1>4, <1>5, <1>14 DEF IInv, ValuesRight
<1> QED
  BY <1>8, <1>9, <1>10, <1>12, <1>13, <1>15 DEF IInv

\* unclaimLazy is called by the holder, and leaves none.
LEMMA UnclaimKeepsInv ==
    ASSUME IInv, NEW t \in Threads, Unclaim(t)
    PROVE  IInv'
<1> DEFINE s == Top(t).seq
           f == [Top(t) EXCEPT !.pc = "return", !.value = Raised]
<1>1. frames[t] # <<>> /\ Top(t).pc = "unclaim"
  BY DEF Unclaim, At
<1>2. /\ Top(t) \in Frames /\ s \in Seqs /\ Depth(t) \in Nat \ {0}
      /\ Depth(t) \in 1..Len(frames[t]) /\ Top(t) = frames[t][Depth(t)]
      /\ s \notin Pure
  BY <1>1, TopFacts DEF IInv, ClaimersImpure
<1>3. f \in Frames /\ f.seq = s /\ f.pc = "return" /\ f.value = Raised
  BY <1>2 DEF Frames, Pcs
<1>4. /\ InTop(t, f) /\ UNCHANGED <<published, realizing, ran>>
      /\ slot' = [slot EXCEPT ![s] = "unrealized"]
  BY DEF Unclaim, Answer
<1>5. /\ frames' \in [Threads -> Seq(Frames)]
      /\ \A u \in Threads : Len(frames'[u]) = Len(frames[u])
      /\ \A u \in Threads : \A i \in 1..Len(frames[u]) :
           frames'[u][i] = IF u = t /\ i = Depth(t) THEN f ELSE frames[u][i]
  BY <1>1, <1>3, <1>4, InTopEffect DEF IInv
<1>6. Holds(t, Depth(t), s) /\ slot[s] = "claimed" /\ ran[s] = 0
  BY <1>1, <1>2 DEF IInv, Holds, OneHolder, RanCounts
<1> HIDE DEF f, s
<1>7. slot'[s] = "unrealized" /\ \A r \in Seqs \ {s} : slot'[r] = slot[r]
  BY <1>2, <1>4 DEF IInv, TypeOK
<1>8. TypeOK'
  BY <1>2, <1>4, <1>5 DEF IInv, TypeOK
<1>9. CallersRun'
  BY <1>2, <1>5 DEF IInv, CallersRun, Depth
<1>10. ClaimersImpure'
  BY <1>3, <1>5 DEF IInv, ClaimersImpure
<1>11. ASSUME NEW r \in Seqs \ Pure, NEW u \in Threads, NEW i \in 1..Len(frames'[u]),
              Holds(u, i, r)'
       PROVE  /\ i \in 1..Len(frames[u]) /\ Holds(u, i, r) /\ r # s
              /\ frames'[u][i] = frames[u][i]
  <2>1. i \in 1..Len(frames[u]) /\ Holds(u, i, r) /\ frames'[u][i] = frames[u][i]
    BY <1>2, <1>3, <1>5, <1>11 DEF Holds
  <2>2. r # s
    BY <1>2, <1>3, <1>5, <1>6, <1>11, <2>1 DEF IInv, OneHolder, Holds
  <2> QED
    BY <2>1, <2>2
<1>12. OneHolder'
  BY <1>7, <1>11 DEF IInv, OneHolder
<1>13. RanCounts'
  BY <1>4, <1>6, <1>7, <1>11 DEF IInv, RanCounts
<1>14. ValuesRight'
  <2>1. ASSUME NEW u \in Threads, NEW i \in 1..Len(frames'[u]),
               frames'[u][i].pc = "return", frames'[u][i].value # Raised
        PROVE  /\ slot'[frames'[u][i].seq] = "realized"
               /\ frames'[u][i].value = published'[frames'[u][i].seq]
    <3>1. i \in 1..Len(frames[u]) /\ frames'[u][i] = frames[u][i] /\ frames[u][i] \in Frames
      BY <1>3, <1>5, <2>1 DEF IInv, TypeOK
    <3>2. slot[frames[u][i].seq] = "realized" /\ frames[u][i].value = published[frames[u][i].seq]
      BY <2>1, <3>1 DEF IInv, ValuesRight, FrameRight
    <3>3. frames[u][i].seq \in Seqs \ {s}
      BY <1>6, <3>1, <3>2 DEF Frames
    <3> QED
      BY <1>4, <1>7, <3>1, <3>2, <3>3
  <2> QED
    BY <1>3, <1>5, <2>1 DEF IInv, ValuesRight, FrameRight
<1> QED
  BY <1>8, <1>9, <1>10, <1>12, <1>13, <1>14 DEF IInv

\* publishLazy: the value of a realised slot never changes, and the holder of a
\* slot finds it unrealised.
LEMMA PublishKeepsInv ==
    ASSUME IInv, NEW t \in Threads, Publish(t)
    PROVE  IInv'
<1> DEFINE s == Top(t).seq
<1>1. frames[t] # <<>> /\ Top(t).pc = "publish"
  BY DEF Publish, At
<1>2. /\ Top(t) \in Frames /\ s \in Seqs /\ Depth(t) \in Nat \ {0}
      /\ Depth(t) \in 1..Len(frames[t]) /\ Top(t) = frames[t][Depth(t)]
      /\ Top(t).value \in Values
  BY <1>1, TopFacts DEF IInv, ValuesRight, FrameRight
<1>3. Holds(t, Depth(t), s) /\ (s \notin Pure => slot[s] = "claimed")
  BY <1>1, <1>2 DEF IInv, Holds, OneHolder
<1>4. CASE slot[s] = "realized"
  <2> DEFINE f == [Top(t) EXCEPT !.pc = "look"]
  <2>1. f \in Frames /\ f.seq = s /\ f.pc = "look"
    BY <1>2 DEF Frames, Pcs
  <2>2. s \in Pure
    BY <1>2, <1>3, <1>4
  <2>3. InTop(t, f) /\ UNCHANGED <<slot, published, realizing, ran>>
    BY <1>4, <2>2 DEF Publish, Goto
  <2>4. realizing' \in [Threads -> Seq(Seqs)]
    BY <2>3 DEF IInv, TypeOK
  <2> QED
    BY <1>1, <2>1, <2>3, <2>4, MoveKeepsInv
<1>5. CASE slot[s] # "realized"
  <2> DEFINE f == [Top(t) EXCEPT !.pc = "return", !.value = Top(t).value]
  <2>1. f \in Frames /\ f.seq = s /\ f.pc = "return" /\ f.value = Top(t).value
    BY <1>2 DEF Frames, Pcs
  <2>2. /\ InTop(t, f) /\ UNCHANGED <<realizing, ran>>
        /\ slot' = [slot EXCEPT ![s] = "realized"]
        /\ published' = [published EXCEPT ![s] = Top(t).value]
    BY <1>5 DEF Publish, Answer
  <2>3. /\ frames' \in [Threads -> Seq(Frames)]
        /\ \A u \in Threads : Len(frames'[u]) = Len(frames[u])
        /\ \A u \in Threads : \A i \in 1..Len(frames[u]) :
             frames'[u][i] = IF u = t /\ i = Depth(t) THEN f ELSE frames[u][i]
    BY <1>1, <2>1, <2>2, InTopEffect DEF IInv
  <2> HIDE DEF f, s
  <2>4. /\ slot'[s] = "realized" /\ published'[s] = Top(t).value
        /\ \A r \in Seqs \ {s} : slot'[r] = slot[r] /\ published'[r] = published[r]
    BY <1>2, <2>2 DEF IInv, TypeOK
  <2>5. TypeOK'
    BY <1>2, <2>2, <2>3 DEF IInv, TypeOK
  <2>6. CallersRun'
    BY <1>2, <2>3 DEF IInv, CallersRun, Depth
  <2>7. ClaimersImpure'
    BY <2>1, <2>3 DEF IInv, ClaimersImpure
  <2>8. ASSUME NEW r \in Seqs \ Pure, NEW u \in Threads, NEW i \in 1..Len(frames'[u]),
               Holds(u, i, r)'
        PROVE  /\ i \in 1..Len(frames[u]) /\ Holds(u, i, r) /\ r # s
               /\ frames'[u][i] = frames[u][i]
    <3>1. i \in 1..Len(frames[u]) /\ Holds(u, i, r) /\ frames'[u][i] = frames[u][i]
      BY <1>2, <2>1, <2>3, <2>8 DEF Holds
    <3>2. r # s
      BY <1>2, <1>3, <2>1, <2>3, <2>8, <3>1 DEF IInv, OneHolder, Holds
    <3> QED
      BY <3>1, <3>2
  <2>9. OneHolder'
    BY <2>4, <2>8 DEF IInv, OneHolder
  <2>10. RanCounts'
    BY <2>2, <2>4, <2>8 DEF IInv, RanCounts
  <2>11. ValuesRight'
    <3>1. ASSUME NEW u \in Threads, NEW i \in 1..Len(frames'[u]),
                 frames'[u][i].pc = "return", frames'[u][i].value # Raised,
                 ~(u = t /\ i = Depth(t))
          PROVE  /\ slot'[frames'[u][i].seq] = "realized"
                 /\ frames'[u][i].value = published'[frames'[u][i].seq]
      <4>1. i \in 1..Len(frames[u]) /\ frames'[u][i] = frames[u][i] /\ frames[u][i] \in Frames
        BY <2>3, <3>1 DEF IInv, TypeOK
      <4>2. slot[frames[u][i].seq] = "realized" /\ frames[u][i].value = published[frames[u][i].seq]
        BY <3>1, <4>1 DEF IInv, ValuesRight, FrameRight
      <4>3. frames[u][i].seq \in Seqs \ {s}
        BY <1>5, <4>1, <4>2 DEF Frames, s
      <4> QED
        BY <2>4, <4>1, <4>2, <4>3
    <3>2. frames'[t][Depth(t)] = f
      BY <1>2, <2>3
    <3>3. ASSUME NEW u \in Threads, NEW i \in 1..Len(frames'[u]), frames'[u][i].pc = "publish"
          PROVE  frames'[u][i].value \in Values
      <4>1. i \in 1..Len(frames[u]) /\ frames'[u][i] = frames[u][i]
        BY <2>1, <2>3, <3>3
      <4> QED
        BY <3>3, <4>1 DEF IInv, ValuesRight, FrameRight
    <3> QED
      BY <2>1, <2>4, <3>1, <3>2, <3>3 DEF ValuesRight, FrameRight
  <2> QED
    BY <2>5, <2>6, <2>7, <2>9, <2>10, <2>11 DEF IInv
<1> QED
  BY <1>4, <1>5

\* No step breaks the invariant.
LEMMA InvStep == IInv /\ [Next]_vars => IInv'
<1> SUFFICES ASSUME IInv, [Next]_vars PROVE IInv'
  OBVIOUS
<1>1. ASSUME NEW t \in Threads, NEW s \in Seqs, Read(t, s) PROVE IInv'
  <2>1. frames[t] = <<>> /\ <<Frame(s)>> = Append(frames[t], Frame(s))
    BY <1>1 DEF Read
  <2>2. frames' = [frames EXCEPT ![t] = Append(@, Frame(s))]
    BY <1>1, <2>1 DEF Read
  <2> QED
    BY <1>1, <2>1, <2>2, CallKeepsInv DEF Read
<1>2. ASSUME NEW t \in Threads, NEW s \in Seqs, ThunkReads(t, s) PROVE IInv'
  <2>1. CASE Depth(t) < MaxDepth
    BY <1>2, <2>1, CallKeepsInv DEF ThunkReads
  <2>2. CASE ~(Depth(t) < MaxDepth)
    <3> DEFINE f == [Top(t) EXCEPT !.hurt = TRUE]
    <3>1. frames[t] # <<>> /\ Top(t).pc = "run" /\ Top(t) \in Frames /\ Top(t).seq \in Seqs
      BY <1>2, TopFacts DEF ThunkReads, At, IInv
    <3>2. f \in Frames /\ f.seq = Top(t).seq /\ f.pc = "run"
      BY <3>1 DEF Frames, Pcs
    <3>3. InTop(t, f) /\ UNCHANGED <<slot, published, realizing, ran>>
      BY <1>2, <2>2 DEF ThunkReads
    <3>4. realizing' \in [Threads -> Seq(Seqs)]
      BY <3>3 DEF IInv, TypeOK
    <3>5. f.seq \notin Pure => ran[f.seq] = 0
      BY <3>1, <3>2, TopFacts DEF IInv, RanCounts, Holds
    <3> QED
      BY <3>1, <3>2, <3>3, <3>4, <3>5, MoveKeepsInv
  <2> QED
    BY <2>1, <2>2
<1>3. ASSUME NEW t \in Threads, Look(t) PROVE IInv'
  <2> DEFINE s == Top(t).seq
  <2>1. frames[t] # <<>> /\ Top(t).pc = "look" /\ Top(t) \in Frames /\ s \in Seqs
    BY <1>3, TopFacts DEF Look, At, IInv
  <2>2. PICK f \in Frames :
          /\ InTop(t, f) /\ f.seq = s
          /\ f.pc \in {"return", "produce"}
          /\ f.pc = "return" /\ f.value # Raised =>
               slot[s] = "realized" /\ f.value = published[s]
    <3>1. CASE slot[s] = "realized" /\ Answer(t, published[s])
      <4>1. published[s] \in Values \cup {None, Raised}
        BY <2>1 DEF IInv, TypeOK
      <4> HIDE DEF s
      <4>2. LET f == [Top(t) EXCEPT !.pc = "return", !.value = published[s]]
            IN  InTop(t, f) /\ f \in Frames /\ f.seq = s /\ f.pc = "return"
                /\ f.value = published[s]
        BY <2>1, <3>1, <4>1, AnswerFrame DEF Answer, s
      <4> QED
        BY <3>1, <4>2
    <3>2. CASE Answer(t, Raised)
      <4>1. LET f == [Top(t) EXCEPT !.pc = "return", !.value = Raised]
            IN  InTop(t, f) /\ f \in Frames /\ f.seq = s /\ f.pc = "return" /\ f.value = Raised
        BY <2>1, <3>2, AnswerFrame DEF Answer
      <4> QED
        BY <4>1
    <3>3. CASE Goto(t, "produce")
      BY <2>1, <3>3 DEF Goto, Frames, Pcs
    <3> QED
      BY <1>3, <3>1, <3>2, <3>3 DEF Look
  <2>3. UNCHANGED <<slot, published, realizing, ran>> /\ realizing' \in [Threads -> Seq(Seqs)]
    BY <1>3 DEF Look, IInv, TypeOK
  <2> QED
    BY <2>1, <2>2, <2>3, MoveKeepsInv
<1>4. ASSUME NEW t \in Threads, Produce(t) PROVE IInv'
  <2> DEFINE s == Top(t).seq
  <2>1. frames[t] # <<>> /\ Top(t) \in Frames /\ s \in Seqs
    BY <1>4, TopFacts DEF Produce, At, IInv
  <2>2. PICK f \in Frames :
          /\ InTop(t, f) /\ f.seq = s
          /\ f.pc \in {"look", "run", "claim"}
          /\ f.pc = "run" => s \in Pure
          /\ f.pc = "claim" => s \notin Pure
    BY <1>4, <2>1 DEF Produce, Goto, Frames, Pcs
  <2>3. UNCHANGED <<slot, published, realizing, ran>> /\ realizing' \in [Threads -> Seq(Seqs)]
    BY <1>4 DEF Produce, IInv, TypeOK
  <2> QED
    BY <2>1, <2>2, <2>3, MoveKeepsInv
<1>5. ASSUME NEW t \in Threads, ThunkRaises(t) PROVE IInv'
  <2> DEFINE s == Top(t).seq
  <2>1. frames[t] # <<>> /\ Top(t).pc = "run" /\ Top(t) \in Frames /\ s \in Seqs
    BY <1>5, TopFacts DEF ThunkRaises, At, IInv
  <2>2. PICK f \in Frames :
          /\ InTop(t, f) /\ f.seq = s
          /\ \/ f.pc = "return" /\ f.value = Raised
             \/ f.pc = "unclaim" /\ s \notin Pure
    <3>1. CASE s \in Pure
      <4>1. LET f == [Top(t) EXCEPT !.pc = "return", !.value = Raised]
            IN  InTop(t, f) /\ f \in Frames /\ f.seq = s /\ f.pc = "return" /\ f.value = Raised
        BY <1>5, <2>1, <3>1, AnswerFrame DEF ThunkRaises, Answer
      <4> QED
        BY <4>1
    <3>2. CASE s \notin Pure
      <4>1. "unclaim" \in Pcs
        BY DEF Pcs
      <4> QED
        BY <1>5, <2>1, <3>2, <4>1, GotoFrame DEF ThunkRaises, Goto
    <3> QED
      BY <3>1, <3>2
  <2>3. UNCHANGED <<slot, published, ran>>
    BY <1>5 DEF ThunkRaises
  <2>4. realizing' \in [Threads -> Seq(Seqs)]
    <3>1. Pop(realizing[t]) \in Seq(Seqs)
      BY PopFacts DEF IInv, TypeOK
    <3>2. \/ realizing' = realizing
          \/ realizing' = [realizing EXCEPT ![t] = Pop(realizing[t])]
      BY <1>5 DEF ThunkRaises
    <3> QED
      BY <3>1, <3>2 DEF IInv, TypeOK
  <2>5. s \notin Pure => ran[s] = 0
    BY <2>1, TopFacts DEF IInv, RanCounts, Holds
  <2> QED
    BY <2>1, <2>2, <2>3, <2>4, <2>5, MoveKeepsInv
<1>6. CASE UNCHANGED vars
  <2>1. TypeOK' /\ CallersRun' /\ ClaimersImpure' /\ ValuesRight'
    BY <1>6 DEF vars, IInv, TypeOK, CallersRun, ClaimersImpure, ValuesRight, FrameRight
  <2>2. OneHolder'
    BY <1>6 DEF vars, IInv, OneHolder, Holds
  <2>3. RanCounts'
    BY <1>6 DEF vars, IInv, RanCounts, Holds
  <2> QED
    BY <2>1, <2>2, <2>3 DEF IInv
<1> QED
  BY <1>1, <1>2, <1>3, <1>4, <1>5, <1>6, ClaimKeepsInv, ThunkReturnsKeepsInv,
     UnclaimKeepsInv, PublishKeepsInv, ReturnKeepsInv
     DEF Next, Step, ThunkEnds

\* The invariant contains what the runs check.
LEMMA InvImplies == IInv => ThunkRunsOnce /\ OneValue
<1> SUFFICES ASSUME IInv PROVE ThunkRunsOnce /\ OneValue
  OBVIOUS
<1>1. ASSUME NEW t \in Threads, NEW s \in Seqs, Runs(t, s)
      PROVE  \E i \in 1..Len(frames[t]) : Holds(t, i, s)
  BY <1>1 DEF Runs, Holds, IInv, TypeOK
<1>2. ThunkRunsOnce
  BY <1>1 DEF ThunkRunsOnce, IInv, OneHolder, RanCounts
<1>3. OneValue
  BY TopFacts DEF OneValue, At, IInv, ValuesRight, FrameRight
<1> QED
  BY <1>2, <1>3

-----------------------------------------------------------------------------
(* Theorems. *)

\* The thunk of a seq of Clojure code is run by one thread at a time and
\* returns at most once (claimLazy, unclaimLazy and publishLazy as realizeLazy
\* uses them), for any readers, any nesting of reads and any errors on the way.
THEOREM ThunkRunsOnceTheorem == Spec => []ThunkRunsOnce
<1>1. Spec => []IInv
  BY InvInit, InvStep, PTL DEF Spec
<1> QED
  BY <1>1, InvImplies, PTL

\* Every read of a seq that does not raise answers the one published value.
THEOREM OneValueTheorem == Spec => []OneValue
<1>1. Spec => []IInv
  BY InvInit, InvStep, PTL DEF Spec
<1> QED
  BY <1>1, InvImplies, PTL

\* What a slot was realised with stays: no unclaim of a late error and no second
\* publication undoes it, so that readers agree across time as well.
RealizedForGood ==
    \A s \in Seqs : slot[s] = "realized" =>
        slot'[s] = "realized" /\ published'[s] = published[s]

\* A realised seq is never unrealised and never gets another value
\* (unclaimLazy and publishLazy against a slot that is already realised).
THEOREM RealizedForGoodTheorem == Spec => [][RealizedForGood]_vars
<1>1. ASSUME IInv, Next PROVE RealizedForGood
  <2>1. ASSUME NEW t \in Threads, Unclaim(t) PROVE RealizedForGood
    <3>1. frames[t] # <<>> /\ Top(t).pc = "unclaim"
      BY <2>1 DEF Unclaim, At
    <3>2. Top(t).seq \in Seqs \ Pure /\ Holds(t, Depth(t), Top(t).seq)
      BY <1>1, <3>1, TopFacts DEF IInv, ClaimersImpure, Holds
    <3>3. slot[Top(t).seq] = "claimed"
      BY <1>1, <3>1, <3>2, TopFacts DEF IInv, OneHolder
    <3> QED
      BY <1>1, <2>1, <3>3 DEF Unclaim, RealizedForGood, IInv, TypeOK
  <2>2. ASSUME NEW t \in Threads, Publish(t) PROVE RealizedForGood
    BY <1>1, <2>2 DEF Publish, RealizedForGood, IInv, TypeOK
  <2>3. ASSUME NEW t \in Threads, Claim(t) PROVE RealizedForGood
    BY <1>1, <2>3 DEF Claim, RealizedForGood, IInv, TypeOK
  <2>4. UNCHANGED <<slot, published>> => RealizedForGood
    BY DEF RealizedForGood
  <2> QED
    BY <1>1, <2>1, <2>2, <2>3, <2>4
       DEF Next, Step, ThunkEnds, Read, ThunkReads, Look, Produce, ThunkReturns, ThunkRaises,
           Return
<1>2. IInv /\ [Next]_vars => [RealizedForGood]_vars
  BY <1>1
<1>3. Spec => []IInv
  BY InvInit, InvStep, PTL DEF Spec
<1> QED
  BY <1>2, <1>3, PTL DEF Spec

-----------------------------------------------------------------------------
(* Who waits for whom. *)

\* A call that computes a seq of Clojure code, and has not finished.
Computes(f) == f.pc = "run" /\ f.seq \notin Pure

\* tl_realizing names, in order, the seqs of Clojure code the calls of a stack
\* compute.
Mirror(stack, names) ==
    \E p \in [1..Len(names) -> 1..Len(stack)] :
        /\ \A j, k \in 1..Len(names) : j < k => p[j] < p[k]
        /\ \A k \in 1..Len(names) : Computes(stack[p[k]]) /\ stack[p[k]].seq = names[k]
        /\ \A i \in 1..Len(stack) : Computes(stack[i]) => \E k \in 1..Len(names) : p[k] = i

Mirrors == \A t \in Threads : Mirror(frames[t], realizing[t])

\* A slot stays claimed only while some call holds it, and only those of Clojure
\* code are.
ClaimedHeld ==
    \A s \in Seqs : slot[s] = "claimed" =>
        s \notin Pure /\ \E t \in Threads : \E i \in 1..Len(frames[t]) : Holds(t, i, s)

\* Of a stack of calls, each reads for the one before.
RanksFall(Rank) ==
    \A t \in Threads : \A i, j \in 1..Len(frames[t]) :
        i < j => Rank[frames[t][j].seq] <= Rank[frames[t][i].seq]

\* The seqs can be ranked so that a thunk reads no seq of a higher rank and no
\* two seqs of Clojure code have the same rank: a seq may depend on itself, also
\* through native steps, but no two of Clojure code depend on each other.
ReadsRanked(Rank) ==
    /\ Rank \in [Seqs -> Nat]
    /\ \A s \in Seqs : \A r \in Reads[s] : Rank[r] <= Rank[s]
    /\ \A r, s \in Seqs \ Pure : Rank[r] = Rank[s] => r = s

\* The stack changes, but not the calls that compute.
LEMMA MirrorKept ==
    ASSUME NEW a \in Seq(Frames), NEW b \in Seq(Frames), NEW names \in Seq(Seqs),
           Mirror(a, names),
           \A i \in 1..Len(a) : Computes(a[i]) =>
               i \in 1..Len(b) /\ Computes(b[i]) /\ b[i].seq = a[i].seq,
           \A i \in 1..Len(b) : Computes(b[i]) => i \in 1..Len(a) /\ Computes(a[i])
    PROVE  Mirror(b, names)
<1>1. PICK p \in [1..Len(names) -> 1..Len(a)] :
        /\ \A j, k \in 1..Len(names) : j < k => p[j] < p[k]
        /\ \A k \in 1..Len(names) : Computes(a[p[k]]) /\ a[p[k]].seq = names[k]
        /\ \A i \in 1..Len(a) : Computes(a[i]) => \E k \in 1..Len(names) : p[k] = i
  BY DEF Mirror
<1>2. \A k \in 1..Len(names) :
        p[k] \in 1..Len(b) /\ Computes(b[p[k]]) /\ b[p[k]].seq = names[k]
  BY <1>1
<1>3. p \in [1..Len(names) -> 1..Len(b)]
  BY <1>1, <1>2
<1>4. \A i \in 1..Len(b) : Computes(b[i]) => \E k \in 1..Len(names) : p[k] = i
  BY <1>1
<1> QED
  BY <1>1, <1>2, <1>3, <1>4, Zenon DEF Mirror

\* The innermost call has claimed its seq: push_back.
LEMMA MirrorPushed ==
    ASSUME NEW a \in Seq(Frames), NEW b \in Seq(Frames), NEW names \in Seq(Seqs),
           NEW s \in Seqs, Mirror(a, names), a # <<>>, Len(b) = Len(a),
           ~Computes(a[Len(a)]), Computes(b[Len(a)]), b[Len(a)].seq = s,
           \A i \in 1..(Len(a) - 1) : b[i] = a[i]
    PROVE  Mirror(b, Append(names, s))
<1> DEFINE n == Len(names)
           d == Len(a)
           more == Append(names, s)
<1>0. n \in Nat /\ d \in Nat \ {0}
  BY EmptySeq
<1>1. PICK p \in [1..n -> 1..d] :
        /\ \A j, k \in 1..n : j < k => p[j] < p[k]
        /\ \A k \in 1..n : Computes(a[p[k]]) /\ a[p[k]].seq = names[k]
        /\ \A i \in 1..d : Computes(a[i]) => \E k \in 1..n : p[k] = i
  BY DEF Mirror
<1>2. /\ more \in Seq(Seqs) /\ Len(more) = n + 1 /\ more[n + 1] = s
      /\ \A k \in 1..n : more[k] = names[k]
  BY AppendProperties
<1> DEFINE q == [k \in 1..(n + 1) |-> IF k = n + 1 THEN d ELSE p[k]]
<1>3. \A k \in 1..n : p[k] \in 1..(d - 1)
  BY <1>0, <1>1
<1>4. /\ q \in [1..(n + 1) -> 1..d] /\ q[n + 1] = d
      /\ \A k \in 1..n : k # n + 1 /\ q[k] = p[k]
  BY <1>0, <1>1
<1> HIDE DEF q, more, n, d
<1>5. \A j, k \in 1..(n + 1) : j < k => q[j] < q[k]
  <2> SUFFICES ASSUME NEW j \in 1..(n + 1), NEW k \in 1..(n + 1), j < k
               PROVE  q[j] < q[k]
    OBVIOUS
  <2>1. j \in 1..n
    BY <1>0
  <2>2. CASE k = n + 1
    BY <1>0, <1>3, <1>4, <2>1, <2>2
  <2>3. CASE k \in 1..n
    BY <1>1, <1>4, <2>1, <2>3
  <2> QED
    BY <1>0, <2>2, <2>3
<1>6. \A k \in 1..(n + 1) : Computes(b[q[k]]) /\ b[q[k]].seq = more[k]
  <2>1. ASSUME NEW k \in 1..n PROVE Computes(b[q[k]]) /\ b[q[k]].seq = more[k]
    BY <1>1, <1>2, <1>3, <1>4 DEF d
  <2>2. Computes(b[q[n + 1]]) /\ b[q[n + 1]].seq = more[n + 1]
    BY <1>2, <1>4 DEF d
  <2> SUFFICES ASSUME NEW k \in 1..(n + 1) PROVE Computes(b[q[k]]) /\ b[q[k]].seq = more[k]
    OBVIOUS
  <2>3. k \in 1..n \/ k = n + 1
    BY <1>0
  <2> QED
    BY <2>1, <2>2, <2>3
<1>7. \A i \in 1..d : Computes(b[i]) => \E k \in 1..(n + 1) : q[k] = i
  <2> SUFFICES ASSUME NEW i \in 1..d, Computes(b[i])
               PROVE  \E k \in 1..(n + 1) : q[k] = i
    OBVIOUS
  <2>1. CASE i = d
    BY <1>0, <1>4, <2>1
  <2>2. CASE i # d
    <3>1. i \in 1..(d - 1)
      BY <1>0, <2>2
    <3>2. Computes(a[i])
      BY <3>1 DEF d
    <3>3. PICK k \in 1..n : p[k] = i
      BY <1>1, <3>2
    <3> QED
      BY <1>0, <1>4, <3>3
  <2> QED
    BY <2>1, <2>2
<1>8. Len(b) = d /\ Len(more) = n + 1
  BY <1>2 DEF d
<1>9. /\ q \in [1..Len(more) -> 1..Len(b)]
      /\ \A j, k \in 1..Len(more) : j < k => q[j] < q[k]
      /\ \A k \in 1..Len(more) : Computes(b[q[k]]) /\ b[q[k]].seq = more[k]
      /\ \A i \in 1..Len(b) : Computes(b[i]) => \E k \in 1..Len(more) : q[k] = i
  BY <1>4, <1>5, <1>6, <1>7, <1>8
<1>10. Mirror(b, more)
  BY <1>9, Zenon DEF Mirror
<1> QED
  BY <1>10 DEF more

\* The innermost call has run its thunk: pop_back takes away its own seq.
LEMMA MirrorPopped ==
    ASSUME NEW a \in Seq(Frames), NEW b \in Seq(Frames), NEW names \in Seq(Seqs),
           Mirror(a, names), a # <<>>, Len(b) = Len(a),
           Computes(a[Len(a)]), ~Computes(b[Len(a)]),
           \A i \in 1..(Len(a) - 1) : b[i] = a[i]
    PROVE  Mirror(b, Pop(names))
<1> DEFINE n == Len(names)
           d == Len(a)
           less == Pop(names)
<1>0. n \in Nat /\ d \in Nat \ {0}
  BY EmptySeq
<1>1. PICK p \in [1..n -> 1..d] :
        /\ \A j, k \in 1..n : j < k => p[j] < p[k]
        /\ \A k \in 1..n : Computes(a[p[k]]) /\ a[p[k]].seq = names[k]
        /\ \A i \in 1..d : Computes(a[i]) => \E k \in 1..n : p[k] = i
  BY DEF Mirror
<1>2. PICK last \in 1..n : p[last] = d
  BY <1>0, <1>1
<1>3. last = n
  <2>1. ASSUME last < n PROVE FALSE
    <3>0. n \in 1..n
      BY <1>0, <1>2, <2>1
    <3>1. n \in 1..n /\ p[n] \in 1..d
      BY <1>1, <3>0
    <3>2. p[last] < p[n]
      BY <1>1, <2>1, <3>1
    <3> QED
      BY <1>0, <1>2, <3>1, <3>2
  <2> QED
    BY <1>0, <2>1
<1>4. names # <<>>
  BY <1>0, <1>2
<1>5. Len(less) = n - 1 /\ \A k \in 1..(n - 1) : less[k] = names[k]
  BY <1>4, PopFacts
<1> DEFINE q == [k \in 1..(n - 1) |-> p[k]]
<1>6. \A k \in 1..(n - 1) : k \in 1..n /\ k < n /\ q[k] = p[k]
  BY <1>0
<1> HIDE DEF less, n, d
<1>7. \A k \in 1..(n - 1) : p[k] \in 1..(d - 1)
  <2> SUFFICES ASSUME NEW k \in 1..(n - 1) PROVE p[k] \in 1..(d - 1)
    OBVIOUS
  <2>1. k \in 1..n /\ n \in 1..n /\ k < n
    BY <1>0
  <2>2. p[k] < p[n] /\ p[n] = d /\ p[k] \in 1..d
    BY <1>1, <1>2, <1>3, <2>1
  <2> QED
    BY <1>0, <2>2
<1>8. q \in [1..(n - 1) -> 1..d]
  BY <1>0, <1>7
<1> HIDE DEF q
<1>9. \A j, k \in 1..(n - 1) : j < k => q[j] < q[k]
  BY <1>1, <1>6
<1>10. \A k \in 1..(n - 1) : Computes(b[q[k]]) /\ b[q[k]].seq = less[k]
  <2> SUFFICES ASSUME NEW k \in 1..(n - 1)
               PROVE  Computes(b[q[k]]) /\ b[q[k]].seq = less[k]
    OBVIOUS
  <2>1. k \in 1..n /\ q[k] = p[k] /\ p[k] \in 1..(d - 1) /\ less[k] = names[k]
    BY <1>5, <1>6, <1>7 DEF n
  <2>2. Computes(a[p[k]]) /\ a[p[k]].seq = names[k]
    BY <1>1, <2>1
  <2>3. b[p[k]] = a[p[k]]
    BY <2>1 DEF d
  <2> QED
    BY <2>1, <2>2, <2>3
<1>11. \A i \in 1..d : Computes(b[i]) => \E k \in 1..(n - 1) : q[k] = i
  <2> SUFFICES ASSUME NEW i \in 1..d, Computes(b[i])
               PROVE  \E k \in 1..(n - 1) : q[k] = i
    OBVIOUS
  <2>1. i # d
    BY DEF d
  <2>2. i \in 1..(d - 1)
    BY <1>0, <2>1
  <2>3. Computes(a[i])
    BY <2>2 DEF d
  <2>4. PICK k \in 1..n : p[k] = i
    BY <1>1, <2>3
  <2>5. k # n
    BY <1>2, <1>3, <2>1, <2>4
  <2>6. k \in 1..(n - 1)
    BY <1>0, <2>5
  <2> QED
    BY <1>6, <2>4, <2>6
<1>12. Len(b) = d /\ Len(less) = n - 1
  BY <1>5 DEF d
<1>13. /\ q \in [1..Len(less) -> 1..Len(b)]
       /\ \A j, k \in 1..Len(less) : j < k => q[j] < q[k]
       /\ \A k \in 1..Len(less) : Computes(b[q[k]]) /\ b[q[k]].seq = less[k]
       /\ \A i \in 1..Len(b) : Computes(b[i]) => \E k \in 1..Len(less) : q[k] = i
  BY <1>8, <1>9, <1>10, <1>11, <1>12
<1>14. Mirror(b, less)
  BY <1>13, Zenon DEF Mirror
<1> QED
  BY <1>14 DEF less

\* What any step does to the stacks, the slots and tl_realizing.
Calls(t) ==
    /\ \E s \in Seqs :
         /\ frames' = [frames EXCEPT ![t] = Append(@, Frame(s))]
         /\ frames[t] = <<>> \/ (frames[t] # <<>> /\ s \in Reads[Top(t).seq])
    /\ UNCHANGED <<slot, realizing>>

Moves(t, f) == frames[t] # <<>> /\ f \in Frames /\ InTop(t, f) /\ f.seq = Top(t).seq

Holding == {"run", "publish", "unclaim"}

\* The innermost call goes on; claims; has run its thunk; gives up or publishes.
GoesOn(t, f) ==
    /\ UNCHANGED <<slot, realizing>>
    /\ Computes(f) <=> Computes(Top(t))
    /\ Top(t).seq \notin Pure /\ Top(t).pc \in Holding => f.pc \in Holding
Claims(t, f) ==
    /\ Top(t).pc = "claim" /\ f.pc = "run" /\ f.seq \notin Pure
    /\ slot' = [slot EXCEPT ![f.seq] = "claimed"]
    /\ realizing' = [realizing EXCEPT ![t] = Append(realizing[t], f.seq)]
HasRun(t, f) ==
    /\ Top(t).pc = "run" /\ f.pc \in {"publish", "unclaim"} /\ f.seq \notin Pure
    /\ UNCHANGED slot
    /\ realizing' = [realizing EXCEPT ![t] = Pop(realizing[t])]
Releases(t, f) ==
    /\ Top(t).pc \in {"publish", "unclaim"} /\ f.pc = "return"
    /\ UNCHANGED realizing
    /\ \E new \in {"realized", "unrealized"} : slot' = [slot EXCEPT ![f.seq] = new]

\* Every step is of one of these kinds.
LEMMA NextShape ==
    ASSUME IInv, Next
    PROVE  \E t \in Threads :
             \/ Calls(t)
             \/ Return(t)
             \/ \E f \in Frames :
                  Moves(t, f) /\ (GoesOn(t, f) \/ Claims(t, f) \/ HasRun(t, f) \/ Releases(t, f))
<1> DEFINE Shape(t) ==
             \/ Calls(t)
             \/ Return(t)
             \/ \E f \in Frames :
                  Moves(t, f) /\ (GoesOn(t, f) \/ Claims(t, f) \/ HasRun(t, f) \/ Releases(t, f))
<1>1. ASSUME NEW t \in Threads, NEW s \in Seqs, Read(t, s) PROVE Shape(t)
  <2>1. frames[t] = <<>> /\ <<Frame(s)>> = Append(frames[t], Frame(s))
    BY <1>1 DEF Read
  <2> QED
    BY <1>1, <2>1 DEF Read, Calls
<1>2. ASSUME NEW t \in Threads, frames[t] # <<>>, Top(t).pc # "return"
      PROVE  /\ Top(t) \in Frames /\ Top(t).seq \in Seqs
             /\ \A label \in Pcs :
                  LET f == [Top(t) EXCEPT !.pc = label]
                  IN  Goto(t, label) => f \in Frames /\ Moves(t, f) /\ f.pc = label
             /\ \A v \in Values \cup {None, Raised} :
                  LET f == [Top(t) EXCEPT !.pc = "return", !.value = v]
                  IN  Answer(t, v) => f \in Frames /\ Moves(t, f) /\ f.pc = "return"
  <2>1. Top(t) \in Frames /\ Top(t).seq \in Seqs
    BY <1>2, TopFacts DEF IInv
  <2>2. ASSUME NEW label \in Pcs, Goto(t, label)
        PROVE  LET f == [Top(t) EXCEPT !.pc = label]
               IN  f \in Frames /\ Moves(t, f) /\ f.pc = label
    BY <1>2, <2>1, <2>2, GotoFrame DEF Goto, Moves
  <2>3. ASSUME NEW v \in Values \cup {None, Raised}, Answer(t, v)
        PROVE  LET f == [Top(t) EXCEPT !.pc = "return", !.value = v]
               IN  f \in Frames /\ Moves(t, f) /\ f.pc = "return"
    BY <1>2, <2>1, <2>3, AnswerFrame DEF Answer, Moves
  <2> QED
    BY <2>1, <2>2, <2>3
<1>3. ASSUME NEW t \in Threads, NEW s \in Seqs, ThunkReads(t, s) PROVE Shape(t)
  <2>1. frames[t] # <<>> /\ Top(t).pc = "run" /\ s \in Reads[Top(t).seq]
    BY <1>3 DEF ThunkReads, At
  <2>2. CASE Depth(t) < MaxDepth
    BY <1>3, <2>1, <2>2 DEF ThunkReads, Calls
  <2>3. CASE ~(Depth(t) < MaxDepth)
    <3> DEFINE f == [Top(t) EXCEPT !.hurt = TRUE]
    <3>0. Top(t) \in Frames
      BY <2>1, TopFacts DEF IInv
    <3>1. f \in Frames /\ f.seq = Top(t).seq /\ f.pc = "run"
      BY <2>1, <3>0 DEF Frames, Pcs
    <3>2. InTop(t, f) /\ UNCHANGED <<slot, realizing>>
      BY <1>3, <2>3 DEF ThunkReads
    <3> HIDE DEF f
    <3> QED
      BY <2>1, <3>1, <3>2 DEF Moves, GoesOn, Computes, Holding
  <2> QED
    BY <2>2, <2>3
<1>4. ASSUME NEW t \in Threads, Look(t) PROVE Shape(t)
  <2>1. /\ frames[t] # <<>> /\ Top(t).pc = "look" /\ UNCHANGED <<slot, realizing>>
        /\ Top(t).seq \in Seqs /\ published[Top(t).seq] \in Values \cup {None, Raised}
    BY <1>4, TopFacts DEF Look, At, IInv, TypeOK
  <2>2. PICK f \in Frames : Moves(t, f) /\ f.pc \in {"return", "produce"}
    <3> DEFINE v == published[Top(t).seq]
    <3>1. CASE Answer(t, v)
      BY <1>2, <2>1, <3>1
    <3>2. CASE Answer(t, Raised)
      BY <1>2, <2>1, <3>2
    <3>3. CASE Goto(t, "produce")
      BY <1>2, <2>1, <3>3 DEF Pcs
    <3> QED
      BY <1>4, <3>1, <3>2, <3>3 DEF Look
  <2> QED
    BY <2>1, <2>2 DEF GoesOn, Computes, Holding
<1>5. ASSUME NEW t \in Threads, Produce(t) PROVE Shape(t)
  <2>1. frames[t] # <<>> /\ Top(t).pc = "produce" /\ UNCHANGED <<slot, realizing>>
    BY <1>5 DEF Produce, At
  <2>2. PICK f \in Frames : Moves(t, f) /\ f.pc \in {"look", "run", "claim"}
                             /\ (f.pc = "run" => Top(t).seq \in Pure)
    BY <1>2, <1>5, <2>1 DEF Produce, Pcs
  <2> QED
    BY <2>1, <2>2 DEF GoesOn, Computes, Holding, Moves
<1>6. ASSUME NEW t \in Threads, Claim(t) PROVE Shape(t)
  <2>1. frames[t] # <<>> /\ Top(t).pc = "claim" /\ Top(t).seq \notin Pure
    BY <1>6, TopFacts DEF Claim, At, IInv, ClaimersImpure
  <2>2. CASE slot[Top(t).seq] = "unrealized"
    <3>1. PICK f \in Frames : Moves(t, f) /\ f.pc = "run"
      BY <1>2, <1>6, <2>1, <2>2 DEF Claim, Pcs
    <3> QED
      BY <1>6, <2>1, <2>2, <3>1 DEF Claim, Claims, Moves
  <2>3. CASE slot[Top(t).seq] # "unrealized"
    <3>1. PICK f \in Frames : Moves(t, f) /\ f.pc = "look"
      BY <1>2, <1>6, <2>1, <2>3 DEF Claim, Pcs
    <3>2. UNCHANGED <<slot, realizing>>
      BY <1>6, <2>3 DEF Claim
    <3> QED
      BY <2>1, <3>1, <3>2 DEF GoesOn, Computes, Holding
  <2> QED
    BY <2>2, <2>3
<1>7. ASSUME NEW t \in Threads, NEW v \in Values, ThunkReturns(t, v) PROVE Shape(t)
  <2> DEFINE f == [Top(t) EXCEPT !.pc = "publish", !.value = v]
  <2>1. frames[t] # <<>> /\ Top(t).pc = "run" /\ InTop(t, f) /\ slot' = slot
    BY <1>7 DEF ThunkReturns, At
  <2>0. Top(t) \in Frames
    BY <2>1, TopFacts DEF IInv
  <2>2. f \in Frames /\ f.seq = Top(t).seq /\ f.pc = "publish"
    BY <2>0 DEF Frames, Pcs
  <2> HIDE DEF f
  <2>3. CASE Top(t).seq \in Pure
    <3>1. realizing' = [realizing EXCEPT ![t] = @]
      BY <1>7, <2>3 DEF ThunkReturns
    <3>2. realizing' = realizing
      BY <3>1 DEF IInv, TypeOK
    <3> QED
      BY <2>1, <2>2, <2>3, <3>2 DEF Moves, GoesOn, Computes, Holding
  <2>4. CASE Top(t).seq \notin Pure
    BY <1>7, <2>1, <2>2, <2>4 DEF ThunkReturns, Moves, HasRun
  <2> QED
    BY <2>3, <2>4
<1>8. ASSUME NEW t \in Threads, ThunkRaises(t) PROVE Shape(t)
  <2>1. frames[t] # <<>> /\ Top(t).pc = "run" /\ slot' = slot
    BY <1>8 DEF ThunkRaises, At
  <2>2. CASE Top(t).seq \in Pure
    <3>1. PICK f \in Frames : Moves(t, f) /\ f.pc = "return"
      BY <1>2, <1>8, <2>1, <2>2 DEF ThunkRaises
    <3>2. realizing' = realizing
      BY <1>8, <2>2 DEF ThunkRaises
    <3> QED
      BY <2>1, <2>2, <3>1, <3>2 DEF GoesOn, Computes, Moves
  <2>3. CASE Top(t).seq \notin Pure
    <3>1. PICK f \in Frames : Moves(t, f) /\ f.pc = "unclaim"
      BY <1>2, <1>8, <2>1, <2>3 DEF ThunkRaises, Pcs
    <3> QED
      BY <1>8, <2>1, <2>3, <3>1 DEF ThunkRaises, HasRun, Moves
  <2> QED
    BY <2>2, <2>3
<1>9. ASSUME NEW t \in Threads, Unclaim(t) PROVE Shape(t)
  <2>1. frames[t] # <<>> /\ Top(t).pc = "unclaim"
    BY <1>9 DEF Unclaim, At
  <2>2. PICK f \in Frames : Moves(t, f) /\ f.pc = "return"
    BY <1>2, <1>9, <2>1 DEF Unclaim
  <2> QED
    BY <1>9, <2>1, <2>2 DEF Unclaim, Releases, Moves
<1>10. ASSUME NEW t \in Threads, Publish(t) PROVE Shape(t)
  <2>1. /\ frames[t] # <<>> /\ Top(t).pc = "publish" /\ realizing' = realizing
        /\ Top(t).seq \in Seqs
        /\ Top(t).seq \notin Pure => slot[Top(t).seq] = "claimed"
    BY <1>10, TopFacts DEF Publish, At, IInv, OneHolder, Holds
  <2>2. CASE slot[Top(t).seq] = "realized"
    <3>1. Top(t).seq \in Pure
      BY <2>1, <2>2
    <3>2. Goto(t, "look") /\ slot' = slot
      BY <1>10, <2>2, <3>1 DEF Publish
    <3>3. PICK f \in Frames : Moves(t, f) /\ f.pc = "look"
      BY <1>2, <2>1, <3>2 DEF Pcs
    <3> QED
      BY <2>1, <3>1, <3>2, <3>3 DEF GoesOn, Computes, Moves
  <2>3. CASE slot[Top(t).seq] # "realized"
    <3>0. Top(t) \in Frames
      BY <2>1, TopFacts DEF IInv
    <3>1. Answer(t, Top(t).value) /\ Top(t).value \in Values \cup {None, Raised}
      BY <1>10, <2>3, <3>0 DEF Publish, Frames
    <3>2. PICK f \in Frames : Moves(t, f) /\ f.pc = "return"
      BY <1>2, <2>1, <3>1
    <3> QED
      BY <1>10, <2>1, <2>3, <3>2 DEF Publish, Releases, Moves
  <2> QED
    BY <2>2, <2>3
<1>11. ASSUME NEW t \in Threads, Return(t) PROVE Shape(t)
  BY <1>11
<1> HIDE DEF Shape
<1>12. \E t \in Threads : Shape(t)
  BY <1>1, <1>3, <1>4, <1>5, <1>6, <1>7, <1>8, <1>9, <1>10, <1>11 DEF Next, Step, ThunkEnds
<1> QED
  BY <1>12 DEF Shape

\* What a step leaves of the stacks.
LEMMA MovesEffect ==
    ASSUME TypeOK, NEW t \in Threads, NEW f \in Frames, Moves(t, f)
    PROVE  /\ Depth(t) \in Nat \ {0}
           /\ Depth(t) = Len(frames[t])
           /\ Top(t) = frames[t][Depth(t)]
           /\ f.seq = Top(t).seq
           /\ f.seq \in Seqs
           /\ frames' \in [Threads -> Seq(Frames)]
           /\ frames'[t][Depth(t)] = f
           /\ \A u \in Threads : Len(frames'[u]) = Len(frames[u])
           /\ \A u \in Threads : \A i \in 1..Len(frames[u]) :
                frames'[u][i] = IF u = t /\ i = Depth(t) THEN f ELSE frames[u][i]
<1>1. frames[t] # <<>> /\ InTop(t, f) /\ f.seq = Top(t).seq
  BY DEF Moves
<1>2. /\ Depth(t) = Len(frames[t]) /\ Depth(t) \in 1..Len(frames[t])
      /\ Top(t) = frames[t][Depth(t)] /\ Top(t).seq \in Seqs
  BY <1>1, TopFacts
<1> QED
  BY <1>1, <1>2, InTopEffect

\* tl_realizing goes on naming what the calls compute.
LEMMA MirrorsStep == IInv /\ Mirrors /\ [Next]_vars => Mirrors'
<1> SUFFICES ASSUME IInv, Mirrors, Next PROVE Mirrors'
  BY DEF vars, Mirrors
<1>0. /\ TypeOK /\ TypeOK'
      /\ \A u \in Threads : /\ frames[u] \in Seq(Frames) /\ frames'[u] \in Seq(Frames)
                            /\ realizing[u] \in Seq(Seqs) /\ realizing'[u] \in Seq(Seqs)
                            /\ Mirror(frames[u], realizing[u])
  BY InvStep DEF IInv, TypeOK, Mirrors
<1>1. ASSUME realizing' = realizing,
             \A u \in Threads : \A i \in 1..Len(frames[u]) : Computes(frames[u][i]) =>
               /\ i \in 1..Len(frames'[u]) /\ Computes(frames'[u][i])
               /\ frames'[u][i].seq = frames[u][i].seq,
             \A u \in Threads : \A i \in 1..Len(frames'[u]) : Computes(frames'[u][i]) =>
               i \in 1..Len(frames[u]) /\ Computes(frames[u][i])
      PROVE  Mirrors'
  <2> SUFFICES ASSUME NEW u \in Threads PROVE Mirror(frames'[u], realizing[u])
    BY <1>1 DEF Mirrors
  <2> QED
    BY <1>0, <1>1, MirrorKept
<1>2. PICK t \in Threads :
        \/ Calls(t)
        \/ Return(t)
        \/ \E f \in Frames :
             Moves(t, f) /\ (GoesOn(t, f) \/ Claims(t, f) \/ HasRun(t, f) \/ Releases(t, f))
  BY NextShape
<1>3. CASE Calls(t)
  <2>1. PICK s \in Seqs : frames' = [frames EXCEPT ![t] = Append(@, Frame(s))]
    BY <1>3 DEF Calls
  <2>2. /\ Depth(t) \in Nat /\ Depth(t) = Len(frames[t])
        /\ Len(frames'[t]) = Depth(t) + 1
        /\ \A u \in Threads \ {t} : Len(frames'[u]) = Len(frames[u])
        /\ \A u \in Threads : \A i \in 1..Len(frames[u]) : frames'[u][i] = frames[u][i]
        /\ frames'[t][Depth(t) + 1] = Frame(s)
    BY <1>0, <2>1, PushEffect DEF Depth
  <2>3. ~Computes(Frame(s))
    BY DEF Computes, Frame
  <2>4. ASSUME NEW u \in Threads, NEW i \in 1..Len(frames[u]), Computes(frames[u][i])
        PROVE  /\ i \in 1..Len(frames'[u]) /\ Computes(frames'[u][i])
               /\ frames'[u][i].seq = frames[u][i].seq
    BY <2>2, <2>4
  <2>5. ASSUME NEW u \in Threads, NEW i \in 1..Len(frames'[u]), Computes(frames'[u][i])
        PROVE  i \in 1..Len(frames[u]) /\ Computes(frames[u][i])
    BY <2>2, <2>3, <2>5
  <2>6. realizing' = realizing
    BY <1>3 DEF Calls
  <2> QED
    BY <1>1, <2>4, <2>5, <2>6
<1>4. CASE Return(t)
  <2>0. realizing' = realizing
    BY <1>4 DEF Return
  <2>1. /\ Len(frames'[t]) = Depth(t) - 1 /\ Depth(t) \in Nat \ {0}
        /\ \A u \in Threads \ {t} : Len(frames'[u]) = Len(frames[u])
        /\ \A u \in Threads : \A i \in 1..Len(frames'[u]) :
             /\ i \in 1..Len(frames[u])
             /\ frames'[u][i].seq = frames[u][i].seq
             /\ frames'[u][i].pc = frames[u][i].pc
        /\ realizing' = realizing
    BY <1>0, <1>4, <2>0, ReturnEffect
  <2>2. Depth(t) = Len(frames[t]) /\ frames[t][Depth(t)].pc = "return"
    BY <1>4 DEF Return, At, Top, Depth
  <2>3. ASSUME NEW u \in Threads, NEW i \in 1..Len(frames[u]), Computes(frames[u][i])
        PROVE  /\ i \in 1..Len(frames'[u]) /\ Computes(frames'[u][i])
               /\ frames'[u][i].seq = frames[u][i].seq
    <3>1. ~(u = t /\ i = Depth(t))
      BY <2>2, <2>3 DEF Computes
    <3>2. i \in 1..Len(frames'[u])
      BY <2>1, <2>2, <3>1
    <3> QED
      BY <2>1, <2>3, <3>2 DEF Computes
  <2>4. ASSUME NEW u \in Threads, NEW i \in 1..Len(frames'[u]), Computes(frames'[u][i])
        PROVE  i \in 1..Len(frames[u]) /\ Computes(frames[u][i])
    BY <2>1, <2>4 DEF Computes
  <2> QED
    BY <1>1, <2>1, <2>3, <2>4
<1>5. ASSUME NEW f \in Frames, Moves(t, f), GoesOn(t, f) \/ Releases(t, f)
      PROVE  Mirrors'
  <2>1. /\ Top(t) = frames[t][Depth(t)] /\ f.seq = Top(t).seq
        /\ \A u \in Threads : Len(frames'[u]) = Len(frames[u])
        /\ \A u \in Threads : \A i \in 1..Len(frames[u]) :
             frames'[u][i] = IF u = t /\ i = Depth(t) THEN f ELSE frames[u][i]
    BY <1>0, <1>5, MovesEffect
  <2>2. realizing' = realizing /\ (Computes(f) <=> Computes(Top(t)))
    BY <1>5 DEF GoesOn, Releases, Computes
  <2>3. ASSUME NEW u \in Threads, NEW i \in 1..Len(frames[u]), Computes(frames[u][i])
        PROVE  /\ i \in 1..Len(frames'[u]) /\ Computes(frames'[u][i])
               /\ frames'[u][i].seq = frames[u][i].seq
    BY <2>1, <2>2, <2>3
  <2>4. ASSUME NEW u \in Threads, NEW i \in 1..Len(frames'[u]), Computes(frames'[u][i])
        PROVE  i \in 1..Len(frames[u]) /\ Computes(frames[u][i])
    BY <2>1, <2>2, <2>4
  <2> QED
    BY <1>1, <2>2, <2>3, <2>4
<1>6. ASSUME NEW f \in Frames, Moves(t, f), Claims(t, f) \/ HasRun(t, f)
      PROVE  Mirrors'
  <2>1. /\ Depth(t) \in Nat \ {0} /\ Depth(t) = Len(frames[t])
        /\ Top(t) = frames[t][Depth(t)] /\ f.seq = Top(t).seq /\ f.seq \in Seqs
        /\ frames'[t][Depth(t)] = f
        /\ \A u \in Threads : Len(frames'[u]) = Len(frames[u])
        /\ \A u \in Threads : \A i \in 1..Len(frames[u]) :
             frames'[u][i] = IF u = t /\ i = Depth(t) THEN f ELSE frames[u][i]
    BY <1>0, <1>6, MovesEffect
  <2>2. \A i \in 1..(Len(frames[t]) - 1) : frames'[t][i] = frames[t][i]
    BY <2>1
  <2>3. ASSUME NEW u \in Threads, u # t
        PROVE  Mirror(frames'[u], realizing'[u])
    <3>1. Len(frames'[u]) = Len(frames[u]) /\ \A i \in 1..Len(frames[u]) : frames'[u][i] = frames[u][i]
      BY <2>1, <2>3
    <3>2. realizing'[u] = realizing[u]
      BY <1>0, <1>6, <2>3 DEF Claims, HasRun, TypeOK
    <3> QED
      BY <1>0, <3>1, <3>2, MirrorKept
  <2>4. frames[t] # <<>>
    BY <1>6 DEF Moves
  <2>5. CASE Claims(t, f)
    <3>1. realizing'[t] = Append(realizing[t], f.seq) /\ ~Computes(Top(t)) /\ Computes(f)
      BY <1>0, <2>5 DEF Claims, Computes, TypeOK
    <3>2. Mirror(frames'[t], Append(realizing[t], f.seq))
      BY <1>0, <2>1, <2>2, <2>4, <3>1, MirrorPushed
    <3> QED
      BY <2>3, <3>1, <3>2 DEF Mirrors
  <2>6. CASE HasRun(t, f)
    <3>1. realizing'[t] = Pop(realizing[t]) /\ Computes(Top(t)) /\ ~Computes(f)
      BY <1>0, <2>1, <2>6 DEF HasRun, Computes, TypeOK
    <3>2. Mirror(frames'[t], Pop(realizing[t]))
      BY <1>0, <2>1, <2>2, <2>4, <3>1, MirrorPopped
    <3> QED
      BY <2>3, <3>1, <3>2 DEF Mirrors
  <2> QED
    BY <1>6, <2>5, <2>6
<1> QED
  BY <1>2, <1>3, <1>4, <1>5, <1>6

\* A claim goes with the call that made it.
LEMMA ClaimedStep == IInv /\ ClaimedHeld /\ [Next]_vars => ClaimedHeld'
<1> SUFFICES ASSUME IInv, ClaimedHeld, Next PROVE ClaimedHeld'
  BY DEF vars, ClaimedHeld, Holds
<1>0. TypeOK
  BY DEF IInv
<1> SUFFICES ASSUME NEW s \in Seqs, slot'[s] = "claimed"
             PROVE  s \notin Pure /\ \E t \in Threads : \E i \in 1..Len(frames'[t]) : Holds(t, i, s)'
  BY DEF ClaimedHeld
<1>1. ASSUME slot[s] = "claimed",
             \A u \in Threads : \A i \in 1..Len(frames[u]) : Holds(u, i, s) =>
               i \in 1..Len(frames'[u]) /\ Holds(u, i, s)'
      PROVE  s \notin Pure /\ \E t \in Threads : \E i \in 1..Len(frames'[t]) : Holds(t, i, s)'
  BY <1>1 DEF ClaimedHeld
<1>2. PICK t \in Threads :
        \/ Calls(t)
        \/ Return(t)
        \/ \E f \in Frames :
             Moves(t, f) /\ (GoesOn(t, f) \/ Claims(t, f) \/ HasRun(t, f) \/ Releases(t, f))
  BY NextShape
<1>3. CASE Calls(t)
  <2>1. PICK r \in Seqs : frames' = [frames EXCEPT ![t] = Append(@, Frame(r))]
    BY <1>3 DEF Calls
  <2>2. /\ Depth(t) \in Nat /\ Depth(t) = Len(frames[t])
        /\ Len(frames'[t]) = Depth(t) + 1
        /\ \A u \in Threads \ {t} : Len(frames'[u]) = Len(frames[u])
        /\ \A u \in Threads : \A i \in 1..Len(frames[u]) : frames'[u][i] = frames[u][i]
    BY <1>0, <2>1, PushEffect DEF Depth
  <2>3. \A u \in Threads : \A i \in 1..Len(frames[u]) : i \in 1..Len(frames'[u])
    BY <2>2
  <2>4. slot[s] = "claimed"
    BY <1>3 DEF Calls
  <2> QED
    BY <1>1, <2>2, <2>3, <2>4 DEF Holds
<1>4. CASE Return(t)
  <2>0. slot' = slot
    BY <1>4 DEF Return
  <2>1. /\ Len(frames'[t]) = Depth(t) - 1 /\ Depth(t) \in Nat \ {0}
        /\ \A u \in Threads \ {t} : Len(frames'[u]) = Len(frames[u])
        /\ \A u \in Threads : \A i \in 1..Len(frames'[u]) :
             /\ frames'[u][i].seq = frames[u][i].seq
             /\ frames'[u][i].pc = frames[u][i].pc
        /\ slot' = slot
    BY <1>0, <1>4, <2>0, ReturnEffect
  <2>2. Depth(t) = Len(frames[t]) /\ frames[t][Depth(t)].pc = "return"
    BY <1>4 DEF Return, At, Top, Depth
  <2>3. ASSUME NEW u \in Threads, NEW i \in 1..Len(frames[u]), Holds(u, i, s)
        PROVE  i \in 1..Len(frames'[u]) /\ Holds(u, i, s)'
    <3>1. ~(u = t /\ i = Depth(t))
      BY <2>2, <2>3 DEF Holds
    <3>2. i \in 1..Len(frames'[u])
      BY <2>1, <2>2, <3>1
    <3> QED
      BY <2>1, <2>3, <3>2 DEF Holds
  <2> QED
    BY <1>1, <2>1, <2>3
<1>5. ASSUME NEW f \in Frames, Moves(t, f),
             GoesOn(t, f) \/ Claims(t, f) \/ HasRun(t, f) \/ Releases(t, f)
      PROVE  s \notin Pure /\ \E u \in Threads : \E i \in 1..Len(frames'[u]) : Holds(u, i, s)'
  <2>1. /\ Depth(t) \in Nat \ {0} /\ Depth(t) = Len(frames[t])
        /\ Top(t) = frames[t][Depth(t)] /\ f.seq = Top(t).seq /\ f.seq \in Seqs
        /\ frames'[t][Depth(t)] = f
        /\ \A u \in Threads : Len(frames'[u]) = Len(frames[u])
        /\ \A u \in Threads : \A i \in 1..Len(frames[u]) :
             frames'[u][i] = IF u = t /\ i = Depth(t) THEN f ELSE frames[u][i]
    BY <1>0, <1>5, MovesEffect
  <2>2. CASE Claims(t, f)
    <3>1. CASE f.seq = s
      <4>1. s \notin Pure /\ f.pc = "run"
        BY <2>2, <3>1 DEF Claims
      <4>2. Depth(t) \in 1..Len(frames'[t])
        BY <2>1
      <4> QED
        BY <2>1, <3>1, <4>1, <4>2 DEF Holds
    <3>2. CASE f.seq # s
      <4>1. slot[s] = "claimed"
        BY <1>0, <2>1, <2>2, <3>2 DEF Claims, TypeOK
      <4> QED
        BY <1>1, <2>1, <3>2, <4>1 DEF Holds
    <3> QED
      BY <3>1, <3>2
  <2>3. CASE Releases(t, f)
    <3>1. f.seq # s /\ slot[s] = "claimed"
      BY <1>0, <2>1, <2>3 DEF Releases, TypeOK
    <3> QED
      BY <1>1, <2>1, <3>1 DEF Holds
  <2>4. CASE GoesOn(t, f) \/ HasRun(t, f)
    <3>1. slot[s] = "claimed" /\ s \notin Pure
      BY <2>4 DEF GoesOn, HasRun, ClaimedHeld
    <3>2. f.seq = s /\ Top(t).pc \in Holding => f.pc \in Holding
      BY <2>1, <2>4, <3>1 DEF GoesOn, HasRun, Holding
    <3> QED
      BY <1>1, <2>1, <3>1, <3>2 DEF Holds, Holding
  <2> QED
    BY <1>5, <2>2, <2>3, <2>4
<1> QED
  BY <1>2, <1>3, <1>4, <1>5

\* Ranks fall along a stack.
LEMMA RanksStep ==
    ASSUME NEW Rank, ReadsRanked(Rank), IInv, RanksFall(Rank), [Next]_vars
    PROVE  RanksFall(Rank)'
<1>0. TypeOK /\ TypeOK'
  BY InvStep DEF IInv
<1>1. ASSUME \A u \in Threads : \A i \in 1..Len(frames'[u]) :
               i \in 1..Len(frames[u]) /\ frames'[u][i].seq = frames[u][i].seq
      PROVE  RanksFall(Rank)'
  BY <1>1 DEF RanksFall
<1>2. CASE UNCHANGED vars
  BY <1>1, <1>2 DEF vars
<1>3. CASE Next
  <2>1. PICK t \in Threads :
          \/ Calls(t)
          \/ Return(t)
          \/ \E f \in Frames :
               Moves(t, f) /\ (GoesOn(t, f) \/ Claims(t, f) \/ HasRun(t, f) \/ Releases(t, f))
    BY <1>3, NextShape
  <2>2. CASE Return(t)
    BY <1>0, <1>1, <2>2, ReturnEffect
  <2>3. ASSUME NEW f \in Frames, Moves(t, f) PROVE RanksFall(Rank)'
    <3>1. /\ Top(t) = frames[t][Depth(t)] /\ f.seq = Top(t).seq
          /\ \A u \in Threads : Len(frames'[u]) = Len(frames[u])
          /\ \A u \in Threads : \A i \in 1..Len(frames[u]) :
               frames'[u][i] = IF u = t /\ i = Depth(t) THEN f ELSE frames[u][i]
      BY <1>0, <2>3, MovesEffect
    <3> QED
      BY <1>1, <3>1
  <2>4. CASE Calls(t)
    <3>1. PICK s \in Seqs :
            /\ frames' = [frames EXCEPT ![t] = Append(@, Frame(s))]
            /\ frames[t] = <<>> \/ (frames[t] # <<>> /\ s \in Reads[Top(t).seq])
      BY <2>4 DEF Calls
    <3>2. /\ Depth(t) \in Nat /\ Depth(t) = Len(frames[t])
          /\ Len(frames'[t]) = Depth(t) + 1
          /\ \A u \in Threads \ {t} : Len(frames'[u]) = Len(frames[u])
          /\ \A u \in Threads : \A i \in 1..Len(frames[u]) : frames'[u][i] = frames[u][i]
          /\ frames'[t][Depth(t) + 1] = Frame(s)
      BY <1>0, <3>1, PushEffect DEF Depth
    <3> SUFFICES ASSUME NEW u \in Threads, NEW i \in 1..Len(frames'[u]), NEW j \in 1..Len(frames'[u]),
                        i < j
                 PROVE  Rank[frames'[u][j].seq] <= Rank[frames'[u][i].seq]
      BY DEF RanksFall
    <3>3. CASE j \in 1..Len(frames[u])
      <4>1. i \in 1..Len(frames[u])
        BY <3>2, <3>3
      <4> QED
        BY <3>2, <3>3, <4>1 DEF RanksFall
    <3>4. CASE u = t /\ j = Depth(t) + 1
      <4>1. i \in 1..Len(frames[t]) /\ frames[t] # <<>> /\ frames'[u][i] = frames[t][i]
        BY <3>2, <3>4
      <4>2. /\ Top(t).seq \in Seqs /\ Top(t) = frames[t][Depth(t)]
            /\ Depth(t) \in 1..Len(frames[t])
        BY <1>0, <4>1, TopFacts
      <4>3. frames'[u][j].seq = s /\ Rank[s] <= Rank[Top(t).seq]
        BY <3>1, <3>2, <3>4, <4>1, <4>2 DEF ReadsRanked, Frame
      <4>4. Rank[Top(t).seq] <= Rank[frames[t][i].seq]
        <5>1. CASE i = Depth(t)
          BY <4>2, <5>1 DEF ReadsRanked
        <5>2. CASE i # Depth(t)
          <6>1. i < Depth(t)
            BY <3>2, <4>1, <5>2
          <6> QED
            BY <4>1, <4>2, <6>1 DEF RanksFall
        <5> QED
          BY <5>1, <5>2
      <4>5. frames[t][i].seq \in Seqs
        <5>1. frames[t][i] \in Frames
          BY <1>0, <4>1 DEF TypeOK
        <5> QED
          BY <5>1 DEF Frames
      <4>6. Rank[s] \in Nat /\ Rank[Top(t).seq] \in Nat /\ Rank[frames[t][i].seq] \in Nat
        BY <4>2, <4>5 DEF ReadsRanked
      <4> QED
        BY <4>1, <4>3, <4>4, <4>6
    <3> QED
      BY <3>2, <3>3, <3>4
  <2> QED
    BY <2>1, <2>2, <2>3, <2>4
<1> QED
  BY <1>2, <1>3

-----------------------------------------------------------------------------
(* Waiting and raising. *)

\* The reader stays in waitABit: Look has no step for it.
Waits(t) ==
    /\ At(t, "look")
    /\ slot[Top(t).seq] = "claimed"
    /\ ~\E k \in DOMAIN realizing[t] : realizing[t][k] = Top(t).seq

HoldsSeq(u, s) == \E i \in 1..Len(frames[u]) : Holds(u, i, s)

WaitsFor(t, u) == Waits(t) /\ HoldsSeq(u, Top(t).seq)

\* A reader that finds a seq claimed raises when it is computing the seq itself,
\* and waits when another thread is: it is never the one, or the other, by mistake.
SelfReadKnown ==
    \A t \in Threads : At(t, "look") /\ slot[Top(t).seq] = "claimed" =>
        (Waits(t) <=> \E u \in Threads \ {t} : HoldsSeq(u, Top(t).seq))

\* No threads wait for each other in a circle, of whatever length.
NoWaitCycle ==
    \A W \in SUBSET Threads : W # {} => \E t \in W : \A u \in W : ~WaitsFor(t, u)

\* As long as somebody reads, some reader does not wait.
SomeReaderGoesOn ==
    (\E t \in Threads : frames[t] # <<>>) => \E t \in Threads : frames[t] # <<>> /\ ~Waits(t)

\* A thread's own claim is known to it.
LEMMA OwnClaimKnown ==
    ASSUME IInv, Mirrors, NEW t \in Threads, At(t, "look"),
           NEW i \in 1..Len(frames[t]), Holds(t, i, Top(t).seq), Top(t).seq \notin Pure
    PROVE  ~Waits(t)
<1>1. /\ frames[t] # <<>> /\ Top(t).pc = "look" /\ Depth(t) = Len(frames[t])
      /\ Top(t) = frames[t][Depth(t)] /\ Depth(t) \in Nat \ {0}
  BY TopFacts DEF At, IInv
<1>2. i # Depth(t)
  BY <1>1 DEF Holds
<1>3. i < Len(frames[t])
  BY <1>1, <1>2
<1>4. Computes(frames[t][i]) /\ frames[t][i].seq = Top(t).seq
  BY <1>3 DEF IInv, CallersRun, Computes, Holds
<1>5. \E k \in 1..Len(realizing[t]) : realizing[t][k] = Top(t).seq
  <2>1. PICK p \in [1..Len(realizing[t]) -> 1..Len(frames[t])] :
          /\ \A k \in 1..Len(realizing[t]) : frames[t][p[k]].seq = realizing[t][k]
          /\ \A j \in 1..Len(frames[t]) :
               Computes(frames[t][j]) => \E k \in 1..Len(realizing[t]) : p[k] = j
    BY DEF Mirrors, Mirror
  <2> QED
    BY <1>4, <2>1
<1>6. DOMAIN realizing[t] = 1..Len(realizing[t])
  BY DEF IInv, TypeOK
<1> QED
  BY <1>5, <1>6 DEF Waits

\* What a thread knows of it holds.
LEMMA KnownIsOwn ==
    ASSUME IInv, Mirrors, NEW t \in Threads, NEW s,
           NEW k \in DOMAIN realizing[t], realizing[t][k] = s
    PROVE  s \notin Pure /\ \E i \in 1..Len(frames[t]) : Holds(t, i, s)
<1>1. k \in 1..Len(realizing[t])
  BY DEF IInv, TypeOK
<1>2. PICK p \in [1..Len(realizing[t]) -> 1..Len(frames[t])] :
        \A j \in 1..Len(realizing[t]) :
          Computes(frames[t][p[j]]) /\ frames[t][p[j]].seq = realizing[t][j]
  BY DEF Mirrors, Mirror
<1>3. p[k] \in 1..Len(frames[t]) /\ Computes(frames[t][p[k]]) /\ frames[t][p[k]].seq = s
  BY <1>1, <1>2
<1> QED
  BY <1>3 DEF Computes, Holds

\* Whoever waits, waits for another thread.
LEMMA WaitsForAnother ==
    ASSUME IInv, Mirrors, ClaimedHeld
    PROVE  SelfReadKnown
<1> SUFFICES ASSUME NEW t \in Threads, At(t, "look"), slot[Top(t).seq] = "claimed"
             PROVE  Waits(t) <=> \E u \in Threads \ {t} : HoldsSeq(u, Top(t).seq)
  BY DEF SelfReadKnown
<1> DEFINE s == Top(t).seq
<1>1. s \in Seqs
  BY TopFacts DEF At, IInv
<1>2. PICK u \in Threads : s \notin Pure /\ HoldsSeq(u, s)
  BY <1>1 DEF ClaimedHeld, HoldsSeq
<1>3. ASSUME Waits(t) PROVE \E v \in Threads \ {t} : HoldsSeq(v, s)
  BY <1>2, <1>3, OwnClaimKnown DEF HoldsSeq
<1>4. ASSUME ~Waits(t), NEW v \in Threads \ {t}, HoldsSeq(v, s) PROVE FALSE
  <2>1. PICK k \in DOMAIN realizing[t] : realizing[t][k] = s
    BY <1>4 DEF Waits
  <2>2. HoldsSeq(t, s)
    BY <2>1, KnownIsOwn DEF HoldsSeq
  <2> QED
    BY <1>1, <1>2, <1>4, <2>2 DEF HoldsSeq, IInv, OneHolder
<1> QED
  BY <1>3, <1>4

\* At the start there are neither calls nor claims.
LEMMA MirrorsInit == Init => Mirrors /\ ClaimedHeld
<1> SUFFICES ASSUME Init PROVE Mirrors /\ ClaimedHeld
  OBVIOUS
<1>1. \A t \in Threads : /\ frames[t] = <<>> /\ realizing[t] = <<>>
  BY DEF Init
<1>2. Mirror(<<>>, <<>>)
  <2> DEFINE p == [k \in 1..0 |-> 1]
  <2>1. Len(<<>>) = 0 /\ \A k \in 1..0 : FALSE
    OBVIOUS
  <2>2. p \in [1..0 -> 1..0]
    BY <2>1
  <2> QED
    BY <2>1, <2>2 DEF Mirror
<1>3. ClaimedHeld
  BY DEF Init, ClaimedHeld
<1> QED
  BY <1>1, <1>2, <1>3 DEF Mirrors

\* The smallest of a set of natural numbers.
LEMMA Smallest ==
    ASSUME NEW T, T \subseteq Nat, T # {}
    PROVE  \E n \in T : \A m \in T : n <= m
<1> DEFINE R == OpToRel(<, Nat)
<1>1. IsWellFoundedOn(R, Nat)
  BY NatLessThanWellFounded
<1>2. PICK n \in T : \A m \in T : ~(<<m, n>> \in R)
  BY <1>1, WFMin
<1>3. \A m \in T : ~(m < n)
  BY <1>2 DEF OpToRel
<1> HIDE DEF R
<1>4. \A m \in T : n <= m
  BY <1>3
<1> QED
  BY <1>4

\* In a circle, the thread that waits for the seq of the smallest rank would wait
\* for itself.
LEMMA RankedNoCycle ==
    ASSUME NEW Rank, ReadsRanked(Rank), IInv, Mirrors, ClaimedHeld, RanksFall(Rank)
    PROVE  NoWaitCycle
<1> SUFFICES ASSUME NEW W \in SUBSET Threads, W # {},
                    \A t \in W : \E u \in W : WaitsFor(t, u)
             PROVE  FALSE
  BY DEF NoWaitCycle
<1>1. \A t \in W : /\ At(t, "look") /\ frames[t] # <<>> /\ Top(t).seq \in Seqs
                   /\ Rank[Top(t).seq] \in Nat /\ Waits(t)
                   /\ Top(t).seq \notin Pure
  <2> SUFFICES ASSUME NEW t \in W
               PROVE  /\ At(t, "look") /\ frames[t] # <<>> /\ Top(t).seq \in Seqs
                      /\ Rank[Top(t).seq] \in Nat /\ Waits(t)
                      /\ Top(t).seq \notin Pure
    OBVIOUS
  <2>1. Waits(t) /\ At(t, "look") /\ frames[t] # <<>> /\ slot[Top(t).seq] = "claimed"
    BY DEF WaitsFor, Waits, At
  <2>2. Top(t).seq \in Seqs
    BY <2>1, TopFacts DEF IInv
  <2> QED
    BY <2>1, <2>2 DEF ReadsRanked, ClaimedHeld
<1>2. PICK t \in W : \A u \in W : Rank[Top(t).seq] <= Rank[Top(u).seq]
  <2> DEFINE T == {Rank[Top(t).seq] : t \in W}
  <2>1. T \subseteq Nat /\ T # {}
    BY <1>1
  <2>2. PICK n \in T : \A m \in T : n <= m
    BY <2>1, Smallest
  <2> QED
    BY <2>2
<1>3. PICK u \in W : WaitsFor(t, u)
  OBVIOUS
<1>4. PICK i \in 1..Len(frames[u]) : Holds(u, i, Top(t).seq)
  BY <1>3 DEF WaitsFor, HoldsSeq
<1>5. /\ Depth(u) = Len(frames[u]) /\ Depth(u) \in Nat \ {0} /\ Depth(u) \in 1..Len(frames[u])
      /\ Top(u) = frames[u][Depth(u)] /\ Top(u).pc = "look"
  BY <1>1, TopFacts DEF IInv, At
<1>6. i < Depth(u)
  <2>1. i # Depth(u)
    BY <1>4, <1>5 DEF Holds
  <2> QED
    BY <1>5, <2>1
<1>7. Rank[Top(u).seq] <= Rank[Top(t).seq]
  BY <1>4, <1>5, <1>6 DEF RanksFall, Holds
<1>8. Rank[Top(u).seq] = Rank[Top(t).seq]
  BY <1>1, <1>2, <1>7
<1>9. Top(u).seq = Top(t).seq
  BY <1>1, <1>8 DEF ReadsRanked
<1> QED
  BY <1>1, <1>4, <1>9, OwnClaimKnown

-----------------------------------------------------------------------------
(* Theorems. *)

\* tl_realizing tells a thread's own claims from those of the others (realizeLazy,
\* getLazyState): a read of a claimed seq raises when its own computation needs it
\* and waits when another thread computes it, at any depth and through any native
\* steps between.
THEOREM SelfReadKnownTheorem == Spec => []SelfReadKnown
<1>1. Spec => []IInv
  BY InvInit, InvStep, PTL DEF Spec
<1>2. Spec => [](Mirrors /\ ClaimedHeld)
  BY <1>1, MirrorsInit, MirrorsStep, ClaimedStep, PTL DEF Spec
<1> QED
  BY <1>1, <1>2, WaitsForAnother, PTL

\* When no two seqs of Clojure code depend on each other, threads never wait for
\* each other in a circle, however many read however deep (realizeLazy waits with
\* its own claims held).  A seq that depends on itself is covered: it raises.
THEOREM NoWaitCycleTheorem ==
    ASSUME NEW Rank, ReadsRanked(Rank)
    PROVE  Spec => []NoWaitCycle
<1>1. Spec => []IInv
  BY InvInit, InvStep, PTL DEF Spec
<1>2. Spec => []Mirrors
  BY <1>1, MirrorsInit, MirrorsStep, PTL DEF Spec
<1>3. Spec => []ClaimedHeld
  BY <1>1, MirrorsInit, ClaimedStep, PTL DEF Spec
<1>4. Init => RanksFall(Rank)
  <2> SUFFICES ASSUME Init PROVE RanksFall(Rank)
    OBVIOUS
  <2>1. \A t \in Threads : 1..Len(frames[t]) = {}
    BY DEF Init
  <2> QED
    BY <2>1 DEF RanksFall
<1>5. IInv /\ RanksFall(Rank) /\ [Next]_vars => RanksFall(Rank)'
  BY RanksStep
<1>6. Spec => []RanksFall(Rank)
  BY <1>1, <1>4, <1>5, PTL DEF Spec
<1>7. IInv /\ Mirrors /\ ClaimedHeld /\ RanksFall(Rank) => NoWaitCycle
  BY RankedNoCycle
<1> QED
  BY <1>1, <1>2, <1>3, <1>6, <1>7, PTL

\* Under the same condition the readers are never all stuck: while a read is going
\* on, some reader is not waiting in waitABit.
THEOREM SomeReaderGoesOnTheorem ==
    ASSUME NEW Rank, ReadsRanked(Rank)
    PROVE  Spec => []SomeReaderGoesOn
<1>1. SelfReadKnown /\ NoWaitCycle => SomeReaderGoesOn
  <2> SUFFICES ASSUME SelfReadKnown, NoWaitCycle, NEW r \in Threads, frames[r] # <<>>,
                      \A t \in Threads : frames[t] # <<>> => Waits(t)
               PROVE  FALSE
    BY DEF SomeReaderGoesOn
  <2> DEFINE W == {t \in Threads : frames[t] # <<>>}
  <2>1. W \in SUBSET Threads /\ W # {}
    OBVIOUS
  <2>2. PICK t \in W : \A u \in W : ~WaitsFor(t, u)
    BY <2>1 DEF NoWaitCycle
  <2>3. Waits(t) /\ At(t, "look") /\ slot[Top(t).seq] = "claimed"
    BY <2>2 DEF Waits
  <2>4. PICK u \in Threads : WaitsFor(t, u)
    BY <2>2, <2>3 DEF SelfReadKnown, WaitsFor
  <2>5. frames[u] # <<>>
    BY <2>4 DEF WaitsFor, HoldsSeq
  <2> QED
    BY <2>2, <2>4, <2>5
<1> QED
  BY <1>1, SelfReadKnownTheorem, NoWaitCycleTheorem, PTL
=============================================================================
