----------------------- MODULE ActorScheduler_proofs -----------------------
(***************************************************************************)
(* Proofs about ActorScheduler, for any sets of actors, workers, clients   *)
(* and messages, and for either value of StoreBuffering.                   *)
(*                                                                         *)
(* First the claim of an actor, which has one holder, and the messages     *)
(* nobody would look at.  Then what becomes of the messages: the scheduler *)
(* implements Actor, a realized promise tells of a stored state, the       *)
(* shutdown leaves nothing undone, no worker sleeps through work, and a    *)
(* pool at rest has handled everything.                                    *)
(***************************************************************************)
EXTENDS ActorScheduler, SequenceTheorems, FiniteSetTheorems, TLAPS

-----------------------------------------------------------------------------
(* Sequences and tables of sequences. *)

\* The bands a worker walks through, from High to Low.
LEMMA BandFacts ==
    /\ 0 \in Bands
    /\ 2 \in Bands
    /\ \A b \in Bands : b # 2 => b < 2 /\ b + 1 \in Bands
  BY DEF Bands

\* Every send primitive names a band.
LEMMA PrimBandFacts == \A prim \in DOMAIN PrimBand : PrimBand[prim] \in Bands
  BY DEF PrimBand, Bands

\* Taking the first element of a mailbox or a queue.
LEMMA HeadTail ==
    ASSUME NEW S, NEW s \in Seq(S), s # <<>>
    PROVE  Head(s) \in S /\ Tail(s) \in Seq(S)
  OBVIOUS

\* Replacing one entry of a table of queues keeps it a table of queues.
LEMMA TableUpdate ==
    ASSUME NEW D, NEW S, NEW f \in [D -> [Bands -> Seq(S)]],
           NEW d \in D, NEW b \in Bands, NEW s \in Seq(S)
    PROVE  [f EXCEPT ![d][b] = s] \in [D -> [Bands -> Seq(S)]]
  OBVIOUS

\* notify_one sends at most one blocked worker back to the predicate and
\* changes nothing else of the program counters p.
LEMMA NotifyOneEffect ==
    ASSUME NEW p, NEW q, p \in [Workers -> WorkerPcs], NotifyOne(p, q)
    PROVE  /\ q \in [Workers -> WorkerPcs]
           /\ \A w \in Workers : q[w] = p[w] \/ (q[w] = "park" /\ pc[w] = "blocked")
<1>1. CASE q = p
  BY <1>1
<1>2. ASSUME NEW v \in Blocked, q = [p EXCEPT ![v] = "park"]
      PROVE  /\ q \in [Workers -> WorkerPcs]
             /\ \A w \in Workers : q[w] = p[w] \/ (q[w] = "park" /\ pc[w] = "blocked")
  <2>1. v \in Workers /\ pc[v] = "blocked" /\ "park" \in WorkerPcs
    BY DEF Blocked, WorkerPcs
  <2> QED
    BY <1>2, <2>1
<1> QED
  BY <1>1, <1>2 DEF NotifyOne

-----------------------------------------------------------------------------
(* Type correctness. *)

\* The types hold when the process starts.
LEMMA TypeInit == Init => TypeOK
<1> SUFFICES ASSUME Init PROVE TypeOK
  OBVIOUS
<1>1. EmptyBatch \in [Bands -> Seq(Messages)]
  BY DEF EmptyBatch
<1>2. ActorTypes
  <2>1. <<>> \in Seq(Messages)
    OBVIOUS
  <2> QED
    BY <1>1, <2>1 DEF Init, ActorTypes
<1>3. QueueTypes
  <2>1. <<>> \in Seq(Actors)
    OBVIOUS
  <2> QED
    BY <2>1 DEF Init, QueueTypes
<1>4. TurnTypes
  BY <1>1, BandFacts DEF Init, TurnTypes, WorkerPcs
<1>5. SendTypes
  BY BandFacts DEF Init, SendTypes
<1>6. LocalsSet
  BY DEF Init, LocalsSet
<1> QED
  BY <1>2, <1>3, <1>4, <1>5, <1>6 DEF TypeOK

\* No step of a send, a worker or the shutdown breaks the types.
LEMMA TypeStep == TypeOK /\ [Next]_vars => TypeOK'
<1> SUFFICES ASSUME TypeOK, [Next]_vars PROVE TypeOK'
  OBVIOUS
<1> USE ThreadsAssumption, BandFacts DEF TypeOK
<1>1. ASSUME NEW t \in Threads, SendClaim(t) PROVE TypeOK'
  <2>1. PICK p \in {"idle", "enqueue"}, a \in Actors \cup {NoActor}, b \in Bands :
          /\ sendPc' = [sendPc EXCEPT ![t] = p]
          /\ dst' = [dst EXCEPT ![t] = a]
          /\ dstBand' = [dstBand EXCEPT ![t] = b]
          /\ p = "enqueue" => a \in Actors
    <3>1. CASE claimed[dst[t]]
      BY <1>1, <3>1, HeadTail DEF SendClaim, SendTypes, LocalsSet
    <3>2. CASE ~claimed[dst[t]]
      BY <1>1, <3>2, HeadTail DEF SendClaim, SendTypes, LocalsSet
    <3> QED
      BY <1>1, <3>1, <3>2 DEF SendClaim
  <2>2. ActorTypes'
    BY <1>1, <2>1 DEF SendClaim, ActorTypes, LocalsSet, SendTypes
  <2>3. QueueTypes'
    BY <1>1 DEF SendClaim, QueueTypes, queueVars
  <2>4. TurnTypes'
    BY <1>1 DEF SendClaim, TurnTypes, turnVars
  <2>5. SendTypes'
    BY <1>1, <2>1 DEF SendClaim, SendTypes
  <2>6. LocalsSet'
    BY <1>1, <2>1 DEF SendClaim, LocalsSet, TurnTypes, SendTypes, queueVars, turnVars
  <2> QED
    BY <2>2, <2>3, <2>4, <2>5, <2>6
<1>2. ASSUME NEW t \in Threads, SendEnqueue(t) PROVE TypeOK'
  <2>1. /\ pc' \in [Workers -> WorkerPcs]
        /\ \A v \in Workers : pc'[v] = pc[v] \/ pc'[v] = "park"
    BY <1>2, NotifyOneEffect DEF SendEnqueue, EnqueueReady, TurnTypes
  <2>2. ActorTypes'
    BY <1>2 DEF SendEnqueue, ActorTypes, actorVars
  <2>3. QueueTypes'
    BY <1>2, <2>1 DEF SendEnqueue, EnqueueReady, QueueTypes, LocalsSet, SendTypes
  <2>4. TurnTypes'
    BY <1>2, <2>1 DEF SendEnqueue, EnqueueReady, TurnTypes, WorkerPcs, turnVars
  <2>5. SendTypes'
    BY <1>2, <2>1 DEF SendEnqueue, EnqueueReady, SendTypes
  <2>6. LocalsSet'
    BY <1>2, <2>1 DEF SendEnqueue, EnqueueReady, LocalsSet, TurnTypes, SendTypes, actorVars, turnVars
  <2> QED
    BY <2>2, <2>3, <2>4, <2>5, <2>6
<1>3. ASSUME NEW t \in Threads, NEW a \in Actors, NewActor(t, a) PROVE TypeOK'
  <2>1. ActorTypes'
    BY <1>3 DEF NewActor, EnsureStarted, NewOwner, ActorTypes, LocalsSet, TurnTypes
  <2>2. QueueTypes'
    BY <1>3 DEF NewActor, EnsureStarted, NewOwner, QueueTypes
  <2>3. TurnTypes'
    BY <1>3 DEF NewActor, EnsureStarted, NewOwner, TurnTypes, WorkerPcs, turnVars
  <2>4. SendTypes'
    BY <1>3 DEF NewActor, EnsureStarted, NewOwner, SendTypes, sendVars
  <2>5. LocalsSet'
    BY <1>3 DEF NewActor, EnsureStarted, NewOwner, LocalsSet, TurnTypes, SendTypes, turnVars, sendVars
  <2> QED
    BY <2>1, <2>2, <2>3, <2>4, <2>5
<1>4. ASSUME NEW t \in Threads, NEW a \in Actors, NEW b \in Bands,
            NEW m \in Messages, Push(t, a, b, m) PROVE TypeOK'
  <2>1. ActorTypes'
    BY <1>4, TableUpdate DEF Push, ActorTypes, LocalsSet, TurnTypes
  <2>2. QueueTypes'
    BY <1>4 DEF Push, QueueTypes, queueVars
  <2>3. TurnTypes'
    BY <1>4 DEF Push, TurnTypes, turnVars
  <2>4. SendTypes'
    BY <1>4 DEF Push, SendTypes
  <2>5. LocalsSet'
    BY <1>4 DEF Push, LocalsSet, TurnTypes, SendTypes, queueVars, turnVars
  <2> QED
    BY <2>1, <2>2, <2>3, <2>4, <2>5
<1>5. ASSUME NEW w \in Workers, PopReady(w) PROVE TypeOK'
  <2>1. PICK p \in {"take", "exited", "park"}, a \in Actors \cup {NoActor} :
          /\ pc' = [pc EXCEPT ![w] = p]
          /\ cur' = [cur EXCEPT ![w] = a]
          /\ p = "take" => a \in Actors
    <3>1. CASE AnyReady
      BY <1>5, <3>1, HeadTail DEF PopReady, QueueTypes
    <3>2. CASE ~AnyReady
      BY <1>5, <3>2, HeadTail DEF PopReady, QueueTypes
    <3> QED
      BY <1>5, <3>1, <3>2 DEF PopReady
  <2>2. ActorTypes'
    BY <1>5 DEF PopReady, ActorTypes, actorVars
  <2>3. QueueTypes'
    <3>1. CASE AnyReady
      <4>1. PICK b \in Bands : ready[b] # <<>> /\ ready' = [ready EXCEPT ![b] = Tail(@)]
        BY <1>5, <3>1 DEF PopReady
      <4>2. Tail(ready[b]) \in Seq(Actors)
        BY <4>1, HeadTail DEF QueueTypes
      <4> QED
        BY <1>5, <4>1, <4>2 DEF PopReady, QueueTypes
    <3>2. CASE ~AnyReady
      BY <1>5, <3>2 DEF PopReady, QueueTypes
    <3> QED
      BY <3>1, <3>2
  <2>4. TurnTypes'
    BY <1>5, <2>1, HeadTail DEF PopReady, TurnTypes, WorkerPcs
  <2>5. SendTypes'
    BY <1>5 DEF PopReady, SendTypes, sendVars
  <2>6. LocalsSet'
    BY <1>5, <2>1 DEF PopReady, LocalsSet, TurnTypes, SendTypes, actorVars, sendVars
  <2> QED
    BY <2>2, <2>3, <2>4, <2>5, <2>6
<1>6. ASSUME NEW w \in Workers, EvalPredicate(w) PROVE TypeOK'
  <2>1. ActorTypes'
    BY <1>6 DEF EvalPredicate, ActorTypes, actorVars
  <2>2. QueueTypes'
    BY <1>6 DEF EvalPredicate, QueueTypes, queueVars
  <2>3. TurnTypes'
    BY <1>6 DEF EvalPredicate, TurnTypes, WorkerPcs, turnVars
  <2>4. SendTypes'
    BY <1>6 DEF EvalPredicate, SendTypes, sendVars
  <2>5. LocalsSet'
    BY <1>6 DEF EvalPredicate, LocalsSet, TurnTypes, SendTypes, actorVars, queueVars, turnVars, sendVars
  <2> QED
    BY <2>1, <2>2, <2>3, <2>4, <2>5
<1>7. ASSUME NEW w \in Workers, Block(w) PROVE TypeOK'
  <2>1. ActorTypes'
    BY <1>7 DEF Block, ActorTypes, actorVars
  <2>2. QueueTypes'
    BY <1>7 DEF Block, QueueTypes, queueVars
  <2>3. TurnTypes'
    BY <1>7 DEF Block, TurnTypes, WorkerPcs, turnVars
  <2>4. SendTypes'
    BY <1>7 DEF Block, SendTypes, sendVars
  <2>5. LocalsSet'
    BY <1>7 DEF Block, LocalsSet, TurnTypes, SendTypes, actorVars, queueVars, turnVars, sendVars
  <2> QED
    BY <2>1, <2>2, <2>3, <2>4, <2>5
<1>8. ASSUME NEW w \in Workers, TakeAll(w) PROVE TypeOK'
  <2>1. PICK p \in {"take", "run"}, i \in Bands :
          /\ pc' = [pc EXCEPT ![w] = p]
          /\ idx' = [idx EXCEPT ![w] = i]
    <3>1. CASE idx[w] < 2
      BY <1>8, <3>1, HeadTail DEF TakeAll, TurnTypes
    <3>2. CASE ~(idx[w] < 2)
      BY <1>8, <3>2, HeadTail DEF TakeAll, TurnTypes
    <3> QED
      BY <1>8, <3>1, <3>2 DEF TakeAll
  <2>2. ActorTypes'
    BY <1>8, <2>1, TableUpdate DEF TakeAll, ActorTypes, LocalsSet, TurnTypes
  <2>3. QueueTypes'
    BY <1>8 DEF TakeAll, QueueTypes, queueVars
  <2>4. TurnTypes'
    BY <1>8, <2>1, TableUpdate DEF TakeAll, TurnTypes, WorkerPcs, ActorTypes, LocalsSet
  <2>5. SendTypes'
    BY <1>8 DEF TakeAll, SendTypes, sendVars
  <2>6. LocalsSet'
    BY <1>8, <2>1 DEF TakeAll, LocalsSet, TurnTypes, SendTypes, queueVars, sendVars, ActorTypes
  <2> QED
    BY <2>2, <2>3, <2>4, <2>5, <2>6
<1>9. ASSUME NEW w \in Workers, Invoke(w) PROVE TypeOK'
  <2>1. ActorTypes'
    BY <1>9 DEF Invoke, ActorTypes, actorVars
  <2>2. QueueTypes'
    BY <1>9 DEF Invoke, QueueTypes, queueVars
  <2>3. TurnTypes'
    BY <1>9, HeadTail DEF Invoke, NextInBatch, TurnTypes, WorkerPcs, ActorTypes, LocalsSet
  <2>4. SendTypes'
    BY <1>9 DEF Invoke, SendTypes, sendVars
  <2>5. LocalsSet'
    BY <1>9 DEF Invoke, NextInBatch, LocalsSet, TurnTypes, SendTypes, actorVars, queueVars, sendVars
  <2> QED
    BY <2>1, <2>2, <2>3, <2>4, <2>5
<1>10. ASSUME NEW w \in Workers, HandlerReturns(w) PROVE TypeOK'
  <2>1. PICK r \in Seq(Messages) : res' = [res EXCEPT ![w] = r]
    <3>1. Append(res[w], msg[w]) \in Seq(Messages) /\ <<>> \in Seq(Messages)
      BY <1>10 DEF HandlerReturns, TurnTypes, LocalsSet
    <3> QED
      BY <1>10, <3>1 DEF HandlerReturns
  <2>2. ActorTypes'
    BY <1>10 DEF HandlerReturns, ActorTypes, actorVars
  <2>3. QueueTypes'
    BY <1>10 DEF HandlerReturns, QueueTypes, queueVars
  <2>4. TurnTypes'
    BY <1>10, <2>1 DEF HandlerReturns, TurnTypes, WorkerPcs
  <2>5. SendTypes'
    BY <1>10 DEF HandlerReturns, SendTypes, sendVars
  <2>6. LocalsSet'
    BY <1>10, <2>1 DEF HandlerReturns, LocalsSet, TurnTypes, SendTypes, actorVars, queueVars, sendVars
  <2> QED
    BY <2>2, <2>3, <2>4, <2>5, <2>6
<1>11. ASSUME NEW w \in Workers, StoreValue(w) PROVE TypeOK'
  <2>1. ActorTypes'
    BY <1>11, HeadTail DEF StoreValue, ActorTypes, LocalsSet, TurnTypes
  <2>2. QueueTypes'
    BY <1>11 DEF StoreValue, QueueTypes, queueVars
  <2>3. TurnTypes'
    BY <1>11, TableUpdate, HeadTail DEF StoreValue, TurnTypes, WorkerPcs, ActorTypes, LocalsSet
  <2>4. SendTypes'
    BY <1>11 DEF StoreValue, SendTypes, sendVars
  <2>5. LocalsSet'
    BY <1>11 DEF StoreValue, LocalsSet, TurnTypes, SendTypes, queueVars, sendVars, ActorTypes
  <2> QED
    BY <2>1, <2>2, <2>3, <2>4, <2>5
<1>12. ASSUME NEW w \in Workers, DeliverPromise(w) PROVE TypeOK'
  <2>1. ActorTypes'
    BY <1>12 DEF DeliverPromise, ActorTypes, LocalsSet, TurnTypes
  <2>2. QueueTypes'
    BY <1>12 DEF DeliverPromise, QueueTypes
  <2>3. TurnTypes'
    BY <1>12 DEF DeliverPromise, TurnTypes, WorkerPcs
  <2>4. SendTypes'
    BY <1>12 DEF DeliverPromise, SendTypes, sendVars
  <2>5. LocalsSet'
    BY <1>12 DEF DeliverPromise, LocalsSet, TurnTypes, SendTypes, sendVars
  <2> QED
    BY <2>1, <2>2, <2>3, <2>4, <2>5
<1>13. ASSUME NEW w \in Workers, ReleaseClaim(w) PROVE TypeOK'
  <2>1. ActorTypes'
    BY <1>13 DEF ReleaseClaim, ActorTypes, actorVars
  <2>2. QueueTypes'
    BY <1>13 DEF ReleaseClaim, QueueTypes, queueVars
  <2>3. TurnTypes'
    BY <1>13 DEF ReleaseClaim, TurnTypes, WorkerPcs
  <2>4. SendTypes'
    BY <1>13 DEF ReleaseClaim, SendTypes, sendVars
  <2>5. LocalsSet'
    BY <1>13 DEF ReleaseClaim, LocalsSet, TurnTypes, SendTypes, actorVars, queueVars, sendVars
  <2> QED
    BY <2>1, <2>2, <2>3, <2>4, <2>5
<1>14. ASSUME NEW w \in Workers, CheckMailbox(w) PROVE TypeOK'
  <2>1. PICK p \in {"check", "reclaim", "pop"}, i \in Bands :
          /\ pc' = [pc EXCEPT ![w] = p]
          /\ idx' = [idx EXCEPT ![w] = i]
    <3>1. CASE pc' = [pc EXCEPT ![w] = "reclaim"] /\ idx' = [idx EXCEPT ![w] = 0]
      BY <1>14, <3>1, HeadTail DEF CheckMailbox, TurnTypes
    <3>2. CASE idx[w] < 2 /\ idx' = [idx EXCEPT ![w] = @ + 1] /\ pc' = pc
      <4>1. pc' = [pc EXCEPT ![w] = "check"]
        BY <1>14, <3>2 DEF CheckMailbox, TurnTypes
      <4>2. idx[w] # 2
        BY <3>2
      <4>3. idx[w] + 1 \in Bands
        BY <4>2, BandFacts DEF TurnTypes
      <4> QED
        BY <3>2, <4>1, <4>3
    <3>3. CASE pc' = [pc EXCEPT ![w] = "pop"] /\ idx' = [idx EXCEPT ![w] = 0]
      BY <1>14, <3>3, HeadTail DEF CheckMailbox, TurnTypes
    <3> QED
      BY <1>14, <3>1, <3>2, <3>3 DEF CheckMailbox
  <2>2. ActorTypes'
    BY <1>14 DEF CheckMailbox, ActorTypes, actorVars
  <2>3. QueueTypes'
    BY <1>14 DEF CheckMailbox, QueueTypes, queueVars
  <2>4. TurnTypes'
    BY <1>14, <2>1 DEF CheckMailbox, TurnTypes, WorkerPcs
  <2>5. SendTypes'
    BY <1>14 DEF CheckMailbox, SendTypes, sendVars
  <2>6. LocalsSet'
    BY <1>14, <2>1 DEF CheckMailbox, LocalsSet, TurnTypes, SendTypes, actorVars, queueVars, sendVars
  <2> QED
    BY <2>2, <2>3, <2>4, <2>5, <2>6
<1>15. ASSUME NEW w \in Workers, Reclaim(w) PROVE TypeOK'
  <2>1. ActorTypes'
    BY <1>15 DEF Reclaim, ActorTypes, LocalsSet, TurnTypes
  <2>2. QueueTypes'
    BY <1>15 DEF Reclaim, QueueTypes, queueVars
  <2>3. TurnTypes'
    BY <1>15 DEF Reclaim, TurnTypes, WorkerPcs, turnVars
  <2>4. SendTypes'
    BY <1>15 DEF Reclaim, SendTypes, sendVars
  <2>5. LocalsSet'
    BY <1>15 DEF Reclaim, LocalsSet, TurnTypes, SendTypes, queueVars, turnVars, sendVars
  <2> QED
    BY <2>1, <2>2, <2>3, <2>4, <2>5
<1>16. ASSUME NEW w \in Workers, RankBand(w) PROVE TypeOK'
  <2>1. PICK p \in {"rank", "requeue"}, i \in Bands :
          /\ pc' = [pc EXCEPT ![w] = p]
          /\ idx' = [idx EXCEPT ![w] = i]
    <3>1. CASE pc' = [pc EXCEPT ![w] = "requeue"] /\ idx' = idx
      BY <1>16, <3>1, HeadTail DEF RankBand, TurnTypes
    <3>2. CASE idx[w] # 2 /\ idx' = [idx EXCEPT ![w] = @ + 1] /\ pc' = pc
      <4>1. pc' = [pc EXCEPT ![w] = "rank"]
        BY <1>16, <3>2 DEF RankBand, TurnTypes
      <4>2. idx[w] + 1 \in Bands
        BY <3>2, BandFacts DEF TurnTypes
      <4> QED
        BY <3>2, <4>1, <4>2
    <3> QED
      BY <1>16, <3>1, <3>2 DEF RankBand
  <2>2. ActorTypes'
    BY <1>16 DEF RankBand, ActorTypes, actorVars
  <2>3. QueueTypes'
    BY <1>16 DEF RankBand, QueueTypes, queueVars
  <2>4. TurnTypes'
    BY <1>16, <2>1 DEF RankBand, TurnTypes, WorkerPcs
  <2>5. SendTypes'
    BY <1>16 DEF RankBand, SendTypes, sendVars
  <2>6. LocalsSet'
    BY <1>16, <2>1 DEF RankBand, LocalsSet, TurnTypes, SendTypes, actorVars, queueVars, sendVars
  <2> QED
    BY <2>2, <2>3, <2>4, <2>5, <2>6
<1>17. ASSUME NEW w \in Workers, Requeue(w) PROVE TypeOK'
  <2>1. /\ pc' \in [Workers -> WorkerPcs]
        /\ \A v \in Workers : pc'[v] = pc[v] \/ pc'[v] \in {"park", "pop"}
    <3>1. PICK p : p = [pc EXCEPT ![w] = "pop"] /\ NotifyOne(p, pc')
      BY <1>17 DEF Requeue, EnqueueReady
    <3>2. p \in [Workers -> WorkerPcs] /\ NotifyOne(p, pc')
      BY <3>1 DEF TurnTypes, WorkerPcs
    <3>3. /\ pc' \in [Workers -> WorkerPcs]
          /\ \A v \in Workers : pc'[v] = p[v] \/ pc'[v] = "park"
      BY <3>2, NotifyOneEffect
    <3> QED
      BY <3>1, <3>3 DEF TurnTypes
  <2>2. ActorTypes'
    BY <1>17 DEF Requeue, ActorTypes, actorVars
  <2>3. QueueTypes'
    BY <1>17, <2>1 DEF Requeue, EnqueueReady, QueueTypes, LocalsSet, TurnTypes
  <2>4. TurnTypes'
    BY <1>17, <2>1 DEF Requeue, EnqueueReady, TurnTypes, WorkerPcs
  <2>5. SendTypes'
    BY <1>17 DEF Requeue, SendTypes, sendVars
  <2>6. LocalsSet'
    BY <1>17, <2>1 DEF Requeue, EnqueueReady, LocalsSet, TurnTypes, SendTypes, actorVars, sendVars
  <2> QED
    BY <2>2, <2>3, <2>4, <2>5, <2>6
<1>18. ASSUME NEW w \in Workers, SpuriousWakeup(w) PROVE TypeOK'
  <2>1. ActorTypes'
    BY <1>18 DEF SpuriousWakeup, ActorTypes, actorVars
  <2>2. QueueTypes'
    BY <1>18 DEF SpuriousWakeup, QueueTypes, queueVars
  <2>3. TurnTypes'
    BY <1>18 DEF SpuriousWakeup, TurnTypes, WorkerPcs, turnVars
  <2>4. SendTypes'
    BY <1>18 DEF SpuriousWakeup, SendTypes, sendVars
  <2>5. LocalsSet'
    BY <1>18 DEF SpuriousWakeup, LocalsSet, TurnTypes, SendTypes, actorVars, queueVars, turnVars, sendVars
  <2> QED
    BY <2>1, <2>2, <2>3, <2>4, <2>5
<1>19. ASSUME NEW w \in Workers, FlushRelease(w) PROVE TypeOK'
  <2>1. ActorTypes'
    BY <1>19 DEF FlushRelease, ActorTypes, LocalsSet, TurnTypes
  <2>2. QueueTypes'
    BY <1>19 DEF FlushRelease, QueueTypes, queueVars
  <2>3. TurnTypes'
    BY <1>19 DEF FlushRelease, TurnTypes, WorkerPcs, ActorTypes, LocalsSet
  <2>4. SendTypes'
    BY <1>19 DEF FlushRelease, SendTypes, sendVars
  <2>5. LocalsSet'
    BY <1>19 DEF FlushRelease, LocalsSet, TurnTypes, SendTypes, queueVars, sendVars
  <2> QED
    BY <2>1, <2>2, <2>3, <2>4, <2>5
<1>20. CASE ShutdownFlag
  <2>1. ActorTypes'
    BY <1>20 DEF ShutdownFlag, ActorTypes, actorVars
  <2>2. QueueTypes'
    BY <1>20 DEF ShutdownFlag, QueueTypes
  <2>3. TurnTypes'
    BY <1>20 DEF ShutdownFlag, TurnTypes, turnVars
  <2>4. SendTypes'
    BY <1>20 DEF ShutdownFlag, SendTypes, sendVars
  <2>5. LocalsSet'
    BY <1>20 DEF ShutdownFlag, LocalsSet, TurnTypes, SendTypes, actorVars, turnVars, sendVars
  <2> QED
    BY <2>1, <2>2, <2>3, <2>4, <2>5
<1>21. CASE ShutdownNotify
  <2>1. ActorTypes'
    BY <1>21 DEF ShutdownNotify, ActorTypes, actorVars
  <2>2. QueueTypes'
    BY <1>21 DEF ShutdownNotify, QueueTypes, queueVars
  <2>3. TurnTypes'
    BY <1>21 DEF ShutdownNotify, TurnTypes, WorkerPcs, turnVars
  <2>4. SendTypes'
    BY <1>21 DEF ShutdownNotify, SendTypes, sendVars
  <2>5. LocalsSet'
    BY <1>21 DEF ShutdownNotify, LocalsSet, TurnTypes, SendTypes, actorVars, queueVars, turnVars, sendVars
  <2> QED
    BY <2>1, <2>2, <2>3, <2>4, <2>5
<1>22. CASE ShutdownJoin
  <2>1. ActorTypes'
    BY <1>22 DEF ShutdownJoin, ActorTypes, actorVars
  <2>2. QueueTypes'
    BY <1>22 DEF ShutdownJoin, QueueTypes, queueVars
  <2>3. TurnTypes'
    BY <1>22 DEF ShutdownJoin, TurnTypes, turnVars
  <2>4. SendTypes'
    BY <1>22 DEF ShutdownJoin, SendTypes, sendVars
  <2>5. LocalsSet'
    BY <1>22 DEF ShutdownJoin, LocalsSet, TurnTypes, SendTypes, actorVars, queueVars, turnVars, sendVars
  <2> QED
    BY <2>1, <2>2, <2>3, <2>4, <2>5
<1>23. CASE UNCHANGED vars
  BY <1>23 DEF ActorTypes, QueueTypes, TurnTypes, SendTypes, LocalsSet,
               vars, actorVars, queueVars, turnVars, sendVars
<1> QED
  BY <1>1, <1>2, <1>3, <1>4, <1>5, <1>6, <1>7, <1>8, <1>9, <1>10, <1>11, <1>12,
     PrimBandFacts, <1>13, <1>14, <1>15, <1>16, <1>17, <1>18, <1>19, <1>20, <1>21, <1>22, <1>23
     DEF Next, SendStep, WorkerStep, ShutdownStep, Terminated

\* Every variable of the scheduler keeps its type, and no thread uses an
\* actor or a message it does not have (locals of workerLoop and send).
THEOREM TypeCorrect == Spec => []TypeOK
  BY TypeInit, TypeStep, PTL DEF Spec

-----------------------------------------------------------------------------
(* The claim of an actor has one holder. *)

\* Appending an actor to a ready queue.
LEMMA QueuedAppend ==
    ASSUME NEW r \in [Bands -> Seq(Actors)], NEW b \in Bands, NEW a \in Actors
    PROVE  LET q == [r EXCEPT ![b] = Append(@, a)] IN
           /\ \A x \in Actors : QueuedIn(q, x) <=> QueuedIn(r, x) \/ x = a
           /\ NoDuplicates(r) /\ ~QueuedIn(r, a) => NoDuplicates(q)
<1> DEFINE q == [r EXCEPT ![b] = Append(@, a)]
<1>1. /\ q \in [Bands -> Seq(Actors)]
      /\ Len(q[b]) = Len(r[b]) + 1
      /\ q[b][Len(r[b]) + 1] = a
      /\ \A i \in 1..Len(r[b]) : q[b][i] = r[b][i]
      /\ \A c \in Bands : c # b => q[c] = r[c]
      /\ \A c \in Bands : Len(r[c]) \in Nat
  OBVIOUS
<1> HIDE DEF q
<1>2. ASSUME NEW x \in Actors PROVE QueuedIn(q, x) <=> QueuedIn(r, x) \/ x = a
  <2>1. ASSUME QueuedIn(q, x) PROVE QueuedIn(r, x) \/ x = a
    <3>1. PICK c \in Bands : \E i \in 1..Len(q[c]) : q[c][i] = x
      BY <2>1 DEF QueuedIn
    <3>2. PICK i \in 1..Len(q[c]) : q[c][i] = x
      BY <3>1
    <3>3. CASE c = b /\ i = Len(r[b]) + 1
      BY <1>1, <3>2, <3>3
    <3>4. CASE c # b \/ i # Len(r[b]) + 1
      <4>1. i \in 1..Len(r[c]) /\ r[c][i] = x
        BY <1>1, <3>2, <3>4
      <4> QED
        BY <4>1 DEF QueuedIn
    <3> QED
      BY <3>3, <3>4
  <2>2. ASSUME QueuedIn(r, x) PROVE QueuedIn(q, x)
    BY <1>1, <2>2 DEF QueuedIn
  <2>3. QueuedIn(q, a)
    BY <1>1 DEF QueuedIn
  <2> QED
    BY <2>1, <2>2, <2>3
<1>3. ASSUME NoDuplicates(r), ~QueuedIn(r, a) PROVE NoDuplicates(q)
  BY <1>1, <1>3 DEF NoDuplicates, QueuedIn
<1> QED
  BY <1>2, <1>3 DEF q

\* Removing the front of a ready queue.
LEMMA QueuedTail ==
    ASSUME NEW r \in [Bands -> Seq(Actors)], NEW b \in Bands, r[b] # <<>>,
           NoDuplicates(r)
    PROVE  LET q == [r EXCEPT ![b] = Tail(@)] IN
           /\ QueuedIn(r, Head(r[b]))
           /\ \A x \in Actors : QueuedIn(q, x) => QueuedIn(r, x) /\ x # Head(r[b])
           /\ NoDuplicates(q)
<1> DEFINE q == [r EXCEPT ![b] = Tail(@)]
<1>1. /\ q \in [Bands -> Seq(Actors)]
      /\ Len(r[b]) \in Nat \ {0}
      /\ Len(q[b]) = Len(r[b]) - 1
      /\ Head(r[b]) = r[b][1]
      /\ \A i \in 1..Len(q[b]) : q[b][i] = r[b][i + 1]
      /\ \A c \in Bands : c # b => q[c] = r[c]
      /\ \A c \in Bands : Len(r[c]) \in Nat
  OBVIOUS
<1> HIDE DEF q
<1>2. QueuedIn(r, Head(r[b]))
  BY <1>1 DEF QueuedIn
<1>3. ASSUME NEW x \in Actors, QueuedIn(q, x) PROVE QueuedIn(r, x) /\ x # Head(r[b])
  BY <1>1, <1>3 DEF QueuedIn, NoDuplicates
<1>4. NoDuplicates(q)
  <2> SUFFICES ASSUME NEW c \in Bands, NEW d \in Bands,
                      NEW i \in 1..Len(q[c]), NEW j \in 1..Len(q[d]), q[c][i] = q[d][j]
               PROVE  c = d /\ i = j
    BY DEF NoDuplicates
  <2>1. PICK k \in 1..Len(r[c]) : q[c][i] = r[c][k] /\ (k = IF c = b THEN i + 1 ELSE i)
    BY <1>1
  <2>2. PICK l \in 1..Len(r[d]) : q[d][j] = r[d][l] /\ (l = IF d = b THEN j + 1 ELSE j)
    BY <1>1
  <2>3. r[c][k] = r[d][l]
    BY <2>1, <2>2
  <2>4. c = d /\ k = l
    BY <2>3 DEF NoDuplicates
  <2> QED
    BY <2>1, <2>2, <2>4
<1> QED
  BY <1>2, <1>3, <1>4 DEF q

\* ... and what it leaves in the queues.
LEMMA QueuedTailKeeps ==
    ASSUME NEW r \in [Bands -> Seq(Actors)], NEW b \in Bands, r[b] # <<>>,
           NEW x \in Actors, QueuedIn(r, x)
    PROVE  QueuedIn([r EXCEPT ![b] = Tail(@)], x) \/ x = Head(r[b])
<1> DEFINE q == [r EXCEPT ![b] = Tail(@)]
<1> SUFFICES QueuedIn(q, x) \/ x = Head(r[b])
  OBVIOUS
<1>1. /\ Len(r[b]) \in Nat \ {0}
      /\ Len(q[b]) = Len(r[b]) - 1
      /\ Head(r[b]) = r[b][1]
      /\ \A i \in 1..Len(q[b]) : q[b][i] = r[b][i + 1]
      /\ \A c \in Bands : c # b => q[c] = r[c]
  OBVIOUS
<1> HIDE DEF q
<1>2. PICK c \in Bands : \E i \in 1..Len(r[c]) : r[c][i] = x
  BY DEF QueuedIn
<1>3. PICK i \in 1..Len(r[c]) : r[c][i] = x
  BY <1>2
<1>4. CASE c # b
  BY <1>1, <1>3, <1>4 DEF QueuedIn
<1>5. CASE c = b /\ i = 1
  BY <1>1, <1>3, <1>5
<1>6. CASE c = b /\ i # 1
  <2>1. i - 1 \in 1..Len(q[b]) /\ q[b][i - 1] = x
    BY <1>1, <1>3, <1>6
  <2> QED
    BY <2>1 DEF QueuedIn
<1> QED
  BY <1>4, <1>5, <1>6

\* A step that makes no new holder of a claim, drops none and leaves the
\* ready queues alone keeps the invariant.
LEMMA NoNewHolder ==
    ASSUME ClaimHasOneHolder,
           ready' = ready, claimed' = claimed,
           \A t \in Threads, a \in Actors : Sending(t, a)' => Sending(t, a),
           \A w \in Workers, a \in Actors : Running(w, a)' => Running(w, a),
           \A w \in Workers : storeBuf'[w] => pc'[w] \in {"check", "reclaim", "pop"}
    PROVE  ClaimHasOneHolder'
<1>1. NoDuplicates(ready)' /\ \A a \in Actors : QueuedIn(ready, a)' <=> QueuedIn(ready, a)
  BY DEF ClaimHasOneHolder, NoDuplicates, QueuedIn
<1>2. \A a \in Actors : claimed'[a] = claimed[a]
  OBVIOUS
<1> QED
  BY <1>1, <1>2 DEF ClaimHasOneHolder

\* At the start no actor is claimed.
LEMMA ClaimInit == Init => ClaimHasOneHolder
<1> SUFFICES ASSUME Init PROVE ClaimHasOneHolder
  OBVIOUS
<1>1. \A b \in Bands : Len(ready[b]) = 0
  BY DEF Init
<1>2. NoDuplicates(ready) /\ \A a \in Actors : ~QueuedIn(ready, a)
  BY <1>1 DEF NoDuplicates, QueuedIn
<1>3. /\ \A t \in Threads, a \in Actors : ~Sending(t, a)
      /\ \A w \in Workers, a \in Actors : ~Running(w, a)
      /\ \A w \in Workers : ~storeBuf[w]
  BY DEF Init, Sending, Running, InTurn
<1> QED
  BY <1>2, <1>3 DEF ClaimHasOneHolder

\* Every step hands a claim on whole: a send to the queues, these to a worker,
\* a worker to the queues again or to nobody.
LEMMA ClaimStep == TypeOK /\ ClaimHasOneHolder /\ [Next]_vars => ClaimHasOneHolder'
<1> SUFFICES ASSUME TypeOK, ClaimHasOneHolder, [Next]_vars PROVE ClaimHasOneHolder'
  OBVIOUS
<1> USE DEF TypeOK
<1>1. ASSUME NEW t \in Threads, SendClaim(t) PROVE ClaimHasOneHolder'
  <2> DEFINE a == dst[t]
  <2>1. a \in Actors /\ ready' = ready /\ claimed'[a] /\ \A x \in Actors : claimed[x] => claimed'[x]
    BY <1>1 DEF SendClaim, ActorTypes, LocalsSet, queueVars
  <2>2. \A w \in Workers, x \in Actors : Running(w, x)' <=> Running(w, x)
    BY <1>1 DEF SendClaim, Running, InTurn, turnVars
  <2>3. \A u \in Threads, x \in Actors :
          Sending(u, x)' => Sending(u, x) \/ (u = t /\ x = a /\ ~claimed[a])
    BY <1>1 DEF SendClaim, Sending, SendTypes
  <2>4. NoDuplicates(ready)' /\ \A x \in Actors : QueuedIn(ready, x)' <=> QueuedIn(ready, x)
    BY <2>1 DEF ClaimHasOneHolder, NoDuplicates, QueuedIn
  <2>5. \A w \in Workers : storeBuf'[w] => pc'[w] \in {"check", "reclaim", "pop"}
    BY <1>1 DEF SendClaim, ClaimHasOneHolder, turnVars
  <2> QED
    BY <2>1, <2>2, <2>3, <2>4, <2>5 DEF ClaimHasOneHolder
<1>2. ASSUME NEW t \in Threads, SendEnqueue(t) PROVE ClaimHasOneHolder'
  <2> DEFINE a == dst[t]
  <2>1. a \in Actors /\ Sending(t, a) /\ claimed' = claimed
    BY <1>2 DEF SendEnqueue, Sending, LocalsSet, actorVars
  <2>2. /\ pc' \in [Workers -> WorkerPcs]
        /\ \A v \in Workers : pc'[v] = pc[v] \/ (pc'[v] = "park" /\ pc[v] = "blocked")
    BY <1>2, NotifyOneEffect DEF SendEnqueue, EnqueueReady, TurnTypes
  <2>3. /\ NoDuplicates(ready')
        /\ \A x \in Actors : QueuedIn(ready', x) <=> QueuedIn(ready, x) \/ x = a
    <3>1. /\ ready \in [Bands -> Seq(Actors)] /\ dstBand[t] \in Bands
          /\ NoDuplicates(ready) /\ ~QueuedIn(ready, a)
      BY <2>1 DEF QueueTypes, SendTypes, ClaimHasOneHolder
    <3>2. ready' = [ready EXCEPT ![dstBand[t]] = Append(@, a)]
      BY <1>2 DEF SendEnqueue, EnqueueReady
    <3> QED
      BY <2>1, <3>1, <3>2, QueuedAppend
  <2>4. \A u \in Threads, x \in Actors : Sending(u, x)' => Sending(u, x) /\ u # t
    BY <1>2 DEF SendEnqueue, Sending, SendTypes
  <2>5. \A w \in Workers, x \in Actors : Running(w, x)' => Running(w, x)
    BY <1>2, <2>2 DEF SendEnqueue, Running, InTurn, turnVars
  <2>6. \A w \in Workers : storeBuf'[w] => pc'[w] \in {"check", "reclaim", "pop"}
    BY <1>2, <2>2 DEF SendEnqueue, ClaimHasOneHolder, turnVars
  <2> QED
    BY <2>1, <2>3, <2>4, <2>5, <2>6 DEF ClaimHasOneHolder
<1>3. ASSUME NEW w \in Workers, PopReady(w) PROVE ClaimHasOneHolder'
  <2>1. /\ claimed' = claimed
        /\ \A u \in Threads, x \in Actors : Sending(u, x)' <=> Sending(u, x)
        /\ \A v \in Workers, x \in Actors : v # w => (Running(v, x)' <=> Running(v, x))
    BY <1>3 DEF PopReady, Sending, Running, InTurn, TurnTypes, actorVars, sendVars
  <2>2. \A v \in Workers : storeBuf'[v] => pc'[v] \in {"check", "reclaim", "pop"}
    BY <1>3 DEF PopReady, ClaimHasOneHolder, TurnTypes
  <2>3. CASE AnyReady
    <3>1. PICK b \in Bands : /\ ready[b] # <<>>
                             /\ cur' = [cur EXCEPT ![w] = Head(ready[b])]
                             /\ ready' = [ready EXCEPT ![b] = Tail(@)]
                             /\ pc' = [pc EXCEPT ![w] = "take"]
      BY <1>3, <2>3 DEF PopReady
    <3> DEFINE a == Head(ready[b])
    <3>2. /\ NoDuplicates(ready')
          /\ QueuedIn(ready, a)
          /\ \A x \in Actors : QueuedIn(ready', x) => QueuedIn(ready, x) /\ x # a
      BY <3>1, QueuedTail DEF ClaimHasOneHolder, QueueTypes
    <3>3. \A x \in Actors : Running(w, x)' => x = a
      BY <3>1 DEF Running, TurnTypes
    <3>4. a \in Actors
      BY <3>1, HeadTail DEF QueueTypes
    <3> QED
      BY <2>1, <2>2, <3>2, <3>3, <3>4 DEF ClaimHasOneHolder
  <2>4. CASE ~AnyReady
    <3>1. ready' = ready /\ \A x \in Actors : ~Running(w, x)'
      BY <1>3, <2>4, ThreadsAssumption DEF PopReady, Running, TurnTypes
    <3> QED
      BY <2>1, <2>2, <3>1, NoNewHolder
  <2> QED
    BY <2>3, <2>4
<1>4. ASSUME NEW w \in Workers, FlushRelease(w) PROVE ClaimHasOneHolder'
  <2> DEFINE a == cur[w]
  <2>1. /\ a \in Actors /\ Running(w, a) /\ ready' = ready
        /\ \A x \in Actors : x # a => claimed'[x] = claimed[x]
    BY <1>4 DEF FlushRelease, Running, LocalsSet, ActorTypes, queueVars
  <2>2. \A u \in Threads, x \in Actors : Sending(u, x)' => Sending(u, x)
    BY <1>4 DEF FlushRelease, Sending, sendVars
  <2>3. \A v \in Workers, x \in Actors : Running(v, x)' => Running(v, x) /\ v # w
    BY <1>4 DEF FlushRelease, Running, InTurn, TurnTypes, ClaimHasOneHolder
  <2>4. NoDuplicates(ready)' /\ \A x \in Actors : QueuedIn(ready, x)' <=> QueuedIn(ready, x)
    BY <2>1 DEF ClaimHasOneHolder, NoDuplicates, QueuedIn
  <2>5. \A v \in Workers : storeBuf'[v] => pc'[v] \in {"check", "reclaim", "pop"}
    BY <1>4 DEF FlushRelease, ClaimHasOneHolder, TurnTypes
  <2> QED
    BY <2>1, <2>2, <2>3, <2>4, <2>5 DEF ClaimHasOneHolder
<1>5. ASSUME NEW w \in Workers, Reclaim(w) PROVE ClaimHasOneHolder'
  <2> DEFINE a == cur[w]
  <2>1. a \in Actors /\ ready' = ready /\ claimed'[a] /\ \A x \in Actors : claimed[x] => claimed'[x]
    BY <1>5 DEF Reclaim, ActorTypes, LocalsSet, queueVars
  <2>2. \A u \in Threads, x \in Actors : Sending(u, x)' => Sending(u, x)
    BY <1>5 DEF Reclaim, Sending, sendVars
  <2>3. \A v \in Workers, x \in Actors :
          Running(v, x)' => Running(v, x) \/ (v = w /\ x = a /\ ~claimed[a])
    BY <1>5 DEF Reclaim, Running, InTurn, TurnTypes, turnVars
  <2>4. NoDuplicates(ready)' /\ \A x \in Actors : QueuedIn(ready, x)' <=> QueuedIn(ready, x)
    BY <2>1 DEF ClaimHasOneHolder, NoDuplicates, QueuedIn
  <2>5. \A v \in Workers : storeBuf'[v] => pc'[v] \in {"check", "reclaim", "pop"}
    BY <1>5 DEF Reclaim, ClaimHasOneHolder, TurnTypes, turnVars
  <2> QED
    BY <2>1, <2>2, <2>3, <2>4, <2>5 DEF ClaimHasOneHolder
<1>6. ASSUME NEW w \in Workers, Requeue(w) PROVE ClaimHasOneHolder'
  <2> DEFINE a == cur[w]
  <2>1. a \in Actors /\ Running(w, a) /\ claimed' = claimed /\ ~storeBuf[w]
    BY <1>6 DEF Requeue, Running, LocalsSet, ClaimHasOneHolder, actorVars
  <2>2. \A v \in Workers : IF v = w THEN pc'[v] \in {"pop", "park"}
                           ELSE pc'[v] = pc[v] \/ (pc'[v] = "park" /\ pc[v] = "blocked")
    <3>1. PICK p : p = [pc EXCEPT ![w] = "pop"] /\ NotifyOne(p, pc')
      BY <1>6 DEF Requeue, EnqueueReady
    <3>2. p \in [Workers -> WorkerPcs] /\ NotifyOne(p, pc')
      BY <3>1 DEF TurnTypes, WorkerPcs
    <3>3. \A v \in Workers : pc'[v] = p[v] \/ (pc'[v] = "park" /\ pc[v] = "blocked")
      BY <3>2, NotifyOneEffect
    <3> QED
      BY <3>1, <3>3 DEF TurnTypes
  <2>3. /\ NoDuplicates(ready')
        /\ \A x \in Actors : QueuedIn(ready', x) <=> QueuedIn(ready, x) \/ x = a
    <3>1. /\ ready \in [Bands -> Seq(Actors)] /\ idx[w] \in Bands
          /\ NoDuplicates(ready) /\ ~QueuedIn(ready, a)
      BY <2>1 DEF QueueTypes, TurnTypes, ClaimHasOneHolder
    <3>2. ready' = [ready EXCEPT ![idx[w]] = Append(@, a)]
      BY <1>6 DEF Requeue, EnqueueReady
    <3> QED
      BY <2>1, <3>1, <3>2, QueuedAppend
  <2>4. \A u \in Threads, x \in Actors : Sending(u, x)' => Sending(u, x)
    BY <1>6 DEF Requeue, Sending, sendVars
  <2>5. \A v \in Workers, x \in Actors : Running(v, x)' => Running(v, x) /\ v # w
    BY <1>6, <2>1, <2>2 DEF Requeue, Running, InTurn
  <2>6. \A v \in Workers : storeBuf'[v] => pc'[v] \in {"check", "reclaim", "pop"}
    BY <1>6, <2>1, <2>2 DEF Requeue, ClaimHasOneHolder
  <2> QED
    BY <2>1, <2>3, <2>4, <2>5, <2>6 DEF ClaimHasOneHolder
<1>7. ASSUME NEW t \in Threads, NEW a \in Actors, NewActor(t, a) PROVE ClaimHasOneHolder'
  <2>1. /\ ready' = ready /\ claimed' = claimed
        /\ \A u \in Threads, x \in Actors : Sending(u, x)' => Sending(u, x)
    BY <1>7 DEF NewActor, EnsureStarted, NewOwner, Sending, SendTypes, turnVars, sendVars
  <2>2. /\ \A v \in Workers, x \in Actors : Running(v, x)' => Running(v, x)
        /\ \A v \in Workers : storeBuf'[v] => pc'[v] \in {"check", "reclaim", "pop"}
    BY <1>7 DEF NewActor, EnsureStarted, NewOwner, Running, InTurn, TurnTypes, ClaimHasOneHolder, turnVars, sendVars
  <2> QED
    BY <2>1, <2>2, NoNewHolder
<1>8. ASSUME NEW t \in Threads, NEW a \in Actors, NEW b \in Bands,
            NEW m \in Messages, Push(t, a, b, m) PROVE ClaimHasOneHolder'
  <2>1. /\ ready' = ready /\ claimed' = claimed
        /\ \A u \in Threads, x \in Actors : Sending(u, x)' => Sending(u, x)
    BY <1>8 DEF Push, Sending, SendTypes, queueVars, turnVars
  <2>2. /\ \A v \in Workers, x \in Actors : Running(v, x)' => Running(v, x)
        /\ \A v \in Workers : storeBuf'[v] => pc'[v] \in {"check", "reclaim", "pop"}
    BY <1>8 DEF Push, Running, InTurn, TurnTypes, ClaimHasOneHolder, queueVars, turnVars
  <2> QED
    BY <2>1, <2>2, NoNewHolder
<1>9. ASSUME NEW w \in Workers, EvalPredicate(w) PROVE ClaimHasOneHolder'
  <2>1. /\ ready' = ready /\ claimed' = claimed
        /\ \A u \in Threads, x \in Actors : Sending(u, x)' => Sending(u, x)
    BY <1>9 DEF EvalPredicate, Sending, SendTypes, actorVars, queueVars, turnVars, sendVars
  <2>2. /\ \A v \in Workers, x \in Actors : Running(v, x)' => Running(v, x)
        /\ \A v \in Workers : storeBuf'[v] => pc'[v] \in {"check", "reclaim", "pop"}
    BY <1>9 DEF EvalPredicate, Running, InTurn, TurnTypes, ClaimHasOneHolder, actorVars, queueVars, turnVars, sendVars
  <2> QED
    BY <2>1, <2>2, NoNewHolder
<1>10. ASSUME NEW w \in Workers, Block(w) PROVE ClaimHasOneHolder'
  <2>1. /\ ready' = ready /\ claimed' = claimed
        /\ \A u \in Threads, x \in Actors : Sending(u, x)' => Sending(u, x)
    BY <1>10 DEF Block, Sending, SendTypes, actorVars, queueVars, turnVars, sendVars
  <2>2. /\ \A v \in Workers, x \in Actors : Running(v, x)' => Running(v, x)
        /\ \A v \in Workers : storeBuf'[v] => pc'[v] \in {"check", "reclaim", "pop"}
    BY <1>10 DEF Block, Running, InTurn, TurnTypes, ClaimHasOneHolder, actorVars, queueVars, turnVars, sendVars
  <2> QED
    BY <2>1, <2>2, NoNewHolder
<1>11. ASSUME NEW w \in Workers, TakeAll(w) PROVE ClaimHasOneHolder'
  <2>1. /\ ready' = ready /\ claimed' = claimed
        /\ \A u \in Threads, x \in Actors : Sending(u, x)' => Sending(u, x)
    BY <1>11 DEF TakeAll, Sending, SendTypes, queueVars, sendVars
  <2>2. cur' = cur /\ storeBuf' = storeBuf /\ pc[w] \in {"take", "run"}
    BY <1>11 DEF TakeAll
  <2>3. pc'[w] \in {"take", "run"} /\ \A v \in Workers : v # w => pc'[v] = pc[v]
    BY <1>11 DEF TakeAll, TurnTypes
  <2>4. /\ \A v \in Workers, x \in Actors : Running(v, x)' => Running(v, x)
        /\ \A v \in Workers : storeBuf'[v] => pc'[v] \in {"check", "reclaim", "pop"}
    BY <2>2, <2>3 DEF Running, InTurn, ClaimHasOneHolder
  <2> QED
    BY <2>1, <2>4, NoNewHolder
<1>12. ASSUME NEW w \in Workers, Invoke(w) PROVE ClaimHasOneHolder'
  <2>1. /\ ready' = ready /\ claimed' = claimed
        /\ \A u \in Threads, x \in Actors : Sending(u, x)' => Sending(u, x)
    BY <1>12 DEF Invoke, Sending, SendTypes, actorVars, queueVars, sendVars
  <2>2. /\ \A v \in Workers, x \in Actors : Running(v, x)' => Running(v, x)
        /\ \A v \in Workers : storeBuf'[v] => pc'[v] \in {"check", "reclaim", "pop"}
    BY <1>12 DEF Invoke, Running, InTurn, TurnTypes, ClaimHasOneHolder, actorVars, queueVars, sendVars
  <2> QED
    BY <2>1, <2>2, NoNewHolder
<1>13. ASSUME NEW w \in Workers, HandlerReturns(w) PROVE ClaimHasOneHolder'
  <2>1. /\ ready' = ready /\ claimed' = claimed
        /\ \A u \in Threads, x \in Actors : Sending(u, x)' => Sending(u, x)
    BY <1>13 DEF HandlerReturns, Sending, SendTypes, actorVars, queueVars, sendVars
  <2>2. /\ \A v \in Workers, x \in Actors : Running(v, x)' => Running(v, x)
        /\ \A v \in Workers : storeBuf'[v] => pc'[v] \in {"check", "reclaim", "pop"}
    BY <1>13 DEF HandlerReturns, Running, InTurn, TurnTypes, ClaimHasOneHolder, actorVars, queueVars, sendVars
  <2> QED
    BY <2>1, <2>2, NoNewHolder
<1>14. ASSUME NEW w \in Workers, StoreValue(w) PROVE ClaimHasOneHolder'
  <2>1. /\ ready' = ready /\ claimed' = claimed
        /\ \A u \in Threads, x \in Actors : Sending(u, x)' => Sending(u, x)
    BY <1>14 DEF StoreValue, Sending, SendTypes, queueVars, sendVars
  <2>2. /\ \A v \in Workers, x \in Actors : Running(v, x)' => Running(v, x)
        /\ \A v \in Workers : storeBuf'[v] => pc'[v] \in {"check", "reclaim", "pop"}
    BY <1>14 DEF StoreValue, Running, InTurn, TurnTypes, ClaimHasOneHolder, queueVars, sendVars
  <2> QED
    BY <2>1, <2>2, NoNewHolder
<1>15. ASSUME NEW w \in Workers, DeliverPromise(w) PROVE ClaimHasOneHolder'
  <2>1. /\ ready' = ready /\ claimed' = claimed
        /\ \A u \in Threads, x \in Actors : Sending(u, x)' => Sending(u, x)
    BY <1>15 DEF DeliverPromise, Sending, SendTypes, sendVars
  <2>2. /\ \A v \in Workers, x \in Actors : Running(v, x)' => Running(v, x)
        /\ \A v \in Workers : storeBuf'[v] => pc'[v] \in {"check", "reclaim", "pop"}
    BY <1>15 DEF DeliverPromise, Running, InTurn, TurnTypes, ClaimHasOneHolder, sendVars
  <2> QED
    BY <2>1, <2>2, NoNewHolder
<1>16. ASSUME NEW w \in Workers, ReleaseClaim(w) PROVE ClaimHasOneHolder'
  <2>1. /\ ready' = ready /\ claimed' = claimed
        /\ \A u \in Threads, x \in Actors : Sending(u, x)' => Sending(u, x)
    BY <1>16 DEF ReleaseClaim, Sending, SendTypes, actorVars, queueVars, sendVars
  <2>2. /\ \A v \in Workers, x \in Actors : Running(v, x)' => Running(v, x)
        /\ \A v \in Workers : storeBuf'[v] => pc'[v] \in {"check", "reclaim", "pop"}
    BY <1>16 DEF ReleaseClaim, Running, InTurn, TurnTypes, ClaimHasOneHolder, actorVars, queueVars, sendVars
  <2> QED
    BY <2>1, <2>2, NoNewHolder
<1>17. ASSUME NEW w \in Workers, CheckMailbox(w) PROVE ClaimHasOneHolder'
  <2>1. /\ ready' = ready /\ claimed' = claimed
        /\ \A u \in Threads, x \in Actors : Sending(u, x)' => Sending(u, x)
    BY <1>17 DEF CheckMailbox, Sending, SendTypes, actorVars, queueVars, sendVars
  <2>2. cur' = cur /\ storeBuf' = storeBuf /\ pc[w] \in {"check"}
    BY <1>17 DEF CheckMailbox
  <2>3. pc'[w] \in {"check", "reclaim", "pop"} /\ \A v \in Workers : v # w => pc'[v] = pc[v]
    BY <1>17 DEF CheckMailbox, TurnTypes
  <2>4. /\ \A v \in Workers, x \in Actors : Running(v, x)' => Running(v, x)
        /\ \A v \in Workers : storeBuf'[v] => pc'[v] \in {"check", "reclaim", "pop"}
    BY <2>2, <2>3 DEF Running, InTurn, ClaimHasOneHolder
  <2> QED
    BY <2>1, <2>4, NoNewHolder
<1>18. ASSUME NEW w \in Workers, RankBand(w) PROVE ClaimHasOneHolder'
  <2>1. /\ ready' = ready /\ claimed' = claimed
        /\ \A u \in Threads, x \in Actors : Sending(u, x)' => Sending(u, x)
    BY <1>18 DEF RankBand, Sending, SendTypes, actorVars, queueVars, sendVars
  <2>2. cur' = cur /\ storeBuf' = storeBuf /\ pc[w] \in {"rank", "requeue"}
    BY <1>18 DEF RankBand
  <2>3. pc'[w] \in {"rank", "requeue"} /\ \A v \in Workers : v # w => pc'[v] = pc[v]
    BY <1>18 DEF RankBand, TurnTypes
  <2>4. /\ \A v \in Workers, x \in Actors : Running(v, x)' => Running(v, x)
        /\ \A v \in Workers : storeBuf'[v] => pc'[v] \in {"check", "reclaim", "pop"}
    BY <2>2, <2>3 DEF Running, InTurn, ClaimHasOneHolder
  <2> QED
    BY <2>1, <2>4, NoNewHolder
<1>19. ASSUME NEW w \in Workers, SpuriousWakeup(w) PROVE ClaimHasOneHolder'
  <2>1. /\ ready' = ready /\ claimed' = claimed
        /\ \A u \in Threads, x \in Actors : Sending(u, x)' => Sending(u, x)
    BY <1>19 DEF SpuriousWakeup, Sending, SendTypes, actorVars, queueVars, turnVars, sendVars
  <2>2. /\ \A v \in Workers, x \in Actors : Running(v, x)' => Running(v, x)
        /\ \A v \in Workers : storeBuf'[v] => pc'[v] \in {"check", "reclaim", "pop"}
    BY <1>19 DEF SpuriousWakeup, Running, InTurn, TurnTypes, ClaimHasOneHolder, actorVars, queueVars, turnVars, sendVars
  <2> QED
    BY <2>1, <2>2, NoNewHolder
<1>20. CASE ShutdownFlag
  <2>1. /\ ready' = ready /\ claimed' = claimed
        /\ \A u \in Threads, x \in Actors : Sending(u, x)' => Sending(u, x)
    BY <1>20 DEF ShutdownFlag, Sending, SendTypes, actorVars, turnVars, sendVars
  <2>2. /\ \A v \in Workers, x \in Actors : Running(v, x)' => Running(v, x)
        /\ \A v \in Workers : storeBuf'[v] => pc'[v] \in {"check", "reclaim", "pop"}
    BY <1>20 DEF ShutdownFlag, Running, InTurn, TurnTypes, ClaimHasOneHolder, actorVars, turnVars, sendVars
  <2> QED
    BY <2>1, <2>2, NoNewHolder
<1>21. CASE ShutdownNotify
  <2>1. /\ ready' = ready /\ claimed' = claimed
        /\ \A u \in Threads, x \in Actors : Sending(u, x)' => Sending(u, x)
    BY <1>21 DEF ShutdownNotify, Sending, SendTypes, actorVars, queueVars, turnVars, sendVars
  <2>2. /\ \A v \in Workers, x \in Actors : Running(v, x)' => Running(v, x)
        /\ \A v \in Workers : storeBuf'[v] => pc'[v] \in {"check", "reclaim", "pop"}
    BY <1>21 DEF ShutdownNotify, Running, InTurn, TurnTypes, ClaimHasOneHolder, actorVars, queueVars, turnVars, sendVars
  <2> QED
    BY <2>1, <2>2, NoNewHolder
<1>22. CASE ShutdownJoin
  <2>1. /\ ready' = ready /\ claimed' = claimed
        /\ \A u \in Threads, x \in Actors : Sending(u, x)' => Sending(u, x)
    BY <1>22 DEF ShutdownJoin, Sending, SendTypes, actorVars, queueVars, turnVars, sendVars
  <2>2. /\ \A v \in Workers, x \in Actors : Running(v, x)' => Running(v, x)
        /\ \A v \in Workers : storeBuf'[v] => pc'[v] \in {"check", "reclaim", "pop"}
    BY <1>22 DEF ShutdownJoin, Running, InTurn, TurnTypes, ClaimHasOneHolder, actorVars, queueVars, turnVars, sendVars
  <2> QED
    BY <2>1, <2>2, NoNewHolder
<1>23. CASE UNCHANGED vars
  <2>1. /\ ready' = ready /\ claimed' = claimed
        /\ \A u \in Threads, x \in Actors : Sending(u, x)' => Sending(u, x)
    BY <1>23 DEF Sending, SendTypes, vars, actorVars, queueVars, turnVars, sendVars
  <2>2. /\ \A v \in Workers, x \in Actors : Running(v, x)' => Running(v, x)
        /\ \A v \in Workers : storeBuf'[v] => pc'[v] \in {"check", "reclaim", "pop"}
    BY <1>23 DEF Running, InTurn, TurnTypes, ClaimHasOneHolder, vars, actorVars, queueVars, turnVars, sendVars
  <2> QED
    BY <2>1, <2>2, NoNewHolder
<1> QED
  BY <1>1, <1>2, <1>3, <1>4, <1>5, <1>6, <1>7, <1>8, <1>9, <1>10, <1>11, <1>12,
     PrimBandFacts, <1>13, <1>14, <1>15, <1>16, <1>17, <1>18, <1>19, <1>20, <1>21, <1>22, <1>23
     DEF Next, SendStep, WorkerStep, ShutdownStep, Terminated

\* One holder per claim, for any number of threads and actors and whether or
\* not the release of the claim is delayed.
THEOREM OneHolder == Spec => []ClaimHasOneHolder
  BY TypeInit, TypeStep, ClaimInit, ClaimStep, PTL DEF Spec

\* The single-method invariant of the scheduler: two workers in a turn are in
\* turns of different actors.
THEOREM SingleMethodHolds == Spec => []SingleMethod
<1>1. TypeOK /\ ClaimHasOneHolder => SingleMethod
  BY DEF TypeOK, TurnTypes, LocalsSet, ClaimHasOneHolder, SingleMethod, Running, InTurn
<1> QED
  BY <1>1, TypeCorrect, OneHolder, PTL
-----------------------------------------------------------------------------
(* No message is stranded when stores are not delayed. *)

SeenInv == ClaimIsHeld /\ ReleaseIsChecked /\ NoStrandedMessage

\* A step that takes no holder from a claim, sets none, and makes no thread
\* lose sight of a mailbox keeps the invariant.
LEMMA SeenFrame ==
    ASSUME SeenInv, ReleaseIsChecked',
           ready' = ready, claimed' = claimed,
           \A a \in Actors, b \in Bands : mailbox'[a][b] # <<>> => mailbox[a][b] # <<>>,
           \A t \in Threads, a \in Actors : Sending(t, a) => Sending(t, a)',
           \A t \in Threads, a \in Actors : WillSchedule(t, a) => WillSchedule(t, a)',
           \A w \in Workers, a \in Actors : Running(w, a) => Running(w, a)',
           \A w \in Workers, a \in Actors, b \in Bands :
               WillCheck(w, a, b) => WillCheck(w, a, b)'
    PROVE  SeenInv'
<1>1. \A a \in Actors : QueuedIn(ready, a)' <=> QueuedIn(ready, a)
  BY DEF QueuedIn
<1>2. ClaimIsHeld'
  BY <1>1 DEF SeenInv, ClaimIsHeld
<1>3. NoStrandedMessage'
  BY <1>1 DEF SeenInv, NoStrandedMessage, WillBeSeen
<1> QED
  BY <1>2, <1>3 DEF SeenInv

\* At the start nothing is sent and no claim is taken.
LEMMA SeenInit == Init => SeenInv
<1> SUFFICES ASSUME Init PROVE SeenInv
  OBVIOUS
<1>1. \A a \in Actors : ~claimed[a] /\ \A b \in Bands : mailbox[a][b] = <<>>
  BY DEF Init, EmptyBatch
<1>2. \A w \in Workers : ~storeBuf[w]
  BY DEF Init
<1> QED
  BY <1>1, <1>2 DEF SeenInv, ClaimIsHeld, ReleaseIsChecked, NoStrandedMessage

\* A claim that is set has a holder that will look at every band again.
LEMMA HeldIsSeen ==
    ASSUME SeenInv, NEW a \in Actors, claimed[a]
    PROVE  \/ QueuedIn(ready, a)
           \/ \E t \in Threads : Sending(t, a)
           \/ \E w \in Workers : /\ Running(w, a)
                                 /\ \A b \in Bands : WillCheck(w, a, b)
<1>1. ASSUME NEW w \in Workers, Running(w, a) PROVE \A b \in Bands : WillCheck(w, a, b)
  BY <1>1 DEF SeenInv, ReleaseIsChecked, Running, WillCheck, Bands
<1> QED
  BY <1>1 DEF SeenInv, ClaimIsHeld

\* Without delayed stores, whoever releases a claim sees what was pushed before.
LEMMA SeenStep ==
    ASSUME ~StoreBuffering, TypeOK, SeenInv, [Next]_vars
    PROVE  SeenInv'
<1> USE DEF TypeOK
<1>1. ASSUME NEW t \in Threads, NEW a \in Actors, NewActor(t, a) PROVE SeenInv'
  <2>1. /\ ready' = ready /\ claimed' = claimed
        /\ \A x \in Actors, c \in Bands : mailbox'[x][c] # <<>> => mailbox[x][c] # <<>>
    BY <1>1 DEF NewActor, EnsureStarted, ActorTypes, turnVars, sendVars
  <2>2. /\ \A u \in Threads, x \in Actors : Sending(u, x) => Sending(u, x)'
        /\ \A u \in Threads, x \in Actors : WillSchedule(u, x) => WillSchedule(u, x)'
    BY <1>1 DEF NewActor, EnsureStarted, Sending, WillSchedule, turnVars, sendVars
  <2>3. /\ \A v \in Workers, x \in Actors : Running(v, x) => Running(v, x)'
        /\ \A v \in Workers, x \in Actors, c \in Bands :
             WillCheck(v, x, c) => WillCheck(v, x, c)'
    BY <1>1 DEF NewActor, EnsureStarted, Running, WillCheck, InTurn, TurnTypes, turnVars, sendVars
  <2>4. ReleaseIsChecked'
    BY <1>1 DEF NewActor, EnsureStarted, SeenInv, ReleaseIsChecked, TurnTypes, turnVars, sendVars
  <2> QED
    BY <2>1, <2>2, <2>3, <2>4, SeenFrame
<1>2. ASSUME NEW w \in Workers, EvalPredicate(w) PROVE SeenInv'
  <2>1. /\ ready' = ready /\ claimed' = claimed
        /\ \A x \in Actors, c \in Bands : mailbox'[x][c] # <<>> => mailbox[x][c] # <<>>
    BY <1>2 DEF EvalPredicate, ActorTypes, actorVars, queueVars, turnVars, sendVars
  <2>2. /\ \A u \in Threads, x \in Actors : Sending(u, x) => Sending(u, x)'
        /\ \A u \in Threads, x \in Actors : WillSchedule(u, x) => WillSchedule(u, x)'
    BY <1>2 DEF EvalPredicate, Sending, WillSchedule, actorVars, queueVars, turnVars, sendVars
  <2>3. /\ \A v \in Workers, x \in Actors : Running(v, x) => Running(v, x)'
        /\ \A v \in Workers, x \in Actors, c \in Bands :
             WillCheck(v, x, c) => WillCheck(v, x, c)'
    BY <1>2 DEF EvalPredicate, Running, WillCheck, InTurn, TurnTypes, actorVars, queueVars, turnVars, sendVars
  <2>4. ReleaseIsChecked'
    BY <1>2 DEF EvalPredicate, SeenInv, ReleaseIsChecked, TurnTypes, actorVars, queueVars, turnVars, sendVars
  <2> QED
    BY <2>1, <2>2, <2>3, <2>4, SeenFrame
<1>3. ASSUME NEW w \in Workers, Block(w) PROVE SeenInv'
  <2>1. /\ ready' = ready /\ claimed' = claimed
        /\ \A x \in Actors, c \in Bands : mailbox'[x][c] # <<>> => mailbox[x][c] # <<>>
    BY <1>3 DEF Block, ActorTypes, actorVars, queueVars, turnVars, sendVars
  <2>2. /\ \A u \in Threads, x \in Actors : Sending(u, x) => Sending(u, x)'
        /\ \A u \in Threads, x \in Actors : WillSchedule(u, x) => WillSchedule(u, x)'
    BY <1>3 DEF Block, Sending, WillSchedule, actorVars, queueVars, turnVars, sendVars
  <2>3. /\ \A v \in Workers, x \in Actors : Running(v, x) => Running(v, x)'
        /\ \A v \in Workers, x \in Actors, c \in Bands :
             WillCheck(v, x, c) => WillCheck(v, x, c)'
    BY <1>3 DEF Block, Running, WillCheck, InTurn, TurnTypes, actorVars, queueVars, turnVars, sendVars
  <2>4. ReleaseIsChecked'
    BY <1>3 DEF Block, SeenInv, ReleaseIsChecked, TurnTypes, actorVars, queueVars, turnVars, sendVars
  <2> QED
    BY <2>1, <2>2, <2>3, <2>4, SeenFrame
<1>4. ASSUME NEW w \in Workers, TakeAll(w) PROVE SeenInv'
  <2>1. /\ ready' = ready /\ claimed' = claimed
        /\ \A x \in Actors, c \in Bands : mailbox'[x][c] # <<>> => mailbox[x][c] # <<>>
    BY <1>4 DEF TakeAll, ActorTypes, queueVars, sendVars
  <2>2. /\ \A u \in Threads, x \in Actors : Sending(u, x) => Sending(u, x)'
        /\ \A u \in Threads, x \in Actors : WillSchedule(u, x) => WillSchedule(u, x)'
    BY <1>4 DEF TakeAll, Sending, WillSchedule, queueVars, sendVars
  <2>3. /\ \A v \in Workers, x \in Actors : Running(v, x) => Running(v, x)'
        /\ \A v \in Workers, x \in Actors, c \in Bands :
             WillCheck(v, x, c) => WillCheck(v, x, c)'
    BY <1>4 DEF TakeAll, Running, WillCheck, InTurn, TurnTypes, queueVars, sendVars
  <2>4. ReleaseIsChecked'
    BY <1>4 DEF TakeAll, SeenInv, ReleaseIsChecked, TurnTypes, queueVars, sendVars
  <2> QED
    BY <2>1, <2>2, <2>3, <2>4, SeenFrame
<1>5. ASSUME NEW w \in Workers, Invoke(w) PROVE SeenInv'
  <2>1. /\ ready' = ready /\ claimed' = claimed
        /\ \A x \in Actors, c \in Bands : mailbox'[x][c] # <<>> => mailbox[x][c] # <<>>
    BY <1>5 DEF Invoke, ActorTypes, actorVars, queueVars, sendVars
  <2>2. /\ \A u \in Threads, x \in Actors : Sending(u, x) => Sending(u, x)'
        /\ \A u \in Threads, x \in Actors : WillSchedule(u, x) => WillSchedule(u, x)'
    BY <1>5 DEF Invoke, Sending, WillSchedule, actorVars, queueVars, sendVars
  <2>3. /\ \A v \in Workers, x \in Actors : Running(v, x) => Running(v, x)'
        /\ \A v \in Workers, x \in Actors, c \in Bands :
             WillCheck(v, x, c) => WillCheck(v, x, c)'
    BY <1>5 DEF Invoke, Running, WillCheck, InTurn, TurnTypes, actorVars, queueVars, sendVars
  <2>4. ReleaseIsChecked'
    BY <1>5 DEF Invoke, SeenInv, ReleaseIsChecked, TurnTypes, actorVars, queueVars, sendVars
  <2> QED
    BY <2>1, <2>2, <2>3, <2>4, SeenFrame
<1>6. ASSUME NEW w \in Workers, HandlerReturns(w) PROVE SeenInv'
  <2>1. /\ ready' = ready /\ claimed' = claimed
        /\ \A x \in Actors, c \in Bands : mailbox'[x][c] # <<>> => mailbox[x][c] # <<>>
    BY <1>6 DEF HandlerReturns, ActorTypes, actorVars, queueVars, sendVars
  <2>2. /\ \A u \in Threads, x \in Actors : Sending(u, x) => Sending(u, x)'
        /\ \A u \in Threads, x \in Actors : WillSchedule(u, x) => WillSchedule(u, x)'
    BY <1>6 DEF HandlerReturns, Sending, WillSchedule, actorVars, queueVars, sendVars
  <2>3. /\ \A v \in Workers, x \in Actors : Running(v, x) => Running(v, x)'
        /\ \A v \in Workers, x \in Actors, c \in Bands :
             WillCheck(v, x, c) => WillCheck(v, x, c)'
    BY <1>6 DEF HandlerReturns, Running, WillCheck, InTurn, TurnTypes, actorVars, queueVars, sendVars
  <2>4. ReleaseIsChecked'
    BY <1>6 DEF HandlerReturns, SeenInv, ReleaseIsChecked, TurnTypes, actorVars, queueVars, sendVars
  <2> QED
    BY <2>1, <2>2, <2>3, <2>4, SeenFrame
<1>7. ASSUME NEW w \in Workers, StoreValue(w) PROVE SeenInv'
  <2>1. /\ ready' = ready /\ claimed' = claimed
        /\ \A x \in Actors, c \in Bands : mailbox'[x][c] # <<>> => mailbox[x][c] # <<>>
    BY <1>7 DEF StoreValue, ActorTypes, queueVars, sendVars
  <2>2. /\ \A u \in Threads, x \in Actors : Sending(u, x) => Sending(u, x)'
        /\ \A u \in Threads, x \in Actors : WillSchedule(u, x) => WillSchedule(u, x)'
    BY <1>7 DEF StoreValue, Sending, WillSchedule, queueVars, sendVars
  <2>3. /\ \A v \in Workers, x \in Actors : Running(v, x) => Running(v, x)'
        /\ \A v \in Workers, x \in Actors, c \in Bands :
             WillCheck(v, x, c) => WillCheck(v, x, c)'
    BY <1>7 DEF StoreValue, Running, WillCheck, InTurn, TurnTypes, queueVars, sendVars
  <2>4. ReleaseIsChecked'
    BY <1>7 DEF StoreValue, SeenInv, ReleaseIsChecked, TurnTypes, queueVars, sendVars
  <2> QED
    BY <2>1, <2>2, <2>3, <2>4, SeenFrame
<1>8. ASSUME NEW w \in Workers, DeliverPromise(w) PROVE SeenInv'
  <2>1. /\ ready' = ready /\ claimed' = claimed
        /\ \A x \in Actors, c \in Bands : mailbox'[x][c] # <<>> => mailbox[x][c] # <<>>
    BY <1>8 DEF DeliverPromise, ActorTypes, sendVars
  <2>2. /\ \A u \in Threads, x \in Actors : Sending(u, x) => Sending(u, x)'
        /\ \A u \in Threads, x \in Actors : WillSchedule(u, x) => WillSchedule(u, x)'
    BY <1>8 DEF DeliverPromise, Sending, WillSchedule, sendVars
  <2>3. /\ \A v \in Workers, x \in Actors : Running(v, x) => Running(v, x)'
        /\ \A v \in Workers, x \in Actors, c \in Bands :
             WillCheck(v, x, c) => WillCheck(v, x, c)'
    BY <1>8 DEF DeliverPromise, Running, WillCheck, InTurn, TurnTypes, sendVars
  <2>4. ReleaseIsChecked'
    BY <1>8 DEF DeliverPromise, SeenInv, ReleaseIsChecked, TurnTypes, sendVars
  <2> QED
    BY <2>1, <2>2, <2>3, <2>4, SeenFrame
<1>9. ASSUME NEW w \in Workers, ReleaseClaim(w) PROVE SeenInv'
  <2>1. /\ ready' = ready /\ claimed' = claimed
        /\ \A x \in Actors, c \in Bands : mailbox'[x][c] # <<>> => mailbox[x][c] # <<>>
    BY <1>9 DEF ReleaseClaim, ActorTypes, actorVars, queueVars, sendVars, Bands
  <2>2. /\ \A u \in Threads, x \in Actors : Sending(u, x) => Sending(u, x)'
        /\ \A u \in Threads, x \in Actors : WillSchedule(u, x) => WillSchedule(u, x)'
    BY <1>9 DEF ReleaseClaim, Sending, WillSchedule, actorVars, queueVars, sendVars, Bands
  <2>3. /\ \A v \in Workers, x \in Actors : Running(v, x) => Running(v, x)'
        /\ \A v \in Workers, x \in Actors, c \in Bands :
             WillCheck(v, x, c) => WillCheck(v, x, c)'
    BY <1>9 DEF ReleaseClaim, Running, WillCheck, InTurn, TurnTypes, actorVars, queueVars, sendVars, Bands
  <2>4. ReleaseIsChecked'
    BY <1>9 DEF ReleaseClaim, SeenInv, ReleaseIsChecked, TurnTypes, actorVars, queueVars, sendVars, Bands
  <2> QED
    BY <2>1, <2>2, <2>3, <2>4, SeenFrame
<1>10. ASSUME NEW w \in Workers, RankBand(w) PROVE SeenInv'
  <2>1. /\ ready' = ready /\ claimed' = claimed
        /\ \A x \in Actors, c \in Bands : mailbox'[x][c] # <<>> => mailbox[x][c] # <<>>
    BY <1>10 DEF RankBand, ActorTypes, actorVars, queueVars, sendVars
  <2>2. /\ \A u \in Threads, x \in Actors : Sending(u, x) => Sending(u, x)'
        /\ \A u \in Threads, x \in Actors : WillSchedule(u, x) => WillSchedule(u, x)'
    BY <1>10 DEF RankBand, Sending, WillSchedule, actorVars, queueVars, sendVars
  <2>3. /\ \A v \in Workers, x \in Actors : Running(v, x) => Running(v, x)'
        /\ \A v \in Workers, x \in Actors, c \in Bands :
             WillCheck(v, x, c) => WillCheck(v, x, c)'
    BY <1>10 DEF RankBand, Running, WillCheck, InTurn, TurnTypes, actorVars, queueVars, sendVars
  <2>4. ReleaseIsChecked'
    BY <1>10 DEF RankBand, SeenInv, ReleaseIsChecked, TurnTypes, actorVars, queueVars, sendVars
  <2> QED
    BY <2>1, <2>2, <2>3, <2>4, SeenFrame
<1>11. ASSUME NEW w \in Workers, SpuriousWakeup(w) PROVE SeenInv'
  <2>1. /\ ready' = ready /\ claimed' = claimed
        /\ \A x \in Actors, c \in Bands : mailbox'[x][c] # <<>> => mailbox[x][c] # <<>>
    BY <1>11 DEF SpuriousWakeup, ActorTypes, actorVars, queueVars, turnVars, sendVars
  <2>2. /\ \A u \in Threads, x \in Actors : Sending(u, x) => Sending(u, x)'
        /\ \A u \in Threads, x \in Actors : WillSchedule(u, x) => WillSchedule(u, x)'
    BY <1>11 DEF SpuriousWakeup, Sending, WillSchedule, actorVars, queueVars, turnVars, sendVars
  <2>3. /\ \A v \in Workers, x \in Actors : Running(v, x) => Running(v, x)'
        /\ \A v \in Workers, x \in Actors, c \in Bands :
             WillCheck(v, x, c) => WillCheck(v, x, c)'
    BY <1>11 DEF SpuriousWakeup, Running, WillCheck, InTurn, TurnTypes, actorVars, queueVars, turnVars, sendVars
  <2>4. ReleaseIsChecked'
    BY <1>11 DEF SpuriousWakeup, SeenInv, ReleaseIsChecked, TurnTypes, actorVars, queueVars, turnVars, sendVars
  <2> QED
    BY <2>1, <2>2, <2>3, <2>4, SeenFrame
<1>12. CASE ShutdownFlag
  <2>1. /\ ready' = ready /\ claimed' = claimed
        /\ \A x \in Actors, c \in Bands : mailbox'[x][c] # <<>> => mailbox[x][c] # <<>>
    BY <1>12 DEF ShutdownFlag, ActorTypes, actorVars, turnVars, sendVars
  <2>2. /\ \A u \in Threads, x \in Actors : Sending(u, x) => Sending(u, x)'
        /\ \A u \in Threads, x \in Actors : WillSchedule(u, x) => WillSchedule(u, x)'
    BY <1>12 DEF ShutdownFlag, Sending, WillSchedule, actorVars, turnVars, sendVars
  <2>3. /\ \A v \in Workers, x \in Actors : Running(v, x) => Running(v, x)'
        /\ \A v \in Workers, x \in Actors, c \in Bands :
             WillCheck(v, x, c) => WillCheck(v, x, c)'
    BY <1>12 DEF ShutdownFlag, Running, WillCheck, InTurn, TurnTypes, actorVars, turnVars, sendVars
  <2>4. ReleaseIsChecked'
    BY <1>12 DEF ShutdownFlag, SeenInv, ReleaseIsChecked, TurnTypes, actorVars, turnVars, sendVars
  <2> QED
    BY <2>1, <2>2, <2>3, <2>4, SeenFrame
<1>13. CASE ShutdownNotify
  <2>1. /\ ready' = ready /\ claimed' = claimed
        /\ \A x \in Actors, c \in Bands : mailbox'[x][c] # <<>> => mailbox[x][c] # <<>>
    BY <1>13 DEF ShutdownNotify, ActorTypes, actorVars, queueVars, turnVars, sendVars
  <2>2. /\ \A u \in Threads, x \in Actors : Sending(u, x) => Sending(u, x)'
        /\ \A u \in Threads, x \in Actors : WillSchedule(u, x) => WillSchedule(u, x)'
    BY <1>13 DEF ShutdownNotify, Sending, WillSchedule, actorVars, queueVars, turnVars, sendVars
  <2>3. /\ \A v \in Workers, x \in Actors : Running(v, x) => Running(v, x)'
        /\ \A v \in Workers, x \in Actors, c \in Bands :
             WillCheck(v, x, c) => WillCheck(v, x, c)'
    BY <1>13 DEF ShutdownNotify, Running, WillCheck, InTurn, TurnTypes, actorVars, queueVars, turnVars, sendVars
  <2>4. ReleaseIsChecked'
    BY <1>13 DEF ShutdownNotify, SeenInv, ReleaseIsChecked, TurnTypes, actorVars, queueVars, turnVars, sendVars
  <2> QED
    BY <2>1, <2>2, <2>3, <2>4, SeenFrame
<1>14. CASE ShutdownJoin
  <2>1. /\ ready' = ready /\ claimed' = claimed
        /\ \A x \in Actors, c \in Bands : mailbox'[x][c] # <<>> => mailbox[x][c] # <<>>
    BY <1>14 DEF ShutdownJoin, ActorTypes, actorVars, queueVars, turnVars, sendVars
  <2>2. /\ \A u \in Threads, x \in Actors : Sending(u, x) => Sending(u, x)'
        /\ \A u \in Threads, x \in Actors : WillSchedule(u, x) => WillSchedule(u, x)'
    BY <1>14 DEF ShutdownJoin, Sending, WillSchedule, actorVars, queueVars, turnVars, sendVars
  <2>3. /\ \A v \in Workers, x \in Actors : Running(v, x) => Running(v, x)'
        /\ \A v \in Workers, x \in Actors, c \in Bands :
             WillCheck(v, x, c) => WillCheck(v, x, c)'
    BY <1>14 DEF ShutdownJoin, Running, WillCheck, InTurn, TurnTypes, actorVars, queueVars, turnVars, sendVars
  <2>4. ReleaseIsChecked'
    BY <1>14 DEF ShutdownJoin, SeenInv, ReleaseIsChecked, TurnTypes, actorVars, queueVars, turnVars, sendVars
  <2> QED
    BY <2>1, <2>2, <2>3, <2>4, SeenFrame
<1>15. CASE UNCHANGED vars
  <2>1. /\ ready' = ready /\ claimed' = claimed
        /\ \A x \in Actors, c \in Bands : mailbox'[x][c] # <<>> => mailbox[x][c] # <<>>
    BY <1>15 DEF ActorTypes, vars, actorVars, queueVars, turnVars, sendVars
  <2>2. /\ \A u \in Threads, x \in Actors : Sending(u, x) => Sending(u, x)'
        /\ \A u \in Threads, x \in Actors : WillSchedule(u, x) => WillSchedule(u, x)'
    BY <1>15 DEF Sending, WillSchedule, vars, actorVars, queueVars, turnVars, sendVars
  <2>3. /\ \A v \in Workers, x \in Actors : Running(v, x) => Running(v, x)'
        /\ \A v \in Workers, x \in Actors, c \in Bands :
             WillCheck(v, x, c) => WillCheck(v, x, c)'
    BY <1>15 DEF Running, WillCheck, InTurn, TurnTypes, vars, actorVars, queueVars, turnVars, sendVars
  <2>4. ReleaseIsChecked'
    BY <1>15 DEF SeenInv, ReleaseIsChecked, TurnTypes, vars, actorVars, queueVars, turnVars, sendVars
  <2> QED
    BY <2>1, <2>2, <2>3, <2>4, SeenFrame
<1>16. ASSUME NEW t \in Threads, SendClaim(t) PROVE SeenInv'
  <2>0. PICK a \in Actors : a = dst[t]
    BY <1>16 DEF SendClaim, LocalsSet
  <2>1. /\ ready' = ready /\ mailbox' = mailbox
        /\ \A x \in Actors : claimed'[x] => claimed[x] \/ x = a
    BY <1>16, <2>0 DEF SendClaim, ActorTypes, queueVars
  <2>2. \A x \in Actors : QueuedIn(ready, x)' <=> QueuedIn(ready, x)
    BY <2>1 DEF QueuedIn
  <2>3. /\ \A u \in Threads, x \in Actors : Sending(u, x) => Sending(u, x)'
        /\ \A u \in Threads, x \in Actors : u # t /\ WillSchedule(u, x) => WillSchedule(u, x)'
        /\ ~claimed[a] => Sending(t, a)' /\ WillSchedule(t, a)'
        /\ \A x \in Actors : WillSchedule(t, x) => x = a
    BY <1>16, <2>0 DEF SendClaim, Sending, WillSchedule, SendTypes
  <2>4. /\ \A v \in Workers, x \in Actors : Running(v, x) => Running(v, x)'
        /\ \A v \in Workers, x \in Actors, c \in Bands :
             WillCheck(v, x, c) => WillCheck(v, x, c)'
    BY <1>16 DEF SendClaim, Running, WillCheck, InTurn, turnVars
  <2>5. ReleaseIsChecked'
    BY <1>16 DEF SendClaim, SeenInv, ReleaseIsChecked, turnVars
  <2>6. ClaimIsHeld'
    <3>1. ASSUME NEW x \in Actors, claimed[x]
          PROVE  \/ QueuedIn(ready, x)'
                 \/ (\E u \in Threads : Sending(u, x))'
                 \/ (\E v \in Workers : Running(v, x))'
      BY <2>2, <2>3, <2>4, <3>1 DEF SeenInv, ClaimIsHeld
    <3>2. CASE claimed[a]
      BY <2>1, <3>1, <3>2 DEF ClaimIsHeld
    <3>3. CASE ~claimed[a]
      BY <2>1, <2>3, <3>1, <3>3 DEF ClaimIsHeld
    <3> QED
      BY <3>2, <3>3
  <2>7. ASSUME claimed[a], NEW c \in Bands PROVE WillBeSeen(a, c)'
    <3>1. \A u \in Threads : Sending(u, a) => WillSchedule(u, a)'
      BY <1>16, <2>0 DEF SendClaim, Sending, WillSchedule, SendTypes
    <3>2. \/ QueuedIn(ready, a)
          \/ \E u \in Threads : Sending(u, a)
          \/ \E v \in Workers : WillCheck(v, a, c)
      BY <2>1, <2>7, HeldIsSeen
    <3> QED
      BY <2>1, <2>2, <2>4, <3>1, <3>2 DEF WillBeSeen
  <2>8. NoStrandedMessage'
    <3> SUFFICES ASSUME NEW x \in Actors, NEW c \in Bands, mailbox[x][c] # <<>>
                 PROVE  WillBeSeen(x, c)'
      BY <2>1 DEF NoStrandedMessage
    <3>1. CASE x # a
      BY <2>2, <2>3, <2>4, <3>1 DEF SeenInv, NoStrandedMessage, WillBeSeen
    <3>2. CASE x = a
      BY <2>3, <2>7, <3>2 DEF WillBeSeen
    <3> QED
      BY <3>1, <3>2
  <2> QED
    BY <2>5, <2>6, <2>8 DEF SeenInv
<1>17. ASSUME NEW t \in Threads, SendEnqueue(t) PROVE SeenInv'
  <2> DEFINE a == dst[t]
  <2>1. a \in Actors /\ claimed' = claimed /\ mailbox' = mailbox
    BY <1>17 DEF SendEnqueue, LocalsSet, actorVars
  <2>2. \A x \in Actors : QueuedIn(ready', x) <=> QueuedIn(ready, x) \/ x = a
    <3>1. ready \in [Bands -> Seq(Actors)] /\ dstBand[t] \in Bands
      BY DEF QueueTypes, SendTypes
    <3>2. ready' = [ready EXCEPT ![dstBand[t]] = Append(@, a)]
      BY <1>17 DEF SendEnqueue, EnqueueReady
    <3> QED
      BY <2>1, <3>1, <3>2, QueuedAppend
  <2>3. /\ \A u \in Threads, x \in Actors : Sending(u, x) => Sending(u, x)' \/ x = a
        /\ \A u \in Threads, x \in Actors : WillSchedule(u, x) => WillSchedule(u, x)' \/ x = a
    BY <1>17 DEF SendEnqueue, Sending, WillSchedule, SendTypes
  <2>4. \A v \in Workers : pc'[v] = pc[v] \/ (pc'[v] = "park" /\ pc[v] = "blocked")
    BY <1>17, NotifyOneEffect DEF SendEnqueue, EnqueueReady, TurnTypes
  <2>5. /\ \A v \in Workers, x \in Actors : Running(v, x) => Running(v, x)'
        /\ \A v \in Workers, x \in Actors, c \in Bands :
             WillCheck(v, x, c) => WillCheck(v, x, c)'
    BY <1>17, <2>4 DEF SendEnqueue, Running, WillCheck, InTurn, turnVars
  <2>6. ReleaseIsChecked'
    BY <1>17, <2>4 DEF SendEnqueue, SeenInv, ReleaseIsChecked, turnVars
  <2>7. ClaimIsHeld'
    BY <2>1, <2>2, <2>3, <2>5 DEF SeenInv, ClaimIsHeld
  <2>8. NoStrandedMessage'
    BY <2>1, <2>2, <2>3, <2>5 DEF SeenInv, NoStrandedMessage, WillBeSeen
  <2> QED
    BY <2>6, <2>7, <2>8 DEF SeenInv
<1>18. ASSUME NEW t \in Threads, NEW a \in Actors, NEW b \in Bands,
             NEW m \in Messages, Push(t, a, b, m) PROVE SeenInv'
  <2>1. /\ ready' = ready /\ claimed' = claimed
        /\ \A x \in Actors, c \in Bands :
             mailbox'[x][c] # <<>> => mailbox[x][c] # <<>> \/ x = a
    BY <1>18 DEF Push, ActorTypes, queueVars
  <2>2. /\ \A u \in Threads, x \in Actors : Sending(u, x) => Sending(u, x)'
        /\ \A u \in Threads, x \in Actors : WillSchedule(u, x) => WillSchedule(u, x)'
        /\ WillSchedule(t, a)'
    BY <1>18 DEF Push, RunsClojure, Sending, WillSchedule, SendTypes
  <2>3. /\ \A v \in Workers, x \in Actors : Running(v, x) => Running(v, x)'
        /\ \A v \in Workers, x \in Actors, c \in Bands :
             WillCheck(v, x, c) => WillCheck(v, x, c)'
    BY <1>18 DEF Push, Running, WillCheck, InTurn, turnVars
  <2>4. ReleaseIsChecked'
    BY <1>18 DEF Push, SeenInv, ReleaseIsChecked, turnVars
  <2>5. \A x \in Actors : QueuedIn(ready, x)' <=> QueuedIn(ready, x)
    BY <2>1 DEF QueuedIn
  <2>6. ClaimIsHeld'
    BY <2>1, <2>2, <2>3, <2>5 DEF SeenInv, ClaimIsHeld
  <2>7. NoStrandedMessage'
    BY <2>1, <2>2, <2>3, <2>5 DEF SeenInv, NoStrandedMessage, WillBeSeen
  <2> QED
    BY <2>4, <2>6, <2>7 DEF SeenInv
<1>19. ASSUME NEW w \in Workers, PopReady(w) PROVE SeenInv'
  <2>1. claimed' = claimed /\ mailbox' = mailbox /\ storeBuf' = storeBuf
    BY <1>19 DEF PopReady, actorVars
  <2>2. /\ \A u \in Threads, x \in Actors : Sending(u, x) => Sending(u, x)'
        /\ \A u \in Threads, x \in Actors : WillSchedule(u, x) => WillSchedule(u, x)'
    BY <1>19 DEF PopReady, Sending, WillSchedule, sendVars
  <2>3. /\ \A v \in Workers, x \in Actors : Running(v, x) => Running(v, x)'
        /\ \A v \in Workers, x \in Actors, c \in Bands :
             WillCheck(v, x, c) => WillCheck(v, x, c)'
    BY <1>19 DEF PopReady, Running, WillCheck, InTurn, TurnTypes
  <2>4. ReleaseIsChecked'
    BY <1>19 DEF PopReady, SeenInv, ReleaseIsChecked, TurnTypes
  <2>5. CASE AnyReady
    <3>1. PICK b \in Bands : /\ ready[b] # <<>>
                             /\ cur' = [cur EXCEPT ![w] = Head(ready[b])]
                             /\ ready' = [ready EXCEPT ![b] = Tail(@)]
                             /\ pc' = [pc EXCEPT ![w] = "take"]
      BY <1>19, <2>5 DEF PopReady
    <3>0. PICK a \in Actors : a = Head(ready[b])
      BY <3>1, HeadTail DEF QueueTypes
    <3>2. \A x \in Actors : QueuedIn(ready, x) => QueuedIn(ready', x) \/ x = a
      BY <3>0, <3>1, QueuedTailKeeps DEF QueueTypes
    <3>3. Running(w, a)' /\ \A c \in Bands : WillCheck(w, a, c)'
      BY <3>0, <3>1 DEF Running, WillCheck, InTurn, TurnTypes
    <3>4. ClaimIsHeld'
      BY <2>1, <2>2, <2>3, <3>2, <3>3 DEF SeenInv, ClaimIsHeld
    <3>5. NoStrandedMessage'
      BY <2>1, <2>2, <2>3, <3>2, <3>3 DEF SeenInv, NoStrandedMessage, WillBeSeen
    <3> QED
      BY <2>4, <3>4, <3>5 DEF SeenInv
  <2>6. CASE ~AnyReady
    <3>1. ready' = ready
      BY <1>19, <2>6 DEF PopReady
    <3> QED
      BY <2>1, <2>2, <2>3, <2>4, <3>1, SeenFrame
  <2> QED
    BY <2>5, <2>6
<1>20. ASSUME NEW w \in Workers, FlushRelease(w) PROVE SeenInv'
  <2> DEFINE a == cur[w]
  <2>1. /\ a \in Actors /\ ready' = ready /\ mailbox' = mailbox
        /\ ~claimed'[a] /\ \A x \in Actors : claimed'[x] => claimed[x] /\ x # a
    BY <1>20 DEF FlushRelease, LocalsSet, ActorTypes, queueVars
  <2>2. /\ \A u \in Threads, x \in Actors : Sending(u, x) => Sending(u, x)'
        /\ \A u \in Threads, x \in Actors : WillSchedule(u, x) => WillSchedule(u, x)'
    BY <1>20 DEF FlushRelease, Sending, WillSchedule, sendVars
  <2>3. /\ \A v \in Workers, x \in Actors : Running(v, x) /\ x # a => Running(v, x)'
        /\ \A v \in Workers, x \in Actors, c \in Bands :
             WillCheck(v, x, c) => WillCheck(v, x, c)'
    BY <1>20 DEF FlushRelease, Running, WillCheck, InTurn, TurnTypes
  <2>4. ReleaseIsChecked'
    BY <1>20 DEF FlushRelease, SeenInv, ReleaseIsChecked, TurnTypes
  <2>5. \A x \in Actors : QueuedIn(ready, x)' <=> QueuedIn(ready, x)
    BY <2>1 DEF QueuedIn
  <2>6. ClaimIsHeld'
    BY <2>1, <2>2, <2>3, <2>5 DEF SeenInv, ClaimIsHeld
  <2>7. NoStrandedMessage'
    BY <2>1, <2>2, <2>3, <2>5 DEF SeenInv, NoStrandedMessage, WillBeSeen
  <2> QED
    BY <2>4, <2>6, <2>7 DEF SeenInv
<1>21. ASSUME NEW w \in Workers, CheckMailbox(w) PROVE SeenInv'
  <2>0. PICK a \in Actors : a = cur[w]
    BY <1>21 DEF CheckMailbox, LocalsSet
  <2>1. ready' = ready /\ claimed' = claimed /\ mailbox' = mailbox
    BY <1>21 DEF CheckMailbox, actorVars, queueVars
  <2>2. pc[w] = "check" /\ ~storeBuf[w] /\ cur' = cur /\ storeBuf' = storeBuf
    BY <1>21 DEF CheckMailbox
  <2>3. \A v \in Workers : v # w => pc'[v] = pc[v] /\ idx'[v] = idx[v]
    BY <1>21 DEF CheckMailbox, TurnTypes
  <2>4. /\ \A u \in Threads, x \in Actors : Sending(u, x) => Sending(u, x)'
        /\ \A u \in Threads, x \in Actors : WillSchedule(u, x) => WillSchedule(u, x)'
    BY <1>21 DEF CheckMailbox, Sending, WillSchedule, sendVars
  <2>5. /\ \A v \in Workers, x \in Actors : Running(v, x) => Running(v, x)'
        /\ \A v \in Workers, x \in Actors, c \in Bands :
             v # w /\ WillCheck(v, x, c) => WillCheck(v, x, c)'
        /\ \A x \in Actors, c \in Bands : WillCheck(w, x, c) => x = a
    BY <2>0, <2>2, <2>3 DEF Running, WillCheck, InTurn
  <2>6. \A c \in Bands : WillCheck(w, a, c) => WillCheck(w, a, c)' \/ mailbox[a][c] = <<>>
    <3>1. CASE pc' = [pc EXCEPT ![w] = "reclaim"]
      BY <2>0, <2>2, <3>1 DEF WillCheck, TurnTypes
    <3>2. CASE /\ mailbox[a][idx[w]] = <<>> /\ pc' = pc
               /\ idx' = [idx EXCEPT ![w] = @ + 1]
      <4>1. idx[w] \in Bands /\ idx'[w] = idx[w] + 1 /\ pc'[w] = "check"
        BY <2>2, <3>2 DEF TurnTypes
      <4>2. \A c \in Bands : idx[w] <= c => idx[w] + 1 <= c \/ c = idx[w]
        BY <4>1 DEF Bands
      <4> QED
        BY <2>0, <2>2, <3>2, <4>1, <4>2 DEF WillCheck, InTurn
    <3>3. CASE mailbox[a][idx[w]] = <<>> /\ idx[w] = 2
      BY <2>0, <2>2, <3>3 DEF WillCheck, InTurn, Bands
    <3> QED
      BY <1>21, <2>0, <3>1, <3>2, <3>3 DEF CheckMailbox
  <2>7. ReleaseIsChecked'
    BY <2>2, <2>3 DEF SeenInv, ReleaseIsChecked
  <2>8. \A x \in Actors : QueuedIn(ready, x)' <=> QueuedIn(ready, x)
    BY <2>1 DEF QueuedIn
  <2>9. ClaimIsHeld'
    BY <2>1, <2>4, <2>5, <2>8 DEF SeenInv, ClaimIsHeld
  <2>10. NoStrandedMessage'
    BY <2>1, <2>4, <2>5, <2>6, <2>8 DEF SeenInv, NoStrandedMessage, WillBeSeen
  <2> QED
    BY <2>7, <2>9, <2>10 DEF SeenInv
<1>22. ASSUME NEW w \in Workers, Reclaim(w) PROVE SeenInv'
  <2>0. PICK a \in Actors : a = cur[w]
    BY <1>22 DEF Reclaim, LocalsSet
  <2>1. /\ ready' = ready /\ mailbox' = mailbox /\ storeBuf' = storeBuf
        /\ cur' = cur /\ idx' = idx
        /\ \A x \in Actors : claimed'[x] => claimed[x] \/ x = a
    BY <1>22, <2>0 DEF Reclaim, ActorTypes, queueVars, turnVars
  <2>2. /\ pc[w] = "reclaim" /\ ~storeBuf[w]
        /\ pc'[w] = IF claimed[a] THEN "pop" ELSE "rank"
        /\ \A v \in Workers : v # w => pc'[v] = pc[v]
    BY <1>22, <2>0 DEF Reclaim, TurnTypes
  <2>3. /\ \A u \in Threads, x \in Actors : Sending(u, x) => Sending(u, x)'
        /\ \A u \in Threads, x \in Actors : WillSchedule(u, x) => WillSchedule(u, x)'
    BY <1>22 DEF Reclaim, Sending, WillSchedule, sendVars
  <2>4. \A v \in Workers, x \in Actors : Running(v, x) => v # w /\ Running(v, x)'
    BY <2>1, <2>2 DEF Running, InTurn
  <2>5. \A v \in Workers, x \in Actors, c \in Bands :
          v # w /\ WillCheck(v, x, c) => WillCheck(v, x, c)'
    BY <2>1, <2>2 DEF WillCheck, InTurn
  <2>6. ~claimed[a] => Running(w, a)' /\ \A c \in Bands : WillCheck(w, a, c)'
    BY <2>0, <2>1, <2>2 DEF Running, WillCheck, InTurn
  <2>7. \A x \in Actors, c \in Bands : WillCheck(w, x, c) => x = a
    BY <2>0 DEF WillCheck
  <2>8. \A x \in Actors : QueuedIn(ready, x)' <=> QueuedIn(ready, x)
    BY <2>1 DEF QueuedIn
  <2>9. ReleaseIsChecked'
    BY <2>1, <2>2 DEF SeenInv, ReleaseIsChecked
  <2>10. ClaimIsHeld'
    <3>1. ASSUME NEW x \in Actors, claimed[x]
          PROVE  \/ QueuedIn(ready, x)'
                 \/ (\E u \in Threads : Sending(u, x))'
                 \/ (\E v \in Workers : Running(v, x))'
      BY <2>3, <2>4, <2>8, <3>1 DEF SeenInv, ClaimIsHeld
    <3>2. CASE claimed[a]
      BY <2>1, <3>1, <3>2 DEF ClaimIsHeld
    <3>3. CASE ~claimed[a]
      BY <2>1, <2>6, <3>1, <3>3 DEF ClaimIsHeld
    <3> QED
      BY <3>2, <3>3
  <2>11. ASSUME claimed[a], NEW c \in Bands PROVE WillBeSeen(a, c)'
    <3>1. \A u \in Threads : Sending(u, a) => WillSchedule(u, a)'
      BY <2>3 DEF Sending, WillSchedule
    <3>2. \/ QueuedIn(ready, a)
          \/ \E u \in Threads : Sending(u, a)
          \/ \E v \in Workers : Running(v, a) /\ WillCheck(v, a, c)
      BY <2>11, HeldIsSeen
    <3> QED
      BY <2>4, <2>5, <2>8, <3>1, <3>2 DEF WillBeSeen
  <2>12. NoStrandedMessage'
    <3> SUFFICES ASSUME NEW x \in Actors, NEW c \in Bands, mailbox[x][c] # <<>>
                 PROVE  WillBeSeen(x, c)'
      BY <2>1 DEF NoStrandedMessage
    <3>1. CASE x # a
      BY <2>3, <2>5, <2>7, <2>8, <3>1 DEF SeenInv, NoStrandedMessage, WillBeSeen
    <3>2. CASE x = a
      BY <2>6, <2>11, <3>2 DEF WillBeSeen
    <3> QED
      BY <3>1, <3>2
  <2> QED
    BY <2>9, <2>10, <2>12 DEF SeenInv
<1>23. ASSUME NEW w \in Workers, Requeue(w) PROVE SeenInv'
  <2>0. PICK a \in Actors : a = cur[w]
    BY <1>23 DEF Requeue, LocalsSet
  <2>1. /\ claimed' = claimed /\ mailbox' = mailbox /\ cur' = cur
        /\ storeBuf' = storeBuf /\ pc[w] = "requeue"
        /\ \A v \in Workers : v # w => idx'[v] = idx[v]
    BY <1>23 DEF Requeue, TurnTypes, actorVars
  <2>2. \A x \in Actors : QueuedIn(ready', x) <=> QueuedIn(ready, x) \/ x = a
    <3>1. ready \in [Bands -> Seq(Actors)] /\ idx[w] \in Bands
      BY DEF QueueTypes, TurnTypes
    <3>2. ready' = [ready EXCEPT ![idx[w]] = Append(@, a)]
      BY <1>23, <2>0 DEF Requeue, EnqueueReady
    <3> QED
      BY <3>1, <3>2, QueuedAppend
  <2>3. \A v \in Workers : v # w => pc'[v] = pc[v] \/ (pc'[v] = "park" /\ pc[v] = "blocked")
    <3>1. PICK p : p = [pc EXCEPT ![w] = "pop"] /\ NotifyOne(p, pc')
      BY <1>23 DEF Requeue, EnqueueReady
    <3>2. p \in [Workers -> WorkerPcs] /\ NotifyOne(p, pc')
      BY <3>1 DEF TurnTypes, WorkerPcs
    <3>3. \A v \in Workers : pc'[v] = p[v] \/ (pc'[v] = "park" /\ pc[v] = "blocked")
      BY <3>2, NotifyOneEffect
    <3> QED
      BY <3>1, <3>3 DEF TurnTypes
  <2>4. /\ \A u \in Threads, x \in Actors : Sending(u, x) => Sending(u, x)'
        /\ \A u \in Threads, x \in Actors : WillSchedule(u, x) => WillSchedule(u, x)'
    BY <1>23 DEF Requeue, Sending, WillSchedule, sendVars
  <2>5. /\ \A v \in Workers, x \in Actors : v # w /\ Running(v, x) => Running(v, x)'
        /\ \A v \in Workers, x \in Actors, c \in Bands :
             v # w /\ WillCheck(v, x, c) => WillCheck(v, x, c)'
    BY <2>1, <2>3 DEF Running, WillCheck, InTurn
  <2>6. /\ \A x \in Actors : Running(w, x) => x = a
        /\ \A x \in Actors, c \in Bands : WillCheck(w, x, c) => x = a
    BY <2>0 DEF Running, WillCheck
  <2>7. ReleaseIsChecked'
    BY <2>1, <2>3 DEF SeenInv, ReleaseIsChecked
  <2>8. ClaimIsHeld'
    BY <2>1, <2>2, <2>4, <2>5, <2>6 DEF SeenInv, ClaimIsHeld
  <2>9. NoStrandedMessage'
    BY <2>1, <2>2, <2>4, <2>5, <2>6 DEF SeenInv, NoStrandedMessage, WillBeSeen
  <2> QED
    BY <2>7, <2>8, <2>9 DEF SeenInv
<1> QED
  BY <1>1, <1>2, <1>3, <1>4, <1>5, <1>6, <1>7, <1>8, <1>9, <1>10, <1>11, <1>12,
     <1>13, <1>14, <1>15, <1>16, <1>17, <1>18, <1>19, <1>20, <1>21, <1>22, <1>23,
     PrimBandFacts DEF Next, SendStep, WorkerStep, ShutdownStep, Terminated

\* No message is stranded: if no load overtakes the store that drops a claim,
\* a message in a mailbox always has a thread that has yet to look at it.
THEOREM NothingStranded ==
    ASSUME ~StoreBuffering
    PROVE  Spec => []NoStrandedMessage
<1>1. TypeOK /\ SeenInv /\ [Next]_vars => SeenInv'
  BY SeenStep
<1>2. SeenInv => NoStrandedMessage
  BY DEF SeenInv
<1> QED
  BY <1>1, <1>2, SeenInit, TypeInit, TypeStep, PTL DEF Spec

-----------------------------------------------------------------------------
(* What becomes of the messages. *)

\* The messages of each actor not yet folded into its state: the refinement
\* mapping of ActorScheduler.
Pending == [a \in Actors |-> [b \in Bands |-> Unhandled(a, b)]]

Tables == [Actors -> [Bands -> Seq(Messages)]]

\* Message m is somewhere in the table P, and no message is in it twice.
Holds(P, m) == \E a \in Actors, b \in Bands : \E i \in 1..Len(P[a][b]) : P[a][b][i] = m

Distinct(P) ==
    \A a, c \in Actors : \A b, d \in Bands :
        \A i \in 1..Len(P[a][b]), j \in 1..Len(P[c][d]) :
            P[a][b][i] = P[c][d][j] => a = c /\ b = d /\ i = j

-----------------------------------------------------------------------------
(* Tables of messages. *)

\* A send puts its message at the end of one queue.
LEMMA TableAppend ==
    ASSUME NEW P \in Tables, NEW a \in Actors, NEW b \in Bands, NEW m \in Messages
    PROVE  LET Q == [P EXCEPT ![a][b] = Append(@, m)] IN
           /\ Q \in Tables
           /\ \A x \in Messages : Holds(Q, x) <=> Holds(P, x) \/ x = m
           /\ Distinct(P) /\ ~Holds(P, m) => Distinct(Q)
<1> DEFINE Q == [P EXCEPT ![a][b] = Append(@, m)]
           n == Len(P[a][b])
<1>1. /\ P[a][b] \in Seq(Messages) /\ n \in Nat
      /\ Q[a][b] = Append(P[a][b], m) /\ Append(P[a][b], m) \in Seq(Messages)
      /\ \A c \in Actors, d \in Bands : (c # a \/ d # b) => Q[c][d] = P[c][d]
      /\ \A c \in Actors, d \in Bands : P[c][d] \in Seq(Messages)
  BY DEF Tables
<1>2. Q \in Tables
  BY <1>1 DEF Tables
<1>3. /\ Len(Q[a][b]) = n + 1 /\ Q[a][b][n + 1] = m
      /\ \A i \in 1..n : Q[a][b][i] = P[a][b][i]
      /\ \A i \in 1..(n + 1) : i \in 1..n \/ i = n + 1
      /\ \A i \in 1..n : i \in 1..(n + 1)
      /\ n + 1 \in 1..(n + 1)
  BY <1>1
<1> HIDE DEF Q, n
<1>4. ASSUME NEW c \in Actors, NEW d \in Bands, NEW i \in 1..Len(Q[c][d])
      PROVE  \/ i \in 1..Len(P[c][d]) /\ Q[c][d][i] = P[c][d][i]
             \/ c = a /\ d = b /\ i = n + 1 /\ Q[c][d][i] = m
  <2>1. CASE c = a /\ d = b
    BY <1>3, <2>1 DEF n
  <2>2. CASE c # a \/ d # b
    BY <1>1, <2>2
  <2> QED
    BY <2>1, <2>2
<1>5. ASSUME NEW c \in Actors, NEW d \in Bands, NEW i \in 1..Len(P[c][d])
      PROVE  i \in 1..Len(Q[c][d]) /\ Q[c][d][i] = P[c][d][i]
  <2>1. CASE c = a /\ d = b
    BY <1>3, <2>1 DEF n
  <2>2. CASE c # a \/ d # b
    BY <1>1, <2>2
  <2> QED
    BY <2>1, <2>2
<1>6. ASSUME NEW x \in Messages PROVE Holds(Q, x) <=> Holds(P, x) \/ x = m
  <2>1. Holds(Q, x) => Holds(P, x) \/ x = m
    BY <1>4 DEF Holds
  <2>2. Holds(P, x) => Holds(Q, x)
    BY <1>5 DEF Holds
  <2>3. Holds(Q, m)
    BY <1>3 DEF Holds
  <2> QED
    BY <2>1, <2>2, <2>3
<1>7. ASSUME Distinct(P), ~Holds(P, m) PROVE Distinct(Q)
  <2> SUFFICES ASSUME NEW c \in Actors, NEW e \in Actors, NEW d \in Bands, NEW f \in Bands,
                      NEW i \in 1..Len(Q[c][d]), NEW j \in 1..Len(Q[e][f]),
                      Q[c][d][i] = Q[e][f][j]
               PROVE  c = e /\ d = f /\ i = j
    BY DEF Distinct
  <2>1. \/ i \in 1..Len(P[c][d]) /\ Q[c][d][i] = P[c][d][i]
        \/ c = a /\ d = b /\ i = n + 1 /\ Q[c][d][i] = m
    BY <1>4
  <2>2. \/ j \in 1..Len(P[e][f]) /\ Q[e][f][j] = P[e][f][j]
        \/ e = a /\ f = b /\ j = n + 1 /\ Q[e][f][j] = m
    BY <1>4
  <2>3. /\ i \in 1..Len(P[c][d]) => P[c][d][i] # m
        /\ j \in 1..Len(P[e][f]) => P[e][f][j] # m
    BY <1>7 DEF Holds
  <2> QED
    BY <1>7, <2>1, <2>2, <2>3 DEF Distinct
<1> QED
  BY <1>2, <1>6, <1>7 DEF Q

\* A handled message leaves the front of its queue, and was there only.
LEMMA TableTail ==
    ASSUME NEW P \in Tables, NEW a \in Actors, NEW b \in Bands, P[a][b] # <<>>, Distinct(P)
    PROVE  LET Q == [P EXCEPT ![a][b] = Tail(@)] IN
           /\ Q \in Tables
           /\ Holds(P, Head(P[a][b])) /\ Head(P[a][b]) \in Messages
           /\ \A x \in Messages : Holds(Q, x) <=> Holds(P, x) /\ x # Head(P[a][b])
           /\ Distinct(Q)
<1> DEFINE Q == [P EXCEPT ![a][b] = Tail(@)]
           n == Len(P[a][b])
           m == Head(P[a][b])
<1>1. /\ P[a][b] \in Seq(Messages) /\ n \in Nat \ {0} /\ m = P[a][b][1] /\ m \in Messages
      /\ Q[a][b] = Tail(P[a][b]) /\ Tail(P[a][b]) \in Seq(Messages)
      /\ \A c \in Actors, d \in Bands : (c # a \/ d # b) => Q[c][d] = P[c][d]
      /\ \A c \in Actors, d \in Bands : P[c][d] \in Seq(Messages) /\ Len(P[c][d]) \in Nat
  BY DEF Tables
<1>2. Q \in Tables
  BY <1>1 DEF Tables
<1>3. /\ Len(Q[a][b]) = n - 1
      /\ \A i \in 1..(n - 1) : i + 1 \in 2..n /\ Q[a][b][i] = P[a][b][i + 1]
      /\ \A i \in 2..n : i - 1 \in 1..(n - 1) /\ Q[a][b][i - 1] = P[a][b][i]
      /\ \A i \in 1..n : i = 1 \/ i \in 2..n
      /\ 1 \in 1..n /\ \A i \in 2..n : i \in 1..n /\ i # 1
  <2>1. n \in Nat /\ n >= 1
    BY <1>1
  <2>2. Len(Q[a][b]) = n - 1 /\ \A i \in 1..(n - 1) : Q[a][b][i] = P[a][b][i + 1]
    <3>1. /\ Len(Tail(P[a][b])) = Len(P[a][b]) - 1
          /\ \A i \in 1..Len(Tail(P[a][b])) : Tail(P[a][b])[i] = P[a][b][i + 1]
      BY <1>1, HeadTailProperties
    <3> QED
      BY <1>1, <3>1, Zenon
  <2>3. \A i \in 2..n : i - 1 \in 1..(n - 1) /\ (i - 1) + 1 = i
    BY <2>1
  <2>4. \A i \in 2..n : Q[a][b][i - 1] = P[a][b][i]
    BY <2>2, <2>3
  <2> HIDE DEF Q, n
  <2> QED
    BY <2>1, <2>2, <2>3, <2>4
<1> HIDE DEF Q, n, m
<1>4. ASSUME NEW c \in Actors, NEW d \in Bands, NEW i \in 1..Len(Q[c][d])
      PROVE  \/ i \in 1..Len(P[c][d]) /\ Q[c][d][i] = P[c][d][i] /\ (c # a \/ d # b)
             \/ /\ c = a /\ d = b /\ i + 1 \in 1..Len(P[a][b]) /\ i + 1 # 1
                /\ Q[c][d][i] = P[a][b][i + 1]
  <2>1. CASE c = a /\ d = b
    BY <1>3, <2>1 DEF n
  <2>2. CASE c # a \/ d # b
    BY <1>1, <2>2
  <2> QED
    BY <2>1, <2>2
<1>5. ASSUME NEW c \in Actors, NEW d \in Bands, NEW i \in 1..Len(Q[c][d])
      PROVE  Q[c][d][i] # m
  <2>1. ASSUME NEW k \in 1..Len(P[c][d]), c # a \/ d # b \/ k # 1 PROVE P[c][d][k] # m
    BY <1>1, <1>3, <2>1 DEF Distinct, n
  <2>2. CASE c # a \/ d # b
    BY <1>4, <2>1, <2>2
  <2>3. CASE c = a /\ d = b
    <3>1. i + 1 \in 1..Len(P[c][d]) /\ i + 1 # 1 /\ Q[c][d][i] = P[c][d][i + 1]
      BY <1>4, <2>3
    <3> QED
      BY <2>1, <3>1
  <2> QED
    BY <2>2, <2>3
<1>6. ASSUME NEW x \in Messages PROVE Holds(Q, x) <=> Holds(P, x) /\ x # m
  <2>1. Holds(Q, x) => Holds(P, x)
    BY <1>4 DEF Holds
  <2>2. Holds(Q, x) => x # m
    BY <1>5 DEF Holds
  <2>3. ASSUME Holds(P, x), x # m PROVE Holds(Q, x)
    <3>a. PICK c \in Actors, d \in Bands : \E i \in 1..Len(P[c][d]) : P[c][d][i] = x
      BY <2>3 DEF Holds
    <3>1. PICK i \in 1..Len(P[c][d]) : P[c][d][i] = x
      BY <3>a
    <3>2. CASE c = a /\ d = b
      <4>1. i \in 2..n
        BY <1>1, <1>3, <2>3, <3>1, <3>2 DEF n
      <4> QED
        BY <1>3, <3>1, <3>2, <4>1 DEF Holds
    <3>3. CASE c # a \/ d # b
      BY <1>1, <3>1, <3>3 DEF Holds
    <3> QED
      BY <3>2, <3>3
  <2> QED
    BY <2>1, <2>2, <2>3
<1>7. Distinct(Q)
  <2> SUFFICES ASSUME NEW c \in Actors, NEW e \in Actors, NEW d \in Bands, NEW f \in Bands,
                      NEW i \in 1..Len(Q[c][d]), NEW j \in 1..Len(Q[e][f]),
                      Q[c][d][i] = Q[e][f][j]
               PROVE  c = e /\ d = f /\ i = j
    BY DEF Distinct
  <2>1. \/ i \in 1..Len(P[c][d]) /\ Q[c][d][i] = P[c][d][i] /\ (c # a \/ d # b)
        \/ /\ c = a /\ d = b /\ i + 1 \in 1..Len(P[a][b])
           /\ Q[c][d][i] = P[a][b][i + 1]
    BY <1>4
  <2>2. \/ j \in 1..Len(P[e][f]) /\ Q[e][f][j] = P[e][f][j] /\ (e # a \/ f # b)
        \/ /\ e = a /\ f = b /\ j + 1 \in 1..Len(P[a][b])
           /\ Q[e][f][j] = P[a][b][j + 1]
    BY <1>4
  <2>3. i + 1 = j + 1 => i = j
    BY <1>1, <1>2 DEF Tables
  <2> QED
    BY <2>1, <2>2, <2>3 DEF Distinct
<1>8. Holds(P, m)
  BY <1>1, <1>3 DEF Holds, n
<1> QED
  BY <1>1, <1>2, <1>6, <1>7, <1>8 DEF Q, m

-----------------------------------------------------------------------------
(* The batches that workers hold. *)

\* A worker's batch is empty outside a turn, and holds nothing of the bands it
\* has still to take; in a turn the message it handles is the next one, and the
\* state it computes starts from the state of the actor.
BatchAt(w) ==
    /\ ~InTurn(w) => batch[w] = EmptyBatch
    /\ pc[w] = "take" => \A b \in Bands : idx[w] <= b => batch[w][b] = <<>>
    /\ pc[w] \in {"handler", "store"} => msg[w] = Head(batch[w][idx[w]])
    /\ pc[w] = "handler" => res[w] = value[cur[w]]
    /\ pc[w] = "store" => res[w] \in {Append(value[cur[w]], msg[w]), <<>>}

BatchInv == \A w \in Workers : BatchAt(w)

TurnInv == TypeOK /\ ClaimHasOneHolder /\ BatchInv

\* A worker in a turn has an actor, its batches, and the actor to itself.
LEMMA TurnFacts ==
    ASSUME TurnInv, NEW w \in Workers, InTurn(w)
    PROVE  /\ cur[w] \in Actors /\ \A b \in Bands : batch[w][b] \in Seq(Messages)
           /\ \A v \in Workers : InTurn(v) /\ cur[v] = cur[w] => v = w
<1>1. cur[w] \in Actors /\ \A b \in Bands : batch[w][b] \in Seq(Messages)
  BY DEF TurnInv, TypeOK, LocalsSet, TurnTypes, InTurn
<1>2. ASSUME NEW v \in Workers, InTurn(v), cur[v] = cur[w] PROVE v = w
  <2>1. Running(w, cur[w]) /\ Running(v, cur[w])
    BY <1>2 DEF Running
  <2> QED
    BY <1>1, <2>1 DEF TurnInv, ClaimHasOneHolder
<1> QED
  BY <1>1, <1>2

\* What is held of an actor is the batch of the one worker in its turn.
LEMMA HeldByOne ==
    ASSUME NEW a, NEW w \in Workers, InTurn(w), cur[w] = a,
           \A v \in Workers : InTurn(v) /\ cur[v] = a => v = w
    PROVE  \A b \in Bands : Held(a, b) = batch[w][b]
<1>1. {v \in Workers : InTurn(v) /\ cur[v] = a} = {w}
  OBVIOUS
<1>2. (CHOOSE v \in {w} : TRUE) = w
  OBVIOUS
<1> QED
  BY <1>1, <1>2 DEF Held

\* Nothing is held of an actor in nobody's turn.
LEMMA HeldByNone ==
    ASSUME NEW a, \A v \in Workers : InTurn(v) => cur[v] # a
    PROVE  \A b \in Bands : Held(a, b) = <<>>
<1>1. {v \in Workers : InTurn(v) /\ cur[v] = a} = {}
  OBVIOUS
<1> QED
  BY <1>1 DEF Held

\* The same of the next state.
LEMMA HeldByOneNext ==
    ASSUME NEW a, NEW w \in Workers, InTurn(w)', cur'[w] = a,
           \A v \in Workers : InTurn(v)' /\ cur'[v] = a => v = w
    PROVE  \A b \in Bands : Held(a, b)' = batch'[w][b]
<1>1. {v \in Workers : InTurn(v)' /\ cur'[v] = a} = {w}
  OBVIOUS
<1>2. (CHOOSE v \in {w} : TRUE) = w
  OBVIOUS
<1> QED
  BY <1>1, <1>2 DEF Held

\* The same after a step.
LEMMA HeldByNoneNext ==
    ASSUME NEW a, \A v \in Workers : InTurn(v)' => cur'[v] # a
    PROVE  \A b \in Bands : Held(a, b)' = <<>>
<1>1. {v \in Workers : InTurn(v)' /\ cur'[v] = a} = {}
  OBVIOUS
<1> QED
  BY <1>1 DEF Held

\* Held looks only at the workers in a turn of its actor.
LEMMA HeldFrame ==
    ASSUME NEW a,
           \A v \in Workers : InTurn(v)' /\ cur'[v] = a <=> InTurn(v) /\ cur[v] = a,
           \A v \in Workers : InTurn(v) /\ cur[v] = a => batch'[v] = batch[v]
    PROVE  \A b \in Bands : Held(a, b)' = Held(a, b)
<1> DEFINE R == {v \in Workers : InTurn(v) /\ cur[v] = a}
<1>1. {v \in Workers : InTurn(v)' /\ cur'[v] = a} = R
  OBVIOUS
<1>2. R # {} => (CHOOSE v \in R : TRUE) \in R
  OBVIOUS
<1>3. R # {} => batch'[CHOOSE v \in R : TRUE] = batch[CHOOSE v \in R : TRUE]
  BY <1>2
<1> HIDE DEF R
<1>4. \A b \in Bands : Held(a, b) = IF R = {} THEN <<>> ELSE batch[CHOOSE v \in R : TRUE][b]
  BY DEF Held, R
<1>5. \A b \in Bands : Held(a, b)' = IF R = {} THEN <<>> ELSE batch'[CHOOSE v \in R : TRUE][b]
  <2> DEFINE S == {v \in Workers : InTurn(v)' /\ cur'[v] = a}
  <2>1. \A b \in Bands : Held(a, b)' = IF S = {} THEN <<>> ELSE batch'[CHOOSE v \in S : TRUE][b]
    BY DEF Held
  <2>2. S = R
    BY <1>1
  <2> HIDE DEF S
  <2> QED
    BY <2>1, <2>2
<1> QED
  BY <1>3, <1>4, <1>5

\* The messages to be handled, as the abstract actors see them: the batch, then
\* the mailbox.
LEMMA PendingType ==
    ASSUME TurnInv
    PROVE  /\ Pending \in Tables
           /\ \A a \in Actors, b \in Bands :
                /\ Pending[a][b] = Held(a, b) \o mailbox[a][b]
                /\ Held(a, b) \in Seq(Messages) /\ mailbox[a][b] \in Seq(Messages)
<1>1. ASSUME NEW a \in Actors, NEW b \in Bands
      PROVE  Held(a, b) \in Seq(Messages) /\ mailbox[a][b] \in Seq(Messages)
  <2>1. mailbox[a][b] \in Seq(Messages)
    BY DEF TurnInv, TypeOK, ActorTypes
  <2>2. CASE \E w \in Workers : InTurn(w) /\ cur[w] = a
    <3>1. PICK w \in Workers : InTurn(w) /\ cur[w] = a
      BY <2>2
    <3>2. /\ batch[w][b] \in Seq(Messages)
          /\ \A v \in Workers : InTurn(v) /\ cur[v] = a => v = w
      BY <3>1, TurnFacts
    <3>3. Held(a, b) = batch[w][b]
      BY <3>1, <3>2, HeldByOne
    <3> QED
      BY <2>1, <3>2, <3>3
  <2>3. CASE ~ \E w \in Workers : InTurn(w) /\ cur[w] = a
    <3>1. Held(a, b) = <<>>
      BY <2>3, HeldByNone
    <3>2. <<>> \in Seq(Messages)
      OBVIOUS
    <3> QED
      BY <2>1, <3>1, <3>2
  <2> QED
    BY <2>2, <2>3
<1>2. ASSUME NEW a \in Actors, NEW b \in Bands PROVE Unhandled(a, b) \in Seq(Messages)
  BY <1>1, ConcatProperties DEF Unhandled
<1>3. \A a \in Actors, b \in Bands : Pending[a][b] = Held(a, b) \o mailbox[a][b]
  BY DEF Pending, Unhandled
<1> QED
  BY <1>1, <1>2, <1>3 DEF Pending, Tables

\* Steps that neither move messages nor begin or end a turn.
Quiet ==
    /\ mailbox' = mailbox /\ batch' = batch /\ value' = value /\ issued' = issued
    /\ \A w \in Workers : InTurn(w)' <=> InTurn(w)
    /\ \A w \in Workers : InTurn(w) => cur'[w] = cur[w]

\* A quiet step changes no message to be handled.
LEMMA QuietPending ==
    ASSUME Quiet
    PROVE  Pending' = Pending
<1>1. ASSUME NEW a \in Actors, NEW b \in Bands PROVE Unhandled(a, b)' = Unhandled(a, b)
  <2>1. Held(a, b)' = Held(a, b)
    BY HeldFrame DEF Quiet
  <2> QED
    BY <2>1 DEF Unhandled, Quiet
<1> QED
  BY <1>1 DEF Pending

\* Steps outside the turns: no worker in a turn moves and none begins one.
Uneventful ==
    /\ mailbox' = mailbox /\ batch' = batch /\ value' = value
    /\ issued' = issued /\ realized' = realized
    /\ \A w \in Workers :
         IF InTurn(w) THEN /\ pc'[w] = pc[w] /\ cur'[w] = cur[w] /\ idx'[w] = idx[w]
                           /\ msg'[w] = msg[w] /\ res'[w] = res[w]
                      ELSE ~InTurn(w)'

\* The steps of WorkerStep that are such steps, and those that are not.
OutsideTurn(w) ==
    \/ EvalPredicate(w) \/ Block(w) \/ SpuriousWakeup(w) \/ FlushRelease(w)
    \/ CheckMailbox(w) \/ Reclaim(w) \/ RankBand(w) \/ Requeue(w)

\* What a worker does between turns moves no message.
LEMMA OutsideUneventful ==
    ASSUME TypeOK, NEW w \in Workers, OutsideTurn(w)
    PROVE  Uneventful
<1> USE DEF TypeOK, TurnTypes
<1>1. CASE EvalPredicate(w)
  BY <1>1 DEF EvalPredicate, Uneventful, InTurn, actorVars, turnVars
<1>2. CASE Block(w)
  BY <1>2 DEF Block, Uneventful, InTurn, actorVars, turnVars
<1>3. CASE SpuriousWakeup(w)
  BY <1>3 DEF SpuriousWakeup, Uneventful, InTurn, actorVars, turnVars
<1>4. CASE FlushRelease(w)
  BY <1>4 DEF FlushRelease, Uneventful, InTurn
<1>5. CASE CheckMailbox(w)
  <2>1. /\ pc[w] = "check" /\ UNCHANGED <<mailbox, batch, value, issued, realized, cur, msg, res>>
        /\ \E p \in {"reclaim", "check", "pop"} : pc' = [pc EXCEPT ![w] = p]
        /\ \A v \in Workers \ {w} : idx'[v] = idx[v]
    BY <1>5 DEF CheckMailbox, actorVars
  <2> QED
    BY <2>1 DEF Uneventful, InTurn
<1>6. CASE Reclaim(w)
  BY <1>6 DEF Reclaim, Uneventful, InTurn, turnVars
<1>7. CASE RankBand(w)
  <2>1. /\ pc[w] = "rank" /\ UNCHANGED <<mailbox, batch, value, issued, realized, cur, msg, res>>
        /\ \E p \in {"rank", "requeue"} : pc' = [pc EXCEPT ![w] = p]
        /\ \A v \in Workers \ {w} : idx'[v] = idx[v]
    BY <1>7 DEF RankBand, actorVars
  <2> QED
    BY <2>1 DEF Uneventful, InTurn
<1>8. CASE Requeue(w)
  <2> DEFINE p == [pc EXCEPT ![w] = "pop"]
  <2>1. /\ pc[w] = "requeue"
        /\ UNCHANGED <<mailbox, batch, value, issued, realized, cur, msg, res>>
        /\ NotifyOne(p, pc')
        /\ \A v \in Workers \ {w} : idx'[v] = idx[v]
    BY <1>8 DEF Requeue, EnqueueReady, actorVars
  <2>2. p \in [Workers -> WorkerPcs] /\ p[w] = "pop" /\ \A v \in Workers \ {w} : p[v] = pc[v]
    BY DEF WorkerPcs
  <2> HIDE DEF p
  <2>3. \A v \in Workers : pc'[v] = p[v] \/ (pc'[v] = "park" /\ pc[v] = "blocked")
    BY <2>1, <2>2, NotifyOneEffect
  <2> QED
    BY <2>1, <2>2, <2>3 DEF Uneventful, InTurn
<1> QED
  BY <1>1, <1>2, <1>3, <1>4, <1>5, <1>6, <1>7, <1>8 DEF OutsideTurn

\* Nor do the claims and enqueues of sends, new actors and the shutdown.
LEMMA OthersUneventful ==
    ASSUME TypeOK,
           \/ \E t \in Threads : SendStep(t)
           \/ \E t \in Threads, a \in Actors : NewActor(t, a)
           \/ ShutdownFlag \/ ShutdownStep \/ UNCHANGED vars
    PROVE  Uneventful
<1> USE DEF TypeOK, TurnTypes
<1>1. ASSUME NEW t \in Threads, SendClaim(t) PROVE Uneventful
  BY <1>1 DEF SendClaim, Uneventful, InTurn, turnVars
<1>2. ASSUME NEW t \in Threads, SendEnqueue(t) PROVE Uneventful
  <2>1. /\ UNCHANGED <<mailbox, batch, value, issued, realized, cur, idx, msg, res>>
        /\ NotifyOne(pc, pc')
    BY <1>2 DEF SendEnqueue, EnqueueReady, actorVars, turnVars
  <2>2. \A v \in Workers : pc'[v] = pc[v] \/ (pc'[v] = "park" /\ pc[v] = "blocked")
    BY <2>1, NotifyOneEffect
  <2> QED
    BY <2>1, <2>2 DEF Uneventful, InTurn
<1>3. ASSUME NEW t \in Threads, NEW a \in Actors, NewActor(t, a) PROVE Uneventful
  BY <1>3 DEF NewActor, EnsureStarted, Uneventful, InTurn, turnVars
<1>4. CASE ShutdownFlag
  BY <1>4 DEF ShutdownFlag, Uneventful, InTurn, actorVars, turnVars
<1>5. CASE ShutdownNotify
  BY <1>5 DEF ShutdownNotify, Uneventful, InTurn, actorVars, turnVars
<1>6. CASE ShutdownJoin
  BY <1>6 DEF ShutdownJoin, Uneventful, InTurn, actorVars, turnVars
<1>7. CASE UNCHANGED vars
  BY <1>7 DEF vars, Uneventful, InTurn, actorVars, turnVars
<1> QED
  BY <1>1, <1>2, <1>3, <1>4, <1>5, <1>6, <1>7 DEF SendStep, ShutdownStep

\* An uneventful step is quiet, and delivers nothing.
LEMMA UneventfulQuiet ==
    ASSUME Uneventful
    PROVE  /\ Quiet
           /\ \A w \in Workers : /\ pc'[w] = "deliver" <=> pc[w] = "deliver"
                                 /\ pc[w] = "deliver" => msg'[w] = msg[w]
<1>1. \A w \in Workers : InTurn(w)' <=> InTurn(w)
  BY DEF Uneventful, InTurn
<1> QED
  BY <1>1 DEF Uneventful, Quiet, InTurn

\* An uneventful step leaves the batches as they are.
LEMMA UneventfulBatch ==
    ASSUME BatchInv, Uneventful
    PROVE  BatchInv'
<1> SUFFICES ASSUME NEW w \in Workers PROVE BatchAt(w)'
  BY DEF BatchInv
<1>1. BatchAt(w)
  BY DEF BatchInv
<1>2. CASE InTurn(w)
  BY <1>1, <1>2 DEF BatchAt, Uneventful, InTurn, EmptyBatch
<1>3. CASE ~InTurn(w)
  BY <1>1, <1>3 DEF BatchAt, Uneventful, InTurn, EmptyBatch
<1> QED
  BY <1>2, <1>3

\* The steps of a turn that leave the messages where they are.
LEMMA TurnQuiet ==
    ASSUME TypeOK, NEW w \in Workers, Invoke(w) \/ HandlerReturns(w) \/ DeliverPromise(w)
    PROVE  Quiet
<1> USE DEF TypeOK, TurnTypes
<1>1. CASE Invoke(w)
  BY <1>1 DEF Invoke, Quiet, InTurn, actorVars
<1>2. CASE HandlerReturns(w)
  BY <1>2 DEF HandlerReturns, Quiet, InTurn, actorVars
<1>3. CASE DeliverPromise(w)
  BY <1>3 DEF DeliverPromise, Quiet, InTurn
<1> QED
  BY <1>1, <1>2, <1>3

\* A step of worker w concerns no other worker's turn.
OnlyWorker(w) ==
    \A v \in Workers \ {w} :
        /\ pc'[v] = pc[v] /\ cur'[v] = cur[v] /\ idx'[v] = idx[v]
        /\ msg'[v] = msg[v] /\ res'[v] = res[v] /\ batch'[v] = batch[v]

\* A step of one worker leaves the batches of the others right.
LEMMA WorkerBatch ==
    ASSUME BatchInv, NEW w \in Workers, OnlyWorker(w), BatchAt(w)',
           \A v \in Workers \ {w} : InTurn(v) => value'[cur[v]] = value[cur[v]]
    PROVE  BatchInv'
<1> SUFFICES ASSUME NEW v \in Workers, v # w PROVE BatchAt(v)'
  BY DEF BatchInv
<1>1. BatchAt(v)
  BY DEF BatchInv
<1>2. /\ pc'[v] = pc[v] /\ cur'[v] = cur[v] /\ idx'[v] = idx[v]
      /\ msg'[v] = msg[v] /\ res'[v] = res[v] /\ batch'[v] = batch[v]
      /\ InTurn(v) => value'[cur[v]] = value[cur[v]]
  BY DEF OnlyWorker
<1>3. InTurn(v)' <=> InTurn(v)
  BY <1>2 DEF InTurn
<1>4. CASE InTurn(v)
  <2>1. value'[cur'[v]] = value[cur[v]]
    BY <1>2, <1>4
  <2> QED
    BY <1>1, <1>2, <1>3, <1>4, <2>1 DEF BatchAt
<1>5. CASE ~InTurn(v)
  <2>1. pc[v] \notin {"take", "handler", "store"} /\ batch'[v] = EmptyBatch'
    BY <1>1, <1>2, <1>5 DEF BatchAt, InTurn, EmptyBatch
  <2> QED
    BY <1>2, <2>1 DEF BatchAt
<1> QED
  BY <1>4, <1>5

-----------------------------------------------------------------------------
(* What each step does to the messages that wait. *)

\* Calling the handler with the next message and the stored state.
LEMMA InvokeTurn ==
    ASSUME TurnInv, NEW w \in Workers, Invoke(w)
    PROVE  BatchInv'
<1>1. /\ pc[w] = "run" /\ TypeOK /\ BatchAt(w) /\ BatchInv
      /\ UNCHANGED <<mailbox, value, cur, batch>>
      /\ pc' = [pc EXCEPT ![w] = "handler"] /\ res' = [res EXCEPT ![w] = value[cur[w]]]
  BY DEF Invoke, TurnInv, BatchInv, actorVars
<1>2. PICK b \in Bands : /\ msg' = [msg EXCEPT ![w] = Head(batch[w][b])]
                         /\ idx' = [idx EXCEPT ![w] = b]
  BY DEF Invoke
<1>3. OnlyWorker(w)
  BY <1>1, <1>2 DEF OnlyWorker, TypeOK, TurnTypes
<1>4. BatchAt(w)'
  BY <1>1, <1>2 DEF BatchAt, InTurn, TypeOK, TurnTypes
<1> QED
  BY <1>1, <1>3, <1>4, WorkerBatch

\* The return of the handler, with a state or with an error.
LEMMA HandlerReturnsTurn ==
    ASSUME TurnInv, NEW w \in Workers, HandlerReturns(w)
    PROVE  BatchInv'
<1>1. /\ pc[w] = "handler" /\ TypeOK /\ BatchAt(w) /\ BatchInv
      /\ UNCHANGED <<mailbox, value, cur, idx, batch, msg>>
      /\ pc' = [pc EXCEPT ![w] = "store"]
  BY DEF HandlerReturns, TurnInv, BatchInv, actorVars
<1>2. \/ res' = [res EXCEPT ![w] = Append(res[w], msg[w])]
      \/ res' = [res EXCEPT ![w] = <<>>]
  BY DEF HandlerReturns
<1>3. OnlyWorker(w)
  BY <1>1, <1>2 DEF OnlyWorker, TypeOK, TurnTypes
<1>4. pc'[w] = "store" /\ res'[w] \in {Append(value[cur[w]], msg[w]), <<>>}
  BY <1>1, <1>2 DEF BatchAt, TypeOK, TurnTypes
<1>5. BatchAt(w)'
  BY <1>1, <1>4 DEF BatchAt, InTurn
<1> QED
  BY <1>1, <1>3, <1>5, WorkerBatch

\* Delivering the promise of the message just handled.
LEMMA DeliverPromiseTurn ==
    ASSUME TurnInv, NEW w \in Workers, DeliverPromise(w)
    PROVE  BatchInv'
<1>1. /\ pc[w] = "deliver" /\ TypeOK /\ BatchAt(w) /\ BatchInv
      /\ UNCHANGED <<mailbox, value, cur, batch>>
      /\ pc' = [pc EXCEPT ![w] = "run"] /\ msg' = [msg EXCEPT ![w] = NoMsg]
      /\ res' = [res EXCEPT ![w] = <<>>] /\ idx' = [idx EXCEPT ![w] = 0]
  BY DEF DeliverPromise, TurnInv, BatchInv
<1>2. OnlyWorker(w) /\ pc'[w] = "run"
  BY <1>1 DEF OnlyWorker, TypeOK, TurnTypes
<1>3. BatchAt(w)'
  BY <1>1, <1>2 DEF BatchAt, InTurn
<1> QED
  BY <1>1, <1>2, <1>3, WorkerBatch

\* A message in the front part of a queue stays the first when more is added.
LEMMA ConcatAppend ==
    ASSUME NEW s \in Seq(Messages), NEW u \in Seq(Messages), NEW m \in Messages
    PROVE  s \o Append(u, m) = Append(s \o u, m)
<1>1. Append(u, m) \in Seq(Messages) /\ s \o u \in Seq(Messages) /\ Len(s \o u) = Len(s) + Len(u)
  BY ConcatProperties
<1>2. s \o Append(u, m) \in Seq(Messages) /\ Append(s \o u, m) \in Seq(Messages)
  BY <1>1, ConcatProperties
<1>3. Len(s \o Append(u, m)) = Len(s) + Len(u) + 1 /\ Len(Append(s \o u, m)) = Len(s) + Len(u) + 1
  BY <1>1
<1>4. ASSUME NEW i \in 1..(Len(s) + Len(u) + 1)
      PROVE  (s \o Append(u, m))[i] = Append(s \o u, m)[i]
  BY <1>1
<1> QED
  BY <1>2, <1>3, <1>4, SeqEqual

\* Taking the first message of a batch takes the first one to be handled.
LEMMA ConcatTail ==
    ASSUME NEW s \in Seq(Messages), NEW u \in Seq(Messages), s # <<>>
    PROVE  /\ s \o u # <<>> /\ Head(s \o u) = Head(s)
           /\ Tail(s) \o u = Tail(s \o u)
<1>1. Tail(s) \in Seq(Messages) /\ Len(Tail(s)) = Len(s) - 1 /\ Len(s) \in Nat \ {0} /\ Len(u) \in Nat
  BY HeadTailProperties
<1>2. s \o u \in Seq(Messages) /\ Len(s \o u) = Len(s) + Len(u)
  BY ConcatProperties
<1>3. s \o u # <<>> /\ Head(s \o u) = Head(s)
  BY <1>1, <1>2
<1>4. Tail(s) \o u \in Seq(Messages) /\ Len(Tail(s) \o u) = Len(s) - 1 + Len(u)
  BY <1>1, ConcatProperties
<1>5. Tail(s \o u) \in Seq(Messages) /\ Len(Tail(s \o u)) = Len(s) - 1 + Len(u)
  BY <1>1, <1>2, <1>3, HeadTailProperties
<1>6. ASSUME NEW i \in 1..(Len(s) - 1 + Len(u))
      PROVE  (Tail(s) \o u)[i] = Tail(s \o u)[i]
  BY <1>1, <1>2, <1>3
<1> QED
  BY <1>3, <1>4, <1>5, <1>6, SeqEqual

\* A step that changes one band of one actor changes one entry of the table.
LEMMA PendingUpdate ==
    ASSUME NEW a \in Actors, NEW b \in Bands, NEW s, Unhandled(a, b)' = s,
           \A x \in Actors, y \in Bands : x # a \/ y # b => Unhandled(x, y)' = Unhandled(x, y)
    PROVE  Pending' = [Pending EXCEPT ![a][b] = s]
<1> DEFINE U == [x \in Actors |-> [y \in Bands |-> Unhandled(x, y)']]
<1>1. Pending' = U
  BY DEF Pending
<1>2. /\ Pending = [x \in Actors |-> Pending[x]]
      /\ \A x \in Actors : Pending[x] = [y \in Bands |-> Unhandled(x, y)]
  BY DEF Pending
<1>3. [Pending EXCEPT ![a][b] = s] =
        [x \in Actors |-> IF x = a THEN [Pending[a] EXCEPT ![b] = s] ELSE Pending[x]]
  BY <1>2
<1>4. [Pending[a] EXCEPT ![b] = s] = U[a]
  BY <1>2
<1>5. \A x \in Actors : x # a => Pending[x] = U[x]
  BY <1>2
<1> QED
  BY <1>1, <1>3, <1>4, <1>5

\* A send adds its message to those that wait.
LEMMA PushEffect ==
    ASSUME TurnInv, NEW t \in Threads, NEW a \in Actors, NEW b \in Bands, NEW m \in Messages,
           Push(t, a, b, m)
    PROVE  /\ BatchInv'
           /\ Pending' = [Pending EXCEPT ![a][b] = Append(Pending[a][b], m)]
<1>1. /\ TypeOK /\ BatchInv /\ UNCHANGED <<value, realized, cur, idx, batch, msg, res, pc>>
      /\ mailbox' = [mailbox EXCEPT ![a][b] = Append(mailbox[a][b], m)]
  BY DEF Push, TurnInv, turnVars
<1>2. BatchInv'
  BY <1>1 DEF BatchInv, BatchAt, InTurn, EmptyBatch
<1>3. \A x \in Actors, y \in Bands : Held(x, y)' = Held(x, y)
  BY <1>1, HeldFrame DEF InTurn
<1>4. /\ mailbox'[a][b] = Append(mailbox[a][b], m)
      /\ \A x \in Actors, y \in Bands : x # a \/ y # b => mailbox'[x][y] = mailbox[x][y]
  BY <1>1 DEF TypeOK, ActorTypes
<1>5. Unhandled(a, b)' = Append(Pending[a][b], m)
  <2>1. Held(a, b) \o Append(mailbox[a][b], m) = Append(Held(a, b) \o mailbox[a][b], m)
    BY PendingType, ConcatAppend
  <2> QED
    BY <1>3, <1>4, <2>1, PendingType DEF Unhandled
<1>6. \A x \in Actors, y \in Bands : x # a \/ y # b => Unhandled(x, y)' = Unhandled(x, y)
  BY <1>3, <1>4 DEF Unhandled
<1> QED
  BY <1>2, <1>5, <1>6, PendingUpdate

\* The actor of a turn that begins had none: nothing moves.
LEMMA PopReadyEffect ==
    ASSUME TurnInv, NEW w \in Workers, PopReady(w)
    PROVE  /\ BatchInv' /\ Pending' = Pending
           /\ value' = value /\ issued' = issued /\ realized' = realized
           /\ \A v \in Workers : /\ pc'[v] = "deliver" <=> pc[v] = "deliver"
                                 /\ pc[v] = "deliver" => msg'[v] = msg[v]
<1>1. /\ pc[w] = "pop" /\ TypeOK /\ BatchInv /\ ClaimHasOneHolder
      /\ UNCHANGED <<mailbox, value, issued, realized, idx, batch, msg, res>>
  BY DEF PopReady, TurnInv, actorVars
<1>2. PICK p \in {"take", "exited", "park"}, a \in Actors \cup {NoActor} :
        /\ pc' = [pc EXCEPT ![w] = p] /\ cur' = [cur EXCEPT ![w] = a]
        /\ p = "take" => a \in Actors /\ QueuedIn(ready, a)
  <2>1. CASE AnyReady
    <3>1. PICK b \in Bands : /\ ready[b] # <<>>
                             /\ cur' = [cur EXCEPT ![w] = Head(ready[b])]
                             /\ pc' = [pc EXCEPT ![w] = "take"]
      BY <2>1 DEF PopReady
    <3>2. Head(ready[b]) \in Actors /\ QueuedIn(ready, Head(ready[b]))
      BY <1>1, <3>1, QueuedTail, HeadTail DEF ClaimHasOneHolder, TypeOK, QueueTypes
    <3> QED
      BY <3>1, <3>2
  <2>2. CASE ~AnyReady
    BY <2>2 DEF PopReady
  <2> QED
    BY <2>1, <2>2
<1>3. /\ pc'[w] = p /\ cur'[w] = a
      /\ \A v \in Workers \ {w} : pc'[v] = pc[v] /\ cur'[v] = cur[v]
  BY <1>1, <1>2 DEF TypeOK, TurnTypes
<1>4. OnlyWorker(w)
  BY <1>1, <1>3 DEF OnlyWorker
<1>5. batch[w] = EmptyBatch
  BY <1>1 DEF BatchInv, BatchAt, InTurn
<1>6. BatchAt(w)'
  BY <1>1, <1>3, <1>5 DEF BatchAt, EmptyBatch
<1>7. BatchInv'
  BY <1>1, <1>4, <1>6, WorkerBatch
<1>8. ASSUME NEW x \in Actors, NEW y \in Bands PROVE Held(x, y)' = Held(x, y)
  <2>1. CASE p = "take" /\ x = a
    <3>1. \A v \in Workers : InTurn(v) => cur[v] # x
      BY <1>1, <1>2, <2>1 DEF ClaimHasOneHolder, Running
    <3>2. InTurn(w)' /\ \A v \in Workers : InTurn(v)' /\ cur'[v] = x => v = w
      BY <1>3, <2>1, <3>1 DEF InTurn
    <3>3. Held(x, y)' = batch'[w][y]
      BY <1>3, <2>1, <3>2, HeldByOneNext
    <3>4. batch'[w][y] = <<>>
      BY <1>1, <1>5 DEF EmptyBatch
    <3> QED
      BY <3>1, <3>3, <3>4, HeldByNone
  <2>2. CASE ~(p = "take" /\ x = a)
    <3>1. \A v \in Workers : InTurn(v)' /\ cur'[v] = x <=> InTurn(v) /\ cur[v] = x
      BY <1>1, <1>2, <1>3, <2>2 DEF InTurn
    <3> QED
      BY <1>1, <3>1, HeldFrame
  <2> QED
    BY <2>1, <2>2
<1>9. Pending' = Pending
  BY <1>1, <1>8 DEF Pending, Unhandled
<1> QED
  BY <1>1, <1>3, <1>7, <1>9

\* takeAll moves the messages of a band from the mailbox to the batch.
LEMMA TakeAllEffect ==
    ASSUME TurnInv, NEW w \in Workers, TakeAll(w)
    PROVE  /\ BatchInv' /\ Pending' = Pending
           /\ value' = value /\ issued' = issued /\ realized' = realized
           /\ \A v \in Workers : /\ pc'[v] = "deliver" <=> pc[v] = "deliver"
                                 /\ pc[v] = "deliver" => msg'[v] = msg[v]
<1> DEFINE a == cur[w]
           k == idx[w]
<1>1. /\ pc[w] = "take" /\ TypeOK /\ BatchInv /\ InTurn(w) /\ a \in Actors /\ k \in Bands
      /\ UNCHANGED <<value, issued, realized, cur, msg, res>>
      /\ batch' = [batch EXCEPT ![w][k] = mailbox[a][k]]
      /\ mailbox' = [mailbox EXCEPT ![a][k] = <<>>]
      /\ \A v \in Workers : InTurn(v) /\ cur[v] = a => v = w
  BY TurnFacts DEF TakeAll, TurnInv, InTurn, TypeOK, TurnTypes
<1>2. \/ /\ k < 2 /\ idx' = [idx EXCEPT ![w] = k + 1] /\ pc' = pc
      \/ idx' = [idx EXCEPT ![w] = 0] /\ pc' = [pc EXCEPT ![w] = "run"]
  BY DEF TakeAll
<1>3. /\ \A v \in Workers \ {w} : pc'[v] = pc[v] /\ idx'[v] = idx[v] /\ batch'[v] = batch[v]
      /\ (pc'[w] = "take" /\ idx'[w] = k + 1) \/ pc'[w] = "run"
      /\ batch'[w][k] = mailbox[a][k] /\ \A b \in Bands : b # k => batch'[w][b] = batch[w][b]
      /\ mailbox'[a][k] = <<>>
      /\ \A x \in Actors, y \in Bands : x # a \/ y # k => mailbox'[x][y] = mailbox[x][y]
  <2>1. \A v \in Workers \ {w} : pc'[v] = pc[v] /\ idx'[v] = idx[v] /\ batch'[v] = batch[v]
    BY <1>1, <1>2 DEF TypeOK, TurnTypes
  <2>2. (pc'[w] = "take" /\ idx'[w] = k + 1) \/ pc'[w] = "run"
    BY <1>1, <1>2 DEF TypeOK, TurnTypes
  <2>3. batch'[w][k] = mailbox[a][k] /\ \A b \in Bands : b # k => batch'[w][b] = batch[w][b]
    BY <1>1 DEF TypeOK, TurnTypes
  <2>4. /\ mailbox'[a][k] = <<>>
        /\ \A x \in Actors, y \in Bands : x # a \/ y # k => mailbox'[x][y] = mailbox[x][y]
    BY <1>1 DEF TypeOK, ActorTypes
  <2> QED
    BY <2>1, <2>2, <2>3, <2>4
<1>4. \A b \in Bands : k <= b => batch[w][b] = <<>>
  BY <1>1 DEF BatchInv, BatchAt
<1> HIDE DEF a, k
<1>5. OnlyWorker(w)
  BY <1>1, <1>3 DEF OnlyWorker
<1>6. BatchAt(w)'
  <2>1. \A b \in Bands : k + 1 <= b => b # k /\ k <= b
    BY <1>1 DEF Bands
  <2>2. CASE pc'[w] = "take" /\ idx'[w] = k + 1
    BY <1>3, <1>4, <2>1, <2>2 DEF BatchAt, InTurn
  <2>3. CASE pc'[w] = "run"
    BY <2>3 DEF BatchAt, InTurn
  <2> QED
    BY <1>3, <2>2, <2>3
<1>7. BatchInv'
  BY <1>1, <1>5, <1>6, WorkerBatch
<1>8. ASSUME NEW x \in Actors, NEW y \in Bands PROVE Unhandled(x, y)' = Unhandled(x, y)
  <2>1. CASE x = a
    <3>1. InTurn(w)' /\ cur'[w] = x /\ \A v \in Workers : InTurn(v)' /\ cur'[v] = x => v = w
      BY <1>1, <1>3, <2>1 DEF InTurn, a
    <3>2. Held(x, y)' = batch'[w][y] /\ Held(x, y) = batch[w][y]
      BY <1>1, <2>1, <3>1, HeldByOne, HeldByOneNext DEF a
    <3>3. CASE y = k
      <4>1. batch[w][y] = <<>> /\ batch'[w][y] = mailbox[x][y] /\ mailbox'[x][y] = <<>>
        BY <1>1, <1>3, <1>4, <2>1, <3>3 DEF Bands
      <4>2. mailbox[x][y] \in Seq(Messages)
        BY PendingType
      <4>3. mailbox[x][y] \o <<>> = mailbox[x][y] /\ <<>> \o mailbox[x][y] = mailbox[x][y]
        BY <4>2, ConcatEmptySeq
      <4> QED
        BY <3>2, <4>1, <4>3 DEF Unhandled
    <3>4. CASE y # k
      BY <1>3, <3>2, <3>4 DEF Unhandled
    <3> QED
      BY <3>3, <3>4
  <2>2. CASE x # a
    <3>1. /\ \A v \in Workers : InTurn(v)' /\ cur'[v] = x <=> InTurn(v) /\ cur[v] = x
          /\ \A v \in Workers : InTurn(v) /\ cur[v] = x => batch'[v] = batch[v]
      BY <1>1, <1>3, <2>2 DEF InTurn, a
    <3>2. Held(x, y)' = Held(x, y)
      BY <3>1, HeldFrame
    <3> QED
      BY <1>3, <2>2, <3>2 DEF Unhandled
  <2> QED
    BY <2>1, <2>2
<1>9. Pending' = Pending
  BY <1>8 DEF Pending
<1> QED
  BY <1>1, <1>3, <1>7, <1>9

\* The store of a new state takes the handled message, the oldest of its band,
\* off those that wait.
LEMMA StoreValueEffect ==
    ASSUME TurnInv, NEW w \in Workers, StoreValue(w)
    PROVE  /\ BatchInv' /\ cur[w] \in Actors /\ idx[w] \in Bands
           /\ Pending[cur[w]][idx[w]] # <<>> /\ msg[w] = Head(Pending[cur[w]][idx[w]])
           /\ Pending' = [Pending EXCEPT ![cur[w]][idx[w]] = Tail(Pending[cur[w]][idx[w]])]
           /\ \/ value' = [value EXCEPT ![cur[w]] = Append(value[cur[w]], msg[w])]
              \/ value' = [value EXCEPT ![cur[w]] = <<>>]
           /\ issued' = issued /\ realized' = realized
           /\ pc'[w] = "deliver" /\ msg' = msg
           /\ \A v \in Workers \ {w} : pc'[v] = pc[v]
<1>a. PICK a \in Actors, k \in Bands : a = cur[w] /\ k = idx[w]
  BY DEF TurnInv, TypeOK, TurnTypes, LocalsSet, StoreValue
<1>1. /\ pc[w] = "store" /\ TypeOK /\ BatchInv /\ InTurn(w) /\ a \in Actors /\ k \in Bands
      /\ UNCHANGED <<mailbox, issued, realized, cur, idx, msg, res>>
      /\ batch' = [batch EXCEPT ![w][k] = Tail(batch[w][k])]
      /\ value' = [value EXCEPT ![a] = res[w]]
      /\ pc' = [pc EXCEPT ![w] = "deliver"]
      /\ \A v \in Workers : InTurn(v) /\ cur[v] = a => v = w
      /\ batch[w][k] # <<>> /\ batch[w][k] \in Seq(Messages)
      /\ msg[w] = Head(batch[w][k]) /\ res[w] \in {Append(value[a], msg[w]), <<>>}
  BY <1>a, TurnFacts
     DEF StoreValue, TurnInv, InTurn, TypeOK, TurnTypes, LocalsSet, BatchInv, BatchAt
<1>2. /\ pc'[w] = "deliver"
      /\ \A v \in Workers \ {w} : pc'[v] = pc[v] /\ batch'[v] = batch[v]
      /\ batch'[w][k] = Tail(batch[w][k])
      /\ \A b \in Bands : b # k => batch'[w][b] = batch[w][b]
      /\ \A x \in Actors : x # a => value'[x] = value[x]
  BY <1>1 DEF TypeOK, TurnTypes, ActorTypes
<1>3. OnlyWorker(w) /\ BatchAt(w)'
  BY <1>a, <1>1, <1>2 DEF OnlyWorker, BatchAt, InTurn
<1>4. \A v \in Workers \ {w} : InTurn(v) => value'[cur[v]] = value[cur[v]]
  BY <1>1, <1>2, TurnFacts
<1>5. BatchInv'
  BY <1>1, <1>3, <1>4, WorkerBatch
<1>6. /\ InTurn(w)' /\ cur'[w] = a /\ cur[w] = a
      /\ \A v \in Workers : InTurn(v)' /\ cur'[v] = a => v = w
  BY <1>a, <1>1, <1>2 DEF InTurn
<1>7. \A y \in Bands : Held(a, y)' = batch'[w][y] /\ Held(a, y) = batch[w][y]
  BY <1>1, <1>6, HeldByOne, HeldByOneNext
<1>8. /\ Pending[a][k] # <<>> /\ msg[w] = Head(Pending[a][k])
      /\ Unhandled(a, k)' = Tail(Pending[a][k])
  <2>1. Pending[a][k] = batch[w][k] \o mailbox[a][k] /\ mailbox[a][k] \in Seq(Messages)
    BY <1>1, <1>7, PendingType
  <2>2. Unhandled(a, k)' = Tail(batch[w][k]) \o mailbox[a][k]
    BY <1>1, <1>2, <1>7 DEF Unhandled
  <2> QED
    BY <1>1, <2>1, <2>2, ConcatTail
<1>9. ASSUME NEW x \in Actors, NEW y \in Bands, x # a \/ y # k
      PROVE  Unhandled(x, y)' = Unhandled(x, y)
  <2>1. CASE x = a
    <3>1. batch'[w][y] = batch[w][y] /\ mailbox'[x][y] = mailbox[x][y]
      BY <1>1, <1>2, <1>9, <2>1
    <3>2. /\ InTurn(w)' /\ cur'[w] = x /\ InTurn(w) /\ cur[w] = x
          /\ \A v \in Workers : InTurn(v)' /\ cur'[v] = x => v = w
          /\ \A v \in Workers : InTurn(v) /\ cur[v] = x => v = w
      BY <1>1, <1>6, <2>1
    <3>3. Held(x, y)' = batch'[w][y] /\ Held(x, y) = batch[w][y]
      BY <3>2, HeldByOne, HeldByOneNext
    <3> QED
      BY <3>1, <3>3 DEF Unhandled
  <2>2. CASE x # a
    <3>1. /\ \A v \in Workers : InTurn(v)' /\ cur'[v] = x <=> InTurn(v) /\ cur[v] = x
          /\ \A v \in Workers : InTurn(v) /\ cur[v] = x => batch'[v] = batch[v]
      BY <1>1, <1>2, <1>6, <2>2 DEF InTurn
    <3>2. Held(x, y)' = Held(x, y)
      BY <3>1, HeldFrame
    <3> QED
      BY <1>1, <3>2 DEF Unhandled
  <2> QED
    BY <2>1, <2>2
<1>10. Pending' = [Pending EXCEPT ![a][k] = Tail(Pending[a][k])]
  BY <1>1, <1>8, <1>9, PendingUpdate
<1>11. \/ value' = [value EXCEPT ![a] = Append(value[a], msg[w])]
       \/ value' = [value EXCEPT ![a] = <<>>]
  BY <1>1
<1> QED
  BY <1>a, <1>1, <1>2, <1>5, <1>8, <1>10, <1>11

\* A turn ends with an empty batch.
LEMMA ReleaseClaimEffect ==
    ASSUME TurnInv, NEW w \in Workers, ReleaseClaim(w)
    PROVE  /\ BatchInv' /\ Pending' = Pending
           /\ value' = value /\ issued' = issued /\ realized' = realized
           /\ \A v \in Workers : /\ pc'[v] = "deliver" <=> pc[v] = "deliver"
                                 /\ pc[v] = "deliver" => msg'[v] = msg[v]
<1>1. /\ pc[w] = "run" /\ TypeOK /\ BatchInv /\ InTurn(w) /\ batch[w] = EmptyBatch
      /\ UNCHANGED <<mailbox, value, issued, realized, cur, batch, msg, res>>
      /\ pc' = [pc EXCEPT ![w] = "check"] /\ idx' = [idx EXCEPT ![w] = 0]
      /\ \A v \in Workers : InTurn(v) /\ cur[v] = cur[w] => v = w
  BY TurnFacts DEF ReleaseClaim, TurnInv, InTurn, actorVars
<1>2. /\ pc'[w] = "check" /\ \A v \in Workers \ {w} : pc'[v] = pc[v] /\ idx'[v] = idx[v]
  BY <1>1 DEF TypeOK, TurnTypes
<1>3. OnlyWorker(w) /\ BatchAt(w)'
  BY <1>1, <1>2 DEF OnlyWorker, BatchAt, EmptyBatch
<1>4. BatchInv'
  BY <1>1, <1>3, WorkerBatch
<1>5. ASSUME NEW x \in Actors, NEW y \in Bands PROVE Held(x, y)' = Held(x, y)
  <2>1. CASE x = cur[w]
    <3>1. Held(x, y) = batch[w][y]
      BY <1>1, <2>1, HeldByOne
    <3>2. \A v \in Workers : InTurn(v)' => cur'[v] # x
      BY <1>1, <1>2, <2>1 DEF InTurn
    <3>3. Held(x, y)' = <<>>
      BY <3>2, HeldByNoneNext
    <3> QED
      BY <1>1, <3>1, <3>3 DEF EmptyBatch
  <2>2. CASE x # cur[w]
    <3>1. \A v \in Workers : InTurn(v)' /\ cur'[v] = x <=> InTurn(v) /\ cur[v] = x
      BY <1>1, <1>2, <2>2 DEF InTurn
    <3> QED
      BY <1>1, <3>1, HeldFrame
  <2> QED
    BY <2>1, <2>2
<1>6. Pending' = Pending
  BY <1>1, <1>5 DEF Pending, Unhandled
<1> QED
  BY <1>1, <1>2, <1>4, <1>6

\* Every step is uneventful, or one of the few that move messages or claims.
LEMMA StepCases ==
    ASSUME TypeOK, [Next]_vars
    PROVE  \/ Uneventful
           \/ \E t \in Threads, a \in Actors, b \in Bands, m \in Messages : Push(t, a, b, m)
           \/ \E w \in Workers : Invoke(w) \/ HandlerReturns(w) \/ DeliverPromise(w)
           \/ \E w \in Workers : PopReady(w) \/ TakeAll(w) \/ ReleaseClaim(w)
           \/ \E w \in Workers : StoreValue(w)
<1>1. ASSUME NEW w \in Workers, WorkerStep(w)
      PROVE  \/ OutsideTurn(w) \/ Invoke(w) \/ HandlerReturns(w) \/ DeliverPromise(w)
             \/ PopReady(w) \/ TakeAll(w) \/ ReleaseClaim(w) \/ StoreValue(w)
  BY <1>1 DEF WorkerStep, OutsideTurn
<1>2. CASE \E w \in Workers : WorkerStep(w)
  BY <1>1, <1>2, OutsideUneventful
<1>3. CASE \E w \in Workers : SpuriousWakeup(w) \/ FlushRelease(w)
  BY <1>3, OutsideUneventful DEF OutsideTurn
<1>4. CASE \E t \in Threads, a \in Actors, prim \in DOMAIN PrimBand, m \in Messages :
             Push(t, a, PrimBand[prim], m)
  BY <1>4, PrimBandFacts
<1>5. CASE \/ \E t \in Threads : SendStep(t)
           \/ \E t \in Threads, a \in Actors : NewActor(t, a)
           \/ ShutdownFlag \/ ShutdownStep \/ UNCHANGED vars
  BY <1>5, OthersUneventful
<1> QED
  BY <1>2, <1>3, <1>4, <1>5 DEF Next, Terminated

\* At the start no worker is in a turn.
LEMMA TurnInit == Init => TurnInv
<1> SUFFICES ASSUME Init PROVE BatchInv
  BY TypeInit, ClaimInit DEF TurnInv
<1> QED
  BY DEF Init, BatchInv, BatchAt, InTurn

\* No step breaks what a turn relies on.
LEMMA TurnStep == TurnInv /\ [Next]_vars => TurnInv'
<1> SUFFICES ASSUME TurnInv, [Next]_vars PROVE BatchInv'
  BY TypeStep, ClaimStep DEF TurnInv
<1>1. CASE Uneventful
  BY <1>1, UneventfulBatch DEF TurnInv
<1>2. CASE \E t \in Threads, a \in Actors, b \in Bands, m \in Messages : Push(t, a, b, m)
  BY <1>2, PushEffect
<1>3. CASE \E w \in Workers : Invoke(w) \/ HandlerReturns(w) \/ DeliverPromise(w)
  BY <1>3, InvokeTurn, HandlerReturnsTurn, DeliverPromiseTurn
<1>4. CASE \E w \in Workers : PopReady(w) \/ TakeAll(w) \/ ReleaseClaim(w)
  BY <1>4, PopReadyEffect, TakeAllEffect, ReleaseClaimEffect
<1>5. CASE \E w \in Workers : StoreValue(w)
  BY <1>5, StoreValueEffect
<1> QED
  BY <1>1, <1>2, <1>3, <1>4, <1>5, StepCases DEF TurnInv

-----------------------------------------------------------------------------
(* The scheduler implements Actor. *)

\* The scheduler starts where the abstract actors do.
LEMMA AbsInit == Init => Abs!Init
<1> SUFFICES ASSUME Init PROVE Abs!Init
  OBVIOUS
<1>1. \A w \in Workers : ~InTurn(w)
  BY DEF Init, InTurn
<1>2. \A a \in Actors, b \in Bands : Unhandled(a, b) = <<>>
  <2>1. \A a \in Actors, b \in Bands : Held(a, b) = <<>> /\ mailbox[a][b] = <<>>
    BY <1>1, HeldByNone DEF Init, EmptyBatch
  <2>2. <<>> \o <<>> = <<>>
    BY ConcatEmptySeq, EmptySeq
  <2> QED
    BY <2>1, <2>2 DEF Unhandled
<1> QED
  BY <1>2 DEF Init, Abs!Init, Bands

\* Every step is a step of the abstract actors or changes nothing they see.
LEMMA AbsStep == TurnInv /\ [Next]_vars => [Abs!Next]_(Abs!vars)
<1> SUFFICES ASSUME TurnInv, [Next]_vars PROVE Abs!Next \/ UNCHANGED Abs!vars
  OBVIOUS
<1>1. ASSUME Pending' = Pending, value' = value, issued' = issued
      PROVE  UNCHANGED Abs!vars
  BY <1>1 DEF Abs!vars, Pending
<1>2. CASE Uneventful
  BY <1>1, <1>2, UneventfulQuiet, QuietPending DEF Quiet
<1>3. ASSUME NEW t \in Threads, NEW a \in Actors, NEW b \in Bands, NEW m \in Messages,
             Push(t, a, b, m)
      PROVE  Abs!Next
  <2>1. Pending' = [Pending EXCEPT ![a][b] = Append(Pending[a][b], m)]
    BY <1>3, PushEffect
  <2>2. Pending' = [Pending EXCEPT ![a][b] = Append(@, m)]
    BY <2>1, PendingType DEF Tables
  <2>3. Abs!Send(a, b, m)
    BY <1>3, <2>2 DEF Push, Abs!Send, Pending
  <2> QED
    BY <2>3 DEF Abs!Next, Bands
<1>4. CASE \E w \in Workers : Invoke(w) \/ HandlerReturns(w) \/ DeliverPromise(w)
  BY <1>1, <1>4, TurnQuiet, QuietPending DEF Quiet, TurnInv
<1>5. CASE \E w \in Workers : PopReady(w) \/ TakeAll(w) \/ ReleaseClaim(w)
  BY <1>1, <1>5, PopReadyEffect, TakeAllEffect, ReleaseClaimEffect
<1>6. ASSUME NEW w \in Workers, StoreValue(w)
      PROVE  Abs!Next
  <2>1. PICK a \in Actors, b \in Bands : a = cur[w] /\ b = idx[w]
    BY <1>6, StoreValueEffect
  <2>2. /\ Pending[a][b] # <<>> /\ issued' = issued
        /\ Pending' = [Pending EXCEPT ![a][b] = Tail(Pending[a][b])]
        /\ \/ value' = [value EXCEPT ![a] = Append(value[a], Head(Pending[a][b]))]
           \/ value' = [value EXCEPT ![a] = <<>>]
    BY <1>6, <2>1, StoreValueEffect
  <2>3. Pending' = [Pending EXCEPT ![a][b] = Tail(@)]
    BY <2>2, PendingType DEF Tables
  <2>4. \/ value' = [value EXCEPT ![a] = Append(@, Head(Pending[a][b]))]
        \/ value' = [value EXCEPT ![a] = <<>>]
    BY <2>2 DEF TurnInv, TypeOK, ActorTypes
  <2>5. Abs!Handle(a, b)
    BY <2>2, <2>3, <2>4 DEF Abs!Handle, Pending
  <2> QED
    BY <2>5 DEF Abs!Next, Bands
<1> QED
  BY <1>2, <1>3, <1>4, <1>5, <1>6, StepCases DEF TurnInv

\* The scheduler, its three mailboxes per actor, its claims, its ready queues
\* and its batches implement actors that handle their messages one at a time,
\* each exactly once, in the order of its band and from the state the previous
\* one left (workerLoop, ActorScheduler::send), whether or not the release of a
\* claim is delayed.
THEOREM ActorRefinement == Spec => ImplementsActor
<1>1. Spec => []TurnInv
  BY TurnInit, TurnStep, PTL DEF Spec
<1> QED
  BY <1>1, AbsInit, AbsStep, PTL DEF Spec, ImplementsActor, Abs!Spec

-----------------------------------------------------------------------------
(* Where every message is. *)

\* A message that was sent waits in one place, or its promise is being
\* delivered, or was.
MessageInv ==
    /\ realized \subseteq issued
    /\ \A m \in Messages : Holds(Pending, m) => m \in issued /\ m \notin realized
    /\ \A w \in Workers : pc[w] = "deliver" => msg[w] \in issued /\ ~Holds(Pending, msg[w])
    /\ Distinct(Pending)
    /\ \A m \in issued : \/ m \in realized \/ Holds(Pending, m)
                         \/ \E w \in Workers : pc[w] = "deliver" /\ msg[w] = m

\* At the start no message is anywhere.
LEMMA MessageInit == Init => MessageInv
<1> SUFFICES ASSUME Init PROVE MessageInv
  OBVIOUS
<1>1. \A a \in Actors, b \in Bands : Pending[a][b] = <<>>
  BY AbsInit DEF Abs!Init, Pending, Bands
<1>2. \A a \in Actors, b \in Bands : Len(Pending[a][b]) = 0
  BY <1>1
<1>3. Distinct(Pending) /\ \A m \in Messages : ~Holds(Pending, m)
  BY <1>2 DEF Distinct, Holds
<1> QED
  BY <1>3 DEF Init, MessageInv

\* Every step keeps each message in one place.
LEMMA MessageStep == TurnInv /\ MessageInv /\ [Next]_vars => MessageInv'
<1> SUFFICES ASSUME TurnInv, MessageInv, [Next]_vars PROVE MessageInv'
  OBVIOUS
<1>1. ASSUME Pending' = Pending, issued' = issued, realized' = realized,
             \A v \in Workers : /\ pc'[v] = "deliver" <=> pc[v] = "deliver"
                                /\ pc[v] = "deliver" => msg'[v] = msg[v]
      PROVE  MessageInv'
  <2>1. Distinct(Pending)' /\ \A m : Holds(Pending, m)' <=> Holds(Pending, m)
    BY <1>1 DEF Distinct, Holds, MessageInv
  <2>2. \A v \in Workers : pc'[v] = "deliver" =>
          msg'[v] \in issued /\ ~Holds(Pending, msg[v]) /\ msg'[v] = msg[v]
    BY <1>1 DEF MessageInv
  <2>3. \A v \in Workers : pc'[v] = "deliver" => msg'[v] \in issued' /\ ~Holds(Pending, msg[v])'
    <3> SUFFICES ASSUME NEW v \in Workers, pc'[v] = "deliver"
                 PROVE  msg'[v] \in issued' /\ ~Holds(Pending, msg[v])'
      OBVIOUS
    <3>1. PICK m : m = msg[v]
      OBVIOUS
    <3>2. msg'[v] = m /\ ~Holds(Pending, m)' /\ m \in issued
      BY <2>1, <2>2, <3>1
    <3> QED
      BY <1>1, <3>2 DEF Holds
  <2> QED
    BY <1>1, <2>1, <2>3 DEF MessageInv
<1>2. CASE Uneventful
  BY <1>1, <1>2, UneventfulQuiet, QuietPending DEF Quiet, Uneventful
<1>3. CASE \E w \in Workers : PopReady(w) \/ TakeAll(w) \/ ReleaseClaim(w)
  BY <1>1, <1>3, PopReadyEffect, TakeAllEffect, ReleaseClaimEffect
<1>4. ASSUME NEW w \in Workers, Invoke(w) \/ HandlerReturns(w) PROVE MessageInv'
  <2>1. Pending' = Pending /\ issued' = issued
    BY <1>4, TurnQuiet, QuietPending DEF Quiet, TurnInv
  <2>2. /\ realized' = realized
        /\ \A v \in Workers : /\ pc'[v] = "deliver" <=> pc[v] = "deliver"
                              /\ pc[v] = "deliver" => msg'[v] = msg[v]
    BY <1>4 DEF Invoke, HandlerReturns, actorVars, TurnInv, TypeOK, TurnTypes
  <2> QED
    BY <1>1, <2>1, <2>2
<1>5. ASSUME NEW w \in Workers, DeliverPromise(w) PROVE MessageInv'
  <2>1. PICK m \in Messages : m = msg[w]
    BY <1>5 DEF DeliverPromise, TurnInv, TypeOK, LocalsSet
  <2>2. /\ Pending' = Pending /\ issued' = issued /\ realized' = realized \cup {m}
        /\ pc[w] = "deliver" /\ pc'[w] = "run"
        /\ \A v \in Workers \ {w} : pc'[v] = pc[v] /\ msg'[v] = msg[v]
    <3>1. Pending' = Pending /\ issued' = issued
      BY <1>5, TurnQuiet, QuietPending DEF Quiet, TurnInv
    <3> QED
      BY <1>5, <2>1, <3>1 DEF DeliverPromise, TurnInv, TypeOK, TurnTypes
  <2>3. Distinct(Pending)' /\ \A x : Holds(Pending, x)' <=> Holds(Pending, x)
    BY <2>2 DEF Distinct, Holds, MessageInv
  <2>4. m \in issued /\ ~Holds(Pending, m)
    BY <2>1, <2>2 DEF MessageInv
  <2>5. ASSUME NEW v \in Workers, pc'[v] = "deliver"
        PROVE  msg'[v] \in issued' /\ ~Holds(Pending, msg[v])'
    <3>1. PICK x : x = msg[v]
      OBVIOUS
    <3>2. v # w /\ msg'[v] = x /\ pc[v] = "deliver"
      BY <2>2, <2>5, <3>1
    <3>3. x \in issued /\ ~Holds(Pending, x)'
      BY <2>3, <3>1, <3>2 DEF MessageInv
    <3> QED
      BY <2>2, <3>2, <3>3 DEF Holds
  <2>6. ASSUME NEW x \in issued
        PROVE  \/ x \in realized' \/ Holds(Pending, x)'
               \/ \E v \in Workers : pc'[v] = "deliver" /\ msg'[v] = x
    <3>1. CASE \E v \in Workers : pc[v] = "deliver" /\ msg[v] = x
      BY <2>1, <2>2, <3>1
    <3> QED
      BY <2>2, <2>3, <3>1 DEF MessageInv
  <2>7. \A x \in Messages : Holds(Pending, x)' => x \in issued' /\ x \notin realized'
    BY <2>2, <2>3, <2>4 DEF MessageInv
  <2>8. realized' \subseteq issued'
    BY <2>2, <2>4 DEF MessageInv
  <2> QED
    BY <2>2, <2>3, <2>5, <2>6, <2>7, <2>8 DEF MessageInv
<1>6. ASSUME NEW t \in Threads, NEW a \in Actors, NEW b \in Bands, NEW m \in Messages,
             Push(t, a, b, m)
      PROVE  MessageInv'
  <2>1. /\ m \notin issued /\ issued' = issued \cup {m} /\ realized' = realized
        /\ UNCHANGED <<pc, msg>>
    BY <1>6 DEF Push, turnVars
  <2>2. Pending' = [Pending EXCEPT ![a][b] = Append(@, m)] /\ Pending \in Tables
    BY <1>6, PushEffect, PendingType DEF Tables
  <2>3. ~Holds(Pending, m) /\ Distinct(Pending)
    BY <2>1 DEF MessageInv
  <2>4. /\ Distinct(Pending')
        /\ \A x \in Messages : Holds(Pending', x) <=> Holds(Pending, x) \/ x = m
    BY <2>2, <2>3, TableAppend
  <2>5. Distinct(Pending)' /\ \A x : Holds(Pending, x)' <=> Holds(Pending', x)
    BY <2>4 DEF Distinct, Holds
  <2>6. ASSUME NEW v \in Workers, pc'[v] = "deliver"
        PROVE  msg'[v] \in issued' /\ ~Holds(Pending, msg[v])'
    <3>1. PICK x : x = msg[v]
      OBVIOUS
    <3>2. msg'[v] = x /\ x \in issued /\ ~Holds(Pending, x) /\ x \in Messages /\ x # m
      BY <2>1, <2>6, <3>1 DEF MessageInv, TurnInv, TypeOK, ActorTypes
    <3>3. ~Holds(Pending, x)'
      BY <2>4, <2>5, <3>2
    <3> QED
      BY <2>1, <3>2, <3>3 DEF Holds
  <2>7. \A x \in Messages : Holds(Pending, x)' => x \in issued' /\ x \notin realized'
    BY <2>1, <2>4, <2>5 DEF MessageInv
  <2>8. ASSUME NEW x \in issued'
        PROVE  \/ x \in realized' \/ Holds(Pending, x)'
               \/ \E v \in Workers : pc'[v] = "deliver" /\ msg'[v] = x
    <3>1. x \in Messages
      BY <2>1 DEF TurnInv, TypeOK, ActorTypes
    <3> QED
      BY <2>1, <2>4, <2>5, <3>1 DEF MessageInv
  <2>9. realized' \subseteq issued'
    BY <2>1 DEF MessageInv
  <2> QED
    BY <2>5, <2>6, <2>7, <2>8, <2>9 DEF MessageInv
<1>7. ASSUME NEW w \in Workers, StoreValue(w) PROVE MessageInv'
  <2>1. PICK a \in Actors, b \in Bands, m \in Messages : a = cur[w] /\ b = idx[w] /\ m = msg[w]
    BY <1>7, StoreValueEffect DEF TurnInv, TypeOK, LocalsSet, StoreValue
  <2>2. /\ Pending[a][b] # <<>> /\ m = Head(Pending[a][b]) /\ Pending \in Tables
        /\ Pending' = [Pending EXCEPT ![a][b] = Tail(@)]
        /\ issued' = issued /\ realized' = realized /\ pc'[w] = "deliver" /\ msg' = msg
        /\ \A v \in Workers \ {w} : pc'[v] = pc[v]
    BY <1>7, <2>1, StoreValueEffect, PendingType DEF Tables
  <2>3. Distinct(Pending)
    BY DEF MessageInv
  <2>4. /\ Distinct(Pending') /\ Holds(Pending, m)
        /\ \A x \in Messages : Holds(Pending', x) <=> Holds(Pending, x) /\ x # m
    <3> DEFINE P == Pending
               Q == [P EXCEPT ![a][b] = Tail(@)]
    <3>1. P \in Tables /\ P[a][b] # <<>> /\ Distinct(P)
      BY <2>2, <2>3
    <3> HIDE DEF P
    <3>2. /\ Holds(P, Head(P[a][b])) /\ Distinct(Q)
          /\ \A x \in Messages : Holds(Q, x) <=> Holds(P, x) /\ x # Head(P[a][b])
      BY <3>1, TableTail
    <3>3. Q = Pending' /\ P = Pending /\ Head(P[a][b]) = m
      BY <2>2 DEF P
    <3> HIDE DEF Q
    <3> QED
      BY <3>2, <3>3
  <2>5. Distinct(Pending)' /\ \A x : Holds(Pending, x)' <=> Holds(Pending', x)
    BY <2>4 DEF Distinct, Holds
  <2>6. ASSUME NEW v \in Workers, pc'[v] = "deliver"
        PROVE  msg'[v] \in issued' /\ ~Holds(Pending, msg[v])'
    <3>1. PICK x : x = msg[v]
      OBVIOUS
    <3>2. msg'[v] = x /\ x \in issued /\ x \in Messages /\ (~Holds(Pending, x) \/ x = m)
      <4>1. m \in issued
        BY <2>4 DEF MessageInv
      <4>2. v = w \/ pc[v] = "deliver"
        BY <2>2, <2>6
      <4> QED
        <5>1. CASE v = w
          BY <2>1, <2>2, <3>1, <4>1, <5>1
        <5>2. CASE pc[v] = "deliver"
          <6>1. x \in issued /\ ~Holds(Pending, x)
            BY <3>1, <5>2 DEF MessageInv
          <6> QED
            BY <2>2, <3>1, <6>1 DEF TurnInv, TypeOK, ActorTypes
        <5> QED
          BY <4>2, <5>1, <5>2
    <3>3. ~Holds(Pending, x)'
      BY <2>4, <2>5, <3>2
    <3> QED
      BY <2>2, <3>2, <3>3 DEF Holds
  <2>7. \A x \in Messages : Holds(Pending, x)' => x \in issued' /\ x \notin realized'
    BY <2>2, <2>4, <2>5 DEF MessageInv
  <2>8. ASSUME NEW x \in issued
        PROVE  \/ x \in realized' \/ Holds(Pending, x)'
               \/ \E v \in Workers : pc'[v] = "deliver" /\ msg'[v] = x
    <3>1. x \in Messages
      BY DEF TurnInv, TypeOK, ActorTypes
    <3>2. CASE x = m
      BY <2>1, <2>2, <3>2
    <3>3. CASE \E v \in Workers : pc[v] = "deliver" /\ msg[v] = x
      BY <2>2, <3>3
    <3>4. CASE x # m /\ (x \in realized \/ Holds(Pending, x))
      BY <2>2, <2>4, <2>5, <3>1, <3>4
    <3> QED
      BY <3>2, <3>3, <3>4 DEF MessageInv
  <2>9. realized' \subseteq issued'
    BY <2>2 DEF MessageInv
  <2> QED
    BY <2>2, <2>5, <2>6, <2>7, <2>8, <2>9 DEF MessageInv
<1> QED
  BY <1>2, <1>3, <1>4, <1>5, <1>6, <1>7, StepCases DEF TurnInv

\* When the promise of a send is realized the state its handler computed has
\* been stored, whatever is sent to the actor meanwhile (workerLoop stores
\* __value__ before deliverPromise).
THEOREM RealizedIsStoredTheorem == Spec => []RealizedIsStored
<1>1. Spec => [](TurnInv /\ MessageInv)
  BY TurnInit, TurnStep, MessageInit, MessageStep, PTL DEF Spec
<1>2. TurnInv /\ MessageInv => RealizedIsStored
  <2> SUFFICES ASSUME TurnInv, MessageInv, NEW m \in realized, NEW a \in Actors, NEW b \in Bands,
                      NEW i \in 1..Len(Unhandled(a, b)), Unhandled(a, b)[i] = m
               PROVE  FALSE
    BY DEF RealizedIsStored
  <2>1. Pending[a][b] = Unhandled(a, b) /\ m \in Messages
    BY DEF Pending, TurnInv, TypeOK, ActorTypes
  <2>2. Holds(Pending, m)
    BY <2>1 DEF Holds
  <2> QED
    BY <2>1, <2>2 DEF MessageInv
<1> QED
  BY <1>1, <1>2, PTL

-----------------------------------------------------------------------------
(* The shutdown drains. *)

\* Who may still send, and what the workers that have ended left behind.
ExitInv ==
    /\ mainPc # "running" => \A c \in Clients : sendPc[c] = "idle"
    /\ \A w \in Workers : sendPc[w] # "idle" => pc[w] = "handler"
    /\ owners # {} \/ issued # {} => started
    /\ \A w \in Workers : ~started => pc[w] = "unborn"
    /\ shuttingDown => mainPc # "running"
    /\ \A w \in Workers : pc[w] = "exited" => mainPc # "running"
    /\ (\A w \in Workers : pc[w] = "exited") => ~AnyReady
    /\ mainPc = "done" /\ started => \A w \in Workers : pc[w] = "exited"

\* At the start no worker has ended.
LEMMA ExitInit == Init => ExitInv
  BY PoolAssumption DEF Init, ExitInv, Threads

\* Steps that start nothing, end no worker, and let no client begin a send.
LEMMA ExitFrame ==
    ASSUME ExitInv, UNCHANGED <<started, owners, issued, mainPc, shuttingDown>>,
           \A w \in Workers : pc'[w] = "exited" <=> pc[w] = "exited",
           \A w \in Workers : pc[w] = "unborn" => pc'[w] = "unborn",
           \A w \in Workers : sendPc'[w] # "idle" => pc'[w] = "handler",
           \A c \in Clients : sendPc[c] = "idle" => sendPc'[c] = "idle",
           ready' = ready \/ \E w \in Workers : pc'[w] # "exited"
    PROVE  ExitInv'
  BY DEF ExitInv, AnyReady

\* A worker of the pool, from its first look at the queues on.
LEMMA ExitByWorker ==
    ASSUME TypeOK, ExitInv, NEW w \in Workers,
           UNCHANGED <<started, owners, issued, mainPc, shuttingDown, sendPc>>,
           pc[w] \notin {"exited", "unborn"}, pc'[w] \notin {"exited", "unborn"},
           sendPc[w] # "idle" => pc'[w] = "handler",
           \A v \in Workers \ {w} : pc'[v] = pc[v] \/ (pc[v] = "blocked" /\ pc'[v] = "park")
    PROVE  ExitInv'
<1>1. /\ \A v \in Workers : pc'[v] = "exited" <=> pc[v] = "exited"
      /\ \A v \in Workers : pc[v] = "unborn" => pc'[v] = "unborn"
  OBVIOUS
<1>2. \A v \in Workers : sendPc'[v] # "idle" => pc'[v] = "handler"
  BY DEF ExitInv
<1> QED
  BY <1>1, <1>2, ExitFrame

\* A worker ends only when the flag is set and nothing is ready; a send of a
\* handler keeps its own worker alive.
LEMMA ExitStep ==
    ASSUME TypeOK, ExitInv, [Next]_vars
    PROVE  ExitInv'
<1> USE DEF TypeOK, TurnTypes, SendTypes
<1>1. ASSUME NEW t \in Threads, SendClaim(t) PROVE ExitInv'
  <2>1. /\ UNCHANGED <<started, owners, issued, mainPc, shuttingDown, pc, ready>>
        /\ sendPc[t] # "idle" /\ \A u \in Threads \ {t} : sendPc'[u] = sendPc[u]
    BY <1>1 DEF SendClaim, queueVars
  <2>2. /\ \A v \in Workers : sendPc'[v] # "idle" => pc'[v] = "handler"
        /\ \A c \in Clients : sendPc[c] = "idle" => sendPc'[c] = "idle"
    BY <2>1 DEF ExitInv, Threads
  <2> QED
    BY <2>1, <2>2, ExitFrame
<1>2. ASSUME NEW t \in Threads, SendEnqueue(t) PROVE ExitInv'
  <2>1. /\ UNCHANGED <<started, owners, issued, mainPc, shuttingDown>>
        /\ sendPc[t] # "idle" /\ sendPc'[t] = "idle"
        /\ \A u \in Threads \ {t} : sendPc'[u] = sendPc[u]
        /\ NotifyOne(pc, pc')
    BY <1>2 DEF SendEnqueue, EnqueueReady, actorVars
  <2>2. \A v \in Workers : pc'[v] = pc[v] \/ (pc'[v] = "park" /\ pc[v] = "blocked")
    <3>1. pc \in [Workers -> WorkerPcs] /\ NotifyOne(pc, pc')
      BY <2>1
    <3> HIDE DEF TypeOK, TurnTypes, SendTypes
    <3> QED
      BY <3>1, NotifyOneEffect
  <2>3. /\ \A v \in Workers : pc'[v] = "exited" <=> pc[v] = "exited"
        /\ \A v \in Workers : pc[v] = "unborn" => pc'[v] = "unborn"
        /\ \A v \in Workers : sendPc'[v] # "idle" => pc'[v] = "handler"
        /\ \A c \in Clients : sendPc[c] = "idle" => sendPc'[c] = "idle"
    BY <2>1, <2>2 DEF ExitInv, Threads
  <2>4. \E v \in Workers : pc'[v] # "exited"
    <3>1. CASE t \in Workers
      BY <2>1, <2>3, <3>1 DEF ExitInv
    <3>2. CASE t \in Clients
      BY <2>1, <2>3, <3>2, ThreadsAssumption, PoolAssumption DEF ExitInv
    <3> QED
      BY <3>1, <3>2 DEF Threads
  <2> QED
    BY <2>1, <2>3, <2>4, ExitFrame
<1>3. ASSUME NEW t \in Threads, NEW a \in Actors, NewActor(t, a) PROVE ExitInv'
  <2>1. /\ UNCHANGED <<ready, shuttingDown, issued, sendPc, mainPc>> /\ started'
        /\ \A v \in Workers : pc'[v] = IF pc[v] = "unborn" THEN "pop" ELSE pc[v]
    BY <1>3 DEF NewActor, EnsureStarted, sendVars
  <2>2. mainPc # "done"
    <3>1. CASE t \in Clients /\ mainPc = "running"
      BY <3>1
    <3>2. CASE t \in Workers /\ pc[t] = "handler"
      BY <3>2 DEF ExitInv
    <3> QED
      BY <1>3, <3>1, <3>2 DEF NewActor, RunsClojure
  <2>3. \A v \in Workers : /\ pc'[v] = "exited" <=> pc[v] = "exited"
                           /\ pc[v] = "handler" => pc'[v] = "handler"
    BY <2>1
  <2> QED
    BY <2>1, <2>2, <2>3 DEF ExitInv, AnyReady
<1>4. ASSUME NEW t \in Threads, NEW a \in Actors, NEW b \in Bands, NEW m \in Messages,
             Push(t, a, b, m)
      PROVE  ExitInv'
  <2>1. /\ UNCHANGED <<started, ready, shuttingDown, owners, pc, mainPc>> /\ owners # {}
        /\ sendPc'[t] = "claim" /\ \A u \in Threads \ {t} : sendPc'[u] = sendPc[u]
    BY <1>4 DEF Push, queueVars
  <2>2. (t \in Clients /\ mainPc = "running") \/ (t \in Workers /\ pc[t] = "handler")
    BY <1>4 DEF Push, RunsClojure
  <2>3. started /\ started'
    BY <2>1 DEF ExitInv
  <2>4. \A w \in Workers : sendPc'[w] # "idle" => pc'[w] = "handler"
    BY <2>1, <2>2, ThreadsAssumption, PoolAssumption DEF ExitInv, Threads
  <2>5. mainPc' # "running" => \A c \in Clients : sendPc'[c] = "idle"
    BY <2>1, <2>2, ThreadsAssumption, PoolAssumption DEF ExitInv, Threads
  <2> QED
    BY <2>1, <2>3, <2>4, <2>5 DEF ExitInv, AnyReady
<1>5. ASSUME NEW w \in Workers, PopReady(w) PROVE ExitInv'
  <2>1. /\ pc[w] = "pop" /\ UNCHANGED <<started, owners, issued, mainPc, shuttingDown, sendPc>>
    BY <1>5 DEF PopReady, actorVars, sendVars
  <2>2. CASE AnyReady \/ ~shuttingDown
    <3>1. \E p \in {"take", "park"} : pc' = [pc EXCEPT ![w] = p]
      BY <1>5, <2>2 DEF PopReady
    <3> QED
      BY <2>1, <3>1, ExitByWorker DEF ExitInv
  <2>3. CASE ~AnyReady /\ shuttingDown
    <3>1. pc' = [pc EXCEPT ![w] = "exited"] /\ ready' = ready
      BY <1>5, <2>3 DEF PopReady
    <3>2. pc'[w] = "exited" /\ \A v \in Workers \ {w} : pc'[v] = pc[v]
      BY <3>1
    <3> QED
      BY <2>1, <2>3, <3>1, <3>2 DEF ExitInv, AnyReady
  <2> QED
    BY <2>2, <2>3
<1>6. ASSUME NEW w \in Workers,
             EvalPredicate(w) \/ Block(w) \/ SpuriousWakeup(w)
      PROVE  ExitInv'
  <2>1. /\ UNCHANGED <<started, owners, issued, mainPc, shuttingDown, sendPc>>
        /\ pc[w] \in {"park", "sleep", "blocked"}
        /\ \E p \in {"pop", "sleep", "blocked", "park"} : pc' = [pc EXCEPT ![w] = p]
    BY <1>6 DEF EvalPredicate, Block, SpuriousWakeup, actorVars, queueVars, sendVars
  <2> QED
    BY <2>1, ExitByWorker DEF ExitInv
<1>7. ASSUME NEW w \in Workers, TakeAll(w) PROVE ExitInv'
  <2>1. /\ UNCHANGED <<started, owners, issued, mainPc, shuttingDown, sendPc>>
        /\ pc[w] = "take" /\ \E p \in {"take", "run"} : pc' = [pc EXCEPT ![w] = p]
    BY <1>7 DEF TakeAll, queueVars, sendVars
  <2> QED
    BY <2>1, ExitByWorker DEF ExitInv
<1>8. ASSUME NEW w \in Workers, Invoke(w) \/ StoreValue(w) \/ DeliverPromise(w) \/ ReleaseClaim(w)
      PROVE  ExitInv'
  <2>1. /\ UNCHANGED <<started, owners, issued, mainPc, shuttingDown, sendPc>>
        /\ pc[w] \in {"run", "store", "deliver"}
        /\ \E p \in {"handler", "deliver", "run", "check"} : pc' = [pc EXCEPT ![w] = p]
    BY <1>8 DEF Invoke, StoreValue, DeliverPromise, ReleaseClaim, actorVars, queueVars, sendVars
  <2> QED
    BY <2>1, ExitByWorker DEF ExitInv
<1>9. ASSUME NEW w \in Workers, HandlerReturns(w) PROVE ExitInv'
  <2>1. /\ UNCHANGED <<started, owners, issued, mainPc, shuttingDown, sendPc>>
        /\ pc[w] = "handler" /\ sendPc[w] = "idle" /\ pc' = [pc EXCEPT ![w] = "store"]
    BY <1>9 DEF HandlerReturns, actorVars, queueVars, sendVars
  <2> QED
    BY <2>1, ExitByWorker
<1>10. ASSUME NEW w \in Workers, CheckMailbox(w) \/ Reclaim(w) \/ RankBand(w) PROVE ExitInv'
  <2>1. /\ UNCHANGED <<started, owners, issued, mainPc, shuttingDown, sendPc>>
        /\ pc[w] \in {"check", "reclaim", "rank"}
        /\ \E p \in {"check", "reclaim", "rank", "pop", "requeue"} : pc' = [pc EXCEPT ![w] = p]
    BY <1>10 DEF CheckMailbox, Reclaim, RankBand, actorVars, queueVars, sendVars
  <2> QED
    BY <2>1, ExitByWorker DEF ExitInv
<1>11. ASSUME NEW w \in Workers, Requeue(w) PROVE ExitInv'
  <2> DEFINE p == [pc EXCEPT ![w] = "pop"]
  <2>1. /\ UNCHANGED <<started, owners, issued, mainPc, shuttingDown, sendPc>>
        /\ pc[w] = "requeue" /\ NotifyOne(p, pc')
    BY <1>11 DEF Requeue, EnqueueReady, actorVars, sendVars
  <2>2. p \in [Workers -> WorkerPcs] /\ p[w] = "pop" /\ \A v \in Workers \ {w} : p[v] = pc[v]
    BY DEF WorkerPcs
  <2> HIDE DEF p
  <2>3. \A v \in Workers : pc'[v] = p[v] \/ (pc'[v] = "park" /\ pc[v] = "blocked")
    <3>1. p \in [Workers -> WorkerPcs] /\ NotifyOne(p, pc')
      BY <2>1, <2>2
    <3> HIDE DEF TypeOK, TurnTypes, SendTypes
    <3> QED
      BY <3>1, NotifyOneEffect
  <2>4. /\ pc'[w] = "pop"
        /\ \A v \in Workers \ {w} : pc'[v] = pc[v] \/ (pc[v] = "blocked" /\ pc'[v] = "park")
    BY <2>1, <2>2, <2>3
  <2>5. sendPc[w] = "idle"
    BY <2>1 DEF ExitInv
  <2> QED
    BY <2>1, <2>4, <2>5, ExitByWorker
<1>12. ASSUME NEW w \in Workers, FlushRelease(w) PROVE ExitInv'
  BY <1>12 DEF FlushRelease, queueVars, sendVars, ExitInv, AnyReady
<1>13. CASE ShutdownFlag
  <2>1. /\ UNCHANGED <<started, owners, issued, ready, pc, sendPc>>
        /\ mainPc = "running" /\ \A c \in Clients : sendPc[c] = "idle"
        /\ mainPc' # "running" /\ (started => mainPc' # "done")
    BY <1>13 DEF ShutdownFlag, actorVars, sendVars
  <2> QED
    BY <2>1 DEF ExitInv, AnyReady
<1>14. CASE ShutdownNotify
  <2>1. /\ UNCHANGED <<started, owners, issued, ready, shuttingDown, sendPc>>
        /\ mainPc = "notify" /\ mainPc' = "join"
        /\ \A v \in Workers : pc'[v] = IF pc[v] = "blocked" THEN "park" ELSE pc[v]
    BY <1>14 DEF ShutdownNotify, actorVars, queueVars, sendVars
  <2> QED
    BY <2>1 DEF ExitInv, AnyReady
<1>15. CASE ShutdownJoin
  <2>1. /\ UNCHANGED <<started, owners, issued, ready, shuttingDown, pc, sendPc>>
        /\ mainPc = "join" /\ mainPc' = "done" /\ \A w \in Workers : pc[w] = "exited"
    BY <1>15 DEF ShutdownJoin, actorVars, queueVars, sendVars
  <2> QED
    BY <2>1 DEF ExitInv, AnyReady
<1>16. CASE UNCHANGED vars
  BY <1>16 DEF vars, actorVars, queueVars, sendVars, ExitInv, AnyReady
<1> QED
  BY <1>1, <1>2, <1>3, <1>4, <1>5, <1>6, <1>7, <1>8, <1>9, <1>10, <1>11, <1>12, <1>13,
     <1>14, <1>15, <1>16, PrimBandFacts DEF Next, SendStep, WorkerStep, ShutdownStep, Terminated

\* Empty mailboxes and no taken batch: no message waits.
LEMMA NothingPending ==
    ASSUME TurnInv,
           \A a \in Actors, b \in Bands : mailbox[a][b] = <<>> /\ Held(a, b) = <<>>
    PROVE  \A m : ~Holds(Pending, m)
<1>1. \A a \in Actors, b \in Bands : Pending[a][b] = <<>>
  <2>1. <<>> \o <<>> = <<>>
    BY ConcatEmptySeq, EmptySeq
  <2> QED
    BY <2>1, PendingType
<1>2. \A a \in Actors, b \in Bands : Len(Pending[a][b]) = 0
  BY <1>1
<1> QED
  BY <1>2 DEF Holds

\* Shutdown leaves nothing undone: when it has returned, every message sent has
\* been handled, the ones that handlers sent meanwhile included, if no load
\* overtakes the release of a claim (ActorScheduler::shutdown, "Join all workers,
\* after draining").
THEOREM DrainedAtExitTheorem ==
    ASSUME ~StoreBuffering
    PROVE  Spec => []DrainedAtExit
<1>1. Spec => [](TurnInv /\ MessageInv)
  BY TurnInit, TurnStep, MessageInit, MessageStep, PTL DEF Spec
<1>2. Spec => []ExitInv
  <2>1. TypeOK /\ ExitInv /\ [Next]_vars => ExitInv'
    BY ExitStep
  <2> QED
    BY <2>1, ExitInit, TypeCorrect, PTL DEF Spec
<1>3. Spec => []NoStrandedMessage
  BY NothingStranded
<1>4. TurnInv /\ MessageInv /\ ExitInv /\ NoStrandedMessage => DrainedAtExit
  <2> SUFFICES ASSUME TurnInv, MessageInv, ExitInv, NoStrandedMessage, mainPc = "done"
               PROVE  issued = realized
    BY DEF DrainedAtExit
  <2>1. CASE ~started
    BY <2>1 DEF ExitInv, MessageInv
  <2>2. CASE started
    <3>1. /\ \A w \in Workers : pc[w] = "exited"
          /\ \A t \in Threads : sendPc[t] = "idle"
          /\ \A b \in Bands : ready[b] = <<>>
      BY <2>2 DEF ExitInv, Threads, AnyReady
    <3>2. \A a \in Actors, b \in Bands : ~WillBeSeen(a, b)
      <4>1. \A b \in Bands : Len(ready[b]) = 0
        BY <3>1
      <4> QED
        BY <3>1, <4>1 DEF WillBeSeen, QueuedIn, WillSchedule, WillCheck, InTurn
    <3>3. \A a \in Actors, b \in Bands : mailbox[a][b] = <<>> /\ Held(a, b) = <<>>
      BY <3>1, <3>2, HeldByNone DEF NoStrandedMessage, InTurn
    <3>6. \A m : ~Holds(Pending, m)
      BY <3>3, NothingPending
    <3> QED
      BY <3>1, <3>6 DEF MessageInv
  <2> QED
    BY <2>1, <2>2
<1> QED
  BY <1>1, <1>2, <1>3, <1>4, PTL

-----------------------------------------------------------------------------
(* No worker sleeps through work. *)

Lengths(r) == Len(r[0]) + Len(r[1]) + Len(r[2])

Total == Lengths(ready)

\* While a worker holds queueMtx_ on its way into the wait, nothing is queued.
SleepInv ==
    /\ \A w \in Workers : pc[w] = "sleep" => ~AnyReady
    /\ NoSleepThroughWork

\* Sets of workers can be counted.
LEMMA SeekersCounted ==
    /\ \A S \in SUBSET Workers : IsFiniteSet(S) /\ Cardinality(S) \in Nat
    /\ \A S \in SUBSET Workers : \A R \in SUBSET S : Cardinality(R) <= Cardinality(S)
<1>1. \A S \in SUBSET Workers : IsFiniteSet(S)
  BY PoolAssumption, FS_Subset
<1> QED
  BY <1>1, FS_Subset, FS_CardinalityType

\* The ready queues together are empty when each of them is.
LEMMA NothingReady ==
    ASSUME TypeOK
    PROVE  Total \in Nat /\ (~AnyReady => Total = 0)
<1>1. 0 \in Bands /\ 1 \in Bands /\ 2 \in Bands
  BY DEF Bands
<1>2. \A b \in Bands : ready[b] \in Seq(Actors)
  BY DEF TypeOK, QueueTypes
<1>3. \A b \in Bands : Len(ready[b]) \in Nat /\ (ready[b] = <<>> => Len(ready[b]) = 0)
  BY <1>2
<1>4. /\ Len(ready[0]) \in Nat /\ Len(ready[1]) \in Nat /\ Len(ready[2]) \in Nat
      /\ ~AnyReady => Len(ready[0]) = 0 /\ Len(ready[1]) = 0 /\ Len(ready[2]) = 0
  BY <1>1, <1>3 DEF AnyReady
<1>5. PICK x \in Nat, y \in Nat, z \in Nat :
        x = Len(ready[0]) /\ y = Len(ready[1]) /\ z = Len(ready[2])
  BY <1>4
<1>6. Total = x + y + z
  BY <1>5, Zenon DEF Total, Lengths
<1>7. x + y + z \in Nat /\ (x = 0 /\ y = 0 /\ z = 0 => x + y + z = 0)
  OBVIOUS
<1> QED
  BY <1>4, <1>5, <1>6, <1>7, Zenon

\* Queues of which one is replaced.
LEMMA LengthsUpdate ==
    ASSUME NEW r \in [Bands -> Seq(Actors)], NEW b \in Bands, NEW s \in Seq(Actors)
    PROVE  Lengths([r EXCEPT ![b] = s]) = Lengths(r) + Len(s) - Len(r[b])
<1>1. 0 \in Bands /\ 1 \in Bands /\ 2 \in Bands /\ (b = 0 \/ b = 1 \/ b = 2)
  BY DEF Bands
<1>2. PICK x \in Nat, y \in Nat, z \in Nat, n \in Nat :
        x = Len(r[0]) /\ y = Len(r[1]) /\ z = Len(r[2]) /\ n = Len(s)
  BY <1>1
<1>3. Lengths(r) = x + y + z
  BY <1>2, Zenon DEF Lengths
<1> DEFINE q == [r EXCEPT ![b] = s]
<1>4. \A c \in Bands : q[c] = IF c = b THEN s ELSE r[c]
  OBVIOUS
<1> HIDE DEF q
<1>5. CASE b = 0
  <2>1. q[0] = s /\ q[1] = r[1] /\ q[2] = r[2]
    BY <1>1, <1>4, <1>5
  <2>2. Lengths(q) = n + y + z
    BY <2>1, <1>2, Zenon DEF Lengths
  <2>3. n + y + z = x + y + z + n - x
    OBVIOUS
  <2> QED
    BY <1>2, <1>3, <1>5, <2>2, <2>3, Zenon DEF q
<1>6. CASE b = 1
  <2>1. q[0] = r[0] /\ q[1] = s /\ q[2] = r[2]
    BY <1>1, <1>4, <1>6
  <2>2. Lengths(q) = x + n + z
    BY <2>1, <1>2, Zenon DEF Lengths
  <2>3. x + n + z = x + y + z + n - y
    OBVIOUS
  <2> QED
    BY <1>2, <1>3, <1>6, <2>2, <2>3, Zenon DEF q
<1>7. CASE b = 2
  <2>1. q[0] = r[0] /\ q[1] = r[1] /\ q[2] = s
    BY <1>1, <1>4, <1>7
  <2>2. Lengths(q) = x + y + n
    BY <2>1, <1>2, Zenon DEF Lengths
  <2>3. x + y + n = x + y + z + n - z
    OBVIOUS
  <2> QED
    BY <1>2, <1>3, <1>7, <2>2, <2>3, Zenon DEF q
<1> QED
  BY <1>1, <1>5, <1>6, <1>7

\* At the start nobody sleeps.
LEMMA SleepInit == Init => SleepInv
  BY DEF Init, SleepInv, NoSleepThroughWork, Blocked

\* Steps that leave the queues alone, put no worker to sleep and call none
\* away from the queues.
LEMMA SleepFrame ==
    ASSUME TypeOK, SleepInv, ready' = ready,
           \A w \in Workers : pc'[w] \in {"sleep", "blocked"} => pc'[w] = pc[w],
           \A w \in Workers : pc[w] \in {"pop", "park"} => pc'[w] \in {"pop", "park"}
    PROVE  SleepInv'
<1>1. \A w \in Workers : pc'[w] = "sleep" => ~AnyReady'
  BY DEF SleepInv, AnyReady
<1>2. Seekers \in SUBSET Seekers' /\ Seekers' \in SUBSET Workers
  BY DEF Seekers
<1>3. Cardinality(Seekers) <= Cardinality(Seekers')
  BY <1>2, SeekersCounted
<1>4. Cardinality(Seekers) \in Nat /\ Cardinality(Seekers') \in Nat
  BY <1>2, SeekersCounted
<1>5. Total' = Total
  BY DEF Total, Lengths
<1>6. Blocked' # {} => Blocked # {}
  BY DEF Blocked
<1>7. Blocked # {} => Total <= Cardinality(Seekers)
  BY DEF SleepInv, NoSleepThroughWork, Total, Lengths
<1>8. Blocked' # {} => Total' <= Cardinality(Seekers')
  BY <1>3, <1>4, <1>5, <1>6, <1>7, NothingReady
<1> QED
  BY <1>1, <1>8 DEF SleepInv, NoSleepThroughWork, Total, Lengths

\* enqueueReady_ adds one ready actor and, if a worker is blocked, one worker
\* on its way to the queues; q is what the caller makes of the counters.
LEMMA SleepEnqueue ==
    ASSUME TypeOK, SleepInv, NEW a, NEW b \in Bands, NEW q \in [Workers -> WorkerPcs],
           EnqueueReady(a, b, q), a \in Actors,
           \A w \in Workers : q[w] = pc[w] \/ (q[w] = "pop" /\ pc[w] = "requeue")
    PROVE  SleepInv'
<1>1. \A w \in Workers : q[w] # "sleep"
  BY DEF EnqueueReady, QueueLocked
<1>2. CASE Blocked = {} /\ pc' = q
  BY <1>1, <1>2 DEF SleepInv, NoSleepThroughWork, Blocked
<1>3. ASSUME NEW v \in Blocked, pc' = [q EXCEPT ![v] = "park"]
      PROVE  SleepInv'
  <2>1. v \in Workers /\ pc[v] = "blocked" /\ v \notin Seekers
    BY DEF Blocked, Seekers
  <2>2. \A w \in Workers : pc'[w] = IF w = v THEN "park" ELSE q[w]
    BY <1>3, <2>1
  <2>3. \A w \in Workers : pc'[w] # "sleep"
    BY <1>1, <2>2
  <2>4. Seekers \cup {v} \in SUBSET Seekers' /\ Seekers' \in SUBSET Workers /\ Seekers \in SUBSET Workers
    BY <2>1, <2>2 DEF Seekers
  <2>5. Cardinality(Seekers \cup {v}) = Cardinality(Seekers) + 1
    BY <2>1, <2>4, SeekersCounted, FS_AddElement
  <2>6. Cardinality(Seekers \cup {v}) <= Cardinality(Seekers')
    BY <2>4, SeekersCounted
  <2>7. Cardinality(Seekers) \in Nat /\ Cardinality(Seekers') \in Nat
    BY <2>4, SeekersCounted
  <2>8. Total' = Total + 1
    <3>1. ready \in [Bands -> Seq(Actors)] /\ ready' = [ready EXCEPT ![b] = Append(@, a)]
      BY DEF TypeOK, QueueTypes, EnqueueReady
    <3>2. Append(ready[b], a) \in Seq(Actors) /\ Len(Append(ready[b], a)) = Len(ready[b]) + 1
      BY <3>1
    <3>3. Total' = Total + Len(Append(ready[b], a)) - Len(ready[b])
      BY <3>1, <3>2, LengthsUpdate DEF Total
    <3>4. Len(ready[b]) \in Nat /\ Total \in Nat
      BY <3>1, NothingReady
    <3> QED
      BY <3>2, <3>3, <3>4
  <2>9. Total \in Nat /\ Total <= Cardinality(Seekers)
    BY <2>1, NothingReady DEF SleepInv, NoSleepThroughWork, Total, Lengths
  <2>10. Total' <= Cardinality(Seekers')
    BY <2>5, <2>6, <2>7, <2>8, <2>9
  <2> QED
    BY <2>3, <2>10 DEF SleepInv, NoSleepThroughWork, Total, Lengths
<1> QED
  BY <1>2, <1>3 DEF EnqueueReady, NotifyOne

\* A worker that takes an actor off the queues is one seeker and one ready
\* actor less; one that finds nothing leaves the queues empty.
LEMMA SleepPop ==
    ASSUME TypeOK, SleepInv, NEW w \in Workers, PopReady(w)
    PROVE  SleepInv'
<1>1. /\ pc[w] = "pop" /\ \A v \in Workers : pc[v] # "sleep"
      /\ pc \in [Workers -> WorkerPcs] /\ ready \in [Bands -> Seq(Actors)]
  BY DEF PopReady, QueueLocked, TypeOK, TurnTypes, QueueTypes
<1>2. CASE AnyReady
  <2>1. PICK b \in Bands : /\ ready[b] # <<>> /\ ready' = [ready EXCEPT ![b] = Tail(@)]
                           /\ pc' = [pc EXCEPT ![w] = "take"]
    BY <1>2 DEF PopReady
  <2>2. /\ \A v \in Workers : pc'[v] = IF v = w THEN "take" ELSE pc[v]
        /\ w \in Seekers /\ Seekers \in SUBSET Workers
    BY <1>1, <2>1 DEF Seekers
  <2>3. Seekers' = Seekers \ {w} /\ Blocked' = Blocked
    BY <1>1, <2>2 DEF Seekers, Blocked
  <2>4. Cardinality(Seekers') = Cardinality(Seekers) - 1
    BY <2>2, <2>3, SeekersCounted, FS_RemoveElement
  <2>5. Cardinality(Seekers) \in Nat
    BY <2>2, SeekersCounted
  <2>6. Total' = Total - 1
    <3>1. /\ Tail(ready[b]) \in Seq(Actors) /\ Len(ready[b]) \in Nat
          /\ Len(Tail(ready[b])) = Len(ready[b]) - 1
      BY <1>1, <2>1
    <3>2. Total' = Total + Len(Tail(ready[b])) - Len(ready[b])
      BY <1>1, <2>1, <3>1, LengthsUpdate DEF Total
    <3> QED
      BY <3>1, <3>2, NothingReady
  <2>7. Total \in Nat
    BY NothingReady
  <2>8. Blocked # {} => Total <= Cardinality(Seekers)
    BY DEF SleepInv, NoSleepThroughWork, Total, Lengths
  <2>9. Blocked' # {} => Total' <= Cardinality(Seekers')
    BY <2>3, <2>4, <2>5, <2>6, <2>7, <2>8
  <2>10. \A v \in Workers : pc'[v] # "sleep"
    BY <1>1, <2>2
  <2> QED
    BY <2>9, <2>10 DEF SleepInv, NoSleepThroughWork, Total, Lengths
<1>3. CASE ~AnyReady
  <2>1. ready' = ready /\ ~AnyReady'
    BY <1>3 DEF PopReady, AnyReady
  <2>2. Total = 0 /\ Total' = Total
    BY <1>3, <2>1, NothingReady DEF Total, Lengths
  <2>3. Seekers' \in SUBSET Workers
    BY DEF Seekers
  <2>4. Cardinality(Seekers') \in Nat
    BY <2>3, SeekersCounted
  <2>5. Total' <= Cardinality(Seekers')
    BY <2>2, <2>4
  <2> QED
    BY <2>1, <2>5 DEF SleepInv, NoSleepThroughWork, Total, Lengths
<1> QED
  BY <1>2, <1>3

\* A worker goes to sleep, or to block, on empty queues.
LEMMA SleepOnNothing ==
    ASSUME TypeOK, SleepInv, ~AnyReady, ready' = ready
    PROVE  SleepInv'
<1>1. ~AnyReady'
  BY DEF AnyReady
<1>2. Total' = 0
  BY NothingReady DEF Total, Lengths
<1>3. Seekers' \in SUBSET Workers
  BY DEF Seekers
<1>4. Cardinality(Seekers') \in Nat
  BY <1>3, SeekersCounted
<1>5. Total' <= Cardinality(Seekers')
  BY <1>2, <1>4
<1> QED
  BY <1>1, <1>5 DEF SleepInv, NoSleepThroughWork, Total, Lengths

\* A worker that was nowhere near the queues and does not go to sleep.
LEMMA SleepByWorker ==
    ASSUME TypeOK, SleepInv, ready' = ready, NEW w \in Workers, NEW p,
           pc[w] \notin {"pop", "park"}, p \notin {"sleep", "blocked"},
           pc' = [pc EXCEPT ![w] = p]
    PROVE  SleepInv'
<1>1. pc \in [Workers -> WorkerPcs]
  BY DEF TypeOK, TurnTypes
<1>2. \A v \in Workers : pc'[v] = IF v = w THEN p ELSE pc[v]
  BY <1>1
<1> QED
  BY <1>2, SleepFrame

\* Every enqueue wakes a sleeper if there is one, and every worker looks at the
\* queues under the lock before it sleeps.
LEMMA SleepStep ==
    ASSUME TypeOK, SleepInv, [Next]_vars
    PROVE  SleepInv'
<1>1. ASSUME NEW t \in Threads, SendClaim(t) PROVE SleepInv'
  BY <1>1, SleepFrame DEF SendClaim, queueVars
<1>2. ASSUME NEW t \in Threads, SendEnqueue(t) PROVE SleepInv'
  <2>1. /\ dst[t] \in Actors /\ dstBand[t] \in Bands
        /\ pc \in [Workers -> WorkerPcs] /\ EnqueueReady(dst[t], dstBand[t], pc)
    BY <1>2 DEF SendEnqueue, TypeOK, TurnTypes, SendTypes, LocalsSet
  <2> QED
    BY <2>1, SleepEnqueue
<1>3. ASSUME NEW t \in Threads, NEW a \in Actors, NewActor(t, a) PROVE SleepInv'
  BY <1>3, SleepFrame DEF NewActor, EnsureStarted
<1>4. ASSUME NEW t \in Threads, NEW a \in Actors, NEW b, NEW m, Push(t, a, b, m) PROVE SleepInv'
  BY <1>4, SleepFrame DEF Push, queueVars
<1>5. ASSUME NEW w \in Workers, PopReady(w) PROVE SleepInv'
  BY <1>5, SleepPop
<1>6. ASSUME NEW w \in Workers, EvalPredicate(w) PROVE SleepInv'
  <2>1. ready' = ready /\ pc[w] = "park" /\ pc \in [Workers -> WorkerPcs]
    BY <1>6 DEF EvalPredicate, queueVars, TypeOK, TurnTypes
  <2>2. CASE shuttingDown \/ AnyReady
    <3>1. pc' = [pc EXCEPT ![w] = "pop"]
      BY <1>6, <2>2 DEF EvalPredicate
    <3>2. \A v \in Workers : pc'[v] = IF v = w THEN "pop" ELSE pc[v]
      BY <2>1, <3>1
    <3> QED
      BY <2>1, <3>2, SleepFrame
  <2>3. CASE ~AnyReady
    BY <2>1, <2>3, SleepOnNothing
  <2> QED
    BY <2>2, <2>3
<1>7. ASSUME NEW w \in Workers, Block(w) PROVE SleepInv'
  BY <1>7, SleepOnNothing DEF Block, queueVars, SleepInv
<1>8. ASSUME NEW w \in Workers, SpuriousWakeup(w) PROVE SleepInv'
  BY <1>8, SleepByWorker DEF SpuriousWakeup, queueVars
<1>9. ASSUME NEW w \in Workers,
             TakeAll(w) \/ Invoke(w) \/ StoreValue(w) \/ HandlerReturns(w) \/ DeliverPromise(w)
      PROVE  SleepInv'
  <2>1. /\ ready' = ready /\ pc[w] \in {"take", "run", "handler", "store", "deliver"}
        /\ \E p \in {"take", "handler", "deliver", "run", "store"} :
             pc' = [pc EXCEPT ![w] = p]
    BY <1>9 DEF TakeAll, Invoke, StoreValue, HandlerReturns, DeliverPromise, queueVars,
                TypeOK, TurnTypes
  <2> QED
    BY <2>1, SleepByWorker
<1>10. ASSUME NEW w \in Workers, ReleaseClaim(w) \/ CheckMailbox(w) \/ Reclaim(w) \/ RankBand(w)
       PROVE  SleepInv'
  <2>1. /\ ready' = ready /\ pc[w] \in {"run", "check", "reclaim", "rank"}
        /\ \E p \in {"check", "reclaim", "rank", "pop", "requeue"} : pc' = [pc EXCEPT ![w] = p]
    BY <1>10 DEF ReleaseClaim, CheckMailbox, Reclaim, RankBand, queueVars, TypeOK, TurnTypes
  <2> QED
    BY <2>1, SleepByWorker
<1>11. ASSUME NEW w \in Workers, Requeue(w) PROVE SleepInv'
  <2> DEFINE q == [pc EXCEPT ![w] = "pop"]
  <2>1. /\ cur[w] \in Actors /\ idx[w] \in Bands /\ pc[w] = "requeue"
        /\ pc \in [Workers -> WorkerPcs] /\ EnqueueReady(cur[w], idx[w], q)
    BY <1>11 DEF Requeue, TypeOK, TurnTypes, LocalsSet
  <2>2. q \in [Workers -> WorkerPcs]
    BY <2>1 DEF WorkerPcs
  <2>3. \A v \in Workers : q[v] = pc[v] \/ (q[v] = "pop" /\ pc[v] = "requeue")
    BY <2>1
  <2> HIDE DEF q
  <2> QED
    BY <2>1, <2>2, <2>3, SleepEnqueue
<1>12. ASSUME NEW w \in Workers, FlushRelease(w) PROVE SleepInv'
  BY <1>12, SleepFrame DEF FlushRelease, queueVars
<1>13. CASE ShutdownFlag \/ ShutdownJoin \/ UNCHANGED vars
  <2>1. ready' = ready /\ pc' = pc
    BY <1>13 DEF ShutdownFlag, ShutdownJoin, vars, queueVars
  <2> QED
    BY <2>1, SleepFrame
<1>14. CASE ShutdownNotify
  BY <1>14, SleepFrame DEF ShutdownNotify, queueVars
<1> QED
  BY <1>1, <1>2, <1>3, <1>4, <1>5, <1>6, <1>7, <1>8, <1>9, <1>10, <1>11, <1>12, <1>13, <1>14
     DEF Next, SendStep, WorkerStep, ShutdownStep, Terminated

\* No worker sleeps through work: while one is blocked on the condition
\* variable, every ready actor has a worker of its own on the way to the queues,
\* so the single notify_one of enqueueReady_ loses no wakeup, whatever wakeups
\* are spurious and whichever blocked worker is notified.
THEOREM NoSleepTheorem == Spec => []NoSleepThroughWork
<1>1. TypeOK /\ SleepInv /\ [Next]_vars => SleepInv'
  BY SleepStep
<1>2. SleepInv => NoSleepThroughWork
  BY DEF SleepInv
<1> QED
  BY <1>1, <1>2, SleepInit, TypeCorrect, PTL DEF Spec
-----------------------------------------------------------------------------
(* A pool at rest. *)

\* No worker looks for work or has any, and nobody is in the middle of a send.
AtRest ==
    /\ \A w \in Workers : pc[w] \in {"unborn", "blocked", "exited"}
    /\ \A t \in Threads : sendPc[t] = "idle"

\* A pool at rest owes nothing.
RestMeansDone == AtRest => issued = realized

\* The first actor starts all the workers.
AllBorn == started => \A w \in Workers : pc[w] # "unborn"

\* No step takes a worker back to before its start.
LEMMA BornStep ==
    ASSUME TypeOK, AllBorn, [Next]_vars
    PROVE  AllBorn'
<1>0. pc \in [Workers -> WorkerPcs]
  BY DEF TypeOK, TurnTypes
<1>1. ASSUME NEW p \in [Workers -> WorkerPcs], NotifyOne(p, pc')
      PROVE  \A w \in Workers : pc'[w] = "unborn" => p[w] = "unborn"
  BY <1>1 DEF NotifyOne
<1>2. ASSUME NEW t \in Threads, NEW a \in Actors, NewActor(t, a)
      PROVE  AllBorn'
  BY <1>2 DEF NewActor, EnsureStarted, AllBorn
<1>3. ASSUME NEW t \in Threads, SendEnqueue(t)
      PROVE  AllBorn'
  <2>1. UNCHANGED started /\ NotifyOne(pc, pc')
    BY <1>3 DEF SendEnqueue, EnqueueReady
  <2>2. \A w \in Workers : pc'[w] = "unborn" => pc[w] = "unborn"
    BY <1>0, <1>1, <2>1
  <2> QED
    BY <2>1, <2>2 DEF AllBorn
<1>4. ASSUME NEW w \in Workers, Requeue(w)
      PROVE  AllBorn'
  <2>1. PICK p : p = [pc EXCEPT ![w] = "pop"]
    OBVIOUS
  <2>2. UNCHANGED started /\ NotifyOne(p, pc') /\ p \in [Workers -> WorkerPcs]
    BY <1>0, <1>4, <2>1 DEF Requeue, EnqueueReady, WorkerPcs
  <2>3. \A v \in Workers : pc'[v] = "unborn" => p[v] = "unborn"
    BY <1>1, <2>2
  <2>4. \A v \in Workers : p[v] = "unborn" => pc[v] = "unborn"
    BY <1>0, <2>1
  <2> QED
    BY <2>2, <2>3, <2>4 DEF AllBorn
<1>5. ASSUME NEW w \in Workers,
             \/ PopReady(w) \/ EvalPredicate(w) \/ Block(w) \/ SpuriousWakeup(w)
             \/ TakeAll(w) \/ Invoke(w) \/ HandlerReturns(w) \/ StoreValue(w)
      PROVE  AllBorn'
  BY <1>0, <1>5 DEF PopReady, EvalPredicate, Block, SpuriousWakeup, TakeAll, Invoke,
     HandlerReturns, StoreValue, queueVars, AllBorn
<1>6. ASSUME NEW w \in Workers,
             \/ DeliverPromise(w) \/ ReleaseClaim(w) \/ FlushRelease(w)
             \/ CheckMailbox(w) \/ Reclaim(w) \/ RankBand(w)
      PROVE  AllBorn'
  BY <1>0, <1>6 DEF DeliverPromise, ReleaseClaim, FlushRelease, CheckMailbox, Reclaim,
     RankBand, queueVars, AllBorn
<1>7. ASSUME NEW t \in Threads, SendClaim(t) \/ \E a \in Actors, b \in Bands, m \in Messages : Push(t, a, b, m)
      PROVE  AllBorn'
  BY <1>7 DEF SendClaim, Push, queueVars, AllBorn
<1>8. CASE ShutdownFlag \/ ShutdownNotify \/ ShutdownJoin \/ UNCHANGED vars
  BY <1>0, <1>8 DEF ShutdownFlag, ShutdownNotify, ShutdownJoin, vars, queueVars, AllBorn
<1> QED
  BY <1>2, <1>3, <1>4, <1>5, <1>6, <1>7, <1>8, PrimBandFacts
     DEF Next, SendStep, WorkerStep, ShutdownStep, Terminated

\* Workers at rest leave no actor in the ready queues: a blocked one sleeps through no
\* work, and the last one to end found them empty.
LEMMA RestIsIdle ==
    ASSUME TypeOK, SleepInv, ExitInv, AllBorn, AtRest, started
    PROVE  \A b \in Bands : ready[b] = <<>>
<1>1. CASE Blocked = {}
  <2>1. \A w \in Workers : pc[w] = "exited"
    BY <1>1 DEF AtRest, AllBorn, Blocked
  <2> QED
    BY <2>1 DEF ExitInv, AnyReady
<1>2. CASE Blocked # {}
  <2>1. Seekers = {}
    BY DEF AtRest, Seekers
  <2>2. Len(ready[0]) + Len(ready[1]) + Len(ready[2]) <= 0
    BY <1>2, <2>1, FS_EmptySet DEF SleepInv, NoSleepThroughWork
  <2>3. \A b \in Bands : ready[b] \in Seq(Actors) /\ Len(ready[b]) \in Nat
    BY DEF TypeOK, QueueTypes
  <2>4. 0 \in Bands /\ 1 \in Bands /\ 2 \in Bands /\ Bands = {0, 1, 2}
    BY DEF Bands
  <2>5. Len(ready[0]) \in Nat /\ Len(ready[1]) \in Nat /\ Len(ready[2]) \in Nat
    BY <2>3, <2>4
  <2>6. Len(ready[0]) = 0 /\ Len(ready[1]) = 0 /\ Len(ready[2]) = 0
    <3>1. PICK x \in Nat, y \in Nat, z \in Nat :
            x = Len(ready[0]) /\ y = Len(ready[1]) /\ z = Len(ready[2])
      BY <2>5
    <3>2. x + y + z <= 0
      BY <2>2, <3>1
    <3>3. x = 0 /\ y = 0 /\ z = 0
      BY ONLY <3>2
    <3> QED
      BY <3>1, <3>3
  <2>7. \A b \in Bands : Len(ready[b]) = 0
    BY <2>4, <2>6
  <2> QED
    BY <2>3, <2>7, EmptySeq
<1> QED
  BY <1>1, <1>2

\* Nothing is forgotten: whenever every worker is blocked, ended or not started and no
\* send is under way, every message sent has been handled and its promise delivered
\* (send, workerLoop, popReady_), if no load overtakes the release of a claim.  It covers
\* the pool whose shutdown hangs because a worker missed the notify_all.
THEOREM RestMeansDoneTheorem ==
    ASSUME ~StoreBuffering
    PROVE  Spec => []RestMeansDone
<1>1. Spec => [](TurnInv /\ MessageInv)
  BY TurnInit, TurnStep, MessageInit, MessageStep, PTL DEF Spec
<1>2. Spec => [](ExitInv /\ SleepInv)
  <2>1. TypeOK /\ ExitInv /\ [Next]_vars => ExitInv'
    BY ExitStep
  <2>2. TypeOK /\ SleepInv /\ [Next]_vars => SleepInv'
    BY SleepStep
  <2> QED
    BY <2>1, <2>2, ExitInit, SleepInit, TypeCorrect, PTL DEF Spec
<1>3. Spec => []AllBorn
  <2>1. TypeOK /\ AllBorn /\ [Next]_vars => AllBorn'
    BY BornStep
  <2>2. Init => AllBorn
    BY DEF Init, AllBorn
  <2> QED
    BY <2>1, <2>2, TypeCorrect, PTL DEF Spec
<1>4. Spec => []NoStrandedMessage
  BY NothingStranded
<1>5. TurnInv /\ MessageInv /\ ExitInv /\ SleepInv /\ AllBorn /\ NoStrandedMessage => RestMeansDone
  <2> SUFFICES ASSUME TurnInv, MessageInv, ExitInv, SleepInv, AllBorn, NoStrandedMessage, AtRest
               PROVE  issued = realized
    BY DEF RestMeansDone
  <2>1. CASE ~started
    BY <2>1 DEF ExitInv, MessageInv
  <2>2. CASE started
    <3>1. \A b \in Bands : ready[b] = <<>>
      BY <2>2, RestIsIdle DEF TurnInv
    <3>2. \A b \in Bands : Len(ready[b]) = 0
      BY <3>1
    <3>3. \A a \in Actors, b \in Bands : ~WillBeSeen(a, b)
      BY <3>2 DEF AtRest, WillBeSeen, QueuedIn, WillSchedule, WillCheck, InTurn
    <3>4. \A w \in Workers : ~InTurn(w) /\ pc[w] # "deliver"
      BY DEF AtRest, InTurn
    <3>5. \A a \in Actors, b \in Bands : mailbox[a][b] = <<>> /\ Held(a, b) = <<>>
      BY <3>3, <3>4, HeldByNone DEF NoStrandedMessage
    <3>6. \A m : ~Holds(Pending, m)
      BY <3>5, NothingPending
    <3> QED
      BY <3>4, <3>6 DEF MessageInv
  <2> QED
    BY <2>1, <2>2
<1> QED
  BY <1>1, <1>2, <1>3, <1>4, <1>5, PTL
=============================================================================
