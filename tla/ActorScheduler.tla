--------------------------- MODULE ActorScheduler ---------------------------
(***************************************************************************)
(* The actor worker pool (src/src/runtime/ActorScheduler.cpp) and the      *)
(* primitives that feed it (actor, send, send-h, send-m, send-l in         *)
(* src/src/runtime/Primitives.cpp).                                        *)
(*                                                                         *)
(* A step of the model is one access to memory that another thread can     *)
(* touch: a push on a mailbox, a compare-and-set of `claimed', a critical  *)
(* section of queueMtx_, one takeAll, one isEmpty.  A handler is opaque    *)
(* code that may send messages and create actors, and that returns or      *)
(* throws.  The state of an actor is the sequence of messages folded into  *)
(* it since it was last nil.                                               *)
(***************************************************************************)
EXTENDS Integers, Sequences, FiniteSets

CONSTANTS
    Actors,         \* the actors a program may create
    Workers,        \* the worker threads of the pool
    Clients,        \* the threads that are not workers: main and futures
    Messages,       \* the sends a program makes, each at most once
    NoActor, NoMsg, \* "none" for an actor and for a message
    StoreBuffering  \* may a later load overtake claimed.store(false, release)?

ASSUME ThreadsAssumption ==
    /\ Clients \cap Workers = {}
    /\ NoActor \notin Actors
    /\ NoMsg \notin Messages
    /\ StoreBuffering \in BOOLEAN

\* configuredWorkerCount: between 1 and 64 workers.
ASSUME PoolAssumption == Workers # {} /\ IsFiniteSet(Workers)

Threads == Clients \cup Workers

\* enum class ActorPriority: High = 0, Medium = 1, Low = 2.
Bands == 0..2

VARIABLES
    started,        \* started_ (the workers exist)
    owners,         \* owners_: the actors created so far
    mailbox,        \* mailbox[a][b]: the ProtoMPSCQueue of one band, oldest first
    claimed,        \* claimed[a]
    value,          \* value[a], mirrored in the wrapper's __value__
    ready,          \* ready_[b]: queues of actors, under queueMtx_
    shuttingDown,   \* shuttingDown_
    messagesProcessed,
    pc,             \* pc[w]: where worker w is in workerLoop
    cur,            \* cur[w]: the local `actor'
    idx,            \* idx[w]: the local `band' of the loop w is in
    batch,          \* batch[w][b]: the part of a taken batch not yet stored
    msg,            \* msg[w]: the message being handled
    res,            \* res[w]: buf[0], then `result'
    storeBuf,       \* storeBuf[w]: claimed.store(false) not yet visible
    sendPc,         \* sendPc[t]: where thread t is in send
    dst, dstBand,   \* the local `actor' and `band' of that send
    issued,         \* the messages pushed so far
    realized,       \* the messages whose promise holds a value
    mainPc          \* where the main thread is in shutdown

actorVars == <<owners, mailbox, claimed, value, issued, realized>>
queueVars == <<started, ready, shuttingDown, messagesProcessed>>
turnVars  == <<cur, idx, batch, msg, res, storeBuf>>
sendVars  == <<sendPc, dst, dstBand>>
vars == <<actorVars, queueVars, turnVars, sendVars, pc, mainPc>>

EmptyBatch == [b \in Bands |-> <<>>]

Init ==
    /\ started = FALSE
    /\ owners = {}
    /\ mailbox = [a \in Actors |-> EmptyBatch]
    /\ claimed = [a \in Actors |-> FALSE]
    /\ value = [a \in Actors |-> <<>>]
    /\ ready = [b \in Bands |-> <<>>]
    /\ shuttingDown = FALSE
    /\ messagesProcessed = 0
    /\ pc = [w \in Workers |-> "unborn"]
    /\ cur = [w \in Workers |-> NoActor]
    /\ idx = [w \in Workers |-> 0]
    /\ batch = [w \in Workers |-> EmptyBatch]
    /\ msg = [w \in Workers |-> NoMsg]
    /\ res = [w \in Workers |-> <<>>]
    /\ storeBuf = [w \in Workers |-> FALSE]
    /\ sendPc = [t \in Threads |-> "idle"]
    /\ dst = [t \in Threads |-> NoActor]
    /\ dstBand = [t \in Threads |-> 0]
    /\ issued = {}
    /\ realized = {}
    /\ mainPc = "running"

-----------------------------------------------------------------------------
(* The ready queues and their condition variable. *)

\* queueMtx_ is held across a step only by a worker that has found the
\* predicate of queueCv_.wait false and is about to block.
QueueLocked == \E w \in Workers : pc[w] = "sleep"

AnyReady == \E b \in Bands : ready[b] # <<>>

Blocked == {w \in Workers : pc[w] = "blocked"}

\* What notify_one does to the worker program counters: one blocked worker,
\* whichever, goes back to evaluating the predicate.
NotifyOne(p, q) ==
    \/ Blocked = {} /\ q = p
    \/ \E w \in Blocked : q = [p EXCEPT ![w] = "park"]

\* enqueueReady_ forgets its notify_one.
Mutant_NoNotify(a, b, p) ==
    /\ ~QueueLocked
    /\ ready' = [ready EXCEPT ![b] = Append(@, a)]
    /\ pc' = p

\* enqueueReady_, run by a thread that leaves the program counters as p.
EnqueueReady(a, b, p) ==
    /\ ~QueueLocked
    /\ ready' = [ready EXCEPT ![b] = Append(@, a)]
    /\ NotifyOne(p, pc')

-----------------------------------------------------------------------------
(* What any thread running Clojure code can do. *)

\* Main and the futures run until the shutdown, which starts after the
\* futures were joined; a worker runs Clojure code inside a handler.
RunsClojure(t) ==
    /\ sendPc[t] = "idle"
    /\ \/ t \in Clients /\ mainPc = "running"
       \/ t \in Workers /\ pc[t] = "handler"

\* The first actor starts the workers, once; a worker that has not run yet is
\* one that is about to look at the queues.
EnsureStarted ==
    /\ started' = TRUE
    /\ pc' = [w \in Workers |-> IF pc[w] = "unborn" THEN "pop" ELSE pc[w]]

\* ActorScheduler::newActor; the state of a new actor is the model's <<>>.
NewOwner(a) ==
    /\ a \in Actors \ owners
    /\ owners' = owners \cup {a}

\* prim_actor.
NewActor(t, a) ==
    /\ RunsClojure(t)
    /\ EnsureStarted
    /\ NewOwner(a)
    /\ UNCHANGED <<mailbox, claimed, value, issued, realized, ready,
                   shuttingDown, messagesProcessed, turnVars, sendVars, mainPc>>

\* The priority band of each primitive.
PrimBand == [send |-> 1, send_h |-> 0, send_m |-> 1, send_l |-> 2]

\* sendCore up to and including the push of ActorScheduler::send.
Push(t, a, b, m) ==
    /\ RunsClojure(t)
    /\ a \in owners
    /\ m \notin issued
    /\ mailbox' = [mailbox EXCEPT ![a][b] = Append(@, m)]
    /\ issued' = issued \cup {m}
    /\ sendPc' = [sendPc EXCEPT ![t] = "claim"]
    /\ dst' = [dst EXCEPT ![t] = a]
    /\ dstBand' = [dstBand EXCEPT ![t] = b]
    /\ UNCHANGED <<owners, claimed, value, realized, queueVars, turnVars, pc, mainPc>>

\* A send that forgets its actor before it has queued it.
Mutant_ForgetActor(t) ==
    /\ sendPc[t] = "claim"
    /\ claimed' = [claimed EXCEPT ![dst[t]] = TRUE]
    /\ sendPc' = [sendPc EXCEPT ![t] = IF claimed[dst[t]] THEN "idle" ELSE "enqueue"]
    /\ dst' = [dst EXCEPT ![t] = NoActor]
    /\ UNCHANGED <<dstBand, owners, mailbox, value, issued, realized,
                   queueVars, turnVars, pc, mainPc>>

\* The compare-and-set of `claimed' in send.
SendClaim(t) ==
    /\ sendPc[t] = "claim"
    /\ claimed' = [claimed EXCEPT ![dst[t]] = TRUE]
    /\ IF claimed[dst[t]]
         THEN /\ sendPc' = [sendPc EXCEPT ![t] = "idle"]
              /\ dst' = [dst EXCEPT ![t] = NoActor]
              /\ dstBand' = [dstBand EXCEPT ![t] = 0]
         ELSE /\ sendPc' = [sendPc EXCEPT ![t] = "enqueue"]
              /\ UNCHANGED <<dst, dstBand>>
    /\ UNCHANGED <<owners, mailbox, value, issued, realized, queueVars,
                   turnVars, pc, mainPc>>

\* The enqueueReady_ of a send that won the claim.
SendEnqueue(t) ==
    /\ sendPc[t] = "enqueue"
    /\ EnqueueReady(dst[t], dstBand[t], pc)
    /\ sendPc' = [sendPc EXCEPT ![t] = "idle"]
    /\ dst' = [dst EXCEPT ![t] = NoActor]
    /\ dstBand' = [dstBand EXCEPT ![t] = 0]
    /\ UNCHANGED <<actorVars, started, shuttingDown, messagesProcessed,
                   turnVars, mainPc>>

-----------------------------------------------------------------------------
(* popReady_. *)

\* The first critical section: the front of the highest non-empty band, or
\* the end of the worker, or on to the wait.
PopReady(w) ==
    /\ pc[w] = "pop"
    /\ ~QueueLocked
    /\ ~storeBuf[w]
    /\ IF AnyReady
         THEN \E b \in Bands :
                /\ ready[b] # <<>>
                /\ \A h \in Bands : h < b => ready[h] = <<>>
                /\ cur' = [cur EXCEPT ![w] = Head(ready[b])]
                /\ ready' = [ready EXCEPT ![b] = Tail(@)]
                /\ pc' = [pc EXCEPT ![w] = "take"]
         ELSE /\ pc' = [pc EXCEPT ![w] = IF shuttingDown THEN "exited" ELSE "park"]
              /\ cur' = [cur EXCEPT ![w] = NoActor]
              /\ UNCHANGED ready
    /\ UNCHANGED <<actorVars, started, shuttingDown, messagesProcessed,
                   idx, batch, msg, res, storeBuf, sendVars, mainPc>>

\* The wait does not look at the queues before it blocks.
Mutant_ParkBlind(w) ==
    /\ pc[w] = "park"
    /\ ~QueueLocked
    /\ pc' = [pc EXCEPT ![w] = IF shuttingDown THEN "pop" ELSE "sleep"]
    /\ UNCHANGED <<actorVars, queueVars, turnVars, sendVars, mainPc>>

\* queueCv_.wait takes the lock and evaluates its predicate.
EvalPredicate(w) ==
    /\ pc[w] = "park"
    /\ ~QueueLocked
    /\ pc' = [pc EXCEPT ![w] = IF shuttingDown \/ AnyReady THEN "pop" ELSE "sleep"]
    /\ UNCHANGED <<actorVars, queueVars, turnVars, sendVars, mainPc>>

\* ... releases the lock and blocks, which is one step for a thread that
\* notifies while holding the lock and not for one that does not.
Block(w) ==
    /\ pc[w] = "sleep"
    /\ pc' = [pc EXCEPT ![w] = "blocked"]
    /\ UNCHANGED <<actorVars, queueVars, turnVars, sendVars, mainPc>>

\* std::condition_variable may wake a thread that nobody notified.
SpuriousWakeup(w) ==
    /\ pc[w] = "blocked"
    /\ pc' = [pc EXCEPT ![w] = "park"]
    /\ UNCHANGED <<actorVars, queueVars, turnVars, sendVars, mainPc>>

-----------------------------------------------------------------------------
(* One turn of workerLoop. *)

\* takeAll of one band.
TakeAll(w) ==
    /\ pc[w] = "take"
    /\ batch' = [batch EXCEPT ![w][idx[w]] = mailbox[cur[w]][idx[w]]]
    /\ mailbox' = [mailbox EXCEPT ![cur[w]][idx[w]] = <<>>]
    /\ IF idx[w] < 2
         THEN idx' = [idx EXCEPT ![w] = @ + 1] /\ UNCHANGED pc
         ELSE idx' = [idx EXCEPT ![w] = 0] /\ pc' = [pc EXCEPT ![w] = "run"]
    /\ UNCHANGED <<owners, claimed, value, issued, realized, queueVars,
                   cur, msg, res, storeBuf, sendVars, mainPc>>

\* The bands are walked High, Medium, Low, each batch in order.
NextInBatch(w, b) ==
    /\ batch[w][b] # <<>>
    /\ \A h \in Bands : h < b => batch[w][h] = <<>>

\* Batches walked from their end, as the lock-free stacks that the queues
\* replaced would give them.
Mutant_InvokeLast(w) ==
    /\ pc[w] = "run"
    /\ \E b \in Bands :
         /\ NextInBatch(w, b)
         /\ msg' = [msg EXCEPT ![w] = batch[w][b][Len(batch[w][b])]]
         /\ idx' = [idx EXCEPT ![w] = b]
    /\ res' = [res EXCEPT ![w] = value[cur[w]]]
    /\ pc' = [pc EXCEPT ![w] = "handler"]
    /\ UNCHANGED <<actorVars, queueVars, cur, batch, storeBuf, sendVars, mainPc>>

\* The next message, and the value its handler is called with.
Invoke(w) ==
    /\ pc[w] = "run"
    /\ \E b \in Bands :
         /\ NextInBatch(w, b)
         /\ msg' = [msg EXCEPT ![w] = Head(batch[w][b])]
         /\ idx' = [idx EXCEPT ![w] = b]
    /\ res' = [res EXCEPT ![w] = value[cur[w]]]
    /\ pc' = [pc EXCEPT ![w] = "handler"]
    /\ UNCHANGED <<actorVars, queueVars, cur, batch, storeBuf, sendVars, mainPc>>

\* The promise is delivered before the state is stored.
Mutant_DeliverFirst(w) ==
    /\ pc[w] = "handler"
    /\ sendPc[w] = "idle"
    /\ res' = [res EXCEPT ![w] = Append(@, msg[w])]
    /\ realized' = realized \cup {msg[w]}
    /\ pc' = [pc EXCEPT ![w] = "store"]
    /\ UNCHANGED <<owners, mailbox, claimed, value, issued, queueVars,
                   cur, idx, batch, msg, storeBuf, sendVars, mainPc>>

\* The handler returns a new state, or throws and the result is nil.
HandlerReturns(w) ==
    /\ pc[w] = "handler"
    /\ sendPc[w] = "idle"
    /\ \/ res' = [res EXCEPT ![w] = Append(@, msg[w])]
       \/ res' = [res EXCEPT ![w] = <<>>]
    /\ pc' = [pc EXCEPT ![w] = "store"]
    /\ UNCHANGED <<actorVars, queueVars, cur, idx, batch, msg, storeBuf,
                   sendVars, mainPc>>

\* actor->value and the wrapper's __value__.
StoreValue(w) ==
    /\ pc[w] = "store"
    /\ value' = [value EXCEPT ![cur[w]] = res[w]]
    /\ batch' = [batch EXCEPT ![w][idx[w]] = Tail(@)]
    /\ pc' = [pc EXCEPT ![w] = "deliver"]
    /\ UNCHANGED <<owners, mailbox, claimed, issued, realized, queueVars,
                   cur, idx, msg, res, storeBuf, sendVars, mainPc>>

\* deliverPromise, and the end of the loop body.
DeliverPromise(w) ==
    /\ pc[w] = "deliver"
    /\ realized' = realized \cup {msg[w]}
    /\ messagesProcessed' = messagesProcessed + 1
    /\ pc' = [pc EXCEPT ![w] = "run"]
    /\ msg' = [msg EXCEPT ![w] = NoMsg]
    /\ res' = [res EXCEPT ![w] = <<>>]
    /\ idx' = [idx EXCEPT ![w] = 0]
    /\ UNCHANGED <<owners, mailbox, claimed, value, issued, started, ready,
                   shuttingDown, cur, batch, storeBuf, sendVars, mainPc>>

-----------------------------------------------------------------------------
(* The end of a turn. *)

\* The claim is dropped and nobody looks at the mailboxes again.
Mutant_ReleaseNoCheck(w) ==
    /\ pc[w] = "run"
    /\ batch[w] = EmptyBatch
    /\ storeBuf' = [storeBuf EXCEPT ![w] = TRUE]
    /\ pc' = [pc EXCEPT ![w] = "pop"]
    /\ UNCHANGED <<actorVars, queueVars, cur, idx, batch, msg, res, sendVars, mainPc>>

\* claimed.store(false, release): the store is issued here and becomes
\* visible at FlushRelease.
ReleaseClaim(w) ==
    /\ pc[w] = "run"
    /\ batch[w] = EmptyBatch
    /\ storeBuf' = [storeBuf EXCEPT ![w] = TRUE]
    /\ pc' = [pc EXCEPT ![w] = "check"]
    /\ idx' = [idx EXCEPT ![w] = 0]
    /\ UNCHANGED <<actorVars, queueVars, cur, batch, msg, res, sendVars, mainPc>>

FlushRelease(w) ==
    /\ storeBuf[w]
    /\ storeBuf' = [storeBuf EXCEPT ![w] = FALSE]
    /\ claimed' = [claimed EXCEPT ![cur[w]] = FALSE]
    /\ UNCHANGED <<owners, mailbox, value, issued, realized, queueVars,
                   cur, idx, batch, msg, res, sendVars, pc, mainPc>>

\* anyMailboxPending: one relaxed isEmpty load per band.  Nothing orders
\* these loads after the store above.
CheckMailbox(w) ==
    /\ pc[w] = "check"
    /\ StoreBuffering \/ ~storeBuf[w]
    /\ \/ /\ mailbox[cur[w]][idx[w]] # <<>>
          /\ pc' = [pc EXCEPT ![w] = "reclaim"]
          /\ idx' = [idx EXCEPT ![w] = 0]
       \/ /\ mailbox[cur[w]][idx[w]] = <<>>
          /\ idx[w] < 2
          /\ idx' = [idx EXCEPT ![w] = @ + 1]
          /\ UNCHANGED pc
       \/ /\ mailbox[cur[w]][idx[w]] = <<>>
          /\ idx[w] = 2
          /\ idx' = [idx EXCEPT ![w] = 0]
          /\ pc' = [pc EXCEPT ![w] = "pop"]
    /\ UNCHANGED <<actorVars, queueVars, cur, batch, msg, res, storeBuf,
                   sendVars, mainPc>>

\* The re-enqueue does not compete for the claim.
Mutant_ReclaimUnchecked(w) ==
    /\ pc[w] = "reclaim"
    /\ ~storeBuf[w]
    /\ claimed' = [claimed EXCEPT ![cur[w]] = TRUE]
    /\ pc' = [pc EXCEPT ![w] = "rank"]
    /\ UNCHANGED <<owners, mailbox, value, issued, realized, queueVars,
                   turnVars, sendVars, mainPc>>

\* The compare-and-set that competes with the senders'.  Being a locked
\* instruction on this thread's own variable, it sees the store made visible.
Reclaim(w) ==
    /\ pc[w] = "reclaim"
    /\ ~storeBuf[w]
    /\ claimed' = [claimed EXCEPT ![cur[w]] = TRUE]
    /\ pc' = [pc EXCEPT ![w] = IF claimed[cur[w]] THEN "pop" ELSE "rank"]
    /\ UNCHANGED <<owners, mailbox, value, issued, realized, queueVars,
                   turnVars, sendVars, mainPc>>

\* highestPendingBand: isEmpty on High, then on Medium, else Low.
RankBand(w) ==
    /\ pc[w] = "rank"
    /\ IF mailbox[cur[w]][idx[w]] # <<>> \/ idx[w] = 2
         THEN pc' = [pc EXCEPT ![w] = "requeue"] /\ UNCHANGED idx
         ELSE idx' = [idx EXCEPT ![w] = @ + 1] /\ UNCHANGED pc
    /\ UNCHANGED <<actorVars, queueVars, cur, batch, msg, res, storeBuf,
                   sendVars, mainPc>>

\* enqueueReady_ by the worker.
Requeue(w) ==
    /\ pc[w] = "requeue"
    /\ EnqueueReady(cur[w], idx[w], [pc EXCEPT ![w] = "pop"])
    /\ idx' = [idx EXCEPT ![w] = 0]
    /\ UNCHANGED <<actorVars, started, shuttingDown, messagesProcessed,
                   cur, batch, msg, res, storeBuf, sendVars, mainPc>>

-----------------------------------------------------------------------------
(* shutdown, called by the main thread once the futures were joined. *)

\* shuttingDown_ = true, without queueMtx_; nothing to do before the first actor.
ShutdownFlag ==
    /\ mainPc = "running"
    /\ \A c \in Clients : sendPc[c] = "idle"
    /\ shuttingDown' = started
    /\ mainPc' = IF started THEN "notify" ELSE "done"
    /\ UNCHANGED <<actorVars, started, ready, messagesProcessed, turnVars,
                   sendVars, pc>>

\* queueCv_.notify_all(), without queueMtx_.
ShutdownNotify ==
    /\ mainPc = "notify"
    /\ pc' = [w \in Workers |-> IF pc[w] = "blocked" THEN "park" ELSE pc[w]]
    /\ mainPc' = "join"
    /\ UNCHANGED <<actorVars, queueVars, turnVars, sendVars>>

\* A shutdown that does not wait for the workers.
Mutant_NoJoin ==
    /\ mainPc = "join"
    /\ mainPc' = "done"
    /\ UNCHANGED <<actorVars, queueVars, turnVars, sendVars, pc>>

\* The joins, in whatever order the workers end.
ShutdownJoin ==
    /\ mainPc = "join"
    /\ \A w \in Workers : pc[w] = "exited"
    /\ mainPc' = "done"
    /\ UNCHANGED <<actorVars, queueVars, turnVars, sendVars, pc>>

-----------------------------------------------------------------------------

SendStep(t) == SendClaim(t) \/ SendEnqueue(t)

WorkerStep(w) ==
    \/ PopReady(w) \/ EvalPredicate(w) \/ Block(w)
    \/ TakeAll(w) \/ Invoke(w) \/ HandlerReturns(w) \/ StoreValue(w)
    \/ DeliverPromise(w) \/ ReleaseClaim(w) \/ CheckMailbox(w)
    \/ Reclaim(w) \/ RankBand(w) \/ Requeue(w)

ShutdownStep == ShutdownNotify \/ ShutdownJoin

\* The process has ended.
Terminated == mainPc = "done" /\ UNCHANGED vars

Next ==
    \/ \E t \in Threads : SendStep(t)
    \/ \E t \in Threads, a \in Actors : NewActor(t, a)
    \/ \E t \in Threads, a \in Actors, prim \in DOMAIN PrimBand, m \in Messages :
         Push(t, a, PrimBand[prim], m)
    \/ \E w \in Workers : WorkerStep(w)
    \/ \E w \in Workers : SpuriousWakeup(w)
    \/ \E w \in Workers : FlushRelease(w)
    \/ ShutdownFlag
    \/ ShutdownStep
    \/ Terminated

Spec == Init /\ [][Next]_vars

\* A thread in the middle of a step of the scheduler goes on; a handler
\* returns; a buffered store becomes visible; a thread that keeps asking for
\* queueMtx_ gets it (strong fairness, as others may keep taking it).  No
\* thread has to send, create actors or begin the shutdown.
Fairness ==
    /\ \A t \in Threads : WF_vars(SendClaim(t)) /\ SF_vars(SendEnqueue(t))
    /\ \A w \in Workers : SF_vars(WorkerStep(w)) /\ WF_vars(FlushRelease(w))
    /\ WF_vars(ShutdownStep)

FairSpec == Spec /\ Fairness

-----------------------------------------------------------------------------
(* What the scheduler promises. *)

WorkerPcs == {"unborn", "pop", "park", "sleep", "blocked", "take", "run",
              "handler", "store", "deliver", "check", "reclaim", "rank",
              "requeue", "exited"}

ActorTypes ==
    /\ owners \in SUBSET Actors
    /\ mailbox \in [Actors -> [Bands -> Seq(Messages)]]
    /\ claimed \in [Actors -> BOOLEAN]
    /\ value \in [Actors -> Seq(Messages)]
    /\ issued \in SUBSET Messages
    /\ realized \in SUBSET Messages

QueueTypes ==
    /\ started \in BOOLEAN
    /\ ready \in [Bands -> Seq(Actors)]
    /\ shuttingDown \in BOOLEAN
    /\ messagesProcessed \in Nat
    /\ mainPc \in {"running", "notify", "join", "done"}

TurnTypes ==
    /\ pc \in [Workers -> WorkerPcs]
    /\ cur \in [Workers -> Actors \cup {NoActor}]
    /\ idx \in [Workers -> Bands]
    /\ batch \in [Workers -> [Bands -> Seq(Messages)]]
    /\ msg \in [Workers -> Messages \cup {NoMsg}]
    /\ res \in [Workers -> Seq(Messages)]
    /\ storeBuf \in [Workers -> BOOLEAN]

SendTypes ==
    /\ sendPc \in [Threads -> {"idle", "claim", "enqueue"}]
    /\ dst \in [Threads -> Actors \cup {NoActor}]
    /\ dstBand \in [Threads -> Bands]

\* A thread that dereferences its local `actor', or the message it handles, has one.
LocalsSet ==
    /\ \A w \in Workers :
         /\ pc[w] \in {"take", "run", "handler", "store", "deliver", "check",
                       "reclaim", "rank", "requeue"} => cur[w] \in Actors
         /\ storeBuf[w] => cur[w] \in Actors
         /\ pc[w] \in {"handler", "store", "deliver"} => msg[w] \in Messages
         /\ pc[w] \in {"handler", "store"} => batch[w][idx[w]] # <<>>
    /\ \A t \in Threads : sendPc[t] # "idle" => dst[t] \in Actors

\* Every variable has its type, and the locals of workerLoop and of send are
\* set wherever the code dereferences them.
TypeOK == ActorTypes /\ QueueTypes /\ TurnTypes /\ SendTypes /\ LocalsSet

\* Worker w has taken its actor and not yet dropped the claim.
InTurn(w) == pc[w] \in {"take", "run", "handler", "store", "deliver"}

\* The single-method invariant of workerLoop (ActorScheduler.h): the same
\* actor never runs on two workers at once.
SingleMethod ==
    \A v, w \in Workers :
        InTurn(v) /\ InTurn(w) /\ cur[v] = cur[w] => v = w

\* The three ways in which the claim of actor a is held: by a send on its way
\* to the ready queues, in the ready queues, and by a worker (which holds it
\* until the store that drops it is visible).
Sending(t, a) == sendPc[t] = "enqueue" /\ dst[t] = a

QueuedIn(r, a) == \E b \in Bands : \E i \in 1..Len(r[b]) : r[b][i] = a

Running(w, a) ==
    /\ cur[w] = a
    /\ InTurn(w) \/ pc[w] \in {"rank", "requeue"} \/ storeBuf[w]

\* No actor is in the ready queues twice.
NoDuplicates(r) ==
    \A b, c \in Bands : \A i \in 1..Len(r[b]), j \in 1..Len(r[c]) :
        r[b][i] = r[c][j] => b = c /\ i = j

\* The claim of an actor has one holder: `claimed' is "the single source of
\* truth" of ActorScheduler.h.  This is what SingleMethod rests on.
ClaimHasOneHolder ==
    /\ NoDuplicates(ready)
    /\ \A w \in Workers : storeBuf[w] => pc[w] \in {"check", "reclaim", "pop"}
    /\ \A a \in Actors :
         /\ QueuedIn(ready, a) => claimed[a]
         /\ \A t \in Threads : Sending(t, a) =>
              /\ claimed[a]
              /\ ~QueuedIn(ready, a)
              /\ \A u \in Threads : Sending(u, a) => t = u
         /\ \A w \in Workers : Running(w, a) =>
              /\ claimed[a]
              /\ ~QueuedIn(ready, a)
              /\ \A t \in Threads : ~Sending(t, a)
              /\ \A v \in Workers : Running(v, a) => v = w

\* The part of a taken batch of actor a that no handler has finished with.
Held(a, b) ==
    LET runners == {w \in Workers : InTurn(w) /\ cur[w] = a}
    IN  IF runners = {} THEN <<>> ELSE batch[CHOOSE w \in runners : TRUE][b]

\* The messages of a not yet folded into its state, oldest first.
Unhandled(a, b) == Held(a, b) \o mailbox[a][b]

\* When the promise of a send is realized, the state its handler computed has
\* been stored: a thread that derefs the promise and then the actor does not
\* read a state older than the one it was told about (workerLoop stores
\* __value__ before deliverPromise).
RealizedIsStored ==
    \A m \in realized, a \in Actors, b \in Bands :
        \A i \in 1..Len(Unhandled(a, b)) : Unhandled(a, b)[i] # m

\* A thread that has yet to look at band b of actor a: a send about to compete
\* for the claim or holding it, a worker in a turn or about to queue the actor
\* again, and a worker that has dropped the claim and not yet checked band b.
WillSchedule(t, a) == sendPc[t] \in {"claim", "enqueue"} /\ dst[t] = a

WillCheck(w, a, b) ==
    /\ cur[w] = a
    /\ \/ InTurn(w)
       \/ pc[w] \in {"reclaim", "rank", "requeue"}
       \/ pc[w] = "check" /\ idx[w] <= b

WillBeSeen(a, b) ==
    \/ QueuedIn(ready, a)
    \/ \E t \in Threads : WillSchedule(t, a)
    \/ \E w \in Workers : WillCheck(w, a, b)

\* No stranded message: while a mailbox holds a message, some thread has yet
\* to look at it (the comment on the release of the claim in workerLoop:
\* "their message will be observed by the isEmpty checks below").
NoStrandedMessage ==
    \A a \in Actors, b \in Bands : mailbox[a][b] # <<>> => WillBeSeen(a, b)

\* What NoStrandedMessage rests on when no load overtakes the release of the
\* claim: a claim that is set has a holder ...
ClaimIsHeld ==
    \A a \in Actors : claimed[a] =>
        \/ QueuedIn(ready, a)
        \/ \E t \in Threads : Sending(t, a)
        \/ \E w \in Workers : Running(w, a)

\* ... and a worker whose release is not visible yet has all bands to check.
ReleaseIsChecked ==
    \A w \in Workers : storeBuf[w] => pc[w] = "check" /\ idx[w] = 0

Seekers == {w \in Workers : pc[w] \in {"pop", "park"}}

\* No worker sleeps through work: while one is blocked on queueCv_, every
\* ready actor has a worker of its own on the way to the queues, so the
\* notify_one of enqueueReady_ loses no parallelism.
NoSleepThroughWork ==
    Blocked # {} =>
        Len(ready[0]) + Len(ready[1]) + Len(ready[2]) <= Cardinality(Seekers)

\* shutdown drains: when it has returned, every message that was sent has
\* been handled, the ones that handlers sent meanwhile included.
DrainedAtExit == mainPc = "done" => issued = realized

\* Every message sent is handled in the end, whatever the other threads do.
EveryMessageHandled == \A m \in Messages : m \in issued ~> m \in realized

\* "Join all workers, after draining" (ActorScheduler.h): a shutdown that
\* has begun returns.
ShutdownReturns == mainPc = "notify" ~> mainPc = "done"

\* "the scheduler runs the high one first", and it waits for no more than the
\* message that is running (docs/tutorial/13-actors.md, 13.3): no handler
\* starts while the mailbox of its actor holds a message of a higher band.
HigherBandFirst ==
    [][\A w \in Workers : Invoke(w) =>
         \A h \in Bands : h < idx'[w] => mailbox[cur[w]][h] = <<>>]_vars

\* What the actors look like from outside: every message is folded into the
\* state exactly once, in the order of its band, one at a time.
Abs == INSTANCE Actor WITH
         pending <- [a \in Actors |-> [b \in Bands |-> Unhandled(a, b)]]

\* The scheduler implements actors that handle their messages atomically.
ImplementsActor == Abs!Spec
=============================================================================
