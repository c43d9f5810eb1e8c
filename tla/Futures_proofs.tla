--------------------------- MODULE Futures_proofs ---------------------------
(***************************************************************************)
(* Proofs about Futures, for any pool, any number of futures, pmaps and    *)
(* promises, and any collections given to pmap.                            *)
(***************************************************************************)
EXTENDS Futures, SequenceTheorems, TLAPS

-----------------------------------------------------------------------------
(* The inductive invariant. *)

\* Where a thread runs Clojure code, or a primitive that the code called.
Body == {"clojure", "setThread", "register", "join", "failure", "result", "poll",
         "return", "spawn", "collect"}
Exit == {"joinFutures", "joinActors", "ended"}
Pcs == Body \cup Exit \cup {"unborn", "storeError", "storeResult", "storeDone", "leave"}

Outcomes == {NoAnswer} \cup ({"value", "error"} \X (Values \cup {Nil}))
Rows == UNION {[1..n -> Values \cup {Nil}] : n \in Nat}
Answers ==
    {NoAnswer} \cup ({"realized"} \X (Tasks \cup Promises))
      \cup ((Tasks \cup Promises) \X Outcomes)
      \cup ({"pmap"} \X (Outcomes \cup ({"value"} \X Rows)) \X Seq(Tasks))

TaskTypes ==
    /\ kind \in [Tasks -> {"none", "future", "element"}]
    /\ thread \in [Tasks -> {"unborn", "running", "ended"}]
    /\ error \in [Tasks -> Values \cup {NoError}]
    /\ result \in [Tasks -> Values \cup {Nil}]
    /\ done \in [Tasks -> BOOLEAN]
    /\ hasThread \in [Tasks -> BOOLEAN]
    /\ outcome \in [Tasks -> Outcomes]

ThreadTypes ==
    /\ pc \in [Threads -> Pcs]
    /\ target \in [Threads -> Tasks \cup Promises \cup Values \cup {Nil}]
    /\ elems \in [Threads -> Seq(Tasks)]
    /\ index \in [Threads -> Nat]
    /\ failed \in [Threads -> Nat]
    /\ answer \in [Threads -> Answers]

SharedTypes ==
    /\ registry \subseteq Tasks /\ snapshot \subseteq Tasks
    /\ known \subseteq Tasks /\ early \subseteq Tasks
    /\ promise \in [Promises -> Values \cup {Pending}]
    /\ wins \in [Promises -> Seq(Values)]

TypeOK == TaskTypes /\ ThreadTypes /\ SharedTypes

\* All that a deref reads of x is in place.
Settled(x) == pc[x] \in {"storeDone", "leave", "ended"}

\* How the attributes of x say its body ended.
Recorded(x) == IF error[x] # NoError THEN <<"error", error[x]>> ELSE <<"value", result[x]>>

TaskAt(x) ==
    /\ pc[x] = "unborn" <=> kind[x] = "none"
    /\ pc[x] \notin {"joinFutures", "joinActors"}
    /\ thread[x] = CASE pc[x] = "unborn" -> "unborn"
                     [] pc[x] = "ended" -> "ended"
                     [] OTHER -> "running"
    /\ pc[x] \in Body \cup {"unborn"} => error[x] = NoError
    /\ pc[x] = "storeError" => target[x] \in Values /\ outcome[x] = <<"error", target[x]>>
    /\ pc[x] = "storeResult" =>
         \/ error[x] = NoError /\ target[x] \in Values /\ outcome[x] = <<"value", target[x]>>
         \/ error[x] # NoError /\ target[x] = Nil /\ outcome[x] = <<"error", error[x]>>
    /\ Settled(x) => outcome[x] = Recorded(x)
    /\ done[x] => pc[x] \in {"leave", "ended"}

\* The first n of the elements es have ended, and f is the first of them that
\* failed, or 0.
FirstFailure(es, n, f) ==
    /\ \A i \in 1..n : thread[es[i]] = "ended"
    /\ f \in 0..n
    /\ f = 0 => \A i \in 1..n : error[es[i]] = NoError
    /\ f # 0 => error[es[f]] # NoError /\ \A i \in 1..(f - 1) : error[es[i]] = NoError

ThreadAt(t) ==
    /\ pc[t] \in {"setThread", "register", "join", "failure", "result"} => target[t] \in Tasks
    /\ pc[t] = "poll" => target[t] \in Promises
    /\ pc[t] = "register" => hasThread[target[t]]
    /\ pc[t] \in {"failure", "result"} => Settled(target[t])
    /\ pc[t] = "result" => error[target[t]] = NoError
    /\ pc[t] \notin {"collect", "return"} => failed[t] = 0
    /\ pc[t] = "collect" =>
         /\ index[t] \in 1..(Len(elems[t]) + 1)
         /\ FirstFailure(elems[t], index[t] - 1, failed[t])

\* What the answers say was so and stays so.
AnswerAt(t) ==
    \/ answer[t] = NoAnswer
    \/ \E x \in Tasks : Settled(x) /\ answer[t] \in {<<x, outcome[x]>>, <<"realized", x>>}
    \/ \E p \in Promises : answer[t] = <<"realized", p>>
    \/ \E p \in Promises : promise[p] # Pending /\ answer[t] = <<p, <<"value", promise[p]>>>>
    \/ \E es \in Seq(Tasks), f \in Nat :
         /\ FirstFailure(es, Len(es), f)
         /\ answer[t] =
              <<"pmap", IF f # 0 THEN <<"error", error[es[f]]>>
                        ELSE <<"value", [i \in 1..Len(es) |-> result[es[i]]]>>, es>>

PromiseAt(p) ==
    IF promise[p] = Pending THEN wins[p] = <<>> ELSE wins[p] = <<promise[p]>>

\* Code gets hold of a future after it was registered.
ExitAt ==
    /\ \A x \in known : hasThread[x]
    /\ IF pc[Main] \in Exit THEN early \subseteq snapshot ELSE known \subseteq registry
    /\ pc[Main] \in {"joinActors", "ended"} => \A x \in snapshot : thread[x] = "ended"

IInv ==
    /\ TypeOK
    /\ \A x \in Tasks : TaskAt(x)
    /\ \A t \in Threads : ThreadAt(t) /\ AnswerAt(t)
    /\ \A p \in Promises : PromiseAt(p)
    /\ ExitAt

-----------------------------------------------------------------------------

\* The threads are of different kinds.
LEMMA ThreadFacts ==
    /\ Main \in Threads /\ Tasks \subseteq Threads /\ Workers \subseteq Threads
    /\ \A x \in Tasks : x # Main /\ x \notin Workers
    /\ Main \notin Workers
  BY FuturesAssumption DEF Threads

\* At the start there is no task and no promise is delivered.
LEMMA InvInit == Init => IInv
<1> SUFFICES ASSUME Init PROVE IInv
  OBVIOUS
<1>1. TaskTypes
  BY DEF Init, TaskTypes, Outcomes
<1>2. ThreadTypes
  BY DEF Init, ThreadTypes, Pcs, Body, Answers
<1>3. SharedTypes
  BY DEF Init, SharedTypes
<1>4. \A x \in Tasks : TaskAt(x)
  BY ThreadFacts DEF Init, TaskAt, Settled, Body
<1>5. \A t \in Threads : ThreadAt(t)
  BY DEF Init, ThreadAt
<1>6. \A t \in Threads : AnswerAt(t)
  BY DEF Init, AnswerAt
<1>7. \A p \in Promises : PromiseAt(p)
  BY DEF Init, PromiseAt
<1>8. ExitAt
  BY ThreadFacts DEF Init, ExitAt, Exit
<1> QED
  BY <1>1, <1>2, <1>3, <1>4, <1>5, <1>6, <1>7, <1>8 DEF IInv, TypeOK

\* What no step undoes: the record of a task whose record is complete, the end
\* of a thread, the handle of a future, the value of a promise.
Steady ==
    /\ \A x \in Tasks : Settled(x) =>
         /\ Settled(x)' /\ error'[x] = error[x] /\ result'[x] = result[x]
         /\ outcome'[x] = outcome[x]
    /\ \A x \in Tasks : thread[x] = "ended" => thread'[x] = "ended"
    /\ \A x \in Tasks : hasThread[x] => hasThread'[x]
    /\ \A p \in Promises : promise[p] # Pending => promise'[p] = promise[p]

\* The thread of a task ends after its stores.
LEMMA EndedSettled ==
    ASSUME IInv, NEW x \in Tasks, thread[x] = "ended"
    PROVE  Settled(x)
  BY DEF IInv, TaskAt, Settled

\* What pmap has collected is not changed behind it.
LEMMA FailureSteady ==
    ASSUME IInv, Steady, NEW es \in Seq(Tasks), NEW n \in 0..Len(es), NEW f,
           FirstFailure(es, n, f)
    PROVE  /\ FirstFailure(es, n, f)'
           /\ \A i \in 1..n : error'[es[i]] = error[es[i]] /\ result'[es[i]] = result[es[i]]
<1>1. ASSUME NEW i \in 1..n
      PROVE  /\ error'[es[i]] = error[es[i]] /\ result'[es[i]] = result[es[i]]
             /\ thread'[es[i]] = "ended"
  <2>1. es[i] \in Tasks /\ thread[es[i]] = "ended"
    BY DEF FirstFailure
  <2> QED
    BY <2>1, EndedSettled DEF Steady
<1>2. FirstFailure(es, n, f)'
  BY <1>1 DEF FirstFailure
<1> QED
  BY <1>1, <1>2

\* An answer once given stays right.
LEMMA AnswerSteady ==
    ASSUME IInv, Steady, NEW t \in Threads, answer'[t] = answer[t]
    PROVE  AnswerAt(t)'
<1>1. AnswerAt(t)
  BY DEF IInv
<1>2. CASE answer[t] = NoAnswer
  BY <1>2 DEF AnswerAt
<1>3. CASE \E x \in Tasks : Settled(x) /\ answer[t] \in {<<x, outcome[x]>>, <<"realized", x>>}
  BY <1>3 DEF AnswerAt, Steady
<1>4. CASE \E p \in Promises : answer[t] = <<"realized", p>>
  BY <1>4 DEF AnswerAt
<1>5. CASE \E p \in Promises : promise[p] # Pending /\ answer[t] = <<p, <<"value", promise[p]>>>>
  BY <1>5 DEF AnswerAt, Steady
<1>6. ASSUME NEW es \in Seq(Tasks), NEW f \in Nat, FirstFailure(es, Len(es), f),
             answer[t] = <<"pmap", IF f # 0 THEN <<"error", error[es[f]]>>
                                   ELSE <<"value", [i \in 1..Len(es) |-> result[es[i]]]>>, es>>
      PROVE  AnswerAt(t)'
  <2>1. Len(es) \in 0..Len(es)
    OBVIOUS
  <2>2. /\ FirstFailure(es, Len(es), f)'
        /\ \A i \in 1..Len(es) : error'[es[i]] = error[es[i]] /\ result'[es[i]] = result[es[i]]
    BY <1>6, <2>1, FailureSteady
  <2>3. [i \in 1..Len(es) |-> result'[es[i]]] = [i \in 1..Len(es) |-> result[es[i]]]
    BY <2>2
  <2>4. f # 0 => error'[es[f]] = error[es[f]]
    BY <1>6, <2>2 DEF FirstFailure
  <2>5. answer'[t] = <<"pmap", IF f # 0 THEN <<"error", error'[es[f]]>>
                               ELSE <<"value", [i \in 1..Len(es) |-> result'[es[i]]]>>, es>>
    BY <1>6, <2>3, <2>4
  <2> QED
    BY <2>2, <2>5 DEF AnswerAt
<1> QED
  BY <1>1, <1>2, <1>3, <1>4, <1>5, <1>6 DEF AnswerAt

SameLocals(t) ==
    /\ pc'[t] = pc[t] /\ target'[t] = target[t]
    /\ elems'[t] = elems[t] /\ index'[t] = index[t] /\ failed'[t] = failed[t]

\* A thread's locals stay right under the steps of others.
LEMMA ThreadSteady ==
    ASSUME IInv, Steady, NEW t \in Threads, SameLocals(t)
    PROVE  ThreadAt(t)'
<1>1. ThreadAt(t)
  BY DEF IInv
<1>2. elems[t] \in Seq(Tasks) /\ Len(elems[t]) \in Nat /\ index[t] \in Nat
  BY DEF IInv, TypeOK, ThreadTypes
<1>3. pc[t] = "collect" => FirstFailure(elems[t], index[t] - 1, failed[t])'
  <2> SUFFICES ASSUME pc[t] = "collect"
               PROVE  FirstFailure(elems[t], index[t] - 1, failed[t])'
    OBVIOUS
  <2>1. index[t] - 1 \in 0..Len(elems[t]) /\ FirstFailure(elems[t], index[t] - 1, failed[t])
    BY <1>1, <1>2 DEF ThreadAt
  <2>2. \A es \in Seq(Tasks) : \A n \in 0..Len(es) : \A f :
          FirstFailure(es, n, f) => FirstFailure(es, n, f)'
    BY FailureSteady
  <2>3. ASSUME NEW es, NEW n, NEW f, es = elems[t], n = index[t] - 1, f = failed[t]
        PROVE  FirstFailure(es, n, f)'
    BY <1>2, <2>1, <2>2, <2>3
  <2> QED
    BY <2>3 DEF SameLocals, FirstFailure
<1> QED
  BY <1>1, <1>3 DEF ThreadAt, Steady, SameLocals

\* The end of a run is not concerned by what primitives do with futures that
\* are known already.
LEMMA ExitSteady ==
    ASSUME IInv, UNCHANGED <<registry, snapshot, known, early>>,
           pc'[Main] = pc[Main] \/ (pc[Main] \notin Exit /\ pc'[Main] \notin Exit),
           \A x \in Tasks : thread[x] = "ended" => thread'[x] = "ended",
           \A x \in Tasks : hasThread[x] => hasThread'[x]
    PROVE  ExitAt'
<1>1. ExitAt /\ known \subseteq Tasks /\ snapshot \subseteq Tasks
  BY DEF IInv, TypeOK, SharedTypes
<1> QED
  BY <1>1 DEF ExitAt, Exit

\* A step of a primitive: it changes the locals and the answer of thread t, but
\* neither a task's record nor a promise.
LEMMA PrimitiveStep ==
    ASSUME IInv, NEW t \in Threads, pc[t] \in Body, pc'[t] \in Body,
           UNCHANGED <<kind, thread, error, result, done, outcome, promise, wins>>,
           \A x \in Tasks : hasThread[x] => hasThread'[x],
           \A u \in Threads \ {t} : SameLocals(u) /\ answer'[u] = answer[u],
           TypeOK', ThreadAt(t)',
           answer'[t] = answer[t] \/ AnswerAt(t)',
           UNCHANGED <<registry, snapshot, known, early>> \/ ExitAt'
    PROVE  IInv'
<1>1. \A x \in Tasks : /\ x # t => pc'[x] = pc[x] /\ target'[x] = target[x]
                       /\ x = t => pc[x] \in Body /\ pc'[x] \in Body
  BY ThreadFacts DEF SameLocals
<1>2. ASSUME NEW x \in Tasks PROVE (Settled(x) => Settled(x)') /\ (Settled(x)' => Settled(x))
  <2>1. CASE x # t
    BY <1>1, <2>1 DEF Settled
  <2>2. CASE x = t
    <3>1. pc[x] \in Body /\ pc'[x] \in Body
      BY <1>1, <2>2
    <3>2. ~Settled(x)
      BY <3>1 DEF Settled, Body
    <3>3. ~Settled(x)'
      BY <3>1 DEF Settled, Body
    <3> QED
      BY <3>2, <3>3
  <2> QED
    BY <2>1, <2>2
<1>3. Steady
  BY <1>2 DEF Steady
<1>4. ASSUME NEW x \in Tasks PROVE TaskAt(x)'
  <2>1. TaskAt(x) /\ Recorded(x)' = Recorded(x)
    BY DEF IInv, Recorded
  <2>2. /\ kind'[x] = kind[x] /\ thread'[x] = thread[x] /\ error'[x] = error[x]
        /\ done'[x] = done[x] /\ outcome'[x] = outcome[x]
    OBVIOUS
  <2>3. CASE x # t
    BY <1>1, <1>2, <2>1, <2>2, <2>3 DEF TaskAt
  <2>4. CASE x = t
    BY <1>1, <1>2, <2>1, <2>2, <2>4 DEF TaskAt, Body
  <2> QED
    BY <2>3, <2>4
<1>5. \A u \in Threads : ThreadAt(u)' /\ AnswerAt(u)'
  BY <1>3, ThreadSteady, AnswerSteady
<1>6. \A p \in Promises : PromiseAt(p)'
  BY DEF IInv, PromiseAt
<1>7. ExitAt'
  <2>1. pc'[Main] = pc[Main] \/ (pc[Main] \notin Exit /\ pc'[Main] \notin Exit)
    BY ThreadFacts DEF Body, Exit, SameLocals
  <2> QED
    BY <1>3, <2>1, ExitSteady DEF Steady
<1> QED
  BY <1>4, <1>5, <1>6, <1>7 DEF IInv

-----------------------------------------------------------------------------
(* The primitives. *)

\* buildFuture stores the thread in the future.
LEMMA SetThreadKeepsInv ==
    ASSUME IInv, NEW t \in Threads, SetThread(t)
    PROVE  IInv'
<1>1. /\ pc[t] = "setThread" /\ TypeOK /\ ThreadAt(t) /\ target[t] \in Tasks
      /\ UNCHANGED <<kind, thread, error, result, done, promise, registry, snapshot, target,
                     elems, index, failed, known, early, outcome, answer, wins>>
      /\ pc' = [pc EXCEPT ![t] = "register"]
      /\ hasThread' = [hasThread EXCEPT ![target[t]] = TRUE]
  BY DEF SetThread, Goto, IInv, ThreadAt, exitVars, pmapVars, ghosts
<1>2. /\ pc[t] \in Body /\ pc'[t] \in Body /\ pc'[t] = "register" /\ hasThread'[target[t]]
      /\ \A x \in Tasks : hasThread[x] => hasThread'[x]
      /\ \A u \in Threads \ {t} : SameLocals(u) /\ answer'[u] = answer[u]
  BY <1>1 DEF TypeOK, TaskTypes, ThreadTypes, SameLocals, Body
<1>3. TypeOK'
  BY <1>1 DEF TypeOK, TaskTypes, ThreadTypes, SharedTypes, Pcs, Body
<1>4. ThreadAt(t)'
  BY <1>1, <1>2 DEF ThreadAt
<1> QED
  BY <1>1, <1>2, <1>3, <1>4, PrimitiveStep

\* It registers the future, and its code gets hold of it.
LEMMA RegisterKeepsInv ==
    ASSUME IInv, NEW t \in Threads, RegisterFuture(t)
    PROVE  IInv'
<1>1. /\ pc[t] = "register" /\ TypeOK /\ ThreadAt(t) /\ target[t] \in Tasks /\ hasThread[target[t]]
      /\ UNCHANGED <<kind, thread, error, result, done, hasThread, promise, snapshot, target,
                     elems, index, failed, early, outcome, answer, wins>>
      /\ pc' = [pc EXCEPT ![t] = "return"]
      /\ registry' = registry \cup {target[t]} /\ known' = known \cup {target[t]}
  BY DEF RegisterFuture, Goto, IInv, ThreadAt, attributes, pmapVars
<1>2. /\ pc[t] \in Body /\ pc'[t] \in Body /\ pc'[t] = "return"
      /\ \A u \in Threads \ {t} : SameLocals(u) /\ answer'[u] = answer[u]
  BY <1>1 DEF TypeOK, ThreadTypes, SameLocals, Body
<1>3. TypeOK'
  BY <1>1 DEF TypeOK, TaskTypes, ThreadTypes, SharedTypes, Pcs, Body
<1>4. ThreadAt(t)'
  BY <1>1, <1>2 DEF ThreadAt
<1>5. ExitAt'
  <2>1. pc'[Main] = pc[Main] \/ (pc[Main] \notin Exit /\ pc'[Main] \notin Exit)
    BY <1>2, ThreadFacts DEF Body, Exit, SameLocals
  <2> QED
    BY <1>1, <2>1 DEF IInv, ExitAt, Exit
<1> QED
  BY <1>1, <1>2, <1>3, <1>4, <1>5, PrimitiveStep

\* deref of a future: the join, or what a done one skips.
LEMMA DerefFutureKeepsInv ==
    ASSUME IInv, NEW t \in Threads, NEW x \in Tasks, DerefFuture(t, x)
    PROVE  IInv'
<1>1. /\ pc[t] = "clojure" /\ TypeOK /\ ThreadAt(t) /\ x \in known /\ failed[t] = 0
      /\ UNCHANGED <<kind, thread, error, result, done, hasThread, promise, registry, snapshot,
                     elems, index, failed, known, early, outcome, answer, wins>>
      /\ pc' = [pc EXCEPT ![t] = IF done[x] \/ ~hasThread[x] THEN "failure" ELSE "join"]
      /\ target' = [target EXCEPT ![t] = x]
  BY DEF DerefFuture, Goto, IInv, ThreadAt, attributes, exitVars, pmapVars, ghosts
<1>2. hasThread[x] /\ (done[x] => Settled(x))
  BY <1>1 DEF IInv, ExitAt, TaskAt, Settled
<1>3. /\ pc[t] \in Body /\ pc'[t] \in {"failure", "join"} /\ pc'[t] \in Body /\ target'[t] = x
      /\ pc'[t] = "failure" => done[x]
      /\ \A u \in Threads \ {t} : SameLocals(u) /\ answer'[u] = answer[u]
  BY <1>1, <1>2 DEF TypeOK, ThreadTypes, SameLocals, Body
<1>4. TypeOK'
  BY <1>1, <1>3 DEF TypeOK, TaskTypes, ThreadTypes, SharedTypes, Pcs, Body
<1>5. pc'[t] = "failure" => Settled(x)'
  <2>1. Settled(x) => x # t /\ pc'[x] = pc[x]
    BY <1>1, <1>3, ThreadFacts DEF Settled, SameLocals
  <2> QED
    BY <1>2, <1>3, <2>1 DEF Settled
<1>6. ThreadAt(t)'
  BY <1>1, <1>3, <1>5 DEF ThreadAt
<1> QED
  BY <1>1, <1>3, <1>4, <1>6, PrimitiveStep

\* The join returns once the thread has ended.
LEMMA JoinKeepsInv ==
    ASSUME IInv, NEW t \in Threads, Join(t)
    PROVE  IInv'
<1>1. /\ pc[t] = "join" /\ TypeOK /\ ThreadAt(t) /\ target[t] \in Tasks
      /\ thread[target[t]] = "ended"
      /\ UNCHANGED <<kind, thread, error, result, done, hasThread, promise, registry, snapshot,
                     target, elems, index, failed, known, early, outcome, answer, wins>>
      /\ pc' = [pc EXCEPT ![t] = "failure"]
  BY DEF Join, Goto, IInv, ThreadAt, attributes, exitVars, pmapVars, ghosts
<1>2. /\ pc[t] \in Body /\ pc'[t] \in Body /\ pc'[t] = "failure"
      /\ \A u \in Threads \ {t} : SameLocals(u) /\ answer'[u] = answer[u]
  BY <1>1 DEF TypeOK, ThreadTypes, SameLocals, Body
<1>3. TypeOK'
  BY <1>1 DEF TypeOK, TaskTypes, ThreadTypes, SharedTypes, Pcs, Body
<1>4. Settled(target[t])'
  <2>1. Settled(target[t])
    BY <1>1, EndedSettled
  <2>2. target[t] # t /\ pc'[target[t]] = pc[target[t]]
    BY <1>1, <1>2, <2>1, ThreadFacts DEF Settled, SameLocals
  <2> QED
    BY <1>1, <2>1, <2>2 DEF Settled
<1>5. ThreadAt(t)'
  BY <1>1, <1>2, <1>4 DEF ThreadAt
<1> QED
  BY <1>1, <1>2, <1>3, <1>5, PrimitiveStep

\* A step of a primitive leaves settled tasks settled.
LEMMA SettledByPrimitive ==
    ASSUME NEW t \in Threads, pc[t] \in Body, \A u \in Threads \ {t} : SameLocals(u),
           NEW x \in Tasks, Settled(x)
    PROVE  Settled(x)'
<1>1. x # t /\ x \in Threads
  BY ThreadFacts DEF Settled, Body
<1> QED
  BY <1>1 DEF Settled, SameLocals

\* deref reads __error__.
LEMMA DerefFailureKeepsInv ==
    ASSUME IInv, NEW t \in Threads, DerefFailure(t)
    PROVE  IInv'
<1>1. /\ pc[t] = "failure" /\ TypeOK /\ ThreadAt(t) /\ target[t] \in Tasks /\ failed[t] = 0
      /\ Settled(target[t]) /\ TaskAt(target[t])
      /\ UNCHANGED <<kind, thread, error, result, done, hasThread, promise, registry, snapshot,
                     target, elems, index, failed, known, early, outcome, wins>>
  BY DEF DerefFailure, IInv, ThreadAt, attributes, exitVars, pmapVars
<1>2. pc[t] \in Body
  BY <1>1 DEF Body
<1>3. CASE error[target[t]] # NoError
  <2>1. /\ pc' = [pc EXCEPT ![t] = "return"]
        /\ answer' = [answer EXCEPT ![t] = <<target[t], <<"error", error[target[t]]>>>>]
    BY <1>3 DEF DerefFailure, Goto
  <2>2. <<"error", error[target[t]]>> = outcome[target[t]]
    BY <1>1, <1>3 DEF TaskAt, Recorded
  <2>3. answer' = [answer EXCEPT ![t] = <<target[t], outcome[target[t]]>>]
    BY <2>1, <2>2
  <2>4. /\ pc'[t] = "return" /\ pc'[t] \in Body /\ answer'[t] = <<target[t], outcome[target[t]]>>
        /\ \A u \in Threads \ {t} : SameLocals(u) /\ answer'[u] = answer[u]
    BY <1>1, <2>1, <2>3 DEF TypeOK, ThreadTypes, SameLocals, Body
  <2>5. <<target[t], outcome[target[t]]>> \in Answers
    BY <1>1 DEF Answers, TypeOK, TaskTypes
  <2>6. TypeOK'
    BY <1>1, <2>1, <2>3, <2>5 DEF TypeOK, TaskTypes, ThreadTypes, SharedTypes, Pcs, Body
  <2>7. ThreadAt(t)'
    BY <2>4 DEF ThreadAt
  <2>8. Settled(target[t])'
    BY <1>1, <1>2, <2>4, SettledByPrimitive DEF Settled
  <2>9. AnswerAt(t)'
    BY <1>1, <2>4, <2>8 DEF AnswerAt, Settled
  <2> QED
    BY <1>1, <1>2, <2>4, <2>6, <2>7, <2>9, PrimitiveStep
<1>4. CASE error[target[t]] = NoError
  <2>1. pc' = [pc EXCEPT ![t] = "result"] /\ UNCHANGED answer
    BY <1>4 DEF DerefFailure, Goto
  <2>2. /\ pc'[t] = "result" /\ pc'[t] \in Body
        /\ \A u \in Threads \ {t} : SameLocals(u) /\ answer'[u] = answer[u]
    BY <1>1, <2>1 DEF TypeOK, ThreadTypes, SameLocals, Body
  <2>3. TypeOK'
    BY <1>1, <2>1 DEF TypeOK, TaskTypes, ThreadTypes, SharedTypes, Pcs, Body
  <2>4. Settled(target[t])'
    BY <1>1, <1>2, <2>2, SettledByPrimitive DEF Settled
  <2>5. ThreadAt(t)'
    BY <1>1, <1>4, <2>2, <2>4 DEF ThreadAt, Settled
  <2> QED
    BY <1>1, <1>2, <2>1, <2>2, <2>3, <2>5, PrimitiveStep
<1> QED
  BY <1>3, <1>4

\* deref reads __result__.
LEMMA DerefResultKeepsInv ==
    ASSUME IInv, NEW t \in Threads, DerefResult(t)
    PROVE  IInv'
<1>1. /\ pc[t] = "result" /\ TypeOK /\ ThreadAt(t) /\ target[t] \in Tasks
      /\ error[target[t]] = NoError /\ Settled(target[t]) /\ TaskAt(target[t])
      /\ UNCHANGED <<kind, thread, error, result, done, hasThread, promise, registry, snapshot,
                     target, elems, index, failed, known, early, outcome, wins>>
      /\ pc' = [pc EXCEPT ![t] = "return"]
      /\ answer' = [answer EXCEPT ![t] = <<target[t], <<"value", result[target[t]]>>>>]
  BY DEF DerefResult, Goto, IInv, ThreadAt, attributes, exitVars, pmapVars
<1>2. <<"value", result[target[t]]>> = outcome[target[t]]
  BY <1>1 DEF TaskAt, Recorded
<1>3. answer' = [answer EXCEPT ![t] = <<target[t], outcome[target[t]]>>]
  BY <1>1, <1>2
<1>4. /\ pc[t] \in Body /\ pc'[t] = "return" /\ pc'[t] \in Body
      /\ answer'[t] = <<target[t], outcome[target[t]]>>
      /\ \A u \in Threads \ {t} : SameLocals(u) /\ answer'[u] = answer[u]
  BY <1>1, <1>3 DEF TypeOK, ThreadTypes, SameLocals, Body
<1>5. <<target[t], outcome[target[t]]>> \in Answers
  BY <1>1 DEF Answers, TypeOK, TaskTypes
<1>6. TypeOK'
  BY <1>1, <1>3, <1>5 DEF TypeOK, TaskTypes, ThreadTypes, SharedTypes, Pcs, Body
<1>7. ThreadAt(t)'
  BY <1>4 DEF ThreadAt
<1>8. Settled(target[t])'
  BY <1>1, <1>4, SettledByPrimitive DEF Settled
<1>9. AnswerAt(t)'
  BY <1>1, <1>4, <1>8 DEF AnswerAt, Settled
<1> QED
  BY <1>1, <1>4, <1>6, <1>7, <1>9, PrimitiveStep

\* realized? of a future or a promise.
LEMMA RealizedKeepsInv ==
    ASSUME IInv, NEW t \in Threads, NEW x \in Tasks \cup Promises, Realized(t, x)
    PROVE  IInv'
<1>1. /\ pc[t] = "clojure" /\ TypeOK
      /\ UNCHANGED <<kind, thread, error, result, done, hasThread, promise, registry, snapshot,
                     target, elems, index, failed, known, early, outcome, wins>>
      /\ pc' = [pc EXCEPT ![t] = "return"]
      /\ answer' = [answer EXCEPT ![t] = <<"realized", x>>]
  BY DEF Realized, Goto, IInv, attributes, exitVars, pmapVars
<1>2. /\ pc[t] \in Body /\ pc'[t] = "return" /\ pc'[t] \in Body /\ answer'[t] = <<"realized", x>>
      /\ \A u \in Threads \ {t} : SameLocals(u) /\ answer'[u] = answer[u]
  BY <1>1 DEF TypeOK, ThreadTypes, SameLocals, Body
<1>3. <<"realized", x>> \in Answers
  BY DEF Answers
<1>4. TypeOK'
  BY <1>1, <1>3 DEF TypeOK, TaskTypes, ThreadTypes, SharedTypes, Pcs, Body
<1>5. ThreadAt(t)'
  BY <1>2 DEF ThreadAt
<1>6. CASE x \in Promises
  <2>1. AnswerAt(t)'
    BY <1>2, <1>6 DEF AnswerAt
  <2> QED
    BY <1>1, <1>2, <1>4, <1>5, <2>1, PrimitiveStep
<1>7. CASE x \in Tasks
  <2>1. x \notin Promises
    BY <1>7, FuturesAssumption
  <2>2. Settled(x)
    BY <1>7, <2>1 DEF Realized, IInv, TaskAt, Settled
  <2>3. Settled(x)'
    BY <1>2, <1>7, <2>2, SettledByPrimitive
  <2>4. AnswerAt(t)'
    BY <1>2, <1>7, <2>3 DEF AnswerAt, Settled
  <2> QED
    BY <1>1, <1>2, <1>4, <1>5, <2>4, PrimitiveStep
<1> QED
  BY <1>6, <1>7

\* A primitive returns to its code.
LEMMA ReturnKeepsInv ==
    ASSUME IInv, NEW t \in Threads, Return(t)
    PROVE  IInv'
<1>1. /\ pc[t] = "return" /\ TypeOK
      /\ UNCHANGED <<kind, thread, error, result, done, hasThread, promise, registry, snapshot,
                     known, early, outcome, wins>>
      /\ pc' = [pc EXCEPT ![t] = "clojure"]
      /\ answer' = [answer EXCEPT ![t] = NoAnswer]
      /\ target' = [target EXCEPT ![t] = Nil]
      /\ elems' = [elems EXCEPT ![t] = <<>>]
      /\ index' = [index EXCEPT ![t] = 0]
      /\ failed' = [failed EXCEPT ![t] = 0]
  BY DEF Return, Goto, IInv, attributes, exitVars
<1>2. /\ pc[t] \in Body /\ pc'[t] = "clojure" /\ pc'[t] \in Body /\ answer'[t] = NoAnswer
      /\ failed'[t] = 0
      /\ \A u \in Threads \ {t} : SameLocals(u) /\ answer'[u] = answer[u]
  BY <1>1 DEF TypeOK, ThreadTypes, SameLocals, Body
<1>3. TypeOK'
  BY <1>1 DEF TypeOK, TaskTypes, ThreadTypes, SharedTypes, Pcs, Body, Answers
<1>4. ThreadAt(t)' /\ AnswerAt(t)'
  BY <1>2 DEF ThreadAt, AnswerAt
<1> QED
  BY <1>1, <1>2, <1>3, <1>4, PrimitiveStep

\* deref of a promise begins to wait.
LEMMA DerefPromiseKeepsInv ==
    ASSUME IInv, NEW t \in Threads, NEW p \in Promises, DerefPromise(t, p)
    PROVE  IInv'
<1>1. /\ pc[t] = "clojure" /\ TypeOK /\ ThreadAt(t) /\ failed[t] = 0
      /\ UNCHANGED <<kind, thread, error, result, done, hasThread, promise, registry, snapshot,
                     elems, index, failed, known, early, outcome, answer, wins>>
      /\ pc' = [pc EXCEPT ![t] = "poll"]
      /\ target' = [target EXCEPT ![t] = p]
  BY DEF DerefPromise, Goto, IInv, ThreadAt, attributes, exitVars, pmapVars, ghosts
<1>2. /\ pc[t] \in Body /\ pc'[t] = "poll" /\ pc'[t] \in Body /\ target'[t] = p
      /\ \A u \in Threads \ {t} : SameLocals(u) /\ answer'[u] = answer[u]
  BY <1>1 DEF TypeOK, ThreadTypes, SameLocals, Body
<1>3. TypeOK'
  BY <1>1 DEF TypeOK, TaskTypes, ThreadTypes, SharedTypes, Pcs, Body
<1>4. ThreadAt(t)'
  BY <1>1, <1>2 DEF ThreadAt
<1> QED
  BY <1>1, <1>2, <1>3, <1>4, PrimitiveStep

\* It finds the value.
LEMMA PollKeepsInv ==
    ASSUME IInv, NEW t \in Threads, Poll(t)
    PROVE  IInv'
<1>1. /\ pc[t] = "poll" /\ TypeOK /\ target[t] \in Promises /\ promise[target[t]] # Pending
      /\ UNCHANGED <<kind, thread, error, result, done, hasThread, promise, registry, snapshot,
                     target, elems, index, failed, known, early, outcome, wins>>
      /\ pc' = [pc EXCEPT ![t] = "return"]
      /\ answer' = [answer EXCEPT ![t] = <<target[t], <<"value", promise[target[t]]>>>>]
  BY DEF Poll, Goto, IInv, ThreadAt, attributes, exitVars, pmapVars
<1>2. /\ pc[t] \in Body /\ pc'[t] = "return" /\ pc'[t] \in Body
      /\ answer'[t] = <<target[t], <<"value", promise[target[t]]>>>>
      /\ \A u \in Threads \ {t} : SameLocals(u) /\ answer'[u] = answer[u]
  BY <1>1 DEF TypeOK, ThreadTypes, SameLocals, Body
<1>3. <<target[t], <<"value", promise[target[t]]>>>> \in Answers
  <2>1. promise[target[t]] \in Values
    BY <1>1 DEF TypeOK, SharedTypes
  <2>2. <<"value", promise[target[t]]>> \in Outcomes
    BY <2>1 DEF Outcomes
  <2> QED
    BY <1>1, <2>2 DEF Answers
<1>4. TypeOK'
  BY <1>1, <1>3 DEF TypeOK, TaskTypes, ThreadTypes, SharedTypes, Pcs, Body
<1>5. ThreadAt(t)'
  BY <1>2 DEF ThreadAt
<1>6. AnswerAt(t)'
  BY <1>1, <1>2 DEF AnswerAt
<1> QED
  BY <1>1, <1>2, <1>4, <1>5, <1>6, PrimitiveStep

\* pmap is called.
LEMMA PmapCallKeepsInv ==
    ASSUME IInv, NEW t \in Threads, PmapCall(t)
    PROVE  IInv'
<1>1. /\ pc[t] = "clojure" /\ TypeOK /\ ThreadAt(t) /\ failed[t] = 0
      /\ UNCHANGED <<kind, thread, error, result, done, hasThread, promise, registry, snapshot,
                     target, elems, index, failed, known, early, outcome, answer, wins>>
      /\ pc' = [pc EXCEPT ![t] = "spawn"]
  BY DEF PmapCall, Goto, IInv, ThreadAt, attributes, exitVars, pmapVars, ghosts
<1>2. /\ pc[t] \in Body /\ pc'[t] = "spawn" /\ pc'[t] \in Body
      /\ \A u \in Threads \ {t} : SameLocals(u) /\ answer'[u] = answer[u]
  BY <1>1 DEF TypeOK, ThreadTypes, SameLocals, Body
<1>3. TypeOK'
  BY <1>1 DEF TypeOK, TaskTypes, ThreadTypes, SharedTypes, Pcs, Body
<1>4. ThreadAt(t)'
  BY <1>1, <1>2 DEF ThreadAt
<1> QED
  BY <1>1, <1>2, <1>3, <1>4, PrimitiveStep

\* All of its threads are started.
LEMMA PmapSpawnedKeepsInv ==
    ASSUME IInv, NEW t \in Threads, PmapSpawned(t)
    PROVE  IInv'
<1>1. /\ pc[t] = "spawn" /\ TypeOK /\ ThreadAt(t) /\ failed[t] = 0
      /\ UNCHANGED <<kind, thread, error, result, done, hasThread, promise, registry, snapshot,
                     target, elems, failed, known, early, outcome, answer, wins>>
      /\ pc' = [pc EXCEPT ![t] = "collect"]
      /\ index' = [index EXCEPT ![t] = 1]
  BY DEF PmapSpawned, Goto, IInv, ThreadAt, attributes, exitVars, ghosts
<1>2. /\ pc[t] \in Body /\ pc'[t] = "collect" /\ pc'[t] \in Body /\ index'[t] = 1
      /\ failed'[t] = 0 /\ elems'[t] \in Seq(Tasks) /\ Len(elems'[t]) \in Nat
      /\ \A u \in Threads \ {t} : SameLocals(u) /\ answer'[u] = answer[u]
  BY <1>1 DEF TypeOK, ThreadTypes, SameLocals, Body
<1>3. TypeOK'
  BY <1>1 DEF TypeOK, TaskTypes, ThreadTypes, SharedTypes, Pcs, Body
<1>4. FirstFailure(elems[t], index[t] - 1, failed[t])'
  BY <1>2 DEF FirstFailure
<1>5. ThreadAt(t)'
  BY <1>2, <1>4 DEF ThreadAt
<1> QED
  BY <1>1, <1>2, <1>3, <1>5, PrimitiveStep

\* The next element is joined, and its error noted if it is the first.
LEMMA PmapCollectKeepsInv ==
    ASSUME IInv, NEW t \in Threads, PmapCollect(t)
    PROVE  IInv'
<1> DEFINE n == index[t]
           es == elems[t]
           g == IF failed[t] = 0 /\ error[es[n]] # NoError THEN n ELSE failed[t]
<1>1. /\ pc[t] = "collect" /\ TypeOK /\ ThreadAt(t)
      /\ UNCHANGED <<kind, thread, error, result, done, hasThread, promise, registry, snapshot,
                     pc, target, elems, known, early, outcome, answer, wins>>
      /\ n <= Len(es) /\ thread[es[n]] = "ended"
      /\ failed' = [failed EXCEPT ![t] = g]
      /\ index' = [index EXCEPT ![t] = n + 1]
  BY DEF PmapCollect, IInv, attributes, exitVars, ghosts
<1>2. /\ es \in Seq(Tasks) /\ Len(es) \in Nat /\ failed[t] \in Nat /\ n \in 1..Len(es)
      /\ FirstFailure(es, n - 1, failed[t])
  BY <1>1 DEF TypeOK, ThreadTypes, ThreadAt
<1>3. g \in Nat /\ n + 1 \in Nat /\ (n + 1) - 1 = n
  BY <1>2
<1>4. /\ pc[t] \in Body /\ pc'[t] = "collect" /\ pc'[t] \in Body
      /\ index'[t] = n + 1 /\ failed'[t] = g /\ elems'[t] = es
      /\ \A u \in Threads \ {t} : SameLocals(u) /\ answer'[u] = answer[u]
  BY <1>1 DEF TypeOK, ThreadTypes, SameLocals, Body
<1>5. TypeOK'
  BY <1>1, <1>3 DEF TypeOK, TaskTypes, ThreadTypes, SharedTypes
<1>6. FirstFailure(es, n, g)
  <2>1. \A i \in 1..n : i = n \/ i \in 1..(n - 1)
    BY <1>2
  <2>2. \A i \in 1..n : thread[es[i]] = "ended"
    BY <1>1, <1>2, <2>1 DEF FirstFailure
  <2>3. CASE failed[t] = 0 /\ error[es[n]] # NoError
    <3>1. g = n
      BY <2>3
    <3>2. n # 0 /\ n \in 0..n
      BY <1>2
    <3> QED
      BY <1>2, <2>2, <2>3, <3>1, <3>2 DEF FirstFailure
  <2>4. CASE failed[t] = 0 /\ error[es[n]] = NoError
    <3>1. g = 0
      BY <2>4
    <3>2. \A i \in 1..n : error[es[i]] = NoError
      BY <1>2, <2>1, <2>4 DEF FirstFailure
    <3>3. 0 \in 0..n
      BY <1>2
    <3> QED
      BY <2>2, <3>1, <3>2, <3>3 DEF FirstFailure
  <2>5. CASE failed[t] # 0
    <3>1. g = failed[t]
      BY <2>5
    <3>2. failed[t] \in 0..n
      BY <1>2 DEF FirstFailure
    <3> QED
      BY <1>2, <2>2, <2>5, <3>1, <3>2 DEF FirstFailure
  <2> QED
    BY <2>3, <2>4, <2>5
<1> HIDE DEF n, es, g
<1>7. FirstFailure(elems[t], index[t] - 1, failed[t])'
  BY <1>1, <1>3, <1>4, <1>6 DEF FirstFailure
<1>8. index'[t] \in 1..(Len(elems'[t]) + 1)
  BY <1>2, <1>4
<1>9. ThreadAt(t)'
  BY <1>4, <1>7, <1>8 DEF ThreadAt
<1> QED
  BY <1>1, <1>4, <1>5, <1>9, PrimitiveStep

\* pmap answers.
LEMMA PmapReturnsKeepsInv ==
    ASSUME IInv, NEW t \in Threads, PmapReturns(t)
    PROVE  IInv'
<1> DEFINE es == elems[t]
           f == failed[t]
           what == IF f # 0 THEN <<"error", error[es[f]]>>
                   ELSE <<"value", [i \in 1..Len(es) |-> result[es[i]]]>>
<1>1. /\ pc[t] = "collect" /\ TypeOK /\ ThreadAt(t)
      /\ UNCHANGED <<kind, thread, error, result, done, hasThread, promise, registry, snapshot,
                     target, elems, index, failed, known, early, outcome, wins>>
      /\ index[t] > Len(es)
      /\ pc' = [pc EXCEPT ![t] = "return"]
      /\ answer' = [answer EXCEPT ![t] = <<"pmap", what, es>>]
  BY DEF PmapReturns, Goto, IInv, attributes, exitVars, pmapVars
<1>2. /\ es \in Seq(Tasks) /\ Len(es) \in Nat /\ f \in Nat /\ index[t] - 1 = Len(es)
      /\ FirstFailure(es, Len(es), f)
  <2>1. es \in Seq(Tasks) /\ Len(es) \in Nat /\ f \in Nat
    BY <1>1 DEF TypeOK, ThreadTypes
  <2>2. index[t] - 1 = Len(es)
    BY <1>1, <2>1 DEF ThreadAt
  <2> QED
    BY <1>1, <2>1, <2>2 DEF ThreadAt
<1>3. what \in Outcomes \cup ({"value"} \X Rows)
  <2>1. CASE f # 0
    <3>1. es[f] \in Tasks /\ error[es[f]] # NoError
      BY <1>2, <2>1 DEF FirstFailure
    <3>2. error[es[f]] \in Values
      BY <1>1, <3>1 DEF TypeOK, TaskTypes
    <3> QED
      BY <2>1, <3>2 DEF Outcomes
  <2>2. CASE f = 0
    <3>1. \A i \in 1..Len(es) : result[es[i]] \in Values \cup {Nil}
      BY <1>1, <1>2 DEF TypeOK, TaskTypes
    <3>2. [i \in 1..Len(es) |-> result[es[i]]] \in [1..Len(es) -> Values \cup {Nil}]
      BY <3>1
    <3>3. [i \in 1..Len(es) |-> result[es[i]]] \in Rows
      BY <1>2, <3>2 DEF Rows
    <3> QED
      BY <2>2, <3>3
  <2> QED
    BY <2>1, <2>2
<1> HIDE DEF what
<1>4. <<"pmap", what, es>> \in Answers
  BY <1>2, <1>3 DEF Answers
<1>5. /\ pc[t] \in Body /\ pc'[t] = "return" /\ pc'[t] \in Body
      /\ answer'[t] = <<"pmap", what, es>>
      /\ \A u \in Threads \ {t} : SameLocals(u) /\ answer'[u] = answer[u]
  BY <1>1 DEF TypeOK, ThreadTypes, SameLocals, Body
<1>6. TypeOK'
  BY <1>1, <1>4 DEF TypeOK, TaskTypes, ThreadTypes, SharedTypes, Pcs, Body
<1>7. ThreadAt(t)'
  BY <1>5 DEF ThreadAt
<1>8. AnswerAt(t)'
  <2> HIDE DEF es, f
  <2>1. FirstFailure(es, Len(es), f)'
    BY <1>1, <1>2 DEF FirstFailure, es, f
  <2>2. answer'[t] = <<"pmap", IF f # 0 THEN <<"error", error'[es[f]]>>
                               ELSE <<"value", [i \in 1..Len(es) |-> result'[es[i]]]>>, es>>
    BY <1>1, <1>5 DEF what
  <2>3. \E ds \in Seq(Tasks), h \in Nat :
          /\ FirstFailure(ds, Len(ds), h)'
          /\ answer'[t] = <<"pmap", IF h # 0 THEN <<"error", error'[ds[h]]>>
                               ELSE <<"value", [i \in 1..Len(ds) |-> result'[ds[i]]]>>, ds>>
    <3>1. ASSUME NEW ds, NEW h, ds = es, h = f
          PROVE  /\ FirstFailure(ds, Len(ds), h)'
                 /\ answer'[t] = <<"pmap", IF h # 0 THEN <<"error", error'[ds[h]]>>
                               ELSE <<"value", [i \in 1..Len(ds) |-> result'[ds[i]]]>>, ds>>
      BY <1>1, <2>1, <2>2, <3>1 DEF FirstFailure, es, f
    <3> QED
      BY <1>2, <3>1
  <2> QED
    BY <2>3 DEF AnswerAt
<1> QED
  BY <1>1, <1>5, <1>6, <1>7, <1>8, PrimitiveStep

\* deliver: the compare-and-set on an undelivered promise.
LEMMA DeliverKeepsInv ==
    ASSUME IInv, NEW t \in Threads, NEW p \in Promises, NEW v \in Values, Deliver(t, p, v)
    PROVE  IInv'
<1>1. /\ TypeOK /\ promise[p] = Pending
      /\ UNCHANGED <<kind, thread, error, result, done, hasThread, registry, snapshot, pc,
                     target, elems, index, failed, known, early, outcome, answer>>
      /\ promise' = [promise EXCEPT ![p] = v]
      /\ wins' = [wins EXCEPT ![p] = Append(wins[p], v)]
  BY DEF Deliver, IInv, attributes, exitVars, pmapVars
<1>2. wins[p] = <<>> /\ wins[p] \in Seq(Values)
  BY <1>1 DEF IInv, PromiseAt, TypeOK, SharedTypes
<1>3. Append(wins[p], v) = <<v>> /\ <<v>> \in Seq(Values)
  BY <1>2
<1>4. TypeOK'
  BY <1>1, <1>3 DEF TypeOK, TaskTypes, ThreadTypes, SharedTypes
<1>5. Steady
  BY <1>1 DEF Steady, Settled, TypeOK, SharedTypes
<1>6. ASSUME NEW x \in Tasks PROVE TaskAt(x)'
  BY <1>1 DEF IInv, TaskAt, Settled, Recorded
<1>7. ASSUME NEW u \in Threads PROVE ThreadAt(u)' /\ AnswerAt(u)'
  BY <1>1, <1>5, ThreadSteady, AnswerSteady DEF SameLocals
<1>8. ASSUME NEW q \in Promises PROVE PromiseAt(q)'
  <2>1. CASE q = p
    <3>1. promise'[q] = v /\ wins'[q] = <<v>> /\ v # Pending
      BY <1>1, <1>3, <2>1, FuturesAssumption DEF TypeOK, SharedTypes
    <3> QED
      BY <3>1 DEF PromiseAt
  <2>2. CASE q # p
    BY <1>1, <2>2 DEF IInv, PromiseAt, TypeOK, SharedTypes
  <2> QED
    BY <2>1, <2>2
<1>9. ExitAt'
  BY <1>1, ExitSteady
<1> QED
  BY <1>4, <1>6, <1>7, <1>8, <1>9 DEF IInv

-----------------------------------------------------------------------------
(* The threads of tasks begin and end. *)

\* Thread t starts the thread of the task x and goes on with the primitive it
\* is in.
LEMMA SpawnStep ==
    ASSUME IInv, NEW t \in Threads, NEW x \in Tasks, pc[t] \in Body, NEW label \in Body,
           NEW k \in {"future", "element"}, NewThread(t, x, label),
           kind' = [kind EXCEPT ![x] = k],
           UNCHANGED <<error, result, done, outcome, promise, wins, answer, failed,
                       registry, snapshot, known, early>>,
           \A y \in Tasks : hasThread[y] => hasThread'[y],
           \A u \in Threads \ {t} : target'[u] = target[u] /\ elems'[u] = elems[u]
                                      /\ index'[u] = index[u],
           TypeOK', ThreadAt(t)'
    PROVE  IInv'
<1>1. /\ pc[x] = "unborn" /\ thread[x] = "unborn" /\ error[x] = NoError /\ ~done[x]
      /\ x \in Threads /\ x # t /\ TaskAt(x) /\ ThreadAt(x) /\ failed[x] = 0 /\ TypeOK
  BY ThreadFacts DEF IInv, TaskAt, ThreadAt, NewThread, Body
<1>2. /\ thread' = [thread EXCEPT ![x] = "running"]
      /\ pc' = [pc EXCEPT ![t] = label, ![x] = "clojure"]
  BY DEF NewThread
<1>3. /\ pc'[t] = label /\ pc'[x] = "clojure" /\ thread'[x] = "running" /\ kind'[x] = k
      /\ \A u \in Threads \ {t, x} : SameLocals(u)
      /\ \A y \in Tasks \ {x} : thread'[y] = thread[y] /\ kind'[y] = kind[y]
  BY <1>1, <1>2 DEF TypeOK, TaskTypes, ThreadTypes, SameLocals
<1>4. ASSUME NEW y \in Tasks
      PROVE  (Settled(y) => Settled(y)') /\ (y # x /\ Settled(y)' => Settled(y))
  <2>1. y \in Threads
    BY ThreadFacts
  <2>2. CASE y = t
    BY <1>3, <2>2 DEF Settled, Body
  <2>3. CASE y = x
    BY <1>1, <2>3 DEF Settled
  <2>4. CASE y \notin {t, x}
    BY <1>3, <2>1, <2>4 DEF Settled, SameLocals
  <2> QED
    BY <2>2, <2>3, <2>4
<1>5. Steady
  BY <1>1, <1>3, <1>4 DEF Steady
<1>6. ASSUME NEW y \in Tasks PROVE TaskAt(y)'
  <2>1. TaskAt(y) /\ y \in Threads /\ Recorded(y)' = Recorded(y)
    BY ThreadFacts DEF IInv, Recorded
  <2>2. CASE y = x
    <3>1. pc'[y] = "clojure" /\ kind'[y] # "none" /\ thread'[y] = "running"
      BY <1>3, <2>2
    <3>2. error'[y] = NoError /\ ~done'[y]
      BY <1>1, <2>2
    <3> QED
      BY <3>1, <3>2 DEF TaskAt, Settled, Body
  <2>3. CASE y = t
    <3>1. pc[y] \in Body /\ pc'[y] \in Body /\ kind'[y] = kind[y] /\ thread'[y] = thread[y]
      BY <1>1, <1>3, <2>3
    <3> QED
      BY <2>1, <3>1 DEF TaskAt, Settled, Body
  <2>4. CASE y \notin {t, x}
    <3>1. pc'[y] = pc[y] /\ target'[y] = target[y] /\ kind'[y] = kind[y] /\ thread'[y] = thread[y]
      BY <1>3, <2>1, <2>4 DEF SameLocals
    <3> QED
      BY <2>1, <3>1 DEF TaskAt, Settled
  <2> QED
    BY <2>2, <2>3, <2>4
<1>7. ThreadAt(x)'
  BY <1>1, <1>3 DEF ThreadAt
<1>8. \A u \in Threads : ThreadAt(u)' /\ AnswerAt(u)'
  BY <1>3, <1>5, <1>7, ThreadSteady, AnswerSteady
<1>9. \A p \in Promises : PromiseAt(p)'
  BY DEF IInv, PromiseAt
<1>10. ExitAt'
  <2>1. pc'[Main] = pc[Main] \/ (pc[Main] \notin Exit /\ pc'[Main] \notin Exit)
    <3>1. Main # x /\ Main \in Threads
      BY ThreadFacts
    <3>2. CASE Main = t
      BY <1>3, <3>2 DEF Body, Exit
    <3>3. CASE Main # t
      BY <1>3, <3>1, <3>3 DEF SameLocals
    <3> QED
      BY <3>2, <3>3
  <2> QED
    BY <1>5, <2>1, ExitSteady DEF Steady
<1> QED
  BY <1>6, <1>8, <1>9, <1>10 DEF IInv

\* A future is made and its thread started.
LEMMA BuildFutureKeepsInv ==
    ASSUME IInv, NEW t \in Threads, NEW x \in Tasks, BuildFuture(t, x)
    PROVE  IInv'
<1>1. /\ pc[t] = "clojure" /\ TypeOK /\ ThreadAt(t) /\ failed[t] = 0
      /\ UNCHANGED <<error, result, done, hasThread, promise, registry, snapshot, elems, index,
                     failed, known, early, outcome, answer, wins>>
      /\ NewThread(t, x, "setThread")
      /\ kind' = [kind EXCEPT ![x] = "future"]
      /\ target' = [target EXCEPT ![t] = x]
  BY DEF BuildFuture, IInv, ThreadAt, attributes, exitVars, pmapVars, ghosts
<1>2. pc[x] = "unborn" /\ x # t /\ x \in Threads
  BY <1>1, ThreadFacts DEF NewThread, IInv, TaskAt
<1>3. /\ thread' = [thread EXCEPT ![x] = "running"]
      /\ pc' = [pc EXCEPT ![t] = "setThread", ![x] = "clojure"]
  BY <1>1 DEF NewThread
<1>4. TypeOK'
  BY <1>1, <1>3 DEF TypeOK, TaskTypes, ThreadTypes, SharedTypes, Pcs, Body
<1>5. /\ pc'[t] = "setThread" /\ target'[t] = x /\ pc[t] \in Body /\ "setThread" \in Body
      /\ \A u \in Threads \ {t} : target'[u] = target[u] /\ elems'[u] = elems[u]
                                    /\ index'[u] = index[u]
  BY <1>1, <1>2, <1>3 DEF TypeOK, ThreadTypes, Body
<1>6. ThreadAt(t)'
  BY <1>1, <1>5 DEF ThreadAt
<1> QED
  BY <1>1, <1>4, <1>5, <1>6, SpawnStep

\* pmap starts the thread of its next element.
LEMMA PmapSpawnKeepsInv ==
    ASSUME IInv, NEW t \in Threads, NEW x \in Tasks, PmapSpawn(t, x)
    PROVE  IInv'
<1>1. /\ pc[t] = "spawn" /\ TypeOK /\ ThreadAt(t) /\ failed[t] = 0
      /\ UNCHANGED <<error, result, done, promise, registry, snapshot, target, index,
                     failed, known, early, outcome, answer, wins>>
      /\ NewThread(t, x, "spawn")
      /\ kind' = [kind EXCEPT ![x] = "element"]
      /\ hasThread' = [hasThread EXCEPT ![x] = TRUE]
      /\ elems' = [elems EXCEPT ![t] = Append(elems[t], x)]
  BY DEF PmapSpawn, IInv, ThreadAt, exitVars, ghosts
<1>2. /\ pc[x] = "unborn" /\ x # t /\ x \in Threads
      /\ Append(elems[t], x) \in Seq(Tasks)
  BY <1>1, ThreadFacts DEF NewThread, IInv, TaskAt, TypeOK, ThreadTypes
<1>3. /\ thread' = [thread EXCEPT ![x] = "running"]
      /\ pc' = [pc EXCEPT ![t] = "spawn", ![x] = "clojure"]
  BY <1>1 DEF NewThread
<1>4. TypeOK'
  <2>1. TaskTypes'
    BY <1>1, <1>3 DEF TypeOK, TaskTypes
  <2>2. ThreadTypes'
    BY <1>1, <1>2, <1>3 DEF TypeOK, ThreadTypes, Pcs, Body
  <2>3. SharedTypes'
    BY <1>1 DEF TypeOK, SharedTypes
  <2> QED
    BY <2>1, <2>2, <2>3 DEF TypeOK
<1>5. /\ pc'[t] = "spawn" /\ pc[t] \in Body /\ "spawn" \in Body
      /\ \A y \in Tasks : hasThread[y] => hasThread'[y]
      /\ \A u \in Threads \ {t} : target'[u] = target[u] /\ elems'[u] = elems[u]
                                    /\ index'[u] = index[u]
  BY <1>1, <1>2, <1>3 DEF TypeOK, TaskTypes, ThreadTypes, Body
<1>6. ThreadAt(t)'
  BY <1>1, <1>5 DEF ThreadAt
<1> QED
  BY <1>1, <1>4, <1>5, <1>6, SpawnStep

\* The thread of the task x stores what its body did, a step at a time.
LEMMA EndingStep ==
    ASSUME IInv, NEW x \in Tasks,
           UNCHANGED <<kind, hasThread, promise, wins, answer, elems, index, failed,
                       registry, snapshot, known, early>>,
           \A u \in Threads \ {x} : pc'[u] = pc[u] /\ target'[u] = target[u],
           \A y \in Tasks \ {x} : /\ thread'[y] = thread[y] /\ error'[y] = error[y]
                                  /\ result'[y] = result[y] /\ done'[y] = done[y]
                                  /\ outcome'[y] = outcome[y],
           Settled(x) => /\ Settled(x)' /\ error'[x] = error[x] /\ result'[x] = result[x]
                         /\ outcome'[x] = outcome[x],
           thread[x] # "ended",
           TypeOK', TaskAt(x)',
           pc[x] \notin {"collect", "return"},
           pc'[x] \in {"storeError", "storeResult", "storeDone", "leave", "ended"}
    PROVE  IInv'
<1>1. ASSUME NEW y \in Tasks, y # x
      PROVE  pc'[y] = pc[y] /\ target'[y] = target[y] /\ (Settled(y) <=> Settled(y)')
  BY <1>1, ThreadFacts DEF Settled
<1>2. Steady
  BY <1>1 DEF Steady
<1>3. ASSUME NEW y \in Tasks, y # x PROVE TaskAt(y)'
  <2>1. /\ TaskAt(y) /\ Recorded(y)' = Recorded(y) /\ kind'[y] = kind[y]
        /\ thread'[y] = thread[y] /\ error'[y] = error[y]
        /\ done'[y] = done[y] /\ outcome'[y] = outcome[y]
    BY <1>3 DEF IInv, Recorded
  <2> QED
    BY <1>1, <1>3, <2>1 DEF TaskAt
<1>4. ThreadAt(x)'
  BY ThreadFacts DEF IInv, ThreadAt
<1>5. \A u \in Threads : ThreadAt(u)' /\ AnswerAt(u)'
  BY <1>2, <1>4, ThreadSteady, AnswerSteady DEF SameLocals
<1>6. \A p \in Promises : PromiseAt(p)'
  BY DEF IInv, PromiseAt
<1>7. ExitAt'
  BY <1>2, ThreadFacts, ExitSteady DEF Steady
<1> QED
  BY <1>3, <1>5, <1>6, <1>7 DEF IInv

\* A body returns or throws.
LEMMA BodyEndsKeepsInv ==
    ASSUME IInv, NEW x \in Tasks, NEW v \in Values, BodyReturns(x, v) \/ BodyThrows(x, v)
    PROVE  IInv'
<1>1. /\ pc[x] = "clojure" /\ TypeOK /\ TaskAt(x) /\ thread[x] = "running" /\ x \in Threads
      /\ UNCHANGED <<kind, thread, error, result, done, hasThread, promise, registry, snapshot,
                     elems, index, failed, known, early, answer, wins>>
      /\ target' = [target EXCEPT ![x] = v]
  BY ThreadFacts DEF BodyReturns, BodyThrows, IInv, TaskAt, attributes, exitVars, pmapVars
<1>2. /\ \A u \in Threads \ {x} : target'[u] = target[u]
      /\ target'[x] = v /\ ~Settled(x) /\ error'[x] = NoError /\ ~done'[x]
      /\ kind'[x] # "none" /\ thread'[x] = "running"
  BY <1>1 DEF TypeOK, TaskTypes, ThreadTypes, Settled, TaskAt, Body
<1>3. CASE BodyReturns(x, v)
  <2>1. pc' = [pc EXCEPT ![x] = "storeResult"] /\ outcome' = [outcome EXCEPT ![x] = <<"value", v>>]
    BY <1>3 DEF BodyReturns, Goto
  <2>2. /\ pc'[x] = "storeResult" /\ outcome'[x] = <<"value", v>>
        /\ \A u \in Threads \ {x} : pc'[u] = pc[u]
        /\ \A y \in Tasks \ {x} : outcome'[y] = outcome[y]
    BY <1>1, <2>1 DEF TypeOK, TaskTypes, ThreadTypes
  <2>3. TypeOK'
    <3>1. <<"value", v>> \in Outcomes
      BY DEF Outcomes
    <3> QED
      BY <1>1, <2>1, <3>1 DEF TypeOK, TaskTypes, ThreadTypes, SharedTypes, Pcs
  <2>4. TaskAt(x)'
    BY <1>2, <2>2 DEF TaskAt, Settled, Body
  <2> QED
    BY <1>1, <1>2, <2>2, <2>3, <2>4, EndingStep
<1>4. CASE BodyThrows(x, v)
  <2>1. pc' = [pc EXCEPT ![x] = "storeError"] /\ outcome' = [outcome EXCEPT ![x] = <<"error", v>>]
    BY <1>4 DEF BodyThrows, Goto
  <2>2. /\ pc'[x] = "storeError" /\ outcome'[x] = <<"error", v>>
        /\ \A u \in Threads \ {x} : pc'[u] = pc[u]
        /\ \A y \in Tasks \ {x} : outcome'[y] = outcome[y]
    BY <1>1, <2>1 DEF TypeOK, TaskTypes, ThreadTypes
  <2>3. TypeOK'
    <3>1. <<"error", v>> \in Outcomes
      BY DEF Outcomes
    <3> QED
      BY <1>1, <2>1, <3>1 DEF TypeOK, TaskTypes, ThreadTypes, SharedTypes, Pcs
  <2>4. TaskAt(x)'
    BY <1>2, <2>2 DEF TaskAt, Settled, Body
  <2> QED
    BY <1>1, <1>2, <2>2, <2>3, <2>4, EndingStep
<1> QED
  BY <1>3, <1>4

\* The store of __error__.
LEMMA StoreErrorKeepsInv ==
    ASSUME IInv, NEW x \in Tasks, StoreError(x)
    PROVE  IInv'
<1>1. /\ pc[x] = "storeError" /\ TypeOK /\ TaskAt(x) /\ thread[x] = "running" /\ x \in Threads
      /\ target[x] \in Values /\ outcome[x] = <<"error", target[x]>> /\ kind[x] # "none"
      /\ ~done[x]
      /\ UNCHANGED <<kind, thread, result, done, hasThread, promise, registry, snapshot,
                     elems, index, failed, known, early, outcome, answer, wins>>
      /\ error' = [error EXCEPT ![x] = target[x]]
      /\ target' = [target EXCEPT ![x] = Nil]
      /\ pc' = [pc EXCEPT ![x] = "storeResult"]
  BY ThreadFacts DEF StoreError, Goto, IInv, TaskAt, exitVars, pmapVars, ghosts
<1>2. /\ pc'[x] = "storeResult" /\ target'[x] = Nil /\ error'[x] = target[x]
      /\ \A u \in Threads \ {x} : pc'[u] = pc[u] /\ target'[u] = target[u]
      /\ \A y \in Tasks \ {x} : error'[y] = error[y]
  BY <1>1 DEF TypeOK, TaskTypes, ThreadTypes
<1>3. TypeOK'
  BY <1>1 DEF TypeOK, TaskTypes, ThreadTypes, SharedTypes, Pcs
<1>4. target[x] # NoError /\ ~Settled(x)
  BY <1>1, FuturesAssumption DEF Settled
<1>5. TaskAt(x)'
  BY <1>1, <1>2, <1>4 DEF TaskAt, Settled, Body
<1> QED
  BY <1>1, <1>2, <1>3, <1>4, <1>5, EndingStep

\* The store of __result__.
LEMMA StoreResultKeepsInv ==
    ASSUME IInv, NEW x \in Tasks, StoreResult(x)
    PROVE  IInv'
<1>1. /\ pc[x] = "storeResult" /\ TypeOK /\ TaskAt(x) /\ thread[x] = "running" /\ x \in Threads
      /\ kind[x] # "none" /\ ~done[x]
      /\ \/ error[x] = NoError /\ target[x] \in Values /\ outcome[x] = <<"value", target[x]>>
         \/ error[x] # NoError /\ target[x] = Nil /\ outcome[x] = <<"error", error[x]>>
      /\ UNCHANGED <<kind, thread, error, done, hasThread, promise, registry, snapshot, target,
                     elems, index, failed, known, early, outcome, answer, wins>>
      /\ result' = [result EXCEPT ![x] = target[x]]
      /\ pc' = [pc EXCEPT ![x] = "storeDone"]
  BY ThreadFacts DEF StoreResult, Goto, IInv, TaskAt, exitVars, pmapVars, ghosts
<1>2. /\ pc'[x] = "storeDone" /\ result'[x] = target[x]
      /\ \A u \in Threads \ {x} : pc'[u] = pc[u] /\ target'[u] = target[u]
      /\ \A y \in Tasks \ {x} : result'[y] = result[y]
  BY <1>1 DEF TypeOK, TaskTypes, ThreadTypes
<1>3. TypeOK'
  BY <1>1 DEF TypeOK, TaskTypes, ThreadTypes, SharedTypes, Pcs
<1>4. ~Settled(x)
  BY <1>1 DEF Settled
<1>5. outcome'[x] = Recorded(x)'
  BY <1>1, <1>2 DEF Recorded
<1>6. TaskAt(x)'
  BY <1>1, <1>2, <1>5 DEF TaskAt, Body
<1> QED
  BY <1>1, <1>2, <1>3, <1>4, <1>6, EndingStep

\* The store of __done__.
LEMMA StoreDoneKeepsInv ==
    ASSUME IInv, NEW x \in Tasks, StoreDone(x)
    PROVE  IInv'
<1>1. /\ pc[x] = "storeDone" /\ TypeOK /\ TaskAt(x) /\ thread[x] = "running" /\ x \in Threads
      /\ kind[x] # "none" /\ outcome[x] = Recorded(x)
      /\ UNCHANGED <<kind, thread, error, result, hasThread, promise, registry, snapshot, target,
                     elems, index, failed, known, early, outcome, answer, wins>>
      /\ done' = [done EXCEPT ![x] = TRUE]
      /\ pc' = [pc EXCEPT ![x] = "leave"]
  BY ThreadFacts DEF StoreDone, Goto, IInv, TaskAt, Settled, exitVars, pmapVars, ghosts
<1>2. /\ pc'[x] = "leave"
      /\ \A u \in Threads \ {x} : pc'[u] = pc[u] /\ target'[u] = target[u]
      /\ \A y \in Tasks \ {x} : done'[y] = done[y]
  BY <1>1 DEF TypeOK, TaskTypes, ThreadTypes
<1>3. TypeOK'
  BY <1>1 DEF TypeOK, TaskTypes, ThreadTypes, SharedTypes, Pcs
<1>4. Settled(x)'
  BY <1>2 DEF Settled
<1>5. outcome'[x] = Recorded(x)'
  BY <1>1 DEF Recorded
<1>6. TaskAt(x)'
  BY <1>1, <1>2, <1>5 DEF TaskAt, Body
<1> QED
  BY <1>1, <1>2, <1>3, <1>4, <1>6, EndingStep

\* A thread ends.
LEMMA ThreadEndsKeepsInv ==
    ASSUME IInv, NEW x \in Tasks, ThreadEnds(x)
    PROVE  IInv'
<1>1. /\ pc[x] = "leave" /\ TypeOK /\ TaskAt(x) /\ thread[x] = "running" /\ x \in Threads
      /\ kind[x] # "none" /\ outcome[x] = Recorded(x)
      /\ UNCHANGED <<kind, error, result, done, hasThread, promise, registry, snapshot,
                     elems, index, failed, known, early, outcome, answer, wins>>
      /\ thread' = [thread EXCEPT ![x] = "ended"]
      /\ target' = [target EXCEPT ![x] = Nil]
      /\ pc' = [pc EXCEPT ![x] = "ended"]
  BY ThreadFacts
     DEF ThreadEnds, Goto, IInv, TaskAt, Settled, attributes, exitVars, pmapVars, ghosts
<1>2. /\ pc'[x] = "ended" /\ thread'[x] = "ended"
      /\ \A u \in Threads \ {x} : pc'[u] = pc[u] /\ target'[u] = target[u]
      /\ \A y \in Tasks \ {x} : thread'[y] = thread[y]
  BY <1>1 DEF TypeOK, TaskTypes, ThreadTypes
<1>3. TypeOK'
  BY <1>1 DEF TypeOK, TaskTypes, ThreadTypes, SharedTypes, Pcs, Exit
<1>4. Settled(x)'
  BY <1>2 DEF Settled
<1>5. outcome'[x] = Recorded(x)'
  BY <1>1 DEF Recorded
<1>6. TaskAt(x)'
  BY <1>1, <1>2, <1>5 DEF TaskAt, Body
<1> QED
  BY <1>1, <1>2, <1>3, <1>4, <1>6, EndingStep

-----------------------------------------------------------------------------
(* The end of the run. *)

\* A step of a thread that is no task's, outside the primitives.
LEMMA OuterStep ==
    ASSUME IInv, NEW w \in Threads \ Tasks,
           UNCHANGED <<kind, thread, error, result, done, hasThread, promise, target,
                       elems, index, failed, outcome, answer, wins>>,
           \A u \in Threads \ {w} : pc'[u] = pc[u],
           TypeOK', ExitAt', pc[w] \notin {"collect", "return"}, pc'[w] \in Exit
    PROVE  IInv'
<1>1. \A x \in Tasks : pc'[x] = pc[x]
  BY ThreadFacts
<1>2. Steady
  BY <1>1 DEF Steady, Settled
<1>3. ASSUME NEW x \in Tasks PROVE TaskAt(x)'
  BY <1>1 DEF IInv, TaskAt, Settled, Recorded
<1>4. ThreadAt(w)'
  BY DEF IInv, ThreadAt, Exit
<1>5. \A u \in Threads : ThreadAt(u)' /\ AnswerAt(u)'
  BY <1>2, <1>4, ThreadSteady, AnswerSteady DEF SameLocals
<1>6. \A p \in Promises : PromiseAt(p)'
  BY DEF IInv, PromiseAt
<1> QED
  BY <1>3, <1>5, <1>6 DEF IInv

\* The end of a run takes the registry.
LEMMA SwapRegistryKeepsInv ==
    ASSUME IInv, SwapRegistry
    PROVE  IInv'
<1>1. /\ pc[Main] = "clojure" /\ TypeOK /\ ExitAt /\ Main \in Threads \ Tasks
      /\ UNCHANGED <<kind, thread, error, result, done, hasThread, promise, target, elems, index,
                     failed, known, outcome, answer, wins>>
      /\ snapshot' = registry /\ registry' = {} /\ early' = known
      /\ pc' = [pc EXCEPT ![Main] = "joinFutures"]
  BY ThreadFacts DEF SwapRegistry, Goto, IInv, attributes, pmapVars
<1>2. pc'[Main] = "joinFutures" /\ \A u \in Threads \ {Main} : pc'[u] = pc[u]
  BY <1>1 DEF TypeOK, ThreadTypes
<1>3. TypeOK'
  BY <1>1 DEF TypeOK, TaskTypes, ThreadTypes, SharedTypes, Pcs, Exit
<1>4. ExitAt'
  BY <1>1, <1>2 DEF ExitAt, Exit
<1> QED
  BY <1>1, <1>2, <1>3, <1>4, OuterStep DEF Exit

\* It has joined every future it took.
LEMMA JoinFuturesKeepsInv ==
    ASSUME IInv, JoinFutures
    PROVE  IInv'
<1>1. /\ pc[Main] = "joinFutures" /\ TypeOK /\ ExitAt /\ Main \in Threads \ Tasks
      /\ UNCHANGED <<kind, thread, error, result, done, hasThread, promise, registry, snapshot,
                     target, elems, index, failed, known, early, outcome, answer, wins>>
      /\ \A x \in snapshot : thread[x] = "ended"
      /\ pc' = [pc EXCEPT ![Main] = "joinActors"]
  BY ThreadFacts DEF JoinFutures, Goto, IInv, attributes, exitVars, pmapVars, ghosts
<1>2. pc'[Main] = "joinActors" /\ \A u \in Threads \ {Main} : pc'[u] = pc[u]
  BY <1>1 DEF TypeOK, ThreadTypes
<1>3. TypeOK'
  BY <1>1 DEF TypeOK, TaskTypes, ThreadTypes, SharedTypes, Pcs, Exit
<1>4. ExitAt'
  BY <1>1, <1>2 DEF ExitAt, Exit
<1> QED
  BY <1>1, <1>2, <1>3, <1>4, OuterStep DEF Exit

\* An actor worker ends.
LEMMA WorkerLeavesKeepsInv ==
    ASSUME IInv, NEW w \in Workers, WorkerLeaves(w)
    PROVE  IInv'
<1>1. /\ pc[w] = "clojure" /\ TypeOK /\ w \in Threads \ Tasks /\ w # Main /\ Main \in Threads
      /\ UNCHANGED <<kind, thread, error, result, done, hasThread, promise, registry, snapshot,
                     target, elems, index, failed, known, early, outcome, answer, wins>>
      /\ pc' = [pc EXCEPT ![w] = "ended"]
  BY ThreadFacts DEF WorkerLeaves, Goto, IInv, attributes, exitVars, pmapVars, ghosts
<1>2. pc'[w] = "ended" /\ \A u \in Threads \ {w} : pc'[u] = pc[u]
  BY <1>1 DEF TypeOK, ThreadTypes
<1>3. TypeOK'
  BY <1>1 DEF TypeOK, TaskTypes, ThreadTypes, SharedTypes, Pcs, Exit
<1>4. ExitAt'
  BY <1>1, <1>2, ExitSteady
<1> QED
  BY <1>1, <1>2, <1>3, <1>4, OuterStep DEF Exit

\* The run is over.
LEMMA ReleaseSpaceKeepsInv ==
    ASSUME IInv, ReleaseSpace
    PROVE  IInv'
<1>1. /\ pc[Main] = "joinActors" /\ TypeOK /\ ExitAt /\ Main \in Threads \ Tasks
      /\ UNCHANGED <<kind, thread, error, result, done, hasThread, promise, registry, snapshot,
                     target, elems, index, failed, known, early, outcome, answer, wins>>
      /\ pc' = [pc EXCEPT ![Main] = "ended"]
  BY ThreadFacts DEF ReleaseSpace, Goto, IInv, attributes, exitVars, pmapVars, ghosts
<1>2. pc'[Main] = "ended" /\ \A u \in Threads \ {Main} : pc'[u] = pc[u]
  BY <1>1 DEF TypeOK, ThreadTypes
<1>3. TypeOK'
  BY <1>1 DEF TypeOK, TaskTypes, ThreadTypes, SharedTypes, Pcs, Exit
<1>4. ExitAt'
  BY <1>1, <1>2 DEF ExitAt, Exit
<1> QED
  BY <1>1, <1>2, <1>3, <1>4, OuterStep DEF Exit

-----------------------------------------------------------------------------
(* The invariant is inductive, and what it says. *)

\* No step breaks the invariant.
LEMMA InvStep == IInv /\ [Next]_vars => IInv'
<1> SUFFICES ASSUME IInv, [Next]_vars PROVE IInv'
  OBVIOUS
<1>1. ASSUME NEW t \in Threads, CodeStep(t) PROVE IInv'
  BY <1>1, BuildFutureKeepsInv, DerefFutureKeepsInv, PmapSpawnKeepsInv, RealizedKeepsInv,
     DeliverKeepsInv, DerefPromiseKeepsInv, PmapCallKeepsInv DEF CodeStep
<1>2. ASSUME NEW t \in Threads, Step(t) PROVE IInv'
  BY <1>2, SetThreadKeepsInv, RegisterKeepsInv, JoinKeepsInv, DerefFailureKeepsInv,
     DerefResultKeepsInv, PollKeepsInv, ReturnKeepsInv, PmapSpawnedKeepsInv,
     PmapCollectKeepsInv, PmapReturnsKeepsInv DEF Step
<1>3. ASSUME NEW x \in Tasks, TaskStep(x) PROVE IInv'
  BY <1>3, BodyEndsKeepsInv, StoreErrorKeepsInv, StoreResultKeepsInv, StoreDoneKeepsInv,
     ThreadEndsKeepsInv DEF TaskStep
<1>4. CASE SwapRegistry \/ ExitStep \/ \E w \in Workers : WorkerLeaves(w)
  BY <1>4, SwapRegistryKeepsInv, JoinFuturesKeepsInv, ReleaseSpaceKeepsInv,
     WorkerLeavesKeepsInv DEF ExitStep
<1>5. CASE UNCHANGED vars
  <2>1. UNCHANGED <<kind, thread, error, result, done, hasThread, promise, registry, snapshot, pc,
                    target, elems, index, failed, known, early, outcome, answer, wins>>
    BY <1>5 DEF vars, attributes, exitVars, pmapVars, ghosts
  <2>2. TypeOK'
    BY <2>1 DEF IInv, TypeOK, TaskTypes, ThreadTypes, SharedTypes
  <2>3. Steady
    BY <2>1 DEF Steady, Settled
  <2>4. \A x \in Tasks : TaskAt(x)'
    BY <2>1 DEF IInv, TaskAt, Settled, Recorded
  <2>5. \A t \in Threads : ThreadAt(t)' /\ AnswerAt(t)'
    BY <2>1, <2>3, ThreadSteady, AnswerSteady DEF SameLocals
  <2>6. \A p \in Promises : PromiseAt(p)'
    BY <2>1 DEF IInv, PromiseAt
  <2>7. ExitAt'
    BY <2>1, ExitSteady
  <2> QED
    BY <2>2, <2>4, <2>5, <2>6, <2>7 DEF IInv
<1> QED
  BY <1>1, <1>2, <1>3, <1>4, <1>5 DEF Next

\* The invariant holds throughout.
LEMMA Inductive == Spec => []IInv
<1>1. Init => IInv
  BY InvInit
<1>2. IInv /\ [Next]_vars => IInv'
  BY InvStep
<1> QED
  BY <1>1, <1>2, PTL DEF Spec

\* The first component of an answer says what it is about, and of what kind it is.
LEMMA AnswerNames ==
    ASSUME IInv, NEW t \in Threads
    PROVE  /\ \A x \in Tasks : answer[t][1] = x => Settled(x) /\ answer[t] = <<x, outcome[x]>>
           /\ \A x \in Tasks : answer[t] = <<"realized", x>> => Settled(x)
           /\ \A p \in Promises : answer[t][1] = p =>
                promise[p] # Pending /\ answer[t] = <<p, <<"value", promise[p]>>>>
           /\ answer[t][1] = "pmap" => \E es \in Seq(Tasks), f \in Nat :
                /\ FirstFailure(es, Len(es), f)
                /\ answer[t] =
                     <<"pmap", IF f # 0 THEN <<"error", error[es[f]]>>
                               ELSE <<"value", [i \in 1..Len(es) |-> result[es[i]]]>>, es>>
<1>1. AnswerAt(t)
  BY DEF IInv
<1>2. CASE answer[t] = NoAnswer
  BY <1>2, FuturesAssumption DEF NoAnswer
<1>3. ASSUME NEW x \in Tasks, Settled(x), answer[t] = <<x, outcome[x]>>
      PROVE  /\ answer[t][1] # "pmap" /\ answer[t][1] # "realized"
             /\ answer[t][1] = x /\ answer[t][1] \notin Promises
  BY <1>3, FuturesAssumption
<1>4. ASSUME NEW x \in Tasks \cup Promises, answer[t] = <<"realized", x>>
      PROVE  /\ answer[t][1] # "pmap" /\ answer[t][1] \notin Tasks \cup Promises
             /\ answer[t][2] = x
  BY <1>4, FuturesAssumption
<1>5. ASSUME NEW p \in Promises, promise[p] # Pending,
             answer[t] = <<p, <<"value", promise[p]>>>>
      PROVE  /\ answer[t][1] # "pmap" /\ answer[t][1] # "realized"
             /\ answer[t][1] = p /\ answer[t][1] \notin Tasks
  BY <1>5, FuturesAssumption
<1>6. ASSUME NEW es \in Seq(Tasks), NEW f \in Nat, FirstFailure(es, Len(es), f),
             answer[t] = <<"pmap", IF f # 0 THEN <<"error", error[es[f]]>>
                                   ELSE <<"value", [i \in 1..Len(es) |-> result[es[i]]]>>, es>>
      PROVE  /\ answer[t][1] = "pmap" /\ answer[t][1] # "realized"
             /\ answer[t][1] \notin Tasks \cup Promises
  BY <1>6, FuturesAssumption
<1>7. CASE \E x \in Tasks : Settled(x) /\ answer[t] \in {<<x, outcome[x]>>, <<"realized", x>>}
  <2> PICK x \in Tasks : Settled(x) /\ answer[t] \in {<<x, outcome[x]>>, <<"realized", x>>}
    BY <1>7
  <2>1. CASE answer[t] = <<x, outcome[x]>>
    BY <1>3, <2>1
  <2>2. CASE answer[t] = <<"realized", x>>
    <3>1. \A y \in Tasks : answer[t] = <<"realized", y>> => y = x
      BY <2>2
    <3>2. answer[t][1] # "pmap" /\ answer[t][1] \notin Tasks \cup Promises
      BY <1>4, <2>2
    <3> QED
      BY <3>1, <3>2
  <2> QED
    BY <2>1, <2>2
<1>8. CASE \E p \in Promises : answer[t] = <<"realized", p>>
  <2> PICK p \in Promises : answer[t] = <<"realized", p>>
    BY <1>8
  <2> QED
    BY <1>4, FuturesAssumption
<1>9. CASE \E p \in Promises : promise[p] # Pending /\ answer[t] = <<p, <<"value", promise[p]>>>>
  BY <1>5, <1>9
<1>10. CASE \E es \in Seq(Tasks), f \in Nat :
              /\ FirstFailure(es, Len(es), f)
              /\ answer[t] =
                   <<"pmap", IF f # 0 THEN <<"error", error[es[f]]>>
                             ELSE <<"value", [i \in 1..Len(es) |-> result[es[i]]]>>, es>>
  <2>1. answer[t][1] = "pmap" /\ answer[t][1] \notin Tasks \cup Promises
    BY <1>6, <1>10
  <2>2. \A x : answer[t] # <<"realized", x>>
    BY <2>1
  <2> QED
    BY <1>10, <2>1, <2>2, Zenon
<1> QED
  BY <1>1, <1>2, <1>7, <1>8, <1>9, <1>10 DEF AnswerAt

\* deref of a future answers what its body did, and realized? is true only of a
\* future whose record is complete, whatever the threads do in between
\* (prim_deref, prim_realized_p, futureThreadMain).
THEOREM DerefExactTheorem == Spec => []DerefExact
<1>1. IInv => DerefExact
  <2> SUFFICES ASSUME IInv, NEW t \in Threads, NEW x \in Tasks
               PROVE  /\ answer[t][1] = x => answer[t][2] = outcome[x]
                      /\ answer[t] = <<"realized", x>> =>
                           outcome[x] = IF error[x] # NoError THEN <<"error", error[x]>>
                                                              ELSE <<"value", result[x]>>
    BY DEF DerefExact
  <2>1. answer[t][1] = x => answer[t][2] = outcome[x]
    BY AnswerNames
  <2>2. answer[t] = <<"realized", x>> => outcome[x] = Recorded(x)
    BY AnswerNames DEF IInv, TaskAt
  <2> QED
    BY <2>1, <2>2 DEF Recorded
<1> QED
  BY <1>1, Inductive, PTL

\* pmap answers the results in order, or the error of the first failing element
\* in the order of the collection, once all its threads have ended, for any
\* collections and any nesting of pmaps (prim_pmap, pmapWorkerMain).
THEOREM PmapExactTheorem == Spec => []PmapExact
<1>1. ASSUME IInv, NEW t \in Threads, answer[t][1] = "pmap"
      PROVE  LET es == answer[t][3]
                 bad == {i \in DOMAIN es : outcome[es[i]][1] = "error"}
             IN  /\ \A i \in DOMAIN es : thread[es[i]] = "ended"
                 /\ answer[t][2] =
                      IF bad = {} THEN <<"value", [i \in DOMAIN es |-> outcome[es[i]][2]]>>
                      ELSE outcome[es[CHOOSE i \in bad : \A j \in bad : i <= j]]
  <2>1. PICK es \in Seq(Tasks), f \in Nat :
          /\ FirstFailure(es, Len(es), f)
          /\ answer[t] =
               <<"pmap", IF f # 0 THEN <<"error", error[es[f]]>>
                         ELSE <<"value", [i \in 1..Len(es) |-> result[es[i]]]>>, es>>
    BY <1>1, AnswerNames
  <2> DEFINE bad == {i \in DOMAIN es : outcome[es[i]][1] = "error"}
  <2>2. answer[t][3] = es /\ DOMAIN es = 1..Len(es) /\ Len(es) \in Nat
    BY <2>1
  <2>3. answer[t][2] = IF f # 0 THEN <<"error", error[es[f]]>>
                       ELSE <<"value", [i \in 1..Len(es) |-> result[es[i]]]>>
    BY <2>1
  <2>4. ASSUME NEW i \in 1..Len(es)
        PROVE  /\ thread[es[i]] = "ended" /\ es[i] \in Tasks
               /\ error[es[i]] # NoError =>
                    outcome[es[i]] = <<"error", error[es[i]]>> /\ outcome[es[i]][1] = "error"
               /\ error[es[i]] = NoError =>
                    outcome[es[i]][2] = result[es[i]] /\ outcome[es[i]][1] # "error"
    <3>1. thread[es[i]] = "ended" /\ es[i] \in Tasks
      BY <2>1 DEF FirstFailure
    <3>2. outcome[es[i]] = Recorded(es[i])
      BY <1>1, <3>1, EndedSettled DEF IInv, TaskAt
    <3> QED
      BY <3>1, <3>2 DEF Recorded
  <2>5. CASE f = 0
    <3>1. \A i \in 1..Len(es) : error[es[i]] = NoError
      BY <2>1, <2>5 DEF FirstFailure
    <3>2. bad = {}
      BY <2>2, <2>4, <3>1
    <3>3. [i \in 1..Len(es) |-> result[es[i]]] = [i \in DOMAIN es |-> outcome[es[i]][2]]
      BY <2>2, <2>4, <3>1
    <3>4. answer[t][2] = <<"value", [i \in DOMAIN es |-> outcome[es[i]][2]]>>
      BY <2>3, <2>5, <3>3
    <3> QED
      BY <2>2, <2>4, <3>2, <3>4
  <2>6. CASE f # 0
    <3>1. f \in 1..Len(es) /\ error[es[f]] # NoError /\ \A i \in 1..(f - 1) : error[es[i]] = NoError
      BY <2>1, <2>6 DEF FirstFailure
    <3>2. f \in bad /\ outcome[es[f]] = <<"error", error[es[f]]>>
      BY <2>2, <2>4, <3>1
    <3>3. \A j \in bad : j \in 1..Len(es) /\ f <= j
      <4> SUFFICES ASSUME NEW j \in bad PROVE j \in 1..Len(es) /\ f <= j
        OBVIOUS
      <4>1. j \in 1..Len(es) /\ error[es[j]] # NoError
        BY <2>2, <2>4
      <4>2. j \notin 1..(f - 1)
        BY <3>1, <4>1
      <4> QED
        BY <3>1, <4>1, <4>2
    <3> HIDE DEF bad
    <3>4. (CHOOSE i \in bad : \A j \in bad : i <= j) = f
      <4> DEFINE c == CHOOSE i \in bad : \A j \in bad : i <= j
      <4>1. c \in bad /\ \A j \in bad : c <= j
        BY <3>2, <3>3
      <4>2. c <= f /\ f <= c /\ c \in 1..Len(es)
        BY <3>2, <3>3, <4>1
      <4> HIDE DEF c
      <4>3. c = f
        BY <3>1, <4>2
      <4> QED
        BY <4>3 DEF c
    <3>5. bad # {} /\ answer[t][2] = outcome[es[CHOOSE i \in bad : \A j \in bad : i <= j]]
      BY <2>3, <2>6, <3>2, <3>4
    <3> QED
      BY <2>2, <2>4, <3>5 DEF bad
  <2> QED
    BY <2>5, <2>6
<1>2. IInv => PmapExact
  BY <1>1 DEF PmapExact
<1> QED
  BY <1>2, Inductive, PTL

\* Of all the delivers to a promise at most one wins, and every deref answers
\* the value of that one, for any number of racing threads (deliverPromise,
\* promiseValue).
THEOREM OneDeliveryTheorem == Spec => []OneDelivery
<1>1. IInv => OneDelivery
  <2> SUFFICES ASSUME IInv, NEW p \in Promises
               PROVE  /\ Len(wins[p]) <= 1
                      /\ promise[p] # Pending => wins[p] = <<promise[p]>>
                      /\ \A t \in Threads : answer[t][1] = p => <<answer[t][2][2]>> = wins[p]
    BY DEF OneDelivery
  <2>1. PromiseAt(p)
    BY DEF IInv
  <2>2. wins[p] = <<>> \/ (promise[p] # Pending /\ wins[p] = <<promise[p]>>)
    BY <2>1 DEF PromiseAt
  <2>3. Len(wins[p]) <= 1
    <3>1. CASE wins[p] = <<>>
      BY <3>1
    <3>2. CASE wins[p] = <<promise[p]>>
      <4>1. Len(<<promise[p]>>) = 1
        OBVIOUS
      <4> QED
        BY <3>2, <4>1
    <3> QED
      BY <2>2, <3>1, <3>2
  <2>4. promise[p] # Pending => wins[p] = <<promise[p]>>
    BY <2>1 DEF PromiseAt
  <2>5. ASSUME NEW t \in Threads, answer[t][1] = p PROVE <<answer[t][2][2]>> = wins[p]
    <3>1. promise[p] # Pending /\ answer[t] = <<p, <<"value", promise[p]>>>>
      BY <2>5, AnswerNames
    <3>2. answer[t][2][2] = promise[p]
      BY <3>1
    <3> QED
      BY <2>4, <3>1, <3>2
  <2> QED
    BY <2>3, <2>4, <2>5
<1> QED
  BY <1>1, Inductive, PTL

\* Once the evaluator thread is past the joins of the end of a run, every future
\* that any code held when the registry was swapped has ended: code gets hold of
\* a future only after it is in the registry (buildFuture, shutdownFuturesImpl).
THEOREM JoinedAtExitTheorem == Spec => []JoinedAtExit
<1>1. IInv => JoinedAtExit
  BY DEF IInv, ExitAt, Exit, JoinedAtExit
<1> QED
  BY <1>1, Inductive, PTL

-----------------------------------------------------------------------------
(* What a task waits for. *)

\* The guards of a task's own steps, for a task whose thread runs: it is in
\* Clojure code, at a label where it waits for nothing, or what it waits for
\* has come.
CanGoOn(x) ==
    \/ pc[x] \in {"clojure", "setThread", "register", "failure", "result", "return",
                  "spawn", "storeError", "storeResult", "storeDone", "leave"}
    \/ pc[x] = "join" /\ thread[target[x]] = "ended"
    \/ pc[x] = "poll" /\ promise[target[x]] # Pending
    \/ pc[x] = "collect" /\ (index[x] <= Len(elems[x]) => thread[elems[x][index[x]]] = "ended")

\* WaitsOnlyForTasks with CanGoOn for ENABLED, at any time and not only while the
\* evaluator thread joins.
BlockedByTaskOrPromise ==
    \A x \in Tasks : thread[x] = "running" /\ ~CanGoOn(x) =>
        \E y \in AwaitedBy(x) :
            \/ y \in Tasks /\ thread[y] = "running"
            \/ y \in Promises /\ promise[y] = Pending

Started(x) == thread[x] # "unborn"

Building == {"setThread", "register", "join"}

\* Nobody gets hold of a task before its thread is started.
StartedAt(t) ==
    /\ pc[t] \in Building => Started(target[t])
    /\ \A i \in 1..Len(elems[t]) : Started(elems[t][i])

StartedInv ==
    /\ \A x \in known : Started(x)
    /\ \A t \in Threads : StartedAt(t)

\* A thread that was started stays so.
StaysStarted == \A x \in Tasks : Started(x) => Started(x)'

\* newThread and the end of a thread are all that changes it.
LEMMA StartedStays ==
    ASSUME IInv, [Next]_vars
    PROVE  StaysStarted
<1> USE DEF StaysStarted, Started
<1>1. thread \in [Tasks -> {"unborn", "running", "ended"}]
  BY DEF IInv, TypeOK, TaskTypes
<1>2. ASSUME NEW x \in Tasks, thread' = [thread EXCEPT ![x] = "running"]
      PROVE  StaysStarted
  BY <1>1, <1>2
<1>3. ASSUME NEW x \in Tasks, thread' = [thread EXCEPT ![x] = "ended"]
      PROVE  StaysStarted
  BY <1>1, <1>3
<1>4. CASE UNCHANGED thread
  BY <1>4
<1>5. ASSUME NEW t \in Threads, CodeStep(t) PROVE StaysStarted
  <2>1. ASSUME NEW x \in Tasks, BuildFuture(t, x) \/ PmapSpawn(t, x) PROVE StaysStarted
    BY <1>2, <2>1 DEF BuildFuture, PmapSpawn, NewThread
  <2>2. ASSUME NEW x \in Tasks, DerefFuture(t, x) PROVE UNCHANGED thread
    BY <2>2 DEF DerefFuture
  <2>3. ASSUME NEW x \in Tasks \cup Promises, Realized(t, x) PROVE UNCHANGED thread
    BY <2>3 DEF Realized
  <2>4. ASSUME NEW p \in Promises, NEW v \in Values, Deliver(t, p, v) PROVE UNCHANGED thread
    BY <2>4 DEF Deliver
  <2>5. ASSUME NEW p \in Promises, DerefPromise(t, p) PROVE UNCHANGED thread
    BY <2>5 DEF DerefPromise
  <2>6. CASE PmapCall(t)
    BY <2>6 DEF PmapCall
  <2> QED
    BY <1>4, <1>5, <2>1, <2>2, <2>3, <2>4, <2>5, <2>6 DEF CodeStep
<1>6. ASSUME NEW t \in Threads, Step(t) PROVE UNCHANGED thread
  BY <1>6 DEF Step, SetThread, RegisterFuture, Join, DerefFailure, DerefResult, Poll, Return,
     PmapSpawned, PmapCollect, PmapReturns
<1>7. ASSUME NEW x \in Tasks, TaskStep(x) PROVE StaysStarted
  <2>1. CASE ThreadEnds(x)
    BY <1>3, <2>1 DEF ThreadEnds
  <2>2. CASE ~ThreadEnds(x)
    <3>1. UNCHANGED thread
      BY <1>7, <2>2 DEF TaskStep, BodyReturns, BodyThrows, StoreError, StoreResult, StoreDone
    <3> QED
      BY <1>4, <3>1
  <2> QED
    BY <2>1, <2>2
<1>8. CASE SwapRegistry \/ ExitStep \/ \E w \in Workers : WorkerLeaves(w)
  BY <1>4, <1>8 DEF SwapRegistry, ExitStep, JoinFutures, ReleaseSpace, WorkerLeaves
<1>9. CASE UNCHANGED vars
  BY <1>4, <1>9 DEF vars
<1> QED
  BY <1>4, <1>5, <1>6, <1>7, <1>8, <1>9 DEF Next

\* What a thread has got hold of was started when it is still started: only
\* thread t's locals need a look.
LEMMA StartedByStep ==
    ASSUME IInv, StartedInv, StaysStarted, NEW t \in Threads,
           \A u \in Threads \ {t} : /\ pc'[u] \in Building => pc'[u] = pc[u]
                                    /\ target'[u] = target[u] /\ elems'[u] = elems[u],
           StartedAt(t)', \A x \in known' : x \in known \/ Started(x)'
    PROVE  StartedInv'
<1>1. ASSUME NEW u \in Threads, u # t PROVE StartedAt(u)'
  <2>1. /\ StartedAt(u) /\ ThreadAt(u) /\ elems[u] \in Seq(Tasks)
        /\ pc'[u] \in Building => pc'[u] = pc[u]
        /\ target'[u] = target[u] /\ elems'[u] = elems[u]
    BY <1>1 DEF StartedInv, IInv, TypeOK, ThreadTypes
  <2>2. pc'[u] \in Building => Started(target[u])'
    BY <2>1 DEF StartedAt, ThreadAt, Building, StaysStarted
  <2>3. \A i \in 1..Len(elems[u]) : elems[u][i] \in Tasks /\ Started(elems[u][i])
    BY <2>1 DEF StartedAt
  <2> QED
    BY <2>1, <2>2, <2>3 DEF StartedAt, StaysStarted, Started
<1>2. \A x \in known : Started(x)'
  BY DEF StartedInv, StaysStarted, IInv, TypeOK, SharedTypes
<1> QED
  BY <1>1, <1>2 DEF StartedInv

\* The elements of a pmap stay started.
LEMMA ElementsStay ==
    ASSUME IInv, StartedInv, StaysStarted, NEW t \in Threads, elems'[t] \in {elems[t], <<>>}
    PROVE  \A i \in 1..Len(elems'[t]) : thread'[elems'[t][i]] # "unborn"
<1>1. elems[t] \in Seq(Tasks) /\ \A i \in 1..Len(elems[t]) : Started(elems[t][i])
  BY DEF IInv, TypeOK, ThreadTypes, StartedInv, StartedAt
<1>2. CASE elems'[t] = elems[t]
  BY <1>1, <1>2 DEF StaysStarted, Started
<1>3. CASE elems'[t] = <<>>
  BY <1>3
<1> QED
  BY <1>2, <1>3

\* A future is awaited only by code that got it from buildFuture, which started
\* it; pmap awaits the elements it started.
LEMMA StartedStep ==
    ASSUME IInv, StartedInv, [Next]_vars
    PROVE  StartedInv'
<1>1. StaysStarted
  BY StartedStays
<1>2. TypeOK
  BY DEF IInv
<1>3. ASSUME NEW t \in Threads, known' = known,
             \A u \in Threads \ {t} : /\ pc'[u] = pc[u] /\ target'[u] = target[u]
                                      /\ elems'[u] = elems[u],
             pc'[t] \notin Building, elems'[t] \in {elems[t], <<>>}
      PROVE  StartedInv'
  <2>1. StartedAt(t)'
    BY <1>1, <1>3, ElementsStay DEF StartedAt, Started
  <2> QED
    BY <1>1, <1>3, <2>1, StartedByStep
<1>4. CASE UNCHANGED <<pc, target, elems, known>>
  <2> SUFFICES ASSUME NEW t \in Threads PROVE StartedAt(t)' /\ \A x \in known : Started(x)'
    BY <1>4, ThreadFacts DEF StartedInv
  <2>1. ThreadAt(t) /\ StartedAt(t)
    BY DEF IInv, StartedInv
  <2>2. pc[t] \in Building => target[t] \in Tasks
    BY <2>1 DEF ThreadAt, Building
  <2>3. \A i \in 1..Len(elems'[t]) : thread'[elems'[t][i]] # "unborn"
    BY <1>1, <1>4, ElementsStay
  <2> QED
    BY <1>1, <1>4, <2>1, <2>2, <2>3 DEF StartedAt, Started, StartedInv, StaysStarted, IInv,
       TypeOK, SharedTypes
<1>5. ASSUME NEW t \in Threads, CodeStep(t) PROVE StartedInv'
  <2>1. ASSUME NEW x \in Tasks, BuildFuture(t, x) PROVE StartedInv'
    <3>1. /\ pc' = [pc EXCEPT ![t] = "setThread", ![x] = "clojure"]
          /\ target' = [target EXCEPT ![t] = x] /\ elems' = elems /\ known' = known
          /\ thread' = [thread EXCEPT ![x] = "running"]
      BY <2>1 DEF BuildFuture, NewThread, pmapVars, ghosts
    <3>2. /\ \A u \in Threads \ {t} : /\ pc'[u] \in Building => pc'[u] = pc[u]
                                      /\ target'[u] = target[u] /\ elems'[u] = elems[u]
          /\ target'[t] = x /\ thread'[x] = "running"
      BY <1>2, <3>1 DEF TypeOK, ThreadTypes, TaskTypes, Building
    <3>3. StartedAt(t)'
      BY <1>1, <3>1, <3>2, ElementsStay DEF StartedAt, Started
    <3> QED
      BY <1>1, <3>1, <3>2, <3>3, StartedByStep
  <2>2. ASSUME NEW x \in Tasks, PmapSpawn(t, x) PROVE StartedInv'
    <3>1. /\ pc' = [pc EXCEPT ![t] = "spawn", ![x] = "clojure"]
          /\ elems' = [elems EXCEPT ![t] = Append(elems[t], x)] /\ target' = target
          /\ known' = known /\ thread' = [thread EXCEPT ![x] = "running"]
      BY <2>2 DEF PmapSpawn, NewThread, ghosts
    <3>2. /\ \A u \in Threads \ {t} : /\ pc'[u] \in Building => pc'[u] = pc[u]
                                      /\ target'[u] = target[u] /\ elems'[u] = elems[u]
          /\ pc'[t] \notin Building /\ elems'[t] = Append(elems[t], x) /\ thread'[x] = "running"
      BY <1>2, <3>1 DEF TypeOK, ThreadTypes, TaskTypes, Building
    <3>3. elems[t] \in Seq(Tasks) /\ \A i \in 1..Len(elems[t]) : Started(elems[t][i])
      BY <1>2 DEF TypeOK, ThreadTypes, StartedInv, StartedAt
    <3>4. ASSUME NEW i \in 1..Len(elems'[t]) PROVE thread'[elems'[t][i]] # "unborn"
      <4>1. CASE i \in 1..Len(elems[t])
        <5>1. elems'[t][i] = elems[t][i] /\ elems[t][i] \in Tasks
          BY <3>2, <3>3, <4>1
        <5> QED
          BY <1>1, <3>3, <4>1, <5>1 DEF StaysStarted, Started
      <4>2. CASE i \notin 1..Len(elems[t])
        <5>1. elems'[t][i] = x
          BY <3>2, <3>3, <4>2
        <5> QED
          BY <3>2, <5>1
      <4> QED
        BY <4>1, <4>2
    <3>5. StartedAt(t)'
      BY <3>2, <3>4 DEF StartedAt, Started
    <3> QED
      BY <1>1, <3>1, <3>2, <3>5, StartedByStep
  <2>3. ASSUME NEW x \in Tasks, DerefFuture(t, x) PROVE StartedInv'
    <3>1. /\ pc' = [pc EXCEPT ![t] = IF done[x] \/ ~hasThread[x] THEN "failure" ELSE "join"]
          /\ target' = [target EXCEPT ![t] = x] /\ elems' = elems /\ known' = known
          /\ x \in known
      BY <2>3 DEF DerefFuture, Goto, pmapVars, ghosts
    <3>2. /\ \A u \in Threads \ {t} : /\ pc'[u] = pc[u] /\ target'[u] = target[u]
                                      /\ elems'[u] = elems[u]
          /\ target'[t] = x
      BY <1>2, <3>1 DEF TypeOK, ThreadTypes
    <3>3. Started(x)'
      BY <1>1, <3>1 DEF StartedInv, StaysStarted
    <3>4. StartedAt(t)'
      BY <1>1, <3>1, <3>2, <3>3, ElementsStay DEF StartedAt, Started
    <3> QED
      BY <1>1, <3>1, <3>2, <3>4, StartedByStep
  <2>4. ASSUME NEW x \in Tasks \cup Promises, Realized(t, x) PROVE StartedInv'
    <3>1. /\ pc' = [pc EXCEPT ![t] = "return"]
          /\ target' = target /\ elems' = elems /\ known' = known
      BY <2>4 DEF Realized, Goto, pmapVars
    <3> QED
      BY <1>2, <1>3, <3>1 DEF TypeOK, ThreadTypes, Building
  <2>5. ASSUME NEW p \in Promises, NEW v \in Values, Deliver(t, p, v) PROVE StartedInv'
    BY <1>4, <2>5 DEF Deliver, pmapVars
  <2>6. ASSUME NEW p \in Promises, DerefPromise(t, p) PROVE StartedInv'
    <3>1. /\ pc' = [pc EXCEPT ![t] = "poll"] /\ target' = [target EXCEPT ![t] = p]
          /\ elems' = elems /\ known' = known
      BY <2>6 DEF DerefPromise, Goto, pmapVars, ghosts
    <3> QED
      BY <1>2, <1>3, <3>1 DEF TypeOK, ThreadTypes, Building
  <2>7. CASE PmapCall(t)
    <3>1. /\ pc' = [pc EXCEPT ![t] = "spawn"]
          /\ target' = target /\ elems' = elems /\ known' = known
      BY <2>7 DEF PmapCall, Goto, pmapVars, ghosts
    <3> QED
      BY <1>2, <1>3, <3>1 DEF TypeOK, ThreadTypes, Building
  <2> QED
    BY <1>5, <2>1, <2>2, <2>3, <2>4, <2>5, <2>6, <2>7 DEF CodeStep
<1>6. ASSUME NEW t \in Threads, Step(t) PROVE StartedInv'
  <2>1. ThreadAt(t) /\ StartedAt(t)
    BY DEF IInv, StartedInv
  <2>2. CASE SetThread(t) \/ RegisterFuture(t)
    <3>1. /\ pc[t] \in Building /\ target' = target /\ elems' = elems
          /\ \E l \in {"register", "return"} : pc' = [pc EXCEPT ![t] = l]
          /\ known' \subseteq known \cup {target[t]}
      BY <2>2 DEF SetThread, RegisterFuture, Goto, pmapVars, ghosts, Building
    <3>2. target[t] \in Tasks /\ Started(target[t])'
      BY <1>1, <2>1, <3>1 DEF ThreadAt, StartedAt, StaysStarted, Building
    <3>3. \A i \in 1..Len(elems'[t]) : thread'[elems'[t][i]] # "unborn"
      BY <1>1, <3>1, ElementsStay
    <3>4. StartedAt(t)'
      BY <3>1, <3>2, <3>3 DEF StartedAt, Started
    <3>5. \A u \in Threads \ {t} : /\ pc'[u] = pc[u] /\ target'[u] = target[u]
                                   /\ elems'[u] = elems[u]
      BY <1>2, <3>1 DEF TypeOK, ThreadTypes
    <3> QED
      BY <1>1, <3>1, <3>2, <3>4, <3>5, StartedByStep
  <2>3. CASE Return(t)
    <3>1. /\ pc' = [pc EXCEPT ![t] = "clojure"] /\ target' = [target EXCEPT ![t] = Nil]
          /\ elems' = [elems EXCEPT ![t] = <<>>] /\ known' = known
      BY <2>3 DEF Return, Goto
    <3> QED
      BY <1>2, <1>3, <3>1 DEF TypeOK, ThreadTypes, Building
  <2>4. CASE PmapCollect(t)
    BY <1>4, <2>4 DEF PmapCollect, ghosts
  <2>5. CASE Join(t) \/ DerefFailure(t) \/ DerefResult(t) \/ Poll(t) \/ PmapSpawned(t)
               \/ PmapReturns(t)
    <3>1. /\ \E l \in {"failure", "return", "result", "collect"} : pc' = [pc EXCEPT ![t] = l]
          /\ target' = target /\ elems' = elems /\ known' = known
      BY <2>5 DEF Join, DerefFailure, DerefResult, Poll, PmapSpawned, PmapReturns, Goto,
         pmapVars, ghosts
    <3> QED
      BY <1>2, <1>3, <3>1 DEF TypeOK, ThreadTypes, Building
  <2> QED
    BY <1>6, <2>2, <2>3, <2>4, <2>5 DEF Step
<1>7. ASSUME NEW x \in Tasks, TaskStep(x) PROVE StartedInv'
  <2>1. /\ \E l \in {"storeResult", "storeError", "storeDone", "leave", "ended"} :
             pc' = [pc EXCEPT ![x] = l]
        /\ elems' = elems /\ known' = known
        /\ target' = target \/ \E v : target' = [target EXCEPT ![x] = v]
    BY <1>7 DEF TaskStep, BodyReturns, BodyThrows, StoreError, StoreResult, StoreDone,
       ThreadEnds, Goto, pmapVars, ghosts
  <2>2. x \in Threads
    BY ThreadFacts
  <2> QED
    BY <1>2, <1>3, <2>1, <2>2 DEF TypeOK, ThreadTypes, Building
<1>8. ASSUME NEW t \in Threads, NEW l \in {"joinFutures", "joinActors", "ended"},
             pc' = [pc EXCEPT ![t] = l], UNCHANGED <<target, elems, known>>
      PROVE  StartedInv'
  BY <1>2, <1>3, <1>8 DEF TypeOK, ThreadTypes, Building
<1>9. CASE SwapRegistry \/ ExitStep \/ \E w \in Workers : WorkerLeaves(w)
  BY <1>8, <1>9, ThreadFacts DEF SwapRegistry, ExitStep, JoinFutures, ReleaseSpace,
     WorkerLeaves, Goto, pmapVars, ghosts
<1>10. CASE UNCHANGED vars
  BY <1>4, <1>10 DEF vars, pmapVars, ghosts
<1> QED
  BY <1>5, <1>6, <1>7, <1>9, <1>10 DEF Next

\* A task that cannot go on waits for a task whose thread still runs, or for a
\* promise nobody has delivered, and for nothing of the runtime's: neither the
\* evaluator thread nor the registry's mutex, and no future whose thread was
\* never started.  So the joins at the end of a run wait for ever only where the
\* program's own futures wait for each other or for a promise that is never
\* delivered (prim_deref, prim_pmap, shutdownFuturesImpl).
THEOREM BlockedByTaskTheorem == Spec => []BlockedByTaskOrPromise
<1>1. Init => StartedInv
  BY DEF Init, StartedInv, StartedAt, Building
<1>2. IInv /\ StartedInv /\ [Next]_vars => StartedInv'
  BY StartedStep
<1>3. IInv /\ StartedInv => BlockedByTaskOrPromise
  <2> SUFFICES ASSUME IInv, StartedInv, NEW x \in Tasks, thread[x] = "running", ~CanGoOn(x)
               PROVE  \E y \in AwaitedBy(x) :
                        \/ y \in Tasks /\ thread[y] = "running"
                        \/ y \in Promises /\ promise[y] = Pending
    BY DEF BlockedByTaskOrPromise
  <2>1. /\ x \in Threads /\ TaskAt(x) /\ ThreadAt(x) /\ StartedAt(x)
        /\ pc[x] \in Pcs /\ elems[x] \in Seq(Tasks) /\ index[x] \in Nat
        /\ thread \in [Tasks -> {"unborn", "running", "ended"}]
    BY ThreadFacts DEF IInv, TypeOK, ThreadTypes, TaskTypes, StartedInv
  <2>2. pc[x] \in {"join", "poll", "collect"}
    BY <2>1 DEF Pcs, Body, Exit, TaskAt, CanGoOn
  <2>3. CASE pc[x] = "join"
    <3>1. target[x] \in Tasks /\ Started(target[x]) /\ thread[target[x]] # "ended"
      BY <2>1, <2>3 DEF ThreadAt, StartedAt, Building, CanGoOn
    <3>2. AwaitedBy(x) = {target[x]}
      BY <2>3 DEF AwaitedBy
    <3> QED
      BY <2>1, <3>1, <3>2 DEF Started
  <2>4. CASE pc[x] = "poll"
    <3>1. target[x] \in Promises /\ promise[target[x]] = Pending
      BY <2>1, <2>4 DEF ThreadAt, CanGoOn
    <3>2. AwaitedBy(x) = {target[x]}
      BY <2>4 DEF AwaitedBy
    <3> QED
      BY <3>1, <3>2
  <2>5. CASE pc[x] = "collect"
    <3>1. index[x] \in 1..Len(elems[x]) /\ thread[elems[x][index[x]]] # "ended"
      BY <2>1, <2>5 DEF ThreadAt, CanGoOn
    <3>2. elems[x][index[x]] \in Tasks /\ Started(elems[x][index[x]])
      BY <2>1, <3>1 DEF StartedAt
    <3>3. AwaitedBy(x) = {elems[x][index[x]]}
      BY <2>5, <3>1 DEF AwaitedBy
    <3> QED
      BY <2>1, <3>1, <3>2, <3>3 DEF Started
  <2> QED
    BY <2>2, <2>3, <2>4, <2>5
<1> QED
  BY <1>1, <1>2, <1>3, Inductive, PTL DEF Spec
=============================================================================
