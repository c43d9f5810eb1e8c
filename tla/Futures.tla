------------------------------- MODULE Futures -------------------------------
(***************************************************************************)
(* Futures, pmap and promises, and the end of a run that joins the futures *)
(* (src/src/runtime/Primitives.cpp and shutdownWorkers in src/src/main.cpp).*)
(*                                                                         *)
(* A step is one access to an attribute, to the registry of futures or to  *)
(* a thread.  Clojure code is opaque: it creates futures, calls pmap, looks *)
(* at futures and promises it has got hold of, delivers promises, and      *)
(* returns or throws.  The actor pool is here only as threads that run     *)
(* Clojure code until the pool is shut down; HTTP servers are left out.    *)
(* protoCore's threads are external: newThread starts one, join waits for  *)
(* its end.                                                                *)
(***************************************************************************)
EXTENDS Naturals, Sequences, FiniteSets

CONSTANTS
    Main,           \* the evaluator thread
    Workers,        \* the actor pool's threads
    Tasks,          \* the futures and pmap elements a run may create, each
                    \*   standing for its thread too
    Promises,
    Values,
    Nil,            \* nil, also the pending __result__
    NoError,        \* no __error__ attribute
    Pending,        \* no own __value__: the promise is not delivered
    MaxElements     \* the longest collection given to pmap

ASSUME FuturesAssumption ==
    /\ Main \notin Workers \cup Tasks
    /\ Workers \cap Tasks = {}
    /\ Tasks \cap Promises = {}
    /\ {"none", "realized", "pmap"} \cap (Tasks \cup Promises) = {}
    /\ {Nil, NoError, Pending} \cap Values = {}
    /\ MaxElements \in Nat

Threads == {Main} \cup Workers \cup Tasks

VARIABLES
    kind,       \* kind[x]: "none", "future" or "element"
    thread,     \* thread[x]: x's thread: "unborn", "running" or "ended"
    error,      \* error[x]: __error__
    result,     \* result[x]: __result__
    done,       \* done[x]: __done__ is PROTO_TRUE
    hasThread,  \* hasThread[x]: __thread__ is set
    registry,   \* g_futureThreads
    snapshot,   \* the local `snapshot' of shutdownFuturesImpl
    promise,    \* promise[p]: __value__
    pc,         \* pc[t]: where thread t is; "clojure" while it runs Clojure code
    target,     \* target[t]: the future or the promise t is looking at; in a
                \*   task that ends, what its body returned or threw
    elems,      \* elems[t]: the elements of the pmap t is in
    index,      \* index[t]: the local `i' of that pmap's second phase
    failed,     \* failed[t]: the local `firstFailed', 0 for -1
    \* History, read by no action of the code:
    known,      \* the futures some code has got hold of
    early,      \* the futures known when the registry was swapped
    outcome,    \* outcome[x]: how x's body ended
    answer,     \* answer[t]: what the primitive t is in answers, and of what
    wins        \* wins[p]: the values whose deliver answered the promise

attributes == <<error, result, done, hasThread>>
pmapVars == <<elems, index, failed>>
exitVars == <<registry, snapshot>>
ghosts == <<known, early, outcome, answer, wins>>
vars == <<kind, thread, attributes, promise, exitVars, pc, target, pmapVars, ghosts>>

NoAnswer == <<"none", Nil>>

Init ==
    /\ kind = [x \in Tasks |-> "none"]
    /\ thread = [x \in Tasks |-> "unborn"]
    /\ error = [x \in Tasks |-> NoError]
    /\ result = [x \in Tasks |-> Nil]
    /\ done = [x \in Tasks |-> FALSE]
    /\ hasThread = [x \in Tasks |-> FALSE]
    /\ registry = {}
    /\ snapshot = {}
    /\ promise = [p \in Promises |-> Pending]
    /\ pc = [t \in Threads |-> IF t \in Tasks THEN "unborn" ELSE "clojure"]
    /\ target = [t \in Threads |-> Nil]
    /\ elems = [t \in Threads |-> <<>>]
    /\ index = [t \in Threads |-> 0]
    /\ failed = [t \in Threads |-> 0]
    /\ known = {}
    /\ early = {}
    /\ outcome = [x \in Tasks |-> NoAnswer]
    /\ answer = [t \in Threads |-> NoAnswer]
    /\ wins = [p \in Promises |-> <<>>]

Goto(t, label) == pc' = [pc EXCEPT ![t] = label]

\* ctx->space->newThread: the new thread runs at once.
NewThread(t, x, label) ==
    /\ kind[x] = "none"
    /\ thread' = [thread EXCEPT ![x] = "running"]
    /\ pc' = [pc EXCEPT ![t] = label, ![x] = "clojure"]

-----------------------------------------------------------------------------
(* (future body...): buildFuture. *)

BuildFuture(t, x) ==
    /\ pc[t] = "clojure"
    /\ NewThread(t, x, "setThread")
    /\ kind' = [kind EXCEPT ![x] = "future"]
    /\ target' = [target EXCEPT ![t] = x]
    /\ UNCHANGED <<attributes, promise, exitVars, pmapVars, ghosts>>

\* The thread's address becomes the attribute __thread__.
SetThread(t) ==
    /\ pc[t] = "setThread"
    /\ hasThread' = [hasThread EXCEPT ![target[t]] = TRUE]
    /\ Goto(t, "register")
    /\ UNCHANGED <<kind, thread, error, result, done, promise, exitVars,
                   target, pmapVars, ghosts>>

\* The future is not entered in the registry.
Mutant_NoRegister(t) ==
    /\ pc[t] = "register"
    /\ known' = known \cup {target[t]}
    /\ Goto(t, "return")
    /\ UNCHANGED <<kind, thread, attributes, promise, exitVars, target,
                   pmapVars, early, outcome, answer, wins>>

\* The joins are made while the registry's mutex is held.
Mutant_LockedRegister(t) ==
    /\ pc[t] = "register"
    /\ pc[Main] # "joinFutures"
    /\ registry' = registry \cup {target[t]}
    /\ known' = known \cup {target[t]}
    /\ Goto(t, "return")
    /\ UNCHANGED <<kind, thread, attributes, promise, snapshot, target,
                   pmapVars, early, outcome, answer, wins>>

\* g_futureThreads.push_back, and the future is returned to the code.
RegisterFuture(t) ==
    /\ pc[t] = "register"
    /\ registry' = registry \cup {target[t]}
    /\ known' = known \cup {target[t]}
    /\ Goto(t, "return")
    /\ UNCHANGED <<kind, thread, attributes, promise, snapshot, target,
                   pmapVars, early, outcome, answer, wins>>

-----------------------------------------------------------------------------
(* futureThreadMain and pmapWorkerMain. *)

\* The body returned: the value is stored, then __done__.
BodyReturns(x, v) ==
    /\ pc[x] = "clojure"
    /\ outcome' = [outcome EXCEPT ![x] = <<"value", v>>]
    /\ target' = [target EXCEPT ![x] = v]
    /\ Goto(x, "storeResult")
    /\ UNCHANGED <<kind, thread, attributes, promise, exitVars, pmapVars,
                   known, early, answer, wins>>

\* The body threw v, which recordThreadError stores; `value' stays nil.
BodyThrows(x, v) ==
    /\ pc[x] = "clojure"
    /\ outcome' = [outcome EXCEPT ![x] = <<"error", v>>]
    /\ target' = [target EXCEPT ![x] = v]
    /\ Goto(x, "storeError")
    /\ UNCHANGED <<kind, thread, attributes, promise, exitVars, pmapVars,
                   known, early, answer, wins>>

\* recordThreadError, inside the catch.
StoreError(x) ==
    /\ pc[x] = "storeError"
    /\ error' = [error EXCEPT ![x] = target[x]]
    /\ target' = [target EXCEPT ![x] = Nil]
    /\ Goto(x, "storeResult")
    /\ UNCHANGED <<kind, thread, result, done, hasThread, promise, exitVars,
                   pmapVars, ghosts>>

\* __done__ is set first.
Mutant_DoneFirst(x) ==
    /\ pc[x] = "storeResult"
    /\ IF done[x]
         THEN /\ result' = [result EXCEPT ![x] = target[x]]
              /\ Goto(x, "storeDone")
              /\ UNCHANGED done
         ELSE /\ done' = [done EXCEPT ![x] = TRUE]
              /\ UNCHANGED <<result, pc>>
    /\ UNCHANGED <<kind, thread, error, hasThread, promise, exitVars,
                   target, pmapVars, ghosts>>

StoreResult(x) ==
    /\ pc[x] = "storeResult"
    /\ result' = [result EXCEPT ![x] = target[x]]
    /\ Goto(x, "storeDone")
    /\ UNCHANGED <<kind, thread, error, done, hasThread, promise, exitVars,
                   target, pmapVars, ghosts>>

\* __done__, whether the body returned or threw.
StoreDone(x) ==
    /\ pc[x] = "storeDone"
    /\ done' = [done EXCEPT ![x] = TRUE]
    /\ Goto(x, "leave")
    /\ UNCHANGED <<kind, thread, error, result, hasThread, promise, exitVars,
                   target, pmapVars, ghosts>>

\* clearActiveCallContext and the end of the thread.
ThreadEnds(x) ==
    /\ pc[x] = "leave"
    /\ thread' = [thread EXCEPT ![x] = "ended"]
    /\ target' = [target EXCEPT ![x] = Nil]
    /\ Goto(x, "ended")
    /\ UNCHANGED <<kind, attributes, promise, exitVars, pmapVars, ghosts>>

-----------------------------------------------------------------------------
(* deref and realized? of a future. *)

\* __done__ decides whether the thread is joined.
DerefFuture(t, x) ==
    /\ pc[t] = "clojure"
    /\ x \in known
    /\ target' = [target EXCEPT ![t] = x]
    /\ Goto(t, IF done[x] \/ ~hasThread[x] THEN "failure" ELSE "join")
    /\ UNCHANGED <<kind, thread, attributes, promise, exitVars, pmapVars, ghosts>>

\* t->join, by any number of threads.
Join(t) ==
    /\ pc[t] = "join"
    /\ thread[target[t]] = "ended"
    /\ Goto(t, "failure")
    /\ UNCHANGED <<kind, thread, attributes, promise, exitVars, target,
                   pmapVars, ghosts>>

\* threadFailure: a recorded error is raised as an ExecutionException.
DerefFailure(t) ==
    /\ pc[t] = "failure"
    /\ IF error[target[t]] # NoError
         THEN /\ answer' = [answer EXCEPT ![t] = <<target[t], <<"error", error[target[t]]>>>>]
              /\ Goto(t, "return")
         ELSE /\ Goto(t, "result")
              /\ UNCHANGED answer
    /\ UNCHANGED <<kind, thread, attributes, promise, exitVars, target,
                   pmapVars, known, early, outcome, wins>>

\* __result__.
DerefResult(t) ==
    /\ pc[t] = "result"
    /\ answer' = [answer EXCEPT ![t] = <<target[t], <<"value", result[target[t]]>>>>]
    /\ Goto(t, "return")
    /\ UNCHANGED <<kind, thread, attributes, promise, exitVars, target,
                   pmapVars, known, early, outcome, wins>>

\* realized?, of a future and of a promise; an answer of false has no effect.
Realized(t, x) ==
    /\ pc[t] = "clojure"
    /\ \/ x \in Tasks /\ x \in known /\ done[x]
       \/ x \in Promises /\ promise[x] # Pending
    /\ answer' = [answer EXCEPT ![t] = <<"realized", x>>]
    /\ Goto(t, "return")
    /\ UNCHANGED <<kind, thread, attributes, promise, exitVars, target,
                   pmapVars, known, early, outcome, wins>>

\* The primitive returns, or raises what it found, and its locals are gone.
Return(t) ==
    /\ pc[t] = "return"
    /\ answer' = [answer EXCEPT ![t] = NoAnswer]
    /\ target' = [target EXCEPT ![t] = Nil]
    /\ elems' = [elems EXCEPT ![t] = <<>>]
    /\ index' = [index EXCEPT ![t] = 0]
    /\ failed' = [failed EXCEPT ![t] = 0]
    /\ Goto(t, "clojure")
    /\ UNCHANGED <<kind, thread, attributes, promise, exitVars,
                   known, early, outcome, wins>>

-----------------------------------------------------------------------------
(* Promises. *)

\* A deliver that does not compare.
Mutant_DeliverAgain(t, p, v) ==
    /\ pc[t] = "clojure"
    /\ promise' = [promise EXCEPT ![p] = v]
    /\ wins' = [wins EXCEPT ![p] = Append(@, v)]
    /\ UNCHANGED <<kind, thread, attributes, exitVars, pc, target, pmapVars,
                   known, early, outcome, answer>>

\* deliverPromise, one compare-and-set with "absent": a later deliver changes
\* nothing and answers nil.
Deliver(t, p, v) ==
    /\ pc[t] = "clojure"
    /\ promise[p] = Pending
    /\ promise' = [promise EXCEPT ![p] = v]
    /\ wins' = [wins EXCEPT ![p] = Append(@, v)]
    /\ UNCHANGED <<kind, thread, attributes, exitVars, pc, target, pmapVars,
                   known, early, outcome, answer>>

\* deref of a promise: it polls, sleeping a millisecond between two looks.
DerefPromise(t, p) ==
    /\ pc[t] = "clojure"
    /\ target' = [target EXCEPT ![t] = p]
    /\ Goto(t, "poll")
    /\ UNCHANGED <<kind, thread, attributes, promise, exitVars, pmapVars, ghosts>>

\* promiseValue: the read that finds the promise delivered yields its value.
Poll(t) ==
    /\ pc[t] = "poll"
    /\ promise[target[t]] # Pending
    /\ answer' = [answer EXCEPT ![t] = <<target[t], <<"value", promise[target[t]]>>>>]
    /\ Goto(t, "return")
    /\ UNCHANGED <<kind, thread, attributes, promise, exitVars, target,
                   pmapVars, known, early, outcome, wins>>

-----------------------------------------------------------------------------
(* pmap. *)

PmapCall(t) ==
    /\ pc[t] = "clojure"
    /\ Goto(t, "spawn")
    /\ UNCHANGED <<kind, thread, attributes, promise, exitVars, target,
                   pmapVars, ghosts>>

\* Phase 1: a worker per element; the element holds its thread.
PmapSpawn(t, x) ==
    /\ pc[t] = "spawn"
    /\ Len(elems[t]) < MaxElements
    /\ NewThread(t, x, "spawn")
    /\ kind' = [kind EXCEPT ![x] = "element"]
    /\ hasThread' = [hasThread EXCEPT ![x] = TRUE]
    /\ elems' = [elems EXCEPT ![t] = Append(@, x)]
    /\ UNCHANGED <<error, result, done, promise, exitVars, target, index, failed, ghosts>>

PmapSpawned(t) ==
    /\ pc[t] = "spawn"
    /\ index' = [index EXCEPT ![t] = 1]
    /\ Goto(t, "collect")
    /\ UNCHANGED <<kind, thread, attributes, promise, exitVars, target,
                   elems, failed, ghosts>>

\* The last failing element is the one raised.
Mutant_LastFailure(t) ==
    /\ pc[t] = "collect"
    /\ index[t] <= Len(elems[t])
    /\ LET x == elems[t][index[t]] IN
         /\ thread[x] = "ended"
         /\ failed' = [failed EXCEPT ![t] = IF error[x] # NoError THEN index[t] ELSE @]
    /\ index' = [index EXCEPT ![t] = @ + 1]
    /\ UNCHANGED <<kind, thread, attributes, promise, exitVars, pc, target,
                   elems, ghosts>>

\* Phase 2: join the element at `i', finished or not, and look for its error.
PmapCollect(t) ==
    /\ pc[t] = "collect"
    /\ index[t] <= Len(elems[t])
    /\ LET x == elems[t][index[t]] IN
         /\ thread[x] = "ended"
         /\ failed' = [failed EXCEPT ![t] =
              IF @ = 0 /\ error[x] # NoError THEN index[t] ELSE @]
    /\ index' = [index EXCEPT ![t] = @ + 1]
    /\ UNCHANGED <<kind, thread, attributes, promise, exitVars, pc, target,
                   elems, ghosts>>

\* The first failing element's error, or the results.
PmapReturns(t) ==
    /\ pc[t] = "collect"
    /\ index[t] > Len(elems[t])
    /\ answer' = [answer EXCEPT ![t] = <<"pmap",
         IF failed[t] # 0 THEN <<"error", error[elems[t][failed[t]]]>>
         ELSE <<"value", [i \in 1..Len(elems[t]) |-> result[elems[t][i]]]>>, elems[t]>>]
    /\ Goto(t, "return")
    /\ UNCHANGED <<kind, thread, attributes, promise, exitVars, target,
                   pmapVars, known, early, outcome, wins>>

-----------------------------------------------------------------------------
(* shutdownWorkers, on the evaluator thread at the end of the program. *)

\* shutdownFuturesImpl: the registry is moved out under its mutex.
SwapRegistry ==
    /\ pc[Main] = "clojure"
    /\ snapshot' = registry
    /\ registry' = {}
    /\ early' = known
    /\ Goto(Main, "joinFutures")
    /\ UNCHANGED <<kind, thread, attributes, promise, target, pmapVars,
                   known, outcome, answer, wins>>

\* The joins of the snapshot, one after the other.
JoinFutures ==
    /\ pc[Main] = "joinFutures"
    /\ \A x \in snapshot : thread[x] = "ended"
    /\ Goto(Main, "joinActors")
    /\ UNCHANGED <<kind, thread, attributes, promise, exitVars, target,
                   pmapVars, ghosts>>

\* A worker of the pool leaves once the mailboxes are drained (ActorScheduler).
WorkerLeaves(w) ==
    /\ pc[w] = "clojure"
    /\ pc[Main] = "joinActors"
    /\ Goto(w, "ended")
    /\ UNCHANGED <<kind, thread, attributes, promise, exitVars, target,
                   pmapVars, ghosts>>

\* ActorScheduler::shutdown has returned; the modules and the space go.
ReleaseSpace ==
    /\ pc[Main] = "joinActors"
    /\ \A w \in Workers : pc[w] = "ended"
    /\ Goto(Main, "ended")
    /\ UNCHANGED <<kind, thread, attributes, promise, exitVars, target,
                   pmapVars, ghosts>>

-----------------------------------------------------------------------------

\* A thread of a task that is not in Clojure code goes on; so does any thread
\* in the middle of a primitive.
Step(t) ==
    \/ SetThread(t) \/ RegisterFuture(t)
    \/ Join(t) \/ DerefFailure(t) \/ DerefResult(t) \/ Poll(t) \/ Return(t)
    \/ PmapSpawned(t) \/ PmapCollect(t) \/ PmapReturns(t)

TaskStep(x) ==
    \/ \E v \in Values : BodyReturns(x, v) \/ BodyThrows(x, v)
    \/ StoreError(x) \/ StoreResult(x) \/ StoreDone(x) \/ ThreadEnds(x)

ExitStep == JoinFutures \/ ReleaseSpace

\* What Clojure code may do next.
CodeStep(t) ==
    \/ \E x \in Tasks : BuildFuture(t, x) \/ DerefFuture(t, x) \/ PmapSpawn(t, x)
    \/ \E x \in Tasks \cup Promises : Realized(t, x)
    \/ \E p \in Promises, v \in Values : Deliver(t, p, v)
    \/ \E p \in Promises : DerefPromise(t, p)
    \/ PmapCall(t)

\* The space is gone: nothing is modelled after it.
Running == pc[Main] # "ended"

Next ==
    /\ Running
    /\ \/ \E t \in Threads : CodeStep(t) \/ Step(t)
       \/ \E x \in Tasks : TaskStep(x)
       \/ SwapRegistry
       \/ \E w \in Workers : WorkerLeaves(w)
       \/ ExitStep

Spec == Init /\ [][Next]_vars

-----------------------------------------------------------------------------
(* Properties. *)

\* deref of a future answers exactly what its body did, whether it found the
\* future done or joined it: never nil for a result to come, never a value for
\* a body that threw.  realized? answers true only when all that a deref reads
\* is in place (prim_deref and prim_realized_p against futureThreadMain).
DerefExact ==
    \A t \in Threads, x \in Tasks :
        /\ answer[t][1] = x => answer[t][2] = outcome[x]
        /\ answer[t] = <<"realized", x>> =>
             outcome[x] = IF error[x] # NoError THEN <<"error", error[x]>>
                                                ELSE <<"value", result[x]>>

\* pmap answers the results in order, or the error of the first failing element
\* in the order of the collection whichever failed first in time, and leaves
\* none of its threads running (prim_pmap).
PmapExact ==
    \A t \in Threads : answer[t][1] = "pmap" =>
        LET es == answer[t][3]
            bad == {i \in DOMAIN es : outcome[es[i]][1] = "error"}
        IN  /\ \A i \in DOMAIN es : thread[es[i]] = "ended"
            /\ answer[t][2] =
                 IF bad = {} THEN <<"value", [i \in DOMAIN es |-> outcome[es[i]][2]]>>
                 ELSE outcome[es[CHOOSE i \in bad : \A j \in bad : i <= j]]

\* Of all the delivers to a promise one is told it won, and every deref answers
\* the value of that one (deliverPromise, promiseValue).
OneDelivery ==
    \A p \in Promises :
        /\ Len(wins[p]) <= 1
        /\ promise[p] # Pending => wins[p] = <<promise[p]>>
        /\ \A t \in Threads : answer[t][1] = p => <<answer[t][2][2]>> = wins[p]

\* When shutdownFutures returns, every future that any code held when the
\* registry was swapped has ended (buildFuture registers before it returns).
JoinedAtExit ==
    pc[Main] \in {"joinActors", "ended"} => \A x \in early : thread[x] = "ended"

\* "no worker thread outlives the ProtoSpace" (src/src/main.cpp:268).
NoThreadOutlives ==
    pc[Main] = "ended" => \A x \in Tasks : thread[x] # "running"

\* What thread t waits for: the end of a task's thread, or a promise.
AwaitedBy(t) ==
    CASE pc[t] \in {"join", "poll"} -> {target[t]}
      [] pc[t] = "collect" /\ index[t] <= Len(elems[t]) -> {elems[t][index[t]]}
      [] OTHER -> {}

\* While the evaluator thread joins the futures, none of them needs anything of
\* it, the registry's mutex least of all: a task that cannot go on waits for a
\* task that still runs or for a promise nobody delivered, which is of the
\* program's making (shutdownFuturesImpl joins outside the mutex).
WaitsOnlyForTasks ==
    pc[Main] = "joinFutures" =>
        \A x \in Tasks : thread[x] = "running" /\ ~ENABLED (Step(x) \/ TaskStep(x)) =>
            \E y \in AwaitedBy(x) :
                IF y \in Tasks THEN thread[y] = "running" ELSE promise[y] = Pending

=============================================================================
