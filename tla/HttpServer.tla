----------------------------- MODULE HttpServer -----------------------------
(***************************************************************************)
(* The threads of an HTTP server and their stop (run-server, stop-server   *)
(* and shutdownIO in src/src/runtime/IO.cpp).                              *)
(*                                                                         *)
(* One server: the thread that starts it, its accept thread, a thread per  *)
(* connection, and the threads that stop it, a handler among them.  A step *)
(* is one critical section, one access to an atomic or one blocking call.  *)
(* The three builds stop in different ways; `platform' and `timed' are     *)
(* fixed in Init.                                                          *)
(* What a request and an answer hold is abstracted away.                   *)
(***************************************************************************)
EXTENDS Naturals, FiniteSets

CONSTANTS
    Conns,          \* the connections clients make, each once
    Callers,        \* program threads that call stop-server
    Main,           \* the main thread, whose shutdownIO ends the run
    Platforms,      \* the builds checked
    StartedByMain,  \* the main thread itself calls run-server
    ReadTimeouts,   \* the sorts of :read-timeout checked: TRUE for a limit, the default,
                    \*   FALSE for a negative one, which never ends a read
    None

ASSUME HttpAssumption ==
    /\ IsFiniteSet(Conns)
    /\ Conns \cap Callers = {} /\ Main \notin Conns \cup Callers
    /\ None \notin Conns \cup Callers \cup {Main}
    /\ Platforms \subseteq {"linux", "macos", "windows"}
    /\ StartedByMain \in BOOLEAN /\ ReadTimeouts \subseteq BOOLEAN

Stoppers == Conns \cup Callers \cup {Main}

VARIABLES
    platform,
    timed,          \* limits: the server's :read-timeout ends a read
    startPc,        \* run-server: "none", "registered" (in g_servers), "spawned"
                    \*   (the accept thread may run), "running" (acceptThread is set)
    stopping, joined,
    pinned,         \* the handler is in g_ioRoots
    mutex,          \* who holds HttpServer::mutex across steps, or None
    inAccept,
    listener,       \* the listening socket: "open", "shut" or "closed"
    connections,    \* HttpServer::connections
    acceptPc,
    got,            \* the connection tcpAccept answered, or None
    toJoin,         \* `finished' of joinConnections
    connPc,
    sock,           \* "none", "open", "shut" or "closed" (Connection::closed)
    reading,
    stopPc,
    todo,           \* todo[p]: connections requestStop has still to look at
    gc,             \* protoCore's collector: "idle" or "stopping" the world
    \* History, read by no action:
    answer,         \* answer[c]: "none", "sent" or "lost"
    unjoined        \* a stop found acceptThread null although the thread ran

server == <<startPc, stopping, joined, pinned, unjoined>>
acceptor == <<acceptPc, got, toJoin>>
conns == <<connPc, reading, answer>>
stops == <<stopPc, todo>>
vars == <<platform, timed, server, mutex, inAccept, listener, connections, acceptor,
          sock, conns, stops, gc>>

Init ==
    /\ platform \in Platforms /\ timed \in ReadTimeouts
    /\ startPc = "none"
    /\ stopping = FALSE /\ joined = FALSE /\ pinned = FALSE
    /\ mutex = None /\ inAccept = FALSE
    /\ listener = "closed"
    /\ connections = {}
    /\ acceptPc = "none" /\ got = None /\ toJoin = {}
    /\ connPc = [c \in Conns |-> "none"]
    /\ sock = [c \in Conns |-> "none"]
    /\ reading = [c \in Conns |-> TRUE]
    /\ stopPc = [p \in Stoppers |-> "idle"]
    /\ todo = [p \in Stoppers |-> {}]
    /\ gc = "idle"
    /\ answer = [c \in Conns |-> "none"]
    /\ unjoined = FALSE

-----------------------------------------------------------------------------
(* run-server                                                              *)

Register ==
    /\ startPc = "none"
    /\ StartedByMain => stopPc[Main] = "idle"
    /\ startPc' = "registered"
    /\ listener' = "open" /\ pinned' = TRUE
    /\ UNCHANGED <<platform, timed, stopping, joined, unjoined, mutex, inAccept, connections,
                   acceptor, sock, conns, stops, gc>>

\* newThread: the accept thread runs...
StartAccept ==
    /\ startPc = "registered"
    /\ startPc' = "spawned" /\ acceptPc' = "loop"
    /\ UNCHANGED <<platform, timed, stopping, joined, pinned, unjoined, mutex, inAccept, listener,
                   connections, got, toJoin, sock, conns, stops, gc>>

\* ...before its address is stored; then the caller gets the handle.
StoreAcceptThread ==
    /\ startPc = "spawned"
    /\ startPc' = "running"
    /\ UNCHANGED <<platform, timed, stopping, joined, pinned, unjoined, mutex, inAccept, listener,
                   connections, acceptor, sock, conns, stops, gc>>

\* run-server has registered the server and not yet returned.
Starting == startPc \in {"registered", "spawned"}

-----------------------------------------------------------------------------
(* acceptMain                                                              *)

AcceptGoto(label) == acceptPc' = label /\ UNCHANGED <<got, toJoin>>

LoopTest ==
    /\ acceptPc = "loop"
    /\ AcceptGoto(IF stopping THEN "joinAll" ELSE "reap")
    /\ UNCHANGED <<platform, timed, server, mutex, inAccept, listener, connections,
                   sock, conns, stops, gc>>

\* joinConnections: takes the threads to join out of `connections'...
TakeFinished(all) ==
    /\ acceptPc = IF all THEN "joinAll" ELSE "reap"
    /\ mutex = None
    /\ toJoin' = {c \in connections : all \/ connPc[c] = "ended"}
    /\ connections' = connections \ toJoin'
    /\ acceptPc' = IF all THEN "joiningAll" ELSE "reaping"
    /\ UNCHANGED <<platform, timed, server, mutex, inAccept, listener, got, sock, conns,
                   stops, gc>>

\* ...and joins them.  ProtoThread::join leaves managed state meanwhile.
JoinFinished ==
    /\ acceptPc \in {"reaping", "joiningAll"}
    /\ \A c \in toJoin : connPc[c] = "ended"
    /\ gc = "idle"
    /\ toJoin' = {}
    /\ acceptPc' = IF acceptPc = "reaping" THEN "enter" ELSE "closeListener"
    /\ UNCHANGED <<platform, timed, server, mutex, inAccept, listener, connections, got,
                   sock, conns, stops, gc>>

\* Before tcpAccept, out of managed state.
EnterAccept ==
    /\ acceptPc = "enter"
    /\ \/ platform = "linux" /\ AcceptGoto("accept") /\ UNCHANGED inAccept
       \/ platform = "windows" /\ AcceptGoto("entered") /\ inAccept' = TRUE
       \/ platform = "macos" /\ mutex = None /\ stopping
            /\ AcceptGoto("left") /\ UNCHANGED inAccept
       \/ platform = "macos" /\ mutex = None /\ ~stopping
            /\ AcceptGoto("accept") /\ inAccept' = TRUE
    /\ UNCHANGED <<platform, timed, server, mutex, listener, connections, sock, conns,
                   stops, gc>>

\* Windows looks at `stopping' again once inAccept is set.
EnteredTest ==
    /\ acceptPc = "entered"
    /\ AcceptGoto(IF stopping THEN "leave" ELSE "accept")
    /\ UNCHANGED <<platform, timed, server, mutex, inAccept, listener, connections,
                   sock, conns, stops, gc>>

\* tcpAccept answers a connection...
AcceptConn(c) ==
    /\ acceptPc = "accept" /\ listener = "open"
    /\ sock[c] = "none"
    /\ acceptPc' = "leave" /\ got' = c
    /\ sock' = [sock EXCEPT ![c] = "open"]
    /\ UNCHANGED <<platform, timed, server, mutex, inAccept, listener, connections,
                   toJoin, conns, stops, gc>>

\* ...or raises, or, in macOS's slices, times out.
AcceptFails ==
    /\ acceptPc = "accept"
    /\ AcceptGoto("leave")
    /\ UNCHANGED <<platform, timed, server, mutex, inAccept, listener, connections,
                   sock, conns, stops, gc>>


\* ~InAccept, before the UnmanagedScope ends.
LeaveAccept ==
    /\ acceptPc = "leave"
    /\ platform # "linux" => mutex = None
    /\ inAccept' = FALSE
    /\ listener' = IF platform = "macos" /\ stopping THEN "closed" ELSE listener
    /\ AcceptGoto("left")
    /\ UNCHANGED <<platform, timed, server, mutex, connections, sock, conns, stops, gc>>

\* The end of the UnmanagedScope waits for a collection in progress.
BackToManaged ==
    /\ acceptPc = "left" /\ gc = "idle"
    /\ AcceptGoto(IF got = None THEN "loop" ELSE "push")
    /\ UNCHANGED <<platform, timed, server, mutex, inAccept, listener, connections,
                   sock, conns, stops, gc>>

\* The connection is not closed when a stop came meanwhile.
Mutant_KeepLate ==
    /\ acceptPc = "pushed"
    /\ connPc' = [connPc EXCEPT ![got] = IF stopping THEN "ended" ELSE "read"]
    /\ acceptPc' = IF stopping THEN "joinAll" ELSE "loop"
    /\ got' = None
    /\ UNCHANGED <<platform, timed, server, mutex, inAccept, listener, connections, sock,
                   toJoin, reading, answer, stops, gc>>

PushConn ==
    /\ acceptPc = "push" /\ mutex = None
    /\ connections' = connections \cup {got}
    /\ AcceptGoto("pushed")
    /\ UNCHANGED <<platform, timed, server, mutex, inAccept, listener, sock, conns,
                   stops, gc>>

\* The connection's thread, unless a stop came meanwhile: then the connection
\* is closed and marked done, without a thread.
SpawnConn ==
    /\ acceptPc = "pushed"
    /\ \/ /\ stopping
          /\ sock' = [sock EXCEPT ![got] = "closed"]
          /\ connPc' = [connPc EXCEPT ![got] = "ended"]
          /\ acceptPc' = "joinAll"
       \/ /\ ~stopping
          /\ connPc' = [connPc EXCEPT ![got] = "read"]
          /\ acceptPc' = "loop"
          /\ UNCHANGED sock
    /\ got' = None
    /\ UNCHANGED <<platform, timed, server, mutex, inAccept, listener, connections,
                   toJoin, reading, answer, stops, gc>>

CloseListener ==
    /\ acceptPc = "closeListener" /\ mutex = None
    /\ listener' = "closed"
    /\ AcceptGoto("ended")
    /\ UNCHANGED <<platform, timed, server, mutex, inAccept, connections, sock, conns,
                   stops, gc>>

-----------------------------------------------------------------------------
(* serveConnection                                                         *)

ConnGoto(c, label) == connPc' = [connPc EXCEPT ![c] = label]

\* readRequestHead and readBody answer a request, which needs the socket...
ReadRequest(c) ==
    /\ connPc[c] = "read" /\ sock[c] = "open"
    /\ ConnGoto(c, "request")
    /\ UNCHANGED <<platform, timed, server, mutex, inAccept, listener, connections,
                   acceptor, sock, reading, answer, stops, gc>>

\* ...or refuse it, or end without one: the client has left, the time is up,
\* or the socket was shut or closed by requestStop.
ReadFails(c, refused) ==
    /\ connPc[c] = "read"
    /\ ConnGoto(c, IF refused THEN "refusal" ELSE "nothing")
    /\ UNCHANGED <<platform, timed, server, mutex, inAccept, listener, connections,
                   acceptor, sock, reading, answer, stops, gc>>

\* `reading' is cleared only when there is no request to handle.
Mutant_KeepsReading(c) ==
    /\ connPc[c] \in {"request", "refusal", "nothing"}
    /\ gc = "idle"
    /\ reading' = [reading EXCEPT ![c] = connPc[c] = "request"]
    /\ ConnGoto(c, CASE connPc[c] = "request" -> "handle"
                     [] connPc[c] = "refusal" -> "refuse"
                     [] OTHER -> "close")
    /\ UNCHANGED <<platform, timed, server, mutex, inAccept, listener, connections,
                   acceptor, sock, answer, stops, gc>>

\* Back in managed state; `reading' is cleared under the connection's mutex.
EndRead(c) ==
    /\ connPc[c] \in {"request", "refusal", "nothing"}
    /\ gc = "idle"
    /\ reading' = [reading EXCEPT ![c] = FALSE]
    /\ ConnGoto(c, CASE connPc[c] = "request" -> "handle"
                     [] connPc[c] = "refusal" -> "refuse"
                     [] OTHER -> "close")
    /\ UNCHANGED <<platform, timed, server, mutex, inAccept, listener, connections,
                   acceptor, sock, answer, stops, gc>>

\* The handler returns or raises; it may have stopped its own server.
HandlerReturns(c) ==
    /\ connPc[c] = "handle"
    /\ stopPc[c] \in {"idle", "returned"}
    /\ ConnGoto(c, "write")
    /\ UNCHANGED <<platform, timed, server, mutex, inAccept, listener, connections,
                   acceptor, sock, reading, answer, stops, gc>>

\* writeResponse (or writePlain), the answer reaches a client that is there
\* when the socket is open.
WriteAnswer(c) ==
    /\ connPc[c] \in {"write", "refuse"}
    /\ gc = "idle"
    /\ answer' = IF connPc[c] = "write"
                   THEN [answer EXCEPT ![c] = IF sock[c] = "open" THEN "sent" ELSE "lost"]
                   ELSE answer
    /\ ConnGoto(c, "close")
    /\ UNCHANGED <<platform, timed, server, mutex, inAccept, listener, connections,
                   acceptor, sock, reading, stops, gc>>

\* closeConnection, and the end of connectionMain.
CloseConn(c) ==
    /\ connPc[c] = "close"
    /\ sock' = [sock EXCEPT ![c] = "closed"]
    /\ ConnGoto(c, "ended")
    /\ UNCHANGED <<platform, timed, server, mutex, inAccept, listener, connections,
                   acceptor, reading, answer, stops, gc>>

-----------------------------------------------------------------------------
(* stopServer                                                              *)

StopGoto(p, label) == stopPc' = [stopPc EXCEPT ![p] = label] /\ UNCHANGED todo

\* Who may stop the server: a handler of its own or another thread with the
\* handle, and shutdownIO, which finds the server in g_servers.
MayStop(p) ==
    \/ p \in Conns /\ connPc[p] = "handle" /\ startPc = "running"
    \/ p \in Callers /\ startPc = "running"
    \/ p = Main /\ (StartedByMain => ~Starting)

\* stopping.exchange(true): the first caller goes on with requestStop.  A
\* shutdownIO that finds no server has nothing to do.
StopCall(p) ==
    /\ stopPc[p] = "idle" /\ MayStop(p)
    /\ IF startPc = "none"
         THEN StopGoto(p, "returned") /\ UNCHANGED stopping
         ELSE /\ StopGoto(p, IF stopping THEN "requested" ELSE "lock")
              /\ stopping' = TRUE
    /\ UNCHANGED <<platform, timed, startPc, joined, pinned, unjoined, mutex, inAccept, listener,
                   connections, acceptor, sock, conns, gc>>

\* macOS closes the listener under the accept thread.
Mutant_CloseInUse(p) ==
    /\ stopPc[p] = "lock" /\ mutex = None
    /\ mutex' = p
    /\ listener' = IF platform = "linux" /\ listener = "open" THEN "shut" ELSE "closed"
    /\ stopPc' = [stopPc EXCEPT ![p] = "wake"]
    /\ todo' = [todo EXCEPT ![p] = connections]
    /\ UNCHANGED <<platform, timed, server, inAccept, connections, acceptor, sock, conns, gc>>

\* requestStop takes the mutex and deals with the listening socket.
StopListener(p) ==
    /\ stopPc[p] = "lock" /\ mutex = None
    /\ mutex' = p
    /\ listener' = IF listener = "closed" \/ (platform = "macos" /\ inAccept) THEN listener
                   ELSE IF platform = "linux" THEN "shut" ELSE "closed"
    /\ stopPc' = [stopPc EXCEPT ![p] = "wake"]
    /\ todo' = [todo EXCEPT ![p] = connections]
    /\ UNCHANGED <<platform, timed, server, inAccept, connections, acceptor, sock, conns, gc>>

\* It wakes a connection that waits for its request, under that connection's mutex.
WakeConn(p, c) ==
    /\ stopPc[p] = "wake" /\ c \in todo[p]
    /\ todo' = [todo EXCEPT ![p] = @ \ {c}]
    /\ sock' = IF sock[c] # "closed" /\ reading[c]
                 THEN [sock EXCEPT ![c] = IF platform = "windows" THEN "closed" ELSE "shut"]
                 ELSE sock
    /\ UNCHANGED <<platform, timed, server, mutex, inAccept, listener, connections,
                   acceptor, conns, stopPc, gc>>

\* The mutex is released, on Linux by the end of requestStop, else by the wait
\* for the accept thread to leave tcpAccept.
WakeDone(p) ==
    /\ stopPc[p] = "wake" /\ todo[p] = {}
    /\ mutex' = None
    /\ StopGoto(p, IF platform = "linux" THEN "requested" ELSE "waitAccept")
    /\ UNCHANGED <<platform, timed, server, inAccept, listener, connections, acceptor,
                   sock, conns, gc>>

\* acceptLeft.wait
AcceptLeft(p) ==
    /\ stopPc[p] = "waitAccept" /\ mutex = None /\ ~inAccept
    /\ StopGoto(p, "requested")
    /\ UNCHANGED <<platform, timed, server, mutex, inAccept, listener, connections,
                   acceptor, sock, conns, gc>>

\* A handler that stops its server does not wait but unpins it.
Mutant_HandlerUnpins(p) ==
    /\ stopPc[p] = "requested"
    /\ IF joined
         THEN StopGoto(p, "returned") /\ UNCHANGED <<joined, pinned>>
         ELSE /\ joined' = TRUE
              /\ StopGoto(p, IF p \in Callers \cup {Main} THEN "join" ELSE "returned")
              /\ pinned' = (p \in Callers \cup {Main} /\ pinned)
    /\ UNCHANGED <<platform, timed, startPc, stopping, unjoined, mutex, inAccept, listener,
                   connections, acceptor, sock, conns, gc>>

\* After requestStop: a handler of this server returns, and so does a caller
\* that finds joined set.  acceptThread is null until run-server has stored it:
\* there is nothing to join, and the handler is unpinned at once.
ClaimJoin(p) ==
    /\ stopPc[p] = "requested"
    /\ IF p \in Conns \/ joined
         THEN StopGoto(p, "returned") /\ UNCHANGED <<joined, pinned, unjoined>>
         ELSE /\ joined' = TRUE
              /\ StopGoto(p, IF startPc = "running" THEN "join" ELSE "returned")
              /\ pinned' = (startPc = "running" /\ pinned)
              /\ unjoined' = (startPc = "spawned")
    /\ UNCHANGED <<platform, timed, startPc, stopping, mutex, inAccept, listener,
                   connections, acceptor, sock, conns, gc>>

\* The join returns; the handler is unpinned.
JoinAccept(p) ==
    /\ stopPc[p] = "join" /\ acceptPc = "ended" /\ gc = "idle"
    /\ pinned' = FALSE
    /\ StopGoto(p, "returned")
    /\ UNCHANGED <<platform, timed, startPc, stopping, joined, unjoined, mutex, inAccept, listener,
                   connections, acceptor, sock, conns, gc>>

\* The end of the main thread's shutdownWorkers: the futures and actors, the
\* other callers and a starter among them, have been waited for.
ExitRun ==
    /\ stopPc[Main] = "returned"
    /\ ~Starting
    /\ \A p \in Callers : stopPc[p] \in {"idle", "returned"}
    /\ stopPc' = [p \in Stoppers |-> IF p = Main THEN "exited" ELSE stopPc[p]]
    /\ UNCHANGED <<platform, timed, server, mutex, inAccept, listener, connections,
                   acceptor, sock, conns, todo, gc>>

-----------------------------------------------------------------------------
(* The collector (external).                                               *)

GcStart ==
    /\ gc = "idle" /\ gc' = "stopping"
    /\ UNCHANGED <<platform, timed, server, mutex, inAccept, listener, connections,
                   acceptor, sock, conns, stops>>

\* The world is stopped, and let go again, once every thread in managed state
\* is at a safepoint: not one that waits for the mutex, holds it, or waits for
\* the accept thread.
GcDone ==
    /\ gc = "stopping"
    /\ \A p \in Stoppers : stopPc[p] \notin {"lock", "wake", "waitAccept"}
    /\ acceptPc \notin {"reap", "joinAll", "push", "closeListener"}
    /\ gc' = "idle"
    /\ UNCHANGED <<platform, timed, server, mutex, inAccept, listener, connections,
                   acceptor, sock, conns, stops>>

-----------------------------------------------------------------------------

AcceptStep ==
    \/ LoopTest
    \/ \E all \in BOOLEAN : TakeFinished(all)
    \/ JoinFinished \/ EnterAccept \/ EnteredTest \/ LeaveAccept
    \/ BackToManaged \/ PushConn \/ SpawnConn \/ CloseListener

ConnStep(c) == EndRead(c) \/ HandlerReturns(c) \/ WriteAnswer(c) \/ CloseConn(c)

StopStep(p) ==
    \/ StopListener(p)
    \/ \E c \in Conns : WakeConn(p, c)
    \/ WakeDone(p) \/ AcceptLeft(p) \/ ClaimJoin(p) \/ JoinAccept(p)

Next ==
    \/ Register \/ StartAccept \/ StoreAcceptThread
    \/ AcceptStep \/ AcceptFails
    \/ \E c \in Conns : AcceptConn(c) \/ ReadRequest(c) \/ ConnStep(c)
    \/ \E c \in Conns, refused \in BOOLEAN : ReadFails(c, refused)
    \/ \E p \in Stoppers : StopCall(p) \/ StopStep(p)
    \/ ExitRun
    \/ GcStart \/ GcDone

Spec == Init /\ [][Next]_vars

\* Threads run, also those a mutex or the collector keeps waiting; handlers
\* end; a collection ends; a shut or closed listener, or a macOS slice, ends
\* tcpAccept; a shut or closed socket ends a read, and :read-timeout does unless
\* it is negative.  No client need ever connect or send.
FairSpec ==
    /\ Spec
    /\ WF_vars(StartAccept \/ StoreAcceptThread)
    /\ SF_vars(AcceptStep)
    /\ WF_vars((listener # "open" \/ platform = "macos") /\ AcceptFails)
    /\ \A c \in Conns : SF_vars(ConnStep(c))
                       /\ WF_vars((timed \/ sock[c] # "open") /\ ReadFails(c, FALSE))
    /\ \A p \in Stoppers : SF_vars(StopStep(p))
    /\ WF_vars(GcDone)

-----------------------------------------------------------------------------

\* A descriptor is not released under a thread that uses it: outside Windows,
\* where protoIO keeps it, no connection thread reads, handles or writes on a
\* closed socket, and the accept thread is never in tcpAccept on a closed one
\* ("a descriptor number is never released under a thread still using it").
NotReleasedInUse ==
    platform # "windows" =>
        /\ acceptPc = "accept" => listener # "closed"
        /\ \A c \in Conns :
             connPc[c] \in {"read", "request", "refusal", "nothing", "handle",
                            "refuse", "write"} => sock[c] # "closed"

\* A stop never touches the socket of a request whose handler runs or whose
\* answer is being written: requestStop believes `reading', so that flag must be
\* down by then, whoever stops the server and whenever.  A socket that was open
\* when the handler began takes its answer (but see HandledIsAnswered).
HandlerKeepsSocket ==
    [][\A c \in Conns :
         connPc[c] \in {"handle", "refuse", "write"} => sock'[c] = sock[c]]_vars

\* While a handler runs it is pinned, however stops overlap: the collector cannot
\* take it.  The exception is a server started by another thread than the main
\* one which shutdownIO stopped before acceptThread was stored (IO.cpp:1474).
PinnedWhileServing ==
    \A c \in Conns : connPc[c] = "handle" => pinned \/ (unjoined /\ ~StartedByMain)

\* When the accept thread has ended no thread of the server is left and every
\* socket it was given is closed, a connection accepted during the stop too.
ClosedAtEnd ==
    acceptPc = "ended" =>
        /\ listener = "closed"
        /\ \A c \in Conns : sock[c] \in {"none", "closed"}
                            /\ connPc[c] \in {"none", "ended"}

\* The accept thread, having seen `stopping', took the connections out of the
\* list before requestStop walked it, and now joins one that still waits for its
\* client on an open socket.
Unwoken ==
    /\ acceptPc = "joiningAll"
    /\ \E c \in toJoin : connPc[c] = "read" /\ sock[c] = "open"


-----------------------------------------------------------------------------
(* What comments and docs say and the code does not do.                    *)

\* The handler is "pinned in g_ioRoots", and stopServer "waits for its threads
\* and unpins its handler": whenever the handler runs it is pinned.
HandlerPinned == \A c \in Conns : connPc[c] = "handle" => pinned

\* "wakes every connection still waiting for its request" (requestStop): when
\* it has run, no connection waits on an open socket.
WakesReaders ==
    stopping /\ (\A p \in Stoppers : stopPc[p] \notin {"lock", "wake"})
        => \A c \in Conns : connPc[c] = "read" => sock[c] # "open"

\* "lets requests in progress finish" (stop-server): the answer of a handler
\* that has run reaches a client that is there.
HandledIsAnswered == \A c \in Conns : answer[c] # "lost"

\* "and waits for them" (stop-server): when a call outside the server's own
\* handlers returns, the threads of the server have ended.
StopWaits ==
    \A p \in Callers : stopPc[p] = "returned" => acceptPc = "ended"

\* "so no worker thread outlives the ProtoSpace" (the run driver): at the end
\* of the run no accept thread is left.
NoServerOutlives ==
    stopPc[Main] = "exited" => acceptPc \in {"none", "ended"}

=============================================================================
