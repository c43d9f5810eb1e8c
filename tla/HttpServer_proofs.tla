-------------------------- MODULE HttpServer_proofs --------------------------
(***************************************************************************)
(* Proofs about HttpServer, for any connections, any threads that stop the *)
(* server and each of the three builds: what the stops may do to sockets   *)
(* and handlers in use, what is left when the accept thread ends, and that *)
(* no stop hangs on a circle of waits.                                     *)
(***************************************************************************)
EXTENDS HttpServer, TLAPS

AcceptPcs == {"none", "loop", "reap", "reaping", "enter", "entered", "accept", "leave",
              "left", "push", "pushed", "joinAll", "joiningAll", "closeListener", "ended"}

ConnPcs == {"none", "read", "request", "refusal", "nothing", "handle", "refuse", "write",
            "close", "ended"}

StopPcs == {"idle", "lock", "wake", "waitAccept", "requested", "join", "returned", "exited"}

AcceptTypes ==
    /\ platform \in {"linux", "macos", "windows"}
    /\ startPc \in {"none", "registered", "spawned", "running"}
    /\ stopping \in BOOLEAN /\ joined \in BOOLEAN /\ pinned \in BOOLEAN
    /\ unjoined \in BOOLEAN
    /\ inAccept \in BOOLEAN
    /\ listener \in {"open", "shut", "closed"}
    /\ acceptPc \in AcceptPcs
    /\ got \in Conns \cup {None}
    /\ connections \in SUBSET Conns
    /\ toJoin \in SUBSET Conns

ConnTypes ==
    /\ connPc \in [Conns -> ConnPcs]
    /\ sock \in [Conns -> {"none", "open", "shut", "closed"}]
    /\ reading \in [Conns -> BOOLEAN]

StopTypes ==
    /\ stopPc \in [Stoppers -> StopPcs]
    /\ todo \in [Stoppers -> SUBSET Conns]

-----------------------------------------------------------------------------
(* The inductive invariant. *)

\* The accept thread runs from run-server's newThread on.
Started == acceptPc = "none" <=> startPc \in {"none", "registered"}

\* A thread in stopServer has set `stopping', and so the accept thread leaves
\* its loop for no other reason.
StopIsSeen ==
    /\ \A p \in Stoppers :
         stopPc[p] \in {"lock", "wake", "waitAccept", "requested", "join"} =>
             stopping /\ startPc # "none"
    /\ acceptPc \in {"joinAll", "joiningAll", "closeListener", "ended"} => stopping

\* Who may have closed the listening socket.
ListenerInv ==
    /\ startPc # "none" /\ listener = "closed" => stopping
    /\ platform = "linux" /\ startPc # "none" /\ listener = "closed" => acceptPc = "ended"
    /\ platform = "macos" /\ acceptPc = "accept" => inAccept /\ listener # "closed"
    /\ acceptPc = "entered" => platform = "windows"
    /\ acceptPc = "ended" => listener = "closed"

\* The connection on its way from tcpAccept to its thread, and the threads the
\* accept thread still answers for.
AcceptorInv ==
    /\ got # None => acceptPc \in {"leave", "left", "push", "pushed"}
    /\ acceptPc \in {"push", "pushed"} => got # None
    /\ acceptPc = "pushed" => got \in connections
    /\ acceptPc \notin {"reaping", "joiningAll"} => toJoin = {}
    /\ acceptPc \in {"joiningAll", "closeListener", "ended"} => connections = {}

\* A connection: accepted, given a thread, closed.
ConnAt(c) ==
    /\ sock[c] = "none" => connPc[c] = "none" /\ got # c
    /\ connPc[c] = "none" /\ sock[c] # "none" => got = c
    /\ got = c => connPc[c] = "none"
    /\ c \in connections \/ (\E p \in Stoppers : c \in todo[p]) => sock[c] # "none"
    /\ connPc[c] \notin {"none", "ended"} => c \in connections \cup toJoin
    /\ connPc[c] = "ended" => sock[c] = "closed"
    /\ platform # "windows" /\ sock[c] = "closed" => connPc[c] = "ended"

ConnInv == \A c \in Conns : ConnAt(c)

\* Once the handler is unpinned no connection is served, and none will be, if
\* the stop that unpinned it did not overlook a running accept thread.
UnpinnedInv ==
    /\ unjoined => joined
    /\ startPc # "none" /\ ~pinned /\ ~unjoined =>
         /\ stopping
         /\ acceptPc \in {"none", "loop", "joinAll", "joiningAll", "closeListener", "ended"}
         /\ \A c \in Conns : connPc[c] \in {"none", "ended"}

\* Nothing is served before the accept thread runs.
NotYetServing == startPc \in {"none", "registered"} => \A c \in Conns : connPc[c] = "none"

IInv ==
    /\ AcceptTypes /\ ConnTypes /\ StopTypes
    /\ Started /\ StopIsSeen /\ ListenerInv /\ AcceptorInv /\ ConnInv
    /\ NotYetServing /\ UnpinnedInv

-----------------------------------------------------------------------------

\* Before run-server there is nothing.
LEMMA InvInit == Init => IInv
<1> SUFFICES ASSUME Init PROVE IInv
  OBVIOUS
<1>1. AcceptTypes
  BY HttpAssumption DEF Init, AcceptTypes, AcceptPcs
<1>2. ConnTypes /\ StopTypes
  BY DEF Init, ConnTypes, ConnPcs, StopTypes, StopPcs
<1>3. Started /\ StopIsSeen /\ ListenerInv /\ AcceptorInv /\ NotYetServing /\ UnpinnedInv
  BY DEF Init, Started, StopIsSeen, ListenerInv, AcceptorInv, NotYetServing, UnpinnedInv
<1>4. ConnInv
  BY HttpAssumption DEF Init, ConnInv, ConnAt
<1> QED
  BY <1>1, <1>2, <1>3, <1>4 DEF IInv

\* One step per action: first the conjuncts that read nothing it changes, then
\* each of the others.
LEMMA InvStep ==
    ASSUME AcceptTypes, ConnTypes, StopTypes, Started, StopIsSeen, ListenerInv, AcceptorInv,
           ConnInv, NotYetServing, UnpinnedInv, [Next]_vars
    PROVE  IInv'
<1> USE HttpAssumption
<1>1. ASSUME Register PROVE IInv'
  <2>1. ConnTypes' /\ StopTypes' /\ AcceptorInv' /\ ConnInv'
    BY <1>1 DEF Register, acceptor, conns, stops, ConnTypes, StopTypes, AcceptorInv,
       ConnInv, ConnAt
  <2>2. AcceptTypes'
    BY <1>1 DEF Register, acceptor, conns, stops, AcceptTypes, AcceptPcs
  <2>3. Started'
    BY <1>1 DEF Register, acceptor, conns, stops, Started
  <2>4. StopIsSeen'
    BY <1>1 DEF Register, acceptor, conns, stops, StopIsSeen
  <2>5. ListenerInv'
    BY <1>1 DEF Register, acceptor, conns, stops, ListenerInv, Started
  <2>6. NotYetServing'
    BY <1>1 DEF Register, acceptor, conns, stops, NotYetServing
  <2>7. UnpinnedInv'
    BY <1>1 DEF Register, acceptor, conns, stops, UnpinnedInv
  <2> QED
    BY <2>1, <2>2, <2>3, <2>4, <2>5, <2>6, <2>7 DEF IInv
<1>2. ASSUME StartAccept PROVE IInv'
  <2>1. ConnTypes' /\ StopTypes' /\ ConnInv'
    BY <1>2 DEF StartAccept, conns, stops, ConnTypes, StopTypes, ConnInv, ConnAt
  <2>2. AcceptTypes'
    BY <1>2 DEF StartAccept, conns, stops, AcceptTypes, AcceptPcs
  <2>3. Started'
    BY <1>2 DEF StartAccept, conns, stops, Started
  <2>4. StopIsSeen'
    BY <1>2 DEF StartAccept, conns, stops, StopIsSeen
  <2>5. ListenerInv'
    BY <1>2 DEF StartAccept, conns, stops, ListenerInv, Started
  <2>6. AcceptorInv'
    BY <1>2 DEF StartAccept, conns, stops, AcceptorInv, Started
  <2>7. NotYetServing'
    BY <1>2 DEF StartAccept, conns, stops, NotYetServing
  <2>8. UnpinnedInv'
    BY <1>2 DEF StartAccept, conns, stops, UnpinnedInv
  <2> QED
    BY <2>1, <2>2, <2>3, <2>4, <2>5, <2>6, <2>7, <2>8 DEF IInv
<1>2s. ASSUME StoreAcceptThread PROVE IInv'
  <2>1. ConnTypes' /\ StopTypes' /\ AcceptorInv' /\ ConnInv'
    BY <1>2s DEF StoreAcceptThread, acceptor, conns, stops, ConnTypes, StopTypes,
       AcceptorInv, ConnInv, ConnAt
  <2>2. AcceptTypes' /\ Started' /\ StopIsSeen'
    BY <1>2s DEF StoreAcceptThread, acceptor, conns, stops, AcceptTypes, Started, StopIsSeen
  <2>3. ListenerInv' /\ NotYetServing' /\ UnpinnedInv'
    BY <1>2s DEF StoreAcceptThread, acceptor, conns, stops, ListenerInv, NotYetServing,
       UnpinnedInv
  <2> QED
    BY <2>1, <2>2, <2>3 DEF IInv
<1>3. ASSUME LoopTest PROVE IInv'
  <2>1. ConnTypes' /\ StopTypes' /\ ConnInv' /\ NotYetServing'
    BY <1>3 DEF LoopTest, AcceptGoto, server, conns, stops, ConnTypes, StopTypes, ConnInv,
       ConnAt, NotYetServing
  <2>2. AcceptTypes'
    BY <1>3 DEF LoopTest, AcceptGoto, server, conns, stops, AcceptTypes, AcceptPcs
  <2>3. Started'
    BY <1>3 DEF LoopTest, AcceptGoto, server, conns, stops, Started
  <2>4. StopIsSeen'
    BY <1>3 DEF LoopTest, AcceptGoto, server, conns, stops, StopIsSeen
  <2>5. ListenerInv'
    BY <1>3 DEF LoopTest, AcceptGoto, server, conns, stops, ListenerInv
  <2>6. AcceptorInv'
    BY <1>3 DEF LoopTest, AcceptGoto, server, conns, stops, AcceptorInv
  <2>7. UnpinnedInv'
    BY <1>3 DEF LoopTest, AcceptGoto, server, conns, stops, UnpinnedInv
  <2> QED
    BY <2>1, <2>2, <2>3, <2>4, <2>5, <2>6, <2>7 DEF IInv
<1>4. ASSUME NEW all \in BOOLEAN, TakeFinished(all) PROVE IInv'
  <2>1. ConnTypes' /\ StopTypes' /\ NotYetServing'
    BY <1>4 DEF TakeFinished, server, conns, stops, ConnTypes, StopTypes, NotYetServing
  <2>2. AcceptTypes'
    BY <1>4 DEF TakeFinished, server, conns, stops, AcceptTypes, AcceptPcs
  <2>3. Started'
    BY <1>4 DEF TakeFinished, server, conns, stops, Started
  <2>4. StopIsSeen'
    BY <1>4 DEF TakeFinished, server, conns, stops, StopIsSeen
  <2>5. ListenerInv'
    BY <1>4 DEF TakeFinished, server, conns, stops, ListenerInv
  <2>6. AcceptorInv'
    BY <1>4 DEF TakeFinished, server, conns, stops, AcceptorInv
  <2>7. ConnInv'
    BY <1>4 DEF TakeFinished, server, conns, stops, ConnInv, ConnAt, AcceptorInv
  <2>8. UnpinnedInv'
    BY <1>4 DEF TakeFinished, server, conns, stops, UnpinnedInv
  <2> QED
    BY <2>1, <2>2, <2>3, <2>4, <2>5, <2>6, <2>7, <2>8 DEF IInv
<1>5. ASSUME JoinFinished PROVE IInv'
  <2>1. ConnTypes' /\ StopTypes' /\ NotYetServing'
    BY <1>5 DEF JoinFinished, server, conns, stops, ConnTypes, StopTypes, NotYetServing
  <2>2. AcceptTypes'
    BY <1>5 DEF JoinFinished, server, conns, stops, AcceptTypes, AcceptPcs
  <2>3. Started'
    BY <1>5 DEF JoinFinished, server, conns, stops, Started
  <2>4. StopIsSeen'
    BY <1>5 DEF JoinFinished, server, conns, stops, StopIsSeen
  <2>5. ListenerInv'
    BY <1>5 DEF JoinFinished, server, conns, stops, ListenerInv
  <2>6. AcceptorInv'
    BY <1>5 DEF JoinFinished, server, conns, stops, AcceptorInv
  <2>7. ConnInv'
    BY <1>5 DEF JoinFinished, server, conns, stops, ConnInv, ConnAt
  <2>8. UnpinnedInv'
    BY <1>5 DEF JoinFinished, server, conns, stops, UnpinnedInv
  <2> QED
    BY <2>1, <2>2, <2>3, <2>4, <2>5, <2>6, <2>7, <2>8 DEF IInv
<1>6. ASSUME EnterAccept PROVE IInv'
  <2>1. ConnTypes' /\ StopTypes' /\ ConnInv' /\ NotYetServing'
    BY <1>6 DEF EnterAccept, AcceptGoto, server, conns, stops, ConnTypes, StopTypes,
       ConnInv, ConnAt, NotYetServing
  <2>2. AcceptTypes'
    BY <1>6 DEF EnterAccept, AcceptGoto, server, conns, stops, AcceptTypes, AcceptPcs
  <2>3. Started'
    BY <1>6 DEF EnterAccept, AcceptGoto, server, conns, stops, Started
  <2>4. StopIsSeen'
    BY <1>6 DEF EnterAccept, AcceptGoto, server, conns, stops, StopIsSeen
  <2>5. ListenerInv'
    BY <1>6 DEF EnterAccept, AcceptGoto, server, conns, stops, ListenerInv, Started
  <2>6. AcceptorInv'
    BY <1>6 DEF EnterAccept, AcceptGoto, server, conns, stops, AcceptorInv
  <2>7. UnpinnedInv'
    BY <1>6 DEF EnterAccept, AcceptGoto, server, conns, stops, UnpinnedInv
  <2> QED
    BY <2>1, <2>2, <2>3, <2>4, <2>5, <2>6, <2>7 DEF IInv
<1>7. ASSUME EnteredTest PROVE IInv'
  <2>1. ConnTypes' /\ StopTypes' /\ ConnInv' /\ NotYetServing'
    BY <1>7 DEF EnteredTest, AcceptGoto, server, conns, stops, ConnTypes, StopTypes,
       ConnInv, ConnAt, NotYetServing
  <2>2. AcceptTypes'
    BY <1>7 DEF EnteredTest, AcceptGoto, server, conns, stops, AcceptTypes, AcceptPcs
  <2>3. Started'
    BY <1>7 DEF EnteredTest, AcceptGoto, server, conns, stops, Started
  <2>4. StopIsSeen'
    BY <1>7 DEF EnteredTest, AcceptGoto, server, conns, stops, StopIsSeen
  <2>5. ListenerInv'
    BY <1>7 DEF EnteredTest, AcceptGoto, server, conns, stops, ListenerInv
  <2>6. AcceptorInv'
    BY <1>7 DEF EnteredTest, AcceptGoto, server, conns, stops, AcceptorInv
  <2>7. UnpinnedInv'
    BY <1>7 DEF EnteredTest, AcceptGoto, server, conns, stops, UnpinnedInv
  <2> QED
    BY <2>1, <2>2, <2>3, <2>4, <2>5, <2>6, <2>7 DEF IInv
<1>8. ASSUME NEW c \in Conns, AcceptConn(c) PROVE IInv'
  <2>1. StopTypes' /\ NotYetServing'
    BY <1>8 DEF AcceptConn, server, conns, stops, StopTypes, NotYetServing
  <2>2. AcceptTypes'
    BY <1>8 DEF AcceptConn, server, conns, stops, AcceptTypes, AcceptPcs
  <2>3. ConnTypes'
    BY <1>8 DEF AcceptConn, server, conns, stops, ConnTypes, ConnPcs
  <2>4. Started'
    BY <1>8 DEF AcceptConn, server, conns, stops, Started
  <2>5. StopIsSeen'
    BY <1>8 DEF AcceptConn, server, conns, stops, StopIsSeen
  <2>6. ListenerInv'
    BY <1>8 DEF AcceptConn, server, conns, stops, ListenerInv
  <2>7. AcceptorInv'
    BY <1>8 DEF AcceptConn, server, conns, stops, AcceptorInv
  <2>8. ConnInv'
    BY <1>8 DEF AcceptConn, server, conns, stops, ConnInv, ConnAt, ConnTypes, AcceptorInv
  <2>9. UnpinnedInv'
    BY <1>8 DEF AcceptConn, server, conns, stops, UnpinnedInv
  <2> QED
    BY <2>1, <2>2, <2>3, <2>4, <2>5, <2>6, <2>7, <2>8, <2>9 DEF IInv
<1>9. ASSUME AcceptFails PROVE IInv'
  <2>1. ConnTypes' /\ StopTypes' /\ ConnInv' /\ NotYetServing'
    BY <1>9 DEF AcceptFails, AcceptGoto, server, conns, stops, ConnTypes, StopTypes,
       ConnInv, ConnAt, NotYetServing
  <2>2. AcceptTypes'
    BY <1>9 DEF AcceptFails, AcceptGoto, server, conns, stops, AcceptTypes, AcceptPcs
  <2>3. Started'
    BY <1>9 DEF AcceptFails, AcceptGoto, server, conns, stops, Started
  <2>4. StopIsSeen'
    BY <1>9 DEF AcceptFails, AcceptGoto, server, conns, stops, StopIsSeen
  <2>5. ListenerInv'
    BY <1>9 DEF AcceptFails, AcceptGoto, server, conns, stops, ListenerInv
  <2>6. AcceptorInv'
    BY <1>9 DEF AcceptFails, AcceptGoto, server, conns, stops, AcceptorInv
  <2>7. UnpinnedInv'
    BY <1>9 DEF AcceptFails, AcceptGoto, server, conns, stops, UnpinnedInv
  <2> QED
    BY <2>1, <2>2, <2>3, <2>4, <2>5, <2>6, <2>7 DEF IInv
<1>10. ASSUME LeaveAccept PROVE IInv'
  <2>1. ConnTypes' /\ StopTypes' /\ ConnInv' /\ NotYetServing'
    BY <1>10 DEF LeaveAccept, AcceptGoto, server, conns, stops, ConnTypes, StopTypes,
       ConnInv, ConnAt, NotYetServing
  <2>2. AcceptTypes'
    BY <1>10 DEF LeaveAccept, AcceptGoto, server, conns, stops, AcceptTypes, AcceptPcs
  <2>3. Started'
    BY <1>10 DEF LeaveAccept, AcceptGoto, server, conns, stops, Started
  <2>4. StopIsSeen'
    BY <1>10 DEF LeaveAccept, AcceptGoto, server, conns, stops, StopIsSeen
  <2>5. ListenerInv'
    BY <1>10 DEF LeaveAccept, AcceptGoto, server, conns, stops, ListenerInv
  <2>6. AcceptorInv'
    BY <1>10 DEF LeaveAccept, AcceptGoto, server, conns, stops, AcceptorInv
  <2>7. UnpinnedInv'
    BY <1>10 DEF LeaveAccept, AcceptGoto, server, conns, stops, UnpinnedInv
  <2> QED
    BY <2>1, <2>2, <2>3, <2>4, <2>5, <2>6, <2>7 DEF IInv
<1>11. ASSUME BackToManaged PROVE IInv'
  <2>1. ConnTypes' /\ StopTypes' /\ ConnInv' /\ NotYetServing'
    BY <1>11 DEF BackToManaged, AcceptGoto, server, conns, stops, ConnTypes, StopTypes,
       ConnInv, ConnAt, NotYetServing
  <2>2. AcceptTypes'
    BY <1>11 DEF BackToManaged, AcceptGoto, server, conns, stops, AcceptTypes, AcceptPcs
  <2>3. Started'
    BY <1>11 DEF BackToManaged, AcceptGoto, server, conns, stops, Started
  <2>4. StopIsSeen'
    BY <1>11 DEF BackToManaged, AcceptGoto, server, conns, stops, StopIsSeen
  <2>5. ListenerInv'
    BY <1>11 DEF BackToManaged, AcceptGoto, server, conns, stops, ListenerInv
  <2>6. AcceptorInv'
    BY <1>11 DEF BackToManaged, AcceptGoto, server, conns, stops, AcceptorInv
  <2>7. UnpinnedInv'
    BY <1>11 DEF BackToManaged, AcceptGoto, server, conns, stops, UnpinnedInv
  <2> QED
    BY <2>1, <2>2, <2>3, <2>4, <2>5, <2>6, <2>7 DEF IInv
<1>12. ASSUME PushConn PROVE IInv'
  <2>1. ConnTypes' /\ StopTypes' /\ NotYetServing'
    BY <1>12 DEF PushConn, AcceptGoto, server, conns, stops, ConnTypes, StopTypes,
       NotYetServing
  <2>2. AcceptTypes'
    BY <1>12 DEF PushConn, AcceptGoto, server, conns, stops, AcceptTypes, AcceptPcs,
       AcceptorInv
  <2>3. Started'
    BY <1>12 DEF PushConn, AcceptGoto, server, conns, stops, Started
  <2>4. StopIsSeen'
    BY <1>12 DEF PushConn, AcceptGoto, server, conns, stops, StopIsSeen
  <2>5. ListenerInv'
    BY <1>12 DEF PushConn, AcceptGoto, server, conns, stops, ListenerInv
  <2>6. AcceptorInv'
    BY <1>12 DEF PushConn, AcceptGoto, server, conns, stops, AcceptorInv
  <2>7. ConnInv'
    BY <1>12 DEF PushConn, AcceptGoto, server, conns, stops, ConnInv, ConnAt
  <2>8. UnpinnedInv'
    BY <1>12 DEF PushConn, AcceptGoto, server, conns, stops, UnpinnedInv
  <2> QED
    BY <2>1, <2>2, <2>3, <2>4, <2>5, <2>6, <2>7, <2>8 DEF IInv
<1>13. ASSUME SpawnConn PROVE IInv'
  <2>1. StopTypes'
    BY <1>13 DEF SpawnConn, server, stops, StopTypes
  <2>2. AcceptTypes'
    BY <1>13 DEF SpawnConn, server, stops, AcceptTypes, AcceptPcs
  <2>3. ConnTypes'
    BY <1>13 DEF SpawnConn, server, stops, ConnTypes, ConnPcs
  <2>4. Started'
    BY <1>13 DEF SpawnConn, server, stops, Started
  <2>5. StopIsSeen'
    BY <1>13 DEF SpawnConn, server, stops, StopIsSeen
  <2>6. ListenerInv'
    BY <1>13 DEF SpawnConn, server, stops, ListenerInv
  <2>7. AcceptorInv'
    BY <1>13 DEF SpawnConn, server, stops, AcceptorInv
  <2>8. ConnInv'
    BY <1>13 DEF SpawnConn, server, stops, ConnInv, ConnAt, ConnTypes, AcceptorInv
  <2>9. NotYetServing'
    BY <1>13 DEF SpawnConn, server, stops, NotYetServing, Started
  <2>10. UnpinnedInv'
    BY <1>13 DEF SpawnConn, server, stops, UnpinnedInv
  <2> QED
    BY <2>1, <2>2, <2>3, <2>4, <2>5, <2>6, <2>7, <2>8, <2>9, <2>10 DEF IInv
<1>14. ASSUME CloseListener PROVE IInv'
  <2>1. ConnTypes' /\ StopTypes' /\ ConnInv' /\ NotYetServing'
    BY <1>14 DEF CloseListener, AcceptGoto, server, conns, stops, ConnTypes, StopTypes,
       ConnInv, ConnAt, NotYetServing
  <2>2. AcceptTypes'
    BY <1>14 DEF CloseListener, AcceptGoto, server, conns, stops, AcceptTypes, AcceptPcs
  <2>3. Started'
    BY <1>14 DEF CloseListener, AcceptGoto, server, conns, stops, Started
  <2>4. StopIsSeen'
    BY <1>14 DEF CloseListener, AcceptGoto, server, conns, stops, StopIsSeen
  <2>5. ListenerInv'
    BY <1>14 DEF CloseListener, AcceptGoto, server, conns, stops, ListenerInv, StopIsSeen
  <2>6. AcceptorInv'
    BY <1>14 DEF CloseListener, AcceptGoto, server, conns, stops, AcceptorInv
  <2>7. UnpinnedInv'
    BY <1>14 DEF CloseListener, AcceptGoto, server, conns, stops, UnpinnedInv
  <2> QED
    BY <2>1, <2>2, <2>3, <2>4, <2>5, <2>6, <2>7 DEF IInv
<1>15. ASSUME NEW c \in Conns, ReadRequest(c) PROVE IInv'
  <2>1. /\ AcceptTypes' /\ StopTypes' /\ Started' /\ StopIsSeen' /\ ListenerInv'
        /\ AcceptorInv'
    BY <1>15 DEF ReadRequest, ConnGoto, server, acceptor, stops, AcceptTypes, StopTypes,
       Started, StopIsSeen, ListenerInv, AcceptorInv
  <2>2. ConnTypes'
    BY <1>15 DEF ReadRequest, ConnGoto, server, acceptor, stops, ConnTypes, ConnPcs
  <2>3. ConnInv'
    BY <1>15 DEF ReadRequest, ConnGoto, server, acceptor, stops, ConnInv, ConnAt
  <2>4. NotYetServing'
    BY <1>15 DEF ReadRequest, ConnGoto, server, acceptor, stops, NotYetServing
  <2>5. UnpinnedInv'
    BY <1>15 DEF ReadRequest, ConnGoto, server, acceptor, stops, UnpinnedInv
  <2> QED
    BY <2>1, <2>2, <2>3, <2>4, <2>5 DEF IInv
<1>16. ASSUME NEW c \in Conns, NEW refused \in BOOLEAN, ReadFails(c, refused) PROVE IInv'
  <2>1. /\ AcceptTypes' /\ StopTypes' /\ Started' /\ StopIsSeen' /\ ListenerInv'
        /\ AcceptorInv'
    BY <1>16 DEF ReadFails, ConnGoto, server, acceptor, stops, AcceptTypes, StopTypes,
       Started, StopIsSeen, ListenerInv, AcceptorInv
  <2>2. ConnTypes'
    BY <1>16 DEF ReadFails, ConnGoto, server, acceptor, stops, ConnTypes, ConnPcs
  <2>3. ConnInv'
    BY <1>16 DEF ReadFails, ConnGoto, server, acceptor, stops, ConnInv, ConnAt
  <2>4. NotYetServing'
    BY <1>16 DEF ReadFails, ConnGoto, server, acceptor, stops, NotYetServing
  <2>5. UnpinnedInv'
    BY <1>16 DEF ReadFails, ConnGoto, server, acceptor, stops, UnpinnedInv
  <2> QED
    BY <2>1, <2>2, <2>3, <2>4, <2>5 DEF IInv
<1>17. ASSUME NEW c \in Conns, EndRead(c) PROVE IInv'
  <2>1. /\ AcceptTypes' /\ StopTypes' /\ Started' /\ StopIsSeen' /\ ListenerInv'
        /\ AcceptorInv'
    BY <1>17 DEF EndRead, ConnGoto, server, acceptor, stops, AcceptTypes, StopTypes,
       Started, StopIsSeen, ListenerInv, AcceptorInv
  <2>2. ConnTypes'
    BY <1>17 DEF EndRead, ConnGoto, server, acceptor, stops, ConnTypes, ConnPcs
  <2>3. ConnInv'
    BY <1>17 DEF EndRead, ConnGoto, server, acceptor, stops, ConnInv, ConnAt
  <2>4. NotYetServing'
    BY <1>17 DEF EndRead, ConnGoto, server, acceptor, stops, NotYetServing
  <2>5. UnpinnedInv'
    BY <1>17 DEF EndRead, ConnGoto, server, acceptor, stops, UnpinnedInv
  <2> QED
    BY <2>1, <2>2, <2>3, <2>4, <2>5 DEF IInv
<1>18. ASSUME NEW c \in Conns, HandlerReturns(c) PROVE IInv'
  <2>1. /\ AcceptTypes' /\ StopTypes' /\ Started' /\ StopIsSeen' /\ ListenerInv'
        /\ AcceptorInv'
    BY <1>18 DEF HandlerReturns, ConnGoto, server, acceptor, stops, AcceptTypes, StopTypes,
       Started, StopIsSeen, ListenerInv, AcceptorInv
  <2>2. ConnTypes'
    BY <1>18 DEF HandlerReturns, ConnGoto, server, acceptor, stops, ConnTypes, ConnPcs
  <2>3. ConnInv'
    BY <1>18 DEF HandlerReturns, ConnGoto, server, acceptor, stops, ConnInv, ConnAt
  <2>4. NotYetServing'
    BY <1>18 DEF HandlerReturns, ConnGoto, server, acceptor, stops, NotYetServing
  <2>5. UnpinnedInv'
    BY <1>18 DEF HandlerReturns, ConnGoto, server, acceptor, stops, UnpinnedInv
  <2> QED
    BY <2>1, <2>2, <2>3, <2>4, <2>5 DEF IInv
<1>19. ASSUME NEW c \in Conns, WriteAnswer(c) PROVE IInv'
  <2>1. /\ AcceptTypes' /\ StopTypes' /\ Started' /\ StopIsSeen' /\ ListenerInv'
        /\ AcceptorInv'
    BY <1>19 DEF WriteAnswer, ConnGoto, server, acceptor, stops, AcceptTypes, StopTypes,
       Started, StopIsSeen, ListenerInv, AcceptorInv
  <2>2. ConnTypes'
    BY <1>19 DEF WriteAnswer, ConnGoto, server, acceptor, stops, ConnTypes, ConnPcs
  <2>3. ConnInv'
    BY <1>19 DEF WriteAnswer, ConnGoto, server, acceptor, stops, ConnInv, ConnAt
  <2>4. NotYetServing'
    BY <1>19 DEF WriteAnswer, ConnGoto, server, acceptor, stops, NotYetServing
  <2>5. UnpinnedInv'
    BY <1>19 DEF WriteAnswer, ConnGoto, server, acceptor, stops, UnpinnedInv
  <2> QED
    BY <2>1, <2>2, <2>3, <2>4, <2>5 DEF IInv
<1>20. ASSUME NEW c \in Conns, CloseConn(c) PROVE IInv'
  <2>1. /\ AcceptTypes' /\ StopTypes' /\ Started' /\ StopIsSeen' /\ ListenerInv'
        /\ AcceptorInv'
    BY <1>20 DEF CloseConn, ConnGoto, server, acceptor, stops, AcceptTypes, StopTypes,
       Started, StopIsSeen, ListenerInv, AcceptorInv
  <2>2. ConnTypes'
    BY <1>20 DEF CloseConn, ConnGoto, server, acceptor, stops, ConnTypes, ConnPcs
  <2>3. ConnInv'
    BY <1>20 DEF CloseConn, ConnGoto, server, acceptor, stops, ConnInv, ConnAt, ConnTypes
  <2>4. NotYetServing'
    BY <1>20 DEF CloseConn, ConnGoto, server, acceptor, stops, NotYetServing
  <2>5. UnpinnedInv'
    BY <1>20 DEF CloseConn, ConnGoto, server, acceptor, stops, UnpinnedInv
  <2> QED
    BY <2>1, <2>2, <2>3, <2>4, <2>5 DEF IInv
<1>21. ASSUME NEW p \in Stoppers, StopCall(p) PROVE IInv'
  <2>1. ConnTypes' /\ Started' /\ AcceptorInv' /\ ConnInv' /\ NotYetServing'
    BY <1>21 DEF StopCall, StopGoto, MayStop, acceptor, conns, ConnTypes, Started,
       AcceptorInv, ConnInv, ConnAt, NotYetServing
  <2>2. AcceptTypes'
    <3>1. stopping' \in BOOLEAN
      BY <1>21 DEF StopCall, AcceptTypes
    <3> QED
      BY <1>21, <3>1 DEF StopCall, acceptor, AcceptTypes
  <2>3. StopTypes'
    BY <1>21 DEF StopCall, StopGoto, MayStop, acceptor, conns, StopTypes, StopPcs
  <2>4. StopIsSeen'
    BY <1>21 DEF StopCall, StopGoto, MayStop, acceptor, conns, StopIsSeen, StopTypes
  <2>5. ListenerInv'
    BY <1>21 DEF StopCall, StopGoto, MayStop, acceptor, conns, ListenerInv
  <2>6. UnpinnedInv'
    BY <1>21 DEF StopCall, StopGoto, MayStop, acceptor, conns, UnpinnedInv
  <2> QED
    BY <2>1, <2>2, <2>3, <2>4, <2>5, <2>6 DEF IInv
<1>22. ASSUME NEW p \in Stoppers, StopListener(p) PROVE IInv'
  <2>1. ConnTypes' /\ Started' /\ AcceptorInv' /\ NotYetServing' /\ UnpinnedInv'
    BY <1>22 DEF StopListener, server, acceptor, conns, ConnTypes, Started, AcceptorInv,
       NotYetServing, UnpinnedInv
  <2>2. AcceptTypes'
    BY <1>22 DEF StopListener, server, acceptor, conns, AcceptTypes, AcceptPcs
  <2>3. StopTypes'
    BY <1>22 DEF StopListener, server, acceptor, conns, StopTypes, StopPcs, AcceptTypes
  <2>4. StopIsSeen'
    BY <1>22 DEF StopListener, server, acceptor, conns, StopIsSeen
  <2>5. ListenerInv'
    BY <1>22 DEF StopListener, server, acceptor, conns, ListenerInv, StopIsSeen,
       AcceptTypes
  <2>6. ConnInv'
    BY <1>22 DEF StopListener, server, acceptor, conns, ConnInv, ConnAt
  <2> QED
    BY <2>1, <2>2, <2>3, <2>4, <2>5, <2>6 DEF IInv
<1>23. ASSUME NEW p \in Stoppers, NEW c \in Conns, WakeConn(p, c) PROVE IInv'
  <2>1. /\ AcceptTypes' /\ Started' /\ StopIsSeen' /\ ListenerInv' /\ AcceptorInv'
        /\ NotYetServing' /\ UnpinnedInv'
    BY <1>23 DEF WakeConn, server, acceptor, conns, AcceptTypes, Started, StopIsSeen,
       ListenerInv, AcceptorInv, NotYetServing, UnpinnedInv
  <2>2. ConnTypes'
    BY <1>23 DEF WakeConn, server, acceptor, conns, ConnTypes, ConnPcs
  <2>3. StopTypes'
    BY <1>23 DEF WakeConn, server, acceptor, conns, StopTypes, StopPcs
  <2>4. ConnInv'
    <3>0. \A q \in Stoppers : todo'[q] \in SUBSET todo[q]
      BY <1>23 DEF WakeConn, StopTypes
    <3>1. CASE sock' = sock
      BY <1>23, <3>0, <3>1 DEF WakeConn, server, acceptor, conns, ConnInv, ConnAt
    <3>2. ASSUME sock' # sock PROVE ConnInv'
      <4>1. /\ sock[c] # "closed"
           
                  /\ sock' = [sock EXCEPT ![c] = IF platform = "windows" THEN "closed" ELSE "shut"]
        BY <1>23, <3>2 DEF WakeConn
      <4>2. \A x \in Conns :
              sock'[x] = IF x # c THEN sock[x]
                         ELSE IF platform = "windows" THEN "closed" ELSE "shut"
        BY <4>1 DEF ConnTypes
      <4>3. sock[c] # "none"
        BY <1>23 DEF WakeConn, ConnInv, ConnAt
      <4> QED
        BY <1>23, <3>0, <4>1, <4>2, <4>3 DEF WakeConn, server, acceptor, conns, ConnInv,
           ConnAt
    <3> QED
      BY <3>1, <3>2
  <2> QED
    BY <2>1, <2>2, <2>3, <2>4 DEF IInv
<1>24. ASSUME NEW p \in Stoppers, WakeDone(p) PROVE IInv'
  <2>1. /\ AcceptTypes' /\ ConnTypes' /\ Started' /\ ListenerInv' /\ AcceptorInv'
        /\ ConnInv' /\ NotYetServing' /\ UnpinnedInv'
    BY <1>24 DEF WakeDone, StopGoto, server, acceptor, conns, AcceptTypes, ConnTypes,
       Started, ListenerInv, AcceptorInv, ConnInv, ConnAt, NotYetServing, UnpinnedInv
  <2>2. StopTypes'
    BY <1>24 DEF WakeDone, StopGoto, server, acceptor, conns, StopTypes, StopPcs
  <2>3. StopIsSeen'
    BY <1>24 DEF WakeDone, StopGoto, server, acceptor, conns, StopIsSeen
  <2> QED
    BY <2>1, <2>2, <2>3 DEF IInv
<1>25. ASSUME NEW p \in Stoppers, AcceptLeft(p) PROVE IInv'
  <2>1. /\ AcceptTypes' /\ ConnTypes' /\ Started' /\ ListenerInv' /\ AcceptorInv'
        /\ ConnInv' /\ NotYetServing' /\ UnpinnedInv'
    BY <1>25 DEF AcceptLeft, StopGoto, server, acceptor, conns, AcceptTypes, ConnTypes,
       Started, ListenerInv, AcceptorInv, ConnInv, ConnAt, NotYetServing, UnpinnedInv
  <2>2. StopTypes'
    BY <1>25 DEF AcceptLeft, StopGoto, server, acceptor, conns, StopTypes, StopPcs
  <2>3. StopIsSeen'
    BY <1>25 DEF AcceptLeft, StopGoto, server, acceptor, conns, StopIsSeen
  <2> QED
    BY <2>1, <2>2, <2>3 DEF IInv
<1>26. ASSUME NEW p \in Stoppers, ClaimJoin(p) PROVE IInv'
  <2>1. /\ ConnTypes' /\ Started' /\ ListenerInv' /\ AcceptorInv' /\ ConnInv'
        /\ NotYetServing'
    BY <1>26 DEF ClaimJoin, StopGoto, acceptor, conns, ConnTypes, Started, ListenerInv,
       AcceptorInv, ConnInv, ConnAt, NotYetServing
  <2>2. AcceptTypes'
    <3>1. CASE p \in Conns \/ joined
      BY <1>26, <3>1 DEF ClaimJoin, StopGoto, acceptor, AcceptTypes
    <3>2. CASE ~(p \in Conns \/ joined)
      <4>1. /\ joined' = TRUE /\ pinned' = (startPc = "running" /\ pinned)
            /\ unjoined' = (startPc = "spawned")
        BY <1>26, <3>2 DEF ClaimJoin
      <4>2. pinned' \in BOOLEAN /\ unjoined' \in BOOLEAN
        BY <4>1, Zenon
      <4> QED
        BY <1>26, <4>1, <4>2 DEF ClaimJoin, acceptor, AcceptTypes
    <3> QED
      BY <3>1, <3>2
  <2>3. StopTypes'
    BY <1>26 DEF ClaimJoin, StopGoto, acceptor, conns, StopTypes, StopPcs
  <2>4. StopIsSeen'
    BY <1>26 DEF ClaimJoin, StopGoto, acceptor, conns, StopIsSeen
  <2>5. UnpinnedInv'
    <3>1. UNCHANGED <<startPc, stopping, acceptPc, connPc>> /\ stopping
      BY <1>26 DEF ClaimJoin, acceptor, conns, StopIsSeen
    <3>2. CASE p \in Conns \/ joined
      BY <1>26, <3>1, <3>2 DEF ClaimJoin, UnpinnedInv
    <3>3. CASE ~(p \in Conns \/ joined)
      <4>1. /\ joined' /\ ~unjoined
            /\ pinned' = (startPc = "running" /\ pinned) /\ unjoined' = (startPc = "spawned")
        BY <1>26, <3>3 DEF ClaimJoin, UnpinnedInv
      <4>2. startPc # "none" /\ ~pinned' /\ ~unjoined' => startPc = "registered" \/ ~pinned
        BY <4>1 DEF AcceptTypes
      <4> QED
        BY <3>1, <4>1, <4>2 DEF UnpinnedInv, Started, NotYetServing
    <3> QED
      BY <3>2, <3>3
  <2> QED
    BY <2>1, <2>2, <2>3, <2>4, <2>5 DEF IInv
<1>27. ASSUME NEW p \in Stoppers, JoinAccept(p) PROVE IInv'
  <2>1. /\ ConnTypes' /\ Started' /\ ListenerInv' /\ AcceptorInv' /\ ConnInv'
        /\ NotYetServing'
    BY <1>27 DEF JoinAccept, StopGoto, acceptor, conns, ConnTypes, Started, ListenerInv,
       AcceptorInv, ConnInv, ConnAt, NotYetServing
  <2>2. AcceptTypes'
    BY <1>27 DEF JoinAccept, StopGoto, acceptor, conns, AcceptTypes, AcceptPcs
  <2>3. StopTypes'
    BY <1>27 DEF JoinAccept, StopGoto, acceptor, conns, StopTypes, StopPcs
  <2>4. StopIsSeen'
    BY <1>27 DEF JoinAccept, StopGoto, acceptor, conns, StopIsSeen
  <2>5. UnpinnedInv'
    BY <1>27 DEF JoinAccept, StopGoto, acceptor, conns, UnpinnedInv, StopIsSeen,
       AcceptorInv, ConnInv, ConnAt
  <2> QED
    BY <2>1, <2>2, <2>3, <2>4, <2>5 DEF IInv
<1>28. ASSUME ExitRun PROVE IInv'
  <2>1. /\ AcceptTypes' /\ ConnTypes' /\ Started' /\ ListenerInv' /\ AcceptorInv'
        /\ ConnInv' /\ NotYetServing' /\ UnpinnedInv'
    BY <1>28 DEF ExitRun, server, acceptor, conns, AcceptTypes, ConnTypes, Started,
       ListenerInv, AcceptorInv, ConnInv, ConnAt, NotYetServing, UnpinnedInv
  <2>2. StopTypes'
    BY <1>28 DEF ExitRun, server, acceptor, conns, StopTypes, StopPcs
  <2>3. StopIsSeen'
    BY <1>28 DEF ExitRun, server, acceptor, conns, StopIsSeen
  <2> QED
    BY <2>1, <2>2, <2>3 DEF IInv
<1>29. ASSUME GcStart PROVE IInv'
  <2>1. /\ AcceptTypes' /\ ConnTypes' /\ StopTypes' /\ Started' /\ StopIsSeen'
        /\ ListenerInv' /\ AcceptorInv' /\ ConnInv' /\ NotYetServing' /\ UnpinnedInv'
    BY <1>29 DEF GcStart, server, acceptor, conns, stops, AcceptTypes, ConnTypes,
       StopTypes, Started, StopIsSeen, ListenerInv, AcceptorInv, ConnInv, ConnAt,
       NotYetServing, UnpinnedInv
  <2> QED
    BY <2>1 DEF IInv
<1>30. ASSUME GcDone PROVE IInv'
  <2>1. /\ AcceptTypes' /\ ConnTypes' /\ StopTypes' /\ Started' /\ StopIsSeen'
        /\ ListenerInv' /\ AcceptorInv' /\ ConnInv' /\ NotYetServing' /\ UnpinnedInv'
    BY <1>30 DEF GcDone, server, acceptor, conns, stops, AcceptTypes, ConnTypes, StopTypes,
       Started, StopIsSeen, ListenerInv, AcceptorInv, ConnInv, ConnAt, NotYetServing,
       UnpinnedInv
  <2> QED
    BY <2>1 DEF IInv
<1>31. CASE UNCHANGED vars
  BY <1>31 DEF vars, server, acceptor, conns, stops, IInv, AcceptTypes, ConnTypes, StopTypes,
     Started, StopIsSeen, ListenerInv, AcceptorInv, ConnInv, ConnAt, NotYetServing, UnpinnedInv
<1> QED
  BY <1>1, <1>2, <1>2s, <1>3, <1>4, <1>5, <1>6, <1>7, <1>8, <1>9, <1>10, <1>11,
     <1>12, <1>13, <1>14, <1>15, <1>16, <1>17, <1>18, <1>19, <1>20, <1>21,
     <1>22, <1>23, <1>24, <1>25, <1>26, <1>27, <1>28, <1>29, <1>30, <1>31
     DEF Next, AcceptStep, ConnStep, StopStep

\* The invariant holds throughout.
LEMMA Inductive == Spec => []IInv
<1>1. IInv /\ [Next]_vars => IInv'
  BY InvStep DEF IInv
<1> QED
  BY <1>1, InvInit, PTL DEF Spec

-----------------------------------------------------------------------------
(* What it gives. *)

\* On Linux and macOS no socket is closed under a thread that uses it, the
\* accept thread in tcpAccept and a connection thread anywhere between its
\* first read and its answer, however stops, requests and accepts overlap
\* (requestStop shuts, and leaves the closing to the thread that owns it).
THEOREM NotReleasedInUseTheorem == Spec => []NotReleasedInUse
<1>1. IInv => NotReleasedInUse
  BY DEF IInv, Started, ListenerInv, ConnInv, ConnAt, NotReleasedInUse, AcceptTypes
<1> QED
  BY <1>1, Inductive, PTL

\* Only the main thread's shutdownIO can come before run-server has returned, and
\* not when that is what the main thread is in.
UnjoinedInv ==
    /\ \A p \in Callers : stopPc[p] # "idle" => startPc = "running"
    /\ StartedByMain => /\ stopPc[Main] # "idle" => ~Starting
                        /\ ~unjoined

\* Nobody else can, whatever the stops and the starts do.
LEMMA UnjoinedInductive == Spec => []UnjoinedInv
<1>1. Init => UnjoinedInv
  BY DEF Init, UnjoinedInv, Stoppers
<1>2. ASSUME IInv, UnjoinedInv, [Next]_vars PROVE UnjoinedInv'
  <2> USE HttpAssumption
  <2>0. StopTypes /\ AcceptTypes /\ Main \in Stoppers /\ \A p \in Callers : p \in Stoppers
    BY <1>2 DEF IInv, Stoppers
  <2>1. CASE Register \/ StartAccept \/ StoreAcceptThread
    BY <1>2, <2>1 DEF Register, StartAccept, StoreAcceptThread, stops, UnjoinedInv, Starting
  <2>2. ASSUME NEW p \in Stoppers, StopCall(p) PROVE UnjoinedInv'
    <3>1. UNCHANGED <<startPc, unjoined>> /\ MayStop(p)
          /\ \A q \in Stoppers : q # p => stopPc'[q] = stopPc[q]
      BY <2>0, <2>2 DEF StopCall, StopGoto, StopTypes
    <3>2. p \in Callers => startPc = "running"
      BY <3>1 DEF MayStop
    <3>3. p = Main /\ StartedByMain => ~Starting
      BY <3>1 DEF MayStop
    <3> QED
      BY <1>2, <2>0, <3>1, <3>2, <3>3 DEF UnjoinedInv, Starting
  <2>3. ASSUME NEW p \in Stoppers, ClaimJoin(p) PROVE UnjoinedInv'
    <3>1. /\ startPc' = startPc /\ stopPc[p] = "requested"
          /\ \A q \in Stoppers : q # p => stopPc'[q] = stopPc[q]
      BY <2>0, <2>3 DEF ClaimJoin, StopGoto, StopTypes
    <3>2. StartedByMain => ~unjoined'
      <4> SUFFICES ASSUME StartedByMain, unjoined' PROVE FALSE
        OBVIOUS
      <4>1. p \notin Conns /\ startPc = "spawned"
        BY <1>2, <2>3 DEF ClaimJoin, UnjoinedInv
      <4>2. p \in Callers \/ p = Main
        BY <4>1 DEF Stoppers
      <4> QED
        BY <1>2, <3>1, <4>1, <4>2 DEF UnjoinedInv, Starting
    <3> QED
      BY <1>2, <2>0, <3>1, <3>2 DEF UnjoinedInv, Starting
  <2>4. ASSUME NEW p \in Stoppers,
               StopListener(p) \/ WakeDone(p) \/ AcceptLeft(p) \/ JoinAccept(p)
        PROVE  UnjoinedInv'
    <3>1. /\ UNCHANGED <<startPc, unjoined>> /\ stopPc[p] # "idle"
          /\ \A q \in Stoppers : q # p => stopPc'[q] = stopPc[q]
      BY <2>0, <2>4 DEF StopListener, WakeDone, AcceptLeft, JoinAccept, StopGoto, StopTypes,
         server
    <3> QED
      BY <1>2, <2>0, <3>1 DEF UnjoinedInv, Starting
  <2>5. CASE ExitRun
    <3>1. UNCHANGED <<startPc, unjoined>> /\ stopPc[Main] = "returned"
          /\ \A q \in Stoppers : q # Main => stopPc'[q] = stopPc[q]
      BY <2>0, <2>5 DEF ExitRun, server, StopTypes
    <3> QED
      BY <1>2, <2>0, <3>1 DEF UnjoinedInv, Starting
  <2>6. CASE UNCHANGED <<startPc, unjoined, stopPc>>
    BY <1>2, <2>6 DEF UnjoinedInv, Starting
  <2>7. \/ Register \/ StartAccept \/ StoreAcceptThread \/ ExitRun
        \/ \E p \in Stoppers : \/ StopCall(p) \/ ClaimJoin(p)
                               \/ StopListener(p) \/ WakeDone(p) \/ AcceptLeft(p) \/ JoinAccept(p)
        \/ UNCHANGED <<startPc, unjoined, stopPc>>
    <3>1. CASE UNCHANGED vars
      BY <3>1 DEF vars, server, stops
    <3>2. CASE AcceptStep \/ AcceptFails
      BY <3>2 DEF AcceptStep, AcceptFails, LoopTest, TakeFinished, JoinFinished, EnterAccept,
         EnteredTest, LeaveAccept, BackToManaged, PushConn, SpawnConn, CloseListener, server, stops
    <3>3. ASSUME NEW c \in Conns,
                 AcceptConn(c) \/ ReadRequest(c) \/ ConnStep(c) \/ \E r \in BOOLEAN : ReadFails(c, r)
          PROVE  UNCHANGED <<startPc, unjoined, stopPc>>
      BY <3>3 DEF AcceptConn, ReadRequest, ConnStep, EndRead, HandlerReturns, WriteAnswer,
         CloseConn, ReadFails, server, stops
    <3>4. ASSUME NEW p \in Stoppers, NEW c \in Conns, WakeConn(p, c)
          PROVE  UNCHANGED <<startPc, unjoined, stopPc>>
      BY <3>4 DEF WakeConn, server
    <3>5. CASE GcStart \/ GcDone
      BY <3>5 DEF GcStart, GcDone, server, stops
    <3> QED
      BY <1>2, <3>1, <3>2, <3>3, <3>4, <3>5 DEF Next, StopStep
  <2> QED
    BY <2>1, <2>2, <2>3, <2>4, <2>5, <2>6, <2>7
<1> QED
  BY <1>1, <1>2, Inductive, PTL DEF Spec

\* The handler is in g_ioRoots whenever it runs, but for one window: neither the
\* stop that joins the accept thread nor one that comes before that thread has
\* started unpins it while a request is or will be served.  Only a shutdownIO
\* between newThread and the store of acceptThread does, and that takes a server
\* another thread than the main one starts (run-server, stopServer in IO.cpp).
THEOREM PinnedTheorem == Spec => []PinnedWhileServing
<1>1. IInv /\ UnjoinedInv => PinnedWhileServing
  BY DEF IInv, NotYetServing, UnpinnedInv, UnjoinedInv, PinnedWhileServing, AcceptTypes
<1> QED
  BY <1>1, Inductive, UnjoinedInductive, PTL

\* When acceptMain returns the server has no thread left and no socket open,
\* the listening one and that of a connection accepted during the stop included.
THEOREM ClosedAtEndTheorem == Spec => []ClosedAtEnd
<1>1. IInv => ClosedAtEnd
  <2> SUFFICES ASSUME IInv, acceptPc = "ended"
               PROVE  /\ listener = "closed"
                      /\ \A c \in Conns : sock[c] \in {"none", "closed"}
                                          /\ connPc[c] \in {"none", "ended"}
    BY DEF ClosedAtEnd
  <2>1. listener = "closed" /\ connections = {} /\ toJoin = {} /\ got = None
    BY DEF IInv, ListenerInv, AcceptorInv
  <2>2. ASSUME NEW c \in Conns
        PROVE  sock[c] \in {"none", "closed"} /\ connPc[c] \in {"none", "ended"}
    <3>1. got # c /\ ConnAt(c)
      BY <2>1, HttpAssumption DEF IInv, ConnInv
    <3>2. connPc[c] \in {"none", "ended"}
      BY <2>1, <3>1 DEF ConnAt
    <3> QED
      BY <3>1, <3>2 DEF ConnAt
  <2> QED
    BY <2>1, <2>2
<1> QED
  BY <1>1, Inductive, PTL

\* Once the thread has read its request `reading' is down.
ReadingInv ==
    \A c \in Conns : connPc[c] \in {"handle", "refuse", "write"} => ~reading[c]

\* EndRead takes `reading' down on every way into the handler, and nothing raises it.
LEMMA ReadingInductive == Spec => []ReadingInv
<1>1. Init => ReadingInv
  BY DEF Init, ReadingInv
<1>2. ASSUME IInv, ReadingInv, [Next]_vars PROVE ReadingInv'
  <2> USE HttpAssumption
  <2>t. ConnTypes /\ AcceptTypes
    BY <1>2 DEF IInv
  <2>1. CASE UNCHANGED <<connPc, reading>>
    BY <1>2, <2>1 DEF ReadingInv
  <2>2. CASE SpawnConn
    <3>1. \A c \in Conns : connPc'[c] # connPc[c] => connPc'[c] \in {"ended", "read"}
      BY <2>t, <2>2 DEF SpawnConn, ConnTypes
    <3> QED
      BY <1>2, <2>2, <3>1 DEF SpawnConn, ReadingInv
  <2>3. ASSUME NEW c \in Conns,
               \/ ReadRequest(c) \/ HandlerReturns(c) \/ WriteAnswer(c) \/ CloseConn(c)
               \/ \E r \in BOOLEAN : ReadFails(c, r)
        PROVE  ReadingInv'
    <3>1. /\ reading' = reading
          /\ \A d \in Conns : d # c => connPc'[d] = connPc[d]
          /\ connPc'[c] \in {"handle", "refuse", "write"} => connPc[c] = "handle"
      BY <2>t, <2>3 DEF ReadRequest, HandlerReturns, WriteAnswer, CloseConn, ReadFails,
         ConnGoto, ConnTypes
    <3> QED
      BY <1>2, <3>1 DEF ReadingInv
  <2>4. ASSUME NEW c \in Conns, EndRead(c) PROVE ReadingInv'
    <3>1. /\ ~reading'[c]
          /\ \A d \in Conns : d # c => connPc'[d] = connPc[d] /\ reading'[d] = reading[d]
      BY <2>t, <2>4 DEF EndRead, ConnGoto, ConnTypes
    <3> QED
      BY <1>2, <3>1 DEF ReadingInv
  <2>5. \/ UNCHANGED <<connPc, reading>> \/ SpawnConn
        \/ \E c \in Conns : \/ ReadRequest(c) \/ ConnStep(c)
                            \/ \E r \in BOOLEAN : ReadFails(c, r)
    <3>1. CASE UNCHANGED vars
      BY <3>1 DEF vars, conns
    <3>2. CASE Register \/ StartAccept \/ StoreAcceptThread \/ ExitRun \/ GcStart \/ GcDone
      BY <3>2 DEF Register, StartAccept, StoreAcceptThread, ExitRun, GcStart, GcDone, conns
    <3>3. CASE AcceptStep \/ AcceptFails
      BY <3>3 DEF AcceptStep, AcceptFails, LoopTest, TakeFinished, JoinFinished, EnterAccept,
         EnteredTest, LeaveAccept, BackToManaged, PushConn, CloseListener, conns
    <3>4. ASSUME NEW c \in Conns, AcceptConn(c) PROVE UNCHANGED <<connPc, reading>>
      BY <3>4 DEF AcceptConn, conns
    <3>5. ASSUME NEW p \in Stoppers, StopCall(p) \/ StopStep(p)
          PROVE  UNCHANGED <<connPc, reading>>
      BY <3>5 DEF StopCall, StopStep, StopListener, WakeConn, WakeDone, AcceptLeft, ClaimJoin,
         JoinAccept, conns
    <3> QED
      BY <1>2, <3>1, <3>2, <3>3, <3>4, <3>5 DEF Next
  <2> QED
    BY <2>1, <2>2, <2>3, <2>4, <2>5 DEF ConnStep
<1> QED
  BY <1>1, <1>2, Inductive, PTL DEF Spec

\* From the moment the handler begins to the end of its answer no other thread
\* changes the connection's socket: requestStop, which runs at any time, goes by
\* `reading', and EndRead has taken that down (serveConnection, requestStop).
THEOREM HandlerKeepsSocketTheorem == Spec => HandlerKeepsSocket
<1> DEFINE Keeps == \A c \in Conns :
             connPc[c] \in {"handle", "refuse", "write"} => sock'[c] = sock[c]
<1>1. ASSUME IInv, ReadingInv, [Next]_vars PROVE [Keeps]_vars
  <2> SUFFICES ASSUME NEW c \in Conns, connPc[c] \in {"handle", "refuse", "write"},
                      sock'[c] # sock[c]
               PROVE  FALSE
    OBVIOUS
  <2>1. sock' # sock
    OBVIOUS
  <2>2. ASSUME NEW x \in Conns, AcceptConn(x) PROVE FALSE
    <3>1. x # c
      BY <1>1, <2>2 DEF AcceptConn, IInv, ConnInv, ConnAt
    <3> QED
      BY <1>1, <2>2, <3>1 DEF AcceptConn, IInv, ConnTypes
  <2>3. ASSUME SpawnConn PROVE FALSE
    <3>1. got \in Conns
      BY <1>1, <2>3 DEF SpawnConn, IInv, AcceptTypes, AcceptorInv
    <3>2. got # c
      BY <1>1, <3>1 DEF IInv, ConnInv, ConnAt
    <3>3. sock' = [sock EXCEPT ![got] = "closed"]
      BY <2>1, <2>3 DEF SpawnConn
    <3> QED
      BY <1>1, <3>1, <3>2, <3>3 DEF IInv, ConnTypes
  <2>4. ASSUME NEW x \in Conns, CloseConn(x) PROVE FALSE
    BY <1>1, <2>4 DEF CloseConn, IInv, ConnTypes
  <2>5. ASSUME NEW p \in Stoppers, NEW x \in Conns, WakeConn(p, x) PROVE FALSE
    <3>1. ~reading[c]
      BY <1>1 DEF ReadingInv
    <3> QED
      BY <1>1, <2>5, <3>1 DEF WakeConn, IInv, ConnTypes
  <2>6. \/ \E x \in Conns : AcceptConn(x) \/ CloseConn(x)
        \/ SpawnConn
        \/ \E p \in Stoppers, x \in Conns : WakeConn(p, x)
    <3>1. ~UNCHANGED vars
      BY <2>1 DEF vars
    <3>2. ~Register /\ ~StartAccept /\ ~StoreAcceptThread /\ ~AcceptFails /\ ~ExitRun
          /\ ~GcStart /\ ~GcDone
      BY <2>1 DEF Register, StartAccept, StoreAcceptThread, AcceptFails, ExitRun, GcStart, GcDone
    <3>3. /\ ~LoopTest /\ ~JoinFinished /\ ~EnterAccept /\ ~EnteredTest /\ ~LeaveAccept
          /\ ~BackToManaged /\ ~PushConn /\ ~CloseListener
          /\ \A all \in BOOLEAN : ~TakeFinished(all)
      BY <2>1 DEF LoopTest, JoinFinished, EnterAccept, EnteredTest, LeaveAccept, BackToManaged,
         PushConn, CloseListener, TakeFinished
    <3>4. /\ \A x \in Conns : ~ReadRequest(x) /\ ~EndRead(x) /\ ~HandlerReturns(x)
                             /\ ~WriteAnswer(x)
          /\ \A x \in Conns, refused \in BOOLEAN : ~ReadFails(x, refused)
      BY <2>1 DEF ReadRequest, EndRead, HandlerReturns, WriteAnswer, ReadFails
    <3>5. \A p \in Stoppers : /\ ~StopCall(p) /\ ~StopListener(p) /\ ~WakeDone(p)
                             /\ ~AcceptLeft(p) /\ ~ClaimJoin(p) /\ ~JoinAccept(p)
      BY <2>1 DEF StopCall, StopListener, WakeDone, AcceptLeft, ClaimJoin, JoinAccept
    <3>6. Next
      BY <1>1, <3>1
    <3> QED
      BY <3>2, <3>3, <3>4, <3>5, <3>6, Zenon DEF Next, AcceptStep, ConnStep, StopStep
  <2> QED
    BY <2>2, <2>3, <2>4, <2>5, <2>6
<1>2. Spec => [][Keeps]_vars
  BY <1>1, Inductive, ReadingInductive, PTL DEF Spec
<1> QED
  BY <1>2 DEF HandlerKeepsSocket

-----------------------------------------------------------------------------
(* A stop waits for others, and they for it: never in a circle.            *)

\* What lets each thread go on, without a client and without waiting: a thread in
\* stopServer ...
StopperGoes(p) ==
    \/ stopPc[p] \in {"wake", "requested"}
    \/ stopPc[p] = "lock" /\ mutex = None
    \/ stopPc[p] = "waitAccept" /\ mutex = None /\ ~inAccept
    \/ stopPc[p] = "join" /\ acceptPc = "ended" /\ gc = "idle"

\* ... the accept thread ...
AcceptorGoes ==
    \/ acceptPc \in {"loop", "entered", "pushed"}
    \/ acceptPc \in {"reap", "joinAll", "push", "closeListener"} /\ mutex = None
    \/ acceptPc \in {"reaping", "joiningAll"} /\ gc = "idle" /\ \A c \in toJoin : connPc[c] = "ended"
    \/ acceptPc = "enter" /\ (platform = "macos" => mutex = None)
    \/ acceptPc = "accept" /\ (listener # "open" \/ platform = "macos")
    \/ acceptPc = "leave" /\ (platform # "linux" => mutex = None)
    \/ acceptPc = "left" /\ gc = "idle"

\* ... the thread of a connection, whose handler may be in stopServer itself ...
ConnGoes(c) ==
    \/ connPc[c] = "close"
    \/ connPc[c] = "read" /\ (timed \/ sock[c] # "open")
    \/ connPc[c] \in {"request", "refusal", "nothing", "write", "refuse"} /\ gc = "idle"
    \/ connPc[c] = "handle" /\ stopPc[c] \in {"idle", "returned"}

\* ... and the collector.
CollectorGoes ==
    /\ gc = "stopping"
    /\ \A p \in Stoppers : stopPc[p] \notin {"lock", "wake", "waitAccept"}
    /\ acceptPc \notin {"reap", "joinAll", "push", "closeListener"}

InStop(p) == stopPc[p] \in {"lock", "wake", "waitAccept", "requested", "join"}

\* While a stop or a collection is under way, some thread goes on, if the accept
\* thread does not join a reader nobody woke and no time limit ends.
NeverStuck ==
    (\E p \in Stoppers : InStop(p)) \/ gc = "stopping" =>
        \/ \E p \in Stoppers : StopperGoes(p)
        \/ AcceptorGoes
        \/ \E c \in Conns : ConnGoes(c)
        \/ CollectorGoes
        \/ ~timed /\ Unwoken

\* The mutex is held across steps by the thread that wakes the connections.
MutexInv ==
    /\ mutex \in Stoppers \cup {None}
    /\ \A p \in Stoppers : mutex = p <=> stopPc[p] = "wake"

\* inAccept covers tcpAccept and nothing in which the accept thread waits for others.
InAcceptInv == inAccept => acceptPc \in {"entered", "accept", "leave"}

\* Once `stopping' is set the listening socket will let tcpAccept go.
WokenInv ==
    /\ startPc = "none" => ~stopping
    /\ stopping => \/ \E p \in Stoppers : stopPc[p] = "lock"
                   \/ listener # "open" \/ platform = "macos"

\* A handler never joins the accept thread, which may be joining it.
HandlerInv == \A c \in Conns : stopPc[c] \notin {"join", "exited"}

\* There is an accept thread to join.
JoinInv == \A p \in Stoppers : stopPc[p] = "join" => startPc = "running"

\* The accept thread joins threads that have started, and in its loop threads that
\* have ended.
TakenInv ==
    \A c \in toJoin : connPc[c] # "none" /\ (acceptPc = "reaping" => connPc[c] = "ended")

CollectorInv == gc \in {"idle", "stopping"}

GateInv == CollectorInv /\ MutexInv /\ InAcceptInv /\ WokenInv /\ HandlerInv /\ JoinInv /\ TakenInv

\* One step per group of actions of a thread.
LEMMA GateStep ==
    ASSUME IInv, CollectorInv, MutexInv, InAcceptInv, WokenInv, HandlerInv, JoinInv, TakenInv, [Next]_vars
    PROVE  GateInv'
<1> USE HttpAssumption
<1> USE DEF GateInv
<1>0. CollectorInv'
  BY DEF Next, AcceptStep, ConnStep, StopStep, Register, StartAccept, StoreAcceptThread,
     LoopTest, TakeFinished,
     JoinFinished, EnterAccept, EnteredTest, LeaveAccept, BackToManaged, PushConn, SpawnConn,
     CloseListener, AcceptFails, AcceptConn, ReadRequest, EndRead, HandlerReturns, WriteAnswer,
     CloseConn, ReadFails, StopCall, StopListener, WakeConn, WakeDone, AcceptLeft, ClaimJoin,
     JoinAccept, ExitRun, GcStart, GcDone, vars, CollectorInv
<1> USE <1>0
<1>t. AcceptTypes /\ ConnTypes /\ StopTypes
  BY DEF IInv
<1>1. CASE Register \/ StartAccept \/ StoreAcceptThread
  BY <1>1 DEF Register, StartAccept, StoreAcceptThread, acceptor, conns, stops, MutexInv, InAcceptInv, WokenInv,
     HandlerInv, JoinInv, TakenInv, IInv, Started
<1>2. CASE LoopTest \/ JoinFinished \/ EnteredTest \/ BackToManaged \/ PushConn \/ CloseListener
  BY <1>2 DEF LoopTest, JoinFinished, EnteredTest, BackToManaged, PushConn, CloseListener,
     AcceptGoto, server, acceptor, conns, stops, MutexInv, InAcceptInv, WokenInv, HandlerInv,
     JoinInv, TakenInv
<1>3. ASSUME NEW all \in BOOLEAN, TakeFinished(all) PROVE GateInv'
  <2>1. MutexInv' /\ InAcceptInv' /\ WokenInv' /\ HandlerInv' /\ JoinInv'
    BY <1>3 DEF TakeFinished, server, conns, stops, MutexInv, InAcceptInv, WokenInv,
       HandlerInv, JoinInv
  <2>2. got = None
    BY <1>3 DEF TakeFinished, IInv, AcceptorInv
  <2>3. \A c \in connections : c \in Conns /\ connPc[c] # "none"
    BY <1>t, <2>2 DEF AcceptTypes, IInv, ConnInv, ConnAt
  <2>4. /\ toJoin' \subseteq connections /\ connPc' = connPc
        /\ acceptPc' = "reaping" => \A c \in toJoin' : connPc[c] = "ended"
    BY <1>3 DEF TakeFinished, conns
  <2> QED
    BY <2>1, <2>3, <2>4 DEF TakenInv
<1>4. CASE EnterAccept \/ LeaveAccept \/ AcceptFails
  BY <1>4 DEF EnterAccept, LeaveAccept, AcceptFails, AcceptGoto, server, acceptor, conns,
     stops, MutexInv, InAcceptInv, WokenInv, HandlerInv, JoinInv, TakenInv
<1>5. CASE SpawnConn
  <2>1. MutexInv' /\ InAcceptInv' /\ WokenInv' /\ HandlerInv' /\ JoinInv'
    BY <1>5 DEF SpawnConn, server, stops, MutexInv, InAcceptInv, WokenInv, HandlerInv, JoinInv
  <2>2. \A c \in toJoin : c \in Conns
    BY <1>t DEF AcceptTypes
  <2> QED
    BY <1>t, <1>5, <2>1, <2>2 DEF SpawnConn, TakenInv, ConnTypes
<1>6. ASSUME NEW c \in Conns, AcceptConn(c) \/ ReadRequest(c) \/ ConnStep(c) \/ \E r \in BOOLEAN : ReadFails(c, r)
      PROVE  GateInv'
  <2>1. MutexInv' /\ InAcceptInv' /\ WokenInv' /\ HandlerInv' /\ JoinInv'
    BY <1>6 DEF AcceptConn, ReadRequest, ConnStep, EndRead, HandlerReturns, WriteAnswer, CloseConn,
       ReadFails, server, acceptor, conns, stops, MutexInv, InAcceptInv, WokenInv, HandlerInv, JoinInv
  <2>2. /\ toJoin' = toJoin
        /\ acceptPc' = "reaping" => acceptPc = "reaping"
        /\ \A d \in Conns : /\ connPc[d] # "none" => connPc'[d] # "none"
                            /\ connPc[d] = "ended" => connPc'[d] = "ended"
    BY <1>t, <1>6 DEF AcceptConn, ReadRequest, ConnStep, EndRead, HandlerReturns, WriteAnswer,
       CloseConn, ReadFails, ConnGoto, acceptor, conns, ConnTypes
  <2> QED
    BY <1>t, <2>1, <2>2 DEF TakenInv, AcceptTypes
<1>c. (\A c \in Conns : c \in Stoppers) /\ None \notin Stoppers
  BY DEF Stoppers
<1>7. ASSUME NEW p \in Stoppers, StopCall(p) PROVE GateInv'
  <2>1. PICK label \in {"returned", "requested", "lock"} : stopPc' = [stopPc EXCEPT ![p] = label]
    BY <1>7 DEF StopCall, StopGoto
  <2>2. \A q \in Stoppers : stopPc'[q] = IF q = p THEN label ELSE stopPc[q]
    BY <1>t, <2>1 DEF StopTypes
  <2>3. /\ stopPc[p] = "idle"
        /\ UNCHANGED <<platform, startPc, mutex, inAccept, listener, acceptPc, toJoin, connPc>>
    BY <1>7 DEF StopCall, acceptor, conns
  <2>4. MutexInv' /\ InAcceptInv' /\ HandlerInv' /\ JoinInv' /\ TakenInv'
    BY <1>c, <2>2, <2>3 DEF MutexInv, InAcceptInv, HandlerInv, JoinInv, TakenInv
  <2>5. WokenInv'
    <3>1. CASE startPc = "none" \/ stopping
      <4>1. stopping' = stopping
        BY <1>7, <3>1 DEF StopCall
      <4> QED
        BY <2>2, <2>3, <4>1 DEF WokenInv
    <3>2. CASE startPc # "none" /\ ~stopping
      <4>1. stopPc'[p] = "lock"
        BY <1>t, <1>7, <3>2 DEF StopCall, StopGoto, StopTypes
      <4> QED
        BY <2>3, <3>2, <4>1 DEF WokenInv
    <3> QED BY <3>1, <3>2
  <2> QED
    BY <2>4, <2>5
<1>8. ASSUME NEW p \in Stoppers, StopListener(p) PROVE GateInv'
  <2>1. \A q \in Stoppers : stopPc'[q] = IF q = p THEN "wake" ELSE stopPc[q]
    BY <1>t, <1>8 DEF StopListener, StopTypes
  <2>2. /\ stopPc[p] = "lock" /\ mutex = None /\ mutex' = p
        /\ listener' # "open" \/ platform' = "macos"
        /\ UNCHANGED <<platform, startPc, stopping, inAccept, acceptPc, toJoin, connPc>>
    BY <1>8 DEF StopListener, server, acceptor, conns
  <2>3. MutexInv'
    BY <1>c, <2>1, <2>2 DEF MutexInv
  <2>4. InAcceptInv' /\ WokenInv' /\ HandlerInv' /\ JoinInv' /\ TakenInv'
    BY <1>c, <2>1, <2>2 DEF InAcceptInv, WokenInv, HandlerInv, JoinInv, TakenInv
  <2> QED
    BY <2>3, <2>4
<1>9. ASSUME NEW p \in Stoppers, NEW c \in Conns, WakeConn(p, c) PROVE GateInv'
  BY <1>9 DEF WakeConn, server, acceptor, conns, MutexInv, InAcceptInv, WokenInv,
     HandlerInv, JoinInv, TakenInv
<1>10. ASSUME NEW p \in Stoppers, WakeDone(p) \/ AcceptLeft(p) PROVE GateInv'
  <2>1. PICK label \in {"requested", "waitAccept"} : stopPc' = [stopPc EXCEPT ![p] = label]
    BY <1>10 DEF WakeDone, AcceptLeft, StopGoto
  <2>2. \A q \in Stoppers : stopPc'[q] = IF q = p THEN label ELSE stopPc[q]
    BY <1>t, <2>1 DEF StopTypes
  <2>3. /\ stopPc[p] \in {"wake", "waitAccept"} /\ mutex' = None
        /\ stopPc[p] = "waitAccept" => mutex = None
        /\ UNCHANGED <<platform, startPc, stopping, inAccept, listener, acceptPc, toJoin, connPc>>
    BY <1>10 DEF WakeDone, AcceptLeft, server, acceptor, conns
  <2>4. MutexInv'
    BY <1>c, <2>2, <2>3 DEF MutexInv
  <2>5. WokenInv'
    BY <2>2, <2>3 DEF WokenInv
  <2>6. InAcceptInv' /\ HandlerInv' /\ JoinInv' /\ TakenInv'
    BY <1>c, <2>2, <2>3 DEF InAcceptInv, HandlerInv, JoinInv, TakenInv
  <2> QED
    BY <2>4, <2>5, <2>6
<1>11. ASSUME NEW p \in Stoppers, ClaimJoin(p) \/ JoinAccept(p) PROVE GateInv'
  <2>1. PICK label \in {"join", "returned"} :
          /\ stopPc' = [stopPc EXCEPT ![p] = label]
          /\ label = "join" => p \notin Conns /\ startPc = "running"
    BY <1>11 DEF ClaimJoin, JoinAccept, StopGoto
  <2>2. \A q \in Stoppers : stopPc'[q] = IF q = p THEN label ELSE stopPc[q]
    BY <1>t, <2>1 DEF StopTypes
  <2>3. /\ stopPc[p] \in {"requested", "join"}
        /\ UNCHANGED <<platform, startPc, stopping, mutex, inAccept, listener, acceptPc, toJoin, connPc>>
    BY <1>11 DEF ClaimJoin, JoinAccept, acceptor, conns
  <2>4. MutexInv'
    BY <1>c, <2>2, <2>3 DEF MutexInv
  <2>5. WokenInv'
    BY <2>2, <2>3 DEF WokenInv
  <2>6. InAcceptInv' /\ HandlerInv' /\ JoinInv' /\ TakenInv'
    BY <1>c, <2>1, <2>2, <2>3 DEF InAcceptInv, HandlerInv, JoinInv, TakenInv
  <2> QED
    BY <2>4, <2>5, <2>6
<1>12. CASE ExitRun
  BY <1>t, <1>12 DEF ExitRun, server, acceptor, conns, MutexInv, InAcceptInv, WokenInv,
     HandlerInv, JoinInv, TakenInv, StopTypes, Stoppers
<1>13. CASE GcStart \/ GcDone \/ UNCHANGED vars
  BY <1>13 DEF GcStart, GcDone, vars, server, acceptor, conns, stops, MutexInv, InAcceptInv,
     WokenInv, HandlerInv, JoinInv, TakenInv
<1> QED
  BY <1>1, <1>2, <1>3, <1>4, <1>5, <1>6, <1>7, <1>8, <1>9, <1>10, <1>11, <1>12, <1>13
     DEF Next, AcceptStep, StopStep

\* If no thread goes on, nobody stops the server: the mutex is free, so nobody waits for
\* it; tcpAccept lets go, so nobody waits for that; so the collector goes on; then only
\* the joins are left, which end in a connection whose handler waits for nothing, or in
\* a reader nobody woke.
LEMMA GateNeverStuck ==
    ASSUME IInv, GateInv
    PROVE  NeverStuck
<1> USE HttpAssumption
<1> SUFFICES ASSUME (\E p \in Stoppers : InStop(p)) \/ gc = "stopping",
                    \A p \in Stoppers : ~StopperGoes(p),
                    ~AcceptorGoes,
                    \A c \in Conns : ~ConnGoes(c),
                    ~CollectorGoes,
                    ~(~timed /\ Unwoken)
             PROVE  FALSE
  BY DEF NeverStuck
<1>t. AcceptTypes /\ ConnTypes /\ StopTypes
  BY DEF IInv
<1>1. mutex = None
  BY DEF StopperGoes, GateInv, MutexInv
<1>2. \A p \in Stoppers : stopPc[p] \notin {"lock", "wake", "requested"}
  BY <1>1 DEF StopperGoes
<1>3. acceptPc \notin {"reap", "joinAll", "push", "closeListener", "loop", "entered", "pushed",
                       "enter", "leave"}
  BY <1>1 DEF AcceptorGoes
<1>4. \A p \in Stoppers : stopPc[p] # "waitAccept"
  <2> SUFFICES ASSUME NEW p \in Stoppers, stopPc[p] = "waitAccept"
               PROVE  FALSE
    OBVIOUS
  <2>1. inAccept
    BY <1>1 DEF StopperGoes
  <2>2. acceptPc = "accept"
    BY <1>3, <2>1 DEF GateInv, InAcceptInv
  <2>3. stopping
    BY DEF IInv, StopIsSeen
  <2>4. listener # "open" \/ platform = "macos"
    BY <1>2, <2>3 DEF GateInv, WokenInv
  <2> QED
    BY <2>2, <2>4 DEF AcceptorGoes
<1>5. gc # "stopping"
  BY <1>2, <1>3, <1>4 DEF CollectorGoes
<1>6. PICK p \in Stoppers : stopPc[p] = "join"
  BY <1>2, <1>4, <1>5 DEF InStop
<1>7. stopping /\ acceptPc # "none"
  BY <1>6 DEF IInv, StopIsSeen, Started, GateInv, JoinInv
<1>8. gc = "idle"
  BY <1>5 DEF GateInv, CollectorInv
<1>9. acceptPc # "ended"
  BY <1>6, <1>8 DEF StopperGoes
<1>10. acceptPc # "accept"
  BY <1>2, <1>7 DEF GateInv, WokenInv, AcceptorGoes
<1>11. acceptPc \in {"reaping", "joiningAll"}
  BY <1>t, <1>3, <1>7, <1>8, <1>9, <1>10 DEF AcceptTypes, AcceptPcs, AcceptorGoes
<1>12. PICK c \in toJoin : connPc[c] # "ended"
  BY <1>8, <1>11 DEF AcceptorGoes
<1>13. c \in Conns /\ c \in Stoppers /\ connPc[c] \in ConnPcs \ {"none", "ended"} /\ stopPc[c] \in StopPcs
  BY <1>t, <1>12 DEF AcceptTypes, ConnTypes, StopTypes, GateInv, TakenInv, Stoppers
<1>14. acceptPc = "joiningAll"
  BY <1>11, <1>12 DEF GateInv, TakenInv
<1>r. connPc[c] # "read"
  BY <1>12, <1>13, <1>14 DEF ConnGoes, Unwoken
<1>h. connPc[c] = "handle" /\ stopPc[c] \notin {"idle", "returned"}
  BY <1>8, <1>13, <1>r DEF ConnGoes, ConnPcs
<1>15. stopPc[c] \in {"join", "exited"}
  BY <1>2, <1>4, <1>13, <1>h DEF StopPcs
<1> QED
  BY <1>13, <1>15 DEF GateInv, HandlerInv

\* A stop never hangs on a circle of waits: while a call of stop-server or shutdownIO or a
\* collection is under way, a thread of the server, a thread that stops it or the
\* collector can take its next step without a client, in each build, for any number of
\* connections and callers, and also when handlers stop their own server (stopServer,
\* requestStop and acceptMain in IO.cpp).  The one exception is a reader that was taken
\* out of `connections' before requestStop walked it, of a server with a negative
\* :read-timeout.
THEOREM NeverStuckTheorem == Spec => []NeverStuck
<1>1. Init => GateInv
  BY HttpAssumption DEF Init, GateInv, MutexInv, InAcceptInv, WokenInv, HandlerInv, JoinInv,
     TakenInv, CollectorInv, Stoppers
<1>2. IInv /\ GateInv /\ [Next]_vars => GateInv'
  BY GateStep DEF GateInv
<1> QED
  BY <1>1, <1>2, GateNeverStuck, Inductive, PTL DEF Spec

=============================================================================
