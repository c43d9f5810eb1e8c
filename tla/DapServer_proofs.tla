-------------------------- MODULE DapServer_proofs --------------------------
(***************************************************************************)
(* Proofs about DapServer, for any threads, lines and number of requests:  *)
(* every request has one response, a thread stays stopped until it is      *)
(* resumed, no cache of breakpoint lines is taken for a newer one, and a   *)
(* disconnect brings the end of the process nearer with every step.        *)
(***************************************************************************)
EXTENDS DapServer, FiniteSetTheorems, TLAPS

HookPcs == {"none", "run", "line", "cache", "fill", "hit", "flush", "announce", "stopped",
            "answer", "resume", "dead"}

ThreadTypes ==
    /\ pc \in [Threads -> HookPcs]
    /\ resumeReady \in [Threads -> BOOLEAN]
    /\ resume \in [Threads -> Resumes \cup {"continue"}]
    /\ told \in [Threads -> Resumes \cup {"none"}]
    /\ disconnected \in BOOLEAN

CacheTypes ==
    /\ bpGen \in Nat
    /\ seenGen \in [Threads -> Nat]
    /\ cache \in [Threads -> [gen : Nat, lines : SUBSET Places]]
    /\ breakpoints \in SUBSET Places

RequestTypes ==
    /\ sent \in 0..MaxRequests
    /\ answers \in [Requests -> Nat]
    /\ hand \in [Threads -> Requests \cup {0}]
    /\ queue \in [Threads -> Seq(Requests)]

TypeOK == ThreadTypes /\ CacheTypes /\ RequestTypes

\* What a thread has cached, or is about to, counts for no later generation.
CacheInv ==
    /\ CacheFresh
    /\ \A t \in Threads : cache[t].gen <= bpGen /\ seenGen[t] <= bpGen

\* A resume that a stopped thread will act on is the first that came after it
\* stopped, and a thread on its way out of a stop got one, or the client has gone.
StopInv ==
    /\ \A t \in Threads : Stopped(t) =>
         (IF resumeReady[t] THEN told[t] # "none" /\ resume[t] = told[t] ELSE told[t] = "none")
    /\ \A t \in Threads : pc[t] = "resume" => resumeReady[t] \/ disconnected
    /\ disconnected => readerPc \notin {"reading", "pausing"}

\* The program has not started before the main thread starts it.
NotStarted == runPc \in {"wait", "armed"} => pc[Main] = "none"

NoRepeats(s) == \A j, k \in 1..Len(s) : s[j] = s[k] => j = k

\* Request i waits at thread t.
Waits(t, i) == hand[t] = i \/ Contains(queue[t], i)

\* A thread works on a request of its own while it answers, has none left when
\* it resumes, and holds no request twice.
QueueAt(t) ==
    /\ hand[t] # 0 <=> pc[t] = "answer"
    /\ pc[t] = "resume" => queue[t] = <<>>
    /\ NoRepeats(queue[t])
    /\ ~Contains(queue[t], hand[t])
    /\ \A i \in Requests : Waits(t, i) => i <= sent

\* Request i has its response and waits nowhere, or has none and waits at one
\* thread; the requests to come have none.
Placed(i) ==
    \/ answers[i] = 1 /\ \A t \in Threads : ~Waits(t, i)
    \/ answers[i] = 0 /\ \E t \in Threads : Waits(t, i) /\ \A u \in Threads : Waits(u, i) => u = t

AnswerInv ==
    /\ \A t \in Threads : QueueAt(t)
    /\ \A i \in Requests : IF i <= sent THEN Placed(i) ELSE answers[i] = 0

-----------------------------------------------------------------------------
(* What the actions leave alone. *)

\* The main thread, the end of the session and the program's own steps.
LEMMA OutsideFrames ==
    ASSUME Runner \/ Closing \/ Program \/ UNCHANGED vars
    PROVE  /\ UNCHANGED <<cached, bps, resumeReady, resume, told, disconnected, queue, hand, sent, answers>>
           /\ readerPc = "reading" => readerPc' = "reading"
<1>1. CASE Runner
  BY <1>1 DEF Runner, StartRun, ArmEntry, NotRunning, EndSession, session, hist
<1>2. CASE Closing
  BY <1>2 DEF Closing, StorePause, CloseInput, Kill, session, hist
<1>3. CASE ProgramEnds
  BY <1>3 DEF ProgramEnds, session, hist
<1>4. ASSUME NEW t \in Threads, StartThread(t) \/ ExitThread(t) \/ Throw(t)
      PROVE  UNCHANGED <<cached, bps, resumeReady, resume, told, disconnected, queue, hand, sent,
                         answers, readerPc>>
  BY <1>4 DEF StartThread, ExitThread, Throw, session, hist
<1>5. ASSUME NEW t \in Threads, NEW p \in Places, EnterLine(t, p)
      PROVE  UNCHANGED <<cached, bps, resumeReady, resume, told, disconnected, queue, hand, sent,
                         answers, readerPc>>
  BY <1>5 DEF EnterLine, session, hist
<1>6. CASE UNCHANGED vars
  BY <1>6 DEF vars, session, hist
<1> QED
  BY <1>1, <1>2, <1>3, <1>4, <1>5, <1>6 DEF Program

\* The steps in the hook that do not touch the cache, the requests or the stop.
LEMMA LookFrames ==
    ASSUME NEW t \in Threads, Look(t) \/ \E stops \in BOOLEAN : Hit(t, stops)
    PROVE  UNCHANGED <<cached, bps, resumeReady, resume, told, disconnected, queue, hand, sent,
                       answers, readerPc>>
  BY DEF Look, Hit, session, hist

\* The steps of a stop.
LEMMA StopFrames ==
    ASSUME NEW t \in Threads,
           Stop(t) \/ Announce(t) \/ TakeRequest(t) \/ AnswerStopped(t) \/ LeaveStop(t)
             \/ Resume(t)
    PROVE  UNCHANGED <<cached, bps, disconnected, resume, sent, readerPc>>
  BY DEF Stop, Announce, TakeRequest, AnswerStopped, LeaveStop, Resume, session

\* The requests of the client other than setBreakpoints.
LEMMA ClientFrames ==
    ASSUME \/ \E b \in BOOLEAN : Launch(b) \/ SetExceptionBreakpoints(b)
           \/ ConfigurationDone \/ Disconnect \/ HangUp
           \/ \E t \in Threads : Pause(t) \/ Inspect(t)
           \/ \E t \in Threads, how \in Resumes : ResumeRequest(t, how)
    PROVE  UNCHANGED <<cached, breakpoints, bpGen, pc, hand>>
<1>1. ASSUME NEW b \in BOOLEAN, Launch(b) \/ SetExceptionBreakpoints(b)
      PROVE  UNCHANGED <<cached, breakpoints, bpGen, pc, hand>>
  BY <1>1 DEF Launch, SetExceptionBreakpoints, bps
<1>2. CASE ConfigurationDone \/ Disconnect \/ HangUp
  BY <1>2 DEF ConfigurationDone, Disconnect, HangUp, bps
<1>3. ASSUME NEW t \in Threads, Pause(t) \/ Inspect(t)
      PROVE  UNCHANGED <<cached, breakpoints, bpGen, pc, hand>>
  BY <1>3 DEF Pause, Inspect, bps
<1>4. ASSUME NEW t \in Threads, NEW how \in Resumes, ResumeRequest(t, how)
      PROVE  UNCHANGED <<cached, breakpoints, bpGen, pc, hand>>
  BY <1>4 DEF ResumeRequest, bps
<1> QED
  BY <1>1, <1>2, <1>3, <1>4

-----------------------------------------------------------------------------
(* The cache of breakpoint lines. *)

\* setBreakpoints counts the generation up with the change; a thread fills its
\* cache under the generation it read before.
LEMMA CacheStep ==
    ASSUME CacheTypes, CacheInv, [Next]_vars
    PROVE  CacheTypes' /\ CacheInv'
<1>1. ASSUME UNCHANGED <<cached, breakpoints, bpGen>> PROVE CacheTypes' /\ CacheInv'
  BY <1>1 DEF cached, CacheTypes, CacheInv, CacheFresh
<1>2. ASSUME NEW t \in Threads, LoadGen(t) PROVE CacheTypes' /\ CacheInv'
  <2>1. /\ UNCHANGED <<cache, breakpoints, bpGen>>
        /\ \E g \in {0, bpGen} : seenGen' = [seenGen EXCEPT ![t] = g]
    BY <1>2 DEF LoadGen, bps
  <2>2. CacheTypes'
    BY <2>1 DEF CacheTypes
  <2>3. \A u \in Threads : seenGen'[u] <= bpGen
    BY <2>1 DEF CacheTypes, CacheInv
  <2> QED
    BY <2>1, <2>2, <2>3 DEF CacheInv, CacheFresh
<1>3. ASSUME NEW t \in Threads, FillCache(t) PROVE CacheTypes' /\ CacheInv'
  <2>1. /\ UNCHANGED <<breakpoints, bpGen>>
        /\ cache' = [cache EXCEPT ![t] = [gen |-> seenGen[t], lines |-> breakpoints]]
        /\ seenGen' = [seenGen EXCEPT ![t] = 0]
    BY <1>3 DEF FillCache, bps
  <2>2. CacheTypes'
    BY <2>1 DEF CacheTypes
  <2>3. \A u \in Threads : /\ cache'[u] = IF u = t THEN [gen |-> seenGen[t], lines |-> breakpoints]
                                          ELSE cache[u]
                           /\ seenGen'[u] = IF u = t THEN 0 ELSE seenGen[u]
    BY <2>1 DEF CacheTypes
  <2>4. \A u \in Threads : cache'[u].gen <= bpGen' /\ seenGen'[u] <= bpGen'
    BY <2>1, <2>3 DEF CacheTypes, CacheInv
  <2>5. CacheFresh'
    BY <2>1, <2>3 DEF CacheInv, CacheFresh
  <2> QED
    BY <2>2, <2>4, <2>5 DEF CacheInv
<1>4. ASSUME NEW lines \in SUBSET Places, SetBreakpoints(lines) PROVE CacheTypes' /\ CacheInv'
  <2>1. breakpoints' = lines /\ bpGen' = bpGen + 1 /\ UNCHANGED <<seenGen, cache>>
    BY <1>4 DEF SetBreakpoints, cached
  <2>2. CacheTypes'
    BY <2>1 DEF CacheTypes
  <2>3. \A t \in Threads : cache[t].gen \in Nat /\ seenGen[t] \in Nat
    BY DEF CacheTypes
  <2>4. \A t \in Threads : /\ cache[t].gen <= bpGen + 1 /\ seenGen[t] <= bpGen + 1
                           /\ cache[t].gen # bpGen + 1
    BY <2>3 DEF CacheTypes, CacheInv
  <2> QED
    BY <2>1, <2>2, <2>4 DEF CacheInv, CacheFresh
<1>5. CASE Runner \/ Closing \/ Program \/ UNCHANGED vars
  BY <1>1, <1>5, OutsideFrames DEF bps
<1>6. ASSUME NEW t \in Threads, InHook(t) PROVE CacheTypes' /\ CacheInv'
  BY <1>1, <1>2, <1>3, <1>6, LookFrames, StopFrames DEF InHook, bps
<1>7. CASE Client
  BY <1>1, <1>4, <1>7, ClientFrames DEF Client
<1> QED
  BY <1>5, <1>6, <1>7 DEF Next

\* A thread never takes an old set of breakpoint lines for the current one: a
\* cache that carries the current generation holds the current breakpoints,
\* although breakpointLineSet reads the generation before it takes the lock
\* that guards the lines, and setBreakpoints may come in between.
THEOREM CacheFreshTheorem == Spec => []CacheFresh
<1>1. Init => CacheTypes /\ CacheInv
  BY DEF Init, CacheTypes, CacheInv, CacheFresh
<1>2. CacheTypes /\ CacheInv /\ [Next]_vars => CacheTypes' /\ CacheInv'
  BY CacheStep
<1>3. CacheInv => CacheFresh
  BY DEF CacheInv
<1> QED
  BY <1>1, <1>2, <1>3, PTL DEF Spec

-----------------------------------------------------------------------------
(* Stops and resumes. *)

\* A thread moves on outside a stop.
LEMMA StopMove ==
    ASSUME ThreadTypes, StopInv, NEW t \in Threads, NEW p \in HookPcs,
           UNCHANGED <<resumeReady, resume, told, disconnected>>,
           readerPc' \in {"reading", "pausing"} => readerPc \in {"reading", "pausing"},
           pc' = [pc EXCEPT ![t] = p],
           p \in {"announce", "stopped", "answer"} => pc[t] \in {"announce", "stopped", "answer"},
           p # "resume"
    PROVE  ThreadTypes' /\ StopInv'
<1>1. ThreadTypes'
  BY DEF ThreadTypes
<1>2. \A u \in Threads : pc'[u] = IF u = t THEN p ELSE pc[u]
  BY DEF ThreadTypes
<1>3. StopInv'
  BY <1>2 DEF StopInv, Stopped
<1> QED
  BY <1>1, <1>3

\* stop() clears the resume of an earlier stop, and only a request to this one
\* sets it again.
LEMMA StopStep ==
    ASSUME ThreadTypes, StopInv, [Next]_vars
    PROVE  ThreadTypes' /\ StopInv'
<1>1. ASSUME UNCHANGED <<pc, resumeReady, resume, told, disconnected>>,
             readerPc' \in {"reading", "pausing"} => readerPc \in {"reading", "pausing"}
      PROVE  ThreadTypes' /\ StopInv'
  BY <1>1 DEF ThreadTypes, StopInv, Stopped
<1>2. CASE Runner \/ Closing \/ UNCHANGED vars
  <2>1. UNCHANGED <<resumeReady, resume, told, disconnected>>
    BY <1>2, OutsideFrames
  <2>2. readerPc' \in {"reading", "pausing"} => readerPc \in {"reading", "pausing"}
    BY <1>2 DEF Runner, StartRun, ArmEntry, NotRunning, EndSession, Closing, StorePause,
       CloseInput, Kill, vars
  <2>3. CASE ArmEntry
    BY <2>1, <2>2, <2>3, StopMove, DapAssumption DEF ArmEntry, Goto, HookPcs
  <2>4. CASE ~ArmEntry
    BY <1>1, <1>2, <2>1, <2>2, <2>4 DEF Runner, StartRun, NotRunning, EndSession, Closing,
       StorePause, CloseInput, Kill, vars
  <2> QED
    BY <2>3, <2>4
<1>3. CASE Program
  <2>1. UNCHANGED <<resumeReady, resume, told, disconnected, readerPc>>
    BY <1>3, OutsideFrames DEF Program, ProgramEnds, StartThread, ExitThread, Throw, EnterLine
  <2>2. \E t \in Threads, p \in {"run", "dead", "flush", "line"} : pc' = [pc EXCEPT ![t] = p]
    BY <1>3, DapAssumption DEF Program, ProgramEnds, StartThread, ExitThread, Throw, EnterLine,
       Goto
  <2> QED
    BY <2>1, <2>2, StopMove DEF HookPcs
<1>4. ASSUME NEW t \in Threads, Look(t) \/ (\E stops \in BOOLEAN : Hit(t, stops))
             \/ LoadGen(t) \/ FillCache(t)
      PROVE  ThreadTypes' /\ StopInv'
  <2>1. UNCHANGED <<resumeReady, resume, told, disconnected, readerPc>>
    BY <1>4, LookFrames DEF LoadGen, FillCache, session, hist
  <2>2. \E p \in {"flush", "cache", "run", "fill", "hit"} : pc' = [pc EXCEPT ![t] = p]
    BY <1>4 DEF Look, Hit, LoadGen, FillCache, Goto
  <2> QED
    BY <2>1, <2>2, StopMove DEF HookPcs
<1>5. ASSUME NEW t \in Threads, Stop(t) PROVE ThreadTypes' /\ StopInv'
  <2>1. UNCHANGED <<disconnected, readerPc>>
    BY <1>5, StopFrames
  <2>r. UNCHANGED resume
    BY <1>5 DEF Stop
  <2>2. CASE disconnected
    BY <1>5, <2>1, <2>r, <2>2, StopMove DEF Stop, Goto, HookPcs
  <2>3. CASE ~disconnected
    <3>1. /\ pc' = [pc EXCEPT ![t] = "announce"] /\ told' = [told EXCEPT ![t] = "none"]
          /\ resumeReady' = [resumeReady EXCEPT ![t] = FALSE]
      BY <1>5, <2>3 DEF Stop, Goto
    <3>2. ThreadTypes'
      BY <2>1, <2>r, <3>1 DEF ThreadTypes, HookPcs
    <3>3. \A u \in Threads :
            IF u = t THEN pc'[u] = "announce" /\ ~resumeReady'[u] /\ told'[u] = "none"
            ELSE pc'[u] = pc[u] /\ resumeReady'[u] = resumeReady[u] /\ told'[u] = told[u]
      BY <3>1 DEF ThreadTypes
    <3>4. StopInv'
      BY <2>1, <2>r, <3>3 DEF StopInv, Stopped
    <3> QED
      BY <3>2, <3>4
  <2> QED
    BY <2>2, <2>3
<1>6. ASSUME NEW t \in Threads,
             Announce(t) \/ TakeRequest(t) \/ AnswerStopped(t) \/ Resume(t)
      PROVE  ThreadTypes' /\ StopInv'
  <2>1. UNCHANGED <<resumeReady, resume, told, disconnected, readerPc>>
    BY <1>6, StopFrames DEF Announce, TakeRequest, AnswerStopped, Resume, hist
  <2>2. \E p \in {"answer", "stopped", "run"} :
          /\ pc' = [pc EXCEPT ![t] = p]
          /\ p # "run" => pc[t] \in {"announce", "stopped", "answer"}
    BY <1>6 DEF Announce, TakeRequest, AnswerStopped, Resume, Goto
  <2> QED
    BY <2>1, <2>2, StopMove DEF HookPcs
<1>7. ASSUME NEW t \in Threads, LeaveStop(t) PROVE ThreadTypes' /\ StopInv'
  <2>1. /\ UNCHANGED <<resumeReady, resume, told, disconnected, readerPc>>
        /\ pc[t] = "stopped" /\ (resumeReady[t] \/ disconnected)
        /\ pc' = [pc EXCEPT ![t] = "resume"]
    BY <1>7, StopFrames DEF LeaveStop, Goto, hist
  <2>2. ThreadTypes'
    BY <2>1 DEF ThreadTypes, HookPcs
  <2>3. \A u \in Threads : pc'[u] = IF u = t THEN "resume" ELSE pc[u]
    BY <2>1 DEF ThreadTypes
  <2>4. StopInv'
    BY <2>1, <2>3 DEF StopInv, Stopped
  <2> QED
    BY <2>2, <2>4
<1>8. ASSUME NEW t \in Threads, NEW how \in Resumes, ResumeRequest(t, how)
      PROVE  ThreadTypes' /\ StopInv'
  <2>1. UNCHANGED <<pc, disconnected, readerPc>>
    BY <1>8 DEF ResumeRequest, session
  <2>0. how # "none"
    BY DapAssumption
  <2>2. CASE t \in registered /\ Stopped(t) /\ ~resumeReady[t]
    <3>1. told[t] = "none"
      BY <2>2 DEF StopInv
    <3>2. /\ resumeReady' = [resumeReady EXCEPT ![t] = TRUE]
          /\ resume' = [resume EXCEPT ![t] = how]
          /\ told' = [told EXCEPT ![t] = how]
      BY <1>8, <2>2, <3>1 DEF ResumeRequest
    <3>3. ThreadTypes'
      BY <2>1, <3>2 DEF ThreadTypes
    <3>4. \A u \in Threads :
            IF u = t THEN resumeReady'[u] /\ told'[u] = how /\ resume'[u] = how
            ELSE /\ resumeReady'[u] = resumeReady[u]
                 /\ told'[u] = told[u] /\ resume'[u] = resume[u]
      BY <3>2 DEF ThreadTypes
    <3>5. StopInv'
      BY <2>0, <2>1, <3>4 DEF StopInv, Stopped
    <3> QED
      BY <3>3, <3>5
  <2>3. CASE ~(t \in registered /\ Stopped(t) /\ ~resumeReady[t])
    <3>1. UNCHANGED <<resume, resumeReady>>
      BY <1>8, <2>3 DEF ResumeRequest
    <3>2. ~(t \in registered /\ Stopped(t) /\ told[t] = "none")
      BY <2>3 DEF StopInv
    <3>3. told' = told
      <4>1. told' = [told EXCEPT ![t] = told[t]]
        BY <1>8, <3>2 DEF ResumeRequest
      <4> QED
        BY <4>1 DEF ThreadTypes
    <3> QED
      BY <1>1, <2>1, <3>1, <3>3
  <2> QED
    BY <2>2, <2>3
<1>9. CASE Disconnect
  <2>1. UNCHANGED <<pc, resumeReady, resume, told>> /\ disconnected' /\ readerPc' = "closing"
        /\ disconnected' = TRUE
    BY <1>9 DEF Disconnect, hist
  <2> QED
    BY <2>1 DEF ThreadTypes, StopInv, Stopped
<1>10. ASSUME NEW t \in Threads, Pause(t) \/ Inspect(t) PROVE ThreadTypes' /\ StopInv'
  BY <1>1, <1>10 DEF Pause, Inspect, Handling, session, hist
<1>11. CASE \/ \E b \in BOOLEAN : Launch(b) \/ SetExceptionBreakpoints(b)
            \/ ConfigurationDone \/ HangUp
            \/ \E lines \in SUBSET Places : SetBreakpoints(lines)
  BY <1>1, <1>11 DEF Launch, SetExceptionBreakpoints, ConfigurationDone, HangUp, SetBreakpoints,
     session, hist
<1> QED
  BY <1>2, <1>3, <1>4, <1>5, <1>6, <1>7, <1>8, <1>9, <1>10, <1>11 DEF Next, InHook, Client

\* The invariant of stops holds throughout.
LEMMA StopInductive == Spec => [](ThreadTypes /\ StopInv)
<1>1. Init => ThreadTypes /\ StopInv
  <2> SUFFICES ASSUME Init PROVE ThreadTypes /\ StopInv
    OBVIOUS
  <2>1. /\ pc = [t \in Threads |-> "none"] /\ disconnected = FALSE
        /\ resumeReady = [t \in Threads |-> FALSE] /\ told = [t \in Threads |-> "none"]
        /\ resume = [t \in Threads |-> "continue"]
    BY DEF Init
  <2>2. ThreadTypes
    BY <2>1 DEF ThreadTypes, HookPcs
  <2>3. StopInv
    BY <2>1 DEF StopInv, Stopped
  <2> QED
    BY <2>2, <2>3
<1>2. ThreadTypes /\ StopInv /\ [Next]_vars => ThreadTypes' /\ StopInv'
  BY StopStep
<1> QED
  BY <1>1, <1>2, PTL DEF Spec

\* A thread leaves a stop only on a resume request read during this stop, or
\* because the client has gone, and goes on as the first such request asked:
\* stop() clears what an earlier resume has left, and continue and the steps
\* leave a thread alone that is not stopped or has one already.
THEOREM StopsUntilResumedTheorem == Spec => []StopsUntilResumed
<1>1. StopInv => StopsUntilResumed
  BY DEF StopInv, Stopped, StopsUntilResumed
<1> QED
  BY <1>1, StopInductive, PTL

-----------------------------------------------------------------------------
(* Requests and responses. *)

\* A request joins a queue it is not in.
LEMMA ContainsAppend ==
    ASSUME NEW S, NEW s \in Seq(S), NEW x \in S
    PROVE  /\ \A i : Contains(Append(s, x), i) <=> Contains(s, i) \/ i = x
           /\ NoRepeats(s) /\ ~Contains(s, x) => NoRepeats(Append(s, x))
<1> DEFINE a == Append(s, x)
<1>1. /\ Len(s) \in Nat /\ Len(a) = Len(s) + 1
      /\ \A j \in 1..Len(s) : a[j] = s[j]
      /\ a[Len(s) + 1] = x
  OBVIOUS
<1> HIDE DEF a
<1>2. \A j \in 1..Len(a) : j \in 1..Len(s) \/ j = Len(s) + 1
  BY <1>1
<1>3. 1..Len(s) \in SUBSET (1..Len(a)) /\ Len(s) + 1 \in 1..Len(a)
  BY <1>1
<1>4. \A i : Contains(a, i) <=> Contains(s, i) \/ i = x
  BY <1>1, <1>2, <1>3, Zenon DEF Contains
<1>5. ASSUME NoRepeats(s), ~Contains(s, x) PROVE NoRepeats(a)
  BY <1>1, <1>2, <1>5 DEF NoRepeats, Contains
<1> QED
  BY <1>4, <1>5 DEF a

\* The first request leaves its queue.
LEMMA ContainsTail ==
    ASSUME NEW S, NEW s \in Seq(S), s # <<>>, NoRepeats(s)
    PROVE  /\ \A i : Contains(s, i) <=> Contains(Tail(s), i) \/ i = Head(s)
           /\ ~Contains(Tail(s), Head(s)) /\ NoRepeats(Tail(s))
<1> DEFINE r == Tail(s)
<1>1. /\ Len(s) \in Nat \ {0} /\ Len(r) = Len(s) - 1 /\ Head(s) = s[1]
      /\ \A j \in 1..Len(r) : r[j] = s[j + 1] /\ j + 1 \in 1..Len(s)
  OBVIOUS
<1> HIDE DEF r
<1>2. \A j \in 1..Len(s) : j = 1 \/ (j - 1 \in 1..Len(r) /\ (j - 1) + 1 = j)
  BY <1>1
<1>3. 1 \in 1..Len(s)
  BY <1>1
<1>4. ASSUME NEW i PROVE Contains(s, i) <=> Contains(r, i) \/ i = Head(s)
  <2>1. ASSUME NEW j \in 1..Len(s), s[j] = i PROVE Contains(r, i) \/ i = Head(s)
    BY <1>1, <1>2, <2>1 DEF Contains
  <2>2. ASSUME NEW j \in 1..Len(r), r[j] = i PROVE Contains(s, i)
    BY <1>1, <2>2 DEF Contains
  <2>3. Contains(s, Head(s))
    BY <1>1, <1>3 DEF Contains
  <2> QED
    BY <2>1, <2>2, <2>3 DEF Contains
<1>5. ~Contains(r, Head(s))
  <2> SUFFICES ASSUME NEW j \in 1..Len(r), r[j] = s[1] PROVE FALSE
    BY <1>1 DEF Contains
  <2>1. s[j + 1] = s[1] /\ j + 1 \in 1..Len(s) /\ j + 1 # 1
    BY <1>1
  <2> QED
    BY <1>3, <2>1 DEF NoRepeats
<1>6. NoRepeats(r)
  <2> SUFFICES ASSUME NEW j \in 1..Len(r), NEW k \in 1..Len(r), r[j] = r[k] PROVE j = k
    BY DEF NoRepeats
  <2>1. j + 1 = k + 1
    BY <1>1 DEF NoRepeats
  <2> QED
    BY <2>1
<1> QED
  BY <1>4, <1>5, <1>6 DEF r

\* The empty queue.
LEMMA ContainsNothing == NoRepeats(<<>>) /\ \A i : ~Contains(<<>>, i)
  BY DEF NoRepeats, Contains

\* What waits is a request.
LEMMA WaitingIsKnown ==
    ASSUME RequestTypes
    PROVE  \A t \in Threads : \A i : Contains(queue[t], i) => i \in Requests
  BY DEF RequestTypes, Contains

\* Steps that move neither requests nor responses, nor a thread into or out of
\* an answer, nor one with requests out of its stop.
LEMMA AnswerFrame ==
    ASSUME RequestTypes, AnswerInv, UNCHANGED <<queue, hand, sent, answers>>,
           \A t \in Threads : pc'[t] = "answer" <=> pc[t] = "answer",
           \A t \in Threads : pc'[t] = "resume" => pc[t] = "resume" \/ queue[t] = <<>>
    PROVE  RequestTypes' /\ AnswerInv'
<1>1. RequestTypes'
  BY DEF RequestTypes
<1>2. \A t \in Threads : QueueAt(t)'
  BY DEF AnswerInv, QueueAt, Waits
<1>3. \A i \in Requests : Placed(i)' <=> Placed(i)
  BY DEF Placed, Waits
<1> QED
  BY <1>1, <1>2, <1>3 DEF AnswerInv

\* A request that is answered at once.
LEMMA AnswerRespond ==
    ASSUME RequestTypes, AnswerInv, Handling, Respond, UNCHANGED <<pc, queue, hand>>
    PROVE  RequestTypes' /\ AnswerInv'
<1>1. /\ sent \in Nat /\ sent' = sent + 1 /\ sent' \in 0..MaxRequests /\ sent + 1 \in Requests
      /\ sent < sent'
  BY DapAssumption DEF Handling, RequestTypes, Requests
<1>2. answers[sent + 1] = 0
  BY <1>1 DEF AnswerInv
<1>3. /\ answers' \in [Requests -> Nat] /\ answers'[sent + 1] = 1
      /\ \A i \in Requests : i # sent + 1 => answers'[i] = answers[i]
  BY <1>1, <1>2 DEF Respond, RequestTypes
<1>4. RequestTypes'
  BY <1>1, <1>3 DEF RequestTypes
<1>5. \A t \in Threads, i \in Requests : Waits(t, i)' <=> Waits(t, i)
  BY DEF Waits
<1>6. \A i \in Requests : i \in Nat
  BY DEF Requests
<1>7. \A t \in Threads : QueueAt(t)'
  BY <1>1, <1>5, <1>6 DEF AnswerInv, QueueAt
<1>8. ASSUME NEW i \in Requests PROVE IF i <= sent' THEN Placed(i)' ELSE answers'[i] = 0
  <2>1. CASE i <= sent
    <3>1. i # sent + 1 /\ i <= sent'
      BY <1>1, <1>6, <2>1
    <3> QED
      BY <1>3, <1>5, <2>1, <3>1 DEF AnswerInv, Placed
  <2>2. CASE i = sent + 1
    <3>1. ~(i <= sent) /\ i <= sent'
      BY <1>1, <2>2
    <3>2. \A t \in Threads : ~Waits(t, i)
      BY <3>1 DEF AnswerInv, QueueAt
    <3> QED
      BY <1>3, <1>5, <2>2, <3>1, <3>2 DEF Placed
  <2>3. CASE ~(i <= sent) /\ i # sent + 1
    <3>1. ~(i <= sent')
      BY <1>1, <1>6, <2>3
    <3> QED
      BY <1>3, <2>3, <3>1 DEF AnswerInv
  <2> QED
    BY <2>1, <2>2, <2>3
<1> QED
  BY <1>4, <1>7, <1>8 DEF AnswerInv

\* A request that is left to its stopped thread t, which has not been told to
\* go on.
LEMMA AnswerQueued ==
    ASSUME ThreadTypes, RequestTypes, AnswerInv, NEW t \in Threads, pc[t] # "resume",
           Handling, queue' = [queue EXCEPT ![t] = Append(@, sent + 1)],
           UNCHANGED <<pc, hand, answers>>
    PROVE  RequestTypes' /\ AnswerInv'
<1>1. /\ sent \in Nat /\ sent' = sent + 1 /\ sent' \in 0..MaxRequests /\ sent + 1 \in Requests
      /\ ~(sent + 1 <= sent)
  BY DapAssumption DEF Handling, RequestTypes, Requests
<1>2. PICK n \in Requests : n = sent + 1
  BY <1>1
<1>3. /\ answers[n] = 0 /\ \A u \in Threads : ~Waits(u, n)
  BY <1>1, <1>2 DEF AnswerInv, QueueAt
<1>4. /\ queue[t] \in Seq(Requests) /\ Append(queue[t], n) \in Seq(Requests)
      /\ queue' = [queue EXCEPT ![t] = Append(queue[t], n)]
  BY <1>2 DEF RequestTypes
<1>5. RequestTypes'
  BY <1>1, <1>4 DEF RequestTypes
<1>6. queue'[t] = Append(queue[t], n) /\ \A u \in Threads : u # t => queue'[u] = queue[u]
  BY <1>4 DEF RequestTypes
<1>7. \A i : Contains(Append(queue[t], n), i) <=> Contains(queue[t], i) \/ i = n
  BY <1>4, ContainsAppend
<1>8. \A u \in Threads, i \in Requests : Waits(u, i)' <=> Waits(u, i) \/ (u = t /\ i = n)
  BY <1>6, <1>7 DEF Waits
<1>9. \A i \in Requests : i \in Nat
  BY DEF Requests
<1>10. NoRepeats(Append(queue[t], n)) /\ ~Contains(Append(queue[t], n), hand[t])
  BY <1>3, <1>4, <1>7, ContainsAppend DEF AnswerInv, QueueAt, Waits
<1>11. ASSUME NEW u \in Threads PROVE QueueAt(u)'
  <2>1. \A i \in Requests : Waits(u, i)' => i <= sent'
    BY <1>1, <1>2, <1>8, <1>9 DEF AnswerInv, QueueAt
  <2>2. QueueAt(u)
    BY DEF AnswerInv
  <2>3. CASE u = t
    BY <1>6, <1>10, <2>1, <2>2, <2>3 DEF QueueAt
  <2>4. CASE u # t
    BY <1>6, <2>1, <2>2, <2>4 DEF QueueAt
  <2> QED
    BY <2>3, <2>4
<1>12. ASSUME NEW i \in Requests PROVE IF i <= sent' THEN Placed(i)' ELSE answers'[i] = 0
  <2>1. CASE i <= sent
    <3>1. i # n /\ i <= sent'
      BY <1>1, <1>2, <1>9, <2>1
    <3>2. \A u \in Threads : Waits(u, i)' <=> Waits(u, i)
      BY <1>8, <3>1
    <3> QED
      BY <2>1, <3>1, <3>2 DEF AnswerInv, Placed
  <2>2. CASE i = n
    <3>1. i <= sent'
      BY <1>1, <1>2, <2>2
    <3>2. \A u \in Threads : Waits(u, i)' <=> u = t
      BY <1>3, <1>8, <2>2
    <3> QED
      BY <1>3, <2>2, <3>1, <3>2 DEF Placed
  <2>3. CASE ~(i <= sent) /\ i # n
    <3>1. ~(i <= sent')
      BY <1>1, <1>2, <1>9, <2>3
    <3> QED
      BY <2>3, <3>1 DEF AnswerInv
  <2> QED
    BY <2>1, <2>2, <2>3
<1> QED
  BY <1>5, <1>11, <1>12 DEF AnswerInv

\* A stopped thread takes the next of its requests: it waits where it was.
LEMMA AnswerTake ==
    ASSUME ThreadTypes, RequestTypes, AnswerInv, NEW t \in Threads, TakeRequest(t)
    PROVE  RequestTypes' /\ AnswerInv'
<1>1. /\ pc[t] = "stopped" /\ queue[t] # <<>> /\ pc' = [pc EXCEPT ![t] = "answer"]
      /\ hand' = [hand EXCEPT ![t] = Head(queue[t])]
      /\ queue' = [queue EXCEPT ![t] = Tail(queue[t])]
      /\ UNCHANGED <<sent, answers>>
  BY DEF TakeRequest, Goto, hist
<1>2. QueueAt(t) /\ hand[t] = 0 /\ queue[t] \in Seq(Requests)
  BY <1>1 DEF AnswerInv, QueueAt, RequestTypes
<1>3. /\ Head(queue[t]) \in Requests /\ Tail(queue[t]) \in Seq(Requests)
  BY <1>1, <1>2
<1>4. /\ \A i : Contains(queue[t], i) <=> Contains(Tail(queue[t]), i) \/ i = Head(queue[t])
      /\ ~Contains(Tail(queue[t]), Head(queue[t])) /\ NoRepeats(Tail(queue[t]))
  BY <1>1, <1>2, ContainsTail DEF QueueAt
<1>5. \A i \in Requests : i \in Nat /\ i # 0
  BY DEF Requests
<1>6. RequestTypes'
  BY <1>1, <1>3, <1>5 DEF RequestTypes
<1>7. /\ \A u \in Threads : u # t => /\ queue'[u] = queue[u] /\ hand'[u] = hand[u]
                                     /\ pc'[u] = pc[u]
      /\ queue'[t] = Tail(queue[t]) /\ hand'[t] = Head(queue[t]) /\ pc'[t] = "answer"
  BY <1>1 DEF RequestTypes, ThreadTypes
<1>8. ASSUME NEW u \in Threads, NEW i \in Requests PROVE Waits(u, i)' <=> Waits(u, i)
  <2>1. CASE u = t
    BY <1>2, <1>4, <1>5, <1>7, <2>1 DEF Waits
  <2>2. CASE u # t
    BY <1>7, <2>2 DEF Waits
  <2> QED
    BY <2>1, <2>2
<1>9. ASSUME NEW u \in Threads PROVE QueueAt(u)'
  <2>1. QueueAt(u) /\ \A i \in Requests : Waits(u, i)' => i <= sent'
    BY <1>1, <1>8 DEF AnswerInv, QueueAt
  <2>2. CASE u = t
    BY <1>3, <1>4, <1>5, <1>7, <2>1, <2>2 DEF QueueAt
  <2>3. CASE u # t
    BY <1>7, <2>1, <2>3 DEF QueueAt
  <2> QED
    BY <2>2, <2>3
<1>10. \A i \in Requests : Placed(i)' <=> Placed(i)
  BY <1>1, <1>8 DEF Placed
<1> QED
  BY <1>1, <1>6, <1>9, <1>10 DEF AnswerInv

\* ... and answers it.
LEMMA AnswerGiven ==
    ASSUME ThreadTypes, RequestTypes, AnswerInv, NEW t \in Threads, AnswerStopped(t)
    PROVE  RequestTypes' /\ AnswerInv'
<1>1. /\ pc[t] = "answer" /\ pc' = [pc EXCEPT ![t] = "stopped"]
      /\ answers' = [answers EXCEPT ![hand[t]] = @ + 1]
      /\ hand' = [hand EXCEPT ![t] = 0]
      /\ UNCHANGED <<queue, sent>>
  BY DEF AnswerStopped, Goto
<1>2. QueueAt(t) /\ hand[t] # 0 /\ ~Contains(queue[t], hand[t])
  BY <1>1 DEF AnswerInv, QueueAt
<1>3. hand[t] \in Requests
  BY <1>2 DEF RequestTypes
<1>4. PICK n \in Requests : n = hand[t]
  BY <1>3
<1>5. Waits(t, n) /\ n <= sent
  BY <1>2, <1>4 DEF Waits, QueueAt
<1>6. answers[n] = 0 /\ \A u \in Threads : Waits(u, n) => u = t
  BY <1>5 DEF AnswerInv, Placed
<1>7. answers'[n] = 1 /\ \A i \in Requests : i # n => answers'[i] = answers[i]
  BY <1>1, <1>4, <1>6 DEF RequestTypes
<1>8. RequestTypes'
  BY <1>1, <1>4 DEF RequestTypes
<1>9. /\ \A u \in Threads : u # t => hand'[u] = hand[u] /\ pc'[u] = pc[u]
      /\ hand'[t] = 0 /\ pc'[t] = "stopped"
  BY <1>1 DEF RequestTypes, ThreadTypes
<1>10. \A i \in Requests : i # 0
  BY DEF Requests
<1>11. ASSUME NEW u \in Threads, NEW i \in Requests
       PROVE  Waits(u, i)' <=> Waits(u, i) /\ i # n
  <2>1. CASE u = t
    BY <1>1, <1>2, <1>4, <1>9, <1>10, <2>1 DEF Waits
  <2>2. CASE u # t
    BY <1>1, <1>6, <1>9, <2>2 DEF Waits
  <2> QED
    BY <2>1, <2>2
<1>12. ~Contains(queue[t], 0)
  BY <1>10, WaitingIsKnown
<1>13. ASSUME NEW u \in Threads PROVE QueueAt(u)'
  <2>1. QueueAt(u) /\ \A i \in Requests : Waits(u, i)' => i <= sent'
    BY <1>1, <1>11 DEF AnswerInv, QueueAt
  <2>2. CASE u = t
    BY <1>1, <1>9, <1>12, <2>1, <2>2 DEF QueueAt
  <2>3. CASE u # t
    BY <1>1, <1>9, <2>1, <2>3 DEF QueueAt
  <2> QED
    BY <2>2, <2>3
<1>14. ASSUME NEW i \in Requests PROVE IF i <= sent' THEN Placed(i)' ELSE answers'[i] = 0
  <2>1. CASE i = n
    BY <1>1, <1>5, <1>7, <1>11, <2>1 DEF Placed
  <2>2. CASE i # n
    <3>1. \A u \in Threads : Waits(u, i)' <=> Waits(u, i)
      BY <1>11, <2>2
    <3> QED
      BY <1>1, <1>7, <2>2, <3>1 DEF AnswerInv, Placed
  <2> QED
    BY <2>1, <2>2
<1> QED
  BY <1>8, <1>13, <1>14 DEF AnswerInv

\* A thread that goes on finds no request: there is none to refuse.
LEMMA AnswerResume ==
    ASSUME ThreadTypes, RequestTypes, AnswerInv, NEW t \in Threads, Resume(t)
    PROVE  RequestTypes' /\ AnswerInv'
<1>1. /\ pc[t] = "resume" /\ pc' = [pc EXCEPT ![t] = "run"]
      /\ answers' = [i \in Requests |-> answers[i] + (IF Contains(queue[t], i) THEN 1 ELSE 0)]
      /\ queue' = [queue EXCEPT ![t] = <<>>]
      /\ UNCHANGED <<hand, sent>>
  BY DEF Resume, Goto
<1>2. queue[t] = <<>>
  BY <1>1 DEF AnswerInv, QueueAt
<1>3. queue' = queue
  BY <1>1, <1>2 DEF RequestTypes
<1>4. \A i \in Requests : ~Contains(queue[t], i)
  BY <1>2, ContainsNothing
<1>5. \A i \in Requests : answers'[i] = answers[i]
  BY <1>1, <1>4 DEF RequestTypes
<1>6. answers' = answers
  BY <1>1, <1>5 DEF RequestTypes
<1>7. \A u \in Threads : pc'[u] = IF u = t THEN "run" ELSE pc[u]
  BY <1>1 DEF ThreadTypes
<1> QED
  BY <1>1, <1>3, <1>6, <1>7, AnswerFrame

\* Only the main thread starts the program.
LEMMA NotStartedStep ==
    ASSUME ThreadTypes, NotStarted, [Next]_vars
    PROVE  NotStarted'
<1>1. ASSUME UNCHANGED <<runPc, pc>> PROVE NotStarted'
  BY <1>1 DEF NotStarted
<1>2. ASSUME UNCHANGED runPc, NEW t \in Threads, NEW p, pc' = [pc EXCEPT ![t] = p],
             t # Main \/ pc[t] # "none"
      PROVE  NotStarted'
  BY <1>2, DapAssumption DEF NotStarted, ThreadTypes
<1>3. CASE Runner \/ Closing \/ UNCHANGED vars
  BY <1>1, <1>3 DEF Runner, StartRun, ArmEntry, NotRunning, EndSession, Closing, StorePause,
     CloseInput, Kill, NotStarted, vars
<1>4. CASE ProgramEnds
  BY <1>4 DEF ProgramEnds, NotStarted
<1>5. ASSUME NEW t \in Threads, StartThread(t) \/ ExitThread(t) \/ Throw(t) PROVE NotStarted'
  BY <1>2, <1>5 DEF StartThread, ExitThread, Throw, Goto
<1>6. ASSUME NEW t \in Threads, NEW p \in Places, EnterLine(t, p) PROVE NotStarted'
  BY <1>2, <1>6 DEF EnterLine, Goto
<1>7. ASSUME NEW t \in Threads, InHook(t) PROVE NotStarted'
  <2>1. UNCHANGED runPc /\ pc[t] # "none" /\ \E p : pc' = [pc EXCEPT ![t] = p]
    BY <1>7 DEF InHook, Look, LoadGen, FillCache, Hit, Stop, Announce, TakeRequest, AnswerStopped,
       LeaveStop, Resume, Goto
  <2> QED
    BY <1>2, <2>1
<1>8. CASE Client
  <2>1. UNCHANGED <<runPc, pc>>
    BY <1>8 DEF Client, Launch, SetExceptionBreakpoints, ConfigurationDone, Disconnect, HangUp,
       SetBreakpoints, Pause, Inspect, ResumeRequest
  <2> QED
    BY <1>1, <2>1
<1> QED
  BY <1>3, <1>4, <1>5, <1>6, <1>7, <1>8 DEF Next, Program

\* Every step that takes a request from a queue or the protocol thread puts it
\* in one other place, or answers it.
LEMMA AnswerStep ==
    ASSUME ThreadTypes, RequestTypes, NotStarted, StopInv, AnswerInv, [Next]_vars
    PROVE  RequestTypes' /\ AnswerInv'
\* A thread moves on outside its answers, and out of a stop only with no request.
<1>1. ASSUME UNCHANGED <<queue, hand, sent, answers>>, NEW t \in Threads, NEW p,
             pc' = [pc EXCEPT ![t] = p], pc[t] # "answer", p # "answer",
             p = "resume" => queue[t] = <<>>
      PROVE  RequestTypes' /\ AnswerInv'
  <2>1. \A u \in Threads : pc'[u] = IF u = t THEN p ELSE pc[u]
    BY <1>1 DEF ThreadTypes
  <2> QED
    BY <1>1, <2>1, AnswerFrame
<1>2. ASSUME UNCHANGED <<queue, hand, sent, answers, pc>> PROVE RequestTypes' /\ AnswerInv'
  BY <1>2, AnswerFrame
<1>3. CASE Runner \/ Closing \/ UNCHANGED vars
  <2>1. UNCHANGED <<queue, hand, sent, answers>>
    BY <1>3, OutsideFrames
  <2>2. CASE pc' = pc
    BY <1>2, <2>1, <2>2
  <2>3. CASE pc' # pc
    <3>1. ArmEntry
      BY <1>3, <2>3 DEF Runner, StartRun, NotRunning, EndSession, Closing, StorePause,
         CloseInput, Kill, vars
    <3>2. pc' = [pc EXCEPT ![Main] = "run"]
      BY <3>1 DEF ArmEntry, Goto
    <3>3. \A u \in Threads : pc'[u] = IF u = Main THEN "run" ELSE pc[u]
      BY <3>2 DEF ThreadTypes
    <3>4. pc[Main] # "answer"
      BY <3>1 DEF ArmEntry, NotStarted
    <3> QED
      BY <2>1, <3>3, <3>4, AnswerFrame
  <2> QED
    BY <2>2, <2>3
<1>4. CASE Program
  <2>1. UNCHANGED <<queue, hand, sent, answers>>
    BY <1>4, OutsideFrames
  <2>2. \E t \in Threads, p \in {"run", "dead", "flush", "line"} :
          pc[t] \in {"none", "run"} /\ pc' = [pc EXCEPT ![t] = p]
    BY <1>4, DapAssumption DEF Program, ProgramEnds, StartThread, ExitThread, Throw, EnterLine,
       Goto
  <2> QED
    BY <1>1, <2>1, <2>2
<1>5. ASSUME NEW t \in Threads, Look(t) \/ (\E stops \in BOOLEAN : Hit(t, stops))
             \/ LoadGen(t) \/ FillCache(t)
      PROVE  RequestTypes' /\ AnswerInv'
  <2>1. UNCHANGED <<queue, hand, sent, answers>>
    BY <1>5, LookFrames DEF LoadGen, FillCache, hist
  <2>2. \E p \in {"flush", "cache", "run", "fill", "hit"} :
          pc[t] \in {"line", "hit", "cache", "fill"} /\ pc' = [pc EXCEPT ![t] = p]
    BY <1>5 DEF Look, Hit, LoadGen, FillCache, Goto
  <2> QED
    BY <1>1, <2>1, <2>2
<1>6. ASSUME NEW t \in Threads, Stop(t) PROVE RequestTypes' /\ AnswerInv'
  <2>1. /\ UNCHANGED <<queue, hand, sent, answers>> /\ pc[t] = "flush"
        /\ \E p \in {"run", "announce"} : pc' = [pc EXCEPT ![t] = p]
    BY <1>6 DEF Stop, Goto
  <2> QED
    BY <1>1, <2>1
<1>7. ASSUME NEW t \in Threads, Announce(t) \/ LeaveStop(t) PROVE RequestTypes' /\ AnswerInv'
  BY <1>1, <1>7 DEF Announce, LeaveStop, Goto, hist
<1>8. ASSUME NEW t \in Threads, InHook(t) PROVE RequestTypes' /\ AnswerInv'
  BY <1>5, <1>6, <1>7, <1>8, AnswerTake, AnswerGiven, AnswerResume DEF InHook
<1>9. ASSUME NEW t \in Threads, Inspect(t) PROVE RequestTypes' /\ AnswerInv'
  <2>1. Handling /\ UNCHANGED <<pc, hand>>
    BY <1>9 DEF Inspect
  <2>2. CASE t \in registered /\ Stopped(t) /\ ~resumeReady[t]
    <3>1. queue' = [queue EXCEPT ![t] = Append(@, sent + 1)] /\ UNCHANGED answers
      BY <1>9, <2>2 DEF Inspect
    <3>2. pc[t] # "resume"
      BY <2>1, <2>2 DEF Handling, StopInv
    <3> QED
      BY <2>1, <3>1, <3>2, AnswerQueued
  <2>3. CASE ~(t \in registered /\ Stopped(t) /\ ~resumeReady[t])
    BY <1>9, <2>1, <2>3, AnswerRespond DEF Inspect
  <2> QED
    BY <2>2, <2>3
<1>10. CASE \/ \E b \in BOOLEAN : SetExceptionBreakpoints(b)
            \/ \E lines \in SUBSET Places : SetBreakpoints(lines)
            \/ \E t \in Threads : Pause(t)
            \/ \E t \in Threads, how \in Resumes : ResumeRequest(t, how)
  <2>1. Handling /\ Respond /\ UNCHANGED <<pc, queue, hand>>
    BY <1>10 DEF SetExceptionBreakpoints, SetBreakpoints, Pause, ResumeRequest
  <2> QED
    BY <2>1, AnswerRespond
<1>11. CASE ConfigurationDone \/ Disconnect \/ HangUp \/ \E b \in BOOLEAN : Launch(b)
  BY <1>2, <1>11 DEF ConfigurationDone, Disconnect, HangUp, Launch, hist
<1> QED
  BY <1>3, <1>4, <1>8, <1>9, <1>10, <1>11 DEF Next, Client

\* At the start there is no request.
LEMMA AnswerInit == Init => RequestTypes /\ AnswerInv
<1> SUFFICES ASSUME Init PROVE RequestTypes /\ AnswerInv
  OBVIOUS
<1>1. RequestTypes
  BY DapAssumption DEF Init, RequestTypes
<1>2. \A i \in Requests : i # 0 /\ ~(i <= 0)
  BY DEF Requests
<1>3. \A t \in Threads : queue[t] = <<>> /\ hand[t] = 0 /\ pc[t] = "none"
  BY DEF Init
<1>4. \A t \in Threads : QueueAt(t)
  BY <1>2, <1>3, ContainsNothing DEF QueueAt, Waits
<1>5. \A i \in Requests : IF i <= sent THEN Placed(i) ELSE answers[i] = 0
  BY <1>2 DEF Init
<1> QED
  BY <1>1, <1>4, <1>5 DEF AnswerInv

\* Every request of the client is answered once: it has one response, or waits
\* for one at exactly one thread, whether that thread takes it, is resumed or
\* goes on while it comes in; and a thread that goes on leaves none behind.
THEOREM AnsweredOnceTheorem == Spec => []AnsweredOnce
<1>1. ThreadTypes /\ RequestTypes /\ NotStarted /\ StopInv /\ AnswerInv /\ [Next]_vars
        => RequestTypes' /\ AnswerInv'
  BY AnswerStep
<1>2. /\ Init => NotStarted
      /\ ThreadTypes /\ NotStarted /\ [Next]_vars => NotStarted'
  BY NotStartedStep, DapAssumption DEF Init, NotStarted
<1>3. RequestTypes /\ AnswerInv => AnsweredOnce
  <2> SUFFICES ASSUME RequestTypes, AnswerInv PROVE AnsweredOnce
    OBVIOUS
  <2>1. \A t \in Threads : pc[t] = "resume" => queue[t] = <<>>
    BY DEF AnswerInv, QueueAt
  <2>2. ASSUME NEW i \in 1..sent
        PROVE  answers[i] + Cardinality({t \in Threads : hand[t] = i \/ Contains(queue[t], i)}) = 1
    <3> DEFINE W == {t \in Threads : hand[t] = i \/ Contains(queue[t], i)}
    <3>1. i \in Requests /\ i <= sent
      BY DapAssumption DEF RequestTypes, Requests
    <3>2. Placed(i)
      BY <3>1 DEF AnswerInv
    <3>3. CASE answers[i] = 1 /\ \A t \in Threads : ~Waits(t, i)
      <4>1. W = {}
        BY <3>3 DEF Waits
      <4>2. Cardinality(W) = 0
        BY <4>1, FS_EmptySet
      <4> QED
        BY <3>3, <4>2
    <3>4. ASSUME answers[i] = 0, NEW t \in Threads, Waits(t, i),
                 \A u \in Threads : Waits(u, i) => u = t
          PROVE  answers[i] + Cardinality(W) = 1
      <4>1. W = {t}
        BY <3>4 DEF Waits
      <4>2. Cardinality(W) = 1
        BY <4>1, FS_Singleton
      <4> QED
        BY <3>4, <4>2
    <3> QED
      BY <3>2, <3>3, <3>4 DEF Placed
  <2> QED
    BY <2>1, <2>2 DEF AnsweredOnce
<1> QED
  BY <1>1, <1>2, <1>3, AnswerInit, StopInductive, PTL DEF Spec

-----------------------------------------------------------------------------
(* The end of a session after a disconnect. *)

EndTypes ==
    /\ disconnected \in BOOLEAN /\ running \in BOOLEAN
    /\ readerPc \in {"reading", "pausing", "closing", "killing", "ended"}
    /\ runPc \in {"wait", "armed", "program", "returned", "told"}
    /\ exit \in {"none", "status", "killed"}

\* `running', which the protocol thread reads to decide who ends the process,
\* is set as long as the program may run.  The end is left to the main thread
\* only when the program does not run and will not start.
EndInv ==
    /\ running <=> runPc \in {"armed", "program", "returned"}
    /\ disconnected => readerPc \in {"closing", "killing", "ended"}
    /\ disconnected /\ readerPc = "ended" => runPc \in {"wait", "told"}

\* After a disconnect the protocol thread closes its input or kills the process,
\* or the main thread, which then waits for nothing, ends it.
EndIsDue ==
    disconnected /\ Alive =>
        readerPc \in {"closing", "killing"} \/ (readerPc = "ended" /\ runPc \in {"wait", "told"})

\* How many steps of these two threads are left.
StepsToEnd ==
    IF exit # "none" THEN 0
    ELSE IF readerPc = "closing" THEN 3
    ELSE IF readerPc = "killing" THEN 1
    ELSE IF runPc = "wait" THEN 2 ELSE 1

\* No step of the program or the client takes the end further away, and each
\* step of the thread that has to end the session brings it nearer.
NearsEnd ==
    disconnected =>
        /\ StepsToEnd' <= StepsToEnd
        /\ Closing \/ (readerPc = "ended" /\ Runner) => StepsToEnd' < StepsToEnd

\* The threads of the program touch nothing of the session's end; runProgram may
\* return.
LEMMA ProgramAndEnd ==
    ASSUME Program \/ (\E t \in Threads : InHook(t)) \/ UNCHANGED vars
    PROVE  /\ UNCHANGED <<exit, running, disconnected, readerPc>>
           /\ runPc' = runPc \/ (runPc = "program" /\ runPc' = "returned")
<1>1. CASE ProgramEnds
  BY <1>1 DEF ProgramEnds, session
<1>2. ASSUME NEW t \in Threads, StartThread(t) \/ ExitThread(t) \/ Throw(t)
      PROVE  UNCHANGED <<exit, running, disconnected, readerPc, runPc>>
  BY <1>2 DEF StartThread, ExitThread, Throw, session
<1>3. ASSUME NEW t \in Threads, NEW p \in Places, EnterLine(t, p)
      PROVE  UNCHANGED <<exit, running, disconnected, readerPc, runPc>>
  BY <1>3 DEF EnterLine, session
<1>4. ASSUME NEW t \in Threads, InHook(t)
      PROVE  UNCHANGED <<exit, running, disconnected, readerPc, runPc>>
  <2>1. CASE Look(t) \/ LoadGen(t) \/ FillCache(t) \/ \E stops \in BOOLEAN : Hit(t, stops)
    BY <2>1 DEF Look, LoadGen, FillCache, Hit, session
  <2>2. CASE \/ Stop(t) \/ Announce(t) \/ TakeRequest(t) \/ AnswerStopped(t) \/ LeaveStop(t)
             \/ Resume(t)
    BY <2>2 DEF Stop, Announce, TakeRequest, AnswerStopped, LeaveStop, Resume, session
  <2> QED
    BY <1>4, <2>1, <2>2 DEF InHook
<1>5. CASE UNCHANGED vars
  BY <1>5 DEF vars, session
<1> QED
  BY <1>1, <1>2, <1>3, <1>4, <1>5 DEF Program

\* A request is handled while the protocol thread reads; it leaves the main
\* thread alone, and only a disconnect sets the flag.
LEMMA ClientAndEnd ==
    ASSUME Client
    PROVE  /\ UNCHANGED <<exit, running, runPc>>
           /\ readerPc = "reading"
           /\ readerPc' \in {"reading", "pausing", "closing"}
           /\ disconnected' = disconnected \/ (disconnected' = TRUE /\ readerPc' = "closing")
<1>1. ASSUME NEW b \in BOOLEAN, Launch(b) \/ SetExceptionBreakpoints(b)
      PROVE  UNCHANGED <<exit, running, runPc, disconnected, readerPc>> /\ readerPc = "reading"
  BY <1>1 DEF Launch, SetExceptionBreakpoints, Handling, session
<1>2. CASE ConfigurationDone \/ Disconnect \/ HangUp
  BY <1>2 DEF ConfigurationDone, Disconnect, HangUp, session
<1>3. ASSUME NEW lines \in SUBSET Places, SetBreakpoints(lines)
      PROVE  UNCHANGED <<exit, running, runPc, disconnected, readerPc>> /\ readerPc = "reading"
  BY <1>3 DEF SetBreakpoints, Handling, session
<1>4. ASSUME NEW t \in Threads, Inspect(t)
      PROVE  UNCHANGED <<exit, running, runPc, disconnected, readerPc>> /\ readerPc = "reading"
  BY <1>4 DEF Inspect, Handling, session
<1>5. ASSUME NEW t \in Threads, Pause(t)
      PROVE  /\ UNCHANGED <<exit, running, runPc, disconnected>> /\ readerPc = "reading"
             /\ readerPc' \in {"reading", "pausing"}
  BY <1>5 DEF Pause, Handling, session
<1>6. ASSUME NEW t \in Threads, NEW how \in Resumes, ResumeRequest(t, how)
      PROVE  UNCHANGED <<exit, running, runPc, disconnected, readerPc>> /\ readerPc = "reading"
  BY <1>6 DEF ResumeRequest, Handling, session
<1> QED
  BY <1>1, <1>2, <1>3, <1>4, <1>5, <1>6 DEF Client

\* A disconnect seen before the program starts keeps it from starting; one seen
\* later finds `running' set.
LEMMA EndStep ==
    ASSUME EndTypes, EndInv, [Next]_vars
    PROVE  EndTypes' /\ EndInv' /\ NearsEnd
<1>1. CASE Runner
  <2>1. readerPc' = readerPc /\ disconnected' = disconnected /\ Alive
    BY <1>1 DEF Runner, StartRun, ArmEntry, NotRunning, EndSession, session
  <2>2. ~Closing
    <3>1. ~StorePause /\ ~CloseInput
      BY <2>1 DEF StorePause, CloseInput
    <3>2. ~Kill
      BY <1>1 DEF Kill, Runner, StartRun, ArmEntry, NotRunning, EndSession
    <3> QED
      BY <3>1, <3>2 DEF Closing
  <2>3. CASE StartRun
    <3>1. /\ runPc = "wait" /\ exit' = exit /\ running' \in BOOLEAN
          /\ runPc' = IF running' THEN "armed" ELSE "told"
          /\ disconnected => ~running'
      BY <2>3 DEF StartRun, EndTypes
    <3> QED
      BY <2>1, <2>2, <3>1 DEF EndTypes, EndInv, NearsEnd, StepsToEnd, Alive
  <2>4. CASE ArmEntry \/ NotRunning
    <3>1. /\ exit' = exit
          /\ \/ runPc = "armed" /\ runPc' = "program" /\ running' = running
             \/ runPc = "returned" /\ runPc' = "told" /\ running' = FALSE
      BY <2>4 DEF ArmEntry, NotRunning, session
    <3>2. EndTypes' /\ running
      BY <2>1, <3>1 DEF EndTypes, EndInv
    <3>3. ~(disconnected /\ readerPc = "ended")
      BY <3>1 DEF EndInv
    <3>4. EndInv'
      BY <2>1, <3>1, <3>2, <3>3 DEF EndInv
    <3>5. NearsEnd
      BY <2>1, <2>2, <3>1, <3>3 DEF NearsEnd, StepsToEnd, Alive
    <3> QED
      BY <3>2, <3>4, <3>5
  <2>5. CASE EndSession
    <3>1. exit' = "status" /\ runPc' = runPc /\ running' = running
      BY <2>5 DEF EndSession, session
    <3> QED
      BY <2>1, <2>2, <3>1 DEF EndTypes, EndInv, NearsEnd, StepsToEnd, Alive
  <2> QED
    BY <1>1, <2>3, <2>4, <2>5 DEF Runner
<1>2. CASE Closing
  BY <1>2 DEF Closing, StorePause, CloseInput, Kill, Alive, session, EndTypes, EndInv,
     NearsEnd, StepsToEnd
<1>3. CASE Client
  <2>1. ~disconnected
    BY <1>3, ClientAndEnd DEF EndInv
  <2>2. EndTypes'
    BY <1>3, ClientAndEnd DEF EndTypes
  <2>3. /\ exit' = exit /\ running' = running /\ runPc' = runPc
        /\ disconnected' = FALSE \/ readerPc' = "closing"
    BY <1>3, <2>1, ClientAndEnd DEF EndTypes
  <2>4. EndInv'
    <3>1. running' <=> runPc' \in {"armed", "program", "returned"}
      BY <2>3 DEF EndInv
    <3>2. disconnected' => readerPc' = "closing"
      BY <2>3
    <3> QED
      BY <3>1, <3>2 DEF EndInv
  <2> QED
    BY <2>1, <2>2, <2>4 DEF NearsEnd
<1>4. CASE Program \/ (\E t \in Threads : InHook(t)) \/ UNCHANGED vars
  <2>1. EndTypes' /\ EndInv' /\ StepsToEnd' = StepsToEnd
    BY <1>4, ProgramAndEnd DEF EndTypes, EndInv, StepsToEnd
  <2>2. ~(Closing \/ (readerPc = "ended" /\ Runner))
    <3>1. /\ readerPc' = readerPc /\ exit' = exit
          /\ runPc' = runPc \/ (runPc = "program" /\ runPc' = "returned")
      BY <1>4, ProgramAndEnd
    <3>2. ~Closing
      BY <3>1 DEF Closing, StorePause, CloseInput, Kill, Alive
    <3>3. ~StartRun /\ ~ArmEntry /\ ~NotRunning /\ ~EndSession
      BY <3>1 DEF StartRun, ArmEntry, NotRunning, EndSession, Alive
    <3> QED
      BY <3>2, <3>3 DEF Runner
  <2> QED
    BY <2>1, <2>2 DEF NearsEnd, StepsToEnd
<1> QED
  BY <1>1, <1>2, <1>3, <1>4 DEF Next

\* The part of DisconnectEnds that needs no fairness: once the client has sent a
\* disconnect, the adapter has at most three steps of its own left, one of them
\* can be taken, and nothing the program's threads do, stopped, running or
\* blocked, takes that away or adds a step.
THEOREM DisconnectNearsEndTheorem == Spec => []EndIsDue /\ [][NearsEnd]_vars
<1>1. Init => EndTypes /\ EndInv
  BY DEF Init, EndTypes, EndInv
<1>2. EndTypes /\ EndInv /\ [Next]_vars => EndTypes' /\ EndInv' /\ NearsEnd
  BY EndStep
<1>3. EndTypes /\ EndInv => EndIsDue
  BY DEF EndTypes, EndInv, EndIsDue
<1> QED
  BY <1>1, <1>2, <1>3, PTL DEF Spec
=============================================================================
