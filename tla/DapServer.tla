------------------------------ MODULE DapServer ------------------------------
(***************************************************************************)
(* A session of the debug adapter (src/src/dap/DapServer.cpp).             *)
(*                                                                         *)
(* The protocol thread reads the client's requests one after the other;    *)
(* the threads of the program enter lines, stop in the debugger's hook and *)
(* answer the requests that inspect them; the main thread starts the       *)
(* program and ends the session.  A step is one critical section of mu_ or *)
(* one access to an atomic.  A request is its number; what the answers say *)
(* is abstracted away.  Lines are Places, each at a depth of the stack.    *)
(***************************************************************************)
EXTENDS Naturals, Sequences, FiniteSets, SequencesExt

CONSTANTS
    Threads, Main,  \* the threads that run the program's code, main among them
    Places,         \* lines of the program
    DepthOf,        \* DepthOf[p]: how deep the stack is there
    Library,        \* the lines of clojure.core; justMyCode is set
    Resumes,        \* how the client resumes a thread
    MaxRequests,    \* bound: requests besides launch, configurationDone, disconnect
    Hangup          \* the client may close its end without a disconnect

ASSUME DapAssumption ==
    /\ IsFiniteSet(Threads) /\ Main \in Threads
    /\ Library \subseteq Places
    /\ DepthOf \in [Places -> Nat]
    /\ Resumes \subseteq {"continue", "in", "over", "out"}
    /\ MaxRequests \in Nat /\ Hangup \in BOOLEAN

Requests == 1..MaxRequests

VARIABLES
    runPc,          \* DapServer::run
    readerPc,       \* readLoop
    exit,           \* how the process ended: "none", "status" or "killed"
    launched, configDone, running, disconnected,
    stopOnEntry, entryPending,
    breakpoints, bpGen, exFilter,
    pc, at,         \* each thread: where in the hook it is, and on which line
    registered,     \* the threads of threads_
    pauseRequested, stepKind, stepDepth, stepFromLibrary,
    resumeReady, resume,
    queue,          \* ThreadState::requests
    hand,           \* the request answerStopped works on, or 0
    seenGen,        \* `gen' of breakpointLineSet, while it fills the cache, else 0
    cache,          \* tBreakpointLines
    sent,           \* requests handled so far
    \* History, read by no action:
    answers,        \* answers[i]: responses to request i
    told,           \* how a request first resumed the thread since it last stopped, or "none"
    asked,          \* the threads a pause has named
    pauseOwed       \* a pause promised to stop main on its first line

session == <<launched, configDone, running, disconnected, stopOnEntry>>
bps == <<breakpoints, bpGen, exFilter>>
steps == <<stepKind, stepDepth, stepFromLibrary>>
cached == <<seenGen, cache>>
hist == <<answers, told, asked, pauseOwed>>
vars == <<runPc, readerPc, exit, session, entryPending, bps, pc, at, registered,
          pauseRequested, steps, resumeReady, resume, queue, hand, cached, sent, hist>>

Init ==
    /\ runPc = "wait" /\ readerPc = "reading" /\ exit = "none"
    /\ launched = FALSE /\ configDone = FALSE /\ running = FALSE /\ disconnected = FALSE
    /\ stopOnEntry = FALSE /\ entryPending = FALSE
    /\ breakpoints = {} /\ bpGen = 1 /\ exFilter = FALSE
    /\ pc = [t \in Threads |-> "none"]
    /\ at = [t \in Threads |-> CHOOSE p \in Places : TRUE]
    /\ registered = {}
    /\ pauseRequested = [t \in Threads |-> FALSE]
    /\ stepKind = [t \in Threads |-> "none"]
    /\ stepDepth = [t \in Threads |-> 0]
    /\ stepFromLibrary = [t \in Threads |-> FALSE]
    /\ resumeReady = [t \in Threads |-> FALSE]
    /\ resume = [t \in Threads |-> "continue"]
    /\ queue = [t \in Threads |-> <<>>]
    /\ hand = [t \in Threads |-> 0]
    /\ seenGen = [t \in Threads |-> 0]
    /\ cache = [t \in Threads |-> [gen |-> 0, lines |-> {}]]
    /\ sent = 0
    /\ answers = [i \in Requests |-> 0]
    /\ told = [t \in Threads |-> "none"]
    /\ asked = {} /\ pauseOwed = FALSE

\* The process has not ended.
Alive == exit = "none"

Goto(t, label) == pc' = [pc EXCEPT ![t] = label]

-----------------------------------------------------------------------------
(* run: the main thread of the adapter.                                    *)

ReaderDone == readerPc \in {"killing", "ended"}

\* The wait for a launch that is configured; a session that ended before does
\* not start the program.
StartRun ==
    /\ Alive /\ runPc = "wait"
    /\ (launched /\ configDone) \/ ReaderDone \/ disconnected
    /\ LET start == launched /\ configDone /\ ~disconnected IN
         running' = start /\ runPc' = IF start THEN "armed" ELSE "told"
    /\ UNCHANGED <<readerPc, exit, launched, configDone, disconnected, stopOnEntry,
                   entryPending, bps, pc, at, registered, pauseRequested, steps,
                   resumeReady, resume, queue, hand, cached, sent, hist>>

ArmEntry ==
    /\ Alive /\ runPc = "armed"
    /\ entryPending' = stopOnEntry
    /\ runPc' = "program"
    /\ Goto(Main, "run")
    /\ UNCHANGED <<readerPc, exit, session, bps, at, registered, pauseRequested,
                   steps, resumeReady, resume, queue, hand, cached, sent, hist>>

\* runProgram returns: its threads have ended.
ProgramEnds ==
    /\ Alive /\ runPc = "program" /\ pc[Main] = "run"
    /\ \A t \in Threads \ {Main} : pc[t] \in {"none", "dead"}
    /\ Goto(Main, "dead")
    /\ registered' = registered \ {Main}
    /\ runPc' = "returned"
    /\ UNCHANGED <<readerPc, exit, session, entryPending, bps, at, pauseRequested,
                   steps, resumeReady, resume, queue, hand, cached, sent, hist>>

NotRunning ==
    /\ Alive /\ runPc = "returned"
    /\ running' = FALSE /\ runPc' = "told"
    /\ UNCHANGED <<readerPc, exit, launched, configDone, disconnected, stopOnEntry,
                   entryPending, bps, pc, at, registered, pauseRequested, steps,
                   resumeReady, resume, queue, hand, cached, sent, hist>>

\* The reader is done, or the ten seconds are over.
EndSession ==
    /\ Alive /\ runPc = "told"
    /\ exit' = "status"
    /\ UNCHANGED <<runPc, readerPc, session, entryPending, bps, pc, at, registered,
                   pauseRequested, steps, resumeReady, resume, queue, hand, cached, sent, hist>>

-----------------------------------------------------------------------------
(* The program's threads in the hook.                                      *)

\* A future, an actor worker or a connection runs lines of the program...
StartThread(t) ==
    /\ Alive /\ runPc = "program" /\ t # Main /\ pc[t] = "none"
    /\ Main \in registered
    /\ Goto(t, "run")
    /\ UNCHANGED <<runPc, readerPc, exit, session, entryPending, bps, at, registered,
                   pauseRequested, steps, resumeReady, resume, queue, hand, cached, sent, hist>>

\* ...and ends: threadExited.
ExitThread(t) ==
    /\ Alive /\ t # Main /\ pc[t] = "run" /\ t \in registered
    /\ Goto(t, "dead")
    /\ registered' = registered \ {t}
    /\ UNCHANGED <<runPc, readerPc, exit, session, entryPending, bps, at,
                   pauseRequested, steps, resumeReady, resume, queue, hand, cached, sent, hist>>

\* LINE calls onLine; the first line of a thread registers it.
EnterLine(t, p) ==
    /\ Alive /\ pc[t] = "run"
    /\ Goto(t, "line")
    /\ at' = [at EXCEPT ![t] = p]
    /\ registered' = registered \cup {t}
    /\ UNCHANGED <<runPc, readerPc, exit, session, entryPending, bps,
                   pauseRequested, steps, resumeReady, resume, queue, hand, cached, sent, hist>>

StepStops(t) ==
    /\ at[t] \in Library => stepFromLibrary[t]
    /\ \/ stepKind[t] = "in"
       \/ stepKind[t] = "over" /\ DepthOf[at[t]] <= stepDepth[t]
       \/ stepKind[t] = "out" /\ DepthOf[at[t]] < stepDepth[t]

\* onLine: the entry stop, a pause, a step, or else the breakpoints.
Look(t) ==
    /\ Alive /\ pc[t] = "line"
    /\ LET entry == t = Main /\ entryPending /\ at[t] \notin Library
           pause == ~entry /\ pauseRequested[t] /\ at[t] \notin Library
       IN /\ entryPending' = (entryPending /\ ~entry)
          /\ pauseOwed' = (pauseOwed /\ ~entry)
          /\ pauseRequested' = [pauseRequested EXCEPT ![t] = @ /\ ~pause]
          /\ Goto(t, IF entry \/ pause \/ StepStops(t) THEN "flush"
                     ELSE IF breakpoints # {} THEN "cache" ELSE "run")
    /\ UNCHANGED <<runPc, readerPc, exit, session, bps, at, registered, steps, resumeReady,
                   resume, queue, hand, cached, sent, answers, told, asked>>

\* breakpointLineSet: the generation is read without the lock...
LoadGen(t) ==
    /\ Alive /\ pc[t] = "cache"
    /\ seenGen' = [seenGen EXCEPT ![t] = IF cache[t].gen # bpGen THEN bpGen ELSE 0]
    /\ Goto(t, IF cache[t].gen # bpGen THEN "fill"
               ELSE IF at[t] \in cache[t].lines THEN "hit" ELSE "run")
    /\ UNCHANGED <<runPc, readerPc, exit, session, entryPending, bps, at, registered,
                   pauseRequested, steps, resumeReady, resume, queue, hand, cache, sent, hist>>

\* ...and the lines under it, to count for the generation read before.
FillCache(t) ==
    /\ Alive /\ pc[t] = "fill"
    /\ cache' = [cache EXCEPT ![t] = [gen |-> seenGen[t], lines |-> breakpoints]]
    /\ seenGen' = [seenGen EXCEPT ![t] = 0]
    /\ Goto(t, IF at[t] \in breakpoints THEN "hit" ELSE "run")
    /\ UNCHANGED <<runPc, readerPc, exit, session, entryPending, bps, at, registered,
                   pauseRequested, steps, resumeReady, resume, queue, hand, sent, hist>>

\* breakpointAt and breakpointHit: the breakpoint may have gone; its condition,
\* hit count or log message decides whether it stops.
Hit(t, stops) ==
    /\ Alive /\ pc[t] = "hit"
    /\ Goto(t, IF at[t] \in breakpoints /\ stops THEN "flush" ELSE "run")
    /\ UNCHANGED <<runPc, readerPc, exit, session, entryPending, bps, at, registered,
                   pauseRequested, steps, resumeReady, resume, queue, hand, cached, sent, hist>>

\* onThrow, when a filter is set and its condition passes.
Throw(t) ==
    /\ Alive /\ pc[t] = "run" /\ t \in registered /\ exFilter
    /\ at[t] \notin Library
    /\ Goto(t, "flush")
    /\ UNCHANGED <<runPc, readerPc, exit, session, entryPending, bps, at, registered,
                   pauseRequested, steps, resumeReady, resume, queue, hand, cached, sent, hist>>

\* The resume of the last stop is not cleared.
Mutant_StopStale(t) ==
    /\ Alive /\ pc[t] = "flush"
    /\ Goto(t, IF disconnected THEN "run" ELSE "announce")
    /\ stepKind' = [stepKind EXCEPT ![t] = IF disconnected THEN @ ELSE "none"]
    /\ told' = [told EXCEPT ![t] = IF disconnected THEN @ ELSE "none"]
    /\ UNCHANGED <<runPc, readerPc, exit, session, entryPending, bps, at, registered,
                   pauseRequested, stepDepth, stepFromLibrary, resumeReady, resume, queue,
                   hand, cached, sent, answers, asked, pauseOwed>>

\* stop, once what the program printed has been forwarded: from here on a resume
\* of this thread is taken...
Stop(t) ==
    /\ Alive /\ pc[t] = "flush"
    /\ IF disconnected
         THEN Goto(t, "run") /\ UNCHANGED <<resumeReady, stepKind, told>>
         ELSE /\ Goto(t, "announce")
              /\ resumeReady' = [resumeReady EXCEPT ![t] = FALSE]
              /\ stepKind' = [stepKind EXCEPT ![t] = "none"]
              /\ told' = [told EXCEPT ![t] = "none"]
    /\ UNCHANGED <<runPc, readerPc, exit, session, entryPending, bps, at, registered,
                   pauseRequested, stepDepth, stepFromLibrary, resume, queue, hand, cached,
                   sent, answers, asked, pauseOwed>>

\* ...and only then is the `stopped' event sent.
Announce(t) ==
    /\ Alive /\ pc[t] = "announce"
    /\ Goto(t, "stopped")
    /\ UNCHANGED <<runPc, readerPc, exit, session, entryPending, bps, at, registered,
                   pauseRequested, steps, resumeReady, resume, queue, hand, cached, sent, hist>>

TakeRequest(t) ==
    /\ Alive /\ pc[t] = "stopped" /\ queue[t] # <<>>
    /\ hand' = [hand EXCEPT ![t] = Head(queue[t])]
    /\ queue' = [queue EXCEPT ![t] = Tail(@)]
    /\ Goto(t, "answer")
    /\ UNCHANGED <<runPc, readerPc, exit, session, entryPending, bps, at, registered,
                   pauseRequested, steps, resumeReady, resume, cached, sent, hist>>

AnswerStopped(t) ==
    /\ Alive /\ pc[t] = "answer"
    /\ answers' = [answers EXCEPT ![hand[t]] = @ + 1]
    /\ hand' = [hand EXCEPT ![t] = 0]
    /\ Goto(t, "stopped")
    /\ UNCHANGED <<runPc, readerPc, exit, session, entryPending, bps, at, registered,
                   pauseRequested, steps, resumeReady, resume, queue, cached, sent, told,
                   asked, pauseOwed>>

\* A thread that is to resume leaves without a look at its requests.
Mutant_LeaveAtOnce(t) ==
    /\ Alive /\ pc[t] = "stopped"
    /\ resumeReady[t] \/ disconnected
    /\ Goto(t, "resume")
    /\ UNCHANGED <<runPc, readerPc, exit, session, entryPending, bps, at, registered,
                   pauseRequested, steps, resumeReady, resume, queue, hand, cached, sent, hist>>

LeaveStop(t) ==
    /\ Alive /\ pc[t] = "stopped" /\ queue[t] = <<>>
    /\ resumeReady[t] \/ disconnected
    /\ Goto(t, "resume")
    /\ UNCHANGED <<runPc, readerPc, exit, session, entryPending, bps, at, registered,
                   pauseRequested, steps, resumeReady, resume, queue, hand, cached, sent, hist>>

\* The thread goes on; requests that came late get an error response.
Resume(t) ==
    /\ Alive /\ pc[t] = "resume"
    /\ Goto(t, "run")
    /\ answers' = [i \in Requests |-> answers[i] + (IF Contains(queue[t], i) THEN 1 ELSE 0)]
    /\ queue' = [queue EXCEPT ![t] = <<>>]
    /\ stepKind' = [stepKind EXCEPT ![t] =
                      IF disconnected \/ resume[t] = "continue" THEN "none" ELSE resume[t]]
    /\ stepDepth' = [stepDepth EXCEPT ![t] = DepthOf[at[t]]]
    /\ stepFromLibrary' = [stepFromLibrary EXCEPT ![t] = at[t] \in Library]
    /\ UNCHANGED <<runPc, readerPc, exit, session, entryPending, bps, at, registered,
                   pauseRequested, resumeReady, resume, hand, cached, sent, told, asked,
                   pauseOwed>>

-----------------------------------------------------------------------------
(* readLoop and handle: the protocol thread.                               *)

\* ThreadState::stopped
Stopped(t) == pc[t] \in {"announce", "stopped", "answer", "resume"}

\* launch and configurationDone come once; the requests that change and await
\* nothing (initialize, source, threads, exceptionInfo, ...) are left out.
Handling == readerPc = "reading" /\ sent < MaxRequests /\ sent' = sent + 1
Respond == answers' = [answers EXCEPT ![sent + 1] = @ + 1]

Launch(entry) ==
    /\ Alive /\ readerPc = "reading" /\ ~launched
    /\ launched' = TRUE /\ stopOnEntry' = entry
    /\ UNCHANGED <<runPc, readerPc, exit, configDone, running, disconnected, entryPending,
                   bps, pc, at, registered, pauseRequested, steps, resumeReady, resume,
                   queue, hand, cached, sent, hist>>

ConfigurationDone ==
    /\ Alive /\ readerPc = "reading" /\ ~configDone
    /\ configDone' = TRUE
    /\ UNCHANGED <<runPc, readerPc, exit, launched, running, disconnected, stopOnEntry,
                   entryPending, bps, pc, at, registered, pauseRequested, steps,
                   resumeReady, resume, queue, hand, cached, sent, hist>>

\* Clearing the last breakpoint of a source does not bump the generation.
Mutant_ClearSilently(lines) ==
    /\ Alive /\ Handling /\ Respond
    /\ breakpoints' = lines
    /\ bpGen' = IF lines = {} THEN bpGen ELSE bpGen + 1
    /\ UNCHANGED <<runPc, readerPc, exit, session, entryPending, exFilter, pc, at,
                   registered, pauseRequested, steps, resumeReady, resume, queue, hand,
                   cached, told, asked, pauseOwed>>

\* The generation is bumped together with the change of the map.
SetBreakpoints(lines) ==
    /\ Alive /\ Handling /\ Respond
    /\ breakpoints' = lines
    /\ bpGen' = bpGen + 1
    /\ UNCHANGED <<runPc, readerPc, exit, session, entryPending, exFilter, pc, at,
                   registered, pauseRequested, steps, resumeReady, resume, queue, hand,
                   cached, told, asked, pauseOwed>>

SetExceptionBreakpoints(on) ==
    /\ Alive /\ Handling /\ Respond
    /\ exFilter' = on
    /\ UNCHANGED <<runPc, readerPc, exit, session, entryPending, breakpoints, bpGen, pc, at,
                   registered, pauseRequested, steps, resumeReady, resume, queue,
                   hand, cached, told, asked, pauseOwed>>

\* continue, next, stepIn and stepOut
ResumeRequest(t, how) ==
    /\ Alive /\ Handling /\ Respond
    /\ IF t \in registered /\ Stopped(t) /\ ~resumeReady[t]
         THEN /\ resume' = [resume EXCEPT ![t] = how]
              /\ resumeReady' = [resumeReady EXCEPT ![t] = TRUE]
         ELSE UNCHANGED <<resume, resumeReady>>
    /\ told' = [told EXCEPT ![t] =
                  IF t \in registered /\ Stopped(t) /\ @ = "none" THEN how ELSE @]
    /\ UNCHANGED <<runPc, readerPc, exit, session, entryPending, bps, pc, at,
                   registered, pauseRequested, steps, queue, hand, cached, asked, pauseOwed>>

\* A thread that is not there stands for all; when there is none, main is to
\* stop on its first line.
Pause(t) ==
    /\ Alive /\ Handling /\ Respond
    /\ t = Main \/ t \in registered \/ pc[t] = "dead"    \* the client knows of it
    /\ asked' = asked \cup {t}
    /\ pauseRequested' = [u \in Threads |->
            pauseRequested[u] \/ IF t \in registered THEN u = t ELSE u \in registered]
    /\ readerPc' = IF registered = {} THEN "pausing" ELSE "reading"
    /\ UNCHANGED <<runPc, exit, session, entryPending, bps, pc, at, registered, steps,
                   resumeReady, resume, queue, hand, cached, told, pauseOwed>>

StorePause ==
    /\ Alive /\ readerPc = "pausing"
    /\ entryPending' = TRUE /\ pauseOwed' = TRUE
    /\ readerPc' = "reading"
    /\ UNCHANGED <<runPc, exit, session, bps, pc, at, registered, pauseRequested, steps,
                   resumeReady, resume, queue, hand, cached, sent, answers, told, asked>>

\* stackTrace, scopes, variables, evaluate: queueFor a stopped thread, which
\* answers; otherwise an empty answer or an error at once.
Inspect(t) ==
    /\ Alive /\ Handling
    /\ IF t \in registered /\ Stopped(t) /\ ~resumeReady[t]
         THEN queue' = [queue EXCEPT ![t] = Append(@, sent + 1)] /\ UNCHANGED answers
         ELSE Respond /\ UNCHANGED queue
    /\ UNCHANGED <<runPc, readerPc, exit, session, entryPending, bps, pc, at,
                   registered, pauseRequested, steps, resumeReady, resume, hand, cached,
                   told, asked, pauseOwed>>

Disconnect ==
    /\ Alive /\ readerPc = "reading"
    /\ disconnected' = TRUE /\ readerPc' = "closing"
    /\ UNCHANGED <<runPc, exit, launched, configDone, running, stopOnEntry, entryPending,
                   bps, pc, at, registered, pauseRequested, steps, resumeReady,
                   resume, queue, hand, cached, sent, hist>>

\* The client's end of the pipe closes, or a message cannot be read.
HangUp ==
    /\ Alive /\ Hangup /\ readerPc = "reading"
    /\ readerPc' = "closing"
    /\ UNCHANGED <<runPc, exit, session, entryPending, bps, pc, at, registered,
                   pauseRequested, steps, resumeReady, resume, queue, hand, cached, sent, hist>>

\* The protocol thread leaves the end of the process to the main thread.
Mutant_NoKill ==
    /\ Alive /\ readerPc = "closing"
    /\ readerPc' = "ended"
    /\ UNCHANGED <<runPc, exit, session, entryPending, bps, pc, at, registered,
                   pauseRequested, steps, resumeReady, resume, queue, hand, cached, sent, hist>>

CloseInput ==
    /\ Alive /\ readerPc = "closing"
    /\ readerPc' = IF running THEN "killing" ELSE "ended"
    /\ UNCHANGED <<runPc, exit, session, entryPending, bps, pc, at, registered,
                   pauseRequested, steps, resumeReady, resume, queue, hand, cached, sent, hist>>

\* _Exit(0)
Kill ==
    /\ Alive /\ readerPc = "killing"
    /\ exit' = "killed"
    /\ UNCHANGED <<runPc, readerPc, session, entryPending, bps, pc, at, registered,
                   pauseRequested, steps, resumeReady, resume, queue, hand, cached, sent, hist>>

-----------------------------------------------------------------------------

Runner == StartRun \/ ArmEntry \/ NotRunning \/ EndSession
Closing == StorePause \/ CloseInput \/ Kill

\* What a thread does by itself once it is in the hook.
InHook(t) ==
    \/ Look(t) \/ LoadGen(t) \/ FillCache(t)
    \/ \E stops \in BOOLEAN : Hit(t, stops)
    \/ Stop(t) \/ Announce(t) \/ TakeRequest(t) \/ AnswerStopped(t) \/ LeaveStop(t) \/ Resume(t)

Client ==
    \/ \E b \in BOOLEAN : Launch(b) \/ SetExceptionBreakpoints(b)
    \/ ConfigurationDone \/ Disconnect \/ HangUp
    \/ \E lines \in SUBSET Places : SetBreakpoints(lines)
    \/ \E t \in Threads : Pause(t) \/ Inspect(t)
    \/ \E t \in Threads, how \in Resumes : ResumeRequest(t, how)

Program ==
    \/ ProgramEnds
    \/ \E t \in Threads : StartThread(t) \/ ExitThread(t) \/ Throw(t)
    \/ \E t \in Threads, p \in Places : EnterLine(t, p)

Next ==
    \/ Runner \/ Closing \/ Client \/ Program
    \/ \E t \in Threads : InHook(t)
    \/ ~Alive /\ UNCHANGED vars

Spec == Init /\ [][Next]_vars

\* The adapter's own threads run; neither the client nor the program need do
\* anything more.
FairSpec ==
    /\ Spec
    /\ WF_vars(Runner)
    /\ WF_vars(Closing)
    /\ \A t \in Threads : WF_vars(InHook(t))

-----------------------------------------------------------------------------

\* Every request has one response, or waits for one at one thread: none is
\* answered twice or forgotten when a thread resumes while requests come in.
\* One that found its thread stopped is answered in that stop: when the thread
\* goes on none is left, so no frame of an ended stop is read.
AnsweredOnce ==
    /\ \A i \in 1..sent :
         answers[i] + Cardinality({t \in Threads : hand[t] = i \/ Contains(queue[t], i)}) = 1
    /\ \A t \in Threads : pc[t] = "resume" => queue[t] = <<>>

\* A thread leaves a stop only when a resume request was read during this stop,
\* or the client has gone, and it goes on the way the first such request asked:
\* a resume taken in an earlier stop does not count, nor does one that comes after
\* the first.  The client need not have the `stopped' event yet, which is sent
\* after the lock is released: a second `continue' it sent for the last stop may
\* be read then, and counts for this one.
StopsUntilResumed ==
    \A t \in Threads :
        pc[t] = "resume" => disconnected \/ (told[t] # "none" /\ resume[t] = told[t])

\* A cache as of the current generation holds the current breakpoints: a thread
\* that enters a line once setBreakpoints has been answered never misses one.
CacheFresh ==
    \A t \in Threads : cache[t].gen = bpGen => cache[t].lines = breakpoints

\* A disconnect ends the process, whatever the program and its threads do.
DisconnectEnds == disconnected ~> exit # "none"

-----------------------------------------------------------------------------
(* What comments and docs say and the code does not do.                    *)

\* "Ending the session (Stop, or the client going away) ends the script": no
\* thread waits for a client whose requests nobody reads any more.
NobodyWaitsForGoneClient ==
    readerPc = "ended" /\ exit = "none" => \A t \in Threads : pc[t] # "stopped"

\* "nothing ran yet: stop main on its first line": the pause stays pending
\* until main has stopped for it.
PauseIsKept == pauseOwed => entryPending

\* "Pause act[s] on the thread the request names".
PauseActsOnNamed == \A t \in Threads : pauseRequested[t] => t \in asked

=============================================================================
