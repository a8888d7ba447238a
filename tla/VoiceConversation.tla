-------------------------- MODULE VoiceConversation -------------------------
(***************************************************************************)
(* Voice connections (controller/voice/realtime.go) and the process that   *)
(* stops under them (main.go).  Each connection has a handler goroutine    *)
(* that reads frames, a goroutine that watches its context, and per        *)
(* committed turn a worker (processTurn) with, for a profile that speaks,  *)
(* a synthesis goroutine fed through a bounded channel.                    *)
(*                                                                         *)
(* A turn is numbered by its place in turns[c], which stands for its       *)
(* pointer; its id is the client's and may repeat.  Audio is counted in    *)
(* frames, the queue in sentences.  The timeout of a turn is modelled as a *)
(* cancellation of the turn: both end the same contexts while a worker     *)
(* runs, and no other code looks at the turn afterwards.                   *)
(***************************************************************************)
EXTENDS VoiceHub, Sequences

CONSTANTS
  TurnIds,       \* ids a client gives its turns
  MaxFrames,     \* MaxTurnAudioBytes, in frames
  QueueSize,     \* capacity of the synthesis queue
  MaxTurns,      \* bound: turns a connection may start
  MaxSentences   \* bound: sentences of the first, second, ... answer

ASSUME VoiceAssumption ==
  /\ MaxTurns \in [Conns -> Nat]
  /\ {MaxFrames, QueueSize} \subseteq Nat \ {0}
  /\ MaxSentences \in Seq(Nat) /\ \A c \in Conns : MaxTurns[c] <= Len(MaxSentences)

VARIABLES
  handler,   \* where Serve is, per connection
  socket,    \* "none", "open" or "closed"
  done,      \* the connection context is cancelled
  writeErr,  \* socketSink.writeErr is set
  active,    \* connectionState.active: a turn number, 0 for nil
  turns,     \* the turns of a connection
  server,    \* where main is
  toCancel,  \* cancel functions BeginDrain has still to call
  waitOn     \* the channel Hub.Wait reads from

netVars == <<socket, done, writeErr>>
turnVars == <<active, turns>>
mainVars == <<server, toCancel, waitOn>>
vars == <<hubVars, handler, netVars, turnVars, mainVars>>

NoTurn == 0

NewTurn(id, tts, sentences) ==
  [id |-> id, tts |-> tts, frames |-> 0, cancelled |-> FALSE,
   processing |-> FALSE, pc |-> "none", left |-> sentences, queue |-> 0,
   voice |-> "none", ok |-> TRUE, said |-> "nothing"]

\* A turn whose worker has returned.
Over == [pc |-> "done"]

Init ==
  /\ HubInit
  /\ handler = [c \in Conns |-> "idle"]
  /\ socket = [c \in Conns |-> "none"]
  /\ done = [c \in Conns |-> FALSE]
  /\ writeErr = [c \in Conns |-> FALSE]
  /\ active = [c \in Conns |-> NoTurn]
  /\ turns = [c \in Conns |-> <<>>]
  /\ server = "serving" /\ toCancel = {} /\ waitOn = 0

Alive == server # "exited"
In(c, pc) == Alive /\ handler[c] = pc
Become(c, pc) == handler' = [handler EXCEPT ![c] = pc]
Current(c) == turns[c][active[c]]
Started(c) == turns[c] # <<>>
Done(c, n) == turns[c][n].cancelled \/ done[c]

Set(c, n, t) == turns' = [turns EXCEPT ![c][n] = t]

-----------------------------------------------------------------------------
(* socketSink: the first failed write is kept and cancels the connection.  *)

Sent(c) ==
  /\ socket[c] = "open" /\ ~writeErr[c]
  /\ UNCHANGED <<done, writeErr>>

NotSent(c) ==
  /\ writeErr' = [writeErr EXCEPT ![c] = TRUE]
  /\ done' = [done EXCEPT ![c] = TRUE]

\* A write whose result nobody looks at.
Say(c) == (Sent(c) \/ NotSent(c)) /\ UNCHANGED socket

-----------------------------------------------------------------------------
(* Serve.                                                                  *)

\* A request from an allowed origin, before the upgrade.
Accept(c) ==
  /\ In(c, "idle") /\ Accepting
  /\ Become(c, "upgrade")
  /\ UNCHANGED <<hubVars, netVars, turnVars, mainVars>>

Upgrade(c) ==
  /\ In(c, "upgrade")
  /\ \/ Become(c, "register") /\ socket' = [socket EXCEPT ![c] = "open"]
     \/ Become(c, "left") /\ UNCHANGED socket
  /\ UNCHANGED <<hubVars, done, writeErr, turnVars, mainVars>>

\* Register; a refused connection is closed.
JoinHub(c) ==
  /\ In(c, "register")
  /\ \/ Register(c) /\ Become(c, "read") /\ UNCHANGED socket
     \/ /\ draining \/ AtCapacity(UserOf[c])
        /\ Become(c, "left") /\ socket' = [socket EXCEPT ![c] = "closed"]
        /\ UNCHANGED hubVars
  /\ UNCHANGED <<done, writeErr, turnVars, mainVars>>

\* Mutant: the peer is asked to close, and the socket is left to it.
WatchAsks(c) ==
  /\ Alive /\ handler[c] \in {"read", "leave"} /\ done[c] /\ socket[c] = "open"
  /\ UNCHANGED vars

\* The goroutine that closes the socket once the connection is cancelled.
Watch(c) ==
  /\ Alive /\ handler[c] \in {"read", "leave"} /\ done[c] /\ socket[c] = "open"
  /\ socket' = [socket EXCEPT ![c] = "closed"]
  /\ UNCHANGED <<hubVars, handler, done, writeErr, turnVars, mainVars>>

\* ReadMessage fails: the socket was closed here, the peer went away or the
\* read deadline passed.  A close frame ends the handler in the same way.
Hangup(c) ==
  /\ In(c, "read")
  /\ Become(c, "leave")
  /\ UNCHANGED <<hubVars, netVars, turnVars, mainVars>>

\* The deferred calls, in two steps: the socket and the context, the hub.
Disconnect(c) ==
  /\ In(c, "leave")
  /\ Become(c, "release")
  /\ socket' = [socket EXCEPT ![c] = "closed"]
  /\ done' = [done EXCEPT ![c] = TRUE]
  /\ UNCHANGED <<hubVars, writeErr, turnVars, mainVars>>

LeaveHub(c) ==
  /\ In(c, "release")
  /\ Release(c) /\ Become(c, "left")
  /\ UNCHANGED <<netVars, turnVars, mainVars>>

Reading(c) == In(c, "read") /\ socket[c] = "open"

-----------------------------------------------------------------------------
(* handleControl and the audio frames.                                     *)

\* A frame that only earns an answer: a pong, or an error event for a turn that
\* does not exist, is not the active one or takes no audio.
Reply(c) ==
  /\ Reading(c) /\ Say(c)
  /\ UNCHANGED <<hubVars, handler, turnVars, mainVars>>

\* Before the first accepted start anything but a start, with the CSRF token
\* where a cookie authenticated the request, ends the connection.
Reject(c) ==
  /\ Reading(c) /\ ~Started(c)
  /\ Say(c) /\ Become(c, "leave")
  /\ UNCHANGED <<hubVars, turnVars, mainVars>>

StartTurn(c) ==
  /\ Reading(c) /\ active[c] = NoTurn /\ Len(turns[c]) < MaxTurns[c]
  /\ \E id \in TurnIds, tts \in BOOLEAN :
       turns' = [turns EXCEPT ![c] = Append(@, NewTurn(id, tts, MaxSentences[Len(@) + 1]))]
  /\ active' = [active EXCEPT ![c] = Len(turns[c]) + 1]
  /\ Say(c)
  /\ UNCHANGED <<hubVars, handler, mainVars>>

\* AppendPCM16LE: a frame within the limit is kept, one beyond it cancels the
\* turn, which stays active.
Audio(c) ==
  /\ Reading(c) /\ active[c] # NoTurn
  /\ LET t == Current(c) IN
       /\ ~t.processing /\ ~Done(c, active[c])
       /\ IF t.frames < MaxFrames
          THEN /\ Set(c, active[c], [t EXCEPT !.frames = @ + 1])
               /\ Say(c) \/ UNCHANGED netVars
          ELSE Set(c, active[c], [t EXCEPT !.cancelled = TRUE]) /\ Say(c)
  /\ UNCHANGED <<hubVars, handler, active, mainVars>>

\* beginProcessing and Turn.Commit; a turn that cannot be committed is back
\* where it was before anybody else can look at it.
Commit(c, id) ==
  /\ Reading(c) /\ active[c] # NoTurn
  /\ LET t == Current(c) IN
       /\ t.id = id /\ ~t.processing /\ ~Done(c, active[c]) /\ t.frames > 0
       /\ Set(c, active[c], [t EXCEPT !.processing = TRUE, !.pc = "begin"])
  /\ Say(c)
  /\ UNCHANGED <<hubVars, handler, active, mainVars>>

\* Mutant: a turn is given up although its worker still runs.
InterruptForgets(c, id) ==
  /\ Reading(c) /\ active[c] # NoTurn /\ Current(c).id = id
  /\ Set(c, active[c], [Current(c) EXCEPT !.cancelled = TRUE])
  /\ active' = [active EXCEPT ![c] = NoTurn]
  /\ Say(c)
  /\ UNCHANGED <<hubVars, handler, mainVars>>

Interrupt(c, id) ==
  /\ Reading(c) /\ active[c] # NoTurn /\ Current(c).id = id
  /\ Set(c, active[c], [Current(c) EXCEPT !.cancelled = TRUE])
  /\ active' = IF Current(c).processing THEN active ELSE [active EXCEPT ![c] = NoTurn]
  /\ Say(c)
  /\ UNCHANGED <<hubVars, handler, mainVars>>

-----------------------------------------------------------------------------
(* processTurn and streamResponse.                                         *)

At(c, n, pc) == Alive /\ turns[c][n].pc = pc
To(c, n, pc) == Set(c, n, [turns[c][n] EXCEPT !.pc = pc])
Rest == UNCHANGED <<hubVars, handler, active, mainVars>>

TimesOut(c, n) ==
  /\ Alive /\ turns[c][n].pc \notin {"none", "done"} /\ ~Done(c, n)
  /\ Set(c, n, [turns[c][n] EXCEPT !.cancelled = TRUE])
  /\ UNCHANGED netVars /\ Rest

Begin(c, n) ==
  /\ At(c, n, "begin")
  /\ IF Done(c, n) THEN To(c, n, "finish") /\ Say(c)
                   ELSE To(c, n, "recognize") /\ UNCHANGED netVars
  /\ Rest

\* Recognised text; or a failure, a cancellation or silence, each an event.
Recognize(c, n) ==
  /\ At(c, n, "recognize")
  /\ \/ To(c, n, "final") /\ UNCHANGED netVars
     \/ To(c, n, "finish") /\ Say(c)
  /\ Rest

\* streamResponse starts the synthesis goroutine of a speaking profile.
Streaming(t) == [t EXCEPT !.pc = "stream", !.voice = IF t.tts THEN "receive" ELSE "none"]

\* The answer is over: the queue is closed and its reader waited for.
Closing(t, ok) == [t EXCEPT !.pc = "join", !.ok = ok, !.left = 0]

Queued(t) ==
  LET u == [t EXCEPT !.queue = @ + 1] IN
  IF t.pc = "flush" THEN Closing(u, TRUE) ELSE [u EXCEPT !.pc = "stream"]

\* asr.final, which must reach the client; a session is made unless the start
\* frame named one.
Final(c, n) ==
  /\ At(c, n, "final")
  /\ LET t == turns[c][n] IN
       \/ Sent(c) /\ \E named \in BOOLEAN :
            Set(c, n, IF named THEN Streaming(t) ELSE [t EXCEPT !.pc = "session"])
       \/ NotSent(c) /\ To(c, n, "finish")
  /\ UNCHANGED socket /\ Rest

\* CreateSession and session.created, or the failure event.
CreateSession(c, n) ==
  /\ At(c, n, "session")
  /\ \/ Sent(c) /\ Set(c, n, Streaming(turns[c][n]))
     \/ (Sent(c) \/ NotSent(c)) /\ To(c, n, "finish")
  /\ UNCHANGED socket /\ Rest

\* OnTextDelta: the text goes to the client; a sentence it completes is queued.
\* An error ends StreamSession, and with it the answer.
Delta(c, n) ==
  /\ At(c, n, "stream")
  /\ LET t == turns[c][n] IN
       \/ /\ t.left > 0 /\ Sent(c)
          /\ Set(c, n, IF t.tts THEN [t EXCEPT !.pc = "enqueue", !.left = @ - 1] ELSE t)
       \/ NotSent(c) /\ Set(c, n, Closing(t, FALSE))
  /\ UNCHANGED socket /\ Rest

\* StreamSession returns; what the buffer still holds is flushed if all is well.
StreamEnds(c, n) ==
  /\ At(c, n, "stream")
  /\ LET t == turns[c][n] IN
       \/ Set(c, n, Closing(t, TRUE))
       \/ t.tts /\ t.left > 0 /\ ~Done(c, n) /\ Set(c, n, [t EXCEPT !.pc = "flush", !.left = @ - 1])
       \/ Set(c, n, Closing(t, FALSE))
  /\ UNCHANGED netVars /\ Rest

\* Mutant: the producer waits for room only.
QueueSentenceBlocks(c, n) ==
  /\ Alive /\ turns[c][n].pc \in {"enqueue", "flush"}
  /\ LET t == turns[c][n] IN
       /\ t.queue < QueueSize
       /\ Set(c, n, Queued(t))
  /\ UNCHANGED netVars /\ Rest

\* queueSentence waits for room in the queue or the end of the context.
QueueSentence(c, n) ==
  /\ Alive /\ turns[c][n].pc \in {"enqueue", "flush"}
  /\ LET t == turns[c][n] IN
       \/ /\ t.queue < QueueSize
          /\ Set(c, n, Queued(t))
       \/ /\ Done(c, n)
          /\ Set(c, n, Closing(t, FALSE))
  /\ UNCHANGED netVars /\ Rest

\* Mutant: the synthesis goroutine is not waited for.
ReportEarly(c, n) ==
  /\ At(c, n, "join")
  /\ LET t == turns[c][n] IN
       \/ Sent(c) /\ Set(c, n, [t EXCEPT !.pc = "finish",
            !.said = IF Done(c, n) THEN "cancelled" ELSE IF t.ok THEN "completed" ELSE "error"])
       \/ NotSent(c) /\ To(c, n, "finish")
  /\ UNCHANGED socket /\ Rest

\* worker.Wait, then the last event of the turn.
Report(c, n) ==
  /\ At(c, n, "join") /\ turns[c][n].voice \in {"none", "returned"}
  /\ LET t == turns[c][n] IN
       \/ Sent(c) /\ Set(c, n, [t EXCEPT !.pc = "finish",
            !.said = IF Done(c, n) THEN "cancelled" ELSE IF t.ok THEN "completed" ELSE "error"])
       \/ NotSent(c) /\ To(c, n, "finish")
  /\ UNCHANGED socket /\ Rest

\* The deferred finish: the connection is free for the next turn.
FinishTurn(c, n) ==
  /\ At(c, n, "finish")
  /\ Set(c, n, Over)
  /\ active' = IF active[c] = n THEN [active EXCEPT ![c] = NoTurn] ELSE active
  /\ UNCHANGED <<hubVars, handler, netVars, mainVars>>

-----------------------------------------------------------------------------
(* synthesizeQueued.                                                       *)

Voice(c, n, pc) == Alive /\ turns[c][n].pc # "done" /\ turns[c][n].voice = pc

\* The next sentence, with tts.start; a cancelled turn or a failed write ends it.
Receive(c, n) ==
  /\ Voice(c, n, "receive") /\ turns[c][n].queue > 0
  /\ LET t == [turns[c][n] EXCEPT !.queue = @ - 1] IN
       IF Done(c, n)
       THEN Set(c, n, [t EXCEPT !.voice = "returned"]) /\ UNCHANGED netVars
       ELSE /\ \/ Sent(c) /\ Set(c, n, [t EXCEPT !.voice = "synthesize"])
               \/ NotSent(c) /\ Set(c, n, [t EXCEPT !.voice = "returned"])
            /\ UNCHANGED socket
  /\ Rest

\* The queue is closed and empty.
Drained(c, n) ==
  /\ Voice(c, n, "receive") /\ turns[c][n].queue = 0 /\ turns[c][n].pc \in {"join", "finish"}
  /\ Set(c, n, [turns[c][n] EXCEPT !.voice = "returned"])
  /\ UNCHANGED netVars /\ Rest

\* The audio and tts.end, or tts.error; a lost audio frame or a cancellation
\* ends the goroutine.
Synthesize(c, n) ==
  /\ Voice(c, n, "synthesize")
  /\ LET t == turns[c][n] IN
       \/ Set(c, n, [t EXCEPT !.voice = "receive"]) /\ (Sent(c) \/ NotSent(c))
       \/ Set(c, n, [t EXCEPT !.voice = "returned"]) /\ NotSent(c)
       \/ /\ Done(c, n) /\ Set(c, n, [t EXCEPT !.voice = "returned"])
          /\ UNCHANGED <<done, writeErr>>
  /\ UNCHANGED socket /\ Rest

-----------------------------------------------------------------------------
(* main: runHTTPServer and shutdownRuntime.                                *)

\* A signal: no new connections, and the cancel functions in the hub are due.
Stop ==
  /\ server = "serving" /\ server' = "cancel"
  /\ BeginDrain /\ toCancel' = cancels
  /\ UNCHANGED <<handler, netVars, turnVars, waitOn>>

CancelNext ==
  /\ server = "cancel"
  /\ \E c \in toCancel : /\ done' = [done EXCEPT ![c] = TRUE]
                         /\ toCancel' = toCancel \ {c}
  /\ UNCHANGED <<hubVars, handler, socket, writeErr, turnVars, server, waitOn>>

\* server.Shutdown returns when no request is left that was not upgraded, or at
\* the grace deadline; then Wait reads the channel.
ShutdownReturns ==
  /\ server = "cancel" /\ toCancel = {}
  /\ \A c \in Conns : handler[c] # "upgrade"
  /\ server' = "wait" /\ waitOn' = empty
  /\ UNCHANGED <<hubVars, handler, netVars, turnVars, toCancel>>

WaitReturns ==
  /\ server = "wait" /\ waitOn \in closed
  /\ server' = "drained"
  /\ UNCHANGED <<hubVars, handler, netVars, turnVars, toCancel, waitOn>>

\* shutdownRuntime waits for the workers and closes the shared clients, or skips
\* that at its deadline; main returns and the process takes its memory with it.
\* The grace period may end before Shutdown or Wait returns, and an error of
\* Serve leads here with nothing drained.
Exit ==
  /\ server # "exited" /\ toCancel = {}
  /\ draining' = TRUE /\ cancels' = {} /\ byUser' = [u \in Users |-> 0]
  /\ empty' = 0 /\ closed' = {0}
  /\ handler' = [c \in Conns |-> "left"]
  /\ socket' = [c \in Conns |-> "closed"]
  /\ done' = [c \in Conns |-> TRUE] /\ writeErr' = [c \in Conns |-> FALSE]
  /\ active' = [c \in Conns |-> NoTurn] /\ turns' = [c \in Conns |-> <<>>]
  /\ server' = "exited" /\ toCancel' = {} /\ waitOn' = 0

-----------------------------------------------------------------------------
Serve(c) ==
  \/ Upgrade(c) \/ JoinHub(c) \/ Disconnect(c) \/ LeaveHub(c)
  \/ socket[c] = "closed" /\ Hangup(c)

Client(c) ==
  \/ Accept(c) \/ Hangup(c) \/ Reply(c) \/ Reject(c) \/ StartTurn(c) \/ Audio(c)
  \/ \E id \in TurnIds : Commit(c, id) \/ Interrupt(c, id)

ProcessTurn(c, n) ==
  \/ Begin(c, n) \/ Recognize(c, n) \/ Final(c, n) \/ CreateSession(c, n)
  \/ Delta(c, n) \/ StreamEnds(c, n) \/ QueueSentence(c, n)
  \/ Report(c, n) \/ FinishTurn(c, n)

SynthesizeQueued(c, n) == Receive(c, n) \/ Drained(c, n) \/ Synthesize(c, n)

Turns(c) == 1..Len(turns[c])

Next ==
  \/ \E c \in Conns :
       \/ Serve(c) \/ Watch(c) \/ Client(c)
       \/ \E n \in Turns(c) : ProcessTurn(c, n) \/ SynthesizeQueued(c, n) \/ TimesOut(c, n)
  \/ Stop \/ CancelNext \/ ShutdownReturns \/ WaitReturns \/ Exit
  \/ server = "exited" /\ UNCHANGED vars

\* Goroutines run on, and calls to the speech and chat services return, at the
\* latest at the turn's timeout.  Nothing is assumed of clients, of the signal
\* or of the deadlines of main.
Fairness ==
  /\ \A c \in Conns :
       /\ WF_vars(Serve(c)) /\ WF_vars(Watch(c))
       /\ WF_vars(\E n \in Turns(c) : ProcessTurn(c, n))
       /\ WF_vars(\E n \in Turns(c) : SynthesizeQueued(c, n))
  /\ WF_vars(CancelNext \/ ShutdownReturns \/ WaitReturns)

Spec == Init /\ [][Next]_vars /\ Fairness
=============================================================================
