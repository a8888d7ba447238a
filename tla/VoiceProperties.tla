-------------------------- MODULE VoiceProperties ---------------------------
(***************************************************************************)
(* What the voice endpoint promises to its clients and to the shutdown.    *)
(***************************************************************************)
EXTENDS VoiceConversation

\* Hub, connections and turns keep their types.
TypeOK ==
  /\ draining \in BOOLEAN /\ cancels \subseteq Conns /\ byUser \in [Users -> Nat]
  /\ closed \subseteq 0..empty
  /\ \A c \in Conns :
       /\ handler[c] \in {"idle", "upgrade", "register", "read", "leave", "release", "left"}
       /\ socket[c] \in {"none", "open", "closed"}
       /\ {done[c], writeErr[c]} \subseteq BOOLEAN
       /\ active[c] \in {NoTurn} \cup Turns(c)
  /\ toCancel \subseteq Conns /\ waitOn \in 0..empty

\* Serve holds a slot of the hub from Register until its deferred release, also
\* while a drain runs: the counts and the empty channel follow the handlers,
\* the caps hold, and a Wait that returned without error leaves no connection.
Inside == {c \in Conns : handler[c] \in {"read", "leave", "release"}}
HubFollowsHandlers ==
  /\ cancels = Inside /\ Cardinality(Inside) <= MaxGlobal
  /\ \A u \in Users : /\ byUser[u] = Cardinality({c \in Inside : UserOf[c] = u})
                      /\ byUser[u] <= MaxPerUser
  /\ empty \in closed <=> Inside = {}
  /\ server = "drained" => Inside = {}

\* A turn belongs to its worker until processTurn returns, whatever the client
\* interrupts, starts or commits meanwhile: it stays the active turn, so no
\* second worker ever runs on the connection.
Running(c) == {n \in Turns(c) : turns[c][n].pc \notin {"none", "done"}}
WorkerOwnsTurn ==
  \A c \in Conns : Running(c) # {} => Running(c) = {active[c]}

\* turn.completed reaches the client only after every queued sentence was
\* synthesised or reported as failed.
CompletedIsSpoken ==
  \A c \in Conns : \A n \in 1..MaxTurns[c] :
    n \in Running(c) /\ turns[c][n].said = "completed" =>
      turns[c][n].queue = 0 /\ turns[c][n].voice \in {"none", "returned"}

\* processTurn always returns, also when its client is gone, the socket is dead
\* or the synthesis goroutine has given up with sentences still to come.
TurnsEnd ==
  \A c \in Conns : \A n \in 1..MaxTurns[c] :
    (n \in Running(c)) ~> (n \notin Running(c) \/ server = "exited")

\* Wait needs no deadline: the handlers cancelled by BeginDrain all release
\* their slots, even when the peer neither answers nor closes.
DrainEnds == (server = "cancel") ~> (server \notin {"cancel", "wait"})
=============================================================================
