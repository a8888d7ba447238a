----------------------------- MODULE VoiceProofs ----------------------------
(***************************************************************************)
(* The safety of the voice endpoint, for any number of connections, users, *)
(* turns and sentences and for any caps and queue size.                    *)
(*                                                                         *)
(* The invariant has two halves that no step mixes: the hub with the       *)
(* handlers and the shutdown, and the turns with their workers.            *)
(***************************************************************************)
EXTENDS VoiceProperties, FiniteSetTheorems, SequenceTheorems, TLAPS

-----------------------------------------------------------------------------
(* The hub.                                                                *)

Phases == {"idle", "upgrade", "register", "read", "leave", "release", "left"}

\* Once main has left the serving state the hub takes nobody in, and the channel
\* Wait reads stays the one in force.
DrainIsKept ==
  /\ server # "serving" => draining
  /\ server \in {"wait", "drained"} => waitOn = empty

HubInv ==
  /\ handler \in [Conns -> Phases] /\ byUser \in [Users -> Nat]
  /\ empty \in Nat /\ closed \subseteq 0..empty
  /\ IsFiniteSet(Inside)
  /\ DrainIsKept
  /\ HubFollowsHandlers

-----------------------------------------------------------------------------
(* The turns.                                                              *)

Places == {"none", "begin", "recognize", "final", "session", "stream", "enqueue", "flush", "join",
           "finish"}
Turn ==
  [id : TurnIds, tts : BOOLEAN, frames : Nat, cancelled : BOOLEAN, processing : BOOLEAN,
   pc : Places, left : Nat, queue : Nat, voice : {"none", "receive", "synthesize", "returned"},
   ok : BOOLEAN, said : {"nothing", "completed", "cancelled", "error"}]

TurnsTyped ==
  /\ turns \in [Conns -> Seq({Over} \cup Turn)] /\ active \in [Conns -> Nat]
  /\ done \in [Conns -> BOOLEAN]

\* What a worker and its synthesis goroutine have done, given where they are and
\* whether the connection is cancelled.  A goroutine that has returned has
\* emptied the closed queue, or its turn is cancelled for good.
Progress(t, d) ==
  /\ t.processing <=> t.pc # "none"
  /\ t.pc \in {"none", "begin", "recognize", "final", "session"} => t.voice = "none"
  /\ t.pc \in {"enqueue", "flush"} => t.tts
  /\ t.pc \in {"stream", "enqueue", "flush", "join"} => (t.voice = "none" <=> ~t.tts)
  /\ t.voice = "none" => t.queue = 0
  /\ t.pc = "finish" => t.voice \in {"none", "returned"}
  /\ t.voice = "returned" => t.cancelled \/ d \/ (t.queue = 0 /\ t.pc \in {"join", "finish"})
  /\ t.said = "completed" => t.pc = "finish" /\ t.queue = 0

\* A worker that runs has the active turn, and the active turn is not over.
Owned(c) ==
  /\ active[c] \in {NoTurn} \cup Turns(c)
  /\ active[c] # NoTurn => turns[c][active[c]] \in Turn
  /\ \A n \in Turns(c) : n # active[c] => turns[c][n].pc \in {"none", "done"}

TurnInv ==
  /\ TurnsTyped
  /\ \A c \in Conns : Owned(c)
  /\ \A c \in Conns : \A n \in Turns(c) : turns[c][n] \in Turn => Progress(turns[c][n], done[c])

IInv == HubInv /\ TurnInv

-----------------------------------------------------------------------------
(* The hub.                                                                *)

\* A step that changes no handler's side of the hub keeps it true.
LEMMA HubKept ==
  ASSUME HubInv, handler' \in [Conns -> Phases],
         \A c \in Conns : handler[c] \in {"read", "leave", "release"}
                            <=> handler'[c] \in {"read", "leave", "release"},
         UNCHANGED <<cancels, byUser, empty, closed>>, DrainIsKept',
         server' = "drained" => Inside = {}
  PROVE  HubInv'
  <1>1. Inside' = Inside
    BY DEF Inside
  <1>2. HubFollowsHandlers'
    BY <1>1 DEF HubInv, HubFollowsHandlers
  <1> QED BY <1>1, <1>2 DEF HubInv

\* A step of a connection that keeps main and the hub where they are.
LEMMA HandlerMoves ==
  ASSUME HubInv, NEW c \in Conns, NEW pc \in Phases, Become(c, pc),
         handler[c] \in {"read", "leave", "release"} <=> pc \in {"read", "leave", "release"},
         UNCHANGED <<hubVars, server, waitOn>>
  PROVE  HubInv'
  <1>1. handler \in [Conns -> Phases]
    BY DEF HubInv
  <1>2. handler' \in [Conns -> Phases]
    BY <1>1 DEF Become
  <1>3. \A d \in Conns : handler[d] \in {"read", "leave", "release"}
                           <=> handler'[d] \in {"read", "leave", "release"}
    BY <1>1 DEF Become
  <1>4. DrainIsKept' /\ (server' = "drained" => Inside = {}) /\ UNCHANGED <<cancels, byUser, empty, closed>>
    BY DEF HubInv, DrainIsKept, HubFollowsHandlers, hubVars
  <1> QED BY <1>2, <1>3, <1>4, HubKept

\* A step that leaves the handlers, the hub and main alone.
LEMMA HubStays ==
  ASSUME HubInv, UNCHANGED <<hubVars, handler, server, waitOn>>
  PROVE  HubInv'
  <1>1. DrainIsKept' /\ (server' = "drained" => Inside = {}) /\ UNCHANGED <<cancels, byUser, empty, closed>>
    BY DEF HubInv, DrainIsKept, HubFollowsHandlers, hubVars
  <1>2. handler' \in [Conns -> Phases]
    BY DEF HubInv
  <1> QED BY <1>1, <1>2, HubKept

\* The connections of a user are counted.
LEMMA UserSets ==
  ASSUME HubInv, NEW u \in Users, NEW c \in Conns
  PROVE  LET A == {d \in Inside : UserOf[d] = u}
         IN /\ IsFiniteSet(A) /\ Cardinality(A) \in Nat
            /\ c \notin A => Cardinality(A \cup {c}) = Cardinality(A) + 1
            /\ c \in A => Cardinality(A \ {c}) = Cardinality(A) - 1
  <1> DEFINE A == {d \in Inside : UserOf[d] = u}
  <1>1. IsFiniteSet(A)
    BY FS_Subset DEF HubInv
  <1> HIDE DEF A
  <1>2. /\ Cardinality(A) \in Nat
        /\ c \notin A => Cardinality(A \cup {c}) = Cardinality(A) + 1
        /\ c \in A => Cardinality(A \ {c}) = Cardinality(A) - 1
    BY <1>1, FS_AddElement, FS_RemoveElement, FS_CardinalityType
  <1> QED BY <1>1, <1>2 DEF A

\* Register takes a connection in.
LEMMA RegisterInv ==
  ASSUME HubInv, HubAssumption, NEW c \in Conns, Register(c), handler[c] = "register",
         Become(c, "read"), UNCHANGED <<server, waitOn>>
  PROVE  HubInv'
  <1>1. handler \in [Conns -> Phases] /\ cancels = Inside /\ IsFiniteSet(Inside)
    BY DEF HubInv, HubFollowsHandlers
  <1>2. Inside' = Inside \cup {c} /\ c \notin Inside
    BY <1>1 DEF Become, Inside
  <1>3. handler' \in [Conns -> Phases]
    BY <1>1 DEF Become, Phases
  <1>4. /\ IsFiniteSet(Inside') /\ Cardinality(Inside) \in Nat
        /\ Cardinality(Inside') = Cardinality(Inside) + 1
    BY <1>1, <1>2, FS_AddElement, FS_CardinalityType
  <1>5. PICK u \in Users : u = UserOf[c]
    BY DEF Users
  <1>6. byUser \in [Users -> Nat] /\ byUser' = [byUser EXCEPT ![u] = @ + 1]
    BY <1>5 DEF HubInv, Register
  <1>7. /\ byUser' \in [Users -> Nat] /\ byUser'[u] = byUser[u] + 1
        /\ \A v \in Users : v # u => byUser'[v] = byUser[v]
    BY <1>6
  <1>8. Cardinality(Inside) < MaxGlobal /\ byUser[u] < MaxPerUser
    BY <1>1, <1>4, <1>5, <1>6 DEF Register, AtCapacity, HubAssumption
  <1>9. Cardinality(Inside') <= MaxGlobal
    BY <1>4, <1>8 DEF HubAssumption
  <1>10. ASSUME NEW v \in Users
         PROVE  byUser'[v] = Cardinality({d \in Inside' : UserOf[d] = v}) /\ byUser'[v] <= MaxPerUser
    <2> DEFINE A == {d \in Inside : UserOf[d] = v}
    <2>1. byUser[v] = Cardinality(A) /\ byUser[v] <= MaxPerUser /\ byUser[v] \in Nat
      BY DEF HubInv, HubFollowsHandlers
    <2>2. {d \in Inside' : UserOf[d] = v} = IF v = u THEN A \cup {c} ELSE A
      BY <1>2, <1>5
    <2>3. Cardinality(A \cup {c}) = Cardinality(A) + 1
      BY <1>2, UserSets
    <2> HIDE DEF A
    <2>4. MaxPerUser \in Nat
      BY DEF HubAssumption
    <2>5. CASE v = u
      <3>1. byUser'[v] = byUser[v] + 1 /\ byUser[v] < MaxPerUser
        BY <1>7, <1>8, <2>5
      <3>2. {d \in Inside' : UserOf[d] = v} = A \cup {c}
        BY <2>2, <2>5
      <3> QED BY <2>1, <2>3, <2>4, <2>5, <3>1, <3>2
    <2>6. CASE v # u
      <3>1. byUser'[v] = byUser[v]
        BY <1>7, <2>6
      <3> QED BY <2>1, <2>2, <2>6, <3>1
    <2> QED BY <2>5, <2>6
  <1>11. empty' \in Nat /\ closed' \subseteq 0..empty' /\ empty' \notin closed'
    <2>1. empty \in Nat /\ closed \subseteq 0..empty /\ (empty \in closed <=> Inside = {})
      BY DEF HubInv, HubFollowsHandlers
    <2>2. CASE cancels = {}
      <3>1. empty' = empty + 1 /\ closed' = closed
        BY <2>2 DEF Register
      <3> QED BY <2>1, <3>1
    <2>3. CASE cancels # {}
      <3>1. empty' = empty /\ closed' = closed
        BY <2>3 DEF Register
      <3> QED BY <1>1, <2>1, <2>3, <3>1
    <2> QED BY <2>2, <2>3
  <1>12. DrainIsKept' /\ server' # "drained"
    BY DEF HubInv, DrainIsKept, Register
  <1>13. HubFollowsHandlers'
    BY <1>1, <1>2, <1>9, <1>10, <1>11, <1>12 DEF HubFollowsHandlers, Register
  <1> QED BY <1>3, <1>4, <1>7, <1>11, <1>12, <1>13 DEF HubInv

\* The function Register returned lets it out.
LEMMA ReleaseInv ==
  ASSUME HubInv, HubAssumption, NEW c \in Conns, Release(c), handler[c] = "release",
         Become(c, "left"), UNCHANGED <<server, waitOn>>
  PROVE  HubInv'
  <1>1. handler \in [Conns -> Phases] /\ cancels = Inside /\ IsFiniteSet(Inside)
    BY DEF HubInv, HubFollowsHandlers
  <1>2. Inside' = Inside \ {c} /\ c \in Inside
    BY <1>1 DEF Become, Inside
  <1>3. handler' \in [Conns -> Phases]
    BY <1>1 DEF Become, Phases
  <1>4. /\ IsFiniteSet(Inside') /\ Cardinality(Inside) \in Nat
        /\ Cardinality(Inside') = Cardinality(Inside) - 1
    BY <1>1, <1>2, FS_RemoveElement, FS_CardinalityType
  <1>5. PICK u \in Users : u = UserOf[c]
    BY DEF Users
  <1>6. byUser \in [Users -> Nat] /\ byUser' = [byUser EXCEPT ![u] = @ - 1]
    BY <1>5 DEF HubInv, Release
  <1>7. /\ byUser'[u] = byUser[u] - 1 /\ byUser' = [v \in Users |-> byUser'[v]]
        /\ \A v \in Users : v # u => byUser'[v] = byUser[v]
    BY <1>6
  <1>8. Cardinality(Inside') <= MaxGlobal
    <2>1. Cardinality(Inside) <= MaxGlobal
      BY DEF HubInv, HubFollowsHandlers
    <2> QED BY <1>4, <2>1 DEF HubAssumption
  <1>9. ASSUME NEW v \in Users
        PROVE  /\ byUser'[v] = Cardinality({d \in Inside' : UserOf[d] = v}) /\ byUser'[v] <= MaxPerUser
               /\ byUser'[v] \in Nat
    <2> DEFINE A == {d \in Inside : UserOf[d] = v}
               B == {d \in Inside' : UserOf[d] = v}
    <2>1. byUser[v] = Cardinality(A) /\ byUser[v] <= MaxPerUser /\ byUser[v] \in Nat
      BY DEF HubInv, HubFollowsHandlers
    <2>2. B = (IF v = u THEN A \ {c} ELSE A) /\ (v = u => c \in A)
      BY <1>2, <1>5
    <2>3. c \in A => Cardinality(A \ {c}) = Cardinality(A) - 1
      BY <1>2, UserSets
    <2>4. Cardinality(B) \in Nat
      BY <1>4, FS_Subset, FS_CardinalityType
    <2> HIDE DEF A, B
    <2>5. byUser'[v] = Cardinality(B) /\ byUser'[v] <= MaxPerUser
      BY <1>7, <2>1, <2>2, <2>3 DEF HubAssumption
    <2> QED BY <2>4, <2>5 DEF B
  <1>10. byUser' \in [Users -> Nat]
    BY <1>7, <1>9
  <1>11. empty' = empty /\ closed' \subseteq 0..empty /\ (empty \in closed' <=> Inside' = {}) /\ empty \in Nat
    <2>1. empty \in Nat /\ closed \subseteq 0..empty /\ (empty \in closed <=> Inside = {})
      BY DEF HubInv, HubFollowsHandlers
    <2>2. CASE cancels = {c}
      <3>1. empty' = empty /\ closed' = closed \cup {empty} /\ Inside' = {}
        BY <1>1, <1>2, <2>2 DEF Release
      <3> QED BY <2>1, <3>1
    <2>3. CASE cancels # {c}
      <3>1. empty' = empty /\ closed' = closed /\ Inside' # {} /\ Inside # {}
        BY <1>1, <1>2, <2>3 DEF Release
      <3> QED BY <2>1, <3>1
    <2> QED BY <2>2, <2>3
  <1>12. DrainIsKept'
    BY DEF HubInv, DrainIsKept, Release
  <1>13. server' # "drained"
    BY <1>2 DEF HubInv, HubFollowsHandlers
  <1>14. HubFollowsHandlers'
    BY <1>1, <1>2, <1>8, <1>9, <1>11, <1>13 DEF HubFollowsHandlers, Release
  <1> QED BY <1>3, <1>4, <1>10, <1>11, <1>12, <1>14 DEF HubInv

\* The end of the process leaves an empty hub.
LEMMA ExitHub ==
  ASSUME HubAssumption, Exit
  PROVE  HubInv'
  <1>1. Inside' = {}
    BY DEF Exit, Inside
  <1>2. IsFiniteSet(Inside') /\ Cardinality(Inside') = 0 /\ Cardinality({}) = 0
    BY <1>1, FS_EmptySet
  <1>3. /\ handler' \in [Conns -> Phases] /\ byUser' \in [Users -> Nat] /\ empty' \in Nat
        /\ closed' \subseteq 0..empty' /\ empty' \in closed' /\ cancels' = {}
        /\ \A u \in Users : byUser'[u] = 0
    BY DEF Exit, Phases
  <1>4. DrainIsKept'
    BY DEF DrainIsKept, Exit
  <1>5. \A u \in Users : {d \in Inside' : UserOf[d] = u} = {}
    BY <1>1
  <1>6. 0 <= MaxGlobal /\ 0 <= MaxPerUser
    BY DEF HubAssumption
  <1>7. HubFollowsHandlers'
    BY <1>1, <1>2, <1>3, <1>5, <1>6 DEF HubFollowsHandlers
  <1> QED BY <1>2, <1>3, <1>4, <1>7 DEF HubInv

\* The steps of main keep the hub true; Wait returns when nobody is inside.
LEMMA MainHub ==
  ASSUME HubInv, Stop \/ CancelNext \/ ShutdownReturns \/ WaitReturns
  PROVE  HubInv'
  <1>1. UNCHANGED <<cancels, byUser, empty, closed, handler>>
    BY DEF Stop, BeginDrain, CancelNext, ShutdownReturns, WaitReturns, hubVars
  <1>2. handler' \in [Conns -> Phases]
    BY <1>1 DEF HubInv
  <1>3. DrainIsKept /\ (empty \in closed <=> Inside = {}) /\ (server = "drained" => Inside = {})
    BY DEF HubInv, HubFollowsHandlers
  <1>4. DrainIsKept'
    BY <1>3 DEF DrainIsKept, Stop, BeginDrain, CancelNext, ShutdownReturns, WaitReturns, hubVars
  <1>5. server' = "drained" => Inside = {}
    BY <1>3 DEF DrainIsKept, Stop, CancelNext, ShutdownReturns, WaitReturns
  <1> QED BY <1>1, <1>2, <1>4, <1>5, HubKept

-----------------------------------------------------------------------------
(* The turns.                                                              *)

\* No step brings a cancelled connection back.
DoneGrows == done' \in [Conns -> BOOLEAN] /\ \A c \in Conns : done[c] => done'[c]

\* A write leaves the connections as they are or cancels its own.
LEMMA WritesCancel ==
  ASSUME TurnInv, NEW c \in Conns, Sent(c) \/ NotSent(c) \/ Say(c) \/ UNCHANGED netVars \/ UNCHANGED done
  PROVE  DoneGrows
  <1>1. done \in [Conns -> BOOLEAN]
    BY DEF TurnInv, TurnsTyped
  <1>2. done' = done \/ done' = [done EXCEPT ![c] = TRUE]
    BY DEF Sent, NotSent, Say, netVars
  <1> QED BY <1>1, <1>2 DEF DoneGrows

\* A failed write cancels the connection.
LEMMA WriteFails ==
  ASSUME TurnInv, NEW c \in Conns, NotSent(c)
  PROVE  done'[c]
  BY DEF NotSent, TurnInv, TurnsTyped

\* One entry of a connection's turns is replaced.
LEMMA SetEffect ==
  ASSUME TurnInv, NEW c \in Conns, NEW n \in Turns(c), NEW t \in {Over} \cup Turn, Set(c, n, t)
  PROVE  /\ turns' \in [Conns -> Seq({Over} \cup Turn)]
         /\ turns'[c][n] = t
         /\ \A d \in Conns : Turns(d)' = Turns(d)
         /\ \A d \in Conns, m \in Nat : m \in Turns(d) /\ (d # c \/ m # n) => turns'[d][m] = turns[d][m]
  <1>1. turns \in [Conns -> Seq({Over} \cup Turn)]
    BY DEF TurnInv, TurnsTyped
  <1>2. turns' = [turns EXCEPT ![c] = [turns[c] EXCEPT ![n] = t]]
    BY <1>1 DEF Set
  <1>3. PICK s \in Seq({Over} \cup Turn) : s = turns[c]
    BY <1>1
  <1>4. PICK r : r = [s EXCEPT ![n] = t]
    OBVIOUS
  <1>5. n \in 1..Len(s)
    BY <1>3 DEF Turns
  <1>6. /\ r \in Seq({Over} \cup Turn) /\ Len(r) = Len(s) /\ r[n] = t
        /\ \A m \in 1..Len(s) : m # n => r[m] = s[m]
    BY <1>4, <1>5, ExceptSeq
  <1>7. turns'[c] = r /\ \A d \in Conns : d # c => turns'[d] = turns[d]
    BY <1>1, <1>2, <1>3, <1>4
  <1>8. turns' \in [Conns -> Seq({Over} \cup Turn)]
    BY <1>1, <1>2, <1>3, <1>4, <1>6
  <1>9. \A d \in Conns : Turns(d)' = Turns(d)
    BY <1>3, <1>6, <1>7 DEF Turns
  <1>10. \A d \in Conns, m \in Nat : m \in Turns(d) /\ (d # c \/ m # n) => turns'[d][m] = turns[d][m]
    BY <1>3, <1>6, <1>7 DEF Turns
  <1> QED BY <1>6, <1>7, <1>8, <1>9, <1>10

\* The entries of turns are turns or what is left of them.
LEMMA TurnOrOver ==
  ASSUME TurnInv, NEW c \in Conns, NEW n \in Turns(c)
  PROVE  turns[c][n] \in {Over} \cup Turn
  <1>1. turns[c] \in Seq({Over} \cup Turn)
    BY DEF TurnInv, TurnsTyped
  <1> QED BY <1>1, ElementOfSeq DEF Turns

\* A running worker or synthesis goroutine has the active turn.
Works(c, n) ==
  turns[c][n].pc # "done" /\ (turns[c][n].pc = "none" => turns[c][n].voice # "none")

\* Only the active turn has goroutines that run.
LEMMA WorkerActs ==
  ASSUME TurnInv, NEW c \in Conns, NEW n \in Turns(c), Works(c, n)
  PROVE  n = active[c] /\ turns[c][n] \in Turn /\ Progress(turns[c][n], done[c])
  <1>1. turns[c][n] \in Turn
    BY TurnOrOver DEF Works, Over
  <1>2. Progress(turns[c][n], done[c])
    BY <1>1 DEF TurnInv
  <1>3. turns[c][n].pc # "none"
    BY <1>2 DEF Progress, Works
  <1>4. n = active[c]
    BY <1>3 DEF TurnInv, Owned, Works
  <1> QED BY <1>1, <1>2, <1>4

\* What a step does to the turn it works on.
Puts(c, n) ==
  /\ \E t \in Turn : Set(c, n, t) /\ Progress(t, done'[c])
  /\ active' = active /\ DoneGrows

\* A step that moves the active turn on keeps the turns consistent.
LEMMA PutsInv ==
  ASSUME TurnInv, NEW c \in Conns, NEW n \in Turns(c), n = active[c], Puts(c, n)
  PROVE  TurnInv'
  <1>1. PICK t \in Turn : Set(c, n, t) /\ Progress(t, done'[c])
    BY DEF Puts
  <1>2. /\ turns' \in [Conns -> Seq({Over} \cup Turn)]
        /\ turns'[c][n] = t
        /\ \A d \in Conns : Turns(d)' = Turns(d)
        /\ \A d \in Conns, m \in Nat : m \in Turns(d) /\ (d # c \/ m # n) => turns'[d][m] = turns[d][m]
    BY <1>1, SetEffect
  <1>3. active' = active /\ done' \in [Conns -> BOOLEAN] /\ done \in [Conns -> BOOLEAN]
    BY DEF Puts, DoneGrows, TurnInv, TurnsTyped
  <1>4. TurnsTyped'
    BY <1>2, <1>3 DEF TurnInv, TurnsTyped
  <1>5. ASSUME NEW d \in Conns
        PROVE  Owned(d)'
    <2>1. Owned(d) /\ active'[d] = active[d] /\ Turns(d)' = Turns(d)
      BY <1>2, <1>3 DEF TurnInv
    <2>2. \A m \in Turns(d) : m \in Nat
      BY DEF Turns
    <2>3. active[d] # NoTurn => turns'[d][active[d]] \in Turn
      BY <1>1, <1>2, <2>1, <2>2 DEF Owned
    <2>4. \A m \in Turns(d) : m # active[d] => turns'[d][m].pc \in {"none", "done"}
      BY <1>2, <2>1, <2>2 DEF Owned
    <2> QED BY <2>1, <2>3, <2>4 DEF Owned
  <1>6. ASSUME NEW d \in Conns, NEW m \in Turns(d)', turns'[d][m] \in Turn
        PROVE  Progress(turns'[d][m], done'[d])
    <2>1. m \in Turns(d) /\ m \in Nat
      BY <1>2, <1>6 DEF Turns
    <2>2. CASE d = c /\ m = n
      BY <1>1, <1>2, <2>2
    <2>3. CASE d # c \/ m # n
      <3>1. turns'[d][m] = turns[d][m] /\ turns[d][m] \in Turn
        BY <1>2, <1>6, <2>1, <2>3
      <3>2. Progress(turns[d][m], done[d])
        BY <2>1, <3>1 DEF TurnInv
      <3>3. done[d] \in BOOLEAN /\ done'[d] \in BOOLEAN /\ (done[d] => done'[d])
        BY <1>3 DEF Puts, DoneGrows
      <3>4. Progress(turns[d][m], done'[d])
        BY <3>1, <3>2, <3>3 DEF Progress
      <3> QED BY <3>1, <3>4
    <2> QED BY <2>2, <2>3
  <1> QED BY <1>4, <1>5, <1>6 DEF TurnInv

-----------------------------------------------------------------------------
(* The forms a turn takes.                                                 *)

\* The worker is on its way to its end.
LEMMA ToPc ==
  ASSUME NEW u \in Turn, NEW d \in BOOLEAN, NEW e \in BOOLEAN, d => e, Progress(u, d),
         NEW pc \in Places,
         \/ u.pc = "begin" /\ pc \in {"recognize", "finish"}
         \/ u.pc = "recognize" /\ pc \in {"final", "finish"}
         \/ u.pc = "final" /\ pc \in {"session", "finish"}
         \/ u.pc = "session" /\ pc = "finish"
         \/ u.pc = "join" /\ u.voice \in {"none", "returned"} /\ pc = "finish"
  PROVE  [u EXCEPT !.pc = pc] \in Turn /\ Progress([u EXCEPT !.pc = pc], e)
  <1> DEFINE t == [u EXCEPT !.pc = pc]
  <1>1. /\ t \in Turn /\ t.pc = pc /\ t.processing = u.processing /\ t.voice = u.voice /\ t.tts = u.tts
        /\ t.queue = u.queue /\ t.cancelled = u.cancelled /\ t.said = u.said
    BY DEF Turn
  <1> HIDE DEF t
  <1>2. Progress(t, e)
    BY <1>1 DEF Progress, Places
  <1> QED BY <1>1, <1>2 DEF t

\* streamResponse starts with an empty queue, and a goroutine for a speaking
\* profile.
LEMMA StreamingForm ==
  ASSUME NEW u \in Turn, NEW d \in BOOLEAN, NEW e \in BOOLEAN, d => e, Progress(u, d),
         u.pc \in {"final", "session"}
  PROVE  Streaming(u) \in Turn /\ Progress(Streaming(u), e)
  <1> DEFINE t == Streaming(u)
  <1>1. u.tts \in BOOLEAN
    BY DEF Turn
  <1>2. PICK v \in {"none", "receive", "synthesize", "returned"} : v = IF u.tts THEN "receive" ELSE "none"
    OBVIOUS
  <1>3. t = [u EXCEPT !.pc = "stream", !.voice = v]
    BY <1>2 DEF Streaming
  <1>4. /\ t \in Turn /\ t.pc = "stream" /\ t.processing = u.processing /\ t.voice = v /\ t.tts = u.tts
        /\ t.queue = u.queue /\ t.cancelled = u.cancelled /\ t.said = u.said
    BY <1>3 DEF Turn, Places
  <1> HIDE DEF t
  <1>5. Progress(t, e)
    BY <1>1, <1>2, <1>4 DEF Progress
  <1> QED BY <1>4, <1>5 DEF t

\* The queue is closed; what it holds stays for the goroutine.
LEMMA ClosingForm ==
  ASSUME NEW u \in Turn, NEW d \in BOOLEAN, NEW e \in BOOLEAN, d => e, Progress(u, d),
         u.pc \in {"stream", "enqueue", "flush"}, NEW ok \in BOOLEAN
  PROVE  Closing(u, ok) \in Turn /\ Progress(Closing(u, ok), e)
  <1> DEFINE t == Closing(u, ok)
  <1>1. /\ t \in Turn /\ t.pc = "join" /\ t.processing = u.processing /\ t.voice = u.voice /\ t.tts = u.tts
        /\ t.queue = u.queue /\ t.cancelled = u.cancelled /\ t.said = u.said
    BY DEF Turn, Places, Closing
  <1> HIDE DEF t
  <1>2. Progress(t, e)
    BY <1>1 DEF Progress
  <1> QED BY <1>1, <1>2 DEF t

\* A sentence is taken from the answer, for the queue.
LEMMA SentenceForm ==
  ASSUME NEW u \in Turn, NEW d \in BOOLEAN, NEW e \in BOOLEAN, d => e, Progress(u, d),
         u.pc = "stream", u.tts, u.left > 0, NEW pc \in {"enqueue", "flush"}
  PROVE  LET t == [u EXCEPT !.pc = pc, !.left = @ - 1] IN t \in Turn /\ Progress(t, e)
  <1> DEFINE t == [u EXCEPT !.pc = pc, !.left = @ - 1]
  <1>0. u.left \in Nat
    BY DEF Turn
  <1>a. PICK l \in Nat : l = u.left - 1
    BY <1>0
  <1>b. t = [u EXCEPT !.pc = pc, !.left = l] /\ pc \in Places
    BY <1>a DEF Places
  <1>1. /\ t \in Turn /\ t.pc = pc /\ t.processing = u.processing /\ t.voice = u.voice /\ t.tts = u.tts
        /\ t.queue = u.queue /\ t.cancelled = u.cancelled /\ t.said = u.said
    BY <1>b DEF Turn
  <1> HIDE DEF t
  <1>2. Progress(t, e)
    BY <1>1 DEF Progress
  <1> QED BY <1>1, <1>2 DEF t

\* queueSentence adds to the queue while its reader may still take from it.
LEMMA QueuedForm ==
  ASSUME NEW u \in Turn, NEW d \in BOOLEAN, NEW e \in BOOLEAN, d => e, Progress(u, d),
         u.pc \in {"enqueue", "flush"}
  PROVE  Queued(u) \in Turn /\ Progress(Queued(u), e)
  <1> DEFINE t == Queued(u)
  <1>1. PICK q \in Nat : q = u.queue + 1
    BY DEF Turn
  <1>2. PICK v : v = [u EXCEPT !.queue = q]
    OBVIOUS
  <1>3. /\ v \in Turn /\ v.pc = u.pc /\ v.processing = u.processing /\ v.voice = u.voice /\ v.tts = u.tts
        /\ v.queue = q /\ v.cancelled = u.cancelled /\ v.said = u.said
    BY <1>2 DEF Turn
  <1>4. t = IF u.pc = "flush" THEN Closing(v, TRUE) ELSE [v EXCEPT !.pc = "stream"]
    BY <1>1, <1>2 DEF Queued
  <1>5. /\ t \in Turn /\ t.pc \in {"join", "stream"} /\ t.processing = u.processing /\ t.voice = u.voice
        /\ t.tts = u.tts /\ t.queue = q /\ t.cancelled = u.cancelled /\ t.said = u.said
    <2>1. CASE u.pc = "flush"
      <3>1. t = [v EXCEPT !.pc = "join", !.ok = TRUE, !.left = 0]
        BY <1>4, <2>1 DEF Closing
      <3> HIDE DEF t
      <3>2. /\ t \in Turn /\ t.pc = "join" /\ t.processing = v.processing /\ t.voice = v.voice
            /\ t.tts = v.tts /\ t.queue = v.queue /\ t.cancelled = v.cancelled /\ t.said = v.said
        BY <1>3, <3>1 DEF Turn, Places
      <3> QED BY <1>3, <3>2
    <2>2. CASE u.pc # "flush"
      BY <1>3, <1>4, <2>2 DEF Turn, Places
    <2> QED BY <2>1, <2>2
  <1> HIDE DEF t
  <1>6. Progress(t, e)
    BY <1>5 DEF Progress
  <1> QED BY <1>5, <1>6 DEF t

\* The last event; only an uncancelled turn is reported as completed.
LEMMA ReportForm ==
  ASSUME NEW u \in Turn, NEW d \in BOOLEAN, NEW e \in BOOLEAN, d => e, Progress(u, d),
         u.pc = "join", u.voice \in {"none", "returned"},
         NEW say \in {"cancelled", "completed", "error"}, say = "completed" => ~u.cancelled /\ ~d
  PROVE  LET t == [u EXCEPT !.pc = "finish", !.said = say] IN t \in Turn /\ Progress(t, e)
  <1> DEFINE t == [u EXCEPT !.pc = "finish", !.said = say]
  <1>1. /\ t \in Turn /\ t.pc = "finish" /\ t.processing = u.processing /\ t.voice = u.voice /\ t.tts = u.tts
        /\ t.queue = u.queue /\ t.cancelled = u.cancelled /\ t.said = say
    BY DEF Turn, Places
  <1> HIDE DEF t
  <1>2. Progress(t, e)
    BY <1>1 DEF Progress
  <1> QED BY <1>1, <1>2 DEF t

\* The synthesis goroutine takes a sentence.
LEMMA TakenForm ==
  ASSUME NEW u \in Turn, NEW d \in BOOLEAN, NEW e \in BOOLEAN, d => e, Progress(u, d),
         u.voice = "receive", u.queue > 0, NEW v \in {"synthesize", "returned"},
         v = "returned" => u.cancelled \/ e
  PROVE  LET t == [[u EXCEPT !.queue = @ - 1] EXCEPT !.voice = v] IN t \in Turn /\ Progress(t, e)
  <1> DEFINE t == [[u EXCEPT !.queue = @ - 1] EXCEPT !.voice = v]
  <1>1. PICK q \in Nat : q = u.queue - 1
    BY DEF Turn
  <1>2. t = [[u EXCEPT !.queue = q] EXCEPT !.voice = v]
    BY <1>1
  <1>3. /\ t \in Turn /\ t.pc = u.pc /\ t.processing = u.processing /\ t.voice = v /\ t.tts = u.tts
        /\ t.queue = q /\ t.cancelled = u.cancelled /\ t.said = u.said
    BY <1>2 DEF Turn
  <1>4. u.queue # 0 /\ u.pc # "finish"
    BY DEF Progress
  <1> HIDE DEF t
  <1>5. Progress(t, e)
    BY <1>3, <1>4 DEF Progress
  <1> QED BY <1>3, <1>5 DEF t

\* The synthesis goroutine goes on or returns.
LEMMA VoiceForm ==
  ASSUME NEW u \in Turn, NEW d \in BOOLEAN, NEW e \in BOOLEAN, d => e, Progress(u, d),
         u.voice \in {"receive", "synthesize"}, NEW v \in {"receive", "returned"},
         v = "returned" => u.cancelled \/ e \/ (u.queue = 0 /\ u.pc \in {"join", "finish"})
  PROVE  LET t == [u EXCEPT !.voice = v] IN t \in Turn /\ Progress(t, e)
  <1> DEFINE t == [u EXCEPT !.voice = v]
  <1>1. /\ t \in Turn /\ t.pc = u.pc /\ t.processing = u.processing /\ t.voice = v /\ t.tts = u.tts
        /\ t.queue = u.queue /\ t.cancelled = u.cancelled /\ t.said = u.said
    BY DEF Turn
  <1>2. u.pc # "finish"
    BY DEF Progress
  <1> HIDE DEF t
  <1>3. Progress(t, e)
    BY <1>1, <1>2 DEF Progress
  <1> QED BY <1>1, <1>3 DEF t

\* A cancelled turn stays where it is.
LEMMA CancelledForm ==
  ASSUME NEW u \in Turn, NEW d \in BOOLEAN, NEW e \in BOOLEAN, d => e, Progress(u, d)
  PROVE  LET t == [u EXCEPT !.cancelled = TRUE] IN t \in Turn /\ Progress(t, e)
  <1> DEFINE t == [u EXCEPT !.cancelled = TRUE]
  <1>1. /\ t \in Turn /\ t.pc = u.pc /\ t.processing = u.processing /\ t.voice = u.voice /\ t.tts = u.tts
        /\ t.queue = u.queue /\ t.cancelled = TRUE /\ t.said = u.said
    BY DEF Turn
  <1> HIDE DEF t
  <1>2. Progress(t, e)
    BY <1>1 DEF Progress
  <1> QED BY <1>1, <1>2 DEF t

\* A frame changes nothing but the audio.
LEMMA AudioForm ==
  ASSUME NEW u \in Turn, NEW d \in BOOLEAN, NEW e \in BOOLEAN, d => e, Progress(u, d)
  PROVE  LET t == [u EXCEPT !.frames = @ + 1] IN t \in Turn /\ Progress(t, e)
  <1> DEFINE t == [u EXCEPT !.frames = @ + 1]
  <1>1. /\ t \in Turn /\ t.pc = u.pc /\ t.processing = u.processing /\ t.voice = u.voice /\ t.tts = u.tts
        /\ t.queue = u.queue /\ t.cancelled = u.cancelled /\ t.said = u.said
    BY DEF Turn
  <1> HIDE DEF t
  <1>2. Progress(t, e)
    BY <1>1 DEF Progress
  <1> QED BY <1>1, <1>2 DEF t

\* A committed turn has its worker and nothing said or queued.
LEMMA CommittedForm ==
  ASSUME NEW u \in Turn, NEW d \in BOOLEAN, NEW e \in BOOLEAN, d => e, Progress(u, d), ~u.processing
  PROVE  LET t == [u EXCEPT !.processing = TRUE, !.pc = "begin"] IN t \in Turn /\ Progress(t, e)
  <1> DEFINE t == [u EXCEPT !.processing = TRUE, !.pc = "begin"]
  <1>1. /\ t \in Turn /\ t.pc = "begin" /\ t.processing = TRUE /\ t.voice = u.voice /\ t.tts = u.tts
        /\ t.queue = u.queue /\ t.cancelled = u.cancelled /\ t.said = u.said
    BY DEF Turn, Places
  <1>2. u.voice = "none" /\ u.queue = 0 /\ u.said # "completed"
    BY DEF Progress
  <1> HIDE DEF t
  <1>3. Progress(t, e)
    BY <1>1, <1>2 DEF Progress
  <1> QED BY <1>1, <1>3 DEF t

\* A turn that was just started.
LEMMA NewForm ==
  ASSUME NEW id \in TurnIds, NEW tts \in BOOLEAN, NEW k \in Nat, NEW e \in BOOLEAN
  PROVE  NewTurn(id, tts, k) \in Turn /\ Progress(NewTurn(id, tts, k), e)
  BY DEF NewTurn, Turn, Progress, Places

-----------------------------------------------------------------------------
(* The steps of a worker, its goroutine and the frames on the active turn. *)

\* What an action knows of the turn it works on, and of the cancellation.
LEMMA Working ==
  ASSUME TurnInv, NEW c \in Conns, NEW n \in Turns(c), Works(c, n), DoneGrows
  PROVE  \E u \in Turn : \E d, e \in BOOLEAN :
           /\ u = turns[c][n] /\ d = done[c] /\ e = done'[c] /\ (d => e) /\ Progress(u, d)
           /\ Done(c, n) = (u.cancelled \/ d)
  BY WorkerActs DEF DoneGrows, TurnInv, TurnsTyped, Done

\* Begin: the worker is cancelled or goes on to the recogniser.
LEMMA BeginPuts ==
  ASSUME TurnInv, NEW c \in Conns, NEW n \in Turns(c), Begin(c, n)
  PROVE  Works(c, n) /\ Puts(c, n)
  <1>1. Works(c, n)
    BY DEF Begin, At, Works
  <1>2. active' = active /\ DoneGrows
    BY WritesCancel DEF Begin, Rest
  <1>3. PICK u \in Turn, d, e \in BOOLEAN :
          u = turns[c][n] /\ d = done[c] /\ e = done'[c] /\ (d => e) /\ Progress(u, d)
    BY <1>1, <1>2, Working
  <1>4. u.pc = "begin" /\ \E pc \in {"finish", "recognize"} : Set(c, n, [u EXCEPT !.pc = pc])
    BY <1>3 DEF Begin, At, To
  <1>5. PICK pc \in {"finish", "recognize"} : Set(c, n, [u EXCEPT !.pc = pc])
    BY <1>4
  <1>6. [u EXCEPT !.pc = pc] \in Turn /\ Progress([u EXCEPT !.pc = pc], e)
    BY <1>3, <1>4, ToPc DEF Places
  <1> QED BY <1>1, <1>2, <1>3, <1>5, <1>6 DEF Puts

\* Recognize: text, or the end of the turn.
LEMMA RecognizePuts ==
  ASSUME TurnInv, NEW c \in Conns, NEW n \in Turns(c), Recognize(c, n)
  PROVE  Works(c, n) /\ Puts(c, n)
  <1>1. Works(c, n)
    BY DEF Recognize, At, Works
  <1>2. active' = active /\ DoneGrows
    BY WritesCancel DEF Recognize, Rest
  <1>3. PICK u \in Turn, d, e \in BOOLEAN :
          u = turns[c][n] /\ d = done[c] /\ e = done'[c] /\ (d => e) /\ Progress(u, d)
    BY <1>1, <1>2, Working
  <1>4. u.pc = "recognize" /\ \E pc \in {"finish", "final"} : Set(c, n, [u EXCEPT !.pc = pc])
    BY <1>3 DEF Recognize, At, To
  <1>5. PICK pc \in {"finish", "final"} : Set(c, n, [u EXCEPT !.pc = pc])
    BY <1>4
  <1>6. [u EXCEPT !.pc = pc] \in Turn /\ Progress([u EXCEPT !.pc = pc], e)
    BY <1>3, <1>4, ToPc DEF Places
  <1> QED BY <1>1, <1>2, <1>3, <1>5, <1>6 DEF Puts

\* Final: the answer is streamed into a known or a new session, or the client
\* is gone.
LEMMA FinalPuts ==
  ASSUME TurnInv, NEW c \in Conns, NEW n \in Turns(c), Final(c, n)
  PROVE  Works(c, n) /\ Puts(c, n)
  <1>1. Works(c, n)
    BY DEF Final, At, Works
  <1>2. active' = active /\ DoneGrows
    BY WritesCancel DEF Final, Rest
  <1>3. PICK u \in Turn, d, e \in BOOLEAN :
          u = turns[c][n] /\ d = done[c] /\ e = done'[c] /\ (d => e) /\ Progress(u, d)
    BY <1>1, <1>2, Working
  <1>4. /\ u.pc = "final"
        /\ \/ Set(c, n, Streaming(u))
           \/ \E pc \in {"finish", "session"} : Set(c, n, [u EXCEPT !.pc = pc])
    BY <1>3 DEF Final, At, To
  <1>5. CASE Set(c, n, Streaming(u))
    BY <1>1, <1>2, <1>3, <1>4, <1>5, StreamingForm DEF Puts
  <1>6. ASSUME NEW pc \in {"finish", "session"}, Set(c, n, [u EXCEPT !.pc = pc])
        PROVE  Puts(c, n)
    <2>1. [u EXCEPT !.pc = pc] \in Turn /\ Progress([u EXCEPT !.pc = pc], e)
      BY <1>3, <1>4, ToPc DEF Places
    <2> QED BY <1>2, <1>3, <1>6, <2>1 DEF Puts
  <1> QED BY <1>1, <1>4, <1>5, <1>6

\* CreateSession: the answer is streamed, or the turn ends.
LEMMA CreateSessionPuts ==
  ASSUME TurnInv, NEW c \in Conns, NEW n \in Turns(c), CreateSession(c, n)
  PROVE  Works(c, n) /\ Puts(c, n)
  <1>1. Works(c, n)
    BY DEF CreateSession, At, Works
  <1>2. active' = active /\ DoneGrows
    BY WritesCancel DEF CreateSession, Rest
  <1>3. PICK u \in Turn, d, e \in BOOLEAN :
          u = turns[c][n] /\ d = done[c] /\ e = done'[c] /\ (d => e) /\ Progress(u, d)
    BY <1>1, <1>2, Working
  <1>4. u.pc = "session" /\ (Set(c, n, Streaming(u)) \/ Set(c, n, [u EXCEPT !.pc = "finish"]))
    BY <1>3 DEF CreateSession, At, To
  <1>5. CASE Set(c, n, Streaming(u))
    BY <1>1, <1>2, <1>3, <1>4, <1>5, StreamingForm DEF Puts
  <1>6. CASE Set(c, n, [u EXCEPT !.pc = "finish"])
    <2>1. [u EXCEPT !.pc = "finish"] \in Turn /\ Progress([u EXCEPT !.pc = "finish"], e)
      BY <1>3, <1>4, ToPc DEF Places
    <2> QED BY <1>1, <1>2, <1>3, <1>6, <2>1 DEF Puts
  <1> QED BY <1>4, <1>5, <1>6

\* Delta: text is sent, and a sentence taken for the queue, or the answer is
\* closed.
LEMMA DeltaPuts ==
  ASSUME TurnInv, NEW c \in Conns, NEW n \in Turns(c), Delta(c, n)
  PROVE  Works(c, n) /\ Puts(c, n)
  <1>1. Works(c, n)
    BY DEF Delta, At, Works
  <1>2. active' = active /\ DoneGrows
    BY WritesCancel DEF Delta, Rest
  <1>3. PICK u \in Turn, d, e \in BOOLEAN :
          u = turns[c][n] /\ d = done[c] /\ e = done'[c] /\ (d => e) /\ Progress(u, d)
    BY <1>1, <1>2, Working
  <1>4. /\ u.pc = "stream"
        /\ \/ u.tts /\ u.left > 0 /\ Set(c, n, [u EXCEPT !.pc = "enqueue", !.left = @ - 1])
           \/ Set(c, n, u)
           \/ Set(c, n, Closing(u, FALSE))
    BY <1>3 DEF Delta, At
  <1>5. CASE u.tts /\ u.left > 0 /\ Set(c, n, [u EXCEPT !.pc = "enqueue", !.left = @ - 1])
    <2>1. PICK t \in Turn : t = [u EXCEPT !.pc = "enqueue", !.left = @ - 1] /\ Progress(t, e)
      BY <1>3, <1>4, <1>5, SentenceForm
    <2> QED BY <1>1, <1>2, <1>3, <1>5, <2>1 DEF Puts
  <1>6. CASE Set(c, n, u)
    <2>1. Progress(u, e)
      BY <1>3 DEF Progress
    <2> QED BY <1>1, <1>2, <1>3, <1>6, <2>1 DEF Puts
  <1>7. CASE Set(c, n, Closing(u, FALSE))
    BY <1>1, <1>2, <1>3, <1>4, <1>7, ClosingForm DEF Puts
  <1> QED BY <1>4, <1>5, <1>6, <1>7

\* StreamEnds: the answer is closed, after its last sentence where there is
\* one.
LEMMA StreamEndsPuts ==
  ASSUME TurnInv, NEW c \in Conns, NEW n \in Turns(c), StreamEnds(c, n)
  PROVE  Works(c, n) /\ Puts(c, n)
  <1>1. Works(c, n)
    BY DEF StreamEnds, At, Works
  <1>2. active' = active /\ DoneGrows
    BY WritesCancel DEF StreamEnds, Rest
  <1>3. PICK u \in Turn, d, e \in BOOLEAN :
          u = turns[c][n] /\ d = done[c] /\ e = done'[c] /\ (d => e) /\ Progress(u, d)
    BY <1>1, <1>2, Working
  <1>4. /\ u.pc = "stream"
        /\ \/ u.tts /\ u.left > 0 /\ Set(c, n, [u EXCEPT !.pc = "flush", !.left = @ - 1])
           \/ \E ok \in BOOLEAN : Set(c, n, Closing(u, ok))
    BY <1>3 DEF StreamEnds, At
  <1>5. CASE u.tts /\ u.left > 0 /\ Set(c, n, [u EXCEPT !.pc = "flush", !.left = @ - 1])
    <2>1. PICK t \in Turn : t = [u EXCEPT !.pc = "flush", !.left = @ - 1] /\ Progress(t, e)
      BY <1>3, <1>4, <1>5, SentenceForm
    <2> QED BY <1>1, <1>2, <1>3, <1>5, <2>1 DEF Puts
  <1>6. ASSUME NEW ok \in BOOLEAN, Set(c, n, Closing(u, ok))
        PROVE  Puts(c, n)
    BY <1>1, <1>2, <1>3, <1>4, <1>6, ClosingForm DEF Puts
  <1> QED BY <1>1, <1>4, <1>5, <1>6

\* QueueSentence: the sentence is queued, or the turn was cancelled.
LEMMA QueueSentencePuts ==
  ASSUME TurnInv, NEW c \in Conns, NEW n \in Turns(c), QueueSentence(c, n)
  PROVE  Works(c, n) /\ Puts(c, n)
  <1>1. Works(c, n)
    BY DEF QueueSentence, Works
  <1>2. active' = active /\ DoneGrows
    BY WritesCancel DEF QueueSentence, Rest
  <1>3. PICK u \in Turn, d, e \in BOOLEAN :
          u = turns[c][n] /\ d = done[c] /\ e = done'[c] /\ (d => e) /\ Progress(u, d)
    BY <1>1, <1>2, Working
  <1>4. u.pc \in {"enqueue", "flush"} /\ (Set(c, n, Queued(u)) \/ Set(c, n, Closing(u, FALSE)))
    BY <1>3 DEF QueueSentence
  <1>5. CASE Set(c, n, Queued(u))
    BY <1>1, <1>2, <1>3, <1>4, <1>5, QueuedForm DEF Puts
  <1>6. CASE Set(c, n, Closing(u, FALSE))
    BY <1>1, <1>2, <1>3, <1>4, <1>6, ClosingForm DEF Puts
  <1> QED BY <1>4, <1>5, <1>6

\* A completed turn was not cancelled when its last event was made, so its
\* goroutine had returned from an empty, closed queue.
LEMMA ReportPuts ==
  ASSUME TurnInv, NEW c \in Conns, NEW n \in Turns(c), Report(c, n)
  PROVE  Works(c, n) /\ Puts(c, n)
  <1>1. Works(c, n)
    BY DEF Report, At, Works
  <1>2. active' = active /\ DoneGrows
    BY WritesCancel DEF Report, Rest
  <1>3. PICK u \in Turn, d, e \in BOOLEAN :
          /\ u = turns[c][n] /\ d = done[c] /\ e = done'[c] /\ (d => e) /\ Progress(u, d)
          /\ Done(c, n) = (u.cancelled \/ d)
    BY <1>1, <1>2, Working
  <1>4. u.pc = "join" /\ u.voice \in {"none", "returned"}
    BY <1>3 DEF Report, At
  <1>5. PICK say \in {"cancelled", "completed", "error"} :
          /\ say = IF Done(c, n) THEN "cancelled" ELSE IF u.ok THEN "completed" ELSE "error"
          /\ say = "completed" => ~u.cancelled /\ ~d
    BY <1>3
  <1>6. \/ Set(c, n, [u EXCEPT !.pc = "finish", !.said = say]) \/ Set(c, n, [u EXCEPT !.pc = "finish"])
    BY <1>3, <1>5 DEF Report, To
  <1>7. CASE Set(c, n, [u EXCEPT !.pc = "finish", !.said = say])
    <2>0. (d => e) /\ Progress(u, d) /\ (say = "completed" => ~u.cancelled /\ ~d)
      BY <1>3, <1>5
    <2>1. /\ [u EXCEPT !.pc = "finish", !.said = say] \in Turn
          /\ Progress([u EXCEPT !.pc = "finish", !.said = say], e)
      BY <1>4, <2>0, ReportForm
    <2> QED BY <1>1, <1>2, <1>3, <1>7, <2>1 DEF Puts
  <1>8. CASE Set(c, n, [u EXCEPT !.pc = "finish"])
    <2>1. [u EXCEPT !.pc = "finish"] \in Turn /\ Progress([u EXCEPT !.pc = "finish"], e)
      BY <1>3, <1>4, ToPc DEF Places
    <2> QED BY <1>1, <1>2, <1>3, <1>8, <2>1 DEF Puts
  <1> QED BY <1>6, <1>7, <1>8

\* A step of the synthesis goroutine is a step of a turn that is not over.
LEMMA VoiceWorks ==
  ASSUME NEW c \in Conns, NEW n \in Turns(c), Receive(c, n) \/ Drained(c, n) \/ Synthesize(c, n)
  PROVE  Works(c, n)
  BY DEF Receive, Drained, Synthesize, Voice, Works

\* Receive: the goroutine takes a sentence, and returns early only from a
\* cancelled turn.
LEMMA ReceivePuts ==
  ASSUME TurnInv, NEW c \in Conns, NEW n \in Turns(c), Receive(c, n)
  PROVE  Puts(c, n)
  <1>2. active' = active /\ DoneGrows
    BY WritesCancel DEF Receive, Rest
  <1>3. PICK u \in Turn, d, e \in BOOLEAN :
          /\ u = turns[c][n] /\ d = done[c] /\ e = done'[c] /\ (d => e) /\ Progress(u, d)
          /\ Done(c, n) = (u.cancelled \/ d)
    BY <1>2, VoiceWorks, Working
  <1>4. /\ u.voice = "receive" /\ u.queue > 0
        /\ \E v \in {"synthesize", "returned"} :
             /\ Set(c, n, [[u EXCEPT !.queue = @ - 1] EXCEPT !.voice = v])
             /\ v = "returned" => u.cancelled \/ e
    BY <1>3, WriteFails DEF Receive, Voice
  <1>5. PICK v \in {"synthesize", "returned"} :
          /\ Set(c, n, [[u EXCEPT !.queue = @ - 1] EXCEPT !.voice = v])
          /\ v = "returned" => u.cancelled \/ e
    BY <1>4
  <1>6. PICK t \in Turn : t = [[u EXCEPT !.queue = @ - 1] EXCEPT !.voice = v] /\ Progress(t, e)
    BY <1>3, <1>4, <1>5, TakenForm
  <1> QED BY <1>2, <1>3, <1>5, <1>6 DEF Puts

\* Drained: the goroutine returns from an empty, closed queue.
LEMMA DrainedPuts ==
  ASSUME TurnInv, NEW c \in Conns, NEW n \in Turns(c), Drained(c, n)
  PROVE  Puts(c, n)
  <1>2. active' = active /\ DoneGrows
    BY WritesCancel DEF Drained, Rest
  <1>3. PICK u \in Turn, d, e \in BOOLEAN :
          u = turns[c][n] /\ d = done[c] /\ e = done'[c] /\ (d => e) /\ Progress(u, d)
    BY <1>2, VoiceWorks, Working
  <1>4. /\ u.voice = "receive" /\ u.queue = 0 /\ u.pc \in {"join", "finish"}
        /\ Set(c, n, [u EXCEPT !.voice = "returned"])
    BY <1>3 DEF Drained, Voice
  <1>5. PICK t \in Turn : t = [u EXCEPT !.voice = "returned"] /\ Progress(t, e)
    BY <1>3, <1>4, VoiceForm
  <1> QED BY <1>2, <1>3, <1>4, <1>5 DEF Puts

\* Synthesize: the goroutine goes on, or returns from a cancelled turn.
LEMMA SynthesizePuts ==
  ASSUME TurnInv, NEW c \in Conns, NEW n \in Turns(c), Synthesize(c, n)
  PROVE  Puts(c, n)
  <1>2. active' = active /\ DoneGrows
    BY WritesCancel DEF Synthesize, Rest
  <1>3. PICK u \in Turn, d, e \in BOOLEAN :
          /\ u = turns[c][n] /\ d = done[c] /\ e = done'[c] /\ (d => e) /\ Progress(u, d)
          /\ Done(c, n) = (u.cancelled \/ d)
    BY <1>2, VoiceWorks, Working
  <1>4. /\ u.voice = "synthesize"
        /\ \E v \in {"receive", "returned"} :
             Set(c, n, [u EXCEPT !.voice = v]) /\ (v = "returned" => u.cancelled \/ e)
    BY <1>3, WriteFails DEF Synthesize, Voice
  <1>5. PICK v \in {"receive", "returned"} :
          Set(c, n, [u EXCEPT !.voice = v]) /\ (v = "returned" => u.cancelled \/ e)
    BY <1>4
  <1>6. PICK t \in Turn : t = [u EXCEPT !.voice = v] /\ Progress(t, e)
    BY <1>3, <1>4, <1>5, VoiceForm
  <1> QED BY <1>2, <1>3, <1>5, <1>6 DEF Puts

\* TimesOut: the turn of a running worker is cancelled.
LEMMA TimesOutPuts ==
  ASSUME TurnInv, NEW c \in Conns, NEW n \in Turns(c), TimesOut(c, n)
  PROVE  Works(c, n) /\ Puts(c, n)
  <1>1. Works(c, n)
    BY DEF TimesOut, Works
  <1>2. active' = active /\ DoneGrows
    BY WritesCancel DEF TimesOut, Rest
  <1>3. PICK u \in Turn, d, e \in BOOLEAN :
          u = turns[c][n] /\ d = done[c] /\ e = done'[c] /\ (d => e) /\ Progress(u, d)
    BY <1>1, <1>2, Working
  <1>4. Set(c, n, [u EXCEPT !.cancelled = TRUE])
    BY <1>3 DEF TimesOut
  <1>5. [u EXCEPT !.cancelled = TRUE] \in Turn /\ Progress([u EXCEPT !.cancelled = TRUE], e)
    BY <1>3, CancelledForm
  <1> QED BY <1>1, <1>2, <1>3, <1>4, <1>5 DEF Puts

\* The active turn, which the reader's frames are about.
LEMMA ActiveTurn ==
  ASSUME TurnInv, NEW c \in Conns, active[c] # NoTurn, DoneGrows
  PROVE  \E n \in Turns(c) : \E u \in Turn : \E d, e \in BOOLEAN :
           /\ n = active[c] /\ u = turns[c][n]
           /\ d = done[c] /\ e = done'[c] /\ (d => e) /\ Progress(u, d)
  <1>1. active[c] \in Turns(c) /\ turns[c][active[c]] \in Turn
    BY DEF TurnInv, Owned
  <1>2. Progress(turns[c][active[c]], done[c])
    BY <1>1 DEF TurnInv
  <1> QED BY <1>1, <1>2 DEF DoneGrows, TurnInv, TurnsTyped

\* Audio moves the active turn on, or cancels it.
LEMMA AudioInv ==
  ASSUME TurnInv, NEW c \in Conns, Audio(c)
  PROVE  TurnInv'
  <1>1. active[c] # NoTurn /\ active' = active
    BY DEF Audio
  <1>2. DoneGrows
    BY WritesCancel DEF Audio
  <1>3. PICK n \in Turns(c), u \in Turn, d, e \in BOOLEAN :
          /\ n = active[c] /\ u = turns[c][n]
          /\ d = done[c] /\ e = done'[c] /\ (d => e) /\ Progress(u, d)
    BY <1>1, <1>2, ActiveTurn
  <1>4. Set(c, n, [u EXCEPT !.frames = @ + 1]) \/ Set(c, n, [u EXCEPT !.cancelled = TRUE])
    BY <1>3 DEF Audio, Current
  <1>5. ASSUME Set(c, n, [u EXCEPT !.frames = @ + 1]) PROVE Puts(c, n)
    <2>1. [u EXCEPT !.frames = @ + 1] \in Turn /\ Progress([u EXCEPT !.frames = @ + 1], e)
      BY <1>3, AudioForm
    <2> QED BY <1>1, <1>2, <1>3, <1>5, <2>1 DEF Puts
  <1>6. ASSUME Set(c, n, [u EXCEPT !.cancelled = TRUE]) PROVE Puts(c, n)
    <2>1. [u EXCEPT !.cancelled = TRUE] \in Turn /\ Progress([u EXCEPT !.cancelled = TRUE], e)
      BY <1>3, CancelledForm
    <2> QED BY <1>1, <1>2, <1>3, <1>6, <2>1 DEF Puts
  <1>7. Puts(c, n)
    BY <1>4, <1>5, <1>6
  <1> QED BY <1>3, <1>7, PutsInv

\* Commit gives the active turn its worker.
LEMMA CommitInv ==
  ASSUME TurnInv, NEW c \in Conns, NEW id \in TurnIds, Commit(c, id)
  PROVE  TurnInv'
  <1>1. active[c] # NoTurn /\ active' = active
    BY DEF Commit
  <1>2. DoneGrows
    BY WritesCancel DEF Commit
  <1>3. PICK n \in Turns(c), u \in Turn, d, e \in BOOLEAN :
          /\ n = active[c] /\ u = turns[c][n]
          /\ d = done[c] /\ e = done'[c] /\ (d => e) /\ Progress(u, d)
    BY <1>1, <1>2, ActiveTurn
  <1>4. ~u.processing /\ Set(c, n, [u EXCEPT !.processing = TRUE, !.pc = "begin"])
    BY <1>3 DEF Commit, Current
  <1>5. PICK t \in Turn : t = [u EXCEPT !.processing = TRUE, !.pc = "begin"] /\ Progress(t, e)
    BY <1>3, <1>4, CommittedForm
  <1>6. Puts(c, n)
    BY <1>1, <1>2, <1>3, <1>4, <1>5 DEF Puts
  <1> QED BY <1>3, <1>6, PutsInv

\* A turn leaves its place: it is over, or was never committed.
LEMMA DropsInv ==
  ASSUME TurnInv, NEW c \in Conns, NEW n \in Turns(c), n = active[c], DoneGrows,
         NEW t \in {Over} \cup Turn, Set(c, n, t), t.pc \in {"none", "done"},
         t \in Turn => Progress(t, done'[c]), active' = [active EXCEPT ![c] = NoTurn]
  PROVE  TurnInv'
  <1>2. /\ turns' \in [Conns -> Seq({Over} \cup Turn)]
        /\ turns'[c][n] = t
        /\ \A d \in Conns : Turns(d)' = Turns(d)
        /\ \A d \in Conns, m \in Nat : m \in Turns(d) /\ (d # c \/ m # n) => turns'[d][m] = turns[d][m]
    BY SetEffect
  <1>3. /\ active \in [Conns -> Nat] /\ active'[c] = NoTurn /\ \A d \in Conns : d # c => active'[d] = active[d]
        /\ active' \in [Conns -> Nat]
        /\ done' \in [Conns -> BOOLEAN] /\ done \in [Conns -> BOOLEAN]
    BY DEF DoneGrows, TurnInv, TurnsTyped, NoTurn
  <1>4. TurnsTyped'
    BY <1>2, <1>3 DEF TurnsTyped
  <1>5. ASSUME NEW d \in Conns
        PROVE  Owned(d)'
    <2>1. Owned(d) /\ Turns(d)' = Turns(d)
      BY <1>2 DEF TurnInv
    <2>2. \A m \in Turns(d) : m \in Nat
      BY DEF Turns
    <2>3. CASE d = c
      <3>1. \A m \in Turns(d) : turns'[d][m].pc \in {"none", "done"}
        BY <1>2, <2>1, <2>2, <2>3 DEF Owned
      <3> QED BY <1>3, <2>1, <2>3, <3>1 DEF Owned
    <2>4. CASE d # c
      <3>1. \A m \in Turns(d) : turns'[d][m] = turns[d][m]
        BY <1>2, <2>2, <2>4
      <3>2. active'[d] = active[d]
        BY <1>3, <2>4
      <3> QED BY <2>1, <3>1, <3>2 DEF Owned
    <2> QED BY <2>3, <2>4
  <1>6. ASSUME NEW d \in Conns, NEW m \in Turns(d)', turns'[d][m] \in Turn
        PROVE  Progress(turns'[d][m], done'[d])
    <2>1. m \in Turns(d) /\ m \in Nat
      BY <1>2, <1>6 DEF Turns
    <2>2. CASE d = c /\ m = n
      BY <1>2, <1>6, <2>2
    <2>3. CASE d # c \/ m # n
      <3>1. turns'[d][m] = turns[d][m] /\ turns[d][m] \in Turn
        BY <1>2, <1>6, <2>1, <2>3
      <3>2. Progress(turns[d][m], done[d])
        BY <2>1, <3>1 DEF TurnInv
      <3>3. done[d] \in BOOLEAN /\ done'[d] \in BOOLEAN /\ (done[d] => done'[d])
        BY <1>3 DEF DoneGrows
      <3>4. Progress(turns[d][m], done'[d])
        BY <3>1, <3>2, <3>3 DEF Progress
      <3> QED BY <3>1, <3>4
    <2> QED BY <2>2, <2>3
  <1> QED BY <1>4, <1>5, <1>6 DEF TurnInv

\* Interrupt gives up a turn only when no worker has it.
LEMMA InterruptInv ==
  ASSUME TurnInv, NEW c \in Conns, NEW id \in TurnIds, Interrupt(c, id)
  PROVE  TurnInv'
  <1>1. active[c] # NoTurn
    BY DEF Interrupt
  <1>2. DoneGrows
    BY WritesCancel DEF Interrupt
  <1>3. PICK n \in Turns(c), u \in Turn, d, e \in BOOLEAN :
          /\ n = active[c] /\ u = turns[c][n]
          /\ d = done[c] /\ e = done'[c] /\ (d => e) /\ Progress(u, d)
    BY <1>1, <1>2, ActiveTurn
  <1>4. /\ Set(c, n, [u EXCEPT !.cancelled = TRUE])
        /\ active' = IF u.processing THEN active ELSE [active EXCEPT ![c] = NoTurn]
    BY <1>3 DEF Interrupt, Current
  <1>5. [u EXCEPT !.cancelled = TRUE] \in Turn /\ Progress([u EXCEPT !.cancelled = TRUE], e)
    BY <1>3, CancelledForm
  <1>6. CASE u.processing
    <2>1. Puts(c, n)
      BY <1>2, <1>3, <1>4, <1>5, <1>6 DEF Puts
    <2> QED BY <1>3, <2>1, PutsInv
  <1>7. CASE ~u.processing
    <2>1. u.pc = "none"
      BY <1>3, <1>7 DEF Progress
    <2>2. PICK t \in Turn : t = [u EXCEPT !.cancelled = TRUE]
      BY <1>5
    <2>3. t.pc = "none" /\ Set(c, n, t) /\ Progress(t, done'[c])
      BY <1>3, <1>4, <1>5, <2>1, <2>2 DEF Turn
    <2>4. active' = [active EXCEPT ![c] = NoTurn]
      BY <1>4, <1>7
    <2> QED BY <1>2, <1>3, <2>3, <2>4, DropsInv
  <1> QED BY <1>6, <1>7

\* FinishTurn frees the connection its own turn was active on.
LEMMA FinishTurnInv ==
  ASSUME TurnInv, NEW c \in Conns, NEW n \in Turns(c), FinishTurn(c, n)
  PROVE  TurnInv'
  <1>1. Works(c, n)
    BY DEF FinishTurn, At, Works
  <1>2. DoneGrows
    BY WritesCancel DEF FinishTurn
  <1>3. n = active[c]
    BY <1>1, WorkerActs
  <1>4. Over.pc = "done" /\ Over \notin Turn
    BY DEF Over, Turn, Places
  <1>5. Set(c, n, Over) /\ active' = [active EXCEPT ![c] = NoTurn]
    BY <1>3 DEF FinishTurn
  <1> QED BY <1>2, <1>3, <1>4, <1>5, DropsInv

\* A turn is started only when no other is active.
LEMMA StartTurnInv ==
  ASSUME TurnInv, VoiceAssumption, NEW c \in Conns, StartTurn(c)
  PROVE  TurnInv'
  <1>1. DoneGrows
    BY WritesCancel DEF StartTurn
  <1>2. turns \in [Conns -> Seq({Over} \cup Turn)] /\ active \in [Conns -> Nat] /\ active[c] = NoTurn
    BY DEF TurnInv, TurnsTyped, StartTurn
  <1>3. PICK s \in Seq({Over} \cup Turn) : s = turns[c]
    BY <1>2
  <1>4. Len(s) \in Nat
    BY LenProperties
  <1>5. PICK k \in Nat : k = MaxSentences[Len(s) + 1]
    <2>1. Len(s) < MaxTurns[c] /\ MaxTurns[c] \in Nat /\ MaxTurns[c] <= Len(MaxSentences)
      BY <1>3 DEF StartTurn, VoiceAssumption
    <2>2. MaxSentences \in Seq(Nat) /\ Len(MaxSentences) \in Nat
      BY LenProperties DEF VoiceAssumption
    <2>3. Len(s) + 1 \in 1..Len(MaxSentences)
      BY <1>4, <2>1, <2>2
    <2> QED BY <2>2, <2>3, ElementOfSeq
  <1>6. PICK id \in TurnIds, tts \in BOOLEAN : turns' = [turns EXCEPT ![c] = Append(s, NewTurn(id, tts, k))]
    BY <1>2, <1>3, <1>5 DEF StartTurn
  <1>7. PICK t \in Turn : t = NewTurn(id, tts, k) /\ t.pc = "none" /\ Progress(t, done'[c])
    <2>1. PICK e \in BOOLEAN : e = done'[c]
      BY <1>1 DEF DoneGrows
    <2>2. NewTurn(id, tts, k) \in Turn /\ Progress(NewTurn(id, tts, k), e)
      BY NewForm
    <2>3. NewTurn(id, tts, k).pc = "none"
      BY DEF NewTurn
    <2> QED BY <2>1, <2>2, <2>3
  <1>8. PICK r : r = Append(s, t)
    OBVIOUS
  <1>9. PICK n \in Nat : n = Len(s) + 1
    BY <1>4
  <1>10. /\ r \in Seq({Over} \cup Turn) /\ Len(r) = n /\ r[n] = t
         /\ \A m \in 1..Len(s) : r[m] = s[m]
    BY <1>8, <1>9, AppendProperties
  <1>11. turns' = [turns EXCEPT ![c] = r] /\ active' = [active EXCEPT ![c] = n]
    BY <1>3, <1>6, <1>7, <1>8, <1>9 DEF StartTurn
  <1>12. /\ turns'[c] = r /\ active'[c] = n
         /\ \A d \in Conns : d # c => turns'[d] = turns[d] /\ active'[d] = active[d]
    BY <1>2, <1>11
  <1>13. turns' \in [Conns -> Seq({Over} \cup Turn)] /\ active' \in [Conns -> Nat]
    BY <1>2, <1>9, <1>10, <1>11
  <1>14. TurnsTyped'
    BY <1>1, <1>13 DEF TurnsTyped, DoneGrows
  <1>15. Turns(c)' = 1..n /\ \A m \in 1..n : m = n \/ m \in 1..Len(s)
    BY <1>4, <1>9, <1>10, <1>12 DEF Turns
  <1>16. ASSUME NEW d \in Conns
         PROVE  Owned(d)'
    <2>1. Owned(d)
      BY DEF TurnInv
    <2>2. CASE d = c
      <3>0. Turns(c) = 1..Len(s) /\ \A m \in 1..Len(s) : m # NoTurn
        BY <1>3, <1>4 DEF Turns, NoTurn
      <3>1. \A m \in 1..Len(s) : s[m].pc \in {"none", "done"}
        BY <1>2, <1>3, <2>1, <2>2, <3>0 DEF Owned
      <3>2. \A m \in 1..n : m # n => turns'[d][m].pc \in {"none", "done"}
        BY <1>10, <1>12, <1>15, <2>2, <3>1
      <3>3. n \in 1..n
        BY <1>4, <1>9
      <3> QED BY <1>7, <1>10, <1>12, <1>15, <2>2, <3>2, <3>3 DEF Owned
    <2>3. CASE d # c
      <3>1. turns'[d] = turns[d] /\ active'[d] = active[d]
        BY <1>12, <2>3
      <3> QED BY <2>1, <3>1 DEF Owned, Turns
    <2> QED BY <2>2, <2>3
  <1>17. ASSUME NEW d \in Conns, NEW m \in Turns(d)', turns'[d][m] \in Turn
         PROVE  Progress(turns'[d][m], done'[d])
    <2>1. CASE d = c /\ m = n
      BY <1>7, <1>10, <1>12, <2>1
    <2>2. CASE d # c \/ m # n
      <3>1. m \in Turns(d) /\ turns'[d][m] = turns[d][m] /\ turns[d][m] \in Turn
        <4>1. CASE d = c
          <5>1. m \in 1..Len(s)
            BY <1>15, <1>17, <2>2, <4>1
          <5> QED BY <1>3, <1>10, <1>12, <1>17, <4>1, <5>1 DEF Turns
        <4>2. CASE d # c
          BY <1>12, <1>17, <4>2 DEF Turns
        <4> QED BY <4>1, <4>2
      <3>2. Progress(turns[d][m], done[d])
        BY <3>1 DEF TurnInv
      <3>3. done[d] \in BOOLEAN /\ done'[d] \in BOOLEAN /\ (done[d] => done'[d])
        BY <1>1 DEF DoneGrows, TurnInv, TurnsTyped
      <3>4. Progress(turns[d][m], done'[d])
        BY <3>1, <3>2, <3>3 DEF Progress
      <3> QED BY <3>1, <3>4
    <2> QED BY <2>1, <2>2
  <1> QED BY <1>14, <1>16, <1>17 DEF TurnInv

\* A step that leaves the turns alone, and may cancel connections.
LEMMA TurnsStay ==
  ASSUME TurnInv, UNCHANGED turnVars, DoneGrows
  PROVE  TurnInv'
  <1>1. turns' = turns /\ active' = active /\ \A c \in Conns : Turns(c)' = Turns(c)
    BY DEF turnVars, Turns
  <1>2. TurnsTyped' /\ \A c \in Conns : Owned(c)'
    BY <1>1 DEF TurnInv, TurnsTyped, Owned, DoneGrows
  <1>3. ASSUME NEW c \in Conns, NEW n \in Turns(c), turns[c][n] \in Turn
        PROVE  Progress(turns[c][n], done'[c])
    <2>1. Progress(turns[c][n], done[c])
      BY <1>3 DEF TurnInv
    <2>2. done[c] \in BOOLEAN /\ done'[c] \in BOOLEAN /\ (done[c] => done'[c])
      BY DEF DoneGrows, TurnInv, TurnsTyped
    <2> QED BY <1>3, <2>1, <2>2 DEF Progress
  <1> QED BY <1>1, <1>2, <1>3 DEF TurnInv

\* The turns end with the process.
LEMMA NoTurnsInv ==
  ASSUME turns' = [c \in Conns |-> <<>>], active' = [c \in Conns |-> NoTurn],
         done' \in [Conns -> BOOLEAN]
  PROVE  TurnInv'
  <1>1. <<>> \in Seq({Over} \cup Turn) /\ Len(<<>>) = 0
    OBVIOUS
  <1>2. TurnsTyped'
    BY <1>1 DEF TurnsTyped, NoTurn
  <1>3. \A c \in Conns : Turns(c)' = {} /\ active'[c] = NoTurn
    BY <1>1 DEF Turns
  <1>4. \A c \in Conns : Owned(c)'
    BY <1>3 DEF Owned
  <1> QED BY <1>2, <1>3, <1>4 DEF TurnInv

-----------------------------------------------------------------------------
(* The system.                                                             *)

\* NewHub is consistent.
LEMMA HubInitInv ==
  ASSUME HubAssumption, Init
  PROVE  HubInv
  <1>1. Inside = {}
    BY DEF Init, Inside
  <1>2. IsFiniteSet(Inside) /\ Cardinality(Inside) = 0 /\ Cardinality({}) = 0
    BY <1>1, FS_EmptySet
  <1>3. /\ handler \in [Conns -> Phases] /\ byUser \in [Users -> Nat] /\ empty \in Nat
        /\ closed \subseteq 0..empty /\ empty \in closed /\ cancels = {}
        /\ \A u \in Users : byUser[u] = 0
    BY DEF Init, HubInit, Phases
  <1>4. DrainIsKept /\ server # "drained"
    BY DEF DrainIsKept, Init
  <1>5. \A u \in Users : {d \in Inside : UserOf[d] = u} = {}
    BY <1>1
  <1>6. 0 <= MaxGlobal /\ 0 <= MaxPerUser
    BY DEF HubAssumption
  <1>7. HubFollowsHandlers
    BY <1>1, <1>2, <1>3, <1>4, <1>5, <1>6 DEF HubFollowsHandlers
  <1> QED BY <1>2, <1>3, <1>4, <1>7 DEF HubInv

\* No connection starts with a turn.
LEMMA TurnInitInv ==
  ASSUME Init
  PROVE  TurnInv
  <1>1. <<>> \in Seq({Over} \cup Turn) /\ Len(<<>>) = 0
    OBVIOUS
  <1>2. TurnsTyped
    BY <1>1 DEF TurnsTyped, NoTurn, Init
  <1>3. \A c \in Conns : Turns(c) = {} /\ active[c] = NoTurn
    BY <1>1 DEF Turns, Init
  <1>4. \A c \in Conns : Owned(c)
    BY <1>3 DEF Owned
  <1> QED BY <1>2, <1>3, <1>4 DEF TurnInv

\* The steps of the handler goroutine.
LEMMA ServeInv ==
  ASSUME IInv, HubAssumption, NEW c \in Conns,
         Accept(c) \/ Upgrade(c) \/ JoinHub(c) \/ Hangup(c) \/ Disconnect(c) \/ LeaveHub(c) \/ Watch(c)
         \/ Reply(c) \/ Reject(c)
  PROVE  IInv'
  <1>0. HubInv /\ TurnInv
    BY DEF IInv
  <1>1. UNCHANGED turnVars
    BY DEF Accept, Upgrade, JoinHub, Hangup, Disconnect, LeaveHub, Watch, Reply, Reject
  <1>2. DoneGrows
    <2>1. CASE Disconnect(c)
      BY <1>0, <2>1 DEF Disconnect, DoneGrows, TurnInv, TurnsTyped
    <2>2. CASE Reply(c) \/ Reject(c)
      BY <1>0, <2>2, WritesCancel DEF Reply, Reject
    <2>3. CASE Accept(c) \/ Upgrade(c) \/ JoinHub(c) \/ Hangup(c) \/ LeaveHub(c) \/ Watch(c)
      <3>1. UNCHANGED done
        BY <2>3 DEF Accept, Upgrade, JoinHub, Hangup, LeaveHub, Watch, netVars
      <3> QED BY <1>0, <3>1, WritesCancel
    <2> QED BY <2>1, <2>2, <2>3
  <1>3. TurnInv'
    BY <1>0, <1>1, <1>2, TurnsStay
  <1>4. HubInv'
    <2>1. CASE Accept(c)
      BY <1>0, <2>1, HandlerMoves DEF Accept, In, Phases, mainVars
    <2>2. CASE Upgrade(c)
      BY <1>0, <2>2, HandlerMoves DEF Upgrade, In, Phases, mainVars
    <2>3. CASE JoinHub(c)
      <3>1. handler[c] = "register" /\ UNCHANGED <<server, waitOn>>
        BY <2>3 DEF JoinHub, In, mainVars
      <3>2. CASE Register(c) /\ Become(c, "read")
        BY <1>0, <3>1, <3>2, RegisterInv
      <3>3. CASE Become(c, "left") /\ UNCHANGED hubVars
        BY <1>0, <3>1, <3>3, HandlerMoves DEF Phases
      <3> QED BY <2>3, <3>2, <3>3 DEF JoinHub
    <2>4. CASE Hangup(c)
      BY <1>0, <2>4, HandlerMoves DEF Hangup, In, Phases, mainVars
    <2>5. CASE Disconnect(c)
      BY <1>0, <2>5, HandlerMoves DEF Disconnect, In, Phases, mainVars
    <2>6. CASE LeaveHub(c)
      BY <1>0, <2>6, ReleaseInv DEF LeaveHub, In, mainVars
    <2>7. CASE Watch(c) \/ Reply(c)
      BY <1>0, <2>7, HubStays DEF Watch, Reply, mainVars
    <2>8. CASE Reject(c)
      BY <1>0, <2>8, HandlerMoves DEF Reject, Reading, In, Phases, mainVars
    <2> QED BY <2>1, <2>2, <2>3, <2>4, <2>5, <2>6, <2>7, <2>8
  <1> QED BY <1>3, <1>4 DEF IInv

\* The steps on a turn leave the hub alone.
LEMMA TurnStepHub ==
  ASSUME HubInv, NEW c \in Conns, NEW n, NEW id,
         \/ StartTurn(c) \/ Audio(c) \/ Commit(c, id) \/ Interrupt(c, id)
         \/ ProcessTurn(c, n) \/ SynthesizeQueued(c, n) \/ TimesOut(c, n)
  PROVE  HubInv'
  <1>1. CASE StartTurn(c) \/ Audio(c) \/ Commit(c, id) \/ Interrupt(c, id)
    BY <1>1, HubStays DEF StartTurn, Audio, Commit, Interrupt, mainVars
  <1>2. CASE ProcessTurn(c, n)
    <2>1. UNCHANGED <<hubVars, handler, mainVars>>
      BY <1>2 DEF ProcessTurn, Begin, Recognize, Final, CreateSession, Delta, StreamEnds, QueueSentence,
                  Report, FinishTurn, Rest
    <2> QED BY <2>1, HubStays DEF mainVars
  <1>3. CASE SynthesizeQueued(c, n) \/ TimesOut(c, n)
    <2>1. UNCHANGED <<hubVars, handler, mainVars>>
      BY <1>3 DEF SynthesizeQueued, Receive, Drained, Synthesize, TimesOut, Rest
    <2> QED BY <2>1, HubStays DEF mainVars
  <1> QED BY <1>1, <1>2, <1>3

\* The steps of the goroutines of a turn.
LEMMA WorkInv ==
  ASSUME TurnInv, NEW c \in Conns, NEW n \in Turns(c),
         ProcessTurn(c, n) \/ SynthesizeQueued(c, n) \/ TimesOut(c, n)
  PROVE  TurnInv'
  <1>1. CASE FinishTurn(c, n)
    BY <1>1, FinishTurnInv
  <1>2. CASE ~FinishTurn(c, n)
    <2>1. Works(c, n) /\ Puts(c, n)
      <3>1. CASE ProcessTurn(c, n)
        BY <1>2, <3>1, BeginPuts, RecognizePuts, FinalPuts, CreateSessionPuts, DeltaPuts, StreamEndsPuts,
           QueueSentencePuts, ReportPuts DEF ProcessTurn
      <3>2. CASE SynthesizeQueued(c, n)
        BY <3>2, VoiceWorks, ReceivePuts, DrainedPuts, SynthesizePuts DEF SynthesizeQueued
      <3>3. CASE TimesOut(c, n)
        BY <3>3, TimesOutPuts
      <3> QED BY <3>1, <3>2, <3>3
    <2>2. n = active[c]
      BY <2>1, WorkerActs
    <2> QED BY <2>1, <2>2, PutsInv
  <1> QED BY <1>1, <1>2

\* The steps of main.
LEMMA MainInv ==
  ASSUME IInv, HubAssumption, Stop \/ CancelNext \/ ShutdownReturns \/ WaitReturns \/ Exit
  PROVE  IInv'
  <1>0. HubInv /\ TurnInv
    BY DEF IInv
  <1>1. CASE Exit
    <2>1. TurnInv'
      BY <1>1, NoTurnsInv DEF Exit
    <2> QED BY <1>1, <2>1, ExitHub DEF IInv
  <1>2. CASE Stop \/ CancelNext \/ ShutdownReturns \/ WaitReturns
    <2>1. UNCHANGED turnVars
      BY <1>2 DEF Stop, CancelNext, ShutdownReturns, WaitReturns
    <2>2. done \in [Conns -> BOOLEAN]
      BY <1>0 DEF TurnInv, TurnsTyped
    <2>3. done' = done \/ \E c \in toCancel : done' = [done EXCEPT ![c] = TRUE]
      BY <1>2 DEF Stop, CancelNext, ShutdownReturns, WaitReturns, netVars
    <2>4. DoneGrows
      BY <2>2, <2>3 DEF DoneGrows
    <2> QED BY <1>0, <1>2, <2>1, <2>4, TurnsStay, MainHub DEF IInv
  <1> QED BY <1>1, <1>2

\* A step that changes nothing.
LEMMA StutterInv ==
  ASSUME IInv, UNCHANGED vars
  PROVE  IInv'
  <1>1. HubInv /\ TurnInv
    BY DEF IInv
  <1>2. UNCHANGED <<hubVars, handler, server, waitOn>> /\ UNCHANGED turnVars /\ UNCHANGED done
    BY DEF vars, mainVars, netVars
  <1>3. DoneGrows
    BY <1>1, <1>2 DEF DoneGrows, TurnInv, TurnsTyped
  <1> QED BY <1>1, <1>2, <1>3, HubStays, TurnsStay DEF IInv

\* Every step keeps the invariant.
LEMMA NextInv ==
  ASSUME IInv, HubAssumption, VoiceAssumption, [Next]_vars
  PROVE  IInv'
  <1>0. HubInv /\ TurnInv
    BY DEF IInv
  <1>1. ASSUME NEW c \in Conns, Serve(c) \/ Watch(c)
        PROVE  IInv'
    BY <1>1, ServeInv DEF Serve
  <1>2. ASSUME NEW c \in Conns, Client(c)
        PROVE  IInv'
    <2>1. CASE Accept(c) \/ Hangup(c) \/ Reply(c) \/ Reject(c)
      BY <2>1, ServeInv
    <2>2. CASE StartTurn(c) \/ Audio(c)
      BY <1>0, <2>2, TurnStepHub, StartTurnInv, AudioInv DEF IInv
    <2>3. ASSUME NEW id \in TurnIds, Commit(c, id) \/ Interrupt(c, id)
          PROVE  IInv'
      BY <1>0, <2>3, TurnStepHub, CommitInv, InterruptInv DEF IInv
    <2> QED BY <1>2, <2>1, <2>2, <2>3 DEF Client
  <1>3. ASSUME NEW c \in Conns, NEW n \in Turns(c),
               ProcessTurn(c, n) \/ SynthesizeQueued(c, n) \/ TimesOut(c, n)
        PROVE  IInv'
    BY <1>0, <1>3, TurnStepHub, WorkInv DEF IInv
  <1>4. CASE Stop \/ CancelNext \/ ShutdownReturns \/ WaitReturns \/ Exit
    BY <1>4, MainInv
  <1>5. CASE UNCHANGED vars
    BY <1>5, StutterInv
  <1> QED BY <1>1, <1>2, <1>3, <1>4, <1>5 DEF Next

-----------------------------------------------------------------------------
(* The theorems.                                                           *)

\* Hub and turns stay consistent, whatever clients, workers and main do: the
\* inductive invariant of the voice endpoint.
THEOREM VoiceInvariant == Spec => []IInv
  <1>1. Init => IInv
    BY HubAssumption, HubInitInv, TurnInitInv DEF IInv
  <1>2. IInv /\ [Next]_vars => IInv'
    BY HubAssumption, VoiceAssumption, NextInv
  <1> QED BY <1>1, <1>2, PTL DEF Spec

\* Hub.Register and the release it returns keep the caps and the empty channel
\* in step with the handlers, so that Hub.Wait returns only when the last handler
\* has released its slot.
THEOREM HubStaysInStep == Spec => []HubFollowsHandlers
  <1>1. IInv => HubFollowsHandlers
    BY DEF IInv, HubInv
  <1> QED BY <1>1, VoiceInvariant, PTL

\* processTurn has its connection's active turn until it returns: no frame of the
\* client starts a second worker.
THEOREM WorkersOwnTheirTurn == Spec => []WorkerOwnsTurn
  <1>1. IInv => WorkerOwnsTurn
    <2> SUFFICES ASSUME IInv, NEW c \in Conns, Running(c) # {}
                 PROVE  Running(c) = {active[c]}
      BY DEF WorkerOwnsTurn
    <2>1. Owned(c)
      BY DEF IInv, TurnInv
    <2> QED BY <2>1 DEF Owned, Running
  <1> QED BY <1>1, VoiceInvariant, PTL

\* streamResponse reports turn.completed only when synthesizeQueued has returned
\* from the closed queue with nothing left in it.
THEOREM CompletedTurnsAreSpoken == Spec => []CompletedIsSpoken
  <1>1. IInv => CompletedIsSpoken
    <2> SUFFICES ASSUME IInv, NEW c \in Conns, NEW n \in 1..MaxTurns[c], n \in Running(c),
                        turns[c][n].said = "completed"
                 PROVE  turns[c][n].queue = 0 /\ turns[c][n].voice \in {"none", "returned"}
      BY DEF CompletedIsSpoken
    <2>1. n \in Turns(c) /\ Works(c, n) /\ TurnInv
      BY DEF Running, Works, IInv
    <2>2. Progress(turns[c][n], done[c])
      BY <2>1, WorkerActs
    <2> QED BY <2>2 DEF Progress
  <1> QED BY <1>1, VoiceInvariant, PTL
=============================================================================
