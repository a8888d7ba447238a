---------------------------- MODULE ChatSession -----------------------------
(***************************************************************************)
(* The requests of one chat session (service/session): the gate that       *)
(* serializes them, the in-memory model context they share                 *)
(* (common/aihelper) and the messages they persist (PersistMessage), over  *)
(* the queue of MessageQueue.                                              *)
(***************************************************************************)
EXTENDS MessageQueue

CONSTANTS
  NoGate,        \* the session has no gate in the registry
  MaxHistory,    \* maxInMemoryHistoryMessages and maxModelHistoryItems
  MaxCrashes,    \* bound on process restarts
  MaxEvictions   \* bound on evictions of the idle helper

ASSUME GateAssumption == NoGate \notin Turns
ASSUME SessionAssumption ==
  MaxHistory \in Nat \ {0} /\ {MaxCrashes, MaxEvictions} \subseteq Nat

VARIABLES
  registry,  \* the session's entry of sessionRequestGates
  gates,     \* the gates, named after the request that made them
  turn,      \* per request: where it is
  helper,    \* the AIHelper of the session, if it is resident
  saved,     \* messages whose PersistMessage returned without an error
  lifetime   \* restarts and evictions so far

gateVars == <<registry, gates>>
vars == <<queueVars, registry, gates, turn, helper, saved, lifetime>>

Gate == [refs : Nat, token : BOOLEAN]
Waiting == {"waiting"}
Inside == {"load", "say", "publish", "store", "model", "unlock"}
Pcs == {"new", "release", "done"} \cup Waiting \cup Inside
Turn == [pc : Pcs, gate : Turns \cup {NoGate}, who : {"user", "assistant"},
         id : Nat, tries : 0..1]

NewGate == [refs |-> 0, token |-> FALSE]
NewTurn == [pc |-> "new", gate |-> NoGate, who |-> "user", id |-> NoId, tries |-> 0]
NoHelper == [resident |-> FALSE, messages |-> <<>>]

Init ==
  /\ QueueInit
  /\ registry = NoGate
  /\ gates = [g \in Turns |-> NewGate]
  /\ turn = [t \in Turns |-> NewTurn]
  /\ helper = NoHelper
  /\ saved = {}
  /\ lifetime = [crashes |-> 0, evictions |-> 0]

At(t, pc) == turn[t].pc = pc
Goto(t, pc) == turn' = [turn EXCEPT ![t].pc = pc]

\* The message the request is adding, and its payload for the queue.
Mine(t) == <<t, turn[t].who>>
Fresh(t) == [msg |-> Mine(t), id |-> turn[t].id, retries |-> 0]

\* The newest messages a context has room for.
Recent(seq) == SubSeq(seq, IF Len(seq) > MaxHistory THEN Len(seq) - MaxHistory + 1 ELSE 1, Len(seq))

-----------------------------------------------------------------------------
(* lockSession and releaseSessionGate.                                     *)

Register(t) ==
  /\ At(t, "new")
  /\ LET g == IF registry = NoGate THEN t ELSE registry
     IN /\ registry' = g
        /\ gates' = [gates EXCEPT ![g].refs = @ + 1]
        /\ turn' = [turn EXCEPT ![t].pc = "waiting", ![t].gate = g]
  /\ UNCHANGED <<queueVars, helper, saved, lifetime>>

TakeToken(t) ==
  /\ At(t, "waiting") /\ ~gates[turn[t].gate].token
  /\ gates' = [gates EXCEPT ![turn[t].gate].token = TRUE]
  /\ Goto(t, "load")
  /\ UNCHANGED <<queueVars, registry, helper, saved, lifetime>>

\* The request's context ends while it waits.
GiveUp(t) ==
  /\ At(t, "waiting")
  /\ Goto(t, "release")
  /\ UNCHANGED <<queueVars, gateVars, helper, saved, lifetime>>

ReturnToken(t) ==
  /\ At(t, "unlock")
  /\ gates' = [gates EXCEPT ![turn[t].gate].token = FALSE]
  /\ Goto(t, "release")
  /\ UNCHANGED <<queueVars, registry, helper, saved, lifetime>>

\* Mutant: the last owner deletes the gate, though others wait on it.
ReleaseGateAtOnce(t) ==
  /\ At(t, "release")
  /\ gates' = [gates EXCEPT ![turn[t].gate].refs = @ - 1]
  /\ registry' = NoGate
  /\ turn' = [turn EXCEPT ![t].pc = "done", ![t].gate = NoGate]
  /\ UNCHANGED <<queueVars, helper, saved, lifetime>>

ReleaseGate(t) ==
  LET g == turn[t].gate
  IN /\ At(t, "release")
     /\ IF registry # g THEN UNCHANGED gateVars
        ELSE /\ gates' = [gates EXCEPT ![g].refs = @ - 1]
             /\ registry' = IF gates[g].refs = 1 THEN NoGate ELSE registry
     /\ turn' = [turn EXCEPT ![t].pc = "done", ![t].gate = NoGate]
     /\ UNCHANGED <<queueVars, helper, saved, lifetime>>

-----------------------------------------------------------------------------
(* getOrCreateLoadedHelper, GenerateResponse and StreamResponse.           *)

\* The resident helper with its context, or a new one that starts from history.
GetOrCreateAIHelper(history) ==
  IF helper.resident THEN helper ELSE [resident |-> TRUE, messages |-> Recent(history)]

\* What the rows of the session say.
History == [i \in 1..Len(rows) |-> rows[i].msg]

\* Mutant: the context is read from MySQL for every request.
LoadHelperAlways(t) ==
  /\ At(t, "load")
  /\ helper' = [resident |-> TRUE, messages |-> Recent(History)]
  /\ Goto(t, "say")
  /\ UNCHANGED <<queueVars, gateVars, saved, lifetime>>

LoadHelper(t) ==
  /\ At(t, "load")
  /\ helper' = GetOrCreateAIHelper(History)
  /\ Goto(t, "say")
  /\ UNCHANGED <<queueVars, gateVars, saved, lifetime>>

\* Mutant: the error path returns without unlocking.
LoadFailsLocked(t) ==
  /\ At(t, "load")
  /\ Goto(t, "release")
  /\ UNCHANGED <<queueVars, gateVars, helper, saved, lifetime>>

\* MySQL or the model factory returns an error.
LoadFails(t) ==
  /\ At(t, "load")
  /\ Goto(t, "unlock")
  /\ UNCHANGED <<queueVars, gateVars, helper, saved, lifetime>>

\* addMessage appends and trims before it saves; PersistMessage begins with the
\* MessageID of the new message.
Say(t) ==
  /\ At(t, "say")
  /\ helper' = [helper EXCEPT !.messages = Recent(Append(@, Mine(t)))]
  /\ turn' = [turn EXCEPT ![t].pc = IF broker THEN "publish" ELSE "store",
                          ![t].id = EnsureMessageID(NoId), ![t].tries = 0]
  /\ Drawn(NoId)
  /\ UNCHANGED <<rows, queue, dlq, consumer, broker, faults, gateVars, saved, lifetime>>

AfterSave(t) == IF turn[t].who = "user" THEN "model" ELSE "unlock"

\* PersistMessage returns without an error.
Saved(t) == saved' = saved \cup {Mine(t)} /\ Goto(t, AfterSave(t))

PublishConfirmed(t) ==
  /\ At(t, "publish")
  /\ queue' = Append(queue, Fresh(t))
  /\ Saved(t)
  /\ UNCHANGED <<rows, dlq, consumer, broker, issued, faults, gateVars, helper, lifetime>>

\* The broker may have accepted the message; the channel is closed and the
\* publish is tried a second time before MySQL is written directly.
PublishUnconfirmed(t) ==
  /\ At(t, "publish")
  /\ MqFault
  /\ \/ queue' = Requeued
     \/ queue' = Append(Requeued, Fresh(t))
  /\ consumer' = Cut
  /\ turn' = [turn EXCEPT ![t].tries = 1,
                          ![t].pc = IF turn[t].tries = 0 THEN "publish" ELSE "store"]
  /\ UNCHANGED <<rows, dlq, broker, issued, gateVars, helper, saved, lifetime>>

\* CreateMessage in the request: without a queue, or as the fallback.
Store(t) ==
  /\ At(t, "store")
  /\ \/ CreateMessage(Mine(t), turn[t].id) /\ Saved(t) /\ UNCHANGED faults
     \/ DbFault /\ Goto(t, "unlock") /\ UNCHANGED <<rows, issued, saved>>
  /\ UNCHANGED <<queue, dlq, consumer, broker, gateVars, helper, lifetime>>

ModelAnswers(t) ==
  /\ At(t, "model")
  /\ turn' = [turn EXCEPT ![t].pc = "say", ![t].who = "assistant"]
  /\ UNCHANGED <<queueVars, gateVars, helper, saved, lifetime>>

ModelFails(t) ==
  /\ At(t, "model")
  /\ Goto(t, "unlock")
  /\ UNCHANGED <<queueVars, gateVars, helper, saved, lifetime>>

-----------------------------------------------------------------------------
\* evictIdleHelpersLocked finds the helper idle for idleTTL: no request has
\* used it, and none is handling a response.
EvictHelper ==
  /\ helper.resident
  /\ \A t \in Turns : turn[t].pc \notin Inside \ {"load", "unlock"}
  /\ lifetime.evictions < MaxEvictions
  /\ lifetime' = [lifetime EXCEPT !.evictions = @ + 1]
  /\ helper' = NoHelper
  /\ UNCHANGED <<queueVars, gateVars, turn, saved>>

\* The process dies and starts again, with or without a broker.  What MySQL
\* and RabbitMQ hold stays.
Restart ==
  /\ lifetime.crashes < MaxCrashes
  /\ lifetime' = [lifetime EXCEPT !.crashes = @ + 1]
  /\ queue' = Requeued
  /\ consumer' = NoDelivery
  /\ broker' \in BOOLEAN
  /\ registry' = NoGate
  /\ gates' = [g \in Turns |-> NewGate]
  /\ turn' = [t \in Turns |-> IF At(t, "new") THEN NewTurn
                                ELSE [turn[t] EXCEPT !.pc = "done", !.gate = NoGate]]
  /\ helper' = NoHelper
  /\ UNCHANGED <<rows, dlq, issued, faults, saved>>

QueueStep == ConsumerStep /\ UNCHANGED <<gateVars, turn, helper, saved, lifetime>>

TurnStep(t) ==
  \/ TakeToken(t) \/ ReturnToken(t) \/ ReleaseGate(t)
  \/ LoadHelper(t) \/ LoadFails(t) \/ Say(t)
  \/ PublishConfirmed(t) \/ PublishUnconfirmed(t) \/ Store(t)
  \/ ModelAnswers(t) \/ ModelFails(t)

Next ==
  \/ \E t \in Turns : Register(t) \/ GiveUp(t) \/ TurnStep(t)
  \/ QueueStep
  \/ EvictHelper
  \/ Restart

Spec == Init /\ [][Next]_vars

\* A request that holds the gate goes on, senders on the token channel are
\* served in turn, and the consumer of a connected process keeps consuming.
Fairness ==
  /\ \A t \in Turns : WF_vars(TurnStep(t)) /\ SF_vars(TakeToken(t))
  /\ WF_vars(QueueStep)

FairSpec == Spec /\ Fairness
=============================================================================
