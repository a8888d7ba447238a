--------------------------- MODULE ChatProperties ---------------------------
(***************************************************************************)
(* What a chat session promises: its requests run one at a time, no        *)
(* message it accepted is lost or stored twice, and the model sees what    *)
(* was said before.                                                        *)
(***************************************************************************)
EXTENDS ChatSession

\* The queue, the gate and the requests keep their types.
TypeOK ==
  /\ rows \in Seq(Row)
  /\ queue \in Seq(Delivery)
  /\ dlq \subseteq Messages /\ saved \subseteq Messages
  /\ \/ consumer = NoDelivery
     \/ consumer \in [pc : {"handle", "ack", "retry"}, live : BOOLEAN, delivery : Delivery]
  /\ broker \in BOOLEAN /\ issued \in Nat
  /\ faults \in [mq : Nat, db : Nat]
  /\ registry \in Turns \cup {NoGate}
  /\ gates \in [Turns -> Gate]
  /\ turn \in [Turns -> Turn]
  /\ helper \in [resident : BOOLEAN, messages : Seq(Messages)]
  /\ lifetime \in [crashes : Nat, evictions : Nat]

\* lockSession lets one request of a session at a time past its gate, though
\* gates are deleted and made anew as requests come, wait, give up and leave.
OneTurnInside ==
  \A t, u \in Turns : turn[t].pc \in Inside /\ turn[u].pc \in Inside => t = u

\* The registry counts its users: a gate stays registered exactly as long as
\* somebody holds it or waits for it, and everybody uses the registered one.
Users(g) == {t \in Turns : turn[t].gate = g}
GateIsCounted ==
  /\ \A g \in Turns : gates[g].refs = Cardinality(Users(g))
  /\ \A t \in Turns : turn[t].gate # NoGate => turn[t].gate = registry
  /\ registry # NoGate => Users(registry) # {}

\* A message whose PersistMessage succeeded is in MySQL, in RabbitMQ or in the
\* dead letter queue, whatever confirmations, acknowledgements or processes
\* are lost.
SavedIsKept ==
  \A m \in saved :
    \/ Stored(m) \/ Queued(m) \/ m \in dlq
    \/ consumer.pc # "idle" /\ consumer.live /\ consumer.delivery.msg = m

\* What was said once has one row, though the broker may deliver it again, the
\* consumer publish it again and the request write it itself: the MessageID
\* that PersistMessage drew goes with every copy (EnsureMessageID).
StoredOnce == \A i, j \in 1..Len(rows) : rows[i].msg = rows[j].msg => i = j

\* A message is dead-lettered only after its handler failed MaxRetries + 1
\* times.
DeadLetterIsEarned == dlq # {} => faults.db > MaxRetries

\* The context the model is called with holds every message saved before,
\* unless the window is full (GenerateResponse, StreamResponse).
ContextIsComplete ==
  \A t \in Turns : At(t, "model") =>
    \/ Len(helper.messages) = MaxHistory
    \/ \A m \in saved : \E i \in 1..Len(helper.messages) : helper.messages[i] = m

\* As long as the helper has never left memory this is so, however late the
\* queue writes the messages to MySQL and whichever requests fail.
ResidentContextIsComplete ==
  lifetime.crashes = 0 /\ lifetime.evictions = 0 => ContextIsComplete

\* Again and again the queue is caught up with, after lost connections, failed
\* writes and restarts: every message saved so far is stored, or set aside in
\* the dead letter queue (PersistMessage, consumeWithReconnect).  Only a
\* process that started without its broker leaves the queue alone.
SavedIsStored == []<>(broker => \A m \in saved : Stored(m) \/ m \in dlq)

\* Requests that asked for the gate come to their end, also those that fail
\* or give up: again and again the session is idle (lockSession).
TurnsEnd == []<>(\A t \in Turns : turn[t].pc \in {"new", "done"})
=============================================================================
