---------------------------- MODULE MessageQueue ----------------------------
(***************************************************************************)
(* The durable path of chat messages: the RabbitMQ work queue and its dead *)
(* letter queue, the consumer that writes deliveries to MySQL              *)
(* (common/rabbitmq), and the messages table (dao/message).                *)
(*                                                                         *)
(* One connection carries both the publishers and the consumer of the      *)
(* process, so a publish that is not confirmed closes the consumer's       *)
(* channel as well and the broker takes back what was not acknowledged.    *)
(***************************************************************************)
EXTENDS Naturals, Sequences, FiniteSets

CONSTANTS
  Turns,         \* chat requests for one session
  MaxRetries,    \* maxMessageRetries
  MaxFaults,     \* bound on publishes and acknowledgements that fail
  MaxDbFaults    \* bound on MySQL writes that fail

ASSUME QueueAssumption == {MaxRetries, MaxFaults, MaxDbFaults} \subseteq Nat

VARIABLES
  rows,      \* the messages of the session in MySQL, in created_at order
  queue,     \* deliveries that wait in RabbitMQ
  dlq,       \* messages in the dead letter queue
  consumer,  \* the delivery that consumeWithReconnect works on
  broker,    \* RMQMessage is set: the process publishes and consumes
  issued,    \* how many MessageIDs have been drawn
  faults     \* how much of each failure bound is spent

queueVars == <<rows, queue, dlq, consumer, broker, issued, faults>>

\* What was said, by whom in which request.  The MessageID under which it
\* travels and is stored is drawn at run time; a UUID is never drawn twice.
Messages == Turns \X {"user", "assistant"}
NoId == 0
Row == [msg : Messages, id : Nat]
Delivery == [msg : Messages, id : Nat, retries : 0..MaxRetries]

Stored(m) == \E i \in 1..Len(rows) : rows[i].msg = m
Queued(m) == \E i \in 1..Len(queue) : queue[i].msg = m

NoDelivery == [pc |-> "idle", live |-> FALSE]

QueueInit ==
  /\ rows = <<>> /\ queue = <<>> /\ dlq = {}
  /\ consumer = NoDelivery
  /\ broker \in BOOLEAN
  /\ issued = 0
  /\ faults = [mq |-> 0, db |-> 0]

MqFault == faults.mq < MaxFaults /\ faults' = [faults EXCEPT !.mq = @ + 1]
DbFault == faults.db < MaxDbFaults /\ faults' = [faults EXCEPT !.db = @ + 1]

\* EnsureMessageID: a message keeps the ID it carries, and draws one if it has
\* none.
EnsureMessageID(id) == IF id = NoId THEN issued + 1 ELSE id
Drawn(id) == issued' = IF id = NoId THEN issued + 1 ELSE issued

\* The insert does nothing when a row has the MessageID already.
CreateMessage(m, id) ==
  LET key == EnsureMessageID(id)
  IN /\ rows' = IF \E i \in 1..Len(rows) : rows[i].id = key THEN rows
                ELSE Append(rows, [msg |-> m, id |-> key])
     /\ Drawn(id)

-----------------------------------------------------------------------------
\* The deliveries of the queue once the channel is closed: the unacknowledged
\* one goes back to its place at the head.
Requeued == IF consumer.pc # "idle" /\ consumer.live
            THEN <<consumer.delivery>> \o queue ELSE queue

\* The handler that runs goes on, but it can no longer acknowledge.
Cut == IF consumer.pc = "idle" THEN consumer ELSE [consumer EXCEPT !.live = FALSE]

Receive ==
  /\ broker
  /\ consumer.pc = "idle" /\ queue # <<>>
  /\ consumer' = [pc |-> "handle", live |-> TRUE, delivery |-> Head(queue)]
  /\ queue' = Tail(queue)
  /\ UNCHANGED <<rows, dlq, broker, issued, faults>>

\* Mutant: the handler builds its row without the MessageID of the payload, and
\* the insert draws one.
PersistUnderNewId ==
  /\ consumer.pc = "handle"
  /\ \/ /\ CreateMessage(consumer.delivery.msg, NoId)
        /\ consumer' = [consumer EXCEPT !.pc = "ack"]
        /\ UNCHANGED faults
     \/ /\ DbFault
        /\ consumer' = [consumer EXCEPT !.pc = "retry"]
        /\ UNCHANGED <<rows, issued>>
  /\ UNCHANGED <<queue, dlq, broker>>

\* MQMessage, the handler of the consumer: the row has the ID of the payload.
Persist ==
  /\ consumer.pc = "handle"
  /\ \/ /\ CreateMessage(consumer.delivery.msg, consumer.delivery.id)
        /\ consumer' = [consumer EXCEPT !.pc = "ack"]
        /\ UNCHANGED faults
     \/ /\ DbFault
        /\ consumer' = [consumer EXCEPT !.pc = "retry"]
        /\ UNCHANGED <<rows, issued>>
  /\ UNCHANGED <<queue, dlq, broker>>

\* Mutant: the consumer does not come back after its channel was lost.
AckEndsConsumer ==
  /\ consumer.pc = "ack"
  /\ \/ consumer' = NoDelivery /\ UNCHANGED <<queue, faults>>
     \/ /\ consumer.live /\ MqFault /\ queue' = Requeued
        /\ consumer' = [consumer EXCEPT !.pc = "stopped", !.live = FALSE]
  /\ UNCHANGED <<rows, dlq, broker, issued>>

\* When the acknowledgement is lost with its channel, consumeWithReconnect
\* connects again.
Ack ==
  /\ consumer.pc = "ack"
  /\ consumer' = NoDelivery
  /\ \/ UNCHANGED <<queue, faults>>
     \/ consumer.live /\ MqFault /\ queue' = Requeued
  /\ UNCHANGED <<rows, dlq, broker, issued>>

\* Mutant: the retry count is compared before it is raised.
ExhaustedEarly(d) == d.retries + 1 >= MaxRetries

Exhausted(d) == d.retries >= MaxRetries

\* The n copies of a failed delivery that publish hands to the broker, given
\* what is left in the queue.
Republish(d, n, left) ==
  LET copy == [d EXCEPT !.retries = @ + 1]
  IN IF Exhausted(d)
     THEN queue' = left /\ dlq' = IF n = 0 THEN dlq ELSE dlq \cup {d.msg}
     ELSE queue' = left \o [i \in 1..n |-> copy] /\ UNCHANGED dlq

\* Mutant: the delivery is acknowledged before it is republished.
RetryAfterAck ==
  /\ consumer.pc = "retry"
  /\ \/ /\ Republish(consumer.delivery, 1, queue)
        /\ consumer' = NoDelivery
        /\ UNCHANGED faults
     \/ /\ MqFault
        /\ consumer' = NoDelivery
        /\ UNCHANGED <<queue, dlq>>
  /\ UNCHANGED <<rows, broker, issued>>

\* Publish before acknowledging.  A publish that is not confirmed may have
\* been accepted; it closes the channel and is tried once more, after which
\* the original can only go back to the queue.
RetryOrDeadLetter ==
  /\ consumer.pc = "retry"
  /\ \/ /\ Republish(consumer.delivery, 1, queue)
        /\ consumer' = [consumer EXCEPT !.pc = "ack"]
        /\ UNCHANGED faults
     \/ /\ MqFault
        /\ \E copies \in 0..2 : Republish(consumer.delivery, copies, Requeued)
        /\ consumer' = NoDelivery
  /\ UNCHANGED <<rows, broker, issued>>

ConsumerStep == Receive \/ Persist \/ Ack \/ RetryOrDeadLetter
=============================================================================
