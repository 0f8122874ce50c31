------------------------------- MODULE Sender -------------------------------
(***************************************************************************)
(* The calendar_sender process and the queue it consumes.  Its handler     *)
(* threads take notifications off the channel of deliveries, publish them  *)
(* to the exchange of the senders and acknowledge them.  The broker is     *)
(* RabbitMQ as the code uses it: manual acknowledgement, a prefetch of     *)
(* qosCount, and the deliveries that were not acknowledged go back to the  *)
(* queue when the connection ends.                                         *)
(*                                                                         *)
(* A message is one of three kinds, by what UnmarshallEvent makes of the   *)
(* JSON that MarshallEvent wrote.  MarshallEvent does not escape: with a   *)
(* quote in the title, the fields after the title are not found and the    *)
(* event variable keeps what it had.                                       *)
(***************************************************************************)
EXTENDS Integers, FiniteSets

CONSTANTS
  Plain,        \* messages that are read whole
  Quoted,       \* messages with a quote in the title
  Unparsable,   \* messages with a field that does not parse, the EndDate
  Threads,      \* config.Sender.Threads handlers
  QosCount,     \* config.Consumer.QosCount
  Faults,       \* "consumer", "producer" (a connection is lost), "crash", "signal"
  MaxStarts,    \* bound of the starts of the process
  NoMsg         \* the zero Delivery, and the zero Event

Messages == Plain \cup Quoted \cup Unparsable

ASSUME QosAssumption == QosCount \in Nat \ {0}
ASSUME StartsAssumption == MaxStarts \in Nat
ASSUME NoMsgAssumption == NoMsg \notin Messages

VARIABLES
  ready,     \* the messages in the queue
  unacked,   \* the messages delivered on the connection, not acknowledged
  inbox,     \* those of them no handler has received yet
  up,        \* the process runs
  pc,        \* where each handler is
  msg,       \* the delivery a handler works on
  event,     \* the event variable of a handler, declared outside its loop
  ctx,       \* "live" or "done"
  stop,      \* how far S.Stop is
  consumer,  \* the connection of the consumer, "open" or "closed"
  producer,  \* the connection of the producer
  \* History:
  queued,    \* the messages ever put into the queue
  acked,     \* the messages acknowledged
  sent,      \* the notifications published to the exchange of the senders
  sends,     \* how often this start of the process published a message, up to 2
  starts

queueVars == <<ready, unacked, inbox, acked>>
handlerVars == <<pc, msg, event>>
processVars == <<up, ctx, stop, starts>>
sentVars == <<sent, sends>>
vars == <<queueVars, queued, handlerVars, processVars, consumer, producer, sentVars>>

\* A notification, by the message each part is taken from: ID and Title; the
\* user and the start; the end and the time before.
Note == [id: Messages \cup {NoMsg}, user: Messages \cup {NoMsg}, rest: Messages \cup {NoMsg}]

ZeroNote == [id |-> NoMsg, user |-> NoMsg, rest |-> NoMsg]

\* UnmarshallEvent(m, &n): the fields it finds, up to the first that fails.
Unmarshalled(m, n) ==
  IF m \in Plain THEN [id |-> m, user |-> m, rest |-> m]
  ELSE IF m \in Quoted THEN [n EXCEPT !.id = m]
  ELSE [n EXCEPT !.id = m, !.user = m]

Init ==
  /\ ready = {} /\ unacked = {} /\ inbox = {} /\ acked = {} /\ queued = {}
  /\ up = FALSE
  /\ pc = [h \in Threads |-> "done"]
  /\ msg = [h \in Threads |-> NoMsg]
  /\ event = [h \in Threads |-> ZeroNote]
  /\ ctx = "live" /\ stop = "none" /\ starts = 0
  /\ consumer = "closed" /\ producer = "closed"
  /\ sent = {}
  /\ sends = [m \in Messages |-> 0]
-----------------------------------------------------------------------------
(***************************************************************************)
(* The broker.                                                             *)
(***************************************************************************)

\* The scheduler publishes a notification.
Queue(m) ==
  /\ m \notin queued
  /\ queued' = queued \cup {m}
  /\ ready' = ready \cup {m}
  /\ UNCHANGED <<unacked, inbox, acked, handlerVars, processVars, consumer,
                 producer, sentVars>>

Deliver(m) ==
  /\ consumer = "open" /\ m \in ready
  /\ Cardinality(unacked) < QosCount
  /\ ready' = ready \ {m}
  /\ unacked' = unacked \cup {m}
  /\ inbox' = inbox \cup {m}
  /\ UNCHANGED <<acked, queued, handlerVars, processVars, consumer, producer, sentVars>>

\* Mutant: the consumer is opened with autoAck.
RequeueNothing ==
  /\ consumer' = "closed"
  /\ unacked' = {}
  /\ UNCHANGED <<ready, acked, queued>>

\* The consumer's connection ends: what was not acknowledged is queued again.
\* The deliveries in the channel may still be received.
Requeue ==
  /\ consumer' = "closed"
  /\ ready' = ready \cup unacked
  /\ unacked' = {}
  /\ UNCHANGED <<acked, queued>>

ConsumerLost ==
  /\ "consumer" \in Faults /\ consumer = "open"
  /\ Requeue
  /\ UNCHANGED <<inbox, handlerVars, processVars, producer, sentVars>>

ProducerLost ==
  /\ "producer" \in Faults /\ producer = "open"
  /\ producer' = "closed"
  /\ UNCHANGED <<queueVars, queued, handlerVars, processVars, consumer, sentVars>>

\* The AMQP library drops the deliveries in flight of a closed connection.
DropInbox ==
  /\ consumer = "closed" /\ inbox # {}
  /\ inbox' = {}
  /\ UNCHANGED <<ready, unacked, acked, queued, handlerVars, processVars,
                 consumer, producer, sentVars>>
-----------------------------------------------------------------------------
(***************************************************************************)
(* The process.                                                            *)
(***************************************************************************)

\* S.Start: both connections are open, the handlers run.
Start ==
  /\ ~up /\ starts < MaxStarts
  /\ up' = TRUE /\ starts' = starts + 1 /\ ctx' = "live" /\ stop' = "none"
  /\ consumer' = "open" /\ producer' = "open"
  /\ pc' = [h \in Threads |-> "idle"]
  /\ sends' = [m \in Messages |-> 0]
  /\ UNCHANGED <<queueVars, queued, msg, event, sent>>

\* The process ends, by a crash or because all handlers have returned.
Ends ==
  /\ up' = FALSE
  /\ pc' = [h \in Threads |-> "done"]
  /\ msg' = [h \in Threads |-> NoMsg]
  /\ event' = [h \in Threads |-> ZeroNote]
  /\ inbox' = {}
  /\ Requeue
  /\ producer' = "closed"
  /\ UNCHANGED <<ctx, stop, starts, sentVars>>

Exit == up /\ (\A h \in Threads : pc[h] = "done") /\ Ends

\* The last start within the bound is neither killed nor stopped.
Crash == "crash" \in Faults /\ up /\ starts < MaxStarts /\ Ends

Signal ==
  /\ "signal" \in Faults /\ up /\ ctx = "live" /\ starts < MaxStarts
  /\ ctx' = "done" /\ stop' = "consumer"
  /\ UNCHANGED <<queueVars, queued, handlerVars, up, starts, consumer, producer,
                 sentVars>>

\* S.Stop closes the consumer; closing a connection that was lost is an error,
\* and Stop returns it.
StopConsumer ==
  /\ up /\ stop = "consumer"
  /\ IF consumer = "open"
     THEN Requeue /\ stop' = "producer"
     ELSE stop' = "ended" /\ UNCHANGED <<ready, unacked, acked, queued, consumer>>
  /\ UNCHANGED <<inbox, handlerVars, up, ctx, starts, producer, sentVars>>

StopProducer ==
  /\ up /\ stop = "producer"
  /\ producer' = "closed" /\ stop' = "ended"
  /\ UNCHANGED <<queueVars, queued, handlerVars, up, ctx, starts, consumer,
                 sentVars>>
-----------------------------------------------------------------------------
(***************************************************************************)
(* A handler.                                                              *)
(***************************************************************************)

\* case <-ctx.Done()
Quit(h) ==
  /\ up /\ pc[h] = "idle" /\ ctx = "done"
  /\ pc' = [pc EXCEPT ![h] = "done"]
  /\ UNCHANGED <<queueVars, queued, msg, event, processVars, consumer, producer,
                 sentVars>>

\* Mutant: the "continue" after a failed UnmarshallEvent is missing.
ReceiveAnyway(h, m) ==
  /\ up /\ pc[h] = "idle" /\ m \in inbox
  /\ inbox' = inbox \ {m}
  /\ event' = [event EXCEPT ![h] = Unmarshalled(m, @)]
  /\ pc' = [pc EXCEPT ![h] = "sending"]
  /\ msg' = [msg EXCEPT ![h] = m]
  /\ UNCHANGED <<ready, unacked, acked, queued, processVars, consumer, producer,
                 sentVars>>

\* case msg := <-deliveries, and UnmarshallEvent.  A message it fails on is
\* left alone: neither acknowledged nor rejected.
Receive(h, m) ==
  /\ up /\ pc[h] = "idle" /\ m \in inbox
  /\ inbox' = inbox \ {m}
  /\ event' = [event EXCEPT ![h] = Unmarshalled(m, @)]
  /\ IF m \in Unparsable
     THEN UNCHANGED <<pc, msg>>
     ELSE /\ pc' = [pc EXCEPT ![h] = "sending"]
          /\ msg' = [msg EXCEPT ![h] = m]
  /\ UNCHANGED <<ready, unacked, acked, queued, processVars, consumer, producer,
                 sentVars>>

\* The channel is closed: the receive yields the zero Delivery, in whose empty
\* body UnmarshallEvent finds no field and no error.
ReceiveZero(h) ==
  /\ up /\ pc[h] = "idle" /\ consumer = "closed" /\ inbox = {}
  /\ pc' = [pc EXCEPT ![h] = "sending"]
  /\ UNCHANGED <<queueVars, queued, msg, event, processVars, consumer, producer,
                 sentVars>>

CountSend(m) ==
  IF m \in Messages
  THEN [sends EXCEPT ![m] = IF @ < 2 THEN @ + 1 ELSE @]
  ELSE sends

Send(h) ==
  /\ pc[h] = "sending" /\ producer = "open"
  /\ pc' = [pc EXCEPT ![h] = "acking"]
  /\ sent' = sent \cup {event[h]}
  /\ sends' = CountSend(event[h].id)
  /\ UNCHANGED <<queueVars, queued, msg, event, processVars, consumer, producer>>

\* Mutant: the "continue" after a failed send is missing.
SendFailsAcks(h) ==
  /\ pc[h] = "sending" /\ producer = "closed"
  /\ pc' = [pc EXCEPT ![h] = "acking"]
  /\ UNCHANGED <<queueVars, queued, msg, event, processVars, consumer, producer,
                 sentVars>>

SendFails(h) ==
  /\ pc[h] = "sending" /\ producer = "closed"
  /\ pc' = [pc EXCEPT ![h] = "idle"]
  /\ msg' = [msg EXCEPT ![h] = NoMsg]
  /\ UNCHANGED <<queueVars, queued, event, processVars, consumer, producer,
                 sentVars>>

\* Mutants: nothing is acknowledged; after a failed Ack the handler tries again
\* from the start.
AckNothing(h) ==
  /\ pc[h] = "acking"
  /\ pc' = [pc EXCEPT ![h] = "idle"]
  /\ msg' = [msg EXCEPT ![h] = NoMsg]
  /\ UNCHANGED <<queueVars, queued, event, processVars, consumer, producer,
                 sentVars>>

\* Mutant: the handler sends again what it acknowledges.
AckTwice(h) ==
  /\ pc[h] = "acking"
  /\ pc' = [pc EXCEPT ![h] = "sending"]
  /\ unacked' = unacked \ {msg[h]} /\ acked' = acked \cup ({msg[h]} \ {NoMsg})
  /\ UNCHANGED <<ready, inbox, queued, msg, event, processVars, consumer, producer,
                 sentVars>>

\* msg.Ack fails on the zero Delivery and on a closed connection.
Ack(h) ==
  /\ pc[h] = "acking"
  /\ pc' = [pc EXCEPT ![h] = "idle"]
  /\ msg' = [msg EXCEPT ![h] = NoMsg]
  /\ IF msg[h] # NoMsg /\ consumer = "open"
     THEN unacked' = unacked \ {msg[h]} /\ acked' = acked \cup {msg[h]}
     ELSE UNCHANGED <<unacked, acked>>
  /\ UNCHANGED <<ready, inbox, queued, event, processVars, consumer, producer,
                 sentVars>>

Handle(h) ==
  \/ Quit(h) \/ ReceiveZero(h) \/ Send(h) \/ SendFails(h) \/ Ack(h)
  \/ \E m \in Messages : Receive(h, m)

Broker ==
  \/ \E m \in Messages : Queue(m) \/ Deliver(m)
  \/ ConsumerLost \/ ProducerLost \/ DropInbox

Process == Start \/ Exit \/ Crash \/ Signal \/ StopConsumer \/ StopProducer

Next == Broker \/ Process \/ \E h \in Threads : Handle(h)

Spec == Init /\ [][Next]_vars

(***************************************************************************)
(* The broker delivers, the runtime runs every handler, and somebody       *)
(* starts the process that has ended.  A message that can be delivered     *)
(* again and again is delivered (the queue is first in, first out), and a  *)
(* handler whose context is done leaves its loop.                          *)
(***************************************************************************)
Fairness ==
  /\ WF_vars(Start) /\ WF_vars(Exit) /\ WF_vars(StopConsumer) /\ WF_vars(StopProducer)
  /\ WF_vars(DropInbox)
  /\ \A m \in Messages : SF_vars(Deliver(m))
  /\ \A m \in Messages : SF_vars(\E h \in Threads : Receive(h, m))
  /\ \A h \in Threads : WF_vars(Handle(h)) /\ SF_vars(Quit(h))

FairSpec == Spec /\ Fairness
-----------------------------------------------------------------------------
TypeOK ==
  /\ ready \subseteq Messages /\ unacked \subseteq Messages /\ inbox \subseteq Messages
  /\ queued \subseteq Messages /\ acked \subseteq Messages
  /\ up \in BOOLEAN /\ ctx \in {"live", "done"} /\ starts \in Nat
  /\ stop \in {"none", "consumer", "producer", "ended"}
  /\ pc \in [Threads -> {"idle", "sending", "acking", "done"}]
  /\ msg \in [Threads -> Messages \cup {NoMsg}]
  /\ event \in [Threads -> Note]
  /\ consumer \in {"open", "closed"} /\ producer \in {"open", "closed"}
  /\ sent \subseteq Note
  /\ sends \in [Messages -> 0..2]

\* No notification is lost on the way through the sender: what the scheduler
\* queued is in the queue, with the sender, or acknowledged, and in one place
\* only, whatever connection or process ends between two steps.
NoMessageLost ==
  /\ queued = ready \cup unacked \cup acked
  /\ ready \cap unacked = {} /\ ready \cap acked = {} /\ unacked \cap acked = {}

\* A message is acknowledged only after it was sent on: an event that carries its
\* ID is among the notifications published for it.
AckedOnlyIfSent ==
  \A m \in acked : \E n \in sent : n.id = m

\* A start of the process sends a message on at most once: the broker delivers it
\* once to a connection, so that duplicates come from restarts only.
SentOncePerStart == \A m \in Messages : sends[m] <= 1

\* That much is true as long as the connection of the consumer holds.
SentOnceWhileConnected == consumer = "open" => SentOncePerStart

Intact(n) == n.id = n.user /\ n.user = n.rest /\ n.id # NoMsg

\* No notification that is sent mixes two messages: its user and its dates are those of
\* the message its id is of, or missing, whatever the handler worked on before.
NotificationsUnmixed == \A n \in sent : {n.user, n.rest} \subseteq {n.id, NoMsg}

\* That much is true of messages without a quote, as long as the connection of
\* the consumer holds: also after messages that could not be read to the end.
PlainNotificationsIntact ==
  [][consumer = "open" =>
       \A n \in sent' \ sent : n.id \in Quoted \/ Intact(n)]_vars

\* The messages that hold a place in the prefetch window although no handler is
\* ever going to look at them again.
Abandoned == {m \in unacked \ inbox : \A h \in Threads : msg[h] # m}

\* Nothing but a message that could not be read is left hanging between the
\* broker and the handlers, as long as the producer's connection holds.
OnlyUnreadableAbandoned ==
  (consumer = "open" /\ producer = "open") => Abandoned \subseteq Unparsable

(***************************************************************************)
(* The inductive invariant behind the safety properties: what a connection *)
(* has delivered is in its channel or with exactly one handler, and what a *)
(* handler is about to send was not sent in this start.                    *)
(***************************************************************************)
ConnectionInv ==
  /\ consumer = "open" => up /\ inbox \subseteq unacked
  /\ consumer = "closed" => unacked = {}
  /\ ~up => inbox = {}

HandlerInv ==
  \A h \in Threads :
    /\ pc[h] \in {"idle", "done"} => msg[h] = NoMsg
    /\ pc[h] # "done" => up

HeldInv ==
  consumer = "open" =>
    \A h \in Threads :
      /\ pc[h] \in {"sending", "acking"} => msg[h] \in unacked \ inbox
      /\ \A k \in Threads \ {h} : msg[h] # NoMsg => msg[k] # msg[h]

EventInv ==
  \A h \in Threads : msg[h] # NoMsg =>
    /\ event[h].id = msg[h]
    /\ msg[h] \in Quoted \/ Intact(event[h])
    /\ pc[h] = "acking" => \E n \in sent : n.id = msg[h]

\* What is still to be sent in this start.
Unsent(m) ==
  \/ m \notin queued \/ m \in ready \/ m \in inbox
  \/ \E h \in Threads : pc[h] = "sending" /\ msg[h] = m

SendsInv ==
  consumer = "open" => \A m \in Messages : sends[m] <= 1 /\ (Unsent(m) => sends[m] = 0)

IInv ==
  /\ TypeOK
  /\ NoMessageLost
  /\ AckedOnlyIfSent
  /\ OnlyUnreadableAbandoned
  /\ ConnectionInv
  /\ HandlerInv
  /\ HeldInv
  /\ EventInv
  /\ SendsInv

\* Every readable message in the queue is sent on and acknowledged in the end.
EveryMessageAcked ==
  \A m \in Plain \cup Quoted : (m \in queued) ~> (m \in acked)
=============================================================================
