----------------------------- MODULE Sender_proof -----------------------------
(***************************************************************************)
(* What the sender guarantees for every set of messages, any number of     *)
(* handlers, every prefetch and every set of failures: IInv is an          *)
(* inductive invariant, and the safety properties follow from it.          *)
(***************************************************************************)
EXTENDS Sender, TLAPS

USE QosAssumption, StartsAssumption, NoMsgAssumption

(***************************************************************************)
(* Helpers.                                                                *)
(***************************************************************************)

\* A note of messages is a note; so is what a handler makes of one and a message.
LEMMA NoteType ==
  /\ ZeroNote \in Note
  /\ \A m \in Messages, n \in Note : Unmarshalled(m, n) \in Note
BY DEF ZeroNote, Note, Unmarshalled

\* What UnmarshallEvent makes of a message that it reads without an error.
LEMMA UnmarshalledReadable ==
  ASSUME NEW m \in Messages \ Unparsable, NEW n \in Note
  PROVE  /\ Unmarshalled(m, n).id = m
         /\ m \in Quoted \/ Intact(Unmarshalled(m, n))
<1>1. m \in Plain \/ m \in Quoted
  BY DEF Messages
<1>2. CASE m \in Plain
  BY <1>2 DEF Unmarshalled, Intact
<1>3. CASE m \notin Plain
  BY <1>1, <1>3 DEF Unmarshalled, Note
<1> QED BY <1>2, <1>3

\* The counter of sends keeps its range, and counts the one message.
LEMMA CountSendType ==
  ASSUME sends \in [Messages -> 0..2], NEW m
  PROVE  /\ CountSend(m) \in [Messages -> 0..2]
         /\ \A k \in Messages : k # m => CountSend(m)[k] = sends[k]
         /\ \A k \in Messages : sends[k] = 0 => CountSend(m)[k] <= 1
<1>1. CASE m \in Messages
  <2>1. (IF sends[m] < 2 THEN sends[m] + 1 ELSE sends[m]) \in 0..2
    BY <1>1
  <2>2. CountSend(m) =
          [sends EXCEPT ![m] = IF sends[m] < 2 THEN sends[m] + 1 ELSE sends[m]]
    BY <1>1 DEF CountSend
  <2> QED BY <1>1, <2>1, <2>2
<1>2. CASE m \notin Messages
  BY <1>2 DEF CountSend
<1> QED BY <1>1, <1>2

\* The queue and the sender start in the invariant.
LEMMA InitInv == Init => IInv
<1> SUFFICES ASSUME Init PROVE IInv
  OBVIOUS
<1>1. TypeOK
  <2>1. event \in [Threads -> Note]
    BY NoteType DEF Init
  <2>2. /\ pc \in [Threads -> {"idle", "sending", "acking", "done"}]
        /\ msg \in [Threads -> Messages \cup {NoMsg}]
        /\ sends \in [Messages -> 0..2]
    BY DEF Init
  <2>3. /\ ready \subseteq Messages /\ unacked \subseteq Messages /\ inbox \subseteq Messages
        /\ queued \subseteq Messages /\ acked \subseteq Messages /\ sent \subseteq Note
    BY DEF Init
  <2> QED BY <2>1, <2>2, <2>3 DEF Init, TypeOK
<1>2. NoMessageLost /\ AckedOnlyIfSent /\ OnlyUnreadableAbandoned
  BY DEF Init, NoMessageLost, AckedOnlyIfSent, OnlyUnreadableAbandoned
<1> QED
  BY <1>1, <1>2 DEF Init, IInv, ConnectionInv, HandlerInv, HeldInv, EventInv, SendsInv

(***************************************************************************)
(* Types.                                                                  *)
(***************************************************************************)
LEMMA TypeStep == TypeOK /\ [Next]_vars => TypeOK'
<1> SUFFICES ASSUME TypeOK, [Next]_vars PROVE TypeOK'
  OBVIOUS
<1> USE DEF TypeOK, queueVars, handlerVars, processVars, sentVars
<1>1. CASE UNCHANGED vars
  BY <1>1 DEF vars
<1>2. CASE Broker
  <2>1. ASSUME NEW m \in Messages, Queue(m) \/ Deliver(m) PROVE TypeOK'
    BY <2>1 DEF Queue, Deliver
  <2>2. CASE ConsumerLost \/ ProducerLost \/ DropInbox
    BY <2>2 DEF ConsumerLost, ProducerLost, DropInbox, Requeue
  <2> QED BY <1>2, <2>1, <2>2 DEF Broker
<1>3. CASE Process
  <2>1. CASE Start
    BY <2>1 DEF Start
  <2>2. CASE Exit \/ Crash
    <3>1. event' \in [Threads -> Note]
      BY <2>2, NoteType DEF Exit, Crash, Ends
    <3> QED BY <2>2, <3>1 DEF Exit, Crash, Ends, Requeue
  <2>3. CASE Signal
    BY <2>3 DEF Signal
  <2>4. CASE StopConsumer
    BY <2>4 DEF StopConsumer, Requeue
  <2>5. CASE StopProducer
    BY <2>5 DEF StopProducer
  <2> QED BY <1>3, <2>1, <2>2, <2>3, <2>4, <2>5 DEF Process
<1>4. ASSUME NEW h \in Threads, Handle(h) PROVE TypeOK'
  <2>1. CASE Quit(h) \/ ReceiveZero(h)
    BY <2>1 DEF Quit, ReceiveZero
  <2>2. ASSUME NEW m \in Messages, Receive(h, m) PROVE TypeOK'
    <3>1. event[h] \in Note /\ Unmarshalled(m, event[h]) \in Note
      BY NoteType
    <3> QED BY <2>2, <3>1 DEF Receive
  <2>3. CASE Send(h)
    BY <2>3, CountSendType DEF Send
  <2>4. CASE SendFails(h) \/ Ack(h)
    BY <2>4 DEF SendFails, Ack
  <2> QED BY <1>4, <2>1, <2>2, <2>3, <2>4 DEF Handle
<1> QED BY <1>1, <1>2, <1>3, <1>4 DEF Next

\* No step takes a variable out of its type.
THEOREM TypeCorrect == Spec => []TypeOK
<1>1. Init => TypeOK
  BY InitInv DEF IInv
<1> QED BY <1>1, TypeStep, PTL DEF Spec

(***************************************************************************)
(* The broker and the process.                                             *)
(***************************************************************************)

\* Steps that touch only the context, the progress of Stop and the producer.
LEMMA AsideStep ==
  ASSUME IInv, TypeOK',
         UNCHANGED <<queueVars, queued, handlerVars, up, consumer, sentVars>>,
         producer' \in {producer, "closed"}
  PROVE  IInv'
BY DEF IInv, NoMessageLost, AckedOnlyIfSent, OnlyUnreadableAbandoned, Abandoned,
   ConnectionInv, HandlerInv, HeldInv, EventInv, SendsInv, Unsent, Intact,
   queueVars, handlerVars, sentVars

\* A message that reaches the queue keeps the invariant.
LEMMA QueueStep == ASSUME IInv, TypeOK', NEW m \in Messages, Queue(m) PROVE IInv'
<1> USE DEF Queue, handlerVars, processVars, sentVars
<1>1. NoMessageLost'
  BY DEF IInv, NoMessageLost
<1>2. AckedOnlyIfSent' /\ OnlyUnreadableAbandoned'
  BY DEF IInv, AckedOnlyIfSent, OnlyUnreadableAbandoned, Abandoned
<1>3. ConnectionInv' /\ HandlerInv' /\ HeldInv' /\ EventInv'
  BY DEF IInv, ConnectionInv, HandlerInv, HeldInv, EventInv, Intact
<1>4. SendsInv'
  BY DEF IInv, SendsInv, Unsent
<1> QED BY <1>1, <1>2, <1>3, <1>4 DEF IInv

\* A delivery keeps the invariant.
LEMMA DeliverStep == ASSUME IInv, TypeOK', NEW m \in Messages, Deliver(m) PROVE IInv'
<1> USE DEF Deliver, handlerVars, processVars, sentVars
<1>1. m \notin unacked /\ m \notin acked
  BY DEF IInv, NoMessageLost
<1>2. NoMessageLost'
  BY <1>1 DEF IInv, NoMessageLost
<1>3. AckedOnlyIfSent' /\ OnlyUnreadableAbandoned'
  BY DEF IInv, AckedOnlyIfSent, OnlyUnreadableAbandoned, Abandoned
<1>4. ConnectionInv' /\ HandlerInv' /\ EventInv'
  BY DEF IInv, ConnectionInv, HandlerInv, EventInv, Intact
<1>5. HeldInv'
  BY <1>1 DEF IInv, HeldInv
<1>6. SendsInv'
  BY DEF IInv, SendsInv, Unsent
<1> QED BY <1>2, <1>3, <1>4, <1>5, <1>6 DEF IInv

\* The connection of the consumer ends and the process goes on.
LEMMA RequeueStep ==
  ASSUME IInv, TypeOK', Requeue,
         UNCHANGED <<inbox, handlerVars, up, producer, sentVars>>
  PROVE  IInv'
<1> USE DEF Requeue, handlerVars, sentVars
<1>1. NoMessageLost'
  BY DEF IInv, NoMessageLost
<1>2. AckedOnlyIfSent' /\ OnlyUnreadableAbandoned'
  BY DEF IInv, AckedOnlyIfSent, OnlyUnreadableAbandoned
<1>3. ConnectionInv' /\ HandlerInv' /\ HeldInv' /\ EventInv' /\ SendsInv'
  BY DEF IInv, ConnectionInv, HandlerInv, HeldInv, EventInv, Intact, SendsInv
<1> QED BY <1>1, <1>2, <1>3 DEF IInv

\* Deliveries dropped with the channel keep the invariant.
LEMMA DropInboxStep == ASSUME IInv, TypeOK', DropInbox PROVE IInv'
<1> USE DEF DropInbox, handlerVars, processVars, sentVars
<1>1. NoMessageLost' /\ AckedOnlyIfSent' /\ OnlyUnreadableAbandoned'
  BY DEF IInv, NoMessageLost, AckedOnlyIfSent, OnlyUnreadableAbandoned
<1>2. ConnectionInv' /\ HandlerInv' /\ HeldInv' /\ EventInv' /\ SendsInv'
  BY DEF IInv, ConnectionInv, HandlerInv, HeldInv, EventInv, Intact, SendsInv
<1> QED BY <1>1, <1>2 DEF IInv

\* A start of the sender keeps the invariant.
LEMMA StartStep == ASSUME IInv, TypeOK', Start PROVE IInv'
<1> USE DEF Start, queueVars
<1>1. \A h \in Threads : pc[h] = "done" /\ msg[h] = NoMsg
  BY DEF IInv, HandlerInv, TypeOK
<1>2. unacked = {} /\ inbox = {}
  BY DEF IInv, ConnectionInv, TypeOK
<1>3. NoMessageLost' /\ AckedOnlyIfSent' /\ OnlyUnreadableAbandoned'
  BY <1>2 DEF IInv, NoMessageLost, AckedOnlyIfSent, OnlyUnreadableAbandoned, Abandoned
<1>4. ConnectionInv' /\ HandlerInv' /\ EventInv'
  BY <1>1, <1>2 DEF ConnectionInv, HandlerInv, EventInv
<1>5. HeldInv'
  BY <1>1 DEF HeldInv
<1>6. SendsInv'
  BY DEF SendsInv
<1> QED BY <1>3, <1>4, <1>5, <1>6 DEF IInv

\* The end of the process or of its connection keeps the invariant: what it had not
\* acknowledged is queued again.
LEMMA EndsStep == ASSUME IInv, TypeOK', Ends PROVE IInv'
<1> USE DEF Ends, Requeue, sentVars
<1>1. NoMessageLost' /\ AckedOnlyIfSent' /\ OnlyUnreadableAbandoned'
  BY DEF IInv, NoMessageLost, AckedOnlyIfSent, OnlyUnreadableAbandoned
<1>2. ConnectionInv' /\ HandlerInv' /\ HeldInv' /\ EventInv' /\ SendsInv'
  BY DEF ConnectionInv, HandlerInv, HeldInv, EventInv, SendsInv
<1> QED BY <1>1, <1>2 DEF IInv

(***************************************************************************)
(* A handler.                                                              *)
(***************************************************************************)
LEMMA QuitStep == ASSUME IInv, TypeOK', NEW h \in Threads, Quit(h) PROVE IInv'
<1> USE DEF Quit, queueVars, processVars, sentVars
<1>1. pc[h] = "idle" /\ pc' = [pc EXCEPT ![h] = "done"] /\ pc \in [Threads -> {"idle", "sending", "acking", "done"}]
  BY DEF IInv, TypeOK
<1>2. NoMessageLost' /\ AckedOnlyIfSent' /\ OnlyUnreadableAbandoned' /\ ConnectionInv'
  BY DEF IInv, NoMessageLost, AckedOnlyIfSent, OnlyUnreadableAbandoned, Abandoned,
     ConnectionInv
<1>3. HandlerInv' /\ HeldInv'
  BY <1>1 DEF IInv, HandlerInv, HeldInv
<1>4. EventInv' /\ SendsInv'
  BY <1>1 DEF IInv, EventInv, Intact, SendsInv, Unsent
<1> QED BY <1>2, <1>3, <1>4 DEF IInv

\* A message that cannot be read: the handler only forgets what it had read.
LEMMA ReceiveUnreadStep ==
  ASSUME IInv, TypeOK', NEW h \in Threads, NEW m \in Messages, Receive(h, m),
         m \in Unparsable
  PROVE  IInv'
<1> USE DEF Receive, processVars, sentVars
<1>1. msg[h] = NoMsg
  BY DEF IInv, HandlerInv
<1>2. \A k \in Threads : k # h => event'[k] = event[k]
  BY DEF IInv, TypeOK
<1>3. NoMessageLost' /\ AckedOnlyIfSent' /\ ConnectionInv' /\ HandlerInv'
  BY DEF IInv, NoMessageLost, AckedOnlyIfSent, ConnectionInv, HandlerInv
<1>4. OnlyUnreadableAbandoned'
  BY DEF IInv, OnlyUnreadableAbandoned, Abandoned
<1>5. HeldInv' /\ SendsInv'
  BY DEF IInv, HeldInv, SendsInv, Unsent
<1>6. EventInv'
  BY <1>1, <1>2 DEF IInv, EventInv, Intact
<1> QED BY <1>3, <1>4, <1>5, <1>6 DEF IInv

\* A handler that takes a readable message keeps the invariant.
LEMMA ReceiveStep ==
  ASSUME IInv, TypeOK', NEW h \in Threads, NEW m \in Messages, Receive(h, m),
         m \notin Unparsable
  PROVE  IInv'
<1> USE DEF Receive, processVars, sentVars
<1>1. /\ msg[h] = NoMsg /\ m # NoMsg
      /\ msg'[h] = m /\ pc'[h] = "sending"
      /\ event'[h] = Unmarshalled(m, event[h])
  BY DEF IInv, HandlerInv, TypeOK, Messages
<1>2. \A k \in Threads : k # h =>
        event'[k] = event[k] /\ msg'[k] = msg[k] /\ pc'[k] = pc[k]
  BY DEF IInv, TypeOK
<1>3. NoMessageLost' /\ AckedOnlyIfSent' /\ ConnectionInv'
  BY DEF IInv, NoMessageLost, AckedOnlyIfSent, ConnectionInv
<1>4. HandlerInv'
  BY <1>1, <1>2 DEF IInv, HandlerInv
<1>5. OnlyUnreadableAbandoned'
  <2>1. Abandoned' \subseteq Abandoned
    BY <1>1, <1>2 DEF IInv, TypeOK, Abandoned
  <2> QED BY <2>1 DEF IInv, OnlyUnreadableAbandoned
<1>6. HeldInv'
  <2> SUFFICES ASSUME consumer = "open" PROVE HeldInv'
    BY DEF HeldInv
  <2>1. m \in unacked
    BY DEF IInv, ConnectionInv
  <2>2. \A k \in Threads : msg[k] # m
    BY <1>1 DEF IInv, HeldInv, HandlerInv, TypeOK
  <2>3. \A k \in Threads : pc'[k] \in {"sending", "acking"} => msg'[k] \in unacked' \ inbox'
    BY <1>1, <1>2, <2>1 DEF IInv, HeldInv
  <2>4. \A j \in Threads : \A k \in Threads \ {j} : msg'[j] # NoMsg => msg'[k] # msg'[j]
    BY <1>1, <1>2, <2>2 DEF IInv, HeldInv
  <2> QED BY <2>3, <2>4 DEF HeldInv
<1>7. EventInv'
  <2>1. event[h] \in Note
    BY DEF IInv, TypeOK
  <2>2. event'[h].id = m /\ (m \in Quoted \/ Intact(event'[h]))
    BY <1>1, <2>1, UnmarshalledReadable
  <2> QED BY <1>1, <1>2, <2>2 DEF IInv, EventInv, Intact
<1>8. SendsInv'
  BY <1>1, <1>2 DEF IInv, SendsInv, Unsent
<1> QED BY <1>3, <1>4, <1>5, <1>6, <1>7, <1>8 DEF IInv

\* A handler that reads the zero delivery of a closed channel keeps the invariant.
LEMMA ReceiveZeroStep ==
  ASSUME IInv, TypeOK', NEW h \in Threads, ReceiveZero(h) PROVE IInv'
<1> USE DEF ReceiveZero, queueVars, processVars, sentVars
<1>1. msg[h] = NoMsg /\ \A k \in Threads : k # h => pc'[k] = pc[k]
  BY DEF IInv, HandlerInv, TypeOK
<1>2. NoMessageLost' /\ AckedOnlyIfSent' /\ OnlyUnreadableAbandoned' /\ ConnectionInv'
  BY DEF IInv, NoMessageLost, AckedOnlyIfSent, OnlyUnreadableAbandoned, ConnectionInv
<1>3. HandlerInv' /\ HeldInv' /\ SendsInv'
  BY <1>1 DEF IInv, HandlerInv, HeldInv, SendsInv
<1>4. EventInv'
  BY <1>1 DEF IInv, EventInv, Intact
<1> QED BY <1>2, <1>3, <1>4 DEF IInv

\* A notification that is sent keeps the invariant.
LEMMA SendStep == ASSUME IInv, TypeOK', NEW h \in Threads, Send(h) PROVE IInv'
<1> USE DEF Send, queueVars, processVars
<1>1. /\ pc[h] = "sending" /\ pc'[h] = "acking"
      /\ \A k \in Threads : k # h => pc'[k] = pc[k]
  BY DEF IInv, TypeOK
<1>2. NoMessageLost' /\ AckedOnlyIfSent' /\ OnlyUnreadableAbandoned' /\ ConnectionInv'
  BY DEF IInv, NoMessageLost, AckedOnlyIfSent, OnlyUnreadableAbandoned, Abandoned,
     ConnectionInv
<1>3. HandlerInv' /\ HeldInv'
  BY <1>1 DEF IInv, HandlerInv, HeldInv
<1>4. EventInv'
  BY <1>1 DEF IInv, EventInv, Intact
<1>5. SendsInv'
  <2> SUFFICES ASSUME consumer = "open", NEW k \in Messages
               PROVE  sends'[k] <= 1 /\ (Unsent(k)' => sends'[k] = 0)
    BY DEF SendsInv
  <2>1. msg[h] \in unacked \ inbox /\ msg[h] \in Messages /\ msg[h] # NoMsg
    BY <1>1 DEF IInv, HeldInv, TypeOK
  <2>2. event[h].id = msg[h] /\ sends' = CountSend(msg[h])
    BY <2>1 DEF IInv, EventInv
  <2>3. sends[msg[h]] = 0
    BY <1>1, <2>1 DEF IInv, SendsInv, Unsent
  <2>4. CASE k = msg[h]
    <3>1. ~Unsent(k)'
      <4>1. k \in queued /\ k \notin ready /\ k \notin inbox
        BY <2>1, <2>4 DEF IInv, NoMessageLost
      <4>2. \A j \in Threads : pc'[j] = "sending" => msg[j] # k
        BY <1>1, <2>1, <2>4 DEF IInv, HeldInv
      <4> QED BY <4>1, <4>2 DEF Unsent
    <3>2. sends'[k] <= 1
      BY <2>2, <2>3, <2>4, CountSendType DEF IInv, TypeOK
    <3> QED BY <3>1, <3>2
  <2>5. CASE k # msg[h]
    <3>1. sends'[k] = sends[k]
      BY <2>2, <2>5, CountSendType DEF IInv, TypeOK
    <3>2. Unsent(k)' => Unsent(k)
      BY <1>1 DEF Unsent
    <3> QED BY <3>1, <3>2 DEF IInv, SendsInv
  <2> QED BY <2>4, <2>5
<1> QED BY <1>2, <1>3, <1>4, <1>5 DEF IInv

\* A notification that cannot be sent keeps the invariant: the message stays delivered.
LEMMA SendFailsStep ==
  ASSUME IInv, TypeOK', NEW h \in Threads, SendFails(h) PROVE IInv'
<1> USE DEF SendFails, queueVars, processVars, sentVars
<1>1. /\ pc[h] = "sending" /\ pc'[h] = "idle" /\ msg'[h] = NoMsg
      /\ \A k \in Threads : k # h => pc'[k] = pc[k] /\ msg'[k] = msg[k]
  BY DEF IInv, TypeOK
<1>2. NoMessageLost' /\ AckedOnlyIfSent' /\ OnlyUnreadableAbandoned' /\ ConnectionInv'
  BY DEF IInv, NoMessageLost, AckedOnlyIfSent, OnlyUnreadableAbandoned, ConnectionInv
<1>3. HandlerInv'
  BY <1>1 DEF IInv, HandlerInv
<1>4. HeldInv'
  BY <1>1 DEF IInv, HeldInv
<1>5. EventInv'
  BY <1>1 DEF IInv, EventInv, Intact
<1>6. SendsInv'
  BY <1>1 DEF IInv, SendsInv, Unsent
<1> QED BY <1>2, <1>3, <1>4, <1>5, <1>6 DEF IInv

\* An acknowledgement keeps the invariant: the message has been sent.
LEMMA AckStep == ASSUME IInv, TypeOK', NEW h \in Threads, Ack(h) PROVE IInv'
<1> USE DEF Ack, processVars, sentVars
<1>1. /\ pc[h] = "acking" /\ pc'[h] = "idle" /\ msg'[h] = NoMsg
      /\ \A k \in Threads : k # h => pc'[k] = pc[k] /\ msg'[k] = msg[k]
  BY DEF IInv, TypeOK
<1>2. consumer = "open" => msg[h] \in unacked \ inbox /\ msg[h] # NoMsg
  BY <1>1 DEF IInv, HeldInv, TypeOK
<1>3. NoMessageLost'
  BY <1>2 DEF IInv, NoMessageLost
<1>4. AckedOnlyIfSent'
  BY <1>1 DEF IInv, AckedOnlyIfSent, EventInv
<1>5. OnlyUnreadableAbandoned'
  BY <1>1, <1>2 DEF IInv, OnlyUnreadableAbandoned, Abandoned
<1>6. ConnectionInv'
  BY <1>2 DEF IInv, ConnectionInv
<1>7. HandlerInv'
  BY <1>1 DEF IInv, HandlerInv
<1>8. HeldInv'
  BY <1>1, <1>2 DEF IInv, HeldInv
<1>9. EventInv'
  BY <1>1 DEF IInv, EventInv, Intact
<1>10. SendsInv'
  BY <1>1 DEF IInv, SendsInv, Unsent
<1> QED BY <1>3, <1>4, <1>5, <1>6, <1>7, <1>8, <1>9, <1>10 DEF IInv

(***************************************************************************)
(* The results.                                                            *)
(***************************************************************************)
THEOREM NextInv == IInv /\ [Next]_vars => IInv'
<1> SUFFICES ASSUME IInv, [Next]_vars PROVE IInv'
  OBVIOUS
<1>1. TypeOK'
  BY TypeStep DEF IInv
<1>2. CASE UNCHANGED vars
  BY <1>1, <1>2, AsideStep DEF vars, processVars, IInv
<1>3. CASE Broker
  <2>1. CASE ConsumerLost
    BY <1>1, <2>1, RequeueStep DEF ConsumerLost, processVars
  <2>2. CASE ProducerLost
    BY <1>1, <2>2, AsideStep DEF ProducerLost, processVars
  <2> QED BY <1>1, <1>3, <2>1, <2>2, QueueStep, DeliverStep, DropInboxStep DEF Broker
<1>4. CASE Process
  <2>1. CASE Signal \/ StopProducer
    BY <1>1, <2>1, AsideStep DEF Signal, StopProducer
  <2>2. CASE StopConsumer
    <3>1. CASE consumer = "open"
      BY <1>1, <2>2, <3>1, RequeueStep DEF StopConsumer
    <3>2. CASE consumer # "open"
      BY <1>1, <2>2, <3>2, AsideStep DEF StopConsumer, queueVars
    <3> QED BY <3>1, <3>2
  <2> QED BY <1>1, <1>4, <2>1, <2>2, StartStep, EndsStep DEF Process, Exit, Crash
<1>5. ASSUME NEW h \in Threads, Handle(h) PROVE IInv'
  <2>1. ASSUME NEW m \in Messages, Receive(h, m) PROVE IInv'
    BY <1>1, <2>1, ReceiveStep, ReceiveUnreadStep
  <2> QED BY <1>1, <1>5, <2>1, QuitStep, ReceiveZeroStep, SendStep, SendFailsStep,
        AckStep DEF Handle
<1> QED BY <1>2, <1>3, <1>4, <1>5 DEF Next

\* The inductive invariant of the queue and the sender, whatever ends or fails when.
THEOREM Invariance == Spec => []IInv
BY InitInv, NextInv, PTL DEF Spec

\* Whatever connection or process ends when, every notification that was queued
\* is in the queue, delivered or acknowledged.
THEOREM NoMessageLostHolds == Spec => []NoMessageLost
<1>1. IInv => NoMessageLost
  BY DEF IInv
<1> QED BY <1>1, Invariance, PTL

\* No notification is acknowledged that was not sent on.
THEOREM AckedOnlyIfSentHolds == Spec => []AckedOnlyIfSent
<1>1. IInv => AckedOnlyIfSent
  BY DEF IInv
<1> QED BY <1>1, Invariance, PTL

\* With both connections open, only unreadable messages are left hanging.
THEOREM OnlyUnreadableAbandonedHolds == Spec => []OnlyUnreadableAbandoned
<1>1. IInv => OnlyUnreadableAbandoned
  BY DEF IInv
<1> QED BY <1>1, Invariance, PTL

\* As long as the consumer is connected, nothing is sent twice in one start.
THEOREM SentOnceWhileConnectedHolds == Spec => []SentOnceWhileConnected
<1>1. IInv => SentOnceWhileConnected
  BY DEF IInv, SendsInv, SentOnceWhileConnected, SentOncePerStart
<1> QED BY <1>1, Invariance, PTL

\* What a step adds to the sent notifications while the consumer is connected.
LEMMA SentIntact ==
  ASSUME IInv, [Next]_vars, consumer = "open", NEW n \in sent', n \notin sent
  PROVE  n.id \in Quoted \/ Intact(n)
<1>1. PICK h \in Threads : Send(h)
  <2>1. ~UNCHANGED sent
    OBVIOUS
  <2> QED BY <2>1 DEF Next, vars, sentVars, Broker, Queue, Deliver, ConsumerLost,
        ProducerLost, DropInbox, Process, Start, Exit, Crash, Ends, Signal,
        StopConsumer, StopProducer, Handle, Quit, Receive, ReceiveZero, SendFails, Ack
<1>2. n = event[h] /\ pc[h] = "sending"
  BY <1>1 DEF Send
<1>3. msg[h] \in unacked /\ msg[h] # NoMsg
  BY <1>2 DEF IInv, HeldInv, TypeOK
<1> QED BY <1>2, <1>3 DEF IInv, EventInv

\* As long as the consumer is connected, a notification of a message without a
\* quote in the title holds nothing of another message.
THEOREM PlainNotificationsIntactHolds == Spec => PlainNotificationsIntact
<1>1. IInv /\ [Next]_vars =>
        [consumer = "open" =>
           \A n \in sent' \ sent : n.id \in Quoted \/ Intact(n)]_vars
  BY SentIntact
<1> QED BY <1>1, Invariance, PTL DEF Spec, PlainNotificationsIntact
=============================================================================
