--------------------------- MODULE QueueSimulator ---------------------------
(***************************************************************************)
(* QueueSimulator (queue_simulator.cpp): a producer thread that pushes     *)
(* packets as they arrive, a consumer thread that takes them off and runs  *)
(* the filter and the parser on them, and the main thread, which waits for *)
(* both.  Packets are numbered from 1 in the order of their arrival.       *)
(*                                                                         *)
(* Granularity as in MailboxWorker: the consumer keeps mutex_ from the     *)
(* moment it finds the wait predicate false until it is asleep.  A push    *)
(* needs mutex_ and cannot fall in that gap; setting producer_done_ and    *)
(* the notifications do not need it and can.                               *)
(***************************************************************************)
EXTENDS Integers, Sequences

CONSTANT TotalPackets

ASSUME QueueAssumption == TotalPackets \in Nat

VARIABLES
  queue,         \* queue_
  pushed,        \* packets pushed so far, i of the producer's loop
  producerDone,  \* producer_done_
  producer,      \* where the producer thread is
  consumer,      \* where the consumer thread is
  current,       \* pkt, the packet the consumer works on
  processed,     \* packets the consumer function has returned from
  main           \* where wait_until_done is

queueVars == <<queue, pushed, producerDone, producer, consumer, current, processed, main>>

ProducerState == {"arrive", "notify", "notifyDone", "exited"}
ConsumerState == {"acquire", "parking", "blocked", "process", "exited"}

QueueTypeOK ==
  /\ queue \in Seq(1..TotalPackets)
  /\ pushed \in 0..TotalPackets
  /\ producerDone \in BOOLEAN
  /\ producer \in ProducerState
  /\ consumer \in ConsumerState
  /\ current \in 0..TotalPackets
  /\ processed \in Seq(1..TotalPackets)
  /\ main \in {"joinProducer", "joinConsumer", "returned"}

QueueInit ==
  /\ queue = <<>>
  /\ pushed = 0
  /\ producerDone = FALSE
  /\ producer = "arrive"
  /\ consumer = "acquire"
  /\ current = 0
  /\ processed = <<>>
  /\ main = "joinProducer"

-----------------------------------------------------------------------------
QueueMutexFree == consumer # "parking"

\* A notification wakes the consumer if it is asleep and is lost otherwise.
WakeConsumer == consumer' = IF consumer = "blocked" THEN "acquire" ELSE consumer

\* The next packet arrives and is pushed, under the mutex.
Push ==
  /\ producer = "arrive"
  /\ pushed < TotalPackets
  /\ QueueMutexFree
  /\ pushed' = pushed + 1
  /\ queue' = Append(queue, pushed')
  /\ producer' = "notify"
  /\ UNCHANGED <<producerDone, consumer, current, processed, main>>

\* Mutation: the push is not notified.
NotifyPushMut ==
  /\ producer = "notify"
  /\ producer' = "arrive"
  /\ UNCHANGED <<queue, pushed, producerDone, consumer, current, processed, main>>

NotifyPush ==
  /\ producer = "notify"
  /\ WakeConsumer
  /\ producer' = "arrive"
  /\ UNCHANGED <<queue, pushed, producerDone, current, processed, main>>

\* The loop is over: the flag goes up without the mutex.
SetDone ==
  /\ producer = "arrive"
  /\ pushed = TotalPackets
  /\ producerDone' = TRUE
  /\ producer' = "notifyDone"
  /\ UNCHANGED <<queue, pushed, consumer, current, processed, main>>

\* Mutation: the producer leaves without waking the consumer.
NotifyDoneMut ==
  /\ producer = "notifyDone"
  /\ producer' = "exited"
  /\ UNCHANGED <<queue, pushed, producerDone, consumer, current, processed, main>>

NotifyDone ==
  /\ producer = "notifyDone"
  /\ WakeConsumer
  /\ producer' = "exited"
  /\ UNCHANGED <<queue, pushed, producerDone, current, processed, main>>

-----------------------------------------------------------------------------
\* Mutation: the packet is read but not popped.
TakePacketMut ==
  /\ consumer = "acquire"
  /\ queue # <<>>
  /\ current' = Head(queue)
  /\ consumer' = "process"
  /\ UNCHANGED <<queue, pushed, producerDone, producer, processed, main>>

\* Under the mutex: the predicate holds and there is a packet.
TakePacket ==
  /\ consumer = "acquire"
  /\ queue # <<>>
  /\ current' = Head(queue)
  /\ queue' = Tail(queue)
  /\ consumer' = "process"
  /\ UNCHANGED <<pushed, producerDone, producer, processed, main>>

\* Mutation: the end of the producer ends the consumer, backlog or not.
ConsumerBreakMut ==
  /\ consumer = "acquire"
  /\ producerDone
  /\ consumer' = "exited"
  /\ UNCHANGED <<queue, pushed, producerDone, producer, current, processed, main>>

\* Under the mutex: nothing left and nothing to come.
ConsumerBreak ==
  /\ consumer = "acquire"
  /\ queue = <<>>
  /\ producerDone
  /\ consumer' = "exited"
  /\ UNCHANGED <<queue, pushed, producerDone, producer, current, processed, main>>

\* Under the mutex, which is kept until asleep: the predicate is false.
ConsumerFindsNothing ==
  /\ consumer = "acquire"
  /\ queue = <<>>
  /\ ~producerDone
  /\ consumer' = "parking"
  /\ UNCHANGED <<queue, pushed, producerDone, producer, current, processed, main>>

ConsumerPark ==
  /\ consumer = "parking"
  /\ consumer' = "blocked"
  /\ UNCHANGED <<queue, pushed, producerDone, producer, current, processed, main>>

ConsumerWakes ==
  /\ consumer = "blocked"
  /\ consumer' = "acquire"
  /\ UNCHANGED <<queue, pushed, producerDone, producer, current, processed, main>>

\* The consumer function, outside the mutex.
Process ==
  /\ consumer = "process"
  /\ processed' = Append(processed, current)
  /\ consumer' = "acquire"
  /\ UNCHANGED <<queue, pushed, producerDone, producer, current, main>>

-----------------------------------------------------------------------------
\* wait_until_done joins the producer, then the consumer.
JoinProducer ==
  /\ main = "joinProducer"
  /\ producer = "exited"
  /\ main' = "joinConsumer"
  /\ UNCHANGED <<queue, pushed, producerDone, producer, consumer, current, processed>>

JoinConsumer ==
  /\ main = "joinConsumer"
  /\ consumer = "exited"
  /\ main' = "returned"
  /\ UNCHANGED <<queue, pushed, producerDone, producer, consumer, current, processed>>

Returned == main = "returned" /\ UNCHANGED queueVars

ProducerRest == NotifyPush \/ SetDone \/ NotifyDone
ConsumerWait == TakePacket \/ ConsumerBreak \/ ConsumerFindsNothing \/ ConsumerPark
MainStep     == JoinProducer \/ JoinConsumer

QueueNext ==
  \/ Push
  \/ ProducerRest
  \/ ConsumerWait
  \/ ConsumerWakes
  \/ Process
  \/ MainStep
  \/ Returned

QueueSpec == QueueInit /\ [][QueueNext]_queueVars

-----------------------------------------------------------------------------
(***************************************************************************)
(* The packets processed, the one in hand and the queue are, in this       *)
(* order, the packets pushed: each once, none lost, none overtaken.        *)
(***************************************************************************)
InHand == IF consumer = "process" THEN <<current>> ELSE <<>>
InOrderOnce == processed \o InHand \o queue = [i \in 1..pushed |-> i]

(***************************************************************************)
(* When wait_until_done returns the whole workload has been processed: the *)
(* metrics that are exported next are complete.                            *)
(***************************************************************************)
ReturnsComplete == main = "returned" => Len(processed) = TotalPackets
=============================================================================
