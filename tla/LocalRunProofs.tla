---------------------------- MODULE LocalRunProofs ----------------------------
(***************************************************************************)
(* Proofs about the local run, for any number of packets and windows.      *)
(*                                                                         *)
(* The two halves are proved each for its own specification, the queue     *)
(* first and then the mailbox; the composition implements both, so         *)
(* whatever holds of a half holds of the local run.                        *)
(*                                                                         *)
(* QueueInv says by index what InOrderOnce says by concatenation           *)
(* (Contents), and ties the three threads' ends together (Ends): the       *)
(* consumer leaves only when the flag is up and the queue empty, and the   *)
(* flag is only up after the last push.                                    *)
(***************************************************************************)
EXTENDS LocalRun, SequenceTheorems, TLAPS

Held == IF consumer = "process" THEN 1 ELSE 0

Contents ==
  /\ Len(processed) + Held + Len(queue) = pushed
  /\ \A i \in 1..Len(processed) : processed[i] = i
  /\ consumer = "process" => current = Len(processed) + 1
  /\ \A i \in 1..Len(queue) : queue[i] = Len(processed) + Held + i

Ends ==
  /\ producerDone <=> producer \in {"notifyDone", "exited"}
  /\ producerDone => pushed = TotalPackets
  /\ consumer = "exited" => producerDone /\ queue = <<>>
  /\ main \in {"joinConsumer", "returned"} => producer = "exited"
  /\ main = "returned" => consumer = "exited"

QueueInv == QueueTypeOK /\ Contents /\ Ends

LEMMA QueueInitInv == QueueInit => QueueInv
<1> SUFFICES ASSUME QueueInit PROVE QueueInv
  OBVIOUS
<1>1. QueueTypeOK
  <2>1. queue \in Seq(1..TotalPackets) /\ processed \in Seq(1..TotalPackets)
    BY DEF QueueInit
  <2>2. producerDone \in BOOLEAN
    BY Zenon DEF QueueInit
  <2>3. producer \in ProducerState /\ consumer \in ConsumerState
    BY DEF QueueInit, ProducerState, ConsumerState
  <2>4. QED
    BY <2>1, <2>2, <2>3, QueueAssumption DEF QueueInit, QueueTypeOK
<1>2. Contents
  BY DEF QueueInit, Contents, Held
<1>3. Ends
  BY DEF QueueInit, Ends
<1>4. QED
  BY <1>1, <1>2, <1>3 DEF QueueInv

LEMMA QueueNextKeepsInv == QueueInv /\ [QueueNext]_queueVars => QueueInv'
<1> SUFFICES ASSUME QueueInv, [QueueNext]_queueVars PROVE QueueInv'
  OBVIOUS
<1> USE QueueAssumption
<1>1. QueueTypeOK /\ Contents /\ Ends
  BY DEF QueueInv
<1>2. CASE Push
  <2>1. QueueTypeOK'
    <3>1. pushed' = pushed + 1 /\ pushed' \in 1..TotalPackets
      BY <1>1, <1>2 DEF Push, QueueTypeOK
    <3>2. queue' \in Seq(1..TotalPackets)
      BY <1>1, <1>2, <3>1 DEF Push, QueueTypeOK
    <3>3. producerDone' \in BOOLEAN
      BY <1>1, <1>2, Zenon DEF Push, QueueTypeOK
    <3>4. QED
      BY <1>1, <1>2, <3>1, <3>2, <3>3 DEF Push, QueueTypeOK, ProducerState
  <2>2. Contents'
    <3>1. /\ queue \in Seq(1..TotalPackets)
          /\ Len(processed) \in Nat /\ Len(queue) \in Nat /\ Held \in Nat
          /\ queue' = Append(queue, pushed + 1) /\ pushed' = pushed + 1
          /\ pushed \in Nat
      BY <1>1, <1>2 DEF Push, QueueTypeOK, Held
    <3>2. consumer' = consumer /\ current' = current /\ processed' = processed
      BY <1>2 DEF Push
    <3>3. Held' = Held
      BY <3>2 DEF Held
    <3>4. /\ Len(queue') = Len(queue) + 1
          /\ \A i \in 1..Len(queue') :
               queue'[i] = IF i <= Len(queue) THEN queue[i] ELSE pushed + 1
      BY <3>1
    <3>5. /\ Len(processed) + Held + Len(queue) = pushed
          /\ \A i \in 1..Len(queue) : queue[i] = Len(processed) + Held + i
      BY <1>1 DEF Contents
    <3>6. /\ Len(processed') + Held' + Len(queue') = pushed'
          /\ \A i \in 1..Len(queue') : queue'[i] = Len(processed') + Held' + i
      BY <3>1, <3>2, <3>3, <3>4, <3>5
    <3>7. QED
      BY <1>1, <3>2, <3>6 DEF Contents
  <2>3. Ends'
    BY <1>1, <1>2 DEF Push, QueueTypeOK, Ends
  <2>4. QED
    BY <2>1, <2>2, <2>3 DEF QueueInv
<1>3. CASE NotifyPush
  <2>1. QueueTypeOK'
    BY <1>1, <1>3 DEF NotifyPush, WakeConsumer, QueueTypeOK, ProducerState, ConsumerState
  <2>2. Contents'
    BY <1>1, <1>3 DEF NotifyPush, WakeConsumer, QueueTypeOK, Contents, Held
  <2>3. Ends'
    BY <1>1, <1>3 DEF NotifyPush, WakeConsumer, QueueTypeOK, Ends
  <2>4. QED
    BY <2>1, <2>2, <2>3 DEF QueueInv
<1>4. CASE SetDone
  <2>1. QueueTypeOK'
    BY <1>1, <1>4 DEF SetDone, QueueTypeOK, ProducerState
  <2>2. Contents'
    BY <1>1, <1>4 DEF SetDone, QueueTypeOK, Contents, Held
  <2>3. Ends'
    BY <1>1, <1>4 DEF SetDone, QueueTypeOK, Ends
  <2>4. QED
    BY <2>1, <2>2, <2>3 DEF QueueInv
<1>5. CASE NotifyDone
  <2>1. QueueTypeOK'
    BY <1>1, <1>5 DEF NotifyDone, WakeConsumer, QueueTypeOK, ProducerState, ConsumerState
  <2>2. Contents'
    BY <1>1, <1>5 DEF NotifyDone, WakeConsumer, QueueTypeOK, Contents, Held
  <2>3. Ends'
    BY <1>1, <1>5 DEF NotifyDone, WakeConsumer, QueueTypeOK, Ends
  <2>4. QED
    BY <2>1, <2>2, <2>3 DEF QueueInv
<1>6. CASE TakePacket
  <2>1. QueueTypeOK'
    BY <1>1, <1>6 DEF TakePacket, QueueTypeOK, ConsumerState
  <2>2. Contents'
    <3>1. queue \in Seq(1..TotalPackets) /\ queue # <<>> /\ Len(processed) \in Nat
      BY <1>1, <1>6 DEF TakePacket, QueueTypeOK
    <3>2. /\ Len(Tail(queue)) = Len(queue) - 1
          /\ \A i \in 1..Len(Tail(queue)) : Tail(queue)[i] = queue[i + 1]
          /\ Len(queue) \in Nat \ {0}
      BY <3>1, HeadTailProperties, EmptySeq, Zenon
    <3>3. Head(queue) = queue[1]
      BY <3>1
    <3>4. /\ consumer = "acquire" /\ consumer' = "process" /\ current' = Head(queue)
          /\ queue' = Tail(queue) /\ pushed' = pushed /\ processed' = processed
      BY <1>6 DEF TakePacket
    <3>5. Held = 0 /\ Held' = 1
      BY <3>4 DEF Held
    <3>6. /\ Len(processed) + Len(queue) = pushed
          /\ \A i \in 1..Len(queue) : queue[i] = Len(processed) + i
      BY <1>1, <3>1, <3>5 DEF Contents
    <3>7. Len(processed') + Held' + Len(queue') = pushed'
      BY <3>1, <3>2, <3>4, <3>5, <3>6
    <3>8. current' = Len(processed') + 1
      BY <3>1, <3>2, <3>3, <3>4, <3>6
    <3>9. \A i \in 1..Len(queue') : queue'[i] = Len(processed') + Held' + i
      <4>1. SUFFICES ASSUME NEW i \in 1..Len(Tail(queue))
                     PROVE  Tail(queue)[i] = Len(processed) + 1 + i
        BY <3>4, <3>5, Zenon
      <4>2. i + 1 \in 1..Len(queue)
        BY <3>2
      <4>3. queue[i + 1] = Len(processed) + (i + 1)
        BY <3>6, <4>2
      <4>4. Tail(queue)[i] = queue[i + 1]
        BY <3>2, Zenon
      <4>5. i \in Nat
        OBVIOUS
      <4>6. QED
        BY <3>1, <4>3, <4>4, <4>5
    <3>10. QED
      BY <1>1, <3>4, <3>7, <3>8, <3>9 DEF Contents
  <2>3. Ends'
    BY <1>1, <1>6 DEF TakePacket, QueueTypeOK, Ends
  <2>4. QED
    BY <2>1, <2>2, <2>3 DEF QueueInv
<1>7. CASE Process
  <2>1. QueueTypeOK'
    BY <1>1, <1>7 DEF Process, QueueTypeOK, Contents, Held, ConsumerState
  <2>2. Contents'
    BY <1>1, <1>7 DEF Process, QueueTypeOK, Contents, Held
  <2>3. Ends'
    BY <1>1, <1>7 DEF Process, QueueTypeOK, Ends
  <2>4. QED
    BY <2>1, <2>2, <2>3 DEF QueueInv
<1>8. CASE /\ UNCHANGED <<queue, pushed, producerDone, producer, current, processed, main>>
           /\ consumer # "process"
           /\ consumer' \in ConsumerState \ {"process"}
           /\ consumer # "exited"
           /\ consumer' = "exited" => producerDone /\ queue = <<>>
  <2>1. QueueTypeOK'
    BY <1>1, <1>8 DEF QueueTypeOK
  <2>2. Contents'
    BY <1>1, <1>8 DEF Contents, Held
  <2>3. Ends'
    BY <1>1, <1>8 DEF Ends
  <2>4. QED
    BY <2>1, <2>2, <2>3 DEF QueueInv
<1>9. CASE MainStep
  <2>1. QueueTypeOK'
    BY <1>1, <1>9 DEF MainStep, JoinProducer, JoinConsumer, QueueTypeOK
  <2>2. Contents'
    BY <1>1, <1>9 DEF MainStep, JoinProducer, JoinConsumer, Contents, Held
  <2>3. Ends'
    BY <1>1, <1>9 DEF MainStep, JoinProducer, JoinConsumer, Ends, QueueTypeOK
  <2>4. QED
    BY <2>1, <2>2, <2>3 DEF QueueInv
<1>10. CASE UNCHANGED queueVars
  BY <1>1, <1>10 DEF queueVars, QueueInv, QueueTypeOK, Contents, Held, Ends
<1>11. ConsumerBreak \/ ConsumerFindsNothing \/ ConsumerPark \/ ConsumerWakes
         => /\ UNCHANGED <<queue, pushed, producerDone, producer, current, processed, main>>
            /\ consumer # "process"
            /\ consumer' \in ConsumerState \ {"process"}
            /\ consumer # "exited"
            /\ consumer' = "exited" => producerDone /\ queue = <<>>
  BY DEF ConsumerBreak, ConsumerFindsNothing, ConsumerPark, ConsumerWakes, ConsumerState
<1>12. QED
  BY <1>2, <1>3, <1>4, <1>5, <1>6, <1>7, <1>8, <1>9, <1>10, <1>11
     DEF QueueNext, ProducerRest, ConsumerWait, Returned

(***************************************************************************)
(* The inductive invariant holds in every reachable state.                 *)
(***************************************************************************)
THEOREM QueueInductive == QueueSpec => []QueueInv
<1>1. QED
  BY QueueInitInv, QueueNextKeepsInv, PTL DEF QueueSpec

(***************************************************************************)
(* The queue, the flag and the three threads keep their types.             *)
(***************************************************************************)
THEOREM QueueTyped == QueueSpec => []QueueTypeOK
<1>1. QueueInv => QueueTypeOK
  BY DEF QueueInv
<1>2. QED
  BY <1>1, QueueInductive, PTL

(***************************************************************************)
(* Every packet pushed is processed, in hand or queued, once and in order. *)
(***************************************************************************)
THEOREM PacketsInOrderOnce == QueueSpec => []InOrderOnce
<1>1. QueueInv => InOrderOnce
  <2> SUFFICES ASSUME QueueInv PROVE InOrderOnce
    OBVIOUS
  <2> DEFINE P == 0..TotalPackets
             s == processed \o InHand
             t == s \o queue
             u == [i \in 1..pushed |-> i]
  <2>1. /\ processed \in Seq(P) /\ queue \in Seq(P)
        /\ pushed \in P /\ current \in P /\ TotalPackets \in Nat
    BY QueueAssumption DEF QueueInv, QueueTypeOK
  <2>2. InHand \in Seq(P) /\ Len(InHand) = Held /\ Held \in Nat
    <3> HIDE DEF P
    <3>1. CASE consumer = "process"
      <4>1. <<current>> \in Seq(P) /\ Len(<<current>>) = 1
        BY <2>1
      <4>2. QED
        BY <3>1, <4>1 DEF InHand, Held
    <3>2. CASE consumer # "process"
      <4>1. << >> \in Seq(P) /\ Len(<< >>) = 0
        BY EmptySeq, Zenon
      <4>2. QED
        BY <3>2, <4>1 DEF InHand, Held
    <3>3. QED
      BY <3>1, <3>2
  <2>3. /\ s \in Seq(P)
        /\ Len(s) = Len(processed) + Held
        /\ \A i \in 1..Len(processed) + Held :
             s[i] = IF i <= Len(processed) THEN processed[i]
                    ELSE InHand[i - Len(processed)]
    BY <2>1, <2>2, ConcatProperties, Zenon
  <2>4. /\ t \in Seq(P)
        /\ Len(t) = Len(s) + Len(queue)
        /\ \A i \in 1..Len(s) + Len(queue) :
             t[i] = IF i <= Len(s) THEN s[i] ELSE queue[i - Len(s)]
    BY <2>1, <2>3, ConcatProperties, Zenon
  <2>5. /\ Len(processed) \in Nat /\ Len(queue) \in Nat
        /\ Len(t) = pushed
    BY <2>1, <2>2, <2>3, <2>4 DEF QueueInv, Contents
  <2>6. \A i \in 1..Len(s) : s[i] = i
    <3> HIDE DEF s
    <3>1. \A i \in 1..Len(processed) : processed[i] = i
      BY DEF QueueInv, Contents
    <3>2. CASE consumer = "process"
      <4>1. Held = 1 /\ InHand[1] = Len(processed) + 1
        BY <3>2 DEF QueueInv, Contents, InHand, Held
      <4>2. QED
        BY <2>3, <2>5, <3>1, <4>1
    <3>3. CASE consumer # "process"
      <4>1. Held = 0
        BY <3>3 DEF Held
      <4>2. QED
        BY <2>3, <2>5, <3>1, <4>1
    <3>4. QED
      BY <3>2, <3>3
  <2>7. \A i \in 1..Len(t) : t[i] = i
    <3>1. \A i \in 1..Len(queue) : queue[i] = Len(s) + i
      BY <2>3 DEF QueueInv, Contents
    <3>2. Len(s) \in Nat
      BY <2>2, <2>3, <2>5
    <3> HIDE DEF s, t
    <3>3. QED
      BY <2>4, <2>5, <2>6, <3>1, <3>2
  <2>8. u \in Seq(P) /\ Len(u) = pushed /\ \A i \in 1..pushed : u[i] = i
    BY <2>1
  <2>9. t = u
    <3> HIDE DEF t, u
    <3>1. Len(t) = Len(u) /\ \A i \in 1..Len(t) : t[i] = u[i]
      BY <2>5, <2>7, <2>8
    <3>2. QED
      BY <2>4, <2>8, <3>1, SeqEqual, Zenon
  <2>10. QED
    BY <2>9 DEF InOrderOnce
<1>2. QED
  BY <1>1, QueueInductive, PTL

(***************************************************************************)
(* When wait_until_done returns, every packet has been processed.          *)
(***************************************************************************)
THEOREM NothingLeft == QueueSpec => []ReturnsComplete
<1>1. QueueInv => ReturnsComplete
  BY DEF QueueInv, QueueTypeOK, Contents, Ends, Held, ReturnsComplete
<1>2. QED
  BY <1>1, QueueInductive, PTL

(***************************************************************************)
(* A consumer that is asleep, with no notification of a push under way,    *)
(* has processed everything that was pushed: the mutex is kept until it    *)
(* sleeps, so no push falls between its look at the queue and its sleep.   *)
(* What EveryPushProcessed and WaitReturns rest on; and where wait_until_  *)
(* done does not return, because the last notification came too early, no  *)
(* packet is missing.                                                      *)
(***************************************************************************)
SleepsOverNothing ==
  consumer = "blocked" /\ producer # "notify" => Len(processed) = pushed

WakeInv ==
  /\ consumer = "parking" => queue = <<>>
  /\ consumer = "blocked" /\ producer # "notify" => queue = <<>>

LEMMA WakeKept == QueueInv /\ WakeInv /\ [QueueNext]_queueVars => WakeInv'
<1> SUFFICES ASSUME QueueInv, WakeInv, [QueueNext]_queueVars PROVE WakeInv'
  OBVIOUS
<1> USE DEF WakeInv
<1>1. CASE Push
  BY <1>1 DEF Push, QueueMutexFree
<1>2. CASE NotifyPush \/ NotifyDone
  BY <1>2 DEF NotifyPush, NotifyDone, WakeConsumer
<1>3. CASE SetDone
  BY <1>3 DEF SetDone
<1>4. CASE ConsumerWait \/ ConsumerWakes \/ Process
  BY <1>4 DEF ConsumerWait, TakePacket, ConsumerBreak, ConsumerFindsNothing, ConsumerPark,
              ConsumerWakes, Process
<1>5. CASE MainStep
  BY <1>5 DEF MainStep, JoinProducer, JoinConsumer
<1>6. CASE UNCHANGED queueVars
  BY <1>6 DEF queueVars
<1> QED
  BY <1>1, <1>2, <1>3, <1>4, <1>5, <1>6 DEF QueueNext, ProducerRest, Returned

THEOREM NoSleepOverWork == QueueSpec => []SleepsOverNothing
<1>1. QueueInit => WakeInv
  BY DEF QueueInit, WakeInv
<1>2. QueueInv /\ WakeInv => SleepsOverNothing
  BY DEF QueueInv, QueueTypeOK, Contents, Held, WakeInv, SleepsOverNothing
<1> QED
  BY <1>1, <1>2, WakeKept, QueueInductive, PTL DEF QueueSpec

-----------------------------------------------------------------------------

\* What the mailbox says about itself is true of its contents.
MailboxContents ==
  /\ sharedTelemetry.window = closed
  /\ newTelemetry \/ host \in {"flag", "notify"} => closed # 0
  /\ host = "full" => closed < MaxWindows
  /\ worker \in {"infer", "fatal"} => localTelemetry.window # 0

\* The filter, the mailbox's policy, the window last taken and the newest
\* window are in this order.
HostInOrder ==
  /\ livePolicy <= sharedPolicy
  /\ sharedPolicy <= localTelemetry.window
  /\ localTelemetry.window <= closed

\* The newest window can be taken once for each flag that is up or about to
\* go up.
HostChances ==
  (IF newTelemetry THEN 1 ELSE 0) + (IF host = "flag" THEN 1 ELSE 0)

HostTakes ==
  /\ \A w \in Window : w > closed => seen[w] = 0
  /\ \A w \in Window : w = closed => seen[w] + HostChances <= 2
  /\ \A w \in Window : seen[w] <= 2

\* A publication that found the policy flag up has counted the policy under
\* it as superseded, unless the flag has gone down since.
FoundFlagUp == worker = "publishing" /\ newPolicy => inferences <= applied + superseded

MailboxInv ==
  /\ TypeOK
  /\ MailboxContents
  /\ HostInOrder
  /\ HostTakes
  /\ FoundFlagUp
  /\ CountersCover

-----------------------------------------------------------------------------
LEMMA MailboxInitInv == Init => MailboxInv
<1> SUFFICES ASSUME Init PROVE MailboxInv
  OBVIOUS
<1> USE MailboxAssumption DEF Init, WorkerInit
<1>1. TypeOK
  <2>1. history \in Seq(Window) /\ seen \in [Window -> Nat]
    OBVIOUS
  <2>2. sharedTelemetry \in Telemetry /\ localTelemetry \in Telemetry
    BY DEF Telemetry
  <2>3. worker \in WorkerState /\ host \in HostState
    BY DEF WorkerState, HostState
  <2>4. newTelemetry \in BOOLEAN /\ newPolicy \in BOOLEAN /\ stopThread \in BOOLEAN
    BY Zenon
  <2>5. QED
    BY <2>1, <2>2, <2>3, <2>4 DEF TypeOK, WorkerTypeOK
<1>2. MailboxContents /\ HostInOrder /\ FoundFlagUp /\ CountersCover
  BY DEF MailboxContents, HostInOrder, FoundFlagUp, CountersCover
<1>3. HostTakes
  BY DEF HostTakes, HostChances, Window
<1>4. QED
  BY <1>1, <1>2, <1>3 DEF MailboxInv

\* Pushing a window keeps a sequence of windows one.
LEMMA FramesStayWindows ==
  ASSUME NEW frames \in Seq(Window), NEW w \in Window
  PROVE  PushFrame(frames, w) \in Seq(Window)
<1>1. CASE frames = <<>>
  <2>1. [i \in 1..FrameStack |-> w] \in Seq(Window)
    BY MailboxAssumption
  <2>2. QED
    BY <1>1, <2>1 DEF PushFrame
<1>2. CASE frames # <<>>
  <2>1. Append(Tail(frames), w) \in Seq(Window)
    BY <1>2
  <2>2. QED
    BY <1>2, <2>1 DEF PushFrame
<1>3. QED
  BY <1>1, <1>2

-----------------------------------------------------------------------------
\* Steps that leave the mailbox, the counters and the filter alone: a thread's
\* program counter, the stop flag, a wake-up.
Moves ==
  /\ worker' \in WorkerState
  /\ worker' \in {"infer", "fatal"} => worker \in {"infer", "fatal"}
  /\ worker' = "publishing" => worker = "publishing"
  /\ host' \in HostState
  /\ host' = "full" => closed < MaxWindows
  /\ host' = "flag" => host = "flag"
  /\ host' = "notify" => host \in {"flag", "notify"}
  /\ stopThread' \in BOOLEAN
  /\ UNCHANGED <<mailboxVars, localVars, countVars, closed, livePolicy, applied>>

LEMMA MovesKeepInv == MailboxInv /\ Moves => MailboxInv'
<1> SUFFICES ASSUME MailboxInv, Moves PROVE MailboxInv'
  OBVIOUS
<1> USE DEF MailboxInv, Moves, mailboxVars, localVars, countVars
<1>1. TypeOK'
  BY DEF TypeOK, WorkerTypeOK
<1>2. (MailboxContents /\ HostInOrder)'
  BY DEF MailboxContents, HostInOrder
<1>3. HostTakes'
  <2>1. HostChances' <= HostChances
    BY DEF HostChances
  <2>2. QED
    BY <2>1 DEF TypeOK, WorkerTypeOK, HostTakes, HostChances
<1>4. (FoundFlagUp /\ CountersCover)'
  BY DEF FoundFlagUp, CountersCover
<1>5. QED
  BY <1>1, <1>2, <1>3, <1>4

LEMMA TakeKeepsInv ==
  MailboxInv /\ WorkerTake /\ UNCHANGED hostVars => MailboxInv'
<1> SUFFICES ASSUME MailboxInv, WorkerTake, UNCHANGED hostVars PROVE MailboxInv'
  OBVIOUS
<1>1. closed \in Window /\ sharedTelemetry.window = closed
  BY MailboxAssumption
     DEF MailboxInv, TypeOK, WorkerTypeOK, MailboxContents, WorkerTake, Window
<1>2. seen' = [seen EXCEPT ![closed] = seen[closed] + 1] /\ seen \in [Window -> Nat]
  BY <1>1 DEF WorkerTake, MailboxInv, TypeOK, WorkerTypeOK
<1>3. TypeOK'
  <2>1. seen' \in [Window -> Nat]
    BY <1>1, <1>2
  <2>2. newTelemetry' \in BOOLEAN
    BY Zenon DEF WorkerTake
  <2>3. worker' \in WorkerState
    BY DEF WorkerTake, WorkerState
  <2>4. QED
    BY <2>1, <2>2, <2>3
       DEF MailboxInv, TypeOK, WorkerTypeOK, WorkerTake, hostVars
<1>4. MailboxContents'
  BY <1>1 DEF MailboxInv, MailboxContents, WorkerTake, hostVars, Window
<1>5. HostInOrder'
  BY <1>1 DEF MailboxInv, TypeOK, WorkerTypeOK, HostInOrder, WorkerTake, hostVars,
              Window, Telemetry
<1>6. HostTakes'
  <2>1. seen[closed] + 1 <= 2 /\ seen'[closed] + HostChances' <= 2
    BY <1>1, <1>2 DEF MailboxInv, HostTakes, HostChances, WorkerTake, hostVars
  <2>2. QED
    BY <1>1, <1>2, <2>1
       DEF MailboxInv, TypeOK, WorkerTypeOK, HostTakes, WorkerTake, Window, hostVars
<1>7. (FoundFlagUp /\ CountersCover)'
  BY DEF MailboxInv, FoundFlagUp, CountersCover, WorkerTake, hostVars
<1>8. QED
  BY <1>3, <1>4, <1>5, <1>6, <1>7 DEF MailboxInv

LEMMA WritePolicyKeepsInv ==
  MailboxInv /\ WritePolicy /\ UNCHANGED hostVars => MailboxInv'
<1> SUFFICES ASSUME MailboxInv, WritePolicy, UNCHANGED hostVars PROVE MailboxInv'
  OBVIOUS
<1>1. localTelemetry.window \in Window
  BY MailboxAssumption
     DEF MailboxInv, TypeOK, WorkerTypeOK, Telemetry, MailboxContents, WritePolicy, Window
<1>2. TypeOK'
  <2>1. history' \in Seq(Window)
    BY <1>1, FramesStayWindows DEF MailboxInv, TypeOK, WorkerTypeOK, WritePolicy
  <2>2. QED
    BY <1>1, <2>1 DEF MailboxInv, TypeOK, WorkerTypeOK, WritePolicy, hostVars,
                      WorkerState, Window
<1>3. MailboxContents'
  BY DEF MailboxInv, MailboxContents, WritePolicy, hostVars
<1>4. HostInOrder'
  BY <1>1 DEF MailboxInv, TypeOK, WorkerTypeOK, HostInOrder, WritePolicy, hostVars,
              Window
<1>5. HostTakes'
  BY DEF MailboxInv, HostTakes, HostChances, WritePolicy, hostVars
<1>6. (FoundFlagUp /\ CountersCover)'
  BY DEF MailboxInv, TypeOK, WorkerTypeOK, FoundFlagUp, CountersCover, WritePolicy,
         hostVars
<1>7. QED
  BY <1>2, <1>3, <1>4, <1>5, <1>6 DEF MailboxInv

LEMMA RaisePolicyFlagKeepsInv ==
  MailboxInv /\ RaisePolicyFlag /\ UNCHANGED hostVars => MailboxInv'
<1> SUFFICES ASSUME MailboxInv, RaisePolicyFlag, UNCHANGED hostVars PROVE MailboxInv'
  OBVIOUS
<1> USE DEF RaisePolicyFlag, hostVars, localVars
<1>1. TypeOK'
  <2>1. newPolicy' \in BOOLEAN
    BY Zenon
  <2>2. QED
    BY <2>1 DEF MailboxInv, TypeOK, WorkerTypeOK, WorkerState
<1>2. (MailboxContents /\ HostInOrder)'
  BY DEF MailboxInv, MailboxContents, HostInOrder
<1>3. HostTakes'
  BY DEF MailboxInv, HostTakes, HostChances
<1>4. (FoundFlagUp /\ CountersCover)'
  BY DEF MailboxInv, TypeOK, WorkerTypeOK, FoundFlagUp, CountersCover
<1>5. QED
  BY <1>1, <1>2, <1>3, <1>4 DEF MailboxInv

LEMMA WorkerKeepsInv == MailboxInv /\ WorkerNext => MailboxInv'
<1> SUFFICES ASSUME MailboxInv, WorkerNext PROVE MailboxInv'
  OBVIOUS
<1> UNCHANGED hostVars
  BY DEF WorkerNext
<1> host \in HostState /\ stopThread \in BOOLEAN
  BY DEF MailboxInv, TypeOK, WorkerTypeOK
<1>1. CASE WorkerTake
  BY <1>1, TakeKeepsInv
<1>2. CASE WritePolicy
  BY <1>2, WritePolicyKeepsInv
<1>3. CASE RaisePolicyFlag
  BY <1>3, RaisePolicyFlagKeepsInv
<1>4. CASE WorkerLoop \/ WorkerBreak \/ WorkerFindsNothing \/ WorkerPark
           \/ SpuriousWakeup \/ InferenceFails
  <2>1. Moves
    BY <1>4 DEF WorkerLoop, WorkerBreak, WorkerFindsNothing, WorkerPark,
                SpuriousWakeup, InferenceFails, Moves, WorkerState, hostVars,
                MailboxInv, MailboxContents
  <2>2. QED
    BY <2>1, MovesKeepInv
<1>5. QED
  BY <1>1, <1>2, <1>3, <1>4 DEF WorkerNext, ControlStep

-----------------------------------------------------------------------------
LEMMA CopyPolicyKeepsInv == MailboxInv /\ CopyPolicy => MailboxInv'
<1> SUFFICES ASSUME MailboxInv, CopyPolicy PROVE MailboxInv'
  OBVIOUS
<1> USE DEF CopyPolicy, HostAt, workerVars, mailboxVars, localVars, countVars
<1>1. TypeOK'
  BY DEF MailboxInv, TypeOK, WorkerTypeOK, HostState
<1>2. (MailboxContents /\ HostInOrder)'
  BY DEF MailboxInv, TypeOK, WorkerTypeOK, MailboxContents, HostInOrder
<1>3. HostTakes'
  BY DEF MailboxInv, HostTakes, HostChances
<1>4. (FoundFlagUp /\ CountersCover)'
  BY DEF MailboxInv, FoundFlagUp, CountersCover
<1>5. QED
  BY <1>1, <1>2, <1>3, <1>4 DEF MailboxInv

LEMMA ClearFlagKeepsInv == MailboxInv /\ ClearFlag => MailboxInv'
<1> SUFFICES ASSUME MailboxInv, ClearFlag PROVE MailboxInv'
  OBVIOUS
<1> USE DEF ClearFlag, HostAt, localVars, countVars
<1>1. TypeOK'
  <2>1. newPolicy' \in BOOLEAN
    BY Zenon
  <2>2. QED
    BY <2>1 DEF MailboxInv, TypeOK, WorkerTypeOK, HostState
<1>2. (MailboxContents /\ HostInOrder)'
  BY DEF MailboxInv, MailboxContents, HostInOrder
<1>3. HostTakes'
  BY DEF MailboxInv, HostTakes, HostChances
<1>4. (FoundFlagUp /\ CountersCover)'
  BY DEF MailboxInv, TypeOK, WorkerTypeOK, FoundFlagUp, CountersCover
<1>5. QED
  BY <1>1, <1>2, <1>3, <1>4 DEF MailboxInv

LEMMA WriteTelemetryKeepsInv == MailboxInv /\ WriteTelemetry => MailboxInv'
<1> SUFFICES ASSUME MailboxInv, WriteTelemetry PROVE MailboxInv'
  OBVIOUS
<1>1. closed \in Nat /\ closed' = closed + 1 /\ closed' \in Window
  BY MailboxAssumption
     DEF MailboxInv, TypeOK, MailboxContents, WriteTelemetry, HostAt, Window
<1>2. /\ livePolicy' = livePolicy /\ livePolicy \in 0..MaxWindows
      /\ sharedTelemetry' = [window |-> closed', policy |-> livePolicy]
  BY DEF MailboxInv, TypeOK, WriteTelemetry
<1>3. TypeOK'
  <2>1. sharedTelemetry' \in Telemetry
    BY <1>1, <1>2 DEF Telemetry, Window
  <2>2. closed' \in 0..MaxWindows /\ host' \in HostState
    BY <1>1 DEF WriteTelemetry, Window, HostState
  <2>3. QED
    BY <1>2, <2>1, <2>2
       DEF MailboxInv, TypeOK, WorkerTypeOK, WriteTelemetry, localVars, countVars
<1>4. MailboxContents'
  BY <1>1, <1>2 DEF MailboxInv, MailboxContents, WriteTelemetry, localVars
<1>5. HostInOrder'
  BY <1>1 DEF MailboxInv, TypeOK, WorkerTypeOK, HostInOrder, WriteTelemetry, localVars,
              Telemetry
<1>6. HostTakes'
  BY <1>1 DEF MailboxInv, TypeOK, WorkerTypeOK, HostTakes, HostChances, WriteTelemetry,
              countVars, Window
<1>7. (FoundFlagUp /\ CountersCover)'
  BY DEF MailboxInv, FoundFlagUp, CountersCover, WriteTelemetry, countVars
<1>8. QED
  BY <1>3, <1>4, <1>5, <1>6, <1>7 DEF MailboxInv

LEMMA HostRaiseKeepsInv == MailboxInv /\ RaiseTelemetryFlag => MailboxInv'
<1> SUFFICES ASSUME MailboxInv, RaiseTelemetryFlag PROVE MailboxInv'
  OBVIOUS
<1> USE DEF RaiseTelemetryFlag, HostAt, localVars, countVars
<1>1. TypeOK'
  <2>1. newTelemetry' \in BOOLEAN
    BY Zenon
  <2>2. QED
    BY <2>1 DEF MailboxInv, TypeOK, WorkerTypeOK, HostState
<1>2. (MailboxContents /\ HostInOrder)'
  BY DEF MailboxInv, MailboxContents, HostInOrder
<1>3. HostTakes'
  <2>1. HostChances' <= HostChances
    BY DEF HostChances
  <2>2. QED
    BY <2>1 DEF MailboxInv, TypeOK, WorkerTypeOK, HostTakes, HostChances
<1>4. (FoundFlagUp /\ CountersCover)'
  BY DEF MailboxInv, FoundFlagUp, CountersCover
<1>5. QED
  BY <1>1, <1>2, <1>3, <1>4 DEF MailboxInv

LEMMA HostMovesKeepInv ==
  /\ MailboxInv
  /\ \/ CheckPolicy \/ WindowGoesOn \/ WindowFull \/ NotifyOne
     \/ EndRun \/ RaiseStopFlag \/ NotifyAll \/ JoinAndFlush
  => MailboxInv'
<1> SUFFICES ASSUME MailboxInv,
                    \/ CheckPolicy \/ WindowGoesOn \/ WindowFull \/ NotifyOne
                    \/ EndRun \/ RaiseStopFlag \/ NotifyAll \/ JoinAndFlush
             PROVE  MailboxInv'
  OBVIOUS
<1>1. worker \in WorkerState /\ stopThread \in BOOLEAN
  BY DEF MailboxInv, TypeOK, WorkerTypeOK
<1>2. CASE CheckPolicy \/ WindowGoesOn \/ WindowFull \/ EndRun \/ JoinAndFlush
  <2>1. Moves
    BY <1>1, <1>2 DEF CheckPolicy, WindowGoesOn, WindowFull, EndRun, JoinAndFlush,
                      HostAt, HostState, Moves, workerVars
  <2>2. QED
    BY <2>1, MovesKeepInv
<1>3. CASE NotifyOne \/ NotifyAll \/ RaiseStopFlag
  <2>1. stopThread' \in BOOLEAN
    BY <1>1, <1>3, Zenon DEF NotifyOne, NotifyAll, RaiseStopFlag
  <2>2. Moves
    BY <1>1, <1>3, <2>1 DEF NotifyOne, NotifyAll, RaiseStopFlag, Notify,
                      HostAt, HostState, WorkerState, Moves
  <2>3. QED
    BY <2>2, MovesKeepInv
<1>4. QED
  BY <1>2, <1>3

\* Every step keeps the invariant.
LEMMA MailboxNextKeepsInv == MailboxInv /\ [Next]_vars => MailboxInv'
<1> SUFFICES ASSUME MailboxInv, [Next]_vars PROVE MailboxInv'
  OBVIOUS
<1>1. CASE WorkerNext
  BY <1>1, WorkerKeepsInv
<1>2. CASE CallGoesOn \/ CallReturns \/ HostEnd
  BY <1>2, CopyPolicyKeepsInv, ClearFlagKeepsInv, WriteTelemetryKeepsInv,
     HostRaiseKeepsInv, HostMovesKeepInv DEF CallGoesOn, CallReturns, HostEnd
<1>3. CASE UNCHANGED vars
  BY <1>3 DEF vars, workerVars, mailboxVars, localVars, countVars, hostVars,
              MailboxInv, TypeOK, WorkerTypeOK, MailboxContents, HostInOrder,
              HostTakes, HostChances, FoundFlagUp, CountersCover
<1>4. QED
  BY <1>1, <1>2, <1>3 DEF Next, Finished

(***************************************************************************)
(* The inductive invariant of the mailbox under check_and_sync_window.     *)
(***************************************************************************)
THEOREM MailboxInductive == Spec => []MailboxInv
<1>1. QED
  BY MailboxInitInv, MailboxNextKeepsInv, PTL DEF Spec

(***************************************************************************)
(* The mailbox of the local run keeps its types.                           *)
(***************************************************************************)
THEOREM MailboxTyped == Spec => []TypeOK
<1>1. MailboxInv => TypeOK
  BY DEF MailboxInv
<1> QED
  BY <1>1, MailboxInductive, PTL

-----------------------------------------------------------------------------
(***************************************************************************)
(* In the local run the consumer thread's call and the control thread make *)
(* the steps of the mailbox and no others, whatever the queue does.        *)
(***************************************************************************)
THEOREM LocalRunHasMailbox == LocalSpec => Spec
<1>1. LocalInit => Init
  BY DEF LocalInit
<1>2. [LocalNext]_localRunVars => [Next]_vars
  BY DEF LocalNext, localRunVars, Callback, QueueStep, Control, Destroy, LocalFinished,
         Next
<1>3. QED
  BY <1>1, <1>2, PTL DEF LocalSpec, Spec

(***************************************************************************)
(* The queue, with a consumer function that goes through the mailbox's     *)
(* mutex for each packet, is still the queue of queue_simulator.cpp.       *)
(***************************************************************************)
THEOREM LocalRunHasQueue == LocalSpec => QueueSpec
<1>1. LocalInit => QueueInit
  BY DEF LocalInit
<1>2. [LocalNext]_localRunVars => [QueueNext]_queueVars
  BY DEF LocalNext, localRunVars, Callback, QueueStep, Control, Destroy, LocalFinished,
         QueueNext
<1>3. QED
  BY <1>1, <1>2, PTL DEF LocalSpec, QueueSpec

(***************************************************************************)
(* There are never more policies than were applied, counted as superseded  *)
(* or are waiting, although the flag goes down outside the mutex.          *)
(***************************************************************************)
THEOREM EveryPolicyCounted == LocalSpec => []CountersCover
<1>1. MailboxInv => CountersCover
  BY DEF MailboxInv
<1>2. QED
  BY <1>1, LocalRunHasMailbox, MailboxInductive, PTL

(***************************************************************************)
(* A window is taken at most twice although its flag is raised outside the *)
(* mutex.                                                                  *)
(***************************************************************************)
THEOREM LocalAtMostTwice == LocalSpec => []ConsumedAtMostTwice
<1>1. MailboxInv => ConsumedAtMostTwice
  BY DEF MailboxInv, HostTakes, ConsumedAtMostTwice
<1>2. QED
  BY <1>1, LocalRunHasMailbox, MailboxInductive, PTL

(***************************************************************************)
(* In the local run, too, every packet is processed once and in order, and *)
(* main goes on only when all are.                                         *)
(***************************************************************************)
THEOREM LocalPackets == LocalSpec => [](InOrderOnce /\ ReturnsComplete)
<1>1. QED
  BY LocalRunHasQueue, PacketsInOrderOnce, NothingLeft, PTL

(***************************************************************************)
(* A consumer thread that sleeps has nothing left to do, although the call *)
(* it makes for each packet waits for the mailbox's mutex.                 *)
(***************************************************************************)
THEOREM LocalNoSleepOverWork == LocalSpec => []SleepsOverNothing
BY LocalRunHasQueue, NoSleepOverWork, PTL

(***************************************************************************)
(* The filter never goes back to a policy computed from an older window,   *)
(* although policies are wiped, superseded and copied without their flag.  *)
(***************************************************************************)
THEOREM LocalPoliciesNeverRegress == LocalSpec => [][livePolicy' >= livePolicy]_vars
<1>1. MailboxInv /\ [Next]_vars => [livePolicy' >= livePolicy]_vars
  <2> SUFFICES ASSUME MailboxInv, Next PROVE livePolicy' >= livePolicy
    BY DEF vars
  <2>1. livePolicy \in Nat /\ livePolicy <= sharedPolicy
    BY DEF MailboxInv, TypeOK, HostInOrder
  <2>2. CASE CopyPolicy
    BY <2>1, <2>2 DEF CopyPolicy
  <2>3. CASE livePolicy' = livePolicy
    BY <2>1, <2>3
  <2>4. QED
    BY <2>2, <2>3
       DEF Next, Finished, vars, WorkerNext, hostVars, CallGoesOn, CallReturns, HostEnd,
           CheckPolicy, ClearFlag, WindowFull, WriteTelemetry, RaiseTelemetryFlag,
           WindowGoesOn, NotifyOne, EndRun, RaiseStopFlag, NotifyAll, JoinAndFlush
<1>2. QED
  BY <1>1, LocalRunHasMailbox, MailboxInductive, PTL DEF Spec
=============================================================================
