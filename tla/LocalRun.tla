------------------------------ MODULE LocalRun ------------------------------
(***************************************************************************)
(* The local run of main.cpp with an arrival rate and --onnx: the consumer *)
(* thread of the queue simulator hands every packet to the callback, which *)
(* ends in RLBridge::check_and_sync_window; the control thread computes    *)
(* policies on the side; main waits for the queue and then destroys the    *)
(* bridge.  Four threads, two mutexes, two condition variables.            *)
(*                                                                         *)
(* HostMailbox's packet thread is the queue's consumer while packets last  *)
(* and main afterwards.  A packet is processed when its call returns.      *)
(***************************************************************************)
EXTENDS HostMailbox, QueueSimulator

localRunVars == <<vars, queueVars>>

LocalInit == Init /\ QueueInit

\* The consumer function works on the packet in hand.
Callback ==
  \/ /\ consumer = "process"
     /\ CallGoesOn
     /\ UNCHANGED queueVars
  \/ CallReturns /\ Process

\* The producer, the consumer between two packets, and main.
QueueStep ==
  /\ ProcessAlive
  /\ Push \/ ProducerRest \/ ConsumerWait \/ ConsumerWakes \/ MainStep
  /\ UNCHANGED vars

\* Inference runs on the control thread, whatever the queue does.
Control == WorkerNext /\ UNCHANGED queueVars

\* main has waited for the queue; the bridge goes out of scope.
Destroy ==
  /\ main = "returned"
  /\ HostEnd
  /\ UNCHANGED queueVars

LocalFinished == Finished /\ UNCHANGED queueVars

LocalNext == Callback \/ QueueStep \/ Control \/ Destroy \/ LocalFinished

LocalSpec == LocalInit /\ [][LocalNext]_localRunVars

(***************************************************************************)
(* The producer, the consumer and main run, and the control thread gives   *)
(* the mailbox's mutex back: it is asleep or done publishing some time.    *)
(* Only when it takes the mutex again and again is the consumer kept out,  *)
(* and a mutex is not that unfair: strong fairness for the two steps that  *)
(* wait for it.  Nothing bounds the next arrival, an inference or a        *)
(* spurious wake-up.                                                       *)
(***************************************************************************)
LocalFairSpec ==
  /\ LocalSpec
  /\ WF_localRunVars(QueueStep /\ ProducerRest)
  /\ WF_localRunVars(QueueStep /\ ConsumerWait)
  /\ WF_localRunVars(QueueStep /\ MainStep)
  /\ WF_localRunVars(Callback)
  /\ SF_localRunVars(Callback /\ CopyPolicy)
  /\ SF_localRunVars(Callback /\ WriteTelemetry)
  /\ WF_localRunVars(Control /\ (WorkerPark \/ RaisePolicyFlag))

-----------------------------------------------------------------------------
(***************************************************************************)
(* A packet is processed although no further packet may ever arrive and    *)
(* the inference under way may never end: its notification cannot fall     *)
(* between the consumer's look and its sleep, and the mailbox's mutex is   *)
(* not held during inference.  Only a failed inference stops it.           *)
(***************************************************************************)
EveryPushProcessed ==
  \A i \in 1..TotalPackets :
    pushed >= i ~> (Len(processed) >= i \/ ~ProcessAlive)

(***************************************************************************)
(* wait_until_done returns, unless the consumer was on its way to sleep    *)
(* when the flag went up and the last notification was sent.               *)
(***************************************************************************)
WaitReturns ==
  (producer = "notifyDone" /\ consumer # "parking") ~> (main = "returned" \/ ~ProcessAlive)

(***************************************************************************)
(* A policy that waits in the mailbox when a packet's call begins, or a    *)
(* newer one, gets into the filter; no inference has to end for that.      *)
(* What is published later in the call may be dropped: the flag goes down  *)
(* after the copy, outside the mutex.                                      *)
(***************************************************************************)
PolicyReachesFilter ==
  \A w \in Window :
    (newPolicy /\ sharedPolicy = w /\ consumer = "process" /\ host = "packet")
      ~> (livePolicy >= w \/ ~ProcessAlive)
=============================================================================
