---------------------------- MODULE NativeMailbox ----------------------------
(***************************************************************************)
(* One native-ONNX session of the UDP receiver: the packet thread closes   *)
(* control windows with RLBridge::publish_native_onnx_window and, when the *)
(* session is over, destroys the bridge, while the control thread of       *)
(* MailboxWorker runs.  Packets between two window boundaries touch none   *)
(* of this state; when the next boundary comes, and whether it comes, is   *)
(* up to the network.                                                      *)
(***************************************************************************)
EXTENDS MailboxWorker, FiniteSets

VARIABLES
  publisher,    \* where the packet thread is
  livePolicy,   \* policy whose parameters the filter runs with
  overwritten,  \* diagnostics: telemetry_overwritten
  applied       \* diagnostics: policies_applied

publisherVars == <<publisher, livePolicy, overwritten, applied>>
vars == <<workerVars, publisherVars>>

PublisherState ==
  {"stream", "flag", "notify", "stopping", "notifyAll", "join", "destroyed"}

TypeOK ==
  /\ WorkerTypeOK
  /\ publisher \in PublisherState
  /\ livePolicy \in 0..MaxWindows
  /\ overwritten \in Nat
  /\ applied \in Nat

Init ==
  /\ WorkerInit
  /\ publisher = "stream"
  /\ livePolicy = 0
  /\ overwritten = 0
  /\ applied = 0

-----------------------------------------------------------------------------
PublisherAt(s) == ProcessAlive /\ publisher = s

\* Mutation: the policy's flag is not taken down when it is applied.
PublishWindowKeepsPolicy ==
  /\ PublisherAt("stream")
  /\ MutexFree
  /\ telemetrySeq < MaxWindows
  /\ telemetrySeq' = telemetrySeq + 1
  /\ overwritten' = IF newTelemetry THEN overwritten + 1 ELSE overwritten
  /\ livePolicy' = IF newPolicy THEN sharedPolicy ELSE livePolicy
  /\ applied' = IF newPolicy THEN applied + 1 ELSE applied
  /\ sharedTelemetry' = [window |-> telemetrySeq', policy |-> livePolicy']
  /\ publisher' = "flag"
  /\ UNCHANGED <<newTelemetry, newPolicy, sharedPolicy, policySeq, stopThread,
                 worker, localVars, countVars>>

\* Mutation: the overwrite is counted only when no policy is waiting.
PublishWindowMiscounts ==
  /\ PublisherAt("stream")
  /\ MutexFree
  /\ telemetrySeq < MaxWindows
  /\ telemetrySeq' = telemetrySeq + 1
  /\ overwritten' = IF newTelemetry /\ ~newPolicy THEN overwritten + 1
                                                  ELSE overwritten
  /\ livePolicy' = IF newPolicy THEN sharedPolicy ELSE livePolicy
  /\ applied' = IF newPolicy THEN applied + 1 ELSE applied
  /\ newPolicy' = FALSE
  /\ sharedTelemetry' = [window |-> telemetrySeq', policy |-> livePolicy']
  /\ publisher' = "flag"
  /\ UNCHANGED <<newTelemetry, sharedPolicy, policySeq, stopThread, worker,
                 localVars, countVars>>

\* The critical section: the waiting policy, if any, goes into the filter,
\* then the new window's telemetry replaces what the mailbox holds.
PublishWindow ==
  /\ PublisherAt("stream")
  /\ MutexFree
  /\ telemetrySeq < MaxWindows
  /\ telemetrySeq' = telemetrySeq + 1
  /\ overwritten' = IF newTelemetry THEN overwritten + 1 ELSE overwritten
  /\ livePolicy' = IF newPolicy THEN sharedPolicy ELSE livePolicy
  /\ applied' = IF newPolicy THEN applied + 1 ELSE applied
  /\ newPolicy' = FALSE
  /\ sharedTelemetry' = [window |-> telemetrySeq', policy |-> livePolicy']
  /\ publisher' = "flag"
  /\ UNCHANGED <<newTelemetry, sharedPolicy, policySeq, stopThread, worker,
                 localVars, countVars>>

\* The flag goes up after the mutex is released.
RaiseTelemetryFlag ==
  /\ PublisherAt("flag")
  /\ newTelemetry' = TRUE
  /\ publisher' = "notify"
  /\ UNCHANGED <<sharedTelemetry, telemetrySeq, newPolicy, sharedPolicy,
                 policySeq, stopThread, worker, localVars, countVars,
                 livePolicy, overwritten, applied>>

\* Mutation: no notification.
NotifyOneMut ==
  /\ PublisherAt("notify")
  /\ publisher' = "stream"
  /\ UNCHANGED <<workerVars, livePolicy, overwritten, applied>>

NotifyOne ==
  /\ PublisherAt("notify")
  /\ Notify
  /\ publisher' = "stream"
  /\ UNCHANGED <<mailboxVars, stopThread, localVars, countVars,
                 livePolicy, overwritten, applied>>

-----------------------------------------------------------------------------
\* The session ends and the bridge goes out of scope.
EndSession ==
  /\ PublisherAt("stream")
  /\ publisher' = "stopping"
  /\ UNCHANGED <<workerVars, livePolicy, overwritten, applied>>

RaiseStopFlag ==
  /\ PublisherAt("stopping")
  /\ stopThread' = TRUE
  /\ publisher' = "notifyAll"
  /\ UNCHANGED <<mailboxVars, worker, localVars, countVars,
                 livePolicy, overwritten, applied>>

\* Mutation: the destructor joins without waking the thread.
NotifyAllMut ==
  /\ PublisherAt("notifyAll")
  /\ publisher' = "join"
  /\ UNCHANGED <<workerVars, livePolicy, overwritten, applied>>

NotifyAll ==
  /\ PublisherAt("notifyAll")
  /\ Notify
  /\ publisher' = "join"
  /\ UNCHANGED <<mailboxVars, stopThread, localVars, countVars,
                 livePolicy, overwritten, applied>>

\* join returns; the rest of the destructor flushes and closes the files.
JoinAndFlush ==
  /\ PublisherAt("join")
  /\ worker = "exited"
  /\ publisher' = "destroyed"
  /\ UNCHANGED <<workerVars, livePolicy, overwritten, applied>>

PublisherStep ==
  \/ RaiseTelemetryFlag
  \/ NotifyOne
  \/ RaiseStopFlag
  \/ NotifyAll
  \/ JoinAndFlush

WorkerNext ==
  /\ \/ WorkerStep
     \/ SpuriousWakeup
     \/ InferenceFails
  /\ UNCHANGED publisherVars

PublisherNext == PublishWindow \/ EndSession \/ PublisherStep

\* A destroyed bridge and a dead process do nothing more.
Finished ==
  /\ publisher = "destroyed" \/ ~ProcessAlive
  /\ UNCHANGED vars

Next == WorkerNext \/ PublisherNext \/ Finished

Spec == Init /\ [][Next]_vars

(***************************************************************************)
(* The scheduler runs both threads: a thread that has started an operation *)
(* goes on with it.  Packets need not come, sessions need not end, and     *)
(* neither spurious wake-ups nor failures have to happen.                  *)
(***************************************************************************)
FairSpec ==
  /\ Spec
  /\ WF_vars(WorkerStep /\ UNCHANGED publisherVars)
  /\ WF_vars(PublisherStep)

-----------------------------------------------------------------------------
(***************************************************************************)
(* Every completed policy is applied, superseded by a newer one before     *)
(* anyone looked, or still waiting: the exchange through new_policy_       *)
(* available_ loses none and applies none twice.                           *)
(***************************************************************************)
PolicyAccounting ==
  inferences = applied + superseded + (IF newPolicy THEN 1 ELSE 0)

(***************************************************************************)
(* The model is shown the windows of the last inferences, in their order:  *)
(* whatever the packet thread wrote while the thread was at work, and      *)
(* however often a window was taken, the newest frame is the window the    *)
(* newest policy answers, and of the windows after the oldest frame each   *)
(* one is there as often as a policy was computed from it.                 *)
(***************************************************************************)
Inferred(w) ==
  seen[w] - (IF worker \in {"infer", "fatal"} /\ localTelemetry.window = w THEN 1 ELSE 0)
FramesAreInferences ==
  history # <<>> =>
    /\ \A i \in 2..FrameStack : history[i - 1] <= history[i]
    /\ history[FrameStack] = sharedPolicy
    /\ \A w \in Window : w > history[1] =>
         Cardinality({i \in 1..FrameStack : history[i] = w}) = Inferred(w)

(***************************************************************************)
(* A closed window the thread never looked at, other than the newest, is   *)
(* one that telemetry_overwritten counts: nothing is skipped unreported.   *)
(***************************************************************************)
Skipped == {w \in 1..(telemetrySeq - 1) : seen[w] = 0}
OverwrittenCoversSkipped == Cardinality(Skipped) <= overwritten

(***************************************************************************)
(* The mailbox implements the latest-value control loop: decisions take    *)
(* effect at window boundaries, in the order of the windows they answer.   *)
(***************************************************************************)
Control == INSTANCE AsyncControl WITH
             window  <- telemetrySeq,
             working <- IF worker \in {"infer", "fatal"}
                          THEN localTelemetry.window ELSE 0,
             ready   <- IF newPolicy THEN sharedPolicy ELSE 0,
             live    <- livePolicy
ImplementsAsyncControl == Control!Spec

(***************************************************************************)
(* A sleeping control thread is woken by the next window.                  *)
(***************************************************************************)
PublishWakesWorker ==
  (worker = "blocked" /\ publisher = "flag") ~> (worker # "blocked")

(***************************************************************************)
(* The destructor's join returns, unless the control thread was between    *)
(* its last look at the stop flag and sleep when the notification was sent.*)
(***************************************************************************)
Ended == publisher = "destroyed" \/ ~ProcessAlive
ShutdownReturns ==
  (publisher = "notifyAll" /\ worker # "parking") ~> Ended

(***************************************************************************)
(* The destructor reaches the end, where it flushes the trace, however     *)
(* the threads interleave (rl_bridge.cpp:93 flushes "any remaining packet  *)
(* data").  The code does not guarantee it.                                *)
(***************************************************************************)
ShutdownAlwaysFlushes == (publisher = "notifyAll") ~> Ended

(***************************************************************************)
(* The frame placed at the end of the history is a new window              *)
(* (rl_bridge.cpp:588).  The code does not guarantee it: a window taken    *)
(* twice is stacked twice.                                                 *)
(***************************************************************************)
NewFrameIsNewWindow ==
  [][worker = "infer" /\ worker' = "loop" /\ history # <<>>
       => localTelemetry.window > history[FrameStack]]_vars
=============================================================================
