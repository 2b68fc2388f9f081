---------------------------- MODULE MailboxWorker ----------------------------
(***************************************************************************)
(* The ONNX control thread of RLBridge and the mailbox it shares with the  *)
(* packet thread (rl_bridge.cpp, onnx_worker_loop).  The mailbox holds one *)
(* telemetry record and one policy, each with a flag; onnx_mutex_ guards   *)
(* the records, and the thread sleeps on onnx_cv_ until a flag says that   *)
(* there is something to do.                                               *)
(*                                                                         *)
(* Granularity: a critical section is one step, except that the thread     *)
(* keeps the mutex from the moment it finds the wait predicate false until *)
(* it is asleep ("parking").  Stores to the atomics and notifications made *)
(* without the mutex are steps of their own and can fall in that gap.      *)
(* WorkerPublish is one step as long as the packet thread writes the       *)
(* policy's flag under the mutex; where it does not, WritePolicy and       *)
(* RaisePolicyFlag are the same publication in two.                        *)
(*                                                                         *)
(* Data: windows are numbered from 1; a policy is named by the window it   *)
(* was computed from, 0 being the parameters installed before the thread   *)
(* starts.  A telemetry record is the window it describes and the policy   *)
(* the filter was running when it was written.                             *)
(***************************************************************************)
EXTENDS Integers, Sequences

CONSTANTS
  MaxWindows,   \* bound: windows closed in the session
  FrameStack    \* K, the number of frames the model stacks

ASSUME MailboxAssumption ==
  /\ MaxWindows \in Nat
  /\ FrameStack \in Nat \ {0}

VARIABLES
  newTelemetry,     \* new_telemetry_available_
  sharedTelemetry,  \* shared_telemetry_
  telemetrySeq,     \* shared_telemetry_sequence_
  newPolicy,        \* new_policy_available_
  sharedPolicy,     \* shared_policy_
  policySeq,        \* shared_policy_sequence_
  stopThread,       \* stop_onnx_thread_
  worker,           \* where the control thread is
  localTelemetry,   \* local_telemetry
  localSeq,         \* local_sequence
  history,          \* input_history_buffer_, one window per frame
  consumed,         \* diagnostics: telemetry_consumed
  superseded,       \* diagnostics: policies_superseded
  inferences,       \* diagnostics: inferences_completed
  seen              \* history variable: how often each window was consumed

mailboxVars == <<newTelemetry, sharedTelemetry, telemetrySeq,
                 newPolicy, sharedPolicy, policySeq>>
localVars   == <<localTelemetry, localSeq, history>>
countVars   == <<consumed, superseded, inferences, seen>>
workerVars  == <<mailboxVars, stopThread, worker, localVars, countVars>>

Window      == 1..MaxWindows
Telemetry   == [window : 0..MaxWindows, policy : 0..MaxWindows]
WorkerState == {"loop", "acquire", "parking", "blocked", "infer", "publishing",
                "exited", "fatal"}

WorkerTypeOK ==
  /\ newTelemetry \in BOOLEAN
  /\ sharedTelemetry \in Telemetry
  /\ telemetrySeq \in 0..MaxWindows
  /\ newPolicy \in BOOLEAN
  /\ sharedPolicy \in 0..MaxWindows
  /\ policySeq \in 0..MaxWindows
  /\ stopThread \in BOOLEAN
  /\ worker \in WorkerState
  /\ localTelemetry \in Telemetry
  /\ localSeq \in 0..MaxWindows
  /\ history \in Seq(Window)
  /\ consumed \in Nat
  /\ superseded \in Nat
  /\ inferences \in Nat
  /\ seen \in [Window -> Nat]

\* The bridge as initialize_onnx leaves it: empty mailbox, thread started.
WorkerInit ==
  /\ newTelemetry = FALSE
  /\ sharedTelemetry = [window |-> 0, policy |-> 0]
  /\ telemetrySeq = 0
  /\ newPolicy = FALSE
  /\ sharedPolicy = 0
  /\ policySeq = 0
  /\ stopThread = FALSE
  /\ worker = "loop"
  /\ localTelemetry = [window |-> 0, policy |-> 0]
  /\ localSeq = 0
  /\ history = <<>>
  /\ consumed = 0
  /\ superseded = 0
  /\ inferences = 0
  /\ seen = [w \in Window |-> 0]

-----------------------------------------------------------------------------
\* The thread holds onnx_mutex_ between steps only while it is parking or,
\* where its publication is not one step, publishing.
MutexFree == worker \notin {"parking", "publishing"}

\* A failed inference ends the process (std::exit), both threads included.
ProcessAlive == worker # "fatal"

\* Tests of the loop condition, outside the mutex.
WorkerLoop ==
  /\ worker = "loop"
  /\ worker' = IF stopThread THEN "exited" ELSE "acquire"
  /\ UNCHANGED <<mailboxVars, stopThread, localVars, countVars>>

\* Mutation: the flag of the telemetry just copied stays up.
WorkerTakeKeepsFlag ==
  /\ worker = "acquire"
  /\ ~stopThread
  /\ newTelemetry
  /\ worker' = "infer"
  /\ localTelemetry' = sharedTelemetry
  /\ localSeq' = telemetrySeq
  /\ consumed' = consumed + 1
  /\ seen' = [seen EXCEPT ![sharedTelemetry.window] = @ + 1]
  /\ UNCHANGED <<mailboxVars, stopThread, history, superseded, inferences>>

\* Under the mutex: the predicate holds, the telemetry is copied and its flag
\* taken down.
WorkerTake ==
  /\ worker = "acquire"
  /\ ~stopThread
  /\ newTelemetry
  /\ worker' = "infer"
  /\ localTelemetry' = sharedTelemetry
  /\ localSeq' = telemetrySeq
  /\ newTelemetry' = FALSE
  /\ consumed' = consumed + 1
  /\ seen' = [seen EXCEPT ![sharedTelemetry.window] = @ + 1]
  /\ UNCHANGED <<sharedTelemetry, telemetrySeq, newPolicy, sharedPolicy,
                 policySeq, stopThread, history, superseded, inferences>>

\* Under the mutex: the predicate holds because of the stop flag; break.
WorkerBreak ==
  /\ worker = "acquire"
  /\ stopThread
  /\ worker' = "exited"
  /\ UNCHANGED <<mailboxVars, stopThread, localVars, countVars>>

\* Under the mutex: the predicate is false; the mutex is kept until asleep.
WorkerFindsNothing ==
  /\ worker = "acquire"
  /\ ~stopThread
  /\ ~newTelemetry
  /\ worker' = "parking"
  /\ UNCHANGED <<mailboxVars, stopThread, localVars, countVars>>

\* wait() releases the mutex and sleeps, in one step.
WorkerPark ==
  /\ worker = "parking"
  /\ worker' = "blocked"
  /\ UNCHANGED <<mailboxVars, stopThread, localVars, countVars>>

\* A condition variable may wake its waiter for no reason.
SpuriousWakeup ==
  /\ worker = "blocked"
  /\ worker' = "acquire"
  /\ UNCHANGED <<mailboxVars, stopThread, localVars, countVars>>

\* notify_one and notify_all: there is at most one waiter, and a thread that
\* is not asleep yet misses the notification.
Notify == worker' = IF worker = "blocked" THEN "acquire" ELSE worker

\* The frame buffer after a new window: filled with it the first time, then
\* shifted by one frame.
PushFrame(frames, w) ==
  IF frames = <<>> THEN [i \in 1..FrameStack |-> w]
                   ELSE Append(Tail(frames), w)

\* Mutation: a policy that nobody has picked up is not counted as superseded.
WorkerPublishMut ==
  /\ worker = "infer"
  /\ worker' = "loop"
  /\ history' = PushFrame(history, localTelemetry.window)
  /\ sharedPolicy' = localTelemetry.window
  /\ policySeq' = localSeq
  /\ newPolicy' = TRUE
  /\ inferences' = inferences + 1
  /\ UNCHANGED <<newTelemetry, sharedTelemetry, telemetrySeq, stopThread,
                 localTelemetry, localSeq, consumed, superseded, seen>>

\* Mutation: the frame is made from the mailbox, not from the copy.
WorkerPublishReadsMailbox ==
  /\ worker = "infer"
  /\ worker' = "loop"
  /\ history' = PushFrame(history, sharedTelemetry.window)
  /\ superseded' = IF newPolicy THEN superseded + 1 ELSE superseded
  /\ sharedPolicy' = localTelemetry.window
  /\ policySeq' = localSeq
  /\ newPolicy' = TRUE
  /\ inferences' = inferences + 1
  /\ UNCHANGED <<newTelemetry, sharedTelemetry, telemetrySeq, stopThread,
                 localTelemetry, localSeq, consumed, seen>>

\* Inference, then under the mutex: the policy replaces whatever is in the
\* mailbox.
WorkerPublish ==
  /\ worker = "infer"
  /\ worker' = "loop"
  /\ history' = PushFrame(history, localTelemetry.window)
  /\ superseded' = IF newPolicy THEN superseded + 1 ELSE superseded
  /\ sharedPolicy' = localTelemetry.window
  /\ policySeq' = localSeq
  /\ newPolicy' = TRUE
  /\ inferences' = inferences + 1
  /\ UNCHANGED <<newTelemetry, sharedTelemetry, telemetrySeq, stopThread,
                 localTelemetry, localSeq, consumed, seen>>

\* Mutation: a policy that nobody has picked up is not counted as superseded.
WritePolicyMut ==
  /\ worker = "infer"
  /\ worker' = "publishing"
  /\ history' = PushFrame(history, localTelemetry.window)
  /\ sharedPolicy' = localTelemetry.window
  /\ policySeq' = localSeq
  /\ UNCHANGED <<newTelemetry, sharedTelemetry, telemetrySeq, newPolicy, stopThread,
                 localTelemetry, localSeq, consumed, superseded, inferences, seen>>

\* Inference, then under the mutex: the flag is looked at and the policy
\* written.
WritePolicy ==
  /\ worker = "infer"
  /\ worker' = "publishing"
  /\ history' = PushFrame(history, localTelemetry.window)
  /\ superseded' = IF newPolicy THEN superseded + 1 ELSE superseded
  /\ sharedPolicy' = localTelemetry.window
  /\ policySeq' = localSeq
  /\ UNCHANGED <<newTelemetry, sharedTelemetry, telemetrySeq, newPolicy, stopThread,
                 localTelemetry, localSeq, consumed, inferences, seen>>

\* Still under the mutex: the policy's flag goes up.
RaisePolicyFlag ==
  /\ worker = "publishing"
  /\ worker' = "loop"
  /\ newPolicy' = TRUE
  /\ inferences' = inferences + 1
  /\ UNCHANGED <<newTelemetry, sharedTelemetry, telemetrySeq, sharedPolicy, policySeq,
                 stopThread, localVars, consumed, superseded, seen>>

\* The model fails to load or to run: exit(1).
InferenceFails ==
  /\ worker = "infer"
  /\ worker' = "fatal"
  /\ UNCHANGED <<mailboxVars, stopThread, localVars, countVars>>

WorkerStep ==
  \/ WorkerLoop
  \/ WorkerTake
  \/ WorkerBreak
  \/ WorkerFindsNothing
  \/ WorkerPark
  \/ WorkerPublish

-----------------------------------------------------------------------------
(***************************************************************************)
(* The flag is raised after the mutex is released, so the thread can take  *)
(* a window on the previous window's flag and again on its own; it takes   *)
(* none a third time.                                                      *)
(***************************************************************************)
ConsumedAtMostTwice == \A w \in Window : seen[w] <= 2
=============================================================================
