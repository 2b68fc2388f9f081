---------------------------- MODULE HostMailbox ----------------------------
(***************************************************************************)
(* The same control thread under the local simulation: main.cpp calls      *)
(* RLBridge::check_and_sync_window after every packet.  Unlike the UDP     *)
(* receiver it looks for a policy at every packet, copies it under the     *)
(* mutex but clears its flag afterwards, does not number its windows in    *)
(* shared_telemetry_sequence_ and counts no overwritten windows.           *)
(***************************************************************************)
EXTENDS MailboxWorker

VARIABLES
  host,        \* where the packet thread is
  closed,      \* control_window_idx_, windows closed so far
  livePolicy,  \* policy whose parameters the filter runs with
  applied      \* history variable: policies taken out of the mailbox

hostVars == <<host, closed, livePolicy, applied>>
vars == <<workerVars, hostVars>>

HostState == {"packet", "copy", "clear", "count", "full", "flag", "notify",
              "stopping", "notifyAll", "join", "destroyed"}

TypeOK ==
  /\ WorkerTypeOK
  /\ host \in HostState
  /\ closed \in 0..MaxWindows
  /\ livePolicy \in 0..MaxWindows
  /\ applied \in Nat

Init ==
  /\ WorkerInit
  /\ host = "packet"
  /\ closed = 0
  /\ livePolicy = 0
  /\ applied = 0

-----------------------------------------------------------------------------
HostAt(s) == ProcessAlive /\ host = s

\* A packet has been processed; is there a policy?
CheckPolicy ==
  /\ HostAt("packet")
  /\ host' = IF newPolicy THEN "copy" ELSE "count"
  /\ UNCHANGED <<workerVars, closed, livePolicy, applied>>

\* Mutation: a policy that does not answer the newest window is discarded.
CopyPolicyMut ==
  /\ HostAt("copy")
  /\ MutexFree
  /\ livePolicy' = IF closed > sharedPolicy THEN livePolicy ELSE sharedPolicy
  /\ host' = "clear"
  /\ UNCHANGED <<workerVars, closed, applied>>

\* The policy is copied under the mutex and goes into the filter.
CopyPolicy ==
  /\ HostAt("copy")
  /\ MutexFree
  /\ livePolicy' = sharedPolicy
  /\ host' = "clear"
  /\ UNCHANGED <<workerVars, closed, applied>>

\* Its flag goes down after the mutex is released, whatever is in the mailbox.
ClearFlag ==
  /\ HostAt("clear")
  /\ newPolicy' = FALSE
  /\ applied' = applied + 1
  /\ host' = "count"
  /\ UNCHANGED <<newTelemetry, sharedTelemetry, telemetrySeq, sharedPolicy,
                 policySeq, stopThread, worker, localVars, countVars,
                 closed, livePolicy>>

\* The window is not full yet.
WindowGoesOn ==
  /\ HostAt("count")
  /\ host' = "packet"
  /\ UNCHANGED <<workerVars, closed, livePolicy, applied>>

\* The window is full.
WindowFull ==
  /\ HostAt("count")
  /\ closed < MaxWindows
  /\ host' = "full"
  /\ UNCHANGED <<workerVars, closed, livePolicy, applied>>

\* Under the mutex: its telemetry replaces what the mailbox holds.
WriteTelemetry ==
  /\ HostAt("full")
  /\ MutexFree
  /\ closed' = closed + 1
  /\ sharedTelemetry' = [window |-> closed', policy |-> livePolicy]
  /\ host' = "flag"
  /\ UNCHANGED <<newTelemetry, telemetrySeq, newPolicy, sharedPolicy, policySeq,
                 stopThread, worker, localVars, countVars, livePolicy, applied>>

RaiseTelemetryFlag ==
  /\ HostAt("flag")
  /\ newTelemetry' = TRUE
  /\ host' = "notify"
  /\ UNCHANGED <<sharedTelemetry, telemetrySeq, newPolicy, sharedPolicy,
                 policySeq, stopThread, worker, localVars, countVars,
                 closed, livePolicy, applied>>

NotifyOne ==
  /\ HostAt("notify")
  /\ Notify
  /\ host' = "packet"
  /\ UNCHANGED <<mailboxVars, stopThread, localVars, countVars,
                 closed, livePolicy, applied>>

-----------------------------------------------------------------------------
\* The last packet has been processed and main returns.
EndRun ==
  /\ HostAt("packet")
  /\ host' = "stopping"
  /\ UNCHANGED <<workerVars, closed, livePolicy, applied>>

RaiseStopFlag ==
  /\ HostAt("stopping")
  /\ stopThread' = TRUE
  /\ host' = "notifyAll"
  /\ UNCHANGED <<mailboxVars, worker, localVars, countVars,
                 closed, livePolicy, applied>>

NotifyAll ==
  /\ HostAt("notifyAll")
  /\ Notify
  /\ host' = "join"
  /\ UNCHANGED <<mailboxVars, stopThread, localVars, countVars,
                 closed, livePolicy, applied>>

JoinAndFlush ==
  /\ HostAt("join")
  /\ worker = "exited"
  /\ host' = "destroyed"
  /\ UNCHANGED <<workerVars, closed, livePolicy, applied>>

\* The call made for every packet, up to its last step.
CallGoesOn ==
  \/ CheckPolicy
  \/ CopyPolicy
  \/ ClearFlag
  \/ WindowFull
  \/ WriteTelemetry
  \/ RaiseTelemetryFlag

CallReturns == WindowGoesOn \/ NotifyOne

HostEnd == EndRun \/ RaiseStopFlag \/ NotifyAll \/ JoinAndFlush

\* ClearFlag needs no mutex and can fall inside the thread's publication.
ControlStep ==
  \/ WorkerLoop
  \/ WorkerTake
  \/ WorkerBreak
  \/ WorkerFindsNothing
  \/ WorkerPark
  \/ WritePolicy
  \/ RaisePolicyFlag

WorkerNext ==
  /\ ControlStep \/ SpuriousWakeup \/ InferenceFails
  /\ UNCHANGED hostVars

Finished ==
  /\ host = "destroyed" \/ ~ProcessAlive
  /\ UNCHANGED vars

Next == WorkerNext \/ CallGoesOn \/ CallReturns \/ HostEnd \/ Finished

Spec == Init /\ [][Next]_vars

-----------------------------------------------------------------------------
(***************************************************************************)
(* The counters account for every completed policy: there are never more   *)
(* policies than were applied, counted as superseded or are waiting.  A    *)
(* policy whose flag is wiped is counted by nobody, but the one before it  *)
(* was then both applied and counted as superseded; when the flag goes     *)
(* down inside the thread's publication the counters even say too much.    *)
(***************************************************************************)
CountersCover ==
  inferences <= applied + superseded + (IF newPolicy THEN 1 ELSE 0)
=============================================================================
