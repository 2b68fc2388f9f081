# Verification of the ADAM control plane

TLA+ specifications of ADAM (`adam-v2x`): an adaptive pre-filter in front of an
ITS-G5 parser, the learned policy that tunes it while traffic flows, the UDP
testbed that drives both, and the GeoBroadcast forwarding of the stack behind
the filter. TLC checks the specifications on small
instances; TLAPS proves the most important properties for every value of the
constants.

`H/` below is `src/vanetza_unpatched/tools/qos-harness/`, the harness, and `G/` is
`src/vanetza_unpatched/vanetza/geonet/`, the stack's GeoNetworking layer. The
directories under `src/vanetza_patched/` are older, nearly identical copies and are
not modelled separately.

## 1. The system

### 1.1 Components

| Component | Code | State | Operations | Modelled in |
|---|---|---|---|---|
| Pre-filter | `H/src/pre_filter.cpp`, `H/include/qos_harness/pre_filter.hpp` | virtual budget, clean streak, policy in force, mode; ring, histogram and byte list of the score | inspect a packet, score it, install a policy, set mode and rate | `AdaptiveFilter`, `F2Sketch` |
| Policy boundaries | `H/include/qos_harness/control_logic.hpp` | none (pure) | clamp, decode, normalise | `ControlLogic` (the boundaries) |
| ONNX control loop, receiver | `H/src/rl_bridge.cpp` | telemetry and policy mailboxes with their flags and sequence numbers, frame stack, diagnostics | publish a window, take it, infer, publish the policy, shut down | `MailboxWorker`, `NativeMailbox` |
| ONNX control loop, local simulation | `H/src/rl_bridge.cpp`, `H/src/main.cpp` | the same mailboxes | check for a policy at every packet, publish a window | `MailboxWorker`, `HostMailbox`, `LocalRun` |
| Queue simulator | `H/src/queue_simulator.cpp` | packet queue, done flag, three threads | push, take, process, join | `QueueSimulator`, `LocalRun` |
| UDP receiver and senders | `H/src/socket_engine.cpp`, `src/tools/sender/udp_sender.py` | open session, counters, summary rows; handshake state of a sender | START/ACK, packets, END, BATCH_END | `UdpSession` |
| Online training and serving | `src/tools/rl_bridge/src/envs/`, `src/main.py`, `utils/network_io.py`, `algorithms/dqn_learner.py` (replay buffer), `envs/rewards.py` (horizon), `scripts/serve_agent.py`; `H/src/rl_bridge.cpp` 293-337, 439-491 | window index, socket, frame stack, reward horizon, rollout, replay ring | window handshake, reset, step, push, serve | `OnlineTraining` |
| GeoBroadcast forwarding | `G/router.cpp`, `G/cbf_packet_buffer.cpp`, `G/cbf_counter.cpp`, `G/gbc_memory.cpp`, `G/duplicate_packet_list.cpp` | contention buffer (packets, timers, bytes, one event), contention counters, duplicate list, memory of broadcasts | hear a packet, contend, transmit when the timer expires | `CbfPacketBuffer`, `GbcRouter`, `GbcNetwork` |
| Workload schedule | `H/include/qos_harness/workload_schedule.hpp` | none (pure) | attack or benign, by packet id | not modelled |
| Learners, reward values, translators | `src/tools/rl_bridge/src/algorithms/`, `envs/rewards.py`, `envs/translators.py` | networks | gradient steps | not modelled |
| Metrics, configuration, files, reports | `H/src/metrics_collector.cpp`, `runtime_config.cpp`, `file_manager.cpp`, `console_presenter.cpp` | vectors of samples, paths | accumulate, parse, print | not modelled |
| Traffic and dataset generation | `H/src/traffic_generator.cpp`, `dataset_builder.cpp`, `amplification_profiler.cpp`, `router_fuzzing_context.cpp` | packet templates | generate, profile | not modelled |
| Scripts and plots | `src/run_experiments.sh`, `src/tools/plot_*.py`, `src/tools/engine/` | files | orchestrate, plot | not modelled |
| Rest of Vanetza | rest of `src/vanetza_unpatched/` | | ASN.1 codecs, security, facilities, access layers | not modelled (6) |

### 1.2 How they interact

```
 sender ---START/ACK, packets, END, BATCH_END---> receiver daemon
                                                     | one packet at a time
                                                     v
                                          pre-filter ---> parser
                                              ^  |
                     policy at window boundary|  | telemetry at window boundary
                                              |  v
                                          RLBridge mailboxes (onnx_mutex_)
                                              ^  |
                                              |  v
                                          ONNX control thread
```

In the local simulation the network is replaced by the queue simulator: its
producer thread plays the arrivals, its consumer thread runs the filter and
the bridge, the main thread joins both. When a policy is trained, the ONNX
control thread is replaced by a TCP round trip to the Python agent at every
window boundary.

The parser behind the filter is the stack's `Router::indicate` (`H/src/main.cpp:504`
in the local simulation). What the router does with a GeoBroadcast packet, and
how routers forward one among each other, goes on without the control loop: no
state is shared.

The packet path may never wait for the inference; everything hard about
the control loop comes from that. Telemetry and policy are exchanged through a
mailbox of one record each, so windows are overwritten, policies are
superseded and a decision comes into force some windows after the one it was
made from.

### 1.3 What is hard, and what makes each component correct

* **Control loop.** Two threads, one mutex, three atomics that are also written
  without the mutex, one condition variable. Correct means: a decision takes effect
  only at a window boundary, in the order of the windows; the model is shown the
  windows of its last inferences in their order, the newest being the one its policy
  answers; nothing is lost unless a counter says so; a sleeping thread is woken by the
  next window; the destructor reaches the end, where the packet trace is flushed.
* **Filter.** A small state machine with numeric edges whose correctness is about
  long packet sequences and policies that change at any point: an alarm wears off
  no faster than the recovery rate allows, it does wear off, no policy
  switches inspection off during an alarm, and the three guards together make
  flagged traffic cost more than it earns.
* **Queue.** Every packet exactly once and in order, everything processed
  when the run is reported as over, and the run does get over.
* **UDP session.** Datagrams are lost and duplicated, senders give up or are
  interrupted, the daemon has no timeout. Correct means: one summary row per session;
  packets of one session in another's row, and the daemon's exit, only in the
  circumstances the protocol cannot exclude; no session streamed before
  its own handshake.
* **Online training.** Harness processes and the agent come and go at any point,
  and the packet path waits for the agent. Correct means: a transition never joins
  two traffic processes and its outcome belongs to its action; what the model
  sees and what its reward averages over is one episode; the replay ring holds
  the newest transitions; the harness never waits for ever.
* **GeoBroadcast.** Every router that hears a packet may forward it; a contention
  timer decides who does, and copies heard meanwhile stop the others. Four
  structures are kept in step by hand (list, timers, byte count, counters), one
  event serves all timers, and counters may outlive their packets. Correct means: the
  structures agree after every operation; the buffer never waits for an event nobody
  has scheduled; counters limit what they are there to limit; a repetition is known
  as long as the lists promise; every contention ends, the whole network falls
  silent, and nobody is left out where the algorithm promises that.

Every hazard, at its line, with the properties that cover it, is in
`PROJECT.json`, "hazards".

## 2. Modules

| Module | Extends or instantiates | Contents |
|---|---|---|
| `AsyncControl` | | abstract control loop: what the mailboxes promise |
| `MailboxWorker` | | the ONNX control thread and the mailbox variables |
| `NativeMailbox` | `MailboxWorker`; `AsyncControl` through a refinement mapping | receiver: packet thread, session end, destructor |
| `HostMailbox` | `MailboxWorker` | local simulation: packet thread, end of run, destructor |
| `QueueSimulator` | | producer, consumer and main thread |
| `LocalRun` | `HostMailbox`, `QueueSimulator` | the local simulation: the queue's consumer is the mailbox's packet thread |
| `ControlLogic` | | policies and their boundaries |
| `AdaptiveFilter` | `ControlLogic` | the filter in all its modes |
| `F2Sketch` | | the score of a packet, computed incrementally |
| `MCAdaptiveFilter`, `MCPreFilter` | `AdaptiveFilter`, `F2Sketch` | sets of policies for TLC; both halves of the filter in one run |
| `SessionSummary` | | what the summary of the UDP testbed promises |
| `UdpSession` | `SessionSummary` through a refinement mapping | senders, link, receiver daemon |
| `OnlineTraining` | | harness processes, training agent, its memories |
| `CbfPacketBuffer` | | the contention buffer and the algorithms that contend, as operators on buffers |
| `GbcRouter` | `CbfPacketBuffer` | one router among arbitrary peers |
| `GbcNetwork` | `CbfPacketBuffer` | one packet among routers on a line |
| `MCGeoBroadcast` | `GbcRouter`, `GbcNetwork` | scenarios and placements for TLC; either part in one run |
| `FiniteSums` | `FiniteSetTheorems`, `WellFoundedInduction`, `TLAPS` | induction as facts about sets; sums over finite sets |
| `AsyncControlProofs`, `NativeMailboxProofs`, `LocalRunProofs`, `PreFilterProofs`, `UdpSessionProofs`, `OnlineTrainingProofs`, `GbcRouterProofs` | the modules they are about, `FiniteSums` where sums or lists occur, `TLAPS` | theorems |

Modules whose constants are plain numbers and Booleans are given them directly
in the `.cfg`; the MC modules define the constants that are sets of records, and
`MCPreFilter` and `MCGeoBroadcast` let one run check two specifications that share
no state: a behaviour is one of the first or one of the second, and `part` says which.
An operator whose comment begins with "Mutation:" is not part of a
specification: it is the definition after it with a plausible bug, used to
see that the properties notice ("mutants" in `PROJECT.json`).

### 2.1 Control thread (`MailboxWorker`)

One step per critical section and one per access outside the mutex.

| Action | Code (`H/src/rl_bridge.cpp`) |
|---|---|
| `WorkerLoop` | test of the loop condition |
| `WorkerTake`, `WorkerBreak`, `WorkerFindsNothing` | `onnx_cv_.wait` with its predicate true for telemetry, true for the stop flag, false; then the copy of the telemetry and the clearing of its flag |
| `WorkerPark`, `SpuriousWakeup` | the sleep inside `wait` |
| `WorkerPublish` | inference (the frame stack is shifted) and publication of the policy |
| `InferenceFails` | `std::exit(1)` when the model cannot be run |

The gap that matters is inside `wait`: the thread has found its predicate false
and still holds the mutex, but is not asleep (`"parking"`). A store to an atomic
and a notification need no mutex and can fall there. `Notify` wakes the thread
only if it sleeps.

A window is named by its number and a policy by the window it was
computed from; the seven features and the four parameters are not looked at.
`seen` is a history variable.

### 2.2 Packet threads (`NativeMailbox`, `HostMailbox`)

`NativeMailbox`: `PublishWindow`, `RaiseTelemetryFlag` and `NotifyOne` are
`publish_native_onnx_window`; `EndSession` to `JoinAndFlush` are the end of the
session and `~RLBridge`. `HostMailbox`: `CheckPolicy`, `CopyPolicy`, `ClearFlag`,
`WindowGoesOn`, `WriteTelemetry`, `RaiseTelemetryFlag` and `NotifyOne` are the
ONNX branch of `check_and_sync_window`. The two differ where the code does: the
receiver looks for a policy at a window boundary and takes it under the mutex, flag
included; the local simulation looks at every packet and clears the flag
after it has released the mutex. That clearing can fall inside the control
thread's own publication, which is therefore two steps there (`WritePolicy`,
`RaisePolicyFlag`).

`LocalRun` puts `HostMailbox` behind the queue: `Callback` is a step of the packet
thread while the consumer works on a packet, and the last one of them is the
queue's `Process`; `Destroy` comes when `main` has waited for the queue. `Control`
runs beside both. What one half waits for in the other shows only here: that a packet
is processed needs the mailbox's mutex to come free, and that a policy reaches the
filter needs the consumer to be given packets.

### 2.3 Filter (`AdaptiveFilter`, `ControlLogic`)

`ShortPacket`, `SkippedPacket`, `CleanPacket` and `FlaggedPacket` are the paths
through `is_safe`; `UpdatePolicy` is the bridge's installation of a policy,
after `enforce_policy_boundaries`; `Init` is the set-up in `main.cpp`. The draw
of the random generator is a free choice between the outcomes some draw
produces. The score of a packet is an input, any member of `Scores`; how it is
computed is `F2Sketch`.

Budgets are counted in steps and sampling rates in multiples of
1/(600 `Decade`), so that the two linear pieces of the sampling floor
have whole coefficients; what a flagged packet costs is rounded down to a step.
`clean_streak` is only ever compared with `STREAK_THRESHOLD` and is counted up to
one above it.

`vetted`, `low` and `since` are history variables: whether the policy in force is
the default or came through the bridge, the budget right after the last flagged
packet, and the packets since then.

`F2Sketch` is `calculate_max_sum_sq`, one step per byte: `Slide` is the
update of ring, histogram and list of active bytes (with `Without`, the removal by
moving the last entry), `SumSq` the scoring loop with its early exit. `Fill`,
`Score` and `Detect` are the ways through the loop body, `TooSmall` and `Return` the
two other ends. The bytes of a packet are chosen as they are read, which gives every
packet. Which score above the threshold is returned depends on the order of the list,
because the loop is left at the byte that passes it, although the comment above the
function promises the maximum; `VerdictExact` says what can be relied on.

### 2.4 Queue (`QueueSimulator`)

Same granularity as the control thread. Arrival times are left out: when the next
packet arrives is open, which includes every schedule the code computes.

### 2.5 UDP session (`UdpSession`)

Both senders have the same structure (START until an ACK or too many
attempts, packets, END three times, BATCH_END three times); what tells them apart here
is that the Python sender empties its socket before a handshake (`Drains`). A
sender process runs sessions one after another and may be interrupted, give
up or end; then another process may follow on a new socket. The daemon's
idle loop and session loop are `OpenSession`, `ReadIdle` and `CountPacket`,
`Reacknowledge`, `CloseSession`, `ShutDown`.

The link loses and duplicates; it does not reorder (sender and receiver are
neighbours on one link in the testbed, where order is kept). A datagram's fate
is chosen when it is sent. END and BATCH_END, which are sent `Copies` times
anyway, are lost or delivered once.

`Settled` is the one assumption about time: when a sender process starts its next
session, no START it sent earlier is still unanswered. STARTs precede the packets
of their session on the link, the packets are paced over seconds, and the sender
pauses afterwards (1.7 s in Python, 0.2 s in C++), while an answer takes a round
trip. Without the assumption a START could reach the daemon after the session it
announces; nothing in the protocol excludes that.

`SessionSummary` is what all this comes to for a reader of the CSV: sessions begin, some
are opened, in order and once, packets are counted, rows are written. `ImplementsSummary`
maps `cur` to the sessions begun and the daemon's state to the session open, and leaves
out link, handshake and retries.

### 2.6 Online training (`OnlineTraining`)

| Action | Code |
|---|---|
| `StartHarness`, `StopHarness` | `RLBridge::initialize`; the end of the packet loop, or the process is killed |
| `Connect`, `ConnectFails`, `SendTelemetry`, `HandshakeEnds` | a full window in `check_and_sync_window`, and `handshake_with_agent` |
| `StartAgent`, `KillAgent` | set-up in `run_online`; the process is killed, its sockets with it |
| `Accept`, `ReadShort` | `_wait_for_telemetry` up to `parse_telemetry`, and the connection it gives up on |
| `FirstTelemetry` | `reset` returns: environment, frame stack, reward strategy |
| `NextTelemetry` | `step` returns, and what `run_online` and `update` do with the transition |
| `Answer` | the first half of the next `step` |

The agent takes one connection at a time, and answers one window only when its
loop is at the next `step`; that half-and-half shape of `step` is what
`OutcomeOfAction` is about. A window is a process and a number, and a policy
is the window it answers, so that a telemetry says which policy it was produced
under. TCP on the loopback interface delivers what was sent, and tells the
survivor when the other end is gone; connections of dead processes stay in the
backlog, in order. The epsilon-greedy choice, the reward's value and the gradient
are not looked at. `pushed` and `server` are history variables.

`RecvLimit` is the number of bytes read before a record is parsed: 60 in the
training environment and 40 in `serve_agent.py`, the one respect in which the latter
differs here.

### 2.7 GeoBroadcast (`CbfPacketBuffer`, `GbcRouter`, `GbcNetwork`)

A contention buffer is a record, and an operation is a set of buffers, the ones it may
lead to: which of two equal timers is first, and whether an iterator that is
compared after its node was freed happens to equal another (`EventAfterAdd`), is
left open. `AddPacket`, `RemovePacket`, `UpdateTimer` and `Flush` are
`CbfPacketBuffer::add`, `remove`, `update` and `flush`; `HeadDrop` makes room.
`CounterAdded`, `CounterIncremented` and `CountersRemoved` are the two kinds of
`CbfCounter`: values that live as long as their packets, and values that fade.
`AreaCbf`, `AreaAdvanced` and `NonAreaCbf` are the three forwarding algorithms that
contend. One set of operators so serves one router and a network of them.

| Action of `GbcRouter` | Code (`G/router.cpp`) |
|---|---|
| `Indicate` | `process_extended`: duplicate detection, `forwarding_algorithm_selection`, `decide_pass_up` |
| `IndicateStopped` | the same when the hop limit or a data rate keeps the packet from the algorithm |
| `ForgetSource` | the source's location table entry expires |
| `Move` | `update_position` leaves or enters the destination area |
| `Expire` | the runtime runs `CbfPacketBuffer::flush` |
| `TimePasses` | a tick of the runtime's clock |

The environment of `GbcRouter` may send any copy of any packet at any time, from
anywhere: geometry is reduced to the choices it leads to (a timeout, progress or none,
covered or not). `GbcNetwork` has geometry: positions on a line, timeouts from
distances, copies that are heard within the tick in which they are sent, in any
order with each other and with the timers that are due, or lost. `row`, `listed`,
`heard`, `sent` and `lost` are history variables.

The map gives `Place` and `Pushed` the two branches of `GbcMemory::remember`; the
duplicate packet list, a ring of `DPLLength` numbers, gets a new number by the same
`Pushed` (a number that is there is not listed again).

## 3. What the runs check

| Run | Configuration | Shows |
|---|---|---|
| `prefilter` | `PreFilter.cfg` | budget: cool-down, mandatory inspection, the joint effect of the guards, and the end of an alarm in quiet traffic; score: the sketch's tables always describe the window, its verdict is the definition's |
| `native` | `NativeMailbox.cfg` | policies are accounted for, the frame stack shows the windows of the last inferences, a window is taken at most twice, skipped windows are counted; the mailbox refines `AsyncControl`; a sleeping thread is woken by the next window; the destructor returns unless its notification falls into the gap |
| `native_shutdown` | `NativeShutdown.cfg` | violation: the notification can fall into the gap, and the destructor waits for ever (4.1) |
| `native_frames` | `NativeFrames.cfg` | violation: one window can be stacked as two frames (4.2) |
| `local` | `LocalRun.cfg` | every packet once and in order, processed without waiting for an inference or a later arrival, complete at the return; the counters cover every policy although one can be wiped; a policy that waits when a packet's call begins reaches the filter |
| `filter_training` | `FilterTraining.cfg` | violation: the budget overrides the agent's rate while it trains (4.3) |
| `udp` | `UdpSession.cfg` | the daemon implements the summary; what rows may contain, when the daemon may exit, handshake before stream, no packet ignored, loss never overstated, an END takes effect |
| `udp_stale_ack` | `UdpStaleAck.cfg` | violation: the C++ sender streams on an old ACK (4.4) |
| `training` | `OnlineTraining.cfg` | transitions stay inside one process and carry the outcome of their action, history does not leak between episodes, the replay ring is exact, an agent that lives answers, the harness gets on |
| `serve_agent` | `ServeAgent.cfg` | violation: the serving agent never answers (4.5) |
| `geobroadcast` | `GeoBroadcast.cfg` | one router: the buffer's structures agree, it never waits without an event, fading counters limit, the lists hold the latest packets, contentions end; several: everyone is reached where that can be relied on, and every network falls silent |
| `fading_flood` | `FadingFlood.cfg` | violation: fading counters do not stop the flood of advanced forwarding (4.6) |

No run lists a type invariant. Each module's is a theorem instead (`TypeCorrect`,
`MailboxTyped`, `QueueTyped`, `SessionTyped`, `SketchTyped`, `TrainingTyped`,
`RouterTyped`), so that it holds for every value of the constants.

### 3.1 Bounds, and why they are enough

* `prefilter`, 157,808 states. Budget: one step is five points of it. The three
  constants of the guards keep what makes them work: three recoveries are worth no
  more than the smallest cost of a flagged packet,
  `3 * RecoveryCap * SqCap <= PenaltyFloor * Decade`; in the code
  3 * 0.10 * 650 = 195 and 20 * 10 = 200. All states, both sides of each boundary and
  the sixfold recovery (streak threshold 2 instead of 5000) are reached. Policies lie
  below, above and inside every boundary. `MaxSince` is three times the
  threshold; beyond it `CooldownHolds` says nothing in the run. The proofs
  hold for every resolution and threshold.
  Score: windows of four bytes instead of 64, three more bytes scanned
  instead of 16, four byte values, packets of any size up to one beyond the scan
  limit. The ring wraps, each byte can be evicted and read again, and the
  threshold lies where some sums stop early and some do not.
* `native`: five windows, the code's four frames. The mailbox holds one record
  each way and the thread one in hand; every pattern of overwritten,
  superseded, applied and twice-taken windows occurs with three, and the frame
  stack is shifted with the second. The proofs remove the bound.
* `native_shutdown` and `native_frames` use the smallest instance that shows
  the trace.
* `local`: three windows, three frames, four packets, 41,841 states. Three windows
  are what the mailbox needs, as above; with four packets the queue empties and fills
  again, holds several, and ends with one in hand.
* `udp`: two sessions by one process or by two, two packets each, two attempts,
  two copies of ACK, END and BATCH_END instead of three. A session that swallows
  another needs two sessions; duplicates and losses need two packets; a
  retry needs two attempts. `CHECK_DEADLOCK FALSE` in both UDP runs: when
  all sessions have been run and the link is empty there is nothing left to do, and
  a daemon that has exited reads nothing.
* `training`: three harness processes of four windows, two agent processes, three
  frames instead of four, a rollout of two transitions, a replay ring of three and
  a horizon of two. The ring wraps inside a rollout, the horizon drops windows
  within an episode, and an episode boundary falls into the middle of
  a rollout. Two processes leave connections behind for a third.
  `CHECK_DEADLOCK FALSE`: when the processes have been used up nothing is left to do.
* `geobroadcast`, 154,006 states. One router: three packets of one, two and two bytes
  in a buffer of three, so that one arrival drops one packet or two; timeouts of
  one and three ticks; lists of two. Each forwarding algorithm meets contending and
  fading counters, with lifetimes longer and shorter than two timeouts. Network: six
  routers on a line with a range of 3. For plain contention with a limit of one, every row
  without a gap in which no two are at one place, the source at its end (243 placements),
  one row in which two are at the source's place and one from right to left, with counters
  that live just as long as `ReachesAll` asks for. Chosen placements for the other setups,
  among them those that break each other condition of `Dependable` and one where the
  sectorial area of advanced forwarding counts; one lost copy where losses are allowed.
  Three routers wait in each other's range, so who fires first, who is silenced and who
  reaches beyond are different ones. The hop limit of 5 is just enough for six.

No run uses a state constraint or a symmetry set.

### 3.2 Fairness, and why the code justifies it

* `NativeMailbox`: weak fairness of the control thread's steps and of what the packet
  thread does once it has begun (flag, notification, destructor). Packets need
  not come and sessions need not end. Spurious wake-ups and failures are
  possible, never assumed.
* `LocalRun`: weak fairness of the producer's steps between two arrivals, of the
  consumer, of `main`, and of the steps by which the control thread gives up
  the mutex (falling asleep, raising the policy flag); strong fairness of
  `CopyPolicy` and `WriteTelemetry`, the two steps that wait for the mutex. The thread
  that could take it away from them for ever does so only by waking up again and
  again. None for `Push`, for inference or for spurious wake-ups, so that no
  packet's fate leans on a later arrival or on the model.
* `AdaptiveFilter`: none. `QuietEndsAlarm` states as its premise that packets keep
  coming, that none is flagged from some point on and that the recovery rate in
  force stays positive.
* `UdpSession`: weak fairness of the daemon, which reads what is in its socket. The
  senders owe nobody anything.
* `OnlineTraining`: weak fairness of the agent's steps and of a handshake that has
  begun. Windows need not fill, and no process has to be started; every
  process may die at any time.
* `MCGeoBroadcast`: weak fairness of a router's clock and event (the runtime triggers
  events as time goes on); in the network, of its steps together: copies in the air
  arrive or are lost, and then time goes on. No packet has to be sent.

## 4. Where code and documentation disagree

1. **Lost shutdown notification** (`H/src/rl_bridge.cpp:77`). The destructor sets the
   stop flag and notifies without the mutex. If both fall between the control
   thread's last look at the flag and its sleep, `join` never returns: the
   trace's last batch is not flushed and the receiver never listens for
   another session. `ShutdownReturns`, which excludes exactly that gap, holds.
2. **The same window twice in the frame stack** (`H/src/rl_bridge.cpp:423`). The
   telemetry flag is raised after the mutex is released. A window can be taken
   on its predecessor's flag and again on its own. It is never taken three
   times (proved).
3. **Training mode keeps the FSM's override** (`H/src/main.cpp:44`). The help says the
   override is disabled in training; nothing disables it.
4. **Stale ACK** (`H/src/socket_engine.cpp:563`). The C++ sender accepts any ACK, and
   those left from the previous session are still in its socket.
5. **The serving agent reads too little** (`src/tools/rl_bridge/scripts/serve_agent.py:156`).
   It reads 40 bytes of a record of 60, finds it too short and closes the
   connection; the filter keeps its initial policy. `AgentAnswers` holds
   of the training environment, which reads the whole record.
6. **Fading counters do not stop the flood** (`G/router.cpp:915`).
   `area_advanced_forwarding` looks at the counter only for a packet that is in the
   buffer. One that was forwarded and is heard again is added again, whatever its counter
   says, and two routers forward it in turn until its hop limit ends.
   `cbf_counter.hpp:88` says that fading counters fix just that. Plain contention does
   look (847): `FadingLimits` holds of it.

A failed handshake loses the episode marker of a process's first window
(`H/src/rl_bridge.cpp:330`, where the window index advances all the same). The run
`training` shows this to be harmless: an agent that is up gets every window, and
one that comes up later begins with `reset`.

Some behaviours of the contention buffer are not defects by any document,
but a reader of the code may not expect them:

* `update` starts a timer again but never schedules an event, and `add` may overlook that
  the first timer has changed. A packet can leave late, by less than the longest
  timeout (`NeverStalled`).
* A fading value that has run out, but was not forgotten yet, is counted on from where
  it stood.
* Forwarding by contention leaves routers out, without any loss. A router that hears a
  second copy before its timer ends is silenced (847), whichever side the copy comes from, and
  it may be the only one to reach somebody. `Dependable` names what keeps this from happening,
  and where one of its conditions fails the run's own placements show a router left out
  (it is enough to drop the condition from `Dependable`; range 3, the source first):
  - ties: in <<0, 3, 3, 4, 7, 8>> the two at 3 fire in one tick, the router at 4 adds the
    first copy and the second one removes it, and those at 7 and 8 never hear the packet;
  - a limit above one: in <<0, 2, 3, 5, 7, 9>> with a limit of two, routers behind the last
    forwarder contend again and silence one in front of it;
  - counters that fade too soon, with the same effect: <<0, 0, 2, 3, 5, 8>> and a lifetime of
    one tick;
  - advanced forwarding: <<0, 2, 3, 5, 7, 9>> with a limit of one, and with a limit of two
    where a router hears three neighbours before its own timer ends (901);
  - a source in the middle, whose two sides silence each other: in <<3, 0, 1, 4, 5, 7>> they
    tie as well.

  What is left is one direction, one forwarder at a time: the farthest router in the last
  forwarder's reach times out first and alone, and those it silences reach nobody whom it
  does not. Each of them has counted the packet and stays silent while its counter lives. A
  router hears the packet from its predecessor's predecessor on until its successor has sent,
  which is at most two timeouts; hence `2 * MaxTime`.

## 5. What is proved

All theorems hold for every value of the constants allowed by the assumptions
stated beside them (`MailboxAssumption`, `ControlAssumption`, `FilterAssumption`,
`SketchAssumption`, `QueueAssumption`, `UdpAssumption`, `TrainingAssumption`,
`BufferAssumption`, `RouterAssumption`, `NetworkAssumption`), which TLC evaluates in the runs.
The assumptions on `Policy` in `ControlLogic` (recovery at least zero, threshold
positive) come from the decoders and from the agent's action space; the filter
itself would accept other values from the command line.

**Abstract control loop** (`AsyncControlProofs`). `AlwaysOrdered`: window, decision in
progress, decision waiting and decision in force are in order.
`DecisionsNeverRegress` follows: a decision in force is never replaced by an older
one. `Ordered` is inductive with the types, and needs both clauses about the
decision in progress, because that one is the next to wait.

**Native mailbox** (`NativeMailboxProofs`). The inductive invariant adds to the
checked properties: `Contents` (flags are up only over real records), `InOrder`
(the order above, in the variables of the code), `Takes` (how often the
newest window has been taken, plus the flags up or about to go up for it, is at most
two; this is what makes "at most twice" inductive) and `Unseen` (a newest window
nobody has looked at still has its flag). `NothingSkippedSilently` is an induction
of its own, `CoverStep`: a window can only become skipped when the next one is
published over a raised flag, and that is when the counter moves.
`FramesFollowInferences` is another (`FramesStep`): pushing the window the control
thread holds shifts the frames one place and adds one inference to that window only
(`PushCounts`, `FramesSound`), and publishing its policy makes the newest frame the
one answered (`PublishKeepsFrames`); no other step touches frames, inferences or
policy (`OthersKeepFrames`). `Implements` maps
every step to a step or a stutter of `AsyncControl` (`StepMaps`), so
`PoliciesNeverRegress` is inherited by the code's variables.

**Local run** (`LocalRunProofs`). `MailboxInv` is the mailbox's
invariant where the flag goes down outside the mutex: `HostTakes` counts the takes
still possible for the newest window, `FoundFlagUp` says what a packet thread that
saw the flag may rely on when it gets the mutex, `HostInOrder` is the order again.
The queue's invariant says by index what `InOrderOnce` says by concatenation
(`Contents`) and orders the ends of the three threads (`Ends`); `NothingLeft` is where
the two meet. The composition implements both halves (`LocalRunHasMailbox`,
`LocalRunHasQueue`), so that each half's invariants hold in it: `EveryPolicyCounted`,
`LocalAtMostTwice`, `LocalPackets`, `LocalPoliciesNeverRegress`. `NoSleepOverWork` is the
part of `EveryPushProcessed` that needs no fairness: a consumer that sleeps, with no
notification of a push under way, has processed all that was pushed. So where
`wait_until_done` does not return, because the last notification fell into the gap, no
packet is missing.

**Pre-filter** (`PreFilterProofs`). `EnforceIsSafe` and `FloorAntitone` are about the
operators. `CooldownIsKept` needs `StreakIsRecent`: the streak counts no more
packets than have passed since the last flagged one, so the sixfold recovery is
met only after the threshold. `FlagsCost` needs `Vetted`, that a policy from the
bridge is inside the guards, and the arithmetic of `CostBound`.
`InspectionIsMandatory` is the floor at and below `TAU_2`.
`TablesDescribeWindow` is about the score: `RingHoldsWindow` says where in the ring
each byte of the window is, so that what is evicted is the byte that leaves the window;
the histogram is the number of places of a byte in the packet between the window's ends
(`PlacesAppend`, `PlacesDrop`); `WithoutRemoves` is the removal by moving the last entry.
`VerdictIsExact` builds on it. `ScoreInv` says that the score so far is the maximum over the
windows seen, as long as none passes the threshold, and that a score returned above it is no
larger than some window's; it is kept because the sum over the list of active bytes, in any
order and broken off at any byte, is at most the sum over all byte values and equal to it
when it is not broken off (`SumSplit`, `SumZeros` in `FiniteSums`).

**UDP session** (`UdpSessionProofs`). Each datagram on the link has a rank, its session
and within the session START, packets, END; the link is ordered by rank and the sender is
not behind it (`OrderInv`). Once the daemon has read an END nothing of its session is
left: `OneRowPerSession`, `SessionsMixOnlyWithoutEnd`. `LossIsUnderstated`
compares what a row counted with the packets of its session that can have arrived, by
cardinality. With these, every step is one of `SessionSummary` or leaves it alone
(`SummaryMaps`, `RowsAsPromised`): the guards of `Open`, `Count` and `Record` are what
`OrderInv` and `LossInv` say of the state after the step. `DrainedHandshake`, `EveryPacketCounted` and `StopsOnlyWithoutEnd` need
`HandshakeInv`, and that one needs a sender that drains its socket (`Drains`): without
it, `udp_stale_ack` is the counterexample.

**Online training** (`OnlineTrainingProofs`). A harness process has at most one connection
without an answer, and the agent takes connections in the order they were made. So what
waits is: first, perhaps, the next window of the episode the agent is in, under the
agent's last answer; then first windows of later processes (`EpisodeInv`).
`EpisodesKeptApart`, `OutcomesAttributed` and `HistoryOfOneProcess` follow.
`WholeRecordAnswered` assumes that the agent reads as many bytes as a record has
(`RecvLimit`); where it reads fewer, `serve_agent` is the counterexample.
`ReplayHoldsNewest` says where the last `Capacity` transitions are: counted backwards
from the next slot (`Ring`). A push keeps that (`PushKeepsRing`); a rollout is a fold of
pushes, which `RolloutPushed` unfolds into one push after the other.

**GeoBroadcast** (`GbcRouterProofs`). Each operation on a buffer leaves it sound
(`AddSound`, `RemoveSound`, `UpdateSound`, `FlushSound`, `ElapsedSound`): the event
is close enough to every timer (`OnItsWay`) and no fading counter loses what still counts
(`CountersKept`). `NeverStalls` and `FadingIsLimited` follow for a router among any
peers. `RemembersMostRecent` rests on an order (`InOrder`): each id in a list
has been followed by exactly the ids behind it, and one that was pushed out has seen
a whole list go by.

`BufferIsConsistent` is `PlacedBuffer`: list, timers, bytes and contending counters describe
the same packets. The head drop is the step that could break it; it ends, and frees
enough, because the bytes of a set are the sum over it and the front of the list is a set
of stored packets (`HeadDropFits`).

For the network, `NetworkInv` relates each copy, on the air or in a buffer, to the hops it
has made: it comes from a router that heard the packet, and is no farther from the source
than those hops carry it. `PacketStaysInReach` and `NetworkBuffersSound` follow for any
number of routers and any placement. `StaysInReach` is in no run: a row of six
routers without a gap lies within the reach of five hops as a whole.

**Sums, lists and induction** (`FiniteSums`). The library's induction theorems take an
operator, which no prover here instantiates. The proofs use a set instead: a set of
naturals with zero and all successors is `Nat` (`InductiveSet`, from the least element of
what is missing), and a family of finite sets that can be reached one element at a time has
all of them (`InductiveFamily`). A recursive function or fold then exists on the whole
family, since it does on each part (`AddsGrows`, `AddsExists`; `PushesGrow`,
`PushesExist`).

Every safety property of the passing runs, and both refinements, are theorems. Only
model-checked are the liveness properties (`PublishWakesWorker`, `ShutdownReturns`,
`PolicyReachesFilter`, `QuietEndsAlarm`, `EveryPushProcessed`, `WaitReturns`,
`EndTakesEffect`, `WaitEnds`, `ContentionEnds`, `ReachesAll`, `FallsSilent`), since the prover
has no rules for fairness.

## 6. Not modelled

The directory `src/` holds some 760,000 lines of implementation. Nearly all are
Vanetza, in two copies, and nearly all of that is C code generated from the ASN.1
definitions of the messages: encoders, decoders and constraint tables without a
state of their own. The program this project is about is a few thousand lines.
Of the vendored stack the part with state, timers and several actors
that the harness runs was taken, GeoBroadcast forwarding; a larger share of the lines
could only be reached by restating generated tables.

* Of the bridge: core affinity, timing and age diagnostics, `policies_unchanged`,
  the fixed-policy diagnostic, the CSV logs, and the build without ONNX Runtime. In that
  build the control thread reads window counters the packet thread is updating
  (`H/src/rl_bridge.cpp:703`), but they only reach an agent as numbers.
* Of the training loop: offline training, the backlog's limit of five
  connections, a policy reply split by TCP, and the frames of the ONNX path, which
  `MailboxWorker` has.
* Of the filter: a negative recovery rate or a zero threshold, possible only from
  the command line.
* Of the UDP engine: pacing, file naming, frame parsing, and reordering.
* Of GeoBroadcast: store-carry-forward buffers, packet repetition, the choice of a
  neighbour in greedy forwarding, beacons and location service, and the geometry of
  the sectorial area in the plane (on a line in `GbcNetwork`).
* The workload schedule, the action decoders and the translators are pure arithmetic,
  most of it in floating point: they decide which packets are attacks and which policy is
  asked for, and the models allow every answer they could give.
* Learners, rewards, metrics, generators, plotting and scripts are floating-point or
  sequential I/O.

## 7. State of the project

Checked and proved: the control loop in both its forms, the local run, the filter
with its score, the queue, the UDP session and its summary, online training with its
memories, the contention buffer in a router. Of the network of routers the reach and the
buffers are proved; who is reached, and that it falls silent, is checked.

What would come next:

1. The safety part of the remaining liveness properties: what has to be true when a
   shutdown, a contention or a training run gets stuck.
2. The safety part of `ReachesAll`, that a `Dependable` network at rest has reached everyone,
   proved for any number of routers. Section 4 gives the argument; the run shows it for six.
   What can be said of advanced forwarding, or of a limit above one, is open: rows of five
   and six break both.
3. The location table and beacons, which decide what `ForgetSource` leaves open.
4. The workload schedule as a stream of packets, against the attack share it announces.
