------------------------ MODULE OnlineTrainingProofs ------------------------
(***************************************************************************)
(* Proofs about online training, for any number of processes, windows and  *)
(* agents, killed and started at any moment.                               *)
(*                                                                         *)
(* A harness process has at most one connection that is not answered, and  *)
(* the agent takes connections in the order they were made.  So what waits *)
(* is: first, perhaps, the next window of the episode the agent is in,     *)
(* which runs under the agent's last answer; then first windows of later   *)
(* processes.  That is the inductive invariant.                            *)
(***************************************************************************)
EXTENDS OnlineTraining, SequenceTheorems, FiniteSums, TLAPS

WindowOf(c) == c.telemetry.window

\* The window the agent saw last.
Latest == Last(frames)

Quiet == client = <<>> /\ backlog = <<>>

\* What may come first after the window the agent saw last.
Opens(c)     == WindowOf(c)[2] = 0
Continues(c) == WindowOf(c) = <<Latest[1], Latest[2] + 1>> /\ c.telemetry.policy = Latest
Fits(c)      == fresh \/ (Opens(c) /\ Latest[1] < WindowOf(c)[1]) \/ Continues(c)

Types ==
  /\ harness \in {"off", "window", "send", "wait"}
  /\ proc \in 0..Processes /\ (harness # "off" => proc # 0)
  /\ idx \in 0..Windows /\ (harness \in {"send", "wait"} => idx < Windows)
  /\ inForce \in Policy
  /\ server \in Nat /\ agentNo \in Nat /\ server <= agentNo
  /\ reply \in Window \union {Nothing, Closed}
  /\ backlog \in Seq(Connection)
  /\ client \in Seq(Connection) /\ Len(client) = (IF agent \in {"read", "act"} THEN 1 ELSE 0)
  /\ agent \in {"down", "accept", "read", "act"}
  /\ fresh \in BOOLEAN
  /\ frames \in Seq(Window) /\ (~fresh => Len(frames) = K)
  /\ horizon \in Seq(Window)
  /\ buffer \in Seq(Transition)
  /\ pushed \in Seq(Transition)

\* Connections are in the order of the processes, at most one of each.
InOrder ==
  /\ \A i \in 1..Len(client) : WindowOf(client[i])[1] <= proc
  /\ \A i \in 1..Len(backlog) : WindowOf(backlog[i])[1] <= proc
  /\ \A i \in 1..Len(client) : \A j \in 1..Len(backlog) :
       WindowOf(client[i])[1] < WindowOf(backlog[j])[1]
  /\ \A i, j \in 1..Len(backlog) : i < j => WindowOf(backlog[i])[1] < WindowOf(backlog[j])[1]
  /\ ~fresh =>
       /\ Latest[1] <= proc
       /\ \A i \in 1..Len(client) : Latest[1] <= WindowOf(client[i])[1]
       /\ \A i \in 1..Len(backlog) : Latest[1] <= WindowOf(backlog[i])[1]

\* Only the oldest connection can go on with an episode the agent has begun.
NoGap ==
  /\ agent = "read" => Fits(client[1])
  /\ agent = "act" => ~fresh /\ Latest = WindowOf(client[1])
  /\ \A i \in 1..Len(backlog) :
       IF agent = "accept" /\ i = 1 THEN Fits(backlog[i]) ELSE Opens(backlog[i])

\* The window the harness is in is the one after the window the agent saw last,
\* and runs under the answer to it.
HarnessInStep ==
  /\ harness \in {"off", "window"} => reply = Nothing
  /\ agent = "down" => Quiet
  /\ RecvLimit < PayloadSize => fresh
  /\ harness = "window" /\ agent # "down" =>
       /\ \/ fresh
          \/ idx = 0 /\ Latest[1] < proc
          \/ Latest = <<proc, idx - 1>> /\ inForce = Latest
       /\ \/ Quiet
          \/ /\ idx = 0
             /\ \A i \in 1..Len(client) : WindowOf(client[i])[1] < proc
             /\ \A i \in 1..Len(backlog) : WindowOf(backlog[i])[1] < proc
  /\ reply # Nothing =>
       Quiet /\ (agent = "down" \/ fresh \/ (reply = Latest /\ Latest = <<proc, idx>>))

EpisodeInv ==
  /\ Types
  /\ InOrder
  /\ NoGap
  /\ HarnessInStep
  /\ EpisodesSeparated
  /\ OutcomeOfAction

-----------------------------------------------------------------------------
(***************************************************************************)
(* Windows, connections and the frame stack.                               *)
(***************************************************************************)
\* A window is a process and a number, and never one of the other replies.
LEMMA WindowFields ==
  ASSUME NEW w \in Window
  PROVE  /\ w = <<w[1], w[2]>>
         /\ w[1] \in Int /\ w[1] >= 1 /\ w[1] <= Processes
         /\ w[2] \in Int /\ w[2] >= 0 /\ w[2] <= Windows - 1
         /\ w # Nothing /\ w # Closed
<1>1. PICK p \in 1..Processes, i \in 0..(Windows - 1) : w = <<p, i>>
  BY DEF Window
<1>2. Len(w) = 2 /\ Len(Nothing) = 0 /\ Len(Closed) = 1
  BY <1>1 DEF Nothing, Closed
<1> QED
  BY <1>1, <1>2, TrainingAssumption

\* A connection carries the telemetry of a window.
LEMMA ConnectionFields ==
  ASSUME NEW c \in Connection
  PROVE  WindowOf(c) \in Window /\ c.telemetry.policy \in Policy
                /\ c.telemetry \in Telemetry /\ c.full \in BOOLEAN
BY DEF Connection, Telemetry, WindowOf

\* An agent that has begun has seen a window.
LEMMA LatestTyped ==
  ASSUME Types, ~fresh
  PROVE  Latest \in Window /\ Latest = frames[K] /\ Latest[1] \in Int /\ Latest[2] \in Int
<1>1. Latest \in Window /\ Latest = frames[K]
  BY TrainingAssumption DEF Types, Latest, Last
<1> QED
  BY <1>1, WindowFields

\* The processes of the connections are numbers.
LEMMA QueueTyped ==
  ASSUME Types
  PROVE  /\ \A i \in 1..Len(client) : client[i] \in Connection
                 /\ WindowOf(client[i]) \in Window /\ WindowOf(client[i])[1] \in Int
         /\ \A i \in 1..Len(backlog) : backlog[i] \in Connection
                 /\ WindowOf(backlog[i]) \in Window /\ WindowOf(backlog[i])[1] \in Int
         /\ Len(backlog) \in Nat /\ Len(client) \in Nat
         /\ agent \in {"read", "act"} => 1 \in 1..Len(client)
         /\ proc \in Int /\ idx \in Int
<1>1. /\ \A i \in 1..Len(client) : client[i] \in Connection
      /\ \A i \in 1..Len(backlog) : backlog[i] \in Connection
      /\ Len(backlog) \in Nat /\ Len(client) \in Nat
      /\ agent \in {"read", "act"} => 1 \in 1..Len(client)
      /\ proc \in Int /\ idx \in Int
  BY DEF Types
<1> QED
  BY <1>1, ConnectionFields, WindowFields

\* Delivery changes no telemetry.
LEMMA DeliveredKeeps ==
  ASSUME NEW conns \in Seq(Connection)
  PROVE  /\ Delivered(conns) \in Seq(Connection)
         /\ Len(Delivered(conns)) = Len(conns)
         /\ Len(conns) \in Nat
         /\ \A i \in 1..Len(conns) : Delivered(conns)[i].telemetry = conns[i].telemetry
<1>1. DOMAIN conns = 1..Len(conns) /\ Len(conns) \in Nat
        /\ \A i \in 1..Len(conns) : conns[i] \in Connection
  OBVIOUS
<1>2. \A i \in 1..Len(conns) :
        /\ Delivered(conns)[i] \in Connection
        /\ Delivered(conns)[i].telemetry = conns[i].telemetry
  BY <1>1 DEF Delivered, Connection
<1>3. DOMAIN Delivered(conns) = 1..Len(conns)
  BY <1>1 DEF Delivered
<1>4. Delivered(conns) = [i \in 1..Len(conns) |-> Delivered(conns)[i]]
  BY <1>1 DEF Delivered
<1>5. Delivered(conns) \in Seq(Connection)
  BY <1>1, <1>2, <1>4
<1>6. Len(Delivered(conns)) = Len(conns)
  BY <1>1, <1>3, <1>5
<1> QED
  BY <1>1, <1>2, <1>5, <1>6

\* What a new episode or the next window makes of the frame stack.
LEMMA FramesMove ==
  ASSUME Types, NEW w \in Window, NewEpisode(w) \/ (~fresh /\ SameEpisode(w))
  PROVE  frames' \in Seq(Window) /\ Len(frames') = K /\ Last(frames') = w /\ horizon' \in Seq(Window)
<1> USE TrainingAssumption
<1>0. K \in Nat /\ K >= 1 /\ Horizon \in Nat
  OBVIOUS
<1>1. CASE NewEpisode(w)
  <2>1. frames' = [i \in 1..K |-> w] /\ horizon' = <<>>
    BY <1>1 DEF NewEpisode
  <2>2. frames' \in Seq(Window) /\ Len(frames') = K /\ frames'[K] = w
    BY <1>0, <2>1
  <2> QED
    BY <2>1, <2>2, EmptySeq DEF Last
<1>2. CASE ~fresh /\ SameEpisode(w)
  <2>1. frames' = Append(Tail(frames), w) /\ frames \in Seq(Window) /\ Len(frames) = K
    BY <1>2 DEF SameEpisode, Types
  <2>2. Tail(frames) \in Seq(Window) /\ Len(Tail(frames)) = K - 1
    BY <1>0, <2>1
  <2>3. frames' \in Seq(Window) /\ Len(frames') = K /\ frames'[K] = w
    BY <1>0, <2>1, <2>2
  <2>4. Append(horizon, w) \in Seq(Window) /\ Len(Append(horizon, w)) \in Nat
    BY DEF Types
  <2>5. horizon' \in Seq(Window)
    <3> DEFINE h == Append(horizon, w)
    <3>1. horizon' = SubSeq(h, IF Len(h) > Horizon THEN Len(h) - Horizon + 1 ELSE 1, Len(h))
      BY <1>2 DEF SameEpisode, Newest
    <3> HIDE DEF h
    <3> QED
      BY <1>0, <2>4, <3>1, SubSeqProperties DEF h
  <2> QED
    BY <2>3, <2>5 DEF Last
<1> QED
  BY <1>1, <1>2

\* Learning records the new transition and no other.
LEMMA LearnRecords ==
  ASSUME Types, NEW t \in Transition, Learn(t)
  PROVE  /\ buffer' \in Seq(Transition) /\ pushed' \in Seq(Transition)
         /\ Recorded' \subseteq Recorded \union {t}
<1> DEFINE rollout == Append(buffer, t)
<1>1. buffer \in Seq(Transition) /\ pushed \in Seq(Transition)
  BY DEF Types
<1>2. rollout \in Seq(Transition) /\ Range(rollout) \subseteq Range(buffer) \union {t}
  <2>1. rollout \in Seq(Transition) /\ Len(rollout) = Len(buffer) + 1 /\ Len(buffer) \in Nat
    BY <1>1
  <2>2. \A i \in 1..Len(rollout) : rollout[i] = t \/ (i \in 1..Len(buffer) /\ rollout[i] = buffer[i])
    BY <1>1
  <2>3. DOMAIN rollout = 1..Len(rollout) /\ DOMAIN buffer = 1..Len(buffer)
    BY <1>1, <2>1
  <2> HIDE DEF rollout
  <2> QED
    BY <2>1, <2>2, <2>3 DEF Range
<1>3. CASE buffer' = rollout /\ UNCHANGED pushed
  BY <1>1, <1>2, <1>3 DEF Recorded
<1>4. CASE buffer' = <<>> /\ pushed' = pushed \o rollout
  <2> HIDE DEF rollout
  <2>1. /\ pushed' \in Seq(Transition) /\ Len(pushed') = Len(pushed) + Len(rollout)
        /\ \A i \in 1..Len(pushed') :
             pushed'[i] = IF i <= Len(pushed) THEN pushed[i] ELSE rollout[i - Len(pushed)]
    BY <1>1, <1>2, <1>4, ConcatProperties
  <2>2. Len(pushed) \in Nat /\ Len(rollout) \in Nat /\ DOMAIN pushed' = 1..Len(pushed')
          /\ DOMAIN pushed = 1..Len(pushed) /\ DOMAIN rollout = 1..Len(rollout)
    BY <1>1, <1>2, <2>1, LenProperties
  <2>3. \A i \in 1..Len(pushed') :
          \/ i \in 1..Len(pushed) /\ pushed'[i] = pushed[i]
          \/ i - Len(pushed) \in 1..Len(rollout) /\ pushed'[i] = rollout[i - Len(pushed)]
    BY <2>1, <2>2
  <2>4. Range(pushed') \subseteq Range(pushed) \union Range(rollout)
    BY <2>2, <2>3 DEF Range
  <2>5. buffer' \in Seq(Transition) /\ Range(buffer') = {}
    <3>1. <<>> \in Seq(Transition) /\ DOMAIN <<>> = {}
      BY EmptySeq
    <3> QED
      BY <1>4, <3>1 DEF Range
  <2> QED
    BY <1>2, <2>1, <2>4, <2>5 DEF Recorded
<1> QED
  BY <1>3, <1>4 DEF Learn

-----------------------------------------------------------------------------
(***************************************************************************)
(* Steps of the harness.                                                   *)
(***************************************************************************)
\* Without a transition the transitions stay right.
LEMMA NothingLearnt ==
  ASSUME EpisodesSeparated, OutcomeOfAction, UNCHANGED <<buffer, pushed>>
  PROVE  EpisodesSeparated' /\ OutcomeOfAction'
BY DEF EpisodesSeparated, OutcomeOfAction, Recorded

\* A new process is newer than everything in the queue.
LEMMA StartHarnessKeeps == ASSUME EpisodeInv, StartHarness PROVE EpisodeInv'
<1> USE TrainingAssumption
<1>0. Types /\ InOrder /\ NoGap /\ HarnessInStep /\ EpisodesSeparated /\ OutcomeOfAction
  BY DEF EpisodeInv
<1>1. /\ harness = "off" /\ proc < Processes /\ proc' = proc + 1 /\ idx' = 0 /\ inForce' = Default
      /\ harness' = "window"
      /\ UNCHANGED <<server, reply, backlog, client, agent, agentNo, learnerVars>>
  BY DEF StartHarness
<1>2. UNCHANGED <<fresh, frames, horizon, buffer, memory, pushed>> /\ Latest' = Latest
  BY <1>1 DEF learnerVars, Latest
<1>3. Types'
  <2>1. proc' \in 0..Processes /\ proc' # 0 /\ idx' \in 0..Windows /\ inForce' \in Policy
    BY <1>0, <1>1 DEF Types, Policy
  <2> QED
    BY <1>0, <1>1, <1>2, <2>1 DEF Types
<1>4. /\ \A i \in 1..Len(client) : WindowOf(client[i])[1] \in Int /\ WindowOf(client[i])[1] <= proc
      /\ \A i \in 1..Len(backlog) : WindowOf(backlog[i])[1] \in Int /\ WindowOf(backlog[i])[1] <= proc
      /\ ~fresh => Latest[1] \in Int /\ Latest[1] <= proc
      /\ proc \in Int
  BY <1>0, QueueTyped, LatestTyped DEF InOrder
<1>5. InOrder'
  BY <1>0, <1>1, <1>2, <1>4 DEF InOrder
<1>6. NoGap'
  BY <1>0, <1>1, <1>2 DEF NoGap, Fits, Opens, Continues
<1>7. HarnessInStep'
  <2>1. Quiet' <=> Quiet
    BY <1>1 DEF Quiet
  <2>2. reply' = Nothing
    BY <1>0, <1>1 DEF HarnessInStep
  <2> QED
    BY <1>0, <1>1, <1>2, <1>4, <2>1, <2>2 DEF HarnessInStep
<1> QED
  BY <1>0, <1>2, <1>3, <1>5, <1>6, <1>7, NothingLearnt DEF EpisodeInv

\* A killed process leaves its connection behind.
LEMMA StopHarnessKeeps == ASSUME EpisodeInv, StopHarness PROVE EpisodeInv'
<1>0. Types /\ InOrder /\ NoGap /\ HarnessInStep /\ EpisodesSeparated /\ OutcomeOfAction
  BY DEF EpisodeInv
<1>1. /\ harness' = "off" /\ reply' = Nothing
      /\ UNCHANGED <<proc, idx, inForce, server, backlog, client, agent, agentNo, learnerVars>>
  BY DEF StopHarness
<1>2. UNCHANGED <<fresh, frames, horizon, buffer, memory, pushed>> /\ Latest' = Latest
  BY <1>1 DEF learnerVars, Latest
<1>3. Types'
  BY <1>0, <1>1, <1>2 DEF Types
<1>4. InOrder'
  BY <1>0, <1>1, <1>2 DEF InOrder
<1>5. NoGap'
  BY <1>0, <1>1, <1>2 DEF NoGap, Fits, Opens, Continues
<1>6. HarnessInStep'
  BY <1>0, <1>1, <1>2 DEF HarnessInStep, Quiet
<1> QED
  BY <1>0, <1>2, <1>3, <1>4, <1>5, <1>6, NothingLearnt DEF EpisodeInv

\* A new connection is of a process that has none, and of the window that follows.
LEMMA ConnectKeeps == ASSUME EpisodeInv, Connect PROVE EpisodeInv'
<1> USE TrainingAssumption
<1>0. Types /\ InOrder /\ NoGap /\ HarnessInStep /\ EpisodesSeparated /\ OutcomeOfAction
  BY DEF EpisodeInv
<1> DEFINE c == [telemetry |-> [window |-> <<proc, idx>>, policy |-> inForce], full |-> FALSE]
<1>1. /\ harness = "window" /\ harness' = "send" /\ agent # "down" /\ idx < Windows
      /\ backlog' = Append(backlog, c) /\ server' = agentNo
      /\ UNCHANGED <<proc, idx, inForce, reply, client, agent, agentNo, learnerVars>>
  BY DEF Connect
<1>2. UNCHANGED <<fresh, frames, horizon, buffer, memory, pushed>> /\ Latest' = Latest
  BY <1>1 DEF learnerVars, Latest
<1>3. c \in Connection /\ WindowOf(c) = <<proc, idx>> /\ c.telemetry.policy = inForce
  <2>1. <<proc, idx>> \in Window /\ inForce \in Policy
    <3>1. /\ proc \in Nat /\ proc # 0 /\ proc <= Processes
          /\ idx \in Nat /\ idx < Windows /\ inForce \in Policy
      BY <1>0, <1>1 DEF Types
    <3>2. proc \in 1..Processes /\ idx \in 0..(Windows - 1)
      BY <3>1
    <3> QED
      BY <3>1, <3>2 DEF Window
  <2> QED
    BY <2>1 DEF Connection, Telemetry, WindowOf
<1> HIDE DEF c
<1>4. /\ backlog' \in Seq(Connection) /\ Len(backlog') = Len(backlog) + 1 /\ Len(backlog) \in Nat
      /\ \A i \in 1..Len(backlog') :
           \/ i \in 1..Len(backlog) /\ backlog'[i] = backlog[i]
           \/ i = Len(backlog) + 1 /\ backlog'[i] = c
  BY <1>0, <1>1, <1>3 DEF Types
<1>5. Types'
  BY <1>0, <1>1, <1>2, <1>4 DEF Types
<1>6. /\ \/ fresh
         \/ idx = 0 /\ Latest[1] < proc
         \/ Latest = <<proc, idx - 1>> /\ inForce = Latest
      /\ \/ Quiet
         \/ /\ idx = 0
            /\ \A i \in 1..Len(client) : WindowOf(client[i])[1] < proc
            /\ \A i \in 1..Len(backlog) : WindowOf(backlog[i])[1] < proc
      /\ reply = Nothing
  BY <1>0, <1>1 DEF HarnessInStep
<1>7. proc \in Int /\ idx \in Int
        /\ \A i \in 1..Len(backlog) : WindowOf(backlog[i])[1] \in Int
  BY <1>0, QueueTyped
<1>8. /\ \A i \in 1..Len(client) : WindowOf(client[i])[1] < proc
      /\ \A i \in 1..Len(backlog) : WindowOf(backlog[i])[1] < proc
  <2>1. Quiet => 1..Len(client) = {} /\ 1..Len(backlog) = {}
    BY DEF Quiet
  <2> QED
    BY <1>6, <2>1
<1>9. InOrder'
  <2>1. ~fresh => Latest[1] <= proc
    BY <1>0 DEF InOrder
  <2>2. ASSUME NEW i \in 1..Len(backlog') PROVE WindowOf(backlog'[i])[1] <= proc
    <3>1. CASE i \in 1..Len(backlog)
      <4>1. backlog'[i] = backlog[i]
        BY <1>4, <3>1
      <4>2. WindowOf(backlog[i])[1] < proc /\ WindowOf(backlog[i])[1] \in Int
        BY <1>7, <1>8, <3>1
      <4> QED
        BY <1>7, <4>1, <4>2
    <3>2. CASE i \notin 1..Len(backlog)
      <4>1. WindowOf(backlog'[i])[1] = proc
        BY <1>3, <1>4, <2>2, <3>2
      <4> QED
        BY <1>7, <4>1
    <3> QED
      BY <3>1, <3>2
  <2>3. \A i \in 1..Len(client) : \A j \in 1..Len(backlog') :
          WindowOf(client[i])[1] < WindowOf(backlog'[j])[1]
    BY <1>0, <1>3, <1>4, <1>7, <1>8 DEF InOrder
  <2>4. ASSUME NEW i \in 1..Len(backlog'), NEW j \in 1..Len(backlog'), i < j
        PROVE  WindowOf(backlog'[i])[1] < WindowOf(backlog'[j])[1]
    <3>1. i \in 1..Len(backlog) /\ backlog'[i] = backlog[i]
      BY <1>4, <2>4
    <3> QED
      BY <1>0, <1>3, <1>4, <1>8, <2>4, <3>1 DEF InOrder
  <2>5. ~fresh => \A i \in 1..Len(backlog') : Latest[1] <= WindowOf(backlog'[i])[1]
    BY <1>0, <1>3, <1>4, <2>1 DEF InOrder
  <2> QED
    BY <1>0, <1>1, <1>2, <2>1, <2>2, <2>3, <2>4, <2>5 DEF InOrder
<1>10. NoGap'
  <2> SUFFICES ASSUME NEW i \in 1..Len(backlog')
               PROVE  IF agent = "accept" /\ i = 1 THEN Fits(backlog'[i]) ELSE Opens(backlog'[i])
    BY <1>0, <1>1, <1>2 DEF NoGap, Fits, Opens, Continues
  <2>1. CASE i \in 1..Len(backlog) /\ backlog'[i] = backlog[i]
    BY <1>0, <2>1 DEF NoGap
  <2>2. CASE i = Len(backlog) + 1 /\ backlog'[i] = c
    <3>1. CASE agent = "accept" /\ i = 1
      <4>1. Fits(c)
        <5>1. CASE fresh
          BY <5>1 DEF Fits
        <5>2. CASE idx = 0 /\ Latest[1] < proc
          BY <1>3, <5>2 DEF Fits, Opens
        <5>3. CASE Latest = <<proc, idx - 1>> /\ inForce = Latest
          <6>1. Latest[1] = proc /\ Latest[2] + 1 = idx
            BY <1>7, <5>3
          <6> QED
            BY <1>3, <5>3, <6>1 DEF Fits, Continues
        <5> QED
          BY <1>6, <5>1, <5>2, <5>3
      <4> QED
        BY <2>2, <3>1, <4>1
    <3>2. CASE ~(agent = "accept" /\ i = 1)
      <4>1. ~Quiet
        <5>1. CASE agent # "accept"
          <6>1. 1 \in 1..Len(client)
            BY <1>0, <1>1, <5>1, QueueTyped DEF Types
          <6> QED
            BY <6>1 DEF Quiet
        <5>2. CASE i # 1
          <6>1. Len(backlog) # 0
            BY <1>4, <2>2, <5>2
          <6> QED
            BY <6>1 DEF Quiet
        <5> QED
          BY <3>2, <5>1, <5>2
      <4>2. Opens(c)
        BY <1>3, <1>6, <4>1 DEF Opens
      <4> QED
        BY <2>2, <3>2, <4>2
    <3> QED
      BY <3>1, <3>2
  <2> QED
    BY <1>4, <2>1, <2>2
<1>11. HarnessInStep'
  BY <1>0, <1>1, <1>2, <1>6 DEF HarnessInStep
<1> QED
  BY <1>0, <1>2, <1>5, <1>9, <1>10, <1>11, NothingLearnt DEF EpisodeInv

\* A window is skipped only while no agent is there to notice.
LEMMA ConnectFailsKeeps == ASSUME EpisodeInv, ConnectFails PROVE EpisodeInv'
<1> USE TrainingAssumption
<1>0. Types /\ InOrder /\ NoGap /\ HarnessInStep /\ EpisodesSeparated /\ OutcomeOfAction
  BY DEF EpisodeInv
<1>1. /\ harness = "window" /\ agent = "down" /\ idx < Windows /\ idx' = idx + 1
      /\ UNCHANGED <<harness, proc, inForce, server, reply, backlog, client, agent, agentNo, learnerVars>>
  BY DEF ConnectFails
<1>2. UNCHANGED <<fresh, frames, horizon, buffer, memory, pushed>> /\ Latest' = Latest
  BY <1>1 DEF learnerVars, Latest
<1>3. Types'
  BY <1>0, <1>1, <1>2 DEF Types
<1>4. InOrder'
  BY <1>0, <1>1, <1>2 DEF InOrder
<1>5. NoGap'
  BY <1>0, <1>1, <1>2 DEF NoGap, Fits, Opens, Continues
<1>6. HarnessInStep'
  BY <1>0, <1>1, <1>2 DEF HarnessInStep, Quiet
<1> QED
  BY <1>0, <1>2, <1>3, <1>4, <1>5, <1>6, NothingLearnt DEF EpisodeInv

\* Delivery moves nothing in the queue.
LEMMA SendTelemetryKeeps == ASSUME EpisodeInv, SendTelemetry PROVE EpisodeInv'
<1>0. Types /\ InOrder /\ NoGap /\ HarnessInStep /\ EpisodesSeparated /\ OutcomeOfAction
  BY DEF EpisodeInv
<1>1. /\ harness = "send" /\ harness' = "wait"
      /\ backlog' = Delivered(backlog) /\ client' = Delivered(client)
      /\ UNCHANGED <<proc, idx, inForce, server, reply, agent, agentNo, learnerVars>>
  BY DEF SendTelemetry
<1>2. UNCHANGED <<fresh, frames, horizon, buffer, memory, pushed>> /\ Latest' = Latest
  BY <1>1 DEF learnerVars, Latest
<1>3. /\ backlog' \in Seq(Connection) /\ Len(backlog') = Len(backlog)
      /\ client' \in Seq(Connection) /\ Len(client') = Len(client)
      /\ \A i \in 1..Len(backlog) : backlog'[i].telemetry = backlog[i].telemetry
      /\ \A i \in 1..Len(client) : client'[i].telemetry = client[i].telemetry
  BY <1>0, <1>1, DeliveredKeeps DEF Types
<1>4. Types'
  BY <1>0, <1>1, <1>2, <1>3 DEF Types
<1>5. /\ \A i \in 1..Len(backlog) : WindowOf(backlog'[i]) = WindowOf(backlog[i])
      /\ \A i \in 1..Len(client) : WindowOf(client'[i]) = WindowOf(client[i])
  BY <1>3 DEF WindowOf
<1>6. InOrder'
  BY <1>0, <1>1, <1>2, <1>3, <1>5 DEF InOrder
<1>7. NoGap'
  <2>1. agent \in {"read", "act"} => 1 \in 1..Len(client)
    BY <1>0, QueueTyped
  <2> QED
    BY <1>0, <1>1, <1>2, <1>3, <1>5, <2>1 DEF NoGap, Fits, Opens, Continues
<1>8. HarnessInStep'
  <2>1. Quiet => Quiet'
    <3>1. Quiet => Len(backlog') = 0 /\ Len(client') = 0
      BY <1>3 DEF Quiet
    <3> QED
      BY <1>3, <3>1 DEF Quiet
  <2> QED
    BY <1>0, <1>1, <1>2, <2>1 DEF HarnessInStep
<1> QED
  BY <1>0, <1>2, <1>4, <1>6, <1>7, <1>8, NothingLearnt DEF EpisodeInv

\* The next window runs under the answer to the one the agent saw last.
LEMMA HandshakeEndsKeeps == ASSUME EpisodeInv, HandshakeEnds PROVE EpisodeInv'
<1> USE TrainingAssumption
<1>0. Types /\ InOrder /\ NoGap /\ HarnessInStep /\ EpisodesSeparated /\ OutcomeOfAction
  BY DEF EpisodeInv
<1>1. /\ harness = "wait" /\ reply # Nothing /\ idx' = idx + 1 /\ reply' = Nothing
      /\ inForce' = IF reply = Closed THEN inForce ELSE reply
      /\ harness' = "window"
      /\ UNCHANGED <<proc, server, backlog, client, agent, agentNo, learnerVars>>
  BY DEF HandshakeEnds
<1>2. UNCHANGED <<fresh, frames, horizon, buffer, memory, pushed>> /\ Latest' = Latest
  BY <1>1 DEF learnerVars, Latest
<1>3. inForce' \in Policy
  BY <1>0, <1>1 DEF Types, Policy
<1>4. Quiet /\ (agent = "down" \/ fresh \/ (reply = Latest /\ Latest = <<proc, idx>>))
  BY <1>0, <1>1 DEF HarnessInStep
<1>5. idx \in Int
  BY <1>0 DEF Types
<1>6. InOrder'
  BY <1>0, <1>1, <1>2 DEF InOrder
<1>7. NoGap'
  BY <1>0, <1>1, <1>2 DEF NoGap, Fits, Opens, Continues
<1>8. HarnessInStep'
  <2>1. Quiet'
    BY <1>1, <1>4 DEF Quiet
  <2>2. agent # "down" /\ ~fresh => Latest = <<proc, idx' - 1>> /\ inForce' = Latest
    <3> SUFFICES ASSUME agent # "down", ~fresh PROVE Latest = <<proc, idx' - 1>> /\ inForce' = Latest
      OBVIOUS
    <3>1. reply = Latest /\ Latest = <<proc, idx>>
      BY <1>4
    <3>2. reply # Closed
      BY <1>0, <3>1, LatestTyped, WindowFields
    <3> QED
      BY <1>1, <1>5, <3>1, <3>2
  <2> QED
    BY <1>0, <1>1, <1>2, <2>1, <2>2 DEF HarnessInStep
<1>9. Types'
  BY <1>0, <1>1, <1>2, <1>3 DEF Types
<1> QED
  BY <1>0, <1>2, <1>6, <1>7, <1>8, <1>9, NothingLearnt DEF EpisodeInv

-----------------------------------------------------------------------------
(***************************************************************************)
(* Steps of the agent.                                                     *)
(***************************************************************************)
\* A new agent starts with nothing, in the queue as in its memory.
LEMMA StartAgentKeeps == ASSUME EpisodeInv, StartAgent PROVE EpisodeInv'
<1>0. Types /\ InOrder /\ NoGap /\ HarnessInStep
  BY DEF EpisodeInv
<1>1. /\ agent = "down" /\ agentNo' = agentNo + 1 /\ agent' = "accept" /\ fresh' = TRUE
      /\ frames' = <<>> /\ horizon' = <<>> /\ buffer' = <<>> /\ pushed' = <<>>
      /\ UNCHANGED <<harness, proc, idx, inForce, server, reply, backlog, client>>
  BY DEF StartAgent, harnessVars
<1>2. /\ <<>> \in Seq(Window) /\ <<>> \in Seq(Transition) /\ <<>> \in Seq(Connection)
      /\ DOMAIN <<>> = {}
  BY EmptySeq
<1>3. client = <<>> /\ backlog = <<>> /\ 1..Len(client) = {} /\ 1..Len(backlog) = {}
  BY <1>0, <1>1 DEF HarnessInStep, Quiet
<1>4. Types'
  BY <1>0, <1>1, <1>2, <1>3 DEF Types
<1>5. InOrder' /\ NoGap'
  BY <1>1, <1>3 DEF InOrder, NoGap
<1>6. HarnessInStep'
  BY <1>0, <1>1, <1>3 DEF HarnessInStep, Quiet
<1>7. EpisodesSeparated' /\ OutcomeOfAction'
  <2>1. Recorded' = {}
    BY <1>1, <1>2 DEF Recorded, Range
  <2> QED
    BY <2>1 DEF EpisodesSeparated, OutcomeOfAction
<1> QED
  BY <1>4, <1>5, <1>6, <1>7 DEF EpisodeInv

\* The queue goes down with the agent.
LEMMA KillAgentKeeps == ASSUME EpisodeInv, KillAgent PROVE EpisodeInv'
<1>0. Types /\ InOrder /\ NoGap /\ HarnessInStep /\ EpisodesSeparated /\ OutcomeOfAction
  BY DEF EpisodeInv
<1>1. /\ agent' = "down" /\ backlog' = <<>> /\ client' = <<>>
      /\ reply' = IF harness \in {"send", "wait"} /\ reply = Nothing THEN Closed ELSE reply
      /\ UNCHANGED <<harness, proc, idx, inForce, server, agentNo, learnerVars>>
  BY DEF KillAgent, harnessVars
<1>2. UNCHANGED <<fresh, frames, horizon, buffer, memory, pushed>> /\ Latest' = Latest
  BY <1>1 DEF learnerVars, Latest
<1>3. <<>> \in Seq(Connection) /\ Len(<<>>) = 0 /\ 1..Len(client') = {} /\ 1..Len(backlog') = {}
  BY <1>1, EmptySeq
<1>4. Types'
  BY <1>0, <1>1, <1>2, <1>3 DEF Types
<1>5. InOrder'
  BY <1>0, <1>1, <1>2, <1>3 DEF InOrder
<1>6. NoGap'
  BY <1>1, <1>3 DEF NoGap
<1>7. HarnessInStep'
  BY <1>0, <1>1, <1>2 DEF HarnessInStep, Quiet
<1> QED
  BY <1>0, <1>2, <1>4, <1>5, <1>6, <1>7, NothingLearnt DEF EpisodeInv

\* The oldest connection is accepted.
LEMMA AcceptKeeps == ASSUME EpisodeInv, Accept PROVE EpisodeInv'
<1>0. Types /\ InOrder /\ NoGap /\ HarnessInStep /\ EpisodesSeparated /\ OutcomeOfAction
  BY DEF EpisodeInv
<1>1. /\ agent = "accept" /\ backlog # <<>> /\ agent' = "read"
      /\ client' = <<Head(backlog)>> /\ backlog' = Tail(backlog)
      /\ UNCHANGED <<harness, proc, idx, inForce, server, reply, agentNo, learnerVars>>
  BY DEF Accept, harnessVars
<1>2. UNCHANGED <<fresh, frames, horizon, buffer, memory, pushed>> /\ Latest' = Latest
  BY <1>1 DEF learnerVars, Latest
<1>3. backlog \in Seq(Connection) /\ Len(backlog) \in Nat /\ Len(backlog) >= 1
  BY <1>0, <1>1 DEF Types
<1>4. /\ client' \in Seq(Connection) /\ Len(client') = 1 /\ client'[1] = backlog[1]
      /\ 1 \in 1..Len(backlog)
      /\ \A i \in 1..Len(client') : client'[i] = backlog[1]
      /\ backlog' \in Seq(Connection) /\ Len(backlog') = Len(backlog) - 1
      /\ \A i \in 1..Len(backlog') : /\ i + 1 \in 1..Len(backlog) /\ i + 1 > 1
                                     /\ backlog'[i] = backlog[i + 1]
  BY <1>1, <1>3
<1>5. Types'
  BY <1>0, <1>1, <1>2, <1>4 DEF Types
<1>6. InOrder'
  <2>1. \A i \in 1..Len(backlog') : i \in Int
    OBVIOUS
  <2>2. ASSUME NEW i \in 1..Len(backlog'), NEW j \in 1..Len(backlog'), i < j
        PROVE  WindowOf(backlog'[i])[1] < WindowOf(backlog'[j])[1]
    <3>1. /\ i + 1 \in 1..Len(backlog) /\ j + 1 \in 1..Len(backlog) /\ i + 1 < j + 1
          /\ backlog'[i] = backlog[i + 1] /\ backlog'[j] = backlog[j + 1]
      BY <1>4, <2>1, <2>2
    <3>2. WindowOf(backlog[i + 1])[1] < WindowOf(backlog[j + 1])[1]
      BY <1>0, <3>1 DEF InOrder
    <3> QED
      BY <3>1, <3>2
  <2>3. \A i \in 1..Len(client') : \A j \in 1..Len(backlog') :
          WindowOf(client'[i])[1] < WindowOf(backlog'[j])[1]
    BY <1>0, <1>4 DEF InOrder
  <2> QED
    BY <1>0, <1>1, <1>2, <1>4, <2>2, <2>3 DEF InOrder
<1>7. NoGap'
  <2>1. Fits(client'[1])
    BY <1>0, <1>1, <1>4 DEF NoGap
  <2>2. ASSUME NEW i \in 1..Len(backlog') PROVE Opens(backlog'[i])
    BY <1>0, <1>1, <1>4, <2>2 DEF NoGap
  <2> QED
    BY <1>1, <1>2, <2>1, <2>2 DEF NoGap, Fits, Opens, Continues
<1>8. HarnessInStep'
  <2>1. ~Quiet
    BY <1>1 DEF Quiet
  <2> QED
    BY <1>0, <1>1, <1>2, <1>4, <2>1 DEF HarnessInStep
<1> QED
  BY <1>0, <1>2, <1>5, <1>6, <1>7, <1>8, NothingLearnt DEF EpisodeInv

\* The connection the harness holds is the newest.
LEMMA HeldIsNewest ==
  ASSUME EpisodeInv, agent \in {"read", "act"}, Held(client[1])
  PROVE  backlog = <<>> /\ WindowOf(client[1]) = <<proc, idx>> /\ harness \in {"send", "wait"}
<1>1. Types /\ InOrder
  BY DEF EpisodeInv
<1>2. WindowOf(client[1]) = <<proc, idx>> /\ harness \in {"send", "wait"}
  BY DEF Held, WindowOf
<1>3. 1 \in 1..Len(client) /\ Len(backlog) \in Nat /\ proc \in Int
  BY <1>1, QueueTyped
<1>4. ASSUME backlog # <<>> PROVE FALSE
  <2>1. 1 \in 1..Len(backlog)
    BY <1>1, <1>4 DEF Types
  <2>2. WindowOf(client[1])[1] < WindowOf(backlog[1])[1] /\ WindowOf(backlog[1])[1] <= proc
          /\ WindowOf(backlog[1])[1] \in Int
    BY <1>1, <1>3, <2>1, QueueTyped DEF InOrder
  <2> QED
    BY <1>2, <1>3, <2>2
<1> QED
  BY <1>2, <1>4

\* A connection that is closed unread leaves those behind it in order.
LEMMA ReadShortKeeps == ASSUME EpisodeInv, ReadShort PROVE EpisodeInv'
<1> USE TrainingAssumption
<1>0. Types /\ InOrder /\ NoGap /\ HarnessInStep /\ EpisodesSeparated /\ OutcomeOfAction
  BY DEF EpisodeInv
<1>1. /\ agent = "read" /\ agent' = "accept" /\ client' = <<>> /\ TooShort
      /\ reply' = IF Held(client[1]) THEN Closed ELSE reply
      /\ UNCHANGED <<harness, proc, idx, inForce, server, backlog, agentNo, learnerVars>>
  BY DEF ReadShort, harnessVars
<1>2. UNCHANGED <<fresh, frames, horizon, buffer, memory, pushed>> /\ Latest' = Latest
  BY <1>1 DEF learnerVars, Latest
<1>3. <<>> \in Seq(Connection) /\ Len(<<>>) = 0 /\ 1..Len(client') = {}
  BY <1>1, EmptySeq
<1>4. Types'
  BY <1>0, <1>1, <1>2, <1>3 DEF Types
<1>5. InOrder'
  BY <1>0, <1>1, <1>2, <1>3 DEF InOrder
<1>6. NoGap'
  <2>1. ASSUME NEW i \in 1..Len(backlog), ~fresh
        PROVE  Opens(backlog[i]) /\ Latest[1] < WindowOf(backlog[i])[1]
    <3>1. Opens(backlog[i])
      BY <1>0, <1>1, <2>1 DEF NoGap
    <3>2. 1 \in 1..Len(client) /\ WindowOf(client[1])[1] \in Int
            /\ WindowOf(backlog[i])[1] \in Int /\ Latest[1] \in Int
      BY <1>0, <1>1, <2>1, QueueTyped, LatestTyped
    <3>3. Latest[1] <= WindowOf(client[1])[1] /\ WindowOf(client[1])[1] < WindowOf(backlog[i])[1]
      BY <1>0, <2>1, <3>2 DEF InOrder
    <3> QED
      BY <3>1, <3>2, <3>3
  <2>2. \A i \in 1..Len(backlog) : Fits(backlog[i]) /\ Opens(backlog[i])
    BY <1>0, <1>1, <2>1 DEF NoGap, Fits
  <2> QED
    BY <1>1, <1>2, <2>2 DEF NoGap, Fits, Opens, Continues
<1>7. HarnessInStep'
  <2>1. CASE Held(client[1])
    <3>1. client[1].full /\ RecvLimit < PayloadSize
      BY <1>1, <2>1 DEF TooShort
    <3>2. fresh
      BY <1>0, <3>1 DEF HarnessInStep
    <3>3. backlog' = <<>> /\ client' = <<>> /\ harness \in {"send", "wait"}
      BY <1>1, <2>1, HeldIsNewest
    <3> QED
      BY <1>0, <1>1, <1>2, <3>2, <3>3 DEF HarnessInStep, Quiet
  <2>2. CASE ~Held(client[1])
    BY <1>0, <1>1, <1>2, <1>3, <2>2 DEF HarnessInStep, Quiet
  <2> QED
    BY <2>1, <2>2
<1> QED
  BY <1>0, <1>2, <1>4, <1>5, <1>6, <1>7, NothingLearnt DEF EpisodeInv

\* What reading a telemetry makes of the queue and of the harness's place.
LEMMA SeenKeepsOrder ==
  ASSUME EpisodeInv, agent = "read", agent' = "act", fresh' = FALSE, ~(RecvLimit < PayloadSize),
         Latest' = WindowOf(client[1]),
         UNCHANGED <<harness, proc, idx, inForce, server, reply, backlog, client, agentNo>>
  PROVE  InOrder' /\ NoGap' /\ HarnessInStep'
<1> USE TrainingAssumption
<1>0. Types /\ InOrder /\ NoGap /\ HarnessInStep
  BY DEF EpisodeInv
<1>1. /\ 1 \in 1..Len(client) /\ WindowOf(client[1])[1] \in Int
      /\ \A i \in 1..Len(client) : i = 1
      /\ \A i \in 1..Len(backlog) : WindowOf(backlog[i])[1] \in Int
  <2>1. Len(client) = 1
    BY <1>0 DEF Types
  <2> QED
    BY <1>0, <2>1, QueueTyped
<1>2. InOrder'
  BY <1>0, <1>1 DEF InOrder
<1>3. NoGap'
  BY <1>0, <1>1 DEF NoGap, Opens
<1>4. HarnessInStep'
  <2>1. ~Quiet
    BY <1>1 DEF Quiet
  <2>2. harness = "window" => idx = 0 /\ WindowOf(client[1])[1] < proc
    BY <1>0, <1>1, <2>1 DEF HarnessInStep
  <2> QED
    BY <1>0, <2>1, <2>2 DEF HarnessInStep
<1> QED
  BY <1>2, <1>3, <1>4

\* The first telemetry an agent sees makes no transition.
LEMMA FirstTelemetryKeeps == ASSUME EpisodeInv, FirstTelemetry PROVE EpisodeInv'
<1>0. Types /\ EpisodesSeparated /\ OutcomeOfAction
  BY DEF EpisodeInv
<1>1. /\ agent = "read" /\ agent' = "act" /\ client[1].full /\ ~TooShort
      /\ fresh /\ fresh' = FALSE /\ NewEpisode(WindowOf(client[1]))
      /\ UNCHANGED <<harness, proc, idx, inForce, server, reply, backlog, client, agentNo,
                     buffer, memory, pushed>>
  BY DEF FirstTelemetry, harnessVars, WindowOf
<1>2. WindowOf(client[1]) \in Window
  BY <1>0, <1>1, QueueTyped
<1>3. frames' \in Seq(Window) /\ Len(frames') = K /\ Last(frames') = WindowOf(client[1])
        /\ horizon' \in Seq(Window)
  BY <1>0, <1>1, <1>2, FramesMove
<1>4. Types'
  BY <1>0, <1>1, <1>3 DEF Types
<1>5. Latest' = WindowOf(client[1]) /\ ~(RecvLimit < PayloadSize)
  BY <1>1, <1>3 DEF Latest, TooShort
<1> QED
  BY <1>0, <1>1, <1>4, <1>5, SeenKeepsOrder, NothingLearnt DEF EpisodeInv

\* The transition goes from the window seen last to the one that fits.
LEMMA NextTelemetryKeeps == ASSUME EpisodeInv, NextTelemetry PROVE EpisodeInv'
<1> USE TrainingAssumption
<1>0. Types /\ InOrder /\ NoGap /\ EpisodesSeparated /\ OutcomeOfAction
  BY DEF EpisodeInv
<1> DEFINE next == client[1].telemetry
           w    == WindowOf(client[1])
           done == EpisodeStart(w)
           t    == [from |-> Latest, next |-> next, done |-> done]
<1>1. /\ agent = "read" /\ agent' = "act" /\ client[1].full /\ ~TooShort
      /\ ~fresh /\ fresh' = FALSE /\ Learn(t)
      /\ IF done THEN NewEpisode(w) ELSE SameEpisode(w)
      /\ UNCHANGED <<harness, proc, idx, inForce, server, reply, backlog, client, agentNo>>
  BY <1>0 DEF NextTelemetry, harnessVars, WindowOf, Latest, Types
<1>2. w \in Window /\ next \in Telemetry /\ next.window = w
  BY <1>0, <1>1, QueueTyped, ConnectionFields DEF WindowOf
<1>3. /\ Latest \in Window /\ Latest[1] \in Int /\ Latest[2] \in Int /\ Latest[2] >= 0
      /\ w[1] \in Int /\ w[2] \in Int
  BY <1>0, <1>1, <1>2, LatestTyped, WindowFields
<1>4. t \in Transition /\ t.from = Latest /\ t.next = next /\ (t.done <=> w[2] = 0)
  BY <1>2, <1>3 DEF Transition, EpisodeStart
<1>5. \/ w[2] = 0 /\ Latest[1] < w[1]
      \/ w = <<Latest[1], Latest[2] + 1>> /\ next.policy = Latest
  BY <1>0, <1>1 DEF NoGap, Fits, Opens, Continues
<1> HIDE DEF t, next, w, done
<1>6. /\ t.done <=> t.from[1] # t.next.window[1]
      /\ ~t.done => /\ t.next.window = <<t.from[1], t.from[2] + 1>>
                    /\ t.next.policy = t.from
  <2>1. /\ w[2] = 0 <=> Latest[1] # w[1]
        /\ w[2] # 0 => w = <<Latest[1], Latest[2] + 1>> /\ next.policy = Latest
    BY <1>3, <1>5
  <2> QED
    BY <1>2, <1>4, <2>1, Zenon
<1>7. EpisodesSeparated' /\ OutcomeOfAction' /\ buffer' \in Seq(Transition) /\ pushed' \in Seq(Transition)
  <2>1. /\ buffer' \in Seq(Transition) /\ pushed' \in Seq(Transition)
        /\ Recorded' \subseteq Recorded \union {t}
    BY <1>0, <1>1, <1>4, LearnRecords
  <2> QED
    BY <1>0, <1>6, <2>1 DEF EpisodesSeparated, OutcomeOfAction
<1>8. frames' \in Seq(Window) /\ Len(frames') = K /\ Last(frames') = w /\ horizon' \in Seq(Window)
  BY <1>0, <1>1, <1>2, FramesMove
<1>9. Types'
  BY <1>0, <1>1, <1>7, <1>8 DEF Types
<1>10. Latest' = WindowOf(client[1]) /\ ~(RecvLimit < PayloadSize)
  BY <1>1, <1>8 DEF Latest, TooShort, w
<1> QED
  BY <1>1, <1>7, <1>9, <1>10, SeenKeepsOrder DEF EpisodeInv

\* The answer goes to the newest connection or to nobody.
LEMMA AnswerKeeps == ASSUME EpisodeInv, Answer PROVE EpisodeInv'
<1> USE TrainingAssumption
<1>0. Types /\ InOrder /\ NoGap /\ HarnessInStep /\ EpisodesSeparated /\ OutcomeOfAction
  BY DEF EpisodeInv
<1>1. /\ agent = "act" /\ agent' = "accept" /\ client' = <<>>
      /\ reply' = IF Held(client[1]) THEN Latest ELSE reply
      /\ UNCHANGED <<harness, proc, idx, inForce, server, backlog, agentNo, learnerVars>>
  BY DEF Answer, harnessVars, Latest
<1>2. UNCHANGED <<fresh, frames, horizon, buffer, memory, pushed>> /\ Latest' = Latest
  BY <1>1 DEF learnerVars, Latest
<1>3. <<>> \in Seq(Connection) /\ Len(<<>>) = 0 /\ 1..Len(client') = {}
  BY <1>1, EmptySeq
<1>4. ~fresh /\ Latest = WindowOf(client[1]) /\ Latest \in Window
  BY <1>0, <1>1, LatestTyped DEF NoGap
<1>5. Types'
  BY <1>0, <1>1, <1>2, <1>3, <1>4 DEF Types
<1>6. InOrder'
  BY <1>0, <1>1, <1>2, <1>3 DEF InOrder
<1>7. NoGap'
  <2>1. ASSUME NEW i \in 1..Len(backlog)
        PROVE  Opens(backlog[i]) /\ Latest[1] < WindowOf(backlog[i])[1]
    <3>1. 1 \in 1..Len(client)
      BY <1>0, <1>1, QueueTyped
    <3> QED
      BY <1>0, <1>1, <1>4, <2>1, <3>1 DEF NoGap, InOrder
  <2> QED
    BY <1>1, <1>2, <2>1 DEF NoGap, Fits, Opens, Continues
<1>8. HarnessInStep'
  <2>1. CASE Held(client[1])
    <3>1. /\ backlog' = <<>> /\ client' = <<>> /\ harness \in {"send", "wait"}
          /\ Latest = <<proc, idx>>
      BY <1>1, <1>4, <2>1, HeldIsNewest
    <3> QED
      BY <1>0, <1>1, <1>2, <2>1, <3>1 DEF HarnessInStep, Quiet
  <2>2. CASE ~Held(client[1])
    BY <1>0, <1>1, <1>2, <1>3, <2>2 DEF HarnessInStep, Quiet
  <2> QED
    BY <2>1, <2>2
<1> QED
  BY <1>0, <1>2, <1>5, <1>6, <1>7, <1>8, NothingLearnt DEF EpisodeInv

-----------------------------------------------------------------------------
\* The invariant holds at the start, and every step keeps it.
LEMMA EpisodeInitial == Init => EpisodeInv
<1> SUFFICES ASSUME Init PROVE EpisodeInv
  OBVIOUS
<1>1. /\ <<>> \in Seq(Window) /\ <<>> \in Seq(Transition) /\ <<>> \in Seq(Connection)
      /\ DOMAIN <<>> = {} /\ Len(<<>>) = 0 /\ 1..Len(<<>>) = {}
  BY EmptySeq
<1>2. Types
  BY <1>1, TrainingAssumption DEF Init, Types, Policy
<1>3. InOrder /\ NoGap
  BY <1>1 DEF Init, InOrder, NoGap
<1>4. HarnessInStep
  BY DEF Init, HarnessInStep, Quiet
<1>5. Recorded = {}
  BY <1>1 DEF Init, Recorded, Range
<1>6. EpisodesSeparated /\ OutcomeOfAction
  BY <1>5 DEF EpisodesSeparated, OutcomeOfAction
<1> QED
  BY <1>2, <1>3, <1>4, <1>6 DEF EpisodeInv

LEMMA EpisodeKept == ASSUME EpisodeInv, [Next]_vars PROVE EpisodeInv'
<1>1. CASE StartHarness
  BY <1>1, StartHarnessKeeps
<1>2. CASE StopHarness
  BY <1>2, StopHarnessKeeps
<1>3. CASE Connect
  BY <1>3, ConnectKeeps
<1>4. CASE ConnectFails
  BY <1>4, ConnectFailsKeeps
<1>5. CASE SendTelemetry
  BY <1>5, SendTelemetryKeeps
<1>6. CASE HandshakeEnds
  BY <1>6, HandshakeEndsKeeps
<1>7. CASE StartAgent
  BY <1>7, StartAgentKeeps
<1>8. CASE KillAgent
  BY <1>8, KillAgentKeeps
<1>9. CASE Accept
  BY <1>9, AcceptKeeps
<1>10. CASE ReadShort
  BY <1>10, ReadShortKeeps
<1>11. CASE FirstTelemetry
  BY <1>11, FirstTelemetryKeeps
<1>12. CASE NextTelemetry
  BY <1>12, NextTelemetryKeeps
<1>13. CASE Answer
  BY <1>13, AnswerKeeps
<1>14. CASE UNCHANGED vars
  <2>1. /\ UNCHANGED <<harness, proc, idx, inForce, server, reply, backlog, client, agent, agentNo>>
        /\ UNCHANGED <<fresh, frames, horizon, buffer, memory, pushed>>
    BY <1>14 DEF vars, harnessVars, learnerVars
  <2>2. Latest' = Latest
    BY <2>1 DEF Latest
  <2>3. Types' /\ InOrder' /\ HarnessInStep'
    BY <2>1, <2>2 DEF EpisodeInv, Types, InOrder, HarnessInStep, Quiet
  <2>4. NoGap'
    BY <2>1, <2>2 DEF EpisodeInv, NoGap, Fits, Opens, Continues
  <2>5. EpisodesSeparated' /\ OutcomeOfAction'
    BY <2>1, NothingLearnt DEF EpisodeInv
  <2> QED
    BY <2>3, <2>4, <2>5 DEF EpisodeInv
<1> QED
  BY <1>1, <1>2, <1>3, <1>4, <1>5, <1>6, <1>7, <1>8, <1>9, <1>10, <1>11, <1>12, <1>13, <1>14
  DEF Next, HarnessStep, AgentStep

\* The queue holds what follows the window the agent saw last, in order.
THEOREM EpisodeInductive == Spec => []EpisodeInv
BY EpisodeInitial, EpisodeKept, PTL DEF Spec

(***************************************************************************)
(* A transition ends an episode exactly when it joins two processes, so    *)
(* no kill of either side joins or cuts an episode.                        *)
(***************************************************************************)
THEOREM EpisodesKeptApart == Spec => []EpisodesSeparated
<1>1. EpisodeInv => EpisodesSeparated
  BY DEF EpisodeInv
<1> QED
  BY <1>1, EpisodeInductive, PTL

(***************************************************************************)
(* Inside an episode a transition leads to the next window, which ran      *)
(* under the action the transition starts from.                            *)
(***************************************************************************)
THEOREM OutcomesAttributed == Spec => []OutcomeOfAction
<1>1. EpisodeInv => OutcomeOfAction
  BY DEF EpisodeInv
<1> QED
  BY <1>1, EpisodeInductive, PTL

AnswerInv == EpisodeInv /\ AgentAnswers

(***************************************************************************)
(* An agent that reads as many bytes as are sent refuses nobody: a         *)
(* handshake without an answer is one whose agent was killed.              *)
(***************************************************************************)
THEOREM WholeRecordAnswered ==
  ASSUME RecvLimit >= PayloadSize PROVE Spec => []AgentAnswers
<1> USE TrainingAssumption
<1>1. Init => AnswerInv
  BY EpisodeInitial DEF Init, AnswerInv, AgentAnswers, Nothing, Closed
<1>2. ASSUME AnswerInv, [Next]_vars PROVE AnswerInv'
  <2>1. EpisodeInv /\ EpisodeInv' /\ Types /\ Types'
    <3>1. EpisodeInv /\ EpisodeInv'
      BY <1>2, EpisodeKept DEF AnswerInv
    <3> QED
      BY <3>1 DEF EpisodeInv
  <2>2. CASE reply' = reply /\ server' = server /\ agentNo' = agentNo /\ (agent = "down" => agent' = "down")
    BY <1>2, <2>1, <2>2 DEF AnswerInv, AgentAnswers
  <2>3. CASE reply' # Closed \/ agent' = "down"
    BY <2>1, <2>3 DEF AnswerInv, AgentAnswers
  <2>4. CASE StartAgent
    <3>1. agentNo' = agentNo + 1 /\ server' = server
      BY <2>4 DEF StartAgent, harnessVars
    <3>2. server <= agentNo /\ server \in Int /\ agentNo \in Int
      BY <2>1 DEF Types
    <3>3. agentNo' # server'
      BY <3>1, <3>2
    <3> QED
      BY <2>1, <3>3 DEF AnswerInv, AgentAnswers
  <2>5. CASE Connect
    <3>1. reply' = Nothing
      BY <2>1, <2>5 DEF Connect, EpisodeInv, HarnessInStep
    <3>2. Nothing # Closed
      BY DEF Nothing, Closed
    <3> QED
      BY <2>3, <3>1, <3>2
  <2>6. CASE ReadShort
    <3>1. PayloadSize \in Int /\ ~(RecvLimit < PayloadSize)
      BY DEF PayloadSize
    <3>2. ~Held(client[1])
      BY <2>6, <3>1 DEF ReadShort, TooShort
    <3> QED
      BY <2>2, <2>6, <3>2 DEF ReadShort, harnessVars
  <2>7. CASE Answer
    <3>1. CASE Held(client[1])
      <4>1. reply' = Latest /\ ~fresh
        BY <2>1, <2>7, <3>1 DEF Answer, Latest, EpisodeInv, NoGap
      <4> QED
        BY <2>1, <2>3, <4>1, LatestTyped, WindowFields
    <3>2. CASE ~Held(client[1])
      BY <2>2, <2>7, <3>2 DEF Answer, harnessVars
    <3> QED
      BY <3>1, <3>2
  <2>8. CASE StopHarness \/ HandshakeEnds
    <3>1. reply' = Nothing
      BY <2>8 DEF StopHarness, HandshakeEnds
    <3>2. Nothing # Closed
      BY DEF Nothing, Closed
    <3> QED
      BY <2>3, <3>1, <3>2
  <2>9. CASE KillAgent
    BY <2>3, <2>9 DEF KillAgent
  <2>10. CASE UNCHANGED vars
    BY <2>2, <2>10 DEF vars, harnessVars
  <2>11. CASE StartHarness \/ ConnectFails \/ SendTelemetry \/ Accept \/ FirstTelemetry \/ NextTelemetry
    BY <2>2, <2>11 DEF StartHarness, ConnectFails, SendTelemetry, Accept, FirstTelemetry,
                       NextTelemetry, harnessVars
  <2> QED
    BY <1>2, <2>4, <2>5, <2>6, <2>7, <2>8, <2>9, <2>10, <2>11 DEF Next, HarnessStep, AgentStep
<1>3. AnswerInv => AgentAnswers
  BY DEF AnswerInv
<1> QED
  BY <1>1, <1>2, <1>3, PTL DEF Spec

-----------------------------------------------------------------------------
\* A window that follows the last one can be appended.
LEMMA SuccessiveAppend ==
  ASSUME NEW s \in Seq(Window), NEW w \in Window, Successive(s),
         s # <<>> => w \in {Last(s), <<Last(s)[1], Last(s)[2] + 1>>}
  PROVE  Successive(Append(s, w))
<1> DEFINE h == Append(s, w)
<1>1. /\ Len(s) \in Nat /\ Len(h) = Len(s) + 1 /\ h[Len(s) + 1] = w
      /\ \A i \in 1..Len(s) : h[i] = s[i]
  OBVIOUS
<1> HIDE DEF h
<1>2. ASSUME NEW i \in 1..(Len(h) - 1)
      PROVE  h[i + 1] \in {h[i], <<h[i][1], h[i][2] + 1>>}
  <2>1. CASE i = Len(s)
    <3>1. s # <<>> /\ Last(s) = h[i] /\ h[i + 1] = w
      BY <1>1, <2>1 DEF Last
    <3> QED
      BY <3>1
  <2>2. CASE i # Len(s)
    <3>1. i \in 1..(Len(s) - 1) /\ h[i + 1] = s[i + 1] /\ h[i] = s[i]
      BY <1>1, <1>2, <2>2
    <3> QED
      BY <3>1 DEF Successive
  <2> QED
    BY <2>1, <2>2
<1>3. Successive(h)
  BY <1>2 DEF Successive
<1> QED
  BY <1>3 DEF h

\* What a frame stack and a deque drop is their oldest end.
LEMMA SuccessiveSuffix ==
  ASSUME NEW s \in Seq(Window), Successive(s), NEW a \in 1..Len(s)
  PROVE  /\ Successive(SubSeq(s, a, Len(s)))
         /\ SubSeq(s, a, Len(s)) # <<>> /\ Last(SubSeq(s, a, Len(s))) = Last(s)
<1> DEFINE h == SubSeq(s, a, Len(s))
<1>1. /\ Len(s) \in Nat /\ h \in Seq(Window) /\ Len(h) = Len(s) - a + 1
      /\ \A i \in 1..Len(h) : h[i] = s[a + i - 1]
  BY SubSeqProperties
<1> HIDE DEF h
<1>2. ASSUME NEW i \in 1..(Len(h) - 1)
      PROVE  h[i + 1] \in {h[i], <<h[i][1], h[i][2] + 1>>}
  <2>1. a + i - 1 \in 1..(Len(s) - 1) /\ a + (i + 1) - 1 = (a + i - 1) + 1
    BY <1>1
  <2>2. h[i] = s[a + i - 1] /\ h[i + 1] = s[(a + i - 1) + 1]
    BY <1>1, <2>1
  <2> QED
    BY <2>1, <2>2 DEF Successive
<1>3. Successive(h)
  BY <1>2 DEF Successive
<1>4. Len(h) >= 1 /\ h[Len(h)] = s[Len(s)]
  BY <1>1
<1>5. h # <<>> /\ Last(h) = Last(s)
  BY <1>4, EmptySeq DEF Last
<1> QED
  BY <1>3, <1>5 DEF h

\* A new episode forgets the one before it.
LEMMA NewEpisodeHistory ==
  ASSUME NEW w \in Window, NewEpisode(w) PROVE HistoryIsOneEpisode'
<1> USE TrainingAssumption
<1>1. frames' = [i \in 1..K |-> w] /\ horizon' = <<>> /\ 1..(Len(horizon') - 1) = {}
  BY EmptySeq DEF NewEpisode
<1>2. Len(frames') = K /\ \A i \in 1..K : frames'[i] = w
  BY <1>1
<1>3. Successive(frames)'
  BY <1>2 DEF Successive
<1>4. Successive(horizon)'
  BY <1>1 DEF Successive
<1> QED
  BY <1>1, <1>3, <1>4 DEF HistoryIsOneEpisode

\* The next window of an episode goes behind those seen.
LEMMA SameEpisodeHistory ==
  ASSUME Types, ~fresh, HistoryIsOneEpisode, NEW w \in Window, SameEpisode(w),
         w = <<Latest[1], Latest[2] + 1>>
  PROVE  HistoryIsOneEpisode'
<1> USE TrainingAssumption
<1>0. K \in Nat /\ K >= 1 /\ Horizon \in Nat /\ Horizon >= 1
  OBVIOUS
<1>1. /\ frames \in Seq(Window) /\ Len(frames) = K /\ horizon \in Seq(Window)
      /\ frames' = Append(Tail(frames), w) /\ horizon' = Newest(Append(horizon, w), Horizon)
  BY DEF Types, SameEpisode
<1>2. Last(frames) = Latest /\ Successive(frames) /\ Successive(horizon)
        /\ (horizon # <<>> => Last(horizon) = Latest)
  BY DEF HistoryIsOneEpisode, Latest
<1>3. Successive(frames') /\ Last(frames') = w
  <2>1. Successive(Tail(frames)) /\ Tail(frames) \in Seq(Window)
          /\ (Tail(frames) # <<>> => Last(Tail(frames)) = Latest)
    <3>1. Tail(frames) \in Seq(Window) /\ Len(Tail(frames)) = K - 1
            /\ \A i \in 1..(K - 1) : Tail(frames)[i] = frames[i + 1]
      BY <1>0, <1>1
    <3>2. Successive(Tail(frames))
      BY <1>0, <1>1, <1>2, <3>1 DEF Successive
    <3>3. ASSUME Tail(frames) # <<>> PROVE Last(Tail(frames)) = Latest
      <4>1. K - 1 \in 1..(K - 1)
        BY <1>0, <3>1, <3>3
      <4> QED
        BY <1>0, <1>1, <1>2, <3>1, <4>1 DEF Last
    <3> QED
      BY <3>1, <3>2, <3>3
  <2>2. Successive(Append(Tail(frames), w))
    BY <2>1, SuccessiveAppend
  <2>3. Last(Append(Tail(frames), w)) = w
    BY <2>1 DEF Last
  <2> QED
    BY <1>1, <2>2, <2>3
<1>4. Successive(horizon') /\ Last(horizon') = w
  <2> DEFINE h == Append(horizon, w)
             a == IF Len(h) > Horizon THEN Len(h) - Horizon + 1 ELSE 1
  <2>1. h \in Seq(Window) /\ Len(h) \in Nat /\ Len(h) >= 1 /\ Last(h) = w
    BY <1>1 DEF Last
  <2>2. Successive(h)
    BY <1>1, <1>2, SuccessiveAppend
  <2> HIDE DEF h
  <2>3. a \in 1..Len(h)
    BY <1>0, <2>1
  <2>4. horizon' = SubSeq(h, a, Len(h))
    BY <1>1 DEF Newest, h
  <2> HIDE DEF a
  <2>5. Successive(SubSeq(h, a, Len(h))) /\ Last(SubSeq(h, a, Len(h))) = Last(h)
    BY <2>1, <2>2, <2>3, SuccessiveSuffix
  <2> QED
    BY <2>1, <2>4, <2>5
<1> QED
  BY <1>3, <1>4 DEF HistoryIsOneEpisode, Successive

HistoryInv == EpisodeInv /\ HistoryIsOneEpisode

\* Only telemetry and a new agent change what is remembered.
LEMMA HistoryKept == ASSUME HistoryInv, [Next]_vars PROVE HistoryInv'
<1>0. EpisodeInv /\ EpisodeInv' /\ HistoryIsOneEpisode
  BY EpisodeKept DEF HistoryInv
<1>00. Types
  BY <1>0 DEF EpisodeInv
<1>1. CASE UNCHANGED <<frames, horizon>>
  BY <1>0, <1>1 DEF HistoryInv, HistoryIsOneEpisode, Successive
<1>2. CASE StartAgent
  <2>1. frames' = <<>> /\ horizon' = <<>> /\ 1..(Len(<<>>) - 1) = {}
    BY <1>2, EmptySeq DEF StartAgent
  <2> QED
    BY <1>0, <2>1 DEF HistoryInv, HistoryIsOneEpisode, Successive
<1>3. CASE FirstTelemetry
  <2>1. WindowOf(client[1]) \in Window
    BY <1>00, <1>3, QueueTyped DEF FirstTelemetry
  <2> QED
    BY <1>0, <1>3, <2>1, NewEpisodeHistory DEF FirstTelemetry, HistoryInv, WindowOf
<1>4. CASE NextTelemetry
  <2> DEFINE w == WindowOf(client[1])
  <2>1. w \in Window /\ w[2] \in Int
    BY <1>00, <1>4, QueueTyped, WindowFields DEF NextTelemetry
  <2>2. ~fresh /\ IF EpisodeStart(w) THEN NewEpisode(w) ELSE SameEpisode(w)
    BY <1>4 DEF NextTelemetry, WindowOf
  <2>3. w[2] = 0 \/ w = <<Latest[1], Latest[2] + 1>>
    BY <1>0, <1>4, <2>2 DEF NextTelemetry, EpisodeInv, NoGap, Fits, Opens, Continues
  <2> HIDE DEF w
  <2>4. HistoryIsOneEpisode'
    BY <1>0, <1>00, <2>1, <2>2, <2>3, NewEpisodeHistory, SameEpisodeHistory DEF EpisodeStart
  <2> QED
    BY <1>0, <2>4 DEF HistoryInv
<1> QED
  BY <1>1, <1>2, <1>3, <1>4
  DEF Next, HarnessStep, AgentStep, StartHarness, StopHarness, Connect, ConnectFails,
      SendTelemetry, HandshakeEnds, KillAgent, Accept, ReadShort, Answer, vars, learnerVars

(***************************************************************************)
(* The frame stack and the reward's look-back hold windows of one process  *)
(* without a gap, whoever was killed in between.                           *)
(***************************************************************************)
THEOREM HistoryOfOneProcess == Spec => []HistoryIsOneEpisode
<1>1. Init => HistoryInv
  <2> SUFFICES ASSUME Init PROVE HistoryInv
    OBVIOUS
  <2>1. frames = <<>> /\ horizon = <<>> /\ 1..(Len(<<>>) - 1) = {}
    BY EmptySeq DEF Init
  <2> QED
    BY <2>1, EpisodeInitial DEF HistoryInv, HistoryIsOneEpisode, Successive
<1>2. HistoryInv /\ [Next]_vars => HistoryInv'
  BY HistoryKept
<1>3. HistoryInv => HistoryIsOneEpisode
  BY DEF HistoryInv
<1> QED
  BY <1>1, <1>2, <1>3, PTL DEF Spec

-----------------------------------------------------------------------------
(***************************************************************************)
(* The replay buffer: a push overwrites the oldest slot, and a full        *)
(* rollout is pushed transition by transition.                             *)
(***************************************************************************)
\* The recursion by which FoldLeft is defined, for pushing all of s into m.
Pushes(g, m, s, F) ==
  g = [d \in F |-> IF d = {} THEN m ELSE Push(g[d \ {Max(d)}], s[Max(d)])]

LEMMA GreatestOf ==
  ASSUME NEW d \in SUBSET Nat, IsFiniteSet(d), d # {}
  PROVE  Max(d) \in d
BY GreatestNatural DEF Max

LEMMA MaxTo == ASSUME NEW n \in Nat PROVE Max(1..(n + 1)) = n + 1
<1> DEFINE top == Max(1..(n + 1))
<1>1. n + 1 \in 1..(n + 1) /\ \A y \in 1..(n + 1) : n + 1 >= y
  OBVIOUS
<1>2. top \in 1..(n + 1) /\ \A y \in 1..(n + 1) : top >= y
  BY <1>1 DEF Max
<1>3. top >= n + 1 /\ top \in Nat /\ top <= n + 1
  <2> HIDE DEF top
  <2> QED
    BY <1>1, <1>2
<1> HIDE DEF top
<1>4. top = n + 1
  BY <1>3
<1> QED
  BY <1>4 DEF top

\* What the recursion says of a set.
LEMMA PushesAt ==
  ASSUME NEW m, NEW s, NEW F, NEW g, Pushes(g, m, s, F)
  PROVE  \A d \in F : g[d] = IF d = {} THEN m ELSE Push(g[d \ {Max(d)}], s[Max(d)])
BY DEF Pushes

\* A solution on a family of sets is one on those that are in it without their
\* greatest element.
LEMMA PushesGrow ==
  ASSUME NEW m, NEW s, NEW F, NEW g, Pushes(g, m, s, F), NEW G, F \subseteq G,
         \A d \in G : d # {} => d \ {Max(d)} \in F
  PROVE  \E h : Pushes(h, m, s, G)
<1> DEFINE h == [d \in G |-> IF d = {} THEN m ELSE Push(g[d \ {Max(d)}], s[Max(d)])]
<1>1. ASSUME NEW d \in F PROVE h[d] = g[d]
  <2>1. g[d] = IF d = {} THEN m ELSE Push(g[d \ {Max(d)}], s[Max(d)])
    BY PushesAt
  <2> QED
    BY <2>1
<1>2. h = [d \in G |-> IF d = {} THEN m ELSE Push(h[d \ {Max(d)}], s[Max(d)])]
  <2>1. \A d \in G : d # {} => g[d \ {Max(d)}] = h[d \ {Max(d)}]
    <3> HIDE DEF h
    <3> QED
      BY <1>1
  <2> QED
    BY <2>1
<1>3. Pushes(h, m, s, G)
  <2> HIDE DEF h
  <2> QED
    BY <1>2 DEF Pushes
<1> QED
  BY <1>3

\* The recursion has a solution: on the sets of at most n positions, by
\* induction on n.
LEMMA PushesExist ==
  ASSUME NEW m, NEW s \in Seq(Transition)
  PROVE  \E g : Pushes(g, m, s, SUBSET DOMAIN s)
<1> DEFINE D    == DOMAIN s
           F(n) == {d \in SUBSET D : Cardinality(d) <= n}
           T    == {n \in Nat : \E g : Pushes(g, m, s, F(n))}
<1>1. D = 1..Len(s) /\ Len(s) \in Nat /\ IsFiniteSet(D) /\ D \subseteq Nat
  BY FS_Interval
<1> HIDE DEF D
<1>2. \A d \in SUBSET D : IsFiniteSet(d) /\ Cardinality(d) \in Nat /\ (d # {} => Max(d) \in d)
  BY <1>1, FS_Subset, FS_CardinalityType, GreatestOf
<1>3. 0 \in T
  <2>1. \A d \in F(0) : d = {}
    BY <1>2, FS_EmptySet
  <2>2. Pushes([d \in F(0) |-> m], m, s, F(0))
    BY <2>1 DEF Pushes
  <2> QED
    BY <2>2
<1>4. ASSUME NEW n \in T PROVE n + 1 \in T
  <2>1. PICK g : Pushes(g, m, s, F(n))
    OBVIOUS
  <2>2. F(n) \subseteq F(n + 1)
    BY <1>2
  <2>3. ASSUME NEW d \in F(n + 1), d # {} PROVE d \ {Max(d)} \in F(n)
    BY <1>2, <2>3, FS_RemoveElement
  <2>4. \E h : Pushes(h, m, s, F(n + 1))
    <3> HIDE DEF F
    <3> QED
      BY <2>1, <2>2, <2>3, PushesGrow
  <2> HIDE DEF F
  <2> QED
    BY <2>4
<1>5. T = Nat
  <2> HIDE DEF T
  <2>1. T \in SUBSET Nat
    BY DEF T
  <2> QED
    BY <1>3, <1>4, <2>1, InductiveSet
<1>6. Cardinality(D) \in T /\ F(Cardinality(D)) = SUBSET D
  BY <1>1, <1>2, <1>5, FS_Subset
<1> QED
  BY <1>6 DEF D

\* The replay buffer after all of s is pushed into it.
PushAll(m, s) == FoldLeft(Push, m, s)

\* It is the one after the last transition of s.
LEMMA FoldPushes ==
  ASSUME NEW m, NEW s, NEW F, F = SUBSET DOMAIN s, \E h : Pushes(h, m, s, F)
  PROVE  \E h : Pushes(h, m, s, F) /\ PushAll(m, s) = h[DOMAIN s]
<1>1. PushAll(m, s) = (CHOOSE h : Pushes(h, m, s, F))[DOMAIN s]
  BY DEF PushAll, FoldLeft, MapThenFoldSet, Pushes
<1> DEFINE h == CHOOSE h : Pushes(h, m, s, F)
<1>2. Pushes(h, m, s, F) /\ PushAll(m, s) = h[DOMAIN s]
  BY <1>1
<1> QED
  BY <1>2

LEMMA RolloutPushed ==
  ASSUME NEW m, NEW s \in Seq(Transition)
  PROVE  \E g : /\ PushAll(m, s) = g[Len(s)]
                /\ g[0] = m
                /\ \A k \in 0..(Len(s) - 1) : g[k + 1] = Push(g[k], s[k + 1])
<1> DEFINE F == SUBSET DOMAIN s
<1>1. \E h : Pushes(h, m, s, F)
  BY PushesExist
<1> HIDE DEF F
<1>2. F = SUBSET DOMAIN s
  BY DEF F
<1>8. PICK h : Pushes(h, m, s, F) /\ PushAll(m, s) = h[DOMAIN s]
  BY <1>1, <1>2, FoldPushes
<1>7. \A d \in F : h[d] = IF d = {} THEN m ELSE Push(h[d \ {Max(d)}], s[Max(d)])
  <2>1. Pushes(h, m, s, F)
    BY <1>8
  <2> QED
    BY <2>1, Zenon DEF Pushes
<1> DEFINE g == [k \in 0..Len(s) |-> h[1..k]]
<1> HIDE DEF g
<1>3. Len(s) \in Nat /\ DOMAIN s = 1..Len(s)
  OBVIOUS
<1>4. PushAll(m, s) = g[Len(s)]
  BY <1>3, <1>8 DEF g
<1>5. g[0] = m
  <2>1. 1..0 = {} /\ {} \in F
    BY DEF F
  <2>2. h[{}] = m
    BY <1>7, <2>1
  <2> QED
    BY <1>3, <2>1, <2>2 DEF g
<1>6. ASSUME NEW k \in 0..(Len(s) - 1) PROVE g[k + 1] = Push(g[k], s[k + 1])
  <2>1. k \in Nat /\ k \in 0..Len(s) /\ k + 1 \in 0..Len(s)
    BY <1>3
  <2>2. /\ 1..(k + 1) \in F /\ 1..(k + 1) # {}
        /\ (1..(k + 1)) \ {k + 1} = 1..k
    <3>1. \A i \in 1..(k + 1) : i \in 1..Len(s)
      BY <1>3, <2>1
    <3>2. k + 1 \in 1..(k + 1) /\ \A i \in 1..(k + 1) : i # k + 1 => i \in 1..k
      BY <2>1
    <3>3. \A i \in 1..k : i \in 1..(k + 1) /\ i # k + 1
      BY <2>1
    <3> QED
      BY <1>3, <3>1, <3>2, <3>3 DEF F
  <2>3. h[1..(k + 1)] = Push(h[1..k], s[k + 1])
    <3>1. Max(1..(k + 1)) = k + 1
      BY <2>1, MaxTo
    <3> QED
      BY <1>7, <2>2, <3>1
  <2> QED
    BY <2>1, <2>3 DEF g
<1> QED
  BY <1>4, <1>5, <1>6

\* The replay buffer after the first n transitions of p.
Ring(m, p, n) ==
  /\ m.slots \in [1..Capacity -> Transition \union {Zeros}]
  /\ m.ptr \in 0..(Capacity - 1)
  /\ m.size = IF n < Capacity THEN n ELSE Capacity
  /\ \A i \in 1..m.size : m.slots[((m.ptr - i) % Capacity) + 1] = p[n + 1 - i]

\* The slot i places before the next one to be written.
LEMMA SlotBefore ==
  ASSUME NEW ptr \in 0..(Capacity - 1), NEW i \in 1..Capacity
  PROVE  /\ (ptr - i) % Capacity = IF i <= ptr THEN ptr - i ELSE ptr - i + Capacity
         /\ (ptr - i) % Capacity \in 0..(Capacity - 1)
<1>1. Capacity \in Nat /\ Capacity >= 1
  BY TrainingAssumption
<1>2. CASE i <= ptr
  <2>1. ptr - i \in 0..(Capacity - 1)
    BY <1>1, <1>2
  <2>2. \A a \in 0..(Capacity - 1) : a % Capacity = a
    BY <1>1
  <2> QED
    BY <1>1, <1>2, <2>1, <2>2
<1>3. CASE ~(i <= ptr)
  <2>1. ptr - i + Capacity \in 0..(Capacity - 1)
    BY <1>1, <1>3
  <2>2. \A a \in 0..(Capacity - 1) : (a - Capacity) % Capacity = a
    BY <1>1
  <2>3. (ptr - i + Capacity) - Capacity = ptr - i
    BY <1>1
  <2> QED
    BY <1>1, <1>3, <2>1, <2>2, <2>3
<1> QED
  BY <1>2, <1>3

\* A push keeps the newest transitions.
LEMMA PushKeepsRing ==
  ASSUME NEW m, NEW p, NEW n \in Nat, Ring(m, p, n), p[n + 1] \in Transition
  PROVE  Ring(Push(m, p[n + 1]), p, n + 1)
<1> DEFINE C == Capacity
           q == Push(m, p[n + 1])
           t == p[n + 1]
           ptr == m.ptr
           next == q.ptr
           Slot(at, i) == ((at - i) % C) + 1
<1>1. C \in Nat /\ C >= 1
  BY TrainingAssumption
<1>2. /\ m.slots \in [1..C -> Transition \union {Zeros}] /\ ptr \in 0..(C - 1)
      /\ m.size = IF n < C THEN n ELSE C
  BY DEF Ring
<1>10. \A i \in 1..m.size : m.slots[Slot(ptr, i)] = p[n + 1 - i]
  BY DEF Ring
<1>3. /\ q.slots = [m.slots EXCEPT ![ptr + 1] = t]
      /\ q.size = IF m.size < C THEN m.size + 1 ELSE C
  BY DEF Push
<1>11. q.ptr = (ptr + 1) % C
  BY DEF Push
<1> HIDE DEF q, ptr, next, C
<1>4. next = IF ptr + 1 < C THEN ptr + 1 ELSE 0
  <2>1. \A a \in 0..(C - 1) : a % C = a
    BY <1>1
  <2>2. C % C = 0
    BY <1>1
  <2>3. CASE ptr + 1 < C
    <3>1. ptr + 1 \in 0..(C - 1)
      BY <1>1, <1>2, <2>3
    <3> QED
      BY <1>11, <2>1, <2>3, <3>1 DEF next
  <2>4. CASE ~(ptr + 1 < C)
    <3>1. ptr + 1 = C
      BY <1>1, <1>2, <2>4
    <3> QED
      BY <1>11, <2>2, <2>4, <3>1 DEF next
  <2> QED
    BY <2>3, <2>4
<1>5. next \in 0..(C - 1)
  BY <1>1, <1>2, <1>4
<1>6. q.size = IF n + 1 < C THEN n + 1 ELSE C
  BY <1>1, <1>2, <1>3
<1>7. /\ q.slots \in [1..C -> Transition \union {Zeros}]
      /\ q.slots[ptr + 1] = t
      /\ \A k \in 1..C : k # ptr + 1 => q.slots[k] = m.slots[k]
  <2>1. ptr + 1 \in 1..C
    BY <1>1, <1>2
  <2> QED
    BY <1>2, <1>3, <2>1
<1>8. ASSUME NEW i \in 1..q.size PROVE q.slots[Slot(next, i)] = p[(n + 1) + 1 - i]
  <2>1. i \in 1..C /\ i <= n + 1 /\ i \in Nat
    BY <1>1, <1>6
  <2>2. (next - i) % C = IF i <= next THEN next - i ELSE next - i + C
    BY <1>5, <2>1, SlotBefore DEF C
  <2>3. CASE i = 1
    <3>1. Slot(next, i) = ptr + 1
      <4>1. (next - 1) % C = IF 1 <= next THEN next - 1 ELSE next - 1 + C
        BY <2>2, <2>3
      <4>2. (IF 1 <= next THEN next - 1 ELSE next - 1 + C) = ptr
        BY <1>1, <1>2, <1>4
      <4> QED
        BY <2>3, <4>1, <4>2
    <3>2. (n + 1) + 1 - i = n + 1
      BY <2>3
    <3> HIDE DEF Slot
    <3> QED
      BY <1>7, <3>1, <3>2
  <2>4. CASE i # 1
    <3>1. i - 1 \in 1..C /\ i - 1 \in 1..m.size
      BY <1>1, <1>2, <2>1, <2>4
    <3>2. /\ (ptr - (i - 1)) % C = IF i - 1 <= ptr THEN ptr - (i - 1) ELSE ptr - (i - 1) + C
          /\ (ptr - (i - 1)) % C \in 0..(C - 1)
      BY <1>2, <3>1, SlotBefore DEF C
    <3> DEFINE a == (next - i) % C
               b == (ptr - (i - 1)) % C
    <3> HIDE DEF a, b
    <3>3. a = b /\ b # ptr /\ b \in 0..(C - 1)
      <4>1. a = IF i <= next THEN next - i ELSE next - i + C
        BY <2>2 DEF a
      <4>2. /\ b = IF i - 1 <= ptr THEN ptr - (i - 1) ELSE ptr - (i - 1) + C
            /\ b \in 0..(C - 1)
        BY <3>2 DEF b
      <4> QED
        BY <1>1, <1>2, <1>4, <2>1, <2>4, <3>1, <4>1, <4>2
    <3>4. Slot(next, i) = Slot(ptr, i - 1) /\ Slot(next, i) # ptr + 1 /\ Slot(next, i) \in 1..C
      <4>1. Slot(next, i) = a + 1 /\ Slot(ptr, i - 1) = b + 1
        BY DEF a, b
      <4> HIDE DEF Slot
      <4> QED
        BY <1>1, <1>2, <3>3, <4>1
    <3>5. m.slots[Slot(ptr, i - 1)] = p[n + 1 - (i - 1)]
      BY <1>10, <3>1
    <3>6. n + 1 - (i - 1) = (n + 1) + 1 - i
      BY <2>1
    <3> HIDE DEF Slot
    <3> QED
      BY <1>7, <3>4, <3>5, <3>6
  <2> QED
    BY <2>3, <2>4
<1>9. Ring(q, p, n + 1)
  BY <1>5, <1>6, <1>7, <1>8 DEF Ring, next, C
<1> QED
  BY <1>9 DEF q

\* A rollout pushed after the first n transitions of p leaves the newest of it.
LEMMA RolloutKeepsRing ==
  ASSUME NEW m, NEW p, NEW n \in Nat, Ring(m, p, n), NEW s \in Seq(Transition),
         \A k \in 1..Len(s) : p[n + k] = s[k]
  PROVE  Ring(PushAll(m, s), p, n + Len(s))
<1>1. PICK g : /\ PushAll(m, s) = g[Len(s)]
               /\ g[0] = m
               /\ \A k \in 0..(Len(s) - 1) : g[k + 1] = Push(g[k], s[k + 1])
  BY RolloutPushed
<1>2. Len(s) \in Nat /\ \A k \in 1..Len(s) : s[k] \in Transition
  OBVIOUS
<1> DEFINE T == {k \in Nat : k <= Len(s) => Ring(g[k], p, n + k)}
<1>3. 0 \in T
  <2>1. n + 0 = n
    OBVIOUS
  <2> QED
    BY <1>1, <2>1
<1>4. ASSUME NEW k \in T PROVE k + 1 \in T
  <2>1. k \in Nat
    OBVIOUS
  <2> SUFFICES ASSUME k + 1 <= Len(s) PROVE Ring(g[k + 1], p, n + (k + 1))
    OBVIOUS
  <2>2. Ring(g[k], p, n + k)
    BY <1>2
  <2>3. k \in 0..(Len(s) - 1) /\ k + 1 \in 1..Len(s) /\ n + k \in Nat /\ n + (k + 1) = (n + k) + 1
    BY <1>2, <2>1
  <2>4. p[(n + k) + 1] = s[k + 1] /\ p[(n + k) + 1] \in Transition
    BY <1>2, <2>3
  <2> QED
    BY <1>1, <2>2, <2>3, <2>4, PushKeepsRing
<1>5. T = Nat
  <2> HIDE DEF T
  <2>1. T \in SUBSET Nat
    BY DEF T
  <2> QED
    BY <1>3, <1>4, <2>1, InductiveSet
<1> QED
  BY <1>1, <1>2, <1>5

-----------------------------------------------------------------------------
(***************************************************************************)
(* The rollout is shorter than a batch, and the replay buffer holds what   *)
(* was pushed; the agent's deques are within their bounds.                 *)
(***************************************************************************)
ReplayInv ==
  /\ EpisodeInv
  /\ Len(buffer) < Batch
  /\ Ring(memory, pushed, Len(pushed))

DequesBounded ==
  /\ agentNo <= Agents
  /\ fresh => frames = <<>>
  /\ Len(horizon) <= Horizon

TypesInv == ReplayInv /\ DequesBounded

\* An empty replay buffer is a ring that nothing was pushed into.
LEMMA EmptyRing == ASSUME NEW p PROVE Ring(EmptyMemory, p, 0)
<1>1. Capacity \in Nat /\ Capacity >= 1
  BY TrainingAssumption
<1>2. /\ EmptyMemory.slots = [i \in 1..Capacity |-> Zeros]
      /\ EmptyMemory.ptr = 0 /\ EmptyMemory.size = 0 /\ 1..0 = {}
  BY DEF EmptyMemory
<1> QED
  BY <1>1, <1>2 DEF Ring

\* What comes after the first n transitions does not matter.
LEMMA RingOfPrefix ==
  ASSUME NEW m, NEW p, NEW q, NEW n \in Nat, Ring(m, p, n), \A k \in 1..n : p[k] = q[k]
  PROVE  Ring(m, q, n)
<1>1. Capacity \in Nat /\ m.size = (IF n < Capacity THEN n ELSE Capacity)
  BY TrainingAssumption DEF Ring
<1>2. \A i \in 1..m.size : n + 1 - i \in 1..n
  BY <1>1
<1> QED
  BY <1>2 DEF Ring

\* A transition that is learnt leaves the newest in the replay buffer.
LEMMA LearnKeepsRing ==
  ASSUME ReplayInv, NEW t \in Transition, Learn(t)
  PROVE  Len(buffer') < Batch /\ Ring(memory', pushed', Len(pushed'))
<1> DEFINE rollout == Append(buffer, t)
<1>1. /\ buffer \in Seq(Transition) /\ pushed \in Seq(Transition) /\ Batch \in Nat /\ Batch >= 1
      /\ Ring(memory, pushed, Len(pushed))
  BY TrainingAssumption DEF ReplayInv, EpisodeInv, Types
<1>2. rollout \in Seq(Transition) /\ Len(rollout) \in Nat /\ Len(pushed) \in Nat
  BY <1>1
<1>3. CASE Len(rollout) < Batch
  <2>1. buffer' = rollout /\ UNCHANGED <<memory, pushed>>
    BY <1>3 DEF Learn
  <2> QED
    BY <1>1, <1>3, <2>1
<1>4. CASE ~(Len(rollout) < Batch)
  <2>1. buffer' = <<>> /\ memory' = PushAll(memory, rollout) /\ pushed' = pushed \o rollout
    BY <1>4 DEF Learn, PushAll
  <2> HIDE DEF rollout
  <2>2. /\ Len(pushed') = Len(pushed) + Len(rollout)
        /\ \A i \in 1..Len(pushed') :
             pushed'[i] = IF i <= Len(pushed) THEN pushed[i] ELSE rollout[i - Len(pushed)]
    BY <1>1, <1>2, <2>1, ConcatProperties
  <2>3. \A k \in 1..Len(pushed) : pushed[k] = pushed'[k]
    BY <1>2, <2>2
  <2>4. \A k \in 1..Len(rollout) : pushed'[Len(pushed) + k] = rollout[k]
    <3> SUFFICES ASSUME NEW k \in 1..Len(rollout) PROVE pushed'[Len(pushed) + k] = rollout[k]
      OBVIOUS
    <3>1. /\ Len(pushed) + k \in 1..Len(pushed') /\ ~(Len(pushed) + k <= Len(pushed))
          /\ (Len(pushed) + k) - Len(pushed) = k
      BY <1>2, <2>2
    <3> QED
      BY <2>2, <3>1
  <2>5. Ring(memory, pushed', Len(pushed))
    BY <1>1, <1>2, <2>3, RingOfPrefix
  <2>6. Ring(PushAll(memory, rollout), pushed', Len(pushed) + Len(rollout))
    BY <1>2, <2>4, <2>5, RolloutKeepsRing
  <2>7. Len(buffer') = 0
    BY <2>1, EmptySeq
  <2> QED
    BY <1>1, <2>1, <2>2, <2>6, <2>7
<1> QED
  BY <1>3, <1>4

\* What is learnt is a transition.
LEMMA TelemetryLearnt == ASSUME EpisodeInv, NextTelemetry PROVE \E t \in Transition : Learn(t)
<1> DEFINE next == client[1].telemetry
           done == EpisodeStart(next.window)
           t    == [from |-> Last(frames), next |-> next, done |-> done]
<1>1. Types /\ agent = "read" /\ ~fresh /\ Learn(t)
  BY DEF EpisodeInv, NextTelemetry
<1>2. next \in Telemetry /\ Last(frames) \in Window
  BY <1>1, QueueTyped, ConnectionFields, LatestTyped DEF Latest
<1>3. t \in Transition
  BY <1>2 DEF Transition, EpisodeStart
<1> QED
  BY <1>1, <1>3

\* Only a transition and a new agent change what is learnt.
LEMMA ReplayKept == ASSUME ReplayInv, [Next]_vars PROVE ReplayInv'
<1>0. EpisodeInv /\ EpisodeInv' /\ Len(buffer) < Batch /\ Ring(memory, pushed, Len(pushed))
  BY EpisodeKept DEF ReplayInv
<1>1. CASE UNCHANGED <<buffer, memory, pushed>>
  BY <1>0, <1>1 DEF ReplayInv
<1>2. CASE StartAgent
  <2>1. buffer' = <<>> /\ memory' = EmptyMemory /\ pushed' = <<>> /\ Len(<<>>) = 0 /\ 0 < Batch
    BY <1>2, EmptySeq, TrainingAssumption DEF StartAgent
  <2> QED
    BY <1>0, <2>1, EmptyRing DEF ReplayInv
<1>3. CASE NextTelemetry
  BY <1>0, <1>3, TelemetryLearnt, LearnKeepsRing DEF ReplayInv
<1> QED
  BY <1>1, <1>2, <1>3
  DEF Next, HarnessStep, AgentStep, StartHarness, StopHarness, Connect, ConnectFails,
      SendTelemetry, HandshakeEnds, KillAgent, Accept, ReadShort, FirstTelemetry, Answer, vars,
      learnerVars

(***************************************************************************)
(* The replay buffer holds the newest transitions, each once, in the order *)
(* in which samples are looked up, and nothing beyond what was pushed is   *)
(* sampled: however many rollouts have gone round the ring.                *)
(***************************************************************************)
THEOREM ReplayHoldsNewest == Spec => []ReplayIsNewest
<1>1. Init => ReplayInv
  <2> SUFFICES ASSUME Init PROVE ReplayInv
    OBVIOUS
  <2>1. buffer = <<>> /\ memory = EmptyMemory /\ pushed = <<>> /\ Len(<<>>) = 0 /\ 0 < Batch
    BY EmptySeq, TrainingAssumption DEF Init
  <2> QED
    BY <2>1, EmptyRing, EpisodeInitial DEF ReplayInv
<1>2. ReplayInv /\ [Next]_vars => ReplayInv'
  BY ReplayKept
<1>3. ReplayInv => ReplayIsNewest
  BY DEF ReplayInv, Ring, ReplayIsNewest
<1> QED
  BY <1>1, <1>2, <1>3, PTL DEF Spec

\* A new episode empties the reward's look-back, the next window adds to it
\* and drops the oldest.
LEMMA LookBackBounded ==
  ASSUME Types, NEW w \in Window, NewEpisode(w) \/ SameEpisode(w)
  PROVE  Len(horizon') <= Horizon
<1>1. Horizon \in Nat /\ Horizon >= 1 /\ horizon \in Seq(Window)
  BY TrainingAssumption DEF Types
<1>2. CASE NewEpisode(w)
  BY <1>1, <1>2, EmptySeq DEF NewEpisode
<1>3. CASE SameEpisode(w)
  <2> DEFINE h == Append(horizon, w)
             a == IF Len(h) > Horizon THEN Len(h) - Horizon + 1 ELSE 1
  <2>1. h \in Seq(Window) /\ Len(h) \in Nat
    BY <1>1
  <2>2. horizon' = SubSeq(h, a, Len(h))
    BY <1>3 DEF SameEpisode, Newest
  <2> HIDE DEF h
  <2>3. a \in 1..(Len(h) + 1)
    BY <1>1, <2>1
  <2>4. Len(SubSeq(h, a, Len(h))) = IF a <= Len(h) THEN Len(h) - a + 1 ELSE 0
    BY <2>1, <2>3, SubSeqProperties
  <2> QED
    BY <1>1, <2>1, <2>2, <2>4
<1> QED
  BY <1>2, <1>3

\* Steps keep the bounds.
LEMMA TypesKept == ASSUME TypesInv, [Next]_vars PROVE TypesInv'
<1>0. ReplayInv' /\ Types /\ agentNo \in Nat /\ Agents \in Nat /\ DequesBounded
  BY ReplayKept, TrainingAssumption DEF TypesInv, ReplayInv, EpisodeInv, Types
<1>1. CASE UNCHANGED <<agentNo, fresh, frames, horizon>>
  BY <1>0, <1>1 DEF TypesInv, DequesBounded
<1>2. CASE StartAgent
  <2>1. agentNo < Agents /\ agentNo' = agentNo + 1 /\ frames' = <<>> /\ horizon' = <<>> /\ Len(<<>>) = 0
    BY <1>2, EmptySeq DEF StartAgent
  <2> QED
    BY <1>0, <2>1, TrainingAssumption DEF TypesInv, DequesBounded
<1>3. CASE FirstTelemetry \/ NextTelemetry
  <2> DEFINE w == WindowOf(client[1])
  <2>1. w \in Window
    BY <1>0, <1>3, QueueTyped DEF FirstTelemetry, NextTelemetry
  <2>2. UNCHANGED agentNo /\ ~fresh' /\ (NewEpisode(w) \/ SameEpisode(w))
    BY <1>3 DEF FirstTelemetry, NextTelemetry, WindowOf
  <2> HIDE DEF w
  <2> QED
    BY <1>0, <2>1, <2>2, LookBackBounded DEF TypesInv, DequesBounded
<1> QED
  BY <1>1, <1>2, <1>3
  DEF Next, HarnessStep, AgentStep, StartHarness, StopHarness, Connect, ConnectFails,
      SendTelemetry, HandshakeEnds, KillAgent, Accept, ReadShort, Answer, vars, learnerVars

(***************************************************************************)
(* Every variable has its type: at most one connection is served, the      *)
(* frame stack is full or empty, and the look-back, the rollout and the    *)
(* replay buffer stay within their sizes.                                  *)
(***************************************************************************)
THEOREM TrainingTyped == Spec => []TypeOK
<1>1. Init => TypesInv
  <2> SUFFICES ASSUME Init PROVE TypesInv
    OBVIOUS
  <2>1. buffer = <<>> /\ memory = EmptyMemory /\ pushed = <<>> /\ Len(<<>>) = 0 /\ 0 < Batch
    BY EmptySeq, TrainingAssumption DEF Init
  <2>2. DequesBounded
    BY EmptySeq, TrainingAssumption DEF Init, DequesBounded
  <2> QED
    BY <2>1, <2>2, EmptyRing, EpisodeInitial DEF TypesInv, ReplayInv
<1>2. TypesInv /\ [Next]_vars => TypesInv'
  BY TypesKept
<1>3. TypesInv => TypeOK
  <2> SUFFICES ASSUME TypesInv PROVE TypeOK
    OBVIOUS
  <2>1. Types /\ DequesBounded /\ Len(buffer) < Batch /\ Ring(memory, pushed, Len(pushed))
    BY DEF TypesInv, ReplayInv, EpisodeInv
  <2>2. Len(frames) = IF fresh THEN 0 ELSE K
    BY <2>1, EmptySeq DEF Types, DequesBounded
  <2>3. server \in 0..Agents /\ agentNo \in 0..Agents
    BY <2>1, TrainingAssumption DEF Types, DequesBounded
  <2>4. /\ memory.slots \in Seq(Transition \union {Zeros}) /\ Len(memory.slots) = Capacity
        /\ memory.ptr \in 0..(Capacity - 1) /\ memory.size \in 0..Capacity
    <3>1. /\ memory.slots \in [1..Capacity -> Transition \union {Zeros}]
          /\ memory.ptr \in 0..(Capacity - 1)
          /\ memory.size = IF Len(pushed) < Capacity THEN Len(pushed) ELSE Capacity
      BY <2>1 DEF Ring
    <3>2. Capacity \in Nat /\ Len(pushed) \in Nat
      BY <2>1, TrainingAssumption DEF Types
    <3>3. memory.slots \in Seq(Transition \union {Zeros}) /\ Len(memory.slots) = Capacity
      BY <3>1, <3>2
    <3> QED
      BY <3>1, <3>2, <3>3
  <2> QED
    BY <2>1, <2>2, <2>3, <2>4 DEF TypeOK, Types, DequesBounded
<1> QED
  BY <1>1, <1>2, <1>3, PTL DEF Spec

=============================================================================
