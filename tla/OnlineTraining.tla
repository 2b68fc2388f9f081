--------------------------- MODULE OnlineTraining ---------------------------
(***************************************************************************)
(* Training a policy on live telemetry.  Harness processes run one after   *)
(* another; at every window boundary a process connects to the agent,      *)
(* sends the window's telemetry and waits for a policy                     *)
(* (RLBridge::check_and_sync_window).  The agent serves one connection at  *)
(* a time and makes a transition of every two telemetries in a row         *)
(* (online_socket_env.py, wrappers.py, main.py, dqn_learner.py).           *)
(*                                                                         *)
(* Failures: a harness process or the agent is killed at any point, and    *)
(* either may be started again.  TCP on the loopback interface delivers    *)
(* what was sent, and tells the survivor that its peer is gone.            *)
(*                                                                         *)
(* Data: a window is its process and its number.  Telemetry is the window  *)
(* and the policy it ran under; a policy is named by the window it answers.*)
(***************************************************************************)
EXTENDS SequencesExt, Integers

CONSTANTS
  Processes,  \* bound: harness processes started
  Windows,    \* bound: windows of a process
  Agents,     \* bound: agent processes started
  RecvLimit,  \* bytes the agent reads: 60 in the environment, 40 in serve_agent
  K,          \* frames stacked
  Batch,      \* transitions gathered before an update
  Capacity,   \* capacity of the replay buffer
  Horizon     \* windows the reward strategy looks back over

ASSUME TrainingAssumption ==
  /\ Processes \in Nat
  /\ Windows \in Nat
  /\ Agents \in Nat
  /\ RecvLimit \in Nat
  /\ K \in Nat \ {0}
  /\ Batch \in Nat \ {0}
  /\ Capacity \in Nat \ {0}
  /\ Horizon \in Nat \ {0}

VARIABLES
  harness,    \* where the harness process is
  proc,       \* number of the newest harness process
  idx,        \* control_window_idx_
  inForce,    \* policy the filter runs with
  server,     \* history variable: agent process last connected to
  reply,      \* what has come back on the harness's socket
  backlog,    \* connections the agent has not accepted
  client,     \* client_socket, the connection the agent has accepted, if any
  agent,      \* where the agent process is
  agentNo,    \* number of the newest agent process
  fresh,      \* reset() has not returned yet
  frames,     \* frames, the frame stack, newest last
  horizon,    \* security_counts of the reward strategy, newest last
  buffer,     \* buffer, transitions of the rollout
  memory,     \* memory, the replay buffer
  pushed      \* history variable: transitions pushed into it, oldest first

harnessVars == <<harness, proc, idx, inForce, server>>
learnerVars == <<fresh, frames, horizon, buffer, memory, pushed>>
vars == <<harnessVars, reply, backlog, client, agent, agentNo, learnerVars>>

PayloadSize == 60

Default == <<0, 0>>       \* the policy every process starts with
Nothing == <<>>           \* replies other than a policy
Closed  == <<"closed">>

Window     == (1..Processes) \X (0..(Windows - 1))
Policy     == Window \union {Default}
Telemetry  == [window : Window, policy : Policy]
Connection == [telemetry : Telemetry, full : BOOLEAN]
Transition == [from : Window, next : Telemetry, done : BOOLEAN]

\* A slot of the replay buffer before it is used.
Zeros == [from |-> Default, next |-> [window |-> Default, policy |-> Default],
          done |-> FALSE]

TypeOK ==
  /\ harness \in {"off", "window", "send", "wait"}
  /\ proc \in 0..Processes
  /\ idx \in 0..Windows
  /\ inForce \in Policy
  /\ server \in 0..Agents
  /\ reply \in Window \union {Nothing, Closed}
  /\ backlog \in Seq(Connection)
  /\ client \in Seq(Connection) /\ Len(client) = (IF agent \in {"read", "act"} THEN 1 ELSE 0)
  /\ agent \in {"down", "accept", "read", "act"}
  /\ agentNo \in 0..Agents
  /\ fresh \in BOOLEAN
  /\ frames \in Seq(Window) /\ Len(frames) = (IF fresh THEN 0 ELSE K)
  /\ horizon \in Seq(Window) /\ Len(horizon) <= Horizon
  /\ buffer \in Seq(Transition) /\ Len(buffer) < Batch
  /\ memory.slots \in Seq(Transition \union {Zeros}) /\ Len(memory.slots) = Capacity
  /\ memory.ptr \in 0..(Capacity - 1)
  /\ memory.size \in 0..Capacity
  /\ pushed \in Seq(Transition)

\* The replay buffer of a new agent process.
EmptyMemory == [slots |-> [i \in 1..Capacity |-> Zeros], ptr |-> 0, size |-> 0]

Init ==
  /\ harness = "off"
  /\ proc = 0
  /\ idx = 0
  /\ inForce = Default
  /\ server = 0
  /\ reply = Nothing
  /\ backlog = <<>>
  /\ client = <<>>
  /\ agent = "down"
  /\ agentNo = 0
  /\ fresh = TRUE
  /\ frames = <<>>
  /\ horizon = <<>>
  /\ buffer = <<>>
  /\ memory = EmptyMemory
  /\ pushed = <<>>

-----------------------------------------------------------------------------
\* The harness still holds the other end of connection c.
Held(c) == harness \in {"send", "wait"} /\ c.telemetry.window = <<proc, idx>>

\* A new scenario of the sweep.
StartHarness ==
  /\ harness = "off"
  /\ proc < Processes
  /\ proc' = proc + 1
  /\ idx' = 0
  /\ inForce' = Default
  /\ harness' = "window"
  /\ UNCHANGED <<server, reply, backlog, client, agent, agentNo, learnerVars>>

\* The scenario is over, or the process is killed.
StopHarness ==
  /\ harness # "off"
  /\ harness' = "off"
  /\ reply' = Nothing
  /\ UNCHANGED <<proc, idx, inForce, server, backlog, client, agent, agentNo, learnerVars>>

\* A window is full and the agent can be reached.
Connect ==
  /\ harness = "window"
  /\ idx < Windows
  /\ agent # "down"
  /\ backlog' = Append(backlog,
       [telemetry |-> [window |-> <<proc, idx>>, policy |-> inForce], full |-> FALSE])
  /\ server' = agentNo
  /\ harness' = "send"
  /\ UNCHANGED <<proc, idx, inForce, reply, client, agent, agentNo, learnerVars>>

\* A window is full and the agent cannot be reached: on with the next one.
ConnectFails ==
  /\ harness = "window"
  /\ idx < Windows
  /\ agent = "down"
  /\ idx' = idx + 1
  /\ UNCHANGED <<harness, proc, inForce, server, reply, backlog, client, agent, agentNo,
                 learnerVars>>

Delivered(conns) ==
  [i \in DOMAIN conns |-> IF Held(conns[i]) THEN [conns[i] EXCEPT !.full = TRUE]
                                            ELSE conns[i]]

SendTelemetry ==
  /\ harness = "send"
  /\ backlog' = Delivered(backlog)
  /\ client' = Delivered(client)
  /\ harness' = "wait"
  /\ UNCHANGED <<proc, idx, inForce, server, reply, agent, agentNo, learnerVars>>

\* read returns: with a policy, which is installed, or without one.
HandshakeEnds ==
  /\ harness = "wait"
  /\ reply # Nothing
  /\ inForce' = IF reply = Closed THEN inForce ELSE reply
  /\ idx' = idx + 1
  /\ reply' = Nothing
  /\ harness' = "window"
  /\ UNCHANGED <<proc, server, backlog, client, agent, agentNo, learnerVars>>

-----------------------------------------------------------------------------
StartAgent ==
  /\ agent = "down"
  /\ agentNo < Agents
  /\ agentNo' = agentNo + 1
  /\ agent' = "accept"
  /\ fresh' = TRUE
  /\ frames' = <<>>
  /\ horizon' = <<>>
  /\ buffer' = <<>>
  /\ memory' = EmptyMemory
  /\ pushed' = <<>>
  /\ UNCHANGED <<harnessVars, reply, backlog, client>>

\* All of the agent's connections go down with it.
KillAgent ==
  /\ agent # "down"
  /\ agent' = "down"
  /\ backlog' = <<>>
  /\ client' = <<>>
  /\ reply' = IF harness \in {"send", "wait"} /\ reply = Nothing THEN Closed ELSE reply
  /\ UNCHANGED <<harnessVars, agentNo, learnerVars>>

Accept ==
  /\ agent = "accept"
  /\ backlog # <<>>
  /\ client' = <<Head(backlog)>>
  /\ backlog' = Tail(backlog)
  /\ agent' = "read"
  /\ UNCHANGED <<harnessVars, reply, agentNo, learnerVars>>

\* Mutation: one byte more is asked for than is sent.
TooShortMut ==
  IF client[1].full THEN RecvLimit <= PayloadSize ELSE ~Held(client[1])

\* Mutation: the end of the stream is not looked for.
TooShortMut2 == client[1].full /\ RecvLimit < PayloadSize

\* What is read is not a telemetry record: the harness died before it sent
\* one, or the agent does not read as much.
TooShort ==
  IF client[1].full THEN RecvLimit < PayloadSize ELSE ~Held(client[1])

\* The connection is closed without an answer.
ReadShort ==
  /\ agent = "read"
  /\ TooShort
  /\ reply' = IF Held(client[1]) THEN Closed ELSE reply
  /\ client' = <<>>
  /\ agent' = "accept"
  /\ UNCHANGED <<harnessVars, backlog, agentNo, learnerVars>>

\* The newest n elements of s: a deque with maxlen n.
Newest(s, n) == SubSeq(s, IF Len(s) > n THEN Len(s) - n + 1 ELSE 1, Len(s))

\* Mutation: the size follows the position.
PushMut(m, t) ==
  [slots |-> [m.slots EXCEPT ![m.ptr + 1] = t],
   ptr   |-> (m.ptr + 1) % Capacity,
   size  |-> m.ptr + 1]

\* push of the replay buffer, a ring.
Push(m, t) ==
  [slots |-> [m.slots EXCEPT ![m.ptr + 1] = t],
   ptr   |-> (m.ptr + 1) % Capacity,
   size  |-> IF m.size < Capacity THEN m.size + 1 ELSE Capacity]

\* A transition goes into the rollout; a full rollout goes into the replay buffer.
Learn(t) ==
  LET rollout == Append(buffer, t) IN
  IF Len(rollout) < Batch
    THEN /\ buffer' = rollout
         /\ UNCHANGED <<memory, pushed>>
    ELSE /\ buffer' = <<>>
         /\ memory' = FoldLeft(Push, memory, rollout)
         /\ pushed' = pushed \o rollout

\* Mutation: the reward strategy is not reset.
NewEpisodeMut(w) ==
  /\ frames' = [i \in 1..K |-> w]
  /\ UNCHANGED horizon

\* The first observation of an episode is repeated to fill the stack, and the
\* reward strategy starts over.
NewEpisode(w) ==
  /\ frames' = [i \in 1..K |-> w]
  /\ horizon' = <<>>

SameEpisode(w) ==
  /\ frames' = Append(Tail(frames), w)
  /\ horizon' = Newest(Append(horizon, w), Horizon)

\* reset() returns with whatever telemetry comes first.
FirstTelemetry ==
  /\ agent = "read"
  /\ client[1].full /\ ~TooShort
  /\ fresh
  /\ NewEpisode(client[1].telemetry.window)
  /\ fresh' = FALSE
  /\ agent' = "act"
  /\ UNCHANGED <<harnessVars, reply, backlog, client, agentNo, buffer, memory, pushed>>

\* Mutation: the marker is taken after the index is advanced.
EpisodeStartMut(w) == w[2] = 1

\* episode_start of the telemetry of window w.
EpisodeStart(w) == w[2] = 0

\* step() returns: episode_start tells whether the episode goes on.
NextTelemetry ==
  /\ agent = "read"
  /\ client[1].full /\ ~TooShort
  /\ ~fresh
  /\ LET next == client[1].telemetry
         done == EpisodeStart(next.window)
     IN /\ Learn([from |-> Last(frames), next |-> next, done |-> done])
        /\ IF done THEN NewEpisode(next.window) ELSE SameEpisode(next.window)
  /\ agent' = "act"
  /\ UNCHANGED <<harnessVars, reply, backlog, client, agentNo, fresh>>

\* Mutation: the policy of the oldest frame is sent.
AnswerMut ==
  /\ agent = "act"
  /\ reply' = IF Held(client[1]) THEN Head(frames) ELSE reply
  /\ client' = <<>>
  /\ agent' = "accept"
  /\ UNCHANGED <<harnessVars, backlog, agentNo, learnerVars>>

\* The next step() begins: the policy is sent, if anyone is there to get it.
Answer ==
  /\ agent = "act"
  /\ reply' = IF Held(client[1]) THEN Last(frames) ELSE reply
  /\ client' = <<>>
  /\ agent' = "accept"
  /\ UNCHANGED <<harnessVars, backlog, agentNo, learnerVars>>

HarnessStep == SendTelemetry \/ HandshakeEnds
AgentStep   == Accept \/ ReadShort \/ FirstTelemetry \/ NextTelemetry \/ Answer

Next ==
  \/ StartHarness \/ StopHarness \/ Connect \/ ConnectFails \/ HarnessStep
  \/ StartAgent \/ KillAgent \/ AgentStep

Spec == Init /\ [][Next]_vars

\* Both processes run while they are alive; nobody has to start them, and
\* windows need not fill up.
FairSpec == Spec /\ WF_vars(HarnessStep) /\ WF_vars(AgentStep)

-----------------------------------------------------------------------------
Recorded == Range(buffer) \union Range(pushed)

(***************************************************************************)
(* No transition joins two harness processes, and none is cut in two: it   *)
(* ends an episode exactly when its two ends are of different processes,   *)
(* whichever of the two sides was killed, and when.                        *)
(***************************************************************************)
EpisodesSeparated ==
  \A t \in Recorded : t.done <=> t.from[1] # t.next.window[1]

(***************************************************************************)
(* The outcome of an action is attributed to it: inside an episode the     *)
(* next observation is the window after the one the agent answered, and    *)
(* ran under that answer.                                                  *)
(***************************************************************************)
OutcomeOfAction ==
  \A t \in Recorded :
    ~t.done => /\ t.next.window = <<t.from[1], t.from[2] + 1>>
               /\ t.next.policy = t.from

(***************************************************************************)
(* What the model sees and what its reward is averaged over are the newest *)
(* windows of one process, without a gap: nothing of an earlier process    *)
(* and nothing from before the agent was started leaks in.                 *)
(***************************************************************************)
Successive(s) ==
  \A i \in 1..(Len(s) - 1) :
    s[i + 1] \in {s[i], <<s[i][1], s[i][2] + 1>>}
HistoryIsOneEpisode ==
  /\ Successive(frames)
  /\ Successive(horizon)
  /\ horizon # <<>> => Last(horizon) = Last(frames)

(***************************************************************************)
(* The replay buffer holds the newest transitions, each once, and samples  *)
(* are drawn from them only.                                               *)
(***************************************************************************)
ReplayIsNewest ==
  /\ memory.size = IF Len(pushed) < Capacity THEN Len(pushed) ELSE Capacity
  /\ \A i \in 1..memory.size :
       memory.slots[((memory.ptr - i) % Capacity) + 1] = pushed[Len(pushed) + 1 - i]

(***************************************************************************)
(* An agent that stays up answers every telemetry: a handshake fails only  *)
(* when the agent was killed during it.  It holds of the training          *)
(* environment, which reads the whole record, and not of serve_agent       *)
(* ("maps incoming telemetry observations directly to policy action        *)
(* means", serve_agent.py:11).                                             *)
(***************************************************************************)
AgentAnswers ==
  reply = Closed => agent = "down" \/ agentNo # server

(***************************************************************************)
(* The harness, whose packet path waits for the policy, does not wait for  *)
(* ever: the agent gets to it, past the connections dead processes left in *)
(* front of it, or its death is noticed.                                   *)
(***************************************************************************)
WaitEnds == (harness = "wait") ~> (harness # "wait")
=============================================================================
