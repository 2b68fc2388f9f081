----------------------------- MODULE UdpSession -----------------------------
(***************************************************************************)
(* The session protocol between a UDP sender and the receiver daemon       *)
(* (socket_engine.cpp, udp_sender.py).  A sender process runs one session  *)
(* after another: START until an ACK comes, the packets, END three times;  *)
(* after the last one BATCH_END three times.  The daemon serves every      *)
(* sender process that comes along.                                        *)
(*                                                                         *)
(* Network: datagrams are lost and duplicated but, as on the testbed's one *)
(* link, not reordered.  A datagram's fate is decided when it is sent.     *)
(* The ACKs that will reach the sender's socket are those in `acks', in    *)
(* the buffer or on their way; ACKs to a closed socket are dropped.        *)
(*                                                                         *)
(* Time: a sender may time out at any moment while it waits.  Its pause    *)
(* after a session is assumed long enough for the daemon to have answered  *)
(* the session's STARTs and for the answers to have arrived.               *)
(***************************************************************************)
EXTENDS Integers, Sequences, FiniteSets

CONSTANTS
  Sessions,  \* bound: sessions started, by all sender processes together
  Packets,   \* total_packets
  Attempts,  \* handshake attempts, 10 in Python and 20 in C++
  Copies,    \* copies of ACK, END and BATCH_END
  Drains     \* TRUE: udp_sender.py, which drains its socket; FALSE: run_sender

ASSUME UdpAssumption ==
  /\ Sessions \in Nat
  /\ Packets \in Nat
  /\ Attempts \in Nat \ {0}
  /\ Copies \in Nat
  /\ Drains \in BOOLEAN

VARIABLES
  phase,     \* where the sender process is
  first,     \* first session of the current sender process
  cur,       \* session being run, or the last one run
  attempt,   \* attempt of the handshake loop
  sent,      \* datagrams sent in this phase
  acks,      \* ACKs the sender's socket has or will get, by session
  link,      \* datagrams on their way to the daemon or in its socket
  daemon,    \* where the daemon is
  header,    \* header of the open session, by its number
  got,       \* packets of the open session, as <<session, number>>
  received,  \* received_pkts
  rows,      \* the summary CSV
  ackedBy,   \* history variable: session of the ACK the sender accepted
  ended,     \* history variable: sessions of which some END was delivered
  ignored    \* history variable: sessions of packets read while idle

senderVars == <<phase, first, cur, attempt, sent, ackedBy, ended>>
daemonVars == <<daemon, header, got, received, rows, ignored>>
vars       == <<senderVars, daemonVars, acks, link>>

Session == 1..Sessions
Packet  == Session \X (1..Packets)
Message == [type : {"start", "end"}, session : Session]
             \union [type : {"data"}, packet : Packet]
             \union [type : {"batch"}]
Row     == [session : Session, got : SUBSET Packet, received : Nat, lost : 0..Packets]

TypeOK ==
  /\ phase \in {"ready", "handshake", "await", "stream", "end", "batch", "stopped"}
  /\ first \in 1..(Sessions + 1)
  /\ cur \in 0..Sessions
  /\ attempt \in 0..Attempts
  /\ sent \in Nat
  /\ acks \in Seq(Session)
  /\ link \in Seq(Message)
  /\ daemon \in {"idle", "session", "exited"}
  /\ header \in 0..Sessions
  /\ got \subseteq Packet
  /\ received \in Nat
  /\ rows \in Seq(Row)
  /\ ackedBy \in 0..Sessions
  /\ ended \subseteq Session
  /\ ignored \subseteq Session

Init ==
  /\ phase = "ready"
  /\ first = 1
  /\ cur = 0
  /\ attempt = 0
  /\ sent = 0
  /\ acks = <<>>
  /\ link = <<>>
  /\ daemon = "idle"
  /\ header = 0
  /\ got = {}
  /\ received = 0
  /\ rows = <<>>
  /\ ackedBy = 0
  /\ ended = {}
  /\ ignored = {}

-----------------------------------------------------------------------------
\* n copies of a datagram arrive: none when it is lost, two when duplicated.
\* END and BATCH_END are sent several times anyway, so for them loss is enough.
Send(m, n) == link' = link \o [i \in 1..n |-> m]

Fates == 0..2

\* The assumption on the pause: no START of this process is unanswered.
Settled == \A i \in 1..Len(link) : link[i].type = "start" => link[i].session < first

\* Mutation: the Python sender does not drain its socket either.
StartSessionMut ==
  /\ phase = "ready"
  /\ cur < Sessions
  /\ Settled
  /\ cur' = cur + 1
  /\ attempt' = 0
  /\ phase' = "handshake"
  /\ UNCHANGED <<first, sent, ackedBy, ended, acks, link, daemonVars>>

\* The next session of the sweep; the Python sender empties its socket first.
StartSession ==
  /\ phase = "ready"
  /\ cur < Sessions
  /\ Settled
  /\ cur' = cur + 1
  /\ attempt' = 0
  /\ acks' = IF Drains THEN <<>> ELSE acks
  /\ phase' = "handshake"
  /\ UNCHANGED <<first, sent, ackedBy, ended, link, daemonVars>>

SendStart ==
  /\ phase = "handshake"
  /\ \E n \in Fates : Send([type |-> "start", session |-> cur], n)
  /\ attempt' = attempt + 1
  /\ phase' = "await"
  /\ UNCHANGED <<first, cur, sent, ackedBy, ended, acks, daemonVars>>

\* Any datagram with the magic of an ACK will do.
ReceiveAck ==
  /\ phase = "await"
  /\ acks # <<>>
  /\ ackedBy' = Head(acks)
  /\ acks' = Tail(acks)
  /\ sent' = 0
  /\ phase' = "stream"
  /\ UNCHANGED <<first, cur, attempt, ended, link, daemonVars>>

\* No ACK in time: another attempt, or the process gives up.
AckTimeout ==
  /\ phase = "await"
  /\ phase' = IF attempt < Attempts THEN "handshake" ELSE "stopped"
  /\ UNCHANGED <<first, cur, attempt, sent, ackedBy, ended, acks, link, daemonVars>>

SendPacket ==
  /\ phase = "stream"
  /\ sent < Packets
  /\ \E n \in Fates : Send([type |-> "data", packet |-> <<cur, sent + 1>>], n)
  /\ sent' = sent + 1
  /\ UNCHANGED <<phase, first, cur, attempt, ackedBy, ended, acks, daemonVars>>

StreamDone ==
  /\ phase = "stream"
  /\ sent = Packets
  /\ sent' = 0
  /\ phase' = "end"
  /\ UNCHANGED <<first, cur, attempt, ackedBy, ended, acks, link, daemonVars>>

SendEnd ==
  /\ phase = "end"
  /\ sent < Copies
  /\ \E n \in 0..1 :
       /\ Send([type |-> "end", session |-> cur], n)
       /\ ended' = IF n = 0 THEN ended ELSE ended \union {cur}
  /\ sent' = sent + 1
  /\ UNCHANGED <<phase, first, cur, attempt, ackedBy, acks, daemonVars>>

SessionDone ==
  /\ phase = "end"
  /\ sent = Copies
  /\ phase' = "ready"
  /\ UNCHANGED <<first, cur, attempt, sent, ackedBy, ended, acks, link, daemonVars>>

\* The sweep is over.
EndBatch ==
  /\ phase = "ready"
  /\ cur >= first
  /\ sent' = 0
  /\ phase' = "batch"
  /\ UNCHANGED <<first, cur, attempt, ackedBy, ended, acks, link, daemonVars>>

SendBatchEnd ==
  /\ phase = "batch"
  /\ sent < Copies
  /\ \E n \in 0..1 : Send([type |-> "batch"], n)
  /\ sent' = sent + 1
  /\ UNCHANGED <<phase, first, cur, attempt, ackedBy, ended, acks, daemonVars>>

BatchDone ==
  /\ phase = "batch"
  /\ sent = Copies
  /\ phase' = "stopped"
  /\ UNCHANGED <<first, cur, attempt, sent, ackedBy, ended, acks, link, daemonVars>>

\* The operator interrupts the sender: the socket is closed, nothing is sent.
Interrupt ==
  /\ phase \in {"handshake", "await", "stream", "end", "ready"}
  /\ cur >= first
  /\ phase' = "stopped"
  /\ UNCHANGED <<first, cur, attempt, sent, ackedBy, ended, acks, link, daemonVars>>

\* Another sender process, on a socket of its own.
NewSender ==
  /\ phase = "stopped"
  /\ cur < Sessions
  /\ first' = cur + 1
  /\ acks' = <<>>
  /\ phase' = "ready"
  /\ UNCHANGED <<cur, attempt, sent, ackedBy, ended, link, daemonVars>>

-----------------------------------------------------------------------------
\* The daemon reads the next datagram.
Read(type) == link # <<>> /\ Head(link).type = type /\ link' = Tail(link)

\* Three ACKs to the socket the START came from; n of them arrive.
Acknowledge(s) ==
  \E n \in 0..Copies :
    acks' = IF s >= first THEN acks \o [i \in 1..n |-> s] ELSE acks

\* Mutation: any control datagram but BATCH_END opens a session.
OpenSessionMut ==
  /\ daemon = "idle"
  /\ Read("start") \/ Read("end")
  /\ daemon' = "session"
  /\ header' = Head(link).session
  /\ got' = {}
  /\ received' = 0
  /\ Acknowledge(Head(link).session)
  /\ UNCHANGED <<rows, ignored, senderVars>>

OpenSession ==
  /\ daemon = "idle"
  /\ Read("start")
  /\ daemon' = "session"
  /\ header' = Head(link).session
  /\ got' = {}
  /\ received' = 0
  /\ Acknowledge(Head(link).session)
  /\ UNCHANGED <<rows, ignored, senderVars>>

\* Between sessions packets and ENDs are ignored, and BATCH_END is logged.
ReadIdle ==
  /\ daemon = "idle"
  /\ Read("data") \/ Read("end") \/ Read("batch")
  /\ ignored' = IF Head(link).type = "data" THEN ignored \union {Head(link).packet[1]}
                                            ELSE ignored
  /\ UNCHANGED <<daemon, header, got, received, rows, acks, senderVars>>

\* Mutation: received_pkts is not advanced.
CountPacketMut ==
  /\ daemon = "session"
  /\ Read("data")
  /\ got' = got \union {Head(link).packet}
  /\ UNCHANGED <<daemon, header, received, rows, ignored, acks, senderVars>>

\* A packet is counted, whoever sent it and for the how-manieth time.
CountPacket ==
  /\ daemon = "session"
  /\ Read("data")
  /\ got' = got \union {Head(link).packet}
  /\ received' = received + 1
  /\ UNCHANGED <<daemon, header, rows, ignored, acks, senderVars>>

\* Mutation: a START inside a session closes it.
ReacknowledgeMut ==
  /\ daemon = "session"
  /\ Read("start")
  /\ daemon' = "idle"
  /\ Acknowledge(Head(link).session)
  /\ UNCHANGED <<header, got, received, rows, ignored, senderVars>>

\* A START inside a session is acknowledged, whichever session it starts.
Reacknowledge ==
  /\ daemon = "session"
  /\ Read("start")
  /\ Acknowledge(Head(link).session)
  /\ UNCHANGED <<daemonVars, senderVars>>

\* The session's row goes into the summary.
Export ==
  rows' = Append(rows,
            [session |-> header, got |-> got, received |-> received,
             lost |-> IF Packets > received THEN Packets - received ELSE 0])

\* Mutation: an END that comes before the announced number of packets is ignored.
CloseSessionMut ==
  /\ daemon = "session"
  /\ Read("end")
  /\ IF received < Packets THEN UNCHANGED <<daemon, rows>>
                           ELSE daemon' = "idle" /\ Export
  /\ UNCHANGED <<header, got, received, ignored, acks, senderVars>>

\* Any END ends the open session.
CloseSession ==
  /\ daemon = "session"
  /\ Read("end")
  /\ daemon' = "idle"
  /\ Export
  /\ UNCHANGED <<header, got, received, ignored, acks, senderVars>>

\* Mutation: BATCH_END ends the daemon wherever it arrives.
ShutDownMut ==
  /\ daemon # "exited"
  /\ Read("batch")
  /\ daemon' = "exited"
  /\ IF daemon = "session" THEN Export ELSE UNCHANGED rows
  /\ UNCHANGED <<header, got, received, ignored, acks, senderVars>>

\* BATCH_END inside a session ends the session and the daemon.
ShutDown ==
  /\ daemon = "session"
  /\ Read("batch")
  /\ daemon' = "exited"
  /\ Export
  /\ UNCHANGED <<header, got, received, ignored, acks, senderVars>>

-----------------------------------------------------------------------------
SenderStep ==
  \/ StartSession \/ SendStart \/ ReceiveAck \/ AckTimeout
  \/ SendPacket \/ StreamDone \/ SendEnd \/ SessionDone
  \/ EndBatch \/ SendBatchEnd \/ BatchDone
  \/ Interrupt \/ NewSender

DaemonStep ==
  \/ OpenSession \/ ReadIdle
  \/ CountPacket \/ Reacknowledge \/ CloseSession \/ ShutDown

Next == SenderStep \/ DaemonStep

Spec == Init /\ [][Next]_vars

\* The daemon reads what is in its socket; senders owe nobody anything.
FairSpec == Spec /\ WF_vars(DaemonStep)

-----------------------------------------------------------------------------
(***************************************************************************)
(* No session is recorded twice, and none after a later one: the second    *)
(* and third END, STARTs retried before a slow answer and senders that     *)
(* give up and come back open no session a second time.                    *)
(***************************************************************************)
OneRecordPerSession ==
  /\ \A i, j \in 1..Len(rows) : i < j => rows[i].session < rows[j].session
  /\ daemon = "session" => \A i \in 1..Len(rows) : rows[i].session < header

(***************************************************************************)
(* Packets are counted into an earlier session only if no END of that      *)
(* session, or of one in between, was delivered: all copies were lost or   *)
(* the sender gave up.                                                     *)
(***************************************************************************)
Belongs(s, packets) ==
  \A p \in packets : s <= p[1] /\ \A t \in ended : t >= s => t >= p[1]
MixedOnlyWithoutEnd ==
  /\ \A i \in 1..Len(rows) : Belongs(rows[i].session, rows[i].got)
  /\ daemon = "session" => Belongs(header, got)

(***************************************************************************)
(* BATCH_END ends the daemon only when no END of the last session was      *)
(* delivered; otherwise it keeps listening.                                *)
(***************************************************************************)
ExitOnlyWithoutEnd ==
  daemon = "exited" => \A t \in ended : t < rows[Len(rows)].session

(***************************************************************************)
(* A sender streams a session only after the daemon has acknowledged this  *)
(* session's START.  It holds of the Python sender, which drains stale     *)
(* ACKs, and not of the C++ sender ("session handshakes and ACK            *)
(* validation", socket_engine.hpp:45).                                     *)
(***************************************************************************)
HandshakePrecedesStream == phase = "stream" => ackedBy = cur

(***************************************************************************)
(* With the Python sender no packet that arrives finds the daemon idle:    *)
(* each is counted in some session.                                        *)
(***************************************************************************)
NothingIgnored == ignored = {}

(***************************************************************************)
(* The loss a row reports is never more than the packets of its session    *)
(* that are missing; duplicates and packets of later sessions can only     *)
(* hide losses.                                                            *)
(***************************************************************************)
LossNeverOverstated ==
  \A i \in 1..Len(rows) :
    rows[i].lost + Cardinality({p \in rows[i].got : p[1] = rows[i].session}) <= Packets

(***************************************************************************)
(* The daemon implements the summary: whatever is lost, duplicated, sent   *)
(* again or given up, the CSV only ever grows by rows as promised.         *)
(***************************************************************************)
RowOf(row) == [session |-> row.session, got |-> row.got, lost |-> row.lost]
Summary == INSTANCE SessionSummary WITH
             begun   <- cur,
             open    <- IF daemon = "session" THEN header ELSE 0,
             counted <- got,
             rows    <- [i \in 1..Len(rows) |-> RowOf(rows[i])]
ImplementsSummary == Summary!Spec

(***************************************************************************)
(* An END that arrives ends the session it was sent for, or the earlier    *)
(* one that swallowed it.                                                  *)
(***************************************************************************)
EndTakesEffect ==
  \A s \in Session : s \in ended ~> (daemon # "session" \/ header > s)
=============================================================================
