--------------------------- MODULE UdpSessionProofs ---------------------------
(***************************************************************************)
(* Proofs about the UDP session protocol, for any number of sessions,      *)
(* packets, attempts and copies.                                           *)
(*                                                                         *)
(* The argument is about the order of the datagrams in the link.  Each but *)
(* BATCH_END has a rank, its session and within the session START before   *)
(* packets before END; the link is ordered by rank, and the sender is not  *)
(* behind it.  So once the daemon has read an END nothing of its session   *)
(* is left, and what it reads in a session cannot be older than the START  *)
(* that opened it.  The same order makes the daemon an implementation of   *)
(* SessionSummary.                                                         *)
(***************************************************************************)
EXTENDS UdpSession, FiniteSetTheorems, SequenceTheorems, TLAPS

SessionOf(m) == IF m.type = "data" THEN m.packet[1] ELSE m.session

Place(type) == IF type = "start" THEN 0 ELSE IF type = "data" THEN 1 ELSE 2

Rank(m) == 4 * SessionOf(m) + Place(m.type)

Position == 1..Len(link)
Ranked   == {i \in Position : link[i].type # "batch"}

\* The rank of what the sender sends now or sent last.
SenderRank ==
  4 * cur + (IF phase \in {"handshake", "await"} THEN 0 ELSE IF phase = "stream" THEN 1 ELSE 2)

LinkOrdered ==
  /\ \A i, j \in Ranked : i <= j => Rank(link[i]) <= Rank(link[j])
  /\ \A i \in Ranked : Rank(link[i]) <= SenderRank

\* Nothing is left in the link that is older than the open session.
OpenIsOldest ==
  daemon = "session" =>
    /\ header \in Session
    /\ 4 * header <= SenderRank
    /\ \A i \in Ranked : 4 * header <= Rank(link[i])

\* Nothing that can still open a session belongs to one that has a row.
RowsBehind ==
  /\ daemon = "idle" => \A k \in 1..Len(rows) :
       \A i \in Ranked : link[i].type = "start" => rows[k].session < SessionOf(link[i])
  /\ daemon # "exited" /\ phase \in {"handshake", "await"} =>
       \A k \in 1..Len(rows) : rows[k].session < cur
  /\ \A k \in 1..Len(rows) : rows[k].session <= cur

EndInLink(t) == \E i \in Ranked : link[i].type = "end" /\ SessionOf(link[i]) = t

\* An END that was delivered is in the link, or everything of its session and
\* before has been read.
EndsSent ==
  \A t \in ended :
    /\ 4 * t + 2 <= SenderRank
    /\ EndInLink(t) \/ \A i \in Ranked : 4 * t + 2 <= Rank(link[i])

\* An END of the open session or a later one has not been read.
EndsWaiting == daemon = "session" => \A t \in ended : t >= header => EndInLink(t)

\* What has been read was sent.
ReadWasSent ==
  /\ \A p \in got : p[1] <= cur
  /\ \A k \in 1..Len(rows) : \A p \in rows[k].got : p[1] <= cur

\* A session that is run has a number, and the handshake attempts left.
TypeInv ==
  /\ TypeOK
  /\ phase \in {"handshake", "await", "stream", "end"} => cur \in Session
  /\ phase = "handshake" => attempt < Attempts

OrderInv ==
  /\ TypeInv
  /\ LinkOrdered
  /\ OpenIsOldest
  /\ RowsBehind
  /\ EndsSent
  /\ EndsWaiting
  /\ ReadWasSent
  /\ OneRecordPerSession
  /\ MixedOnlyWithoutEnd

\* What waits behind packets or an END, or is acknowledged, when every ACK is
\* of the session that is started.
OnlyCurrent == \A i \in Position : link[i].type # "batch" /\ SessionOf(link[i]) = cur

Handshake ==
  /\ \A i \in Position : link[i].type = "start" =>
       SessionOf(link[i]) < first \/ SessionOf(link[i]) = cur
  /\ phase \in {"handshake", "await"} =>
       /\ \A k \in 1..Len(acks) : acks[k] = cur
       /\ acks # <<>> =>
            daemon = "session" /\ OnlyCurrent /\ \A i \in Position : link[i].type = "start"
       /\ \A i, j \in Position :
            i < j /\ link[i].type = "start" /\ SessionOf(link[i]) = cur => link[j].type # "batch"
  /\ phase = "stream" =>
       ackedBy = cur /\ daemon = "session" /\ OnlyCurrent
         /\ \A i \in Position : link[i].type # "end"
  /\ phase = "end" => OnlyCurrent /\ daemon # "exited"

\* Packets and an END are behind nothing but their own session.
InTheirSession ==
  \A i, j \in Position : i < j /\ link[j].type \in {"data", "end"} =>
    link[i].type # "batch" /\ SessionOf(link[i]) = SessionOf(link[j])

NoneUnexpected == daemon = "idle" => \A i \in Position : link[i].type # "data"

HandshakeInv ==
  /\ Handshake
  /\ InTheirSession
  /\ NoneUnexpected
  /\ NothingIgnored
  /\ daemon = "exited" => rows # <<>>
  /\ ExitOnlyWithoutEnd

-----------------------------------------------------------------------------
(***************************************************************************)
(* Datagrams, and the link after a datagram is sent or read.               *)
(***************************************************************************)
\* What the fields of a datagram hold.
LEMMA MessageFields ==
  ASSUME NEW m \in Message, Sessions \in Nat
  PROVE  /\ m.type \in {"start", "end", "data", "batch"}
         /\ m.type \in {"start", "end"} => m.session \in Session
         /\ m.type = "data" => m.packet \in Packet /\ m.packet[1] \in Session
         /\ m.type # "batch" => SessionOf(m) \in Session
         /\ m.type = "data" => SessionOf(m) = m.packet[1]
         /\ m.type = "start" => Rank(m) = 4 * SessionOf(m)
         /\ m.type = "data" => Rank(m) = 4 * SessionOf(m) + 1
         /\ m.type = "end" => Rank(m) = 4 * SessionOf(m) + 2
<1>1. /\ m.type \in {"start", "end", "data", "batch"}
      /\ m.type \in {"start", "end"} => m.session \in Session
      /\ m.type = "data" => m.packet \in Packet
  BY DEF Message
<1>2. m.packet \in Packet => m.packet[1] \in Session
  BY DEF Packet
<1>3. Session \subseteq Int
  BY DEF Session
<1>4. /\ m.type = "data" => SessionOf(m) = m.packet[1]
      /\ m.type # "data" => SessionOf(m) = m.session
  BY DEF SessionOf
<1>5. /\ m.type = "start" => Rank(m) = 4 * SessionOf(m) + 0
      /\ m.type = "data" => Rank(m) = 4 * SessionOf(m) + 1
      /\ m.type = "end" => Rank(m) = 4 * SessionOf(m) + 2
  BY DEF Rank, Place
<1>6. m.type # "batch" => SessionOf(m) \in Session
  BY <1>1, <1>2, <1>4
<1>7. ASSUME m.type = "start" PROVE Rank(m) = 4 * SessionOf(m)
  <2>1. SessionOf(m) \in Int
    BY <1>3, <1>6, <1>7
  <2>2. Rank(m) = 4 * SessionOf(m) + 0
    BY <1>5, <1>7
  <2> QED
    BY <2>1, <2>2
<1> QED
  BY <1>1, <1>2, <1>4, <1>5, <1>6, <1>7

\* A datagram in the link.
LEMMA LinkFields ==
  ASSUME TypeOK, Sessions \in Nat, NEW i \in Position
  PROVE  /\ link[i] \in Message
         /\ i \in Nat /\ i >= 1
         /\ link[i].type \in {"start", "end", "data", "batch"}
         /\ i \in Ranked <=> link[i].type # "batch"
         /\ i \in Ranked => SessionOf(link[i]) \in Session /\ Rank(link[i]) \in Nat
         /\ link[i].type = "start" => Rank(link[i]) = 4 * SessionOf(link[i])
         /\ link[i].type = "data" => Rank(link[i]) = 4 * SessionOf(link[i]) + 1
         /\ link[i].type = "end" => Rank(link[i]) = 4 * SessionOf(link[i]) + 2
<1>1. link[i] \in Message /\ i \in Nat /\ i >= 1
  BY DEF TypeOK, Position
<1>2. i \in Ranked <=> link[i].type # "batch"
  BY DEF Ranked
<1> DEFINE m == link[i]
<1>3. m \in Message
  BY <1>1
<1> HIDE DEF m
<1>4. /\ m.type \in {"start", "end", "data", "batch"}
      /\ m.type # "batch" => SessionOf(m) \in Session
      /\ m.type = "start" => Rank(m) = 4 * SessionOf(m)
      /\ m.type = "data" => Rank(m) = 4 * SessionOf(m) + 1
      /\ m.type = "end" => Rank(m) = 4 * SessionOf(m) + 2
  BY <1>3, MessageFields
<1>5. Session \subseteq Nat
  BY DEF Session
<1>6. m.type # "batch" => Rank(m) \in Nat
  <2>1. SessionOf(m) \in Session => SessionOf(m) \in Nat
    BY <1>5
  <2> QED
    BY <1>4, <2>1
<1> QED
  BY <1>1, <1>2, <1>4, <1>6 DEF m

\* Sending puts the copies behind what is on its way.
LEMMA LinkGrows ==
  ASSUME TypeOK, NEW m \in Message, NEW n \in Nat, Send(m, n)
  PROVE  /\ link' \in Seq(Message)
         /\ Len(link) \in Nat
         /\ Len(link') = Len(link) + n
         /\ \A i \in Position : i \in Position' /\ link'[i] = link[i]
         /\ \A i \in Position' : i \in Position \/ (i > Len(link) /\ link'[i] = m)
<1> DEFINE copies == [i \in 1..n |-> m]
<1>1. copies \in Seq(Message) /\ Len(copies) = n /\ \A i \in 1..n : copies[i] = m
  OBVIOUS
<1>2. link \in Seq(Message) /\ link' = link \o copies
  BY DEF TypeOK, Send
<1> HIDE DEF copies
<1>3. /\ link \o copies \in Seq(Message)
      /\ Len(link \o copies) = Len(link) + Len(copies)
      /\ \A i \in 1..(Len(link) + Len(copies)) :
           (link \o copies)[i] = IF i <= Len(link) THEN link[i] ELSE copies[i - Len(link)]
  BY <1>1, <1>2, ConcatProperties
<1>4. link' \in Seq(Message) /\ Len(link) \in Nat /\ Len(link') = Len(link) + n
  BY <1>1, <1>2, <1>3, LenProperties
<1>5. \A i \in Position : i \in Position' /\ link'[i] = link[i]
  BY <1>1, <1>2, <1>3, <1>4 DEF Position
<1>6. ASSUME NEW i \in Position' PROVE i \in Position \/ (i > Len(link) /\ link'[i] = m)
  BY <1>1, <1>2, <1>3, <1>4 DEF Position
<1> QED
  BY <1>4, <1>5, <1>6

\* Reading takes the oldest datagram and moves the others up.
LEMMA LinkShrinks ==
  ASSUME TypeOK, NEW type, Read(type)
  PROVE  /\ link' \in Seq(Message)
         /\ 1 \in Position /\ Head(link) = link[1] /\ link[1].type = type
         /\ \A i \in Position' : i + 1 \in Position /\ i + 1 > 1 /\ link'[i] = link[i + 1]
         /\ \A i \in Position : i > 1 => i - 1 \in Position' /\ link'[i - 1] = link[i]
<1>1. link \in Seq(Message) /\ link # <<>> /\ Head(link).type = type /\ link' = Tail(link)
  BY DEF TypeOK, Read
<1>2. Len(link) \in Nat /\ Len(link) >= 1 /\ Head(link) = link[1]
  BY <1>1
<1>3. link' \in Seq(Message) /\ Len(link') = Len(link) - 1
        /\ \A i \in 1..Len(link') : link'[i] = link[i + 1]
  BY <1>1, <1>2
<1> QED
  BY <1>1, <1>2, <1>3 DEF Position

-----------------------------------------------------------------------------
(***************************************************************************)
(* Types.                                                                  *)
(***************************************************************************)
\* Acknowledging adds ACKs and nothing else.
LEMMA AcksTyped ==
  ASSUME TypeOK, NEW s \in Session, Acknowledge(s)
  PROVE  acks' \in Seq(Session)
<1>1. PICK n \in 0..Copies :
        acks' = IF s >= first THEN acks \o [i \in 1..n |-> s] ELSE acks
  BY DEF Acknowledge
<1>2. [i \in 1..n |-> s] \in Seq(Session)
  BY <1>1, UdpAssumption
<1>3. acks \in Seq(Session)
  BY DEF TypeOK
<1>4. acks \o [i \in 1..n |-> s] \in Seq(Session)
  BY <1>2, <1>3, ConcatProperties
<1> QED
  BY <1>1, <1>3, <1>4

\* An export adds one row, that of the open session.
LEMMA RowsTyped ==
  ASSUME TypeOK, header \in Session, Export
  PROVE  /\ rows' \in Seq(Row)
         /\ Len(rows) \in Nat /\ Len(rows') = Len(rows) + 1
         /\ \A k \in 1..Len(rows) : rows'[k] = rows[k]
         /\ rows'[Len(rows')].session = header /\ rows'[Len(rows')].got = got
         /\ rows'[Len(rows')].lost = IF Packets > received THEN Packets - received ELSE 0
<1> DEFINE row == [session |-> header, got |-> got, received |-> received,
                   lost |-> IF Packets > received THEN Packets - received ELSE 0]
<1>1. (IF Packets > received THEN Packets - received ELSE 0) \in 0..Packets
  BY UdpAssumption DEF TypeOK
<1>2. row \in Row
  BY <1>1 DEF TypeOK, Row
<1>3. /\ row.session = header /\ row.got = got
      /\ row.lost = IF Packets > received THEN Packets - received ELSE 0
  OBVIOUS
<1>4. rows \in Seq(Row) /\ rows' = Append(rows, row)
  BY DEF TypeOK, Export
<1> HIDE DEF row
<1>5. Len(rows) \in Nat /\ Len(rows') = Len(rows) + 1
        /\ \A k \in 1..Len(rows) : rows'[k] = rows[k]
  BY <1>4
<1>6. rows'[Len(rows')] = row /\ rows' \in Seq(Row)
  BY <1>2, <1>4
<1> QED
  BY <1>3, <1>5, <1>6

\* The types hold at the start, and every step keeps them.
LEMMA TypeInitial == Init => TypeInv
<1> SUFFICES ASSUME Init PROVE TypeInv
  OBVIOUS
<1>1. <<>> \in Seq(Session) /\ <<>> \in Seq(Message) /\ <<>> \in Seq(Row)
  BY EmptySeq
<1> QED
  BY <1>1, UdpAssumption DEF Init, TypeInv, TypeOK

LEMMA TypeKept == ASSUME TypeInv, OpenIsOldest, [Next]_vars PROVE TypeInv'
<1> USE UdpAssumption
<1>0. TypeOK
  BY DEF TypeInv
<1>1. CASE StartSession
  <2>1. <<>> \in Seq(Session)
    BY EmptySeq
  <2>2. cur + 1 \in Session /\ cur + 1 \in 0..Sessions
    BY <1>1 DEF StartSession, TypeInv, TypeOK, Session
  <2>3. acks' \in Seq(Session)
    BY <1>1, <2>1 DEF StartSession, TypeInv, TypeOK
  <2>4. attempt' \in 0..Attempts /\ attempt' < Attempts
    BY <1>1 DEF StartSession
  <2> QED
    BY <1>1, <2>2, <2>3, <2>4 DEF StartSession, TypeInv, TypeOK, daemonVars
<1>2. CASE SendStart
  <2>1. [type |-> "start", session |-> cur] \in Message
    BY <1>2 DEF SendStart, TypeInv, Message
  <2>2. link' \in Seq(Message)
    BY <1>0, <1>2, <2>1, LinkGrows DEF SendStart, Fates
  <2> QED
    BY <1>2, <2>2 DEF SendStart, TypeInv, TypeOK, daemonVars
<1>3. CASE ReceiveAck
  <2>1. Head(acks) \in Session /\ Tail(acks) \in Seq(Session)
    BY <1>3 DEF ReceiveAck, TypeInv, TypeOK
  <2>2. Session \subseteq 0..Sessions
    BY DEF Session
  <2> QED
    BY <1>3, <2>1, <2>2 DEF ReceiveAck, TypeInv, TypeOK, daemonVars
<1>4. CASE AckTimeout
  BY <1>4 DEF AckTimeout, TypeInv, TypeOK, daemonVars
<1>5. CASE SendPacket
  <2>1. sent + 1 \in 1..Packets /\ cur \in Session
    BY <1>5 DEF SendPacket, TypeInv, TypeOK
  <2>2. [type |-> "data", packet |-> <<cur, sent + 1>>] \in Message
    BY <2>1 DEF Message, Packet
  <2>3. link' \in Seq(Message)
    BY <1>0, <1>5, <2>2, LinkGrows DEF SendPacket, Fates
  <2> QED
    BY <1>5, <2>3 DEF SendPacket, TypeInv, TypeOK, daemonVars
<1>6. CASE StreamDone
  BY <1>6 DEF StreamDone, TypeInv, TypeOK, daemonVars
<1>7. CASE SendEnd
  <2>1. [type |-> "end", session |-> cur] \in Message
    BY <1>7 DEF SendEnd, TypeInv, Message
  <2>2. link' \in Seq(Message)
    BY <1>0, <1>7, <2>1, LinkGrows DEF SendEnd
  <2>3. ended' \subseteq Session
    BY <1>7 DEF SendEnd, TypeInv, TypeOK
  <2> QED
    BY <1>7, <2>2, <2>3 DEF SendEnd, TypeInv, TypeOK, daemonVars
<1>8. CASE SessionDone
  BY <1>8 DEF SessionDone, TypeInv, TypeOK, daemonVars
<1>9. CASE EndBatch
  BY <1>9 DEF EndBatch, TypeInv, TypeOK, daemonVars
<1>10. CASE SendBatchEnd
  <2>1. [type |-> "batch"] \in Message
    BY DEF Message
  <2>2. link' \in Seq(Message)
    BY <1>0, <1>10, <2>1, LinkGrows DEF SendBatchEnd
  <2> QED
    BY <1>10, <2>2 DEF SendBatchEnd, TypeInv, TypeOK, daemonVars
<1>11. CASE BatchDone
  BY <1>11 DEF BatchDone, TypeInv, TypeOK, daemonVars
<1>12. CASE Interrupt
  BY <1>12 DEF Interrupt, TypeInv, TypeOK, daemonVars
<1>13. CASE NewSender
  <2>1. <<>> \in Seq(Session)
    BY EmptySeq
  <2> QED
    BY <1>13, <2>1 DEF NewSender, TypeInv, TypeOK, daemonVars
<1> DEFINE m == link[1]
<1>20. ASSUME NEW type, Read(type)
       PROVE  /\ link' \in Seq(Message) /\ m \in Message /\ m = Head(link) /\ m.type = type
              /\ type \in {"start", "end"} => m.session \in Session
              /\ type = "data" => m.packet \in Packet /\ m.packet[1] \in Session
  BY <1>0, <1>20, LinkShrinks, LinkFields, MessageFields
<1> HIDE DEF m
<1>21. Session \subseteq 0..Sessions
  BY DEF Session
<1>14. CASE OpenSession
  <2>1. m = Head(link) /\ m.session \in Session /\ link' \in Seq(Message)
    BY <1>14, <1>20 DEF OpenSession
  <2>2. acks' \in Seq(Session)
    BY <1>0, <1>14, <2>1, AcksTyped DEF OpenSession
  <2> QED
    BY <1>14, <1>21, <2>1, <2>2 DEF OpenSession, TypeInv, TypeOK, senderVars
<1>15. CASE ReadIdle
  <2>1. m = Head(link) /\ link' \in Seq(Message)
          /\ (m.type = "data" => m.packet[1] \in Session)
    BY <1>15, <1>20 DEF ReadIdle
  <2>2. ignored' \subseteq Session
    BY <1>0, <1>15, <2>1 DEF ReadIdle, TypeOK
  <2> QED
    BY <1>15, <2>1, <2>2 DEF ReadIdle, TypeInv, TypeOK, senderVars
<1>16. CASE CountPacket
  <2>1. m = Head(link) /\ m.packet \in Packet /\ link' \in Seq(Message)
    BY <1>16, <1>20 DEF CountPacket
  <2>2. got' \subseteq Packet
    BY <1>0, <1>16, <2>1 DEF CountPacket, TypeOK
  <2> QED
    BY <1>16, <2>1, <2>2 DEF CountPacket, TypeInv, TypeOK, senderVars
<1>17. CASE Reacknowledge
  <2>1. m = Head(link) /\ m.session \in Session /\ link' \in Seq(Message)
    BY <1>17, <1>20 DEF Reacknowledge
  <2>2. acks' \in Seq(Session)
    BY <1>0, <1>17, <2>1, AcksTyped DEF Reacknowledge
  <2> QED
    BY <1>17, <2>1, <2>2 DEF Reacknowledge, TypeInv, TypeOK, senderVars, daemonVars
<1>18. CASE CloseSession
  <2>1. link' \in Seq(Message) /\ rows' \in Seq(Row)
    BY <1>0, <1>18, <1>20, RowsTyped DEF CloseSession, OpenIsOldest
  <2> QED
    BY <1>18, <2>1 DEF CloseSession, TypeInv, TypeOK, senderVars
<1>19. CASE ShutDown
  <2>1. link' \in Seq(Message) /\ rows' \in Seq(Row)
    BY <1>0, <1>19, <1>20, RowsTyped DEF ShutDown, OpenIsOldest
  <2> QED
    BY <1>19, <2>1 DEF ShutDown, TypeInv, TypeOK, senderVars
<1>22. CASE UNCHANGED vars
  BY <1>22 DEF vars, senderVars, daemonVars, TypeInv, TypeOK
<1> QED
  BY <1>1, <1>2, <1>3, <1>4, <1>5, <1>6, <1>7, <1>8, <1>9, <1>10, <1>11, <1>12, <1>13,
     <1>14, <1>15, <1>16, <1>17, <1>18, <1>19, <1>22
  DEF Next, SenderStep, DaemonStep

-----------------------------------------------------------------------------
(***************************************************************************)
(* The sender keeps the order: what it sends now is behind all it sent.    *)
(***************************************************************************)
\* A step of the sender that sends nothing.
LEMMA QuietKeepsOrder ==
  ASSUME OrderInv, TypeInv',
         UNCHANGED <<link, daemonVars, ended>>,
         cur <= cur', SenderRank <= SenderRank',
         phase' \in {"handshake", "await"} =>
           cur < cur' \/ (phase \in {"handshake", "await"} /\ cur' = cur)
  PROVE  OrderInv'
<1> USE UdpAssumption
<1>0. TypeOK
  BY DEF OrderInv, TypeInv
<1>1. Position' = Position /\ Ranked' = Ranked
  BY DEF Position, Ranked
<1>2. SenderRank \in Int /\ SenderRank' \in Int /\ cur \in Int /\ cur' \in Int /\ header \in Int
  <2>1. cur \in Int /\ cur' \in Int /\ header \in Int
    BY <1>0 DEF TypeInv, TypeOK
  <2> QED
    BY <2>1 DEF SenderRank
<1>3. \A i \in Ranked : Rank(link[i]) \in Int
  BY <1>0, LinkFields DEF Ranked
<1>4. LinkOrdered'
  BY <1>1, <1>2, <1>3 DEF LinkOrdered, OrderInv
<1>5. OpenIsOldest'
  BY <1>1, <1>2 DEF OpenIsOldest, OrderInv, daemonVars
<1>6. \A k \in 1..Len(rows) : rows[k].session \in Int
  <2>1. \A k \in 1..Len(rows) : rows[k] \in Row
    BY <1>0 DEF TypeOK
  <2> QED
    BY <2>1 DEF Row, Session
<1>7. RowsBehind'
  BY <1>1, <1>2, <1>6 DEF RowsBehind, OrderInv, daemonVars
<1>8. \A t \in ended : t \in Int
  BY <1>0 DEF TypeOK, Session
<1>9. EndsSent'
  BY <1>1, <1>2, <1>8 DEF EndsSent, EndInLink, OrderInv
<1>10. EndsWaiting'
  BY <1>1 DEF EndsWaiting, EndInLink, OrderInv, daemonVars
<1>11. \A p \in Packet : p[1] \in Int
  BY DEF Packet, Session
<1>12. \A k \in 1..Len(rows) : rows[k].got \subseteq Packet
  <2>1. \A k \in 1..Len(rows) : rows[k] \in Row
    BY <1>0 DEF TypeOK
  <2> QED
    BY <2>1 DEF Row
<1>13. got \subseteq Packet
  BY <1>0 DEF TypeOK
<1>14. ReadWasSent'
  BY <1>2, <1>11, <1>12, <1>13 DEF ReadWasSent, OrderInv, daemonVars
<1>15. OneRecordPerSession' /\ MixedOnlyWithoutEnd'
  BY DEF OneRecordPerSession, MixedOnlyWithoutEnd, Belongs, OrderInv, daemonVars
<1> QED
  BY <1>4, <1>5, <1>7, <1>9, <1>10, <1>14, <1>15 DEF OrderInv

\* A step that sends a datagram of the current session, or BATCH_END.
LEMMA SendKeepsOrder ==
  ASSUME OrderInv, TypeInv', NEW m \in Message, NEW n \in Nat, Send(m, n),
         UNCHANGED <<cur, daemonVars>>, SenderRank' = SenderRank,
         m.type # "batch" => SessionOf(m) = cur /\ Rank(m) = SenderRank,
         m.type = "start" => phase \in {"handshake", "await"},
         phase' \in {"handshake", "await"} => phase \in {"handshake", "await"},
         \/ ended' = ended
         \/ n > 0 /\ m.type = "end" /\ ended' = ended \union {cur}
  PROVE  OrderInv'
<1> USE UdpAssumption
<1>0. TypeOK /\ TypeOK'
  BY DEF OrderInv, TypeInv
<1>1. SenderRank \in Int /\ cur \in Int /\ header \in Int
  BY DEF SenderRank, OrderInv, TypeInv, TypeOK
<1>2. /\ Len(link) \in Nat /\ Len(link') = Len(link) + n
      /\ \A i \in Position : i \in Position' /\ link'[i] = link[i]
      /\ \A i \in Position' : i \in Position \/ (i > Len(link) /\ link'[i] = m)
  BY <1>0, LinkGrows
<1>3. \A i \in Ranked' :
        \/ i \in Ranked /\ link'[i] = link[i]
        \/ i > Len(link) /\ link'[i] = m /\ m.type # "batch"
  BY <1>2 DEF Ranked
<1>4. \A i \in Ranked : i \in Int /\ i <= Len(link) /\ Rank(link[i]) \in Int
  BY <1>0, LinkFields DEF Ranked, Position
<1>5. \A i \in Ranked' : i \in Int
  BY DEF Ranked, Position
<1>6. LinkOrdered'
  <2>1. \A i \in Ranked' : Rank(link'[i]) <= SenderRank
    BY <1>1, <1>3 DEF LinkOrdered, OrderInv
  <2>2. ASSUME NEW i \in Ranked', NEW j \in Ranked', i <= j
        PROVE  Rank(link'[i]) <= Rank(link'[j])
    <3>1. CASE j \in Ranked /\ link'[j] = link[j]
      <4>1. i \in Ranked /\ link'[i] = link[i]
        BY <1>2, <1>3, <1>4, <1>5, <2>2, <3>1
      <4> QED
        BY <2>2, <3>1, <4>1 DEF LinkOrdered, OrderInv
    <3>2. CASE link'[j] = m /\ m.type # "batch"
      BY <2>1, <3>2
    <3> QED
      BY <1>3, <3>1, <3>2
  <2> QED
    BY <2>1, <2>2 DEF LinkOrdered
<1>7. OpenIsOldest'
  BY <1>1, <1>3 DEF OpenIsOldest, OrderInv, daemonVars
<1>8. RowsBehind'
  <2>1. ASSUME daemon' = "idle", NEW k \in 1..Len(rows'), NEW i \in Ranked', link'[i].type = "start"
        PROVE  rows'[k].session < SessionOf(link'[i])
    <3>1. daemon = "idle" /\ rows' = rows /\ k \in 1..Len(rows)
      BY <2>1 DEF daemonVars
    <3>2. CASE i \in Ranked /\ link'[i] = link[i]
      BY <2>1, <3>1, <3>2 DEF RowsBehind, OrderInv
    <3>3. CASE link'[i] = m /\ m.type # "batch"
      BY <2>1, <3>1, <3>3 DEF RowsBehind, OrderInv
    <3> QED
      BY <1>3, <3>2, <3>3
  <2> QED
    BY <2>1 DEF RowsBehind, OrderInv, daemonVars
<1>9. \A t : EndInLink(t) => EndInLink(t)'
  BY <1>2 DEF EndInLink, Ranked
<1>10. ASSUME ended' # ended PROVE EndInLink(cur)' /\ SenderRank = 4 * cur + 2 /\ ended' = ended \union {cur}
  <2>1. n > 0 /\ m.type = "end" /\ ended' = ended \union {cur}
    BY <1>10
  <2>2. Len(link) + 1 \in Position' /\ Len(link) + 1 \notin Position
    BY <1>2, <2>1 DEF Position
  <2>3. Len(link) + 1 \in Ranked' /\ link'[Len(link) + 1] = m
    BY <1>2, <2>1, <2>2 DEF Ranked
  <2>4. Rank(m) = 4 * SessionOf(m) + 2
    BY <2>1, MessageFields
  <2> QED
    BY <2>1, <2>3, <2>4 DEF EndInLink
<1>11. \A t \in ended : t \in Int
  BY <1>0 DEF TypeOK, Session
<1>12. EndsSent'
  <2> SUFFICES ASSUME NEW t \in ended'
               PROVE  /\ 4 * t + 2 <= SenderRank'
                      /\ EndInLink(t)' \/ \A i \in Ranked' : 4 * t + 2 <= Rank(link'[i])
    BY DEF EndsSent
  <2>1. CASE t \in ended
    BY <1>1, <1>3, <1>9, <1>11, <2>1 DEF EndsSent, OrderInv
  <2>2. CASE t \notin ended
    BY <1>1, <1>10, <2>2
  <2> QED
    BY <2>1, <2>2
<1>13. EndsWaiting'
  BY <1>9, <1>10 DEF EndsWaiting, OrderInv, daemonVars
<1>14. ReadWasSent'
  BY DEF ReadWasSent, OrderInv, daemonVars
<1>15. OneRecordPerSession'
  BY DEF OneRecordPerSession, OrderInv, daemonVars
<1>16. MixedOnlyWithoutEnd'
  <2>1. \A t \in ended' : t \in ended \/ t = cur
    BY <1>10
  <2>3. \A k \in 1..Len(rows) : Belongs(rows[k].session, rows[k].got)'
    <3> SUFFICES ASSUME NEW k \in 1..Len(rows) PROVE Belongs(rows[k].session, rows[k].got)'
      OBVIOUS
    <3>1. /\ Belongs(rows[k].session, rows[k].got)
          /\ \A p \in rows[k].got : p[1] <= cur
      BY DEF MixedOnlyWithoutEnd, ReadWasSent, OrderInv
    <3>2. rows' = rows
      BY DEF daemonVars
    <3> QED
      BY <2>1, <3>1, <3>2 DEF Belongs
  <2>4. daemon = "session" => Belongs(header, got)'
    <3>1. /\ daemon = "session" => Belongs(header, got)
          /\ \A p \in got : p[1] <= cur
      BY DEF MixedOnlyWithoutEnd, ReadWasSent, OrderInv
    <3>2. header' = header /\ got' = got
      BY DEF daemonVars
    <3> QED
      BY <2>1, <3>1, <3>2 DEF Belongs
  <2> QED
    BY <2>3, <2>4 DEF MixedOnlyWithoutEnd, daemonVars
<1> QED
  BY <1>6, <1>7, <1>8, <1>12, <1>13, <1>14, <1>15, <1>16 DEF OrderInv

-----------------------------------------------------------------------------
(***************************************************************************)
(* The daemon keeps it: what it has read is older than what is left.       *)
(***************************************************************************)
\* What a read leaves, and the two parts of the invariant that it alone settles.
LEMMA ReadFacts ==
  ASSUME OrderInv, NEW type, Read(type), UNCHANGED senderVars
  PROVE  /\ 1 \in Position /\ link[1].type = type /\ Head(link) = link[1]
         /\ type # "batch" => 1 \in Ranked
         /\ \A i \in Ranked' : i + 1 \in Ranked /\ link'[i] = link[i + 1]
         /\ type # "batch" => \A i \in Ranked' : Rank(link[1]) <= Rank(link'[i])
         /\ \A t : EndInLink(t) => EndInLink(t)' \/ (type = "end" /\ t = SessionOf(link[1]))
         /\ LinkOrdered'
         /\ EndsSent'
         /\ SenderRank' = SenderRank
<1> USE UdpAssumption
<1>0. TypeOK
  BY DEF OrderInv, TypeInv
<1>1. /\ 1 \in Position /\ link[1].type = type /\ Head(link) = link[1]
      /\ \A i \in Position' : i + 1 \in Position /\ i + 1 > 1 /\ link'[i] = link[i + 1]
      /\ \A i \in Position : i > 1 => i - 1 \in Position' /\ link'[i - 1] = link[i]
  BY <1>0, LinkShrinks
<1>2. type # "batch" => 1 \in Ranked
  BY <1>1 DEF Ranked
<1>3. \A i \in Ranked' : i \in Int /\ i + 1 > 1 /\ i + 1 \in Ranked /\ link'[i] = link[i + 1]
  BY <1>1 DEF Ranked, Position
<1>4. \A i \in Ranked : i \in Int /\ i >= 1
  BY DEF Ranked, Position
<1>5. SenderRank' = SenderRank
  BY DEF SenderRank, senderVars
<1>6. LinkOrdered'
  BY <1>3, <1>5 DEF LinkOrdered, OrderInv
<1>7. type # "batch" => \A i \in Ranked' : Rank(link[1]) <= Rank(link'[i])
  BY <1>2, <1>3 DEF LinkOrdered, OrderInv
<1>8. ASSUME NEW t, EndInLink(t)
      PROVE  EndInLink(t)' \/ (type = "end" /\ t = SessionOf(link[1]))
  <2>1. PICK i \in Ranked : link[i].type = "end" /\ SessionOf(link[i]) = t
    BY <1>8 DEF EndInLink
  <2>2. CASE i = 1
    BY <1>1, <2>1, <2>2
  <2>3. CASE i # 1
    <3>1. i > 1 /\ i \in Position
      BY <1>4, <2>3 DEF Ranked
    <3>2. i - 1 \in Position' /\ link'[i - 1] = link[i]
      BY <1>1, <3>1
    <3>3. i - 1 \in Ranked' /\ link'[i - 1].type = "end" /\ SessionOf(link'[i - 1]) = t
      BY <2>1, <3>2 DEF Ranked
    <3> QED
      BY <3>3 DEF EndInLink
  <2> QED
    BY <2>2, <2>3
<1>9. EndsSent'
  <2> SUFFICES ASSUME NEW t \in ended
               PROVE  /\ 4 * t + 2 <= SenderRank
                      /\ EndInLink(t)' \/ \A i \in Ranked' : 4 * t + 2 <= Rank(link'[i])
    BY <1>5 DEF EndsSent, senderVars
  <2>1. /\ 4 * t + 2 <= SenderRank
        /\ EndInLink(t) \/ \A i \in Ranked : 4 * t + 2 <= Rank(link[i])
    BY DEF EndsSent, OrderInv
  <2>2. CASE \A i \in Ranked : 4 * t + 2 <= Rank(link[i])
    BY <1>3, <2>1, <2>2
  <2>3. CASE type = "end" /\ t = SessionOf(link[1])
    <3>1. Rank(link[1]) = 4 * t + 2
      BY <1>0, <1>1, <2>3, LinkFields
    <3> QED
      BY <1>7, <2>1, <2>3, <3>1
  <2> QED
    BY <1>8, <2>1, <2>2, <2>3
<1> QED
  BY <1>1, <1>2, <1>3, <1>5, <1>6, <1>7, <1>8, <1>9

\* A START that opens a session, the oldest that has no row.
LEMMA OpenKeepsOrder == ASSUME OrderInv, TypeInv', OpenSession PROVE OrderInv'
<1> USE UdpAssumption
<1>0. TypeOK
  BY DEF OrderInv, TypeInv
<1> DEFINE s == SessionOf(link[1])
<1>1. Read("start") /\ UNCHANGED senderVars
  BY DEF OpenSession
<1>2. /\ 1 \in Ranked /\ link[1].type = "start" /\ Head(link) = link[1]
      /\ \A i \in Ranked' : i + 1 \in Ranked /\ link'[i] = link[i + 1]
      /\ \A i \in Ranked' : Rank(link[1]) <= Rank(link'[i])
      /\ \A t : EndInLink(t) => EndInLink(t)'
      /\ LinkOrdered' /\ EndsSent' /\ SenderRank' = SenderRank
  BY <1>1, ReadFacts
<1>3. s \in Session /\ s \in Int /\ Rank(link[1]) = 4 * s
  BY <1>0, <1>2, LinkFields DEF Ranked, Session
<1>4. header' = s /\ daemon' = "session" /\ daemon = "idle" /\ got' = {} /\ rows' = rows
  BY <1>2 DEF OpenSession, SessionOf
<1>5. UNCHANGED <<cur, phase, ended>>
  BY <1>1 DEF senderVars
<1> HIDE DEF s
<1>6. OpenIsOldest'
  BY <1>2, <1>3, <1>4 DEF OpenIsOldest, LinkOrdered, OrderInv
<1>7. \A k \in 1..Len(rows) : rows[k].session < s
  BY <1>2, <1>4 DEF RowsBehind, OrderInv, s
<1>8. RowsBehind'
  BY <1>4, <1>5 DEF RowsBehind, OrderInv
<1>9. EndsWaiting'
  <2> SUFFICES ASSUME NEW t \in ended, t >= s PROVE EndInLink(t)'
    BY <1>4, <1>5 DEF EndsWaiting
  <2>1. t \in Int
    BY <1>0 DEF TypeOK, Session
  <2>2. ~ \A i \in Ranked : 4 * t + 2 <= Rank(link[i])
    BY <1>2, <1>3, <2>1
  <2> QED
    BY <1>2, <2>2 DEF EndsSent, OrderInv
<1>10. ReadWasSent'
  BY <1>4, <1>5 DEF ReadWasSent, OrderInv
<1>11. OneRecordPerSession'
  BY <1>4, <1>7 DEF OneRecordPerSession, OrderInv
<1>12. MixedOnlyWithoutEnd'
  BY <1>4, <1>5 DEF MixedOnlyWithoutEnd, Belongs, OrderInv
<1> QED
  BY <1>2, <1>6, <1>8, <1>9, <1>10, <1>11, <1>12 DEF OrderInv

\* A datagram that changes neither the open session nor the rows.
LEMMA SkipKeepsOrder ==
  ASSUME OrderInv, TypeInv', NEW type, Read(type), UNCHANGED senderVars,
         UNCHANGED <<daemon, header, got, rows>>, daemon = "session" => type # "end"
  PROVE  OrderInv'
<1>1. /\ \A i \in Ranked' : i + 1 \in Ranked /\ link'[i] = link[i + 1]
      /\ \A t : EndInLink(t) => EndInLink(t)' \/ type = "end"
      /\ LinkOrdered' /\ EndsSent' /\ SenderRank' = SenderRank
  BY ReadFacts
<1>2. UNCHANGED <<cur, phase, ended>>
  BY DEF senderVars
<1>3. OpenIsOldest' /\ RowsBehind' /\ EndsWaiting' /\ ReadWasSent'
  BY <1>1, <1>2 DEF OpenIsOldest, RowsBehind, EndsWaiting, ReadWasSent, OrderInv
<1>4. OneRecordPerSession' /\ MixedOnlyWithoutEnd'
  BY <1>2 DEF OneRecordPerSession, MixedOnlyWithoutEnd, Belongs, OrderInv
<1> QED
  BY <1>1, <1>3, <1>4 DEF OrderInv

\* A packet of the open session, or of a later one whose START was not read as one.
LEMMA CountKeepsOrder == ASSUME OrderInv, TypeInv', CountPacket PROVE OrderInv'
<1> USE UdpAssumption
<1>0. TypeOK
  BY DEF OrderInv, TypeInv
<1> DEFINE s == SessionOf(link[1])
<1>1. Read("data") /\ UNCHANGED senderVars
  BY DEF CountPacket
<1>2. /\ 1 \in Ranked /\ link[1].type = "data" /\ Head(link) = link[1]
      /\ \A i \in Ranked' : i + 1 \in Ranked /\ link'[i] = link[i + 1]
      /\ \A t : EndInLink(t) => EndInLink(t)'
      /\ LinkOrdered' /\ EndsSent' /\ SenderRank' = SenderRank
  BY <1>1, ReadFacts
<1>3. s \in Int /\ Rank(link[1]) = 4 * s + 1
  BY <1>0, <1>2, LinkFields DEF Ranked, Session
<1>4. UNCHANGED <<header, daemon, rows>> /\ daemon = "session"
        /\ \A p \in got' : p \in got \/ p[1] = s
  BY <1>2 DEF CountPacket, SessionOf
<1>5. UNCHANGED <<cur, phase, ended>>
  BY <1>1 DEF senderVars
<1> HIDE DEF s
<1>6. OpenIsOldest' /\ RowsBehind' /\ EndsWaiting'
  BY <1>2, <1>4, <1>5 DEF OpenIsOldest, RowsBehind, EndsWaiting, OrderInv
<1>7. s <= cur
  <2>1. 4 * s + 1 <= SenderRank
    BY <1>2, <1>3 DEF LinkOrdered, OrderInv
  <2> QED
    BY <1>0, <1>3, <2>1 DEF SenderRank, TypeOK
<1>8. ReadWasSent'
  BY <1>4, <1>5, <1>7 DEF ReadWasSent, OrderInv
<1>9. OneRecordPerSession'
  BY <1>4 DEF OneRecordPerSession, OrderInv
<1>10. header <= s
  <2>1. 4 * header <= 4 * s + 1 /\ header \in Int
    BY <1>0, <1>2, <1>3, <1>4 DEF OpenIsOldest, OrderInv, TypeOK
  <2> QED
    BY <1>3, <2>1
<1>11. ASSUME NEW t \in ended, t >= header PROVE t >= s
  <2>1. PICK i \in Ranked : link[i].type = "end" /\ SessionOf(link[i]) = t
    BY <1>4, <1>11 DEF EndsWaiting, EndInLink, OrderInv
  <2>2. Rank(link[1]) <= Rank(link[i])
    <3>1. 1 <= i
      BY DEF Ranked, Position
    <3> QED
      BY <1>2, <3>1 DEF LinkOrdered, OrderInv
  <2>3. Rank(link[i]) = 4 * t + 2 /\ t \in Int
    BY <1>0, <2>1, LinkFields DEF Ranked, TypeOK, Session
  <2> QED
    BY <1>3, <2>2, <2>3
<1>12. Belongs(header, got')
  BY <1>4, <1>10, <1>11 DEF Belongs, MixedOnlyWithoutEnd, OrderInv
<1>13. MixedOnlyWithoutEnd'
  BY <1>4, <1>5, <1>12 DEF MixedOnlyWithoutEnd, Belongs, OrderInv
<1> QED
  BY <1>2, <1>6, <1>8, <1>9, <1>13 DEF OrderInv

\* The end of a session, by an END or by BATCH_END.
LEMMA ExportKeepsOrder ==
  ASSUME OrderInv, TypeInv', daemon = "session", NEW type, Read(type), Export,
         UNCHANGED senderVars, UNCHANGED <<header, got>>,
         daemon' \in {"idle", "exited"}, daemon' = "idle" => type = "end"
  PROVE  OrderInv'
<1> USE UdpAssumption
<1>0. TypeOK /\ header \in Session
  BY DEF OrderInv, TypeInv, OpenIsOldest
<1> DEFINE s == SessionOf(link[1])
<1>2. /\ type # "batch" => 1 \in Ranked
      /\ link[1].type = type /\ 1 \in Position
      /\ \A i \in Ranked' : i + 1 \in Ranked /\ link'[i] = link[i + 1]
      /\ type # "batch" => \A i \in Ranked' : Rank(link[1]) <= Rank(link'[i])
      /\ LinkOrdered' /\ EndsSent' /\ SenderRank' = SenderRank
  BY ReadFacts
<1>3. /\ Len(rows) \in Nat /\ Len(rows') = Len(rows) + 1
      /\ \A k \in 1..Len(rows) : rows'[k] = rows[k]
      /\ rows'[Len(rows')].session = header /\ rows'[Len(rows')].got = got
  BY <1>0, RowsTyped
<1>4. UNCHANGED <<cur, phase, ended>>
  BY DEF senderVars
<1>5. \A k \in 1..Len(rows') : k \in 1..Len(rows) \/ k = Len(rows')
  BY <1>3
<1>6. \A k \in 1..Len(rows) : rows[k].session < header
  BY DEF OneRecordPerSession, OrderInv
<1>7. header \in Int /\ cur \in Int /\ \A k \in 1..Len(rows) : rows[k].session \in Int
  <2>1. \A k \in 1..Len(rows) : rows[k] \in Row
    BY <1>0 DEF TypeOK
  <2>2. \A r \in Row : r.session \in Session
    BY DEF Row
  <2>3. Session \subseteq Int /\ header \in Int /\ cur \in Int
    BY <1>0 DEF Session, TypeOK
  <2> QED
    BY <2>1, <2>2, <2>3
<1>8. \A k \in 1..Len(rows') : rows'[k].session <= header
  BY <1>3, <1>5, <1>6, <1>7
<1>9. header <= cur /\ (phase \in {"handshake", "await"} /\ type = "end" => header < cur)
  <2>1. 4 * header <= SenderRank
    BY DEF OpenIsOldest, OrderInv
  <2>2. header <= cur
    BY <1>0, <1>7, <2>1 DEF SenderRank, TypeOK
  <2>3. ASSUME phase \in {"handshake", "await"}, type = "end" PROVE header < cur
    <3>1. Rank(link[1]) = 4 * s + 2 /\ s \in Int
      BY <1>0, <1>2, <2>3, LinkFields DEF Ranked, Session
    <3>2. SenderRank = 4 * cur
      BY <1>7, <2>3 DEF SenderRank
    <3>3. 4 * header <= Rank(link[1]) /\ Rank(link[1]) <= SenderRank
      BY <1>2, <2>3 DEF OpenIsOldest, LinkOrdered, OrderInv
    <3> HIDE DEF s
    <3> QED
      BY <1>7, <3>1, <3>2, <3>3
  <2> QED
    BY <2>2, <2>3
<1>10. RowsBehind'
  <2>1. ASSUME daemon' = "idle", NEW k \in 1..Len(rows'), NEW i \in Ranked', link'[i].type = "start"
        PROVE  rows'[k].session < SessionOf(link'[i])
    <3>1. type = "end"
      BY <2>1
    <3>2. Rank(link[1]) = 4 * s + 2 /\ s \in Int
      BY <1>0, <1>2, <3>1, LinkFields DEF Ranked, Session
    <3>3. 4 * header <= Rank(link[1]) /\ Rank(link[1]) <= Rank(link'[i])
      BY <1>2, <2>1, <3>1 DEF OpenIsOldest, OrderInv
    <3>4. Rank(link'[i]) = 4 * SessionOf(link'[i]) /\ SessionOf(link'[i]) \in Int
      <4>1. i + 1 \in Ranked /\ link'[i] = link[i + 1]
        BY <1>2, <2>1
      <4> QED
        BY <1>0, <2>1, <4>1, LinkFields DEF Ranked, Session
    <3> HIDE DEF s
    <3>5. header < SessionOf(link'[i])
      BY <1>7, <3>2, <3>3, <3>4
    <3>6. rows'[k].session <= header /\ rows'[k].session \in Int
      BY <1>3, <1>5, <1>7, <1>8
    <3> QED
      BY <1>7, <3>4, <3>5, <3>6
  <2>2. ASSUME daemon' # "exited", phase \in {"handshake", "await"}, NEW k \in 1..Len(rows')
        PROVE  rows'[k].session < cur
    <3>1. type = "end"
      BY <2>2
    <3> QED
      BY <1>3, <1>5, <1>7, <1>8, <1>9, <2>2, <3>1
  <2>3. \A k \in 1..Len(rows') : rows'[k].session <= cur
    BY <1>3, <1>5, <1>7, <1>8, <1>9
  <2> QED
    BY <1>4, <2>1, <2>2, <2>3 DEF RowsBehind
<1>11. ReadWasSent'
  BY <1>3, <1>4, <1>5 DEF ReadWasSent, OrderInv
<1>12. OneRecordPerSession'
  <2>1. ASSUME NEW i \in 1..Len(rows'), NEW j \in 1..Len(rows'), i < j
        PROVE  rows'[i].session < rows'[j].session
    <3>1. i \in 1..Len(rows)
      BY <1>3, <1>5, <2>1
    <3> QED
      BY <1>3, <1>5, <1>6, <2>1, <3>1 DEF OneRecordPerSession, OrderInv
  <2> QED
    BY <2>1 DEF OneRecordPerSession
<1>13. MixedOnlyWithoutEnd'
  <2>1. ASSUME NEW k \in 1..Len(rows') PROVE Belongs(rows'[k].session, rows'[k].got)
    BY <1>3, <1>5, <2>1 DEF MixedOnlyWithoutEnd, OrderInv
  <2> QED
    BY <1>4, <2>1 DEF MixedOnlyWithoutEnd, Belongs
<1>14. OpenIsOldest' /\ EndsWaiting'
  BY DEF OpenIsOldest, EndsWaiting
<1> QED
  BY <1>2, <1>10, <1>11, <1>12, <1>13, <1>14 DEF OrderInv

-----------------------------------------------------------------------------
\* The order holds at the start, and every step keeps it.
LEMMA OrderInitial == Init => OrderInv
<1> SUFFICES ASSUME Init PROVE OrderInv
  OBVIOUS
<1>1. Position = {} /\ 1..Len(rows) = {}
  BY EmptySeq DEF Init, Position
<1>2. LinkOrdered /\ OpenIsOldest /\ RowsBehind
  BY <1>1 DEF Init, LinkOrdered, OpenIsOldest, RowsBehind, Ranked
<1>3. EndsSent /\ EndsWaiting /\ ReadWasSent
  BY <1>1 DEF Init, EndsSent, EndsWaiting, ReadWasSent
<1>4. OneRecordPerSession /\ MixedOnlyWithoutEnd
  BY <1>1 DEF Init, OneRecordPerSession, MixedOnlyWithoutEnd
<1> QED
  BY <1>2, <1>3, <1>4, TypeInitial DEF OrderInv

LEMMA OrderKept == ASSUME OrderInv, [Next]_vars PROVE OrderInv'
<1> USE UdpAssumption
<1>0. TypeInv /\ TypeInv' /\ TypeOK /\ cur \in Int
  <2>1. TypeInv /\ OpenIsOldest
    BY DEF OrderInv
  <2>2. TypeInv'
    BY <2>1, TypeKept
  <2> QED
    BY <2>1, <2>2 DEF TypeInv, TypeOK
<1>1. CASE StartSession
  BY <1>0, <1>1, QuietKeepsOrder DEF StartSession, SenderRank, daemonVars
<1>2. CASE SendStart
  <2> DEFINE m == [type |-> "start", session |-> cur]
  <2>1. m \in Message /\ m.type = "start" /\ SessionOf(m) = cur
    BY <1>0, <1>2 DEF SendStart, TypeInv, Message, SessionOf
  <2>2. PICK n \in Fates : Send(m, n)
    BY <1>2 DEF SendStart
  <2>3. n \in Nat
    BY DEF Fates
  <2>4. Rank(m) = 4 * SessionOf(m)
    BY <2>1, MessageFields
  <2> HIDE DEF m
  <2>5. Rank(m) = SenderRank /\ SenderRank' = SenderRank
    BY <1>0, <1>2, <2>1, <2>4 DEF SendStart, SenderRank
  <2> QED
    BY <1>0, <1>2, <2>1, <2>2, <2>3, <2>5, SendKeepsOrder DEF SendStart
<1>3. CASE ReceiveAck
  BY <1>0, <1>3, QuietKeepsOrder DEF ReceiveAck, SenderRank, daemonVars
<1>4. CASE AckTimeout
  BY <1>0, <1>4, QuietKeepsOrder DEF AckTimeout, SenderRank, daemonVars
<1>5. CASE SendPacket
  <2> DEFINE m == [type |-> "data", packet |-> <<cur, sent + 1>>]
  <2>1. m \in Message /\ m.type = "data" /\ SessionOf(m) = cur
    <3>1. sent + 1 \in 1..Packets /\ cur \in Session
      BY <1>0, <1>5 DEF SendPacket, TypeInv, TypeOK
    <3> QED
      BY <3>1 DEF Message, Packet, SessionOf
  <2>2. PICK n \in Fates : Send(m, n)
    BY <1>5 DEF SendPacket
  <2>3. n \in Nat
    BY DEF Fates
  <2>4. Rank(m) = 4 * SessionOf(m) + 1
    BY <2>1, MessageFields
  <2> HIDE DEF m
  <2>5. Rank(m) = SenderRank /\ SenderRank' = SenderRank
    BY <1>0, <1>5, <2>1, <2>4 DEF SendPacket, SenderRank
  <2> QED
    BY <1>0, <1>5, <2>1, <2>2, <2>3, <2>5, SendKeepsOrder DEF SendPacket
<1>6. CASE StreamDone
  BY <1>0, <1>6, QuietKeepsOrder DEF StreamDone, SenderRank, daemonVars
<1>7. CASE SendEnd
  <2> DEFINE m == [type |-> "end", session |-> cur]
  <2>1. m \in Message /\ m.type = "end" /\ SessionOf(m) = cur
    BY <1>0, <1>7 DEF SendEnd, TypeInv, Message, SessionOf
  <2>2. PICK n \in 0..1 : Send(m, n) /\ ended' = IF n = 0 THEN ended ELSE ended \union {cur}
    BY <1>7 DEF SendEnd
  <2>3. n \in Nat /\ (n = 0 \/ n > 0)
    OBVIOUS
  <2>4. Rank(m) = 4 * SessionOf(m) + 2
    BY <2>1, MessageFields
  <2> HIDE DEF m
  <2>5. Rank(m) = SenderRank /\ SenderRank' = SenderRank
    BY <1>0, <1>7, <2>1, <2>4 DEF SendEnd, SenderRank
  <2> QED
    BY <1>0, <1>7, <2>1, <2>2, <2>3, <2>5, SendKeepsOrder DEF SendEnd
<1>8. CASE SessionDone
  BY <1>0, <1>8, QuietKeepsOrder DEF SessionDone, SenderRank, daemonVars
<1>9. CASE EndBatch
  BY <1>0, <1>9, QuietKeepsOrder DEF EndBatch, SenderRank, daemonVars
<1>10. CASE SendBatchEnd
  <2> DEFINE m == [type |-> "batch"]
  <2>1. m \in Message /\ m.type = "batch"
    BY DEF Message
  <2>2. PICK n \in 0..1 : Send(m, n)
    BY <1>10 DEF SendBatchEnd
  <2>3. n \in Nat
    OBVIOUS
  <2>4. SenderRank' = SenderRank
    BY <1>10 DEF SendBatchEnd, SenderRank
  <2> HIDE DEF m
  <2> QED
    BY <1>0, <1>10, <2>1, <2>2, <2>3, <2>4, SendKeepsOrder DEF SendBatchEnd
<1>11. CASE BatchDone
  BY <1>0, <1>11, QuietKeepsOrder DEF BatchDone, SenderRank, daemonVars
<1>12. CASE Interrupt
  BY <1>0, <1>12, QuietKeepsOrder DEF Interrupt, SenderRank, daemonVars
<1>13. CASE NewSender
  BY <1>0, <1>13, QuietKeepsOrder DEF NewSender, SenderRank, daemonVars
<1>14. CASE OpenSession
  BY <1>0, <1>14, OpenKeepsOrder
<1>15. CASE ReadIdle
  BY <1>0, <1>15, SkipKeepsOrder DEF ReadIdle
<1>16. CASE CountPacket
  BY <1>0, <1>16, CountKeepsOrder
<1>17. CASE Reacknowledge
  BY <1>0, <1>17, SkipKeepsOrder DEF Reacknowledge, daemonVars
<1>18. CASE CloseSession
  BY <1>0, <1>18, ExportKeepsOrder DEF CloseSession
<1>19. CASE ShutDown
  BY <1>0, <1>19, ExportKeepsOrder DEF ShutDown
<1>20. CASE UNCHANGED vars
  BY <1>0, <1>20, QuietKeepsOrder DEF vars, senderVars, SenderRank
<1> QED
  BY <1>1, <1>2, <1>3, <1>4, <1>5, <1>6, <1>7, <1>8, <1>9, <1>10, <1>11, <1>12, <1>13,
     <1>14, <1>15, <1>16, <1>17, <1>18, <1>19, <1>20
  DEF Next, SenderStep, DaemonStep

\* The order of the link, and with it the two properties it is for.
THEOREM OrderInductive == Spec => []OrderInv
BY OrderInitial, OrderKept, PTL DEF Spec

(***************************************************************************)
(* Link, senders, daemon and summary keep their types.                     *)
(***************************************************************************)
THEOREM SessionTyped == Spec => []TypeOK
<1>1. OrderInv => TypeOK
  BY DEF OrderInv, TypeInv
<1> QED
  BY <1>1, OrderInductive, PTL

(***************************************************************************)
(* The summary has one row per session, in the order the sessions ran,     *)
(* whichever datagrams are lost or come twice and whenever senders give up.*)
(***************************************************************************)
THEOREM OneRowPerSession == Spec => []OneRecordPerSession
<1>1. OrderInv => OneRecordPerSession
  BY DEF OrderInv
<1> QED
  BY <1>1, OrderInductive, PTL

(***************************************************************************)
(* A packet is counted into an earlier session only when no END in between *)
(* was delivered.                                                          *)
(***************************************************************************)
THEOREM SessionsMixOnlyWithoutEnd == Spec => []MixedOnlyWithoutEnd
<1>1. OrderInv => MixedOnlyWithoutEnd
  BY DEF OrderInv
<1> QED
  BY <1>1, OrderInductive, PTL

-----------------------------------------------------------------------------
(***************************************************************************)
(* The handshake of the Python sender.  While it waits every ACK it has is *)
(* of the session it starts; while it streams the daemon is in a session   *)
(* and the link holds nothing but the current session.                     *)
(***************************************************************************)
\* What of the invariant a step leaves that touches neither link nor daemon.
LEMMA QuietKeepsRest ==
  ASSUME HandshakeInv, UNCHANGED <<link, daemonVars, ended>>
  PROVE  /\ Position' = Position
         /\ InTheirSession' /\ NoneUnexpected' /\ NothingIgnored'
         /\ daemon' = "exited" => rows' # <<>>
         /\ ExitOnlyWithoutEnd'
<1>1. Position' = Position
  BY DEF Position
<1>2. UNCHANGED <<daemon, rows, ignored>>
  BY DEF daemonVars
<1>3. InTheirSession' /\ NoneUnexpected' /\ NothingIgnored'
  BY <1>1, <1>2 DEF InTheirSession, NoneUnexpected, NothingIgnored, HandshakeInv
<1>4. (daemon' = "exited" => rows' # <<>>) /\ ExitOnlyWithoutEnd'
  BY <1>2 DEF ExitOnlyWithoutEnd, HandshakeInv
<1> QED
  BY <1>1, <1>3, <1>4

\* A START in the link is of the current session or an earlier one.
LEMMA StartsAreSent ==
  ASSUME OrderInv, NEW i \in Position, link[i].type # "batch"
  PROVE  SessionOf(link[i]) \in Session /\ SessionOf(link[i]) <= cur
<1>1. TypeOK /\ Sessions \in Nat
  BY UdpAssumption DEF OrderInv, TypeInv
<1>2. /\ i \in Ranked /\ SessionOf(link[i]) \in Session
      /\ \/ Rank(link[i]) = 4 * SessionOf(link[i])
         \/ Rank(link[i]) = 4 * SessionOf(link[i]) + 1
         \/ Rank(link[i]) = 4 * SessionOf(link[i]) + 2
  BY <1>1, LinkFields
<1>3. Rank(link[i]) <= SenderRank
  BY <1>2 DEF LinkOrdered, OrderInv
<1>4. SessionOf(link[i]) \in Int /\ cur \in Int
  BY <1>1, <1>2 DEF Session, TypeOK
<1> QED
  BY <1>2, <1>3, <1>4 DEF SenderRank

\* Steps of the sender that send nothing.
LEMMA QuietKeepsHandshake ==
  ASSUME Drains, OrderInv, HandshakeInv,
         \/ StartSession \/ ReceiveAck \/ AckTimeout \/ StreamDone \/ SessionDone
         \/ EndBatch \/ BatchDone \/ Interrupt \/ NewSender \/ UNCHANGED vars
  PROVE  HandshakeInv'
<1> USE UdpAssumption
<1>0. TypeOK
  BY DEF OrderInv, TypeInv
<1>1. UNCHANGED <<link, daemonVars, ended>>
  BY DEF StartSession, ReceiveAck, AckTimeout, StreamDone, SessionDone, EndBatch, BatchDone,
         Interrupt, NewSender, vars, senderVars
<1>2. Position' = Position /\ link' = link /\ daemon' = daemon
  BY <1>1, QuietKeepsRest DEF daemonVars
<1>3. cur \in Int /\ first \in Int /\ first <= Sessions + 1
  BY <1>0 DEF TypeOK
<1>4. \A i \in Position : link[i].type = "start" =>
        /\ SessionOf(link[i]) \in Int /\ SessionOf(link[i]) <= cur
        /\ SessionOf(link[i]) < first \/ SessionOf(link[i]) = cur
  BY StartsAreSent DEF Session, Handshake, HandshakeInv
<1>5. CASE StartSession
  <2>1. \A i \in Position : link[i].type = "start" => SessionOf(link[i]) < first
    BY <1>5 DEF StartSession, Settled, Position, SessionOf
  <2>2. /\ acks' = <<>> /\ Len(acks') = 0 /\ first' = first
        /\ phase' = "handshake" /\ cur' = cur + 1
    BY <1>5 DEF StartSession
  <2>3. Handshake'
    BY <1>2, <1>3, <1>4, <2>1, <2>2 DEF Handshake
  <2> QED
    BY <1>1, <2>3, QuietKeepsRest DEF HandshakeInv
<1>6. CASE ReceiveAck
  <2>1. /\ phase = "await" /\ acks # <<>> /\ phase' = "stream" /\ UNCHANGED <<first, cur>>
        /\ ackedBy' = acks[1] /\ 1 \in 1..Len(acks)
    BY <1>0, <1>6 DEF ReceiveAck, TypeOK
  <2>2. /\ ackedBy' = cur /\ daemon = "session" /\ OnlyCurrent
        /\ \A i \in Position : link[i].type = "start"
    BY <2>1 DEF Handshake, HandshakeInv
  <2>3. OnlyCurrent'
    BY <1>2, <2>1, <2>2 DEF OnlyCurrent
  <2>4. Handshake'
    BY <1>2, <1>4, <2>1, <2>2, <2>3 DEF Handshake
  <2> QED
    BY <1>1, <2>4, QuietKeepsRest DEF HandshakeInv
<1>7. CASE AckTimeout
  <2>1. /\ phase = "await" /\ phase' \in {"handshake", "stopped"}
        /\ UNCHANGED <<first, cur, acks>>
    BY <1>7 DEF AckTimeout
  <2>2. OnlyCurrent' <=> OnlyCurrent
    BY <1>2, <2>1 DEF OnlyCurrent
  <2>3. Handshake'
    BY <1>2, <2>1, <2>2 DEF Handshake, HandshakeInv
  <2> QED
    BY <1>1, <2>3, QuietKeepsRest DEF HandshakeInv
<1>8. CASE StreamDone
  <2>1. phase = "stream" /\ phase' = "end" /\ UNCHANGED <<first, cur>>
    BY <1>8 DEF StreamDone
  <2>2. OnlyCurrent' <=> OnlyCurrent
    BY <1>2, <2>1 DEF OnlyCurrent
  <2>3. Handshake'
    BY <1>2, <2>1, <2>2 DEF Handshake, HandshakeInv
  <2> QED
    BY <1>1, <2>3, QuietKeepsRest DEF HandshakeInv
<1>9. CASE SessionDone \/ EndBatch \/ BatchDone \/ Interrupt
  <2>1. phase' \in {"ready", "batch", "stopped"} /\ UNCHANGED <<first, cur>>
    BY <1>9 DEF SessionDone, EndBatch, BatchDone, Interrupt
  <2>2. Handshake'
    BY <1>2, <1>4, <2>1 DEF Handshake
  <2> QED
    BY <1>1, <2>2, QuietKeepsRest DEF HandshakeInv
<1>10. CASE NewSender
  <2>1. phase' = "ready" /\ first' = cur + 1
    BY <1>10 DEF NewSender
  <2>2. Handshake'
    BY <1>2, <1>3, <1>4, <2>1 DEF Handshake
  <2> QED
    BY <1>1, <2>2, QuietKeepsRest DEF HandshakeInv
<1>11. CASE UNCHANGED vars
  <2>1. UNCHANGED <<phase, first, cur, acks, ackedBy>>
    BY <1>11 DEF vars, senderVars
  <2>2. OnlyCurrent' <=> OnlyCurrent
    BY <1>2, <2>1 DEF OnlyCurrent
  <2>3. Handshake'
    BY <1>2, <2>1, <2>2 DEF Handshake, HandshakeInv
  <2> QED
    BY <1>1, <2>3, QuietKeepsRest DEF HandshakeInv
<1> QED
  BY <1>5, <1>6, <1>7, <1>8, <1>9, <1>10, <1>11

\* A datagram of the current session goes behind nothing but that session's.
LEMMA SendKeepsHandshake ==
  ASSUME OrderInv, HandshakeInv, SendStart \/ SendPacket \/ SendEnd \/ SendBatchEnd
  PROVE  HandshakeInv'
<1> USE UdpAssumption
<1>0. TypeOK /\ cur \in Int
  BY DEF OrderInv, TypeInv, TypeOK
<1>1. UNCHANGED <<daemon, rows, ignored, first, cur, acks, ackedBy>>
  BY DEF SendStart, SendPacket, SendEnd, SendBatchEnd, daemonVars
<1>2. PICK m \in Message, n \in Nat :
        /\ Send(m, n)
        /\ \/ SendStart /\ m.type = "start" /\ phase = "handshake" /\ phase' = "await"
           \/ SendPacket /\ m.type = "data" /\ phase = "stream" /\ phase' = "stream"
           \/ SendEnd /\ m.type = "end" /\ phase = "end" /\ phase' = "end"
           \/ SendBatchEnd /\ m.type = "batch" /\ phase' = "batch"
        /\ m.type # "batch" => SessionOf(m) = cur
  <2>1. CASE SendStart
    <3>1. PICK n \in Nat : Send([type |-> "start", session |-> cur], n)
      BY <2>1 DEF SendStart, Fates
    <3>2. [type |-> "start", session |-> cur] \in Message
      BY <2>1 DEF SendStart, OrderInv, TypeInv, Message
    <3>3. /\ [type |-> "start", session |-> cur].type = "start"
          /\ SessionOf([type |-> "start", session |-> cur]) = cur
      BY DEF SessionOf
    <3> QED
      BY <2>1, <3>1, <3>2, <3>3 DEF SendStart
  <2>2. CASE SendPacket
    <3> DEFINE p == [type |-> "data", packet |-> <<cur, sent + 1>>]
    <3>1. PICK n \in Nat : Send(p, n)
      BY <2>2 DEF SendPacket, Fates
    <3>2. sent + 1 \in 1..Packets /\ cur \in Session
      BY <1>0, <2>2 DEF SendPacket, OrderInv, TypeInv, TypeOK
    <3>3. p \in Message /\ p.type = "data" /\ SessionOf(p) = cur
      BY <3>2 DEF Message, Packet, SessionOf
    <3> HIDE DEF p
    <3> QED
      BY <2>2, <3>1, <3>3 DEF SendPacket
  <2>3. CASE SendEnd
    <3>1. PICK n \in Nat : Send([type |-> "end", session |-> cur], n)
      BY <2>3 DEF SendEnd
    <3>2. [type |-> "end", session |-> cur] \in Message
      BY <2>3 DEF SendEnd, OrderInv, TypeInv, Message
    <3>3. /\ [type |-> "end", session |-> cur].type = "end"
          /\ SessionOf([type |-> "end", session |-> cur]) = cur
      BY DEF SessionOf
    <3> QED
      BY <2>3, <3>1, <3>2, <3>3 DEF SendEnd
  <2>4. CASE SendBatchEnd
    <3>1. PICK n \in Nat : Send([type |-> "batch"], n)
      BY <2>4 DEF SendBatchEnd
    <3>2. [type |-> "batch"] \in Message /\ [type |-> "batch"].type = "batch"
      BY DEF Message
    <3> QED
      BY <2>4, <3>1, <3>2 DEF SendBatchEnd
  <2> QED
    BY <2>1, <2>2, <2>3, <2>4
<1>3. /\ Len(link) \in Nat
      /\ \A i \in Position : i \in Int /\ i <= Len(link)
      /\ \A i \in Position' : i \in Int
      /\ \A i \in Position' :
           \/ i \in Position /\ link'[i] = link[i]
           \/ i > Len(link) /\ link'[i] = m
  BY <1>0, <1>2, LinkGrows DEF Position
<1>4. m.type # "batch" /\ OnlyCurrent => OnlyCurrent'
  BY <1>1, <1>2, <1>3 DEF OnlyCurrent
<1>5. Handshake'
  <2>1. \A i \in Position' : link'[i].type = "start" =>
          SessionOf(link'[i]) < first' \/ SessionOf(link'[i]) = cur'
    BY <1>1, <1>2, <1>3 DEF Handshake, HandshakeInv
  <2>2. CASE m.type = "start"
    <3>1. phase = "handshake" /\ phase' = "await"
      BY <1>2, <2>2
    <3>2. \A k \in 1..Len(acks') : acks'[k] = cur'
      BY <1>1, <3>1 DEF Handshake, HandshakeInv
    <3>3. acks' # <<>> =>
            daemon' = "session" /\ OnlyCurrent' /\ \A i \in Position' : link'[i].type = "start"
      BY <1>1, <1>3, <1>4, <2>2, <3>1 DEF Handshake, HandshakeInv
    <3>4. ASSUME NEW i \in Position', NEW j \in Position',
                 i < j, link'[i].type = "start", SessionOf(link'[i]) = cur'
          PROVE  link'[j].type # "batch"
      <4>1. CASE j \in Position /\ link'[j] = link[j]
        <5>1. i \in Position /\ link'[i] = link[i]
          BY <1>3, <3>4, <4>1
        <5> QED
          BY <1>1, <3>1, <3>4, <4>1, <5>1 DEF Handshake, HandshakeInv
      <4> QED
        BY <1>3, <2>2, <4>1
    <3> QED
      BY <2>1, <3>1, <3>2, <3>3, <3>4 DEF Handshake
  <2>3. CASE m.type = "data"
    <3>1. phase = "stream" /\ phase' = "stream"
      BY <1>2, <2>3
    <3>2. /\ ackedBy = cur /\ daemon = "session" /\ OnlyCurrent'
          /\ \A i \in Position' : link'[i].type # "end"
      BY <1>3, <1>4, <2>3, <3>1 DEF Handshake, HandshakeInv
    <3> QED
      BY <1>1, <2>1, <3>1, <3>2 DEF Handshake
  <2>4. CASE m.type = "end"
    <3>1. phase = "end" /\ phase' = "end"
      BY <1>2, <2>4
    <3>2. OnlyCurrent' /\ daemon' # "exited"
      BY <1>1, <1>4, <2>4, <3>1 DEF Handshake, HandshakeInv
    <3> QED
      BY <2>1, <3>1, <3>2 DEF Handshake
  <2>5. CASE m.type = "batch"
    BY <1>2, <2>1, <2>5 DEF Handshake
  <2> QED
    BY <1>2, <2>2, <2>3, <2>4, <2>5
<1>6. m.type \in {"data", "end"} => OnlyCurrent
  BY <1>2 DEF Handshake, HandshakeInv
<1>7. InTheirSession'
  <2> SUFFICES ASSUME NEW i \in Position', NEW j \in Position',
                      i < j, link'[j].type \in {"data", "end"}
               PROVE  link'[i].type # "batch" /\ SessionOf(link'[i]) = SessionOf(link'[j])
    BY DEF InTheirSession
  <2>1. CASE j \in Position /\ link'[j] = link[j]
    <3>1. i \in Position /\ link'[i] = link[i]
      BY <1>3, <2>1
    <3> QED
      BY <2>1, <3>1 DEF InTheirSession, HandshakeInv
  <2>2. CASE link'[j] = m
    <3>1. OnlyCurrent' /\ cur' = cur
      BY <1>1, <1>4, <1>6, <2>2
    <3> QED
      BY <3>1 DEF OnlyCurrent
  <2> QED
    BY <1>3, <2>1, <2>2
<1>8. NoneUnexpected'
  <2>1. m.type = "data" => daemon = "session"
    BY <1>2 DEF Handshake, HandshakeInv
  <2> QED
    BY <1>1, <1>3, <2>1 DEF NoneUnexpected, HandshakeInv
<1>9. NothingIgnored' /\ (daemon' = "exited" => rows' # <<>>)
  BY <1>1 DEF NothingIgnored, HandshakeInv
<1>10. ExitOnlyWithoutEnd'
  <2>1. daemon = "exited" => ended' = ended
    BY <1>2 DEF Handshake, HandshakeInv, SendStart, SendPacket, SendBatchEnd
  <2> QED
    BY <1>1, <2>1 DEF ExitOnlyWithoutEnd, HandshakeInv
<1> QED
  BY <1>5, <1>7, <1>8, <1>9, <1>10 DEF HandshakeInv

\* An ACK to the sender that waits answers a START of the session it starts,
\* and behind that START there is nothing but copies of it.
LEMMA AcksAnswerCurrent ==
  ASSUME OrderInv, HandshakeInv, Read("start"), Acknowledge(SessionOf(link[1])),
         UNCHANGED senderVars, phase \in {"handshake", "await"}
  PROVE  /\ \A k \in 1..Len(acks') : acks'[k] = cur
         /\ acks' = acks \/ (OnlyCurrent' /\ \A i \in Position' : link'[i].type = "start")
<1> USE UdpAssumption
<1>0. TypeOK /\ cur \in Int /\ first \in Int
  BY DEF OrderInv, TypeInv, TypeOK
<1> DEFINE s == SessionOf(link[1])
<1>1. /\ 1 \in Position /\ link[1].type = "start"
      /\ \A i \in Position' : i + 1 \in Position /\ i + 1 > 1 /\ link'[i] = link[i + 1]
  BY <1>0, LinkShrinks
<1>2. s \in Int /\ Rank(link[1]) = 4 * s /\ (s < first \/ s = cur) /\ 1 \in Ranked
  BY <1>0, <1>1, LinkFields DEF Ranked, Session, Handshake, HandshakeInv
<1>3. PICK n \in 0..Copies :
        acks' = IF s >= first THEN acks \o [i \in 1..n |-> s] ELSE acks
  BY DEF Acknowledge
<1>4. \A k \in 1..Len(acks) : acks[k] = cur
  BY DEF Handshake, HandshakeInv
<1>5. CASE s < first
  <2>1. acks' = acks
    BY <1>0, <1>2, <1>3, <1>5
  <2> QED
    BY <1>4, <2>1
<1>6. CASE s = cur
  <2>1. \A k \in 1..Len(acks') : acks'[k] = cur
    <3>1. CASE acks' = acks
      BY <1>4, <3>1
    <3>2. CASE acks' = acks \o [i \in 1..n |-> s]
      <4> DEFINE more == [i \in 1..n |-> s]
      <4>1. more \in Seq({cur}) /\ Len(more) = n /\ \A i \in 1..n : more[i] = cur
        BY <1>6
      <4>2. acks \in Seq(Session) /\ Len(acks) \in Nat
        BY <1>0 DEF TypeOK
      <4>3. acks \in Seq({cur})
        <5>1. acks \in [1..Len(acks) -> Session]
          BY <4>2, LenProperties
        <5>2. acks \in [1..Len(acks) -> {cur}]
          BY <1>4, <5>1
        <5> QED
          BY <4>2, <5>2
      <4> HIDE DEF more
      <4>4. acks' \in Seq({cur})
        BY <3>2, <4>1, <4>3, ConcatProperties DEF more
      <4> QED
        BY <4>4, ElementOfSeq
    <3> QED
      BY <1>3, <3>1, <3>2
  <2>2. ASSUME NEW i \in Position'
        PROVE  link'[i].type = "start" /\ SessionOf(link'[i]) = cur
    <3>1. i + 1 \in Position /\ 1 < i + 1 /\ link'[i] = link[i + 1]
      BY <1>1
    <3>2. link[i + 1].type # "batch"
      BY <1>1, <1>6, <3>1 DEF Handshake, HandshakeInv
    <3>3. i + 1 \in Ranked /\ 1 <= i + 1
      BY <3>1, <3>2 DEF Ranked, Position
    <3>4. Rank(link[1]) <= Rank(link[i + 1]) /\ Rank(link[i + 1]) <= SenderRank
      BY <1>2, <3>3 DEF LinkOrdered, OrderInv
    <3>5. SenderRank = 4 * cur
      BY <1>0 DEF SenderRank
    <3>6. Rank(link[i + 1]) = 4 * cur /\ SessionOf(link[i + 1]) \in Int
      BY <1>0, <1>2, <1>6, <3>1, <3>3, <3>4, <3>5, LinkFields DEF Session
    <3>7. link[i + 1].type = "start" /\ SessionOf(link[i + 1]) = cur
      BY <1>0, <3>1, <3>2, <3>6, LinkFields
    <3> QED
      BY <3>1, <3>7
  <2>3. cur' = cur
    BY DEF senderVars
  <2> QED
    BY <2>1, <2>2, <2>3 DEF OnlyCurrent
<1> QED
  BY <1>2, <1>5, <1>6

\* What the daemon reads never surprises it.
LEMMA ReadKeepsHandshake == ASSUME OrderInv, HandshakeInv, DaemonStep PROVE HandshakeInv'
<1> USE UdpAssumption
<1>0. TypeOK
  BY DEF OrderInv, TypeInv
<1>1. PICK type :
        /\ Read(type)
        /\ UNCHANGED senderVars
        /\ \/ OpenSession /\ type = "start"
           \/ ReadIdle /\ type \in {"data", "end", "batch"}
           \/ CountPacket /\ type = "data"
           \/ Reacknowledge /\ type = "start"
           \/ CloseSession /\ type = "end"
           \/ ShutDown /\ type = "batch"
  BY DEF DaemonStep, OpenSession, ReadIdle, CountPacket, Reacknowledge, CloseSession, ShutDown
<1>2. /\ 1 \in Position /\ link[1].type = type /\ Head(link) = link[1]
      /\ \A i \in Position' : i + 1 \in Position /\ i + 1 > 1 /\ link'[i] = link[i + 1]
      /\ \A i \in Position' : i \in Int
      /\ \A i \in Position : i \in Int /\ i >= 1
  BY <1>0, <1>1, LinkShrinks DEF Position
<1>3. UNCHANGED <<phase, first, cur, ackedBy, ended>>
  BY <1>1 DEF senderVars
<1>4. OnlyCurrent => OnlyCurrent'
  BY <1>2, <1>3 DEF OnlyCurrent
<1>5. InTheirSession'
  <2> SUFFICES ASSUME NEW i \in Position', NEW j \in Position',
                      i < j, link'[j].type \in {"data", "end"}
               PROVE  link'[i].type # "batch" /\ SessionOf(link'[i]) = SessionOf(link'[j])
    BY DEF InTheirSession
  <2>1. i + 1 \in Position /\ j + 1 \in Position /\ i + 1 < j + 1
          /\ link'[i] = link[i + 1] /\ link'[j] = link[j + 1]
    BY <1>2
  <2> QED
    BY <2>1 DEF InTheirSession, HandshakeInv
<1>6. /\ CloseSession \/ ShutDown => daemon = "session" /\ daemon' # "session"
      /\ ReadIdle => daemon = "idle" /\ daemon' = "idle" /\ acks' = acks
      /\ CountPacket => daemon = "session" /\ daemon' = "session" /\ acks' = acks
      /\ OpenSession => daemon = "idle" /\ daemon' = "session"
      /\ Reacknowledge => daemon = "session" /\ daemon' = "session"
      /\ CloseSession => daemon' = "idle" /\ acks' = acks
      /\ ShutDown => daemon' = "exited" /\ acks' = acks
  BY DEF CloseSession, ShutDown, ReadIdle, CountPacket, OpenSession, Reacknowledge, daemonVars
<1>7. Handshake'
  <2>1. \A i \in Position' : link'[i].type = "start" =>
          SessionOf(link'[i]) < first' \/ SessionOf(link'[i]) = cur'
    BY <1>2, <1>3 DEF Handshake, HandshakeInv
  <2>2. ASSUME phase \in {"handshake", "await"}
        PROVE  /\ \A k \in 1..Len(acks') : acks'[k] = cur'
               /\ acks' # <<>> => daemon' = "session" /\ OnlyCurrent'
                                    /\ \A i \in Position' : link'[i].type = "start"
               /\ \A i, j \in Position' :
                    i < j /\ link'[i].type = "start" /\ SessionOf(link'[i]) = cur'
                      => link'[j].type # "batch"
    <3>1. ASSUME NEW i \in Position', NEW j \in Position',
                 i < j, link'[i].type = "start", SessionOf(link'[i]) = cur'
          PROVE  link'[j].type # "batch"
      <4>1. i + 1 \in Position /\ j + 1 \in Position /\ i + 1 < j + 1
              /\ link'[i] = link[i + 1] /\ link'[j] = link[j + 1]
        BY <1>2, <3>1
      <4> QED
        BY <1>3, <2>2, <3>1, <4>1 DEF Handshake, HandshakeInv
    <3>2. /\ \A k \in 1..Len(acks) : acks[k] = cur
          /\ acks # <<>> =>
               daemon = "session" /\ OnlyCurrent /\ \A i \in Position : link[i].type = "start"
      BY <2>2 DEF Handshake, HandshakeInv
    <3>3. CASE OpenSession \/ Reacknowledge
      <4>1. Read("start") /\ Acknowledge(Head(link).session) /\ daemon' = "session"
        BY <1>6, <3>3 DEF OpenSession, Reacknowledge
      <4>2. link[1].type = "start"
        BY <1>2, <4>1 DEF Read
      <4>3. Head(link).session = SessionOf(link[1])
        BY <1>2, <4>2 DEF SessionOf
      <4>4. /\ \A k \in 1..Len(acks') : acks'[k] = cur
            /\ acks' = acks \/ (OnlyCurrent' /\ \A i \in Position' : link'[i].type = "start")
        BY <1>1, <2>2, <4>1, <4>3, AcksAnswerCurrent
      <4> QED
        BY <1>2, <1>3, <1>4, <3>1, <3>2, <4>1, <4>4
    <3>4. CASE ReadIdle \/ CountPacket \/ CloseSession \/ ShutDown
      <4>1. acks' = acks /\ type # "start"
        BY <1>1, <1>2, <1>6, <3>4 DEF ReadIdle, CountPacket, CloseSession, ShutDown, Read
      <4>2. acks = <<>>
        BY <1>2, <3>2, <4>1
      <4> QED
        BY <1>3, <3>1, <3>2, <4>1, <4>2
    <3> QED
      BY <1>1, <3>3, <3>4
  <2>3. ASSUME phase = "stream"
        PROVE  /\ ackedBy' = cur' /\ daemon' = "session" /\ OnlyCurrent'
               /\ \A i \in Position' : link'[i].type # "end"
    <3>1. /\ ackedBy = cur /\ daemon = "session" /\ OnlyCurrent
          /\ \A i \in Position : link[i].type # "end"
      BY <2>3 DEF Handshake, HandshakeInv
    <3>2. type # "end" /\ type # "batch"
      BY <1>2, <3>1 DEF OnlyCurrent
    <3> QED
      BY <1>1, <1>2, <1>3, <1>4, <1>6, <3>1, <3>2
  <2>4. ASSUME phase = "end" PROVE OnlyCurrent' /\ daemon' # "exited"
    <3>1. OnlyCurrent /\ daemon # "exited"
      BY <2>4 DEF Handshake, HandshakeInv
    <3>2. type # "batch"
      BY <1>2, <3>1 DEF OnlyCurrent
    <3> QED
      BY <1>1, <1>4, <1>6, <3>1, <3>2
  <2> QED
    BY <1>3, <2>1, <2>2, <2>3, <2>4 DEF Handshake
<1>8. NoneUnexpected'
  <2>1. CASE CloseSession
    <3> SUFFICES ASSUME NEW i \in Position', link'[i].type = "data" PROVE FALSE
      BY DEF NoneUnexpected
    <3>1. i + 1 \in Position /\ 1 < i + 1 /\ link'[i] = link[i + 1] /\ link[i + 1].type = "data"
      BY <1>2
    <3>2. link[1].type = "end"
      BY <1>2, <2>1 DEF CloseSession, Read
    <3>3. SessionOf(link[1]) = SessionOf(link[i + 1])
      BY <1>2, <3>1 DEF InTheirSession, HandshakeInv
    <3>4. 1 \in Ranked /\ i + 1 \in Ranked /\ 1 <= i + 1 /\ SessionOf(link[1]) \in Int
      BY <1>0, <1>2, <3>1, <3>2, LinkFields DEF Ranked, Session
    <3>5. Rank(link[1]) <= Rank(link[i + 1])
      BY <3>4 DEF LinkOrdered, OrderInv
    <3>6. /\ Rank(link[1]) = 4 * SessionOf(link[1]) + 2
          /\ Rank(link[i + 1]) = 4 * SessionOf(link[i + 1]) + 1
      BY <1>0, <1>2, <3>1, <3>2, LinkFields
    <3> QED
      BY <3>3, <3>4, <3>5, <3>6
  <2>2. CASE ~CloseSession
    BY <1>1, <1>2, <1>6, <2>2 DEF NoneUnexpected, HandshakeInv
  <2> QED
    BY <2>1, <2>2
<1>9. NothingIgnored'
  <2>1. CASE ReadIdle
    <3>1. type # "data"
      BY <1>2, <1>6, <2>1 DEF NoneUnexpected, HandshakeInv
    <3>2. Head(link).type # "data"
      BY <1>2, <3>1
    <3> QED
      BY <2>1, <3>2 DEF ReadIdle, NothingIgnored, HandshakeInv
  <2>2. CASE ~ReadIdle
    BY <1>1, <2>2 DEF OpenSession, CountPacket, Reacknowledge, CloseSession, ShutDown,
                      daemonVars, NothingIgnored, HandshakeInv
  <2> QED
    BY <2>1, <2>2
<1>10. (daemon' = "exited" => rows' # <<>>) /\ ExitOnlyWithoutEnd'
  <2>1. CASE ShutDown
    <3>1. daemon = "session" /\ Export /\ link[1].type = "batch"
      BY <1>2, <2>1 DEF ShutDown, Read
    <3>2. header \in Session /\ header \in Int
      BY <3>1 DEF OpenIsOldest, OrderInv, Session
    <3>3. Len(rows) \in Nat /\ Len(rows') = Len(rows) + 1 /\ rows'[Len(rows')].session = header
      BY <1>0, <3>1, <3>2, RowsTyped
    <3>4. \A t \in ended : t < header
      <4> SUFFICES ASSUME NEW t \in ended, ~(t < header) PROVE FALSE
        OBVIOUS
      <4>1. t \in Int
        BY <1>0 DEF TypeOK, Session
      <4>2. PICK i \in Ranked : link[i].type = "end"
        BY <3>1, <3>2, <4>1 DEF EndsWaiting, EndInLink, OrderInv
      <4>3. i \in Position /\ 1 < i
        BY <1>2, <3>1, <4>2 DEF Ranked
      <4> QED
        BY <1>2, <3>1, <4>2, <4>3 DEF InTheirSession, HandshakeInv
    <3>5. rows' # <<>>
      BY <3>3, EmptySeq
    <3> QED
      BY <1>3, <3>3, <3>4, <3>5 DEF ExitOnlyWithoutEnd
  <2>2. CASE ~ShutDown
    <3>1. daemon' # "exited"
      BY <1>1, <1>6, <2>2
    <3> QED
      BY <3>1 DEF ExitOnlyWithoutEnd
  <2> QED
    BY <2>1, <2>2
<1> QED
  BY <1>5, <1>7, <1>8, <1>9, <1>10 DEF HandshakeInv

\* The handshake invariant holds at the start, and every step keeps it.
LEMMA HandshakeInitial == Init => HandshakeInv
<1> SUFFICES ASSUME Init PROVE HandshakeInv
  OBVIOUS
<1>1. Position = {}
  BY EmptySeq DEF Init, Position
<1> QED
  BY <1>1 DEF Init, HandshakeInv, Handshake, InTheirSession, NoneUnexpected, NothingIgnored,
              ExitOnlyWithoutEnd

LEMMA HandshakeKept ==
  ASSUME Drains, OrderInv, HandshakeInv, [Next]_vars PROVE HandshakeInv'
<1>1. CASE DaemonStep
  BY <1>1, ReadKeepsHandshake
<1>2. CASE SendStart \/ SendPacket \/ SendEnd \/ SendBatchEnd
  BY <1>2, SendKeepsHandshake
<1>3. CASE \/ StartSession \/ ReceiveAck \/ AckTimeout \/ StreamDone \/ SessionDone
           \/ EndBatch \/ BatchDone \/ Interrupt \/ NewSender \/ UNCHANGED vars
  BY <1>3, QuietKeepsHandshake
<1> QED
  BY <1>1, <1>2, <1>3 DEF Next, SenderStep

(***************************************************************************)
(* With a sender that drains its socket nothing is on its way but what the *)
(* daemon's state lets it expect.                                          *)
(***************************************************************************)
THEOREM HandshakeInductive == ASSUME Drains PROVE Spec => []HandshakeInv
<1>1. OrderInv /\ HandshakeInv /\ [Next]_vars => HandshakeInv'
  BY HandshakeKept
<1> QED
  BY <1>1, HandshakeInitial, OrderInductive, PTL DEF Spec

(***************************************************************************)
(* A sender that drains its socket streams a session only after the daemon *)
(* acknowledged that session's START.                                      *)
(***************************************************************************)
THEOREM DrainedHandshake == ASSUME Drains PROVE Spec => []HandshakePrecedesStream
<1>1. HandshakeInv => HandshakePrecedesStream
  BY DEF HandshakeInv, Handshake, HandshakePrecedesStream
<1> QED
  BY <1>1, HandshakeInductive, PTL

(***************************************************************************)
(* No packet of a sender that drains its socket arrives between sessions.  *)
(***************************************************************************)
THEOREM EveryPacketCounted == ASSUME Drains PROVE Spec => []NothingIgnored
<1>1. HandshakeInv => NothingIgnored
  BY DEF HandshakeInv
<1> QED
  BY <1>1, HandshakeInductive, PTL

(***************************************************************************)
(* BATCH_END stops the daemon only inside a session that lost all its ENDs.*)
(***************************************************************************)
THEOREM StopsOnlyWithoutEnd == ASSUME Drains PROVE Spec => []ExitOnlyWithoutEnd
<1>1. HandshakeInv => ExitOnlyWithoutEnd
  BY DEF HandshakeInv
<1> QED
  BY <1>1, HandshakeInductive, PTL

-----------------------------------------------------------------------------
(***************************************************************************)
(* The packets a row has are no more than the datagrams it counted, and    *)
(* those of its own session no more than were announced.                   *)
(***************************************************************************)
Counted == IsFiniteSet(got) /\ Cardinality(got) <= received

OwnPackets(s, packets) == {p \in packets : p[1] = s}

\* A session has no more packets than were announced.
LEMMA OwnPacketsBounded ==
  ASSUME NEW s \in Session, NEW packets \in SUBSET Packet, IsFiniteSet(packets)
  PROVE  /\ Cardinality(OwnPackets(s, packets)) \in Nat
         /\ Cardinality(OwnPackets(s, packets)) <= Cardinality(packets)
         /\ Cardinality(OwnPackets(s, packets)) <= Packets
<1> USE UdpAssumption
<1> DEFINE own == OwnPackets(s, packets)
           number == [p \in own |-> p[2]]
<1>1. own \in SUBSET packets
  BY DEF OwnPackets
<1>2. \A p \in own : p = <<s, p[2]>> /\ p[2] \in 1..Packets
  BY DEF OwnPackets, Packet
<1>3. number \in Injection(own, 1..Packets)
  <2>1. number \in [own -> 1..Packets] /\ \A p \in own : number[p] = p[2]
    BY <1>2
  <2>2. \A p, q \in own : number[p] = number[q] => p = q
    BY <1>2, <2>1
  <2> HIDE DEF number, own
  <2> QED
    BY <2>1, <2>2 DEF Injection, IsInjective
<1>4. IsFiniteSet(1..Packets) /\ Cardinality(1..Packets) = Packets
  BY FS_Interval
<1>5. IsFiniteSet(own) /\ Cardinality(own) <= Cardinality(packets)
  BY <1>1, FS_Subset
<1>6. Cardinality(own) <= Packets
  BY <1>3, <1>4, FS_Injection
<1> QED
  BY <1>5, <1>6, FS_CardinalityType

LossInv == OrderInv /\ Counted /\ LossNeverOverstated

\* Only a packet, counted once more, adds to what the open session has.
LEMMA LossKept == ASSUME LossInv, [Next]_vars PROVE LossInv'
<1> USE UdpAssumption
<1>0. OrderInv /\ OrderInv' /\ TypeOK
  <2>1. OrderInv
    BY DEF LossInv
  <2>2. OrderInv'
    BY <2>1, OrderKept
  <2> QED
    BY <2>1, <2>2 DEF OrderInv, TypeInv
<1>1. CASE UNCHANGED <<got, received, rows>>
  BY <1>0, <1>1 DEF LossInv, Counted, LossNeverOverstated
<1>2. CASE OpenSession
  <2>1. got' = {} /\ received' = 0 /\ rows' = rows
    BY <1>2 DEF OpenSession
  <2> QED
    BY <1>0, <2>1, FS_EmptySet DEF LossInv, Counted, LossNeverOverstated
<1>3. CASE CountPacket
  <2>1. got' = got \union {Head(link).packet} /\ received' = received + 1 /\ rows' = rows
    BY <1>3 DEF CountPacket
  <2>2. received \in Nat /\ IsFiniteSet(got) /\ Cardinality(got) \in Nat /\ Cardinality(got) <= received
    BY <1>0, FS_CardinalityType DEF LossInv, Counted, TypeOK
  <2>3. /\ IsFiniteSet(got')
        /\ Cardinality(got') \in {Cardinality(got), Cardinality(got) + 1}
    BY <2>1, <2>2, FS_AddElement
  <2>4. Counted'
    BY <2>1, <2>2, <2>3 DEF Counted
  <2> QED
    BY <1>0, <2>1, <2>4 DEF LossInv, LossNeverOverstated
<1>4. CASE CloseSession \/ ShutDown
  <2>1. Export /\ UNCHANGED <<got, received>> /\ header \in Session
    BY <1>0, <1>4 DEF CloseSession, ShutDown, OrderInv, OpenIsOldest
  <2>2. /\ Len(rows) \in Nat /\ Len(rows') = Len(rows) + 1
        /\ \A k \in 1..Len(rows) : rows'[k] = rows[k]
        /\ rows'[Len(rows')].session = header /\ rows'[Len(rows')].got = got
        /\ rows'[Len(rows')].lost = IF Packets > received THEN Packets - received ELSE 0
    BY <1>0, <2>1, RowsTyped
  <2>3. /\ received \in Nat /\ got \in SUBSET Packet /\ IsFiniteSet(got)
        /\ Cardinality(got) \in Nat /\ Cardinality(got) <= received
    BY <1>0, FS_CardinalityType DEF LossInv, Counted, TypeOK
  <2>4. /\ Cardinality(OwnPackets(header, got)) \in Nat
        /\ Cardinality(OwnPackets(header, got)) <= Cardinality(got)
        /\ Cardinality(OwnPackets(header, got)) <= Packets
    BY <2>1, <2>3, OwnPacketsBounded
  <2>5. rows'[Len(rows')].lost + Cardinality(OwnPackets(header, got)) <= Packets
    BY <2>2, <2>3, <2>4
  <2>6. LossNeverOverstated'
    <3> SUFFICES ASSUME NEW k \in 1..Len(rows')
                 PROVE  rows'[k].lost + Cardinality({p \in rows'[k].got : p[1] = rows'[k].session})
                          <= Packets
      BY DEF LossNeverOverstated
    <3>1. CASE k = Len(rows')
      BY <2>2, <2>5, <3>1 DEF OwnPackets
    <3>2. CASE k # Len(rows')
      <4>1. k \in 1..Len(rows) /\ rows'[k] = rows[k]
        BY <2>2, <3>2
      <4> QED
        BY <4>1 DEF LossInv, LossNeverOverstated
    <3> QED
      BY <3>1, <3>2
  <2> QED
    BY <1>0, <2>1, <2>6 DEF LossInv, Counted
<1> QED
  BY <1>1, <1>2, <1>3, <1>4
  DEF Next, SenderStep, DaemonStep, vars, daemonVars, StartSession, SendStart, ReceiveAck,
      AckTimeout, SendPacket, StreamDone, SendEnd, SessionDone, EndBatch, SendBatchEnd,
      BatchDone, Interrupt, NewSender, ReadIdle, Reacknowledge

\* What is counted, and what has been reported as lost.
THEOREM LossInductive == Spec => []LossInv
<1>1. Init => LossInv
  <2> SUFFICES ASSUME Init PROVE LossInv
    OBVIOUS
  <2>1. 1..Len(rows) = {}
    BY EmptySeq DEF Init
  <2> QED
    BY <2>1, OrderInitial, FS_EmptySet DEF Init, LossInv, Counted, LossNeverOverstated
<1>2. LossInv /\ [Next]_vars => LossInv'
  BY LossKept
<1> QED
  BY <1>1, <1>2, PTL DEF Spec

(***************************************************************************)
(* The loss in a row is at most what its session is missing, whatever was  *)
(* duplicated and whichever packets of later sessions were counted in it.  *)
(***************************************************************************)
THEOREM LossIsUnderstated == Spec => []LossNeverOverstated
<1>1. LossInv => LossNeverOverstated
  BY DEF LossInv
<1> QED
  BY <1>1, LossInductive, PTL

-----------------------------------------------------------------------------
(***************************************************************************)
(* The daemon, behind a link that loses and duplicates, implements the     *)
(* summary.                                                                *)
(***************************************************************************)
Mapped == [i \in 1..Len(rows) |-> RowOf(rows[i])]

\* A new row at the end is a new mapped row at the end.
LEMMA MappedAppend ==
  ASSUME NEW S, NEW s \in Seq(S), NEW e \in S
  PROVE  [i \in 1..Len(Append(s, e)) |-> RowOf(Append(s, e)[i])]
           = Append([i \in 1..Len(s) |-> RowOf(s[i])], RowOf(e))
<1> DEFINE m == [i \in 1..Len(s) |-> RowOf(s[i])]
           T == {RowOf(x) : x \in S}
           a == [i \in 1..Len(Append(s, e)) |-> RowOf(Append(s, e)[i])]
<1>1. Len(s) \in Nat /\ Append(s, e) \in Seq(S) /\ Len(Append(s, e)) = Len(s) + 1
  OBVIOUS
<1>2. m \in Seq(T) /\ Len(m) = Len(s)
  BY <1>1
<1>3. RowOf(e) \in T
  OBVIOUS
<1>4. a \in Seq(T) /\ Len(a) = Len(s) + 1
  BY <1>1
<1>5. Append(m, RowOf(e)) \in Seq(T) /\ Len(Append(m, RowOf(e))) = Len(s) + 1
  BY <1>2, <1>3
<1>6. ASSUME NEW i \in 1..(Len(s) + 1) PROVE a[i] = Append(m, RowOf(e))[i]
  <2>1. CASE i = Len(s) + 1
    BY <1>1, <1>2, <2>1
  <2>2. CASE i \in 1..Len(s)
    BY <1>1, <1>2, <2>2
  <2> QED
    BY <1>1, <2>1, <2>2
<1> HIDE DEF a, m, T
<1>7. a = Append(m, RowOf(e))
  BY <1>4, <1>5, <1>6, SeqEqual
<1> QED
  BY <1>7 DEF a, m

\* A step of the protocol is one of the summary or leaves it alone.
LEMMA SummaryMaps == ASSUME LossInv, [Next]_vars PROVE [Summary!Next]_(Summary!vars)
<1> USE UdpAssumption
<1>0. /\ OrderInv /\ OrderInv' /\ TypeOK /\ TypeOK' /\ LossInv'
      /\ OneRecordPerSession' /\ MixedOnlyWithoutEnd' /\ ReadWasSent'
  <2>1. OrderInv /\ LossInv'
    BY LossKept DEF LossInv
  <2>2. OrderInv'
    BY <2>1, OrderKept
  <2> QED
    BY <2>1, <2>2 DEF OrderInv, TypeInv
<1>1. CASE UNCHANGED <<cur, ended, daemon, header, got, rows>>
  BY <1>1 DEF Summary!vars
<1>2. CASE cur' = cur + 1 /\ UNCHANGED <<ended, daemon, header, got, rows>>
  BY <1>2 DEF Summary!Next, Summary!Begin
<1>3. CASE ended' = ended \union {cur} /\ UNCHANGED <<cur, daemon, header, got, rows>>
  BY <1>3 DEF Summary!Next, Summary!End
<1>4. CASE OpenSession
  <2>1. /\ daemon = "idle" /\ daemon' = "session" /\ got' = {}
        /\ UNCHANGED <<cur, ended, rows>>
    BY <1>4 DEF OpenSession, senderVars
  <2>2. header' \in 1..cur
    <3>1. header' \in Session /\ cur' = cur /\ cur \in Nat
      BY <1>0, <2>1 DEF OrderInv, OpenIsOldest, TypeOK
    <3>2. header' \in Int
      BY <3>1 DEF Session
    <3>3. \E r \in 0..2 : 4 * header' <= 4 * cur + r
      BY <1>0, <2>1 DEF OrderInv, OpenIsOldest, SenderRank
    <3>4. \A h \in Int, c \in Nat, r \in 0..2 : 4 * h <= 4 * c + r => h <= c
      OBVIOUS
    <3>5. header' <= cur
      <4>1. PICK r \in 0..2 : 4 * header' <= 4 * cur + r
        BY <3>3
      <4> QED
        BY <3>1, <3>2, <3>4, <4>1
    <3> QED
      BY <3>1, <3>5 DEF Session
  <2>3. \A i \in 1..Len(Mapped) : Mapped[i].session < header'
    <3>1. Len(Mapped) = Len(rows) /\ \A i \in 1..Len(rows) : Mapped[i].session = rows[i].session
      <4>1. Len(rows) \in Nat
        BY <1>0 DEF TypeOK
      <4>2. \A row : RowOf(row).session = row.session
        BY DEF RowOf
      <4> QED
        BY <4>1, <4>2 DEF Mapped
    <3>2. \A i \in 1..Len(rows) : rows[i].session < header'
      BY <1>0, <2>1 DEF OneRecordPerSession
    <3> QED
      BY <3>1, <3>2
  <2>4. Summary!Open
    BY <2>1, <2>2, <2>3 DEF Summary!Open, Summary!NoSession, Mapped
  <2> QED
    BY <2>4 DEF Summary!Next
<1>5. CASE CountPacket
  <2>1. /\ daemon = "session" /\ daemon' = "session" /\ got' = got \union {Head(link).packet}
        /\ link # <<>> /\ Head(link).type = "data"
        /\ UNCHANGED <<cur, ended, header, rows>>
    BY <1>5 DEF CountPacket, Read, senderVars
  <2>2. PICK s \in Session, k \in 1..Packets : Head(link).packet = <<s, k>>
    <3>1. Head(link) \in Message
      BY <1>0, <2>1 DEF TypeOK
    <3>2. Head(link).packet \in Packet
      BY <2>1, <3>1, MessageFields
    <3> QED
      BY <3>2 DEF Packet
  <2>3. /\ header <= s /\ s <= cur
        /\ \A t \in ended : t >= header => t >= s
    <3>1. <<s, k>> \in got' /\ <<s, k>>[1] = s
      BY <2>1, <2>2
    <3>2. Belongs(header, got')
      BY <1>0, <2>1 DEF MixedOnlyWithoutEnd, Belongs
    <3>3. s <= cur
      BY <1>0, <2>1, <3>1 DEF ReadWasSent
    <3> QED
      BY <3>1, <3>2, <3>3, <2>1 DEF Belongs
  <2>4. header \in Session /\ header # 0 /\ s \in header..cur
    BY <1>0, <2>1, <2>3 DEF OrderInv, OpenIsOldest, Session, TypeOK
  <2>5. Summary!Count
    BY <2>1, <2>2, <2>3, <2>4 DEF Summary!Count, Summary!NoSession
  <2> QED
    BY <2>5 DEF Summary!Next
<1>6. CASE CloseSession \/ ShutDown
  <2>1. /\ daemon = "session" /\ daemon' # "session" /\ Export
        /\ UNCHANGED <<cur, ended, header, got, received>>
    BY <1>6 DEF CloseSession, ShutDown, senderVars
  <2>2. header \in Session /\ header # 0
    BY <1>0, <2>1 DEF OrderInv, OpenIsOldest, Session
  <2> DEFINE lost == IF Packets > received THEN Packets - received ELSE 0
             row == [session |-> header, got |-> got, received |-> received, lost |-> lost]
  <2>3. lost \in 0..Packets /\ row \in Row
    <3>1. received \in Nat /\ got \in SUBSET Packet
      BY <1>0 DEF TypeOK
    <3>2. lost \in 0..Packets
      BY <3>1
    <3> HIDE DEF lost
    <3> QED
      BY <2>2, <3>1, <3>2 DEF Row
  <2>4. rows' = Append(rows, row)
    BY <2>1 DEF Export
  <2>5. RowOf(row) = [session |-> header, got |-> got, lost |-> lost]
    BY DEF RowOf
  <2> HIDE DEF row, lost
  <2>6. Mapped' = Append(Mapped, [session |-> header, got |-> got, lost |-> lost])
    <3>1. rows \in Seq(Row)
      BY <1>0 DEF TypeOK
    <3>2. Mapped' = [i \in 1..Len(Append(rows, row)) |-> RowOf(Append(rows, row)[i])]
      BY <2>4 DEF Mapped
    <3>3. Mapped' = Append(Mapped, RowOf(row))
      BY <2>3, <3>1, <3>2, MappedAppend DEF Mapped
    <3> QED
      BY <2>5, <3>3
  <2>7. lost + Cardinality({p \in got : p[1] = header}) <= Packets
    <3>1. /\ Len(rows) \in Nat /\ Len(rows') = Len(rows) + 1
          /\ rows'[Len(rows) + 1].session = header /\ rows'[Len(rows) + 1].got = got
          /\ rows'[Len(rows) + 1].lost = lost
      <4>1. TypeOK /\ header \in Session /\ Export
        BY <1>0, <2>1, <2>2
      <4>2. /\ Len(rows) \in Nat /\ Len(rows') = Len(rows) + 1
            /\ rows'[Len(rows')].session = header /\ rows'[Len(rows')].got = got
            /\ rows'[Len(rows')].lost = IF Packets > received THEN Packets - received ELSE 0
        BY <4>1, RowsTyped
      <4> QED
        BY <4>2 DEF lost
    <3>2. Len(rows) + 1 \in 1..Len(rows')
      BY <3>1
    <3> QED
      BY <1>0, <3>1, <3>2 DEF LossInv, LossNeverOverstated
  <2>8. Summary!Record
    <3>1. Summary!Cardinality({p \in got : p[1] = header})
            = Cardinality({p \in got : p[1] = header})
      BY DEF Summary!Cardinality, Cardinality
    <3> QED
      BY <2>1, <2>2, <2>3, <2>6, <2>7, <3>1 DEF Summary!Record, Summary!NoSession, Mapped
  <2> QED
    BY <2>8 DEF Summary!Next
<1> QED
  BY <1>1, <1>2, <1>3, <1>4, <1>5, <1>6
  DEF Next, SenderStep, DaemonStep, vars, senderVars, daemonVars, StartSession, SendStart,
      ReceiveAck, AckTimeout, SendPacket, StreamDone, SendEnd, SessionDone, EndBatch,
      SendBatchEnd, BatchDone, Interrupt, NewSender, ReadIdle, Reacknowledge

(***************************************************************************)
(* Every step of senders, link and daemon is a step of the summary or none *)
(* of its business: sessions open only in order, packets are counted only  *)
(* where they may be, and each row says no more loss than there is.        *)
(***************************************************************************)
THEOREM RowsAsPromised == Spec => ImplementsSummary
<1>1. Init => Summary!Init
  <2> SUFFICES ASSUME Init PROVE Summary!Init
    OBVIOUS
  <2>1. [i \in 1..Len(rows) |-> RowOf(rows[i])] = <<>>
    BY DEF Init
  <2> QED
    BY <2>1 DEF Init, Summary!Init, Summary!NoSession
<1>2. LossInv /\ [Next]_vars => [Summary!Next]_(Summary!vars)
  BY SummaryMaps
<1> QED
  BY <1>1, <1>2, LossInductive, PTL DEF Spec, ImplementsSummary, Summary!Spec

=============================================================================
