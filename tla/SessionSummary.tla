--------------------------- MODULE SessionSummary ---------------------------
(***************************************************************************)
(* What the summary CSV of the UDP testbed promises its reader, without    *)
(* the datagrams, handshakes and retries it is made from: sessions begin   *)
(* one after another; the daemon records some of them, each at most once   *)
(* and in order; a packet may be counted into a session before its own     *)
(* only while no END from that one on got through; and a row never says    *)
(* that more was lost than is missing.                                     *)
(***************************************************************************)
EXTENDS Integers, Sequences, FiniteSets

CONSTANT Packets  \* packets of a session

VARIABLES
  begun,    \* sessions begun so far, by whichever sender
  ended,    \* sessions whose END got through
  open,     \* the session being recorded, NoSession between two
  counted,  \* packets counted into it, as <<session, number>>
  rows      \* the rows written

NoSession == 0

vars == <<begun, ended, open, counted, rows>>

Init ==
  /\ begun = 0
  /\ ended = {}
  /\ open = NoSession
  /\ counted = {}
  /\ rows = <<>>

Begin ==
  /\ begun' = begun + 1
  /\ UNCHANGED <<ended, open, counted, rows>>

\* An END gets through, of the session that is run.
End ==
  /\ ended' = ended \union {begun}
  /\ UNCHANGED <<begun, open, counted, rows>>

\* A session is opened that comes after every session recorded.
Open ==
  /\ open = NoSession
  /\ open' \in 1..begun
  /\ \A i \in 1..Len(rows) : rows[i].session < open'
  /\ counted' = {}
  /\ UNCHANGED <<begun, ended, rows>>

\* A packet of the open session is counted, or of a later one if no session in
\* between was seen to end.
Count ==
  /\ open # NoSession
  /\ \E s \in open..begun, k \in 1..Packets :
       /\ \A t \in ended : t >= open => t >= s
       /\ counted' = counted \union {<<s, k>>}
  /\ UNCHANGED <<begun, ended, open, rows>>

\* The open session becomes a row; duplicates and packets of other sessions
\* may hide some of its loss.
Record ==
  /\ open # NoSession
  /\ \E lost \in 0..Packets :
       /\ lost + Cardinality({p \in counted : p[1] = open}) <= Packets
       /\ rows' = Append(rows, [session |-> open, got |-> counted, lost |-> lost])
  /\ open' = NoSession
  /\ UNCHANGED <<begun, ended, counted>>

Next == Begin \/ End \/ Open \/ Count \/ Record

Spec == Init /\ [][Next]_vars
=============================================================================
