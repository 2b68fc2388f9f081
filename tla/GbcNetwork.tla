----------------------------- MODULE GbcNetwork ------------------------------
(***************************************************************************)
(* One GeoBroadcast packet among the routers inside its destination area:  *)
(* every router contends as geonet/router.cpp and its CbfPacketBuffer make *)
(* it, and what one transmits is what its neighbours hear.  The routers    *)
(* stand on a line and know each other's positions.                        *)
(*                                                                         *)
(* A copy is heard, or lost, within the tick in which it is sent, in any   *)
(* order with the other copies and with the timers due in that tick.       *)
(***************************************************************************)
EXTENDS CbfPacketBuffer

CONSTANTS
  Router,    \* the routers
  Source,    \* the one whose packet it is
  Message,   \* the packet's id
  MaxRange,  \* itsGnDefaultMaxCommunicationRange: copies are heard as far as this
  MinTime,   \* itsGnCbfMinTime
  HopLimit,  \* the packet's hop limit
  Setups     \* where the routers stand, how they are configured, what may be lost

ASSUME NetworkAssumption ==
  /\ IsFiniteSet(Router) /\ Source \in Router
  /\ Message \in Id
  /\ MaxRange \in Nat \ {0}
  /\ MinTime \in 1..MaxTime
  /\ HopLimit \in Nat
  /\ Setups \subseteq [position : [Router -> Nat], area : {"CBF", "Advanced"},
                       maxCounter : Nat \ {0}, fading : Nat, losses : Nat]

VARIABLES
  setup,    \* the one of Setups that this behaviour has
  buffers,  \* each router's m_cbf_buffer
  carried,  \* sender and next hop limit of each router's stored copy
  air,      \* copies that are sent and not heard yet
  got,      \* routers that have heard the packet
  sent,     \* history variable: how often each router has forwarded it,
            \* counted up to once more than its counter allows
  lost      \* history variable: copies lost

networkVars == <<setup, buffers, carried, air, got, sent, lost>>

Carries(r) == Stored(buffers[r], Message)
Nothing    == [from |-> Source, hop |-> 0]

-----------------------------------------------------------------------------
Distance(r, s) ==
  LET d == setup.position[r] - setup.position[s] IN IF d < 0 THEN -d ELSE d

\* The copies of one broadcast.
Broadcast(s, hop) ==
  {[from |-> s, to |-> r, hop |-> hop] : r \in {n \in Router \ {s} : Distance(n, s) <= MaxRange}}

\* Mutation: the nearer the sender, the shorter.
TimeoutMut(r, s) == MinTime + ((MaxTime - MinTime) * Distance(r, s)) \div MaxRange

\* timeout_cbf: the farther the sender, the shorter.
Timeout(r, s) == MaxTime - ((MaxTime - MinTime) * Distance(r, s)) \div MaxRange

\* Not outside_sectorial_contention_area: from the sender s forwarder f lies
\* beyond r, and is in range.
Covered(r, s, f) ==
  /\ Distance(r, s) < Distance(f, s)
  /\ Distance(f, s) < MaxRange
  /\ Distance(r, s) + Distance(r, f) = Distance(f, s)

\* request: the source broadcasts its packet.
NetworkInit ==
  /\ setup \in Setups
  /\ buffers = [r \in Router |-> EmptyBuffer(setup.fading, setup.maxCounter + 1)]
  /\ carried = [r \in Router |-> Nothing]
  /\ air = Broadcast(Source, HopLimit)
  /\ got = {Source}
  /\ sent = [r \in Router |-> 0]
  /\ lost = 0

\* forwarding_algorithm_selection for copy c
Forwarded(c) ==
  LET b       == buffers[c.to]
      timeout == Timeout(c.to, c.from)
  IN IF setup.area = "CBF" THEN AreaCbf(b, Message, timeout, setup.maxCounter)
     ELSE AreaAdvanced(b, Message, timeout, setup.maxCounter,
                       Covered(c.to, carried[c.to].from, c.from))

\* Mutation: the copy that is kept has the hop limit it was heard with.
ReceiveMut(c) ==
  /\ air' = air \ {c}
  /\ got' = got \union {c.to}
  /\ IF c.hop <= 1
     THEN UNCHANGED <<buffers, carried>>
     ELSE \E b \in Forwarded(c) :
            /\ buffers' = [buffers EXCEPT ![c.to] = b]
            /\ carried' = [carried EXCEPT ![c.to] =
                 IF ~Stored(b, Message) THEN Nothing
                 ELSE IF Carries(c.to) THEN @ ELSE [from |-> c.from, hop |-> c.hop]]
  /\ UNCHANGED <<setup, sent, lost>>

\* process_extended: a copy whose hop limit is reached is not looked at by the
\* forwarding algorithm.  The first copy is the one that is kept.
Receive(c) ==
  /\ air' = air \ {c}
  /\ got' = got \union {c.to}
  /\ IF c.hop <= 1
     THEN UNCHANGED <<buffers, carried>>
     ELSE \E b \in Forwarded(c) :
            /\ buffers' = [buffers EXCEPT ![c.to] = b]
            /\ carried' = [carried EXCEPT ![c.to] =
                 IF ~Stored(b, Message) THEN Nothing
                 ELSE IF Carries(c.to) THEN @ ELSE [from |-> c.from, hop |-> c.hop - 1]]
  /\ UNCHANGED <<setup, sent, lost>>

Lose(c) ==
  /\ lost < setup.losses
  /\ air' = air \ {c}
  /\ lost' = lost + 1
  /\ UNCHANGED <<setup, buffers, carried, got, sent>>

\* The buffer's event: an expired packet is transmitted.
Transmit(r) ==
  /\ buffers[r].event = 0
  /\ \E b \in Flush(buffers[r]) : buffers' = [buffers EXCEPT ![r] = b]
  /\ IF Message \in Expired(buffers[r])
     THEN /\ air' = air \union Broadcast(r, carried[r].hop)
          /\ carried' = [carried EXCEPT ![r] = Nothing]
          /\ sent' = [sent EXCEPT ![r] = OneMoreThan(@, setup.maxCounter + 1)]
     ELSE UNCHANGED <<air, carried, sent>>
  /\ UNCHANGED <<setup, got, lost>>

NextTick ==
  /\ air = {}
  /\ \A r \in Router : buffers[r].event # 0
  /\ buffers' = [r \in Router |-> Elapsed(buffers[r])]
  /\ UNCHANGED <<setup, carried, air, got, sent, lost>>

NetworkNext ==
  \/ \E c \in air : Receive(c) \/ Lose(c)
  \/ \E r \in Router : Transmit(r)
  \/ NextTick

NetworkSpec == NetworkInit /\ [][NetworkNext]_networkVars /\ WF_networkVars(NetworkNext)

-----------------------------------------------------------------------------
\* All routers are on one side of the source.
AtEnd == \/ \A r \in Router : setup.position[r] >= setup.position[Source]
         \/ \A r \in Router : setup.position[r] <= setup.position[Source]

\* Those that hear s and are not nearer to the source.
Ahead(s) == {r \in Router \ {s} : /\ Distance(Source, s) <= Distance(Source, r)
                                  /\ Distance(r, s) <= MaxRange}

\* No two of the routers ahead of another one time out together on its copy.
NoTies == \A s \in Router : \A q, r \in Ahead(s) : q # r => Timeout(q, s) # Timeout(r, s)

\* Nobody is out of reach of everybody nearer to the source.
NoGap == \A r \in Router \ {Source} :
  \E s \in Router : r \in Ahead(s) /\ (s = Source \/ Distance(Source, s) < Distance(Source, r))

\* Where forwarding by contention can be relied on.  The farthest router ahead
\* of the last forwarder fires alone and silences only those it reaches beyond,
\* and their counters keep them silent while its successors are in their reach.
Dependable ==
  /\ setup.area = "CBF" /\ setup.maxCounter = 1 /\ setup.fading >= 2 * MaxTime
  /\ setup.losses = 0
  /\ AtEnd /\ NoTies /\ NoGap
  /\ Cardinality(Router) <= HopLimit + 1

\* Routers silence each other whenever they hear a copy of what they wait to
\* forward; there this leaves no router out.  It may elsewhere: two that fire
\* together silence a third one, which alone has somebody else in its reach.
ReachesAll == Dependable => <>(got = Router)

\* Contention comes to an end in every network: from some time on nobody
\* carries the packet and nothing is sent.
FallsSilent == <>[](air = {} /\ \A r \in Router : ~Carries(r))

\* Fading counters, as cbf_counter.hpp has it, fix the flooding of advanced
\* routing: no router forwards the packet more often than the counter allows.
FadingStopsFlooding == setup.fading > 0 => \A r \in Router : sent[r] <= setup.maxCounter
=============================================================================
