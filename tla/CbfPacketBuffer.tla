--------------------------- MODULE CbfPacketBuffer ---------------------------
(***************************************************************************)
(* CbfPacketBuffer (geonet/cbf_packet_buffer.cpp): packets contend for the *)
(* channel.  Each has a timer; one event at the runtime, meant for the     *)
(* earliest timer, flushes what has expired.  Room for a new packet is     *)
(* made at the head of the list.  A counter per packet lives as long as    *)
(* the packet is stored or, if it fades, until its own lifetime ends.      *)
(*                                                                         *)
(* A buffer is a record and its operations say which buffers they lead to, *)
(* so that one router and a network of them can use them alike:            *)
(*   packets   m_packets, oldest first                                     *)
(*   timers    m_timers: what is left for each stored packet               *)
(*   stored    m_stored_bytes                                              *)
(*   event     ticks until the scheduled event, NoEvent when there is none *)
(*   fading    the lifetime of m_counter's values, 0 if they do not fade   *)
(*   counters  m_counter: value and what is left of its lifetime           *)
(*   most      the bound of a value, above what it is compared with        *)
(*                                                                         *)
(* Time runs in ticks and is relative to now: a timer is below zero while  *)
(* its event is late.  What a packet carries, and the lifetime that says   *)
(* whether it is still sent when it leaves, are left out.                  *)
(***************************************************************************)
EXTENDS SequencesExt, Integers

CONSTANTS
  Id,        \* CbfPacketIdentifier: source and sequence number
  Length,    \* bytes of each packet
  Capacity,  \* m_capacity_bytes
  MaxTime    \* itsGnCbfMaxTime

ASSUME BufferAssumption ==
  /\ IsFiniteSet(Id)
  /\ Capacity \in Nat
  /\ Length \in [Id -> 1..Capacity]   \* no packet is larger than the buffer
  /\ MaxTime \in Nat \ {0}

NoEvent == -1
Absent  == [value |-> 0, left |-> 0]

IsBuffer(b) ==
  /\ DOMAIN b = {"packets", "timers", "stored", "event", "fading", "counters", "most"}
  /\ b.packets \in Seq(Id)
  /\ DOMAIN b.timers \subseteq Id
  /\ \A id \in DOMAIN b.timers : b.timers[id] \in (-MaxTime)..MaxTime
  /\ b.stored \in 0..Capacity
  /\ b.event \in 0..MaxTime \union {NoEvent}
  /\ b.fading \in Nat
  /\ b.counters \in [Id -> [value : 0..b.most, left : -1..b.fading]]
  /\ b.most \in Nat \ {0}

\* An empty buffer with the counter create_cbf_counter chooses.
EmptyBuffer(lifetime, most) ==
  [packets |-> <<>>, timers |-> <<>>, stored |-> 0, event |-> NoEvent,
   fading |-> lifetime, counters |-> [id \in Id |-> Absent], most |-> most]

-----------------------------------------------------------------------------
Stored(b, id) == id \in DOMAIN b.timers

Only(timers, ids) == [id \in ids |-> timers[id]]

Bytes(ids) == SumFunctionOnSet(Length, ids)

\* The list without ids, in its order.
ListWithout(list, ids) ==
  LET left[n \in 0..Len(list)] ==
        IF n = 0 THEN <<>>
        ELSE IF list[n] \in ids THEN left[n - 1] ELSE Append(left[n - 1], list[n])
  IN left[Len(list)]

\* The n packets at the front of the list.
Oldest(list, n) == {list[i] : i \in 1..n}

\* The timers at the front of m_timers.left; which of equals is first is open.
Earliest(timers) ==
  {id \in DOMAIN timers : \A other \in DOMAIN timers : timers[id] <= timers[other]}

\* The event schedule_timer asks for: one that is late already runs at once.
Scheduled(timers) ==
  {IF timers[id] < 0 THEN 0 ELSE timers[id] : id \in Earliest(timers)}

\* counter(id): a faded value reads as zero.
CounterOf(b, id) == IF b.counters[id].left < 0 THEN 0 ELSE b.counters[id].value

OneMoreThan(n, most) == IF n < most THEN n + 1 ELSE n

\* CbfCounter::add, which also forgets the values that have faded.  A value
\* that has faded but was not forgotten yet is counted on.
CounterAdded(b, counters, id) ==
  [other \in Id |->
    IF other = id
    THEN [value |-> IF b.fading > 0 THEN OneMoreThan(counters[id].value, b.most) ELSE 1,
          left  |-> b.fading]
    ELSE IF counters[other].left < 0 THEN Absent ELSE counters[other]]

\* CbfCounter::increment: a faded value lives again and is counted on.
CounterIncremented(b, id) ==
  [b.counters EXCEPT ![id] = [value |-> OneMoreThan(@.value, b.most),
                              left  |-> IF @.left < 0 THEN b.fading ELSE @.left]]

\* Mutation: fading counters are removed with their packets, too.
CountersRemovedMut(b, ids) == [id \in Id |-> IF id \in ids THEN Absent ELSE b.counters[id]]

\* CbfCounter::remove, for each of ids: fading counters ignore it.
CountersRemoved(b, ids) ==
  IF b.fading > 0 THEN b.counters
                  ELSE [id \in Id |-> IF id \in ids THEN Absent ELSE b.counters[id]]

-----------------------------------------------------------------------------
\* How many packets are dropped at the head until id fits or none is left.
HeadDrop(b, id) ==
  LET fits(n) == b.stored + Length[id] - Bytes(Oldest(b.packets, n)) <= Capacity
  IN CHOOSE n \in 0..Len(b.packets) :
       /\ fits(n) \/ n = Len(b.packets)
       /\ \A m \in 0..(n - 1) : ~fits(m)

\* The event after add.  The first timer is remembered as an iterator before
\* the head drop and compared with the first one after it: if its node was
\* freed and id's timer is first now, the two may be the same address.
EventAfterAdd(b, timers, dropped, id) ==
  IF b.timers = <<>> THEN Scheduled(timers)
  ELSE UNION {IF next = first THEN {b.event}
              ELSE IF next = id /\ first \in dropped THEN {b.event} \union Scheduled(timers)
              ELSE Scheduled(timers) : first \in Earliest(b.timers), next \in Earliest(timers)}

\* add, for a packet that is not stored
AddPacket(b, id, timeout) ==
  LET n       == HeadDrop(b, id)
      dropped == Oldest(b.packets, n)
      timers  == [other \in (DOMAIN b.timers \ dropped) \union {id} |->
                    IF other = id THEN timeout ELSE b.timers[other]]
  IN {[b EXCEPT !.packets  = Append(SubSeq(@, n + 1, Len(@)), id),
                !.timers   = timers,
                !.stored   = @ - Bytes(dropped) + Length[id],
                !.event    = e,
                !.counters = CounterAdded(b, CountersRemoved(b, dropped), id)]
      : e \in EventAfterAdd(b, timers, dropped, id)}

\* remove, for a packet that is stored: if its timer was first, the next one is
\* scheduled; the last one leaves its event behind.
RemovePacket(b, id) ==
  LET timers == Only(b.timers, DOMAIN b.timers \ {id})
      events == UNION {IF first = id /\ timers # <<>> THEN Scheduled(timers) ELSE {b.event}
                       : first \in Earliest(b.timers)}
  IN {[b EXCEPT !.packets  = ListWithout(@, {id}),
                !.timers   = timers,
                !.stored   = @ - Length[id],
                !.event    = e,
                !.counters = CountersRemoved(b, {id})] : e \in events}

\* Mutation: the counter is left as it is.
UpdateTimerMut(b, id, timeout) == [b EXCEPT !.timers[id] = timeout]

\* update: the timer starts again, the event stays where it is.
UpdateTimer(b, id, timeout) ==
  [b EXCEPT !.timers[id] = timeout, !.counters = CounterIncremented(b, id)]

Expired(b) == {id \in DOMAIN b.timers : b.timers[id] <= 0}

\* Mutation: the counters of expired packets are not removed.
FlushKeepsCounters(b) ==
  LET timers == Only(b.timers, DOMAIN b.timers \ Expired(b))
  IN {[b EXCEPT !.packets  = ListWithout(@, Expired(b)),
                !.timers   = timers,
                !.stored   = @ - Bytes(Expired(b)),
                !.event    = e,
                !.counters = @]
      : e \in IF timers = <<>> THEN {NoEvent} ELSE Scheduled(timers)}

\* Mutation: the next timer is not scheduled.
FlushForgetsEvent(b) ==
  LET timers == Only(b.timers, DOMAIN b.timers \ Expired(b))
  IN {[b EXCEPT !.packets  = ListWithout(@, Expired(b)),
                !.timers   = timers,
                !.stored   = @ - Bytes(Expired(b)),
                !.event    = e,
                !.counters = CountersRemoved(b, Expired(b))]
      : e \in {NoEvent}}

\* flush, the event: what has expired leaves, the next timer is scheduled.
Flush(b) ==
  LET timers == Only(b.timers, DOMAIN b.timers \ Expired(b))
  IN {[b EXCEPT !.packets  = ListWithout(@, Expired(b)),
                !.timers   = timers,
                !.stored   = @ - Bytes(Expired(b)),
                !.event    = e,
                !.counters = CountersRemoved(b, Expired(b))]
      : e \in IF timers = <<>> THEN {NoEvent} ELSE Scheduled(timers)}

\* A tick; the runtime runs an event as soon as it is due, so none is due.
Elapsed(b) ==
  [b EXCEPT
    !.timers   = [id \in DOMAIN @ |-> @[id] - 1],
    !.event    = IF @ = NoEvent THEN NoEvent ELSE @ - 1,
    !.counters = [id \in Id |->
                    IF @[id].value = 0 \/ @[id].left < 0 \/ b.fading = 0 THEN @[id]
                    ELSE [value |-> @[id].value, left |-> @[id].left - 1]]]

-----------------------------------------------------------------------------
(***************************************************************************)
(* The forwarding algorithms that contend (geonet/router.cpp): the buffers *)
(* a copy of id may lead to when it gives that timeout.                    *)
(***************************************************************************)

\* area_contention_based_forwarding
AreaCbf(b, id, timeout, maxCounter) ==
  IF Stored(b, id) THEN RemovePacket(b, id)
  ELSE IF CounterOf(b, id) >= maxCounter THEN {b}
  ELSE AddPacket(b, id, timeout)

\* area_advanced_forwarding: a forwarder that covers this router, seen from the
\* buffered copy's sender, ends the contention; another one starts it again.
AreaAdvanced(b, id, timeout, maxCounter, covered) ==
  IF ~Stored(b, id) THEN AddPacket(b, id, timeout)
  ELSE IF covered \/ CounterOf(b, id) >= maxCounter THEN RemovePacket(b, id)
  ELSE {UpdateTimer(b, id, timeout)}

\* non_area_contention_based_forwarding
NonAreaCbf(b, id, timeout, progress) ==
  IF Stored(b, id) THEN RemovePacket(b, id)
  ELSE IF progress THEN AddPacket(b, id, timeout)
  ELSE {b}
=============================================================================
