------------------------------ MODULE GbcRouter ------------------------------
(***************************************************************************)
(* GeoBroadcast in one router (geonet/router.cpp): what Router does with a *)
(* GeoBroadcast packet it hears, as forwarder and as receiver, and the     *)
(* contention buffer's timer.  Its peers are the environment: any copy of  *)
(* any packet may be heard at any time, from anywhere.                     *)
(*                                                                         *)
(* Distances appear as the choices they lead to: a contention timeout from *)
(* Timeouts, progress or none, inside a sectorial area or not.  All ids    *)
(* have one source, whose location table entry holds the duplicate packet  *)
(* list.  Packets are not of a store-carry-forward traffic class.          *)
(***************************************************************************)
EXTENDS CbfPacketBuffer

CONSTANTS
  Scenarios,  \* configurations, each with the packets the peers send
  Timeouts,   \* contention timeouts, from the minimum to MaxTime
  DPLLength   \* itsGnDPLLength

Mib == [area       : {"SIMPLE", "CBF", "Advanced"},  \* itsGnAreaForwardingAlgorithm
        nonArea    : {"Greedy", "CBF"},              \* itsGnNonAreaForwardingAlgorithm
        maxCounter : Nat \ {0},                     \* vanetzaCbfMaxCounter
        fading     : Nat,      \* vanetzaFadingCbfCounterLifetime, 0 for contending ones
        memory     : Nat]      \* vanetzaGbcMemoryCapacity

ASSUME RouterAssumption ==
  /\ Scenarios \subseteq [mib : Mib, traffic : SUBSET Id]
  /\ Timeouts \subseteq 1..MaxTime
  /\ DPLLength \in Nat \ {0}

VARIABLES
  mib,        \* m_mib
  traffic,    \* the packets heard in this behaviour
  buffer,     \* m_cbf_buffer
  inside,     \* whether the local position is inside the destination area
  dpl,        \* DuplicatePacketList of the source, oldest first
  gbcMemory,  \* m_gbc_memory, least recently heard first
  listed,     \* history variable: packets listed after each one was
  heard,      \* history variable: packets heard in the area after each one was
  row         \* history variable: contentions in a row, and how long the row lasts

config     == <<mib, traffic>>
memoryVars == <<dpl, gbcMemory, listed, heard>>
routerVars == <<config, buffer, inside, memoryVars, row>>

Fading == mib.fading > 0
NoRow  == [length |-> 0, left |-> -1]

RouterTypeOK ==
  /\ [mib |-> mib, traffic |-> traffic] \in Scenarios
  /\ IsBuffer(buffer)
  /\ buffer.fading = mib.fading
  /\ inside \in BOOLEAN
  /\ dpl \in Seq(Id) /\ Len(dpl) <= DPLLength
  /\ gbcMemory \in Seq(Id) /\ Len(gbcMemory) <= mib.memory
  /\ listed \in [Id -> SUBSET Id]
  /\ heard \in [Id -> SUBSET Id]
  /\ row \in [Id -> [length : 0..(mib.maxCounter + 1), left : -1..mib.fading]]

RouterInit ==
  /\ \E s \in Scenarios : mib = s.mib /\ traffic = s.traffic
  /\ buffer = EmptyBuffer(mib.fading, mib.maxCounter + 1)
  /\ inside \in BOOLEAN
  /\ dpl = <<>>
  /\ gbcMemory = <<>>
  /\ listed = [id \in Id |-> {}]
  /\ heard = [id \in Id |-> {}]
  /\ row = [id \in Id |-> NoRow]

-----------------------------------------------------------------------------
\* For every packet that has been there, the ones that were there since, itself
\* included: now id once more.
Newest(since, id) ==
  [other \in Id |-> IF other = id THEN {id}
                    ELSE IF since[other] = {} THEN {} ELSE since[other] \union {id}]

\* Where id is in the list.
Place(list, id) == CHOOSE i \in DOMAIN list : list[i] = id

\* The list with id at its end and room for it made at the front.
Pushed(list, id, n) ==
  LET excess == IF Len(list) < n THEN 0 ELSE Len(list) - n + 1
  IN Append(SubSeq(list, excess + 1, Len(list)), id)

\* Mutation: an id that is there already stays where it is.
AppendedMut(list, id, n) == IF id \in ToSet(list) THEN list ELSE Pushed(list, id, n)

\* The list or memory of at most n after id: one that is there moves to the end.
Appended(list, id, n) ==
  IF id \in ToSet(list) THEN Append(RemoveAt(list, Place(list, id)), id)
  ELSE Pushed(list, id, n)

\* Step 3: only the algorithms that do not contend look for duplicates.
DetectsDuplicates == IF inside THEN mib.area = "SIMPLE" ELSE mib.nonArea = "Greedy"

\* detect_duplicate_packet, for a packet that is none.
NoDuplicate(id) ==
  IF DetectsDuplicates
  THEN /\ id \notin ToSet(dpl)
       /\ dpl' = Pushed(dpl, id, DPLLength)
       /\ listed' = Newest(listed, id)
  ELSE UNCHANGED <<dpl, listed>>

\* decide_pass_up: what the memory remembers of the packets heard in the area.
DecidePassUp(id) ==
  IF inside /\ mib.memory > 0
  THEN /\ gbcMemory' = Appended(gbcMemory, id, mib.memory)
       /\ heard' = Newest(heard, id)
  ELSE UNCHANGED <<gbcMemory, heard>>

\* A contention counts in its row if the packet is one more in the buffer.
CountRow(id) ==
  row' = IF Fading /\ ~Stored(buffer, id) /\ Stored(buffer', id)
         THEN [row EXCEPT ![id] = [length |-> IF @.left < 0 THEN 1 ELSE OneMoreThan(@.length, mib.maxCounter + 1),
                                   left   |-> mib.fading]]
         ELSE row

\* forwarding_algorithm_selection, inside the area.  SIMPLE transmits at once.
ForwardInside(id, timeout, covered) ==
  /\ inside
  /\ \/ mib.area = "SIMPLE" /\ UNCHANGED <<buffer, row>>
     \/ /\ mib.area = "CBF"
        /\ buffer' \in AreaCbf(buffer, id, timeout, mib.maxCounter)
        /\ CountRow(id)
     \/ /\ mib.area = "Advanced"
        /\ buffer' \in AreaAdvanced(buffer, id, timeout, mib.maxCounter, covered)
        /\ UNCHANGED row

\* Outside it a packet from a sender inside is discarded, Greedy transmits.
ForwardOutside(id, timeout, progress) ==
  /\ ~inside
  /\ UNCHANGED row
  /\ \/ UNCHANGED buffer
     \/ mib.nonArea = "CBF" /\ buffer' \in NonAreaCbf(buffer, id, timeout, progress)

\* A copy is heard and forwarding is left to the algorithm.
Indicate(id) ==
  /\ NoDuplicate(id)
  /\ \E timeout \in Timeouts, near \in BOOLEAN :
       ForwardInside(id, timeout, near) \/ ForwardOutside(id, timeout, near)
  /\ DecidePassUp(id)
  /\ UNCHANGED <<config, inside>>

\* A copy is heard whose hop limit is reached, or whose source or sender
\* exceeds its data rate.
IndicateStopped(id) ==
  /\ NoDuplicate(id)
  /\ DecidePassUp(id)
  /\ UNCHANGED <<config, inside, buffer, row>>

\* The source's location table entry has expired and is dropped.
ForgetSource ==
  /\ dpl # <<>>
  /\ dpl' = <<>>
  /\ listed' = [id \in Id |-> {}]
  /\ UNCHANGED <<config, buffer, inside, gbcMemory, heard, row>>

\* update_position
Move ==
  /\ inside' = ~inside
  /\ UNCHANGED <<config, buffer, memoryVars, row>>

\* The runtime runs the buffer's event.
Expire ==
  /\ buffer.event = 0
  /\ buffer' \in Flush(buffer)
  /\ UNCHANGED <<config, inside, memoryVars, row>>

\* No event is due, time goes on.
TimePasses ==
  /\ buffer.event # 0
  /\ buffer' = Elapsed(buffer)
  /\ row' = [id \in Id |-> IF row[id].left <= 0 THEN NoRow ELSE [row[id] EXCEPT !.left = @ - 1]]
  /\ UNCHANGED <<config, inside, memoryVars>>

RouterNext ==
  \/ \E id \in traffic : Indicate(id) \/ IndicateStopped(id)
  \/ ForgetSource
  \/ Move
  \/ Expire
  \/ TimePasses

RouterSpec == RouterInit /\ [][RouterNext]_routerVars

\* Time goes on and the runtime runs its events.
RouterFairSpec == RouterSpec /\ WF_routerVars(Expire \/ TimePasses)

-----------------------------------------------------------------------------
\* List, timers, byte count and contending counters are kept apart by every
\* operation and agree after each: each stored packet has one timer, the bytes
\* are those of the stored packets, and a counter exists while its packet does.
BufferConsistent ==
  /\ IsInjective(buffer.packets)
  /\ ToSet(buffer.packets) = DOMAIN buffer.timers
  /\ buffer.stored = Bytes(ToSet(buffer.packets))
  /\ ~Fading => \A id \in Id : buffer.counters[id].value > 0 <=> Stored(buffer, id)

\* The buffer never waits without an event.  The event may be late - update
\* does not schedule, and add may not see that the first timer has changed -
\* but by less than the longest timeout.
NeverStalled ==
  \A id \in DOMAIN buffer.timers :
    /\ buffer.event # NoEvent
    /\ buffer.event - buffer.timers[id] < MaxTime

\* Fading counters hold across drops, transmissions and the faded values that
\* were not forgotten yet: a packet contends no more than the maximum number
\* of times before a whole lifetime passes without a contention.
FadingLimits == \A id \in Id : row[id].length <= mib.maxCounter

\* The memory and the duplicate packet list hold exactly the packets after
\* which too few others came: a repetition is a duplicate until then, and not
\* after, in whatever order packets were repeated.
MemoryIsMostRecent ==
  /\ ToSet(gbcMemory) = {id \in Id : Cardinality(heard[id]) \in 1..mib.memory}
  /\ ToSet(dpl) = {id \in Id : Cardinality(listed[id]) \in 1..DPLLength}

\* Every contention ends, however many copies start its timer again.
ContentionEnds == \A id \in Id : Stored(buffer, id) ~> ~Stored(buffer, id)
=============================================================================
