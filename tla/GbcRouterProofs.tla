--------------------------- MODULE GbcRouterProofs ---------------------------
(***************************************************************************)
(* Proofs about the contention buffer and the packet lists in a router,    *)
(* for any number of packets, any capacity and timeouts, every forwarding  *)
(* algorithm and either kind of counter, and about any network of routers. *)
(*                                                                         *)
(* RouterInv is about the buffer's event and counters, PlacedBuffer about  *)
(* the records that an operation keeps apart, MemoryInv about the          *)
(* duplicate list and the memory of broadcasts: both are in the order in   *)
(* which the packets were last seen (InOrder).  NetworkInv says how far a  *)
(* copy is from the source, of those sent and of those that routers carry. *)
(***************************************************************************)
EXTENDS GbcRouter, GbcNetwork, FiniteSums, SequenceTheorems, TLAPS

Fields == {"packets", "timers", "stored", "event", "fading", "counters", "most"}

\* The event is close enough to every timer.
OnItsWay(b) ==
  \A id \in DOMAIN b.timers :
    /\ b.event # NoEvent
    /\ b.timers[id] <= MaxTime
    /\ b.event - b.timers[id] < MaxTime

\* What the operations need and keep of a buffer.
SoundBuffer(b) ==
  /\ DOMAIN b = Fields
  /\ b.timers \in [DOMAIN b.timers -> Int]
  /\ b.event \in 0..MaxTime \union {NoEvent}
  /\ b.fading \in Nat
  /\ b.most \in Nat \ {0}
  /\ b.counters \in [Id -> [value : Nat, left : Int]]
  /\ OnItsWay(b)

\* Of a fading counter an operation loses nothing that still counts.
CountersKept(b, c) ==
  /\ c.fading = b.fading
  /\ c.most = b.most
  /\ \A id \in Id : b.counters[id].left >= 0 /\ b.fading > 0 =>
       /\ c.counters[id].left >= b.counters[id].left \/ c.counters[id].left = b.fading
       /\ c.counters[id].value >= b.counters[id].value \/ c.counters[id].value >= b.most

-----------------------------------------------------------------------------
\* An event that is scheduled is in time for its timers, and late by less than
\* the longest timeout for those that are overdue already.
LEMMA ScheduledInTime ==
  ASSUME NEW timers, timers \in [DOMAIN timers -> Int],
         \A id \in DOMAIN timers : timers[id] <= MaxTime /\ -timers[id] < MaxTime,
         NEW e \in Scheduled(timers)
  PROVE  /\ e \in 0..MaxTime
         /\ \A id \in DOMAIN timers : e - timers[id] < MaxTime
<1>1. PICK next \in Earliest(timers) : e = IF timers[next] < 0 THEN 0 ELSE timers[next]
  BY DEF Scheduled
<1>2. next \in DOMAIN timers /\ \A id \in DOMAIN timers : timers[next] <= timers[id]
  BY DEF Earliest
<1>3. MaxTime \in Nat \ {0}
  BY BufferAssumption
<1> QED
  BY <1>1, <1>2, <1>3

\* A timer whose event is on its way is not overdue by the longest timeout.
LEMMA OverdueLimit ==
  ASSUME NEW b, SoundBuffer(b), NEW id \in DOMAIN b.timers
  PROVE  b.timers[id] \in Int /\ b.timers[id] <= MaxTime /\ -b.timers[id] < MaxTime
<1>1. b.timers[id] \in Int
  BY DEF SoundBuffer
<1>2. b.event \in 0..MaxTime /\ b.event - b.timers[id] < MaxTime /\ b.timers[id] <= MaxTime
  BY DEF SoundBuffer, OnItsWay, NoEvent
<1> QED
  BY <1>1, <1>2, BufferAssumption

\* CbfCounter::remove and add, on the counters.
LEMMA RemovedCounters ==
  ASSUME NEW b, SoundBuffer(b), NEW ids
  PROVE  /\ CountersRemoved(b, ids) \in [Id -> [value : Nat, left : Int]]
         /\ b.fading > 0 => CountersRemoved(b, ids) = b.counters
BY DEF SoundBuffer, CountersRemoved, Absent

\* Counting one more packet loses nothing that still counts.
LEMMA AddedCounters ==
  ASSUME NEW b, SoundBuffer(b), NEW id \in Id,
         NEW counters \in [Id -> [value : Nat, left : Int]]
  PROVE  LET added == CounterAdded(b, counters, id) IN
         /\ added \in [Id -> [value : Nat, left : Int]]
         /\ b.fading > 0 =>
              /\ added[id].left = b.fading
              /\ added[id].value = OneMoreThan(counters[id].value, b.most)
              /\ \A other \in Id \ {id} :
                   counters[other].left >= 0 => added[other] = counters[other]
<1> DEFINE added == CounterAdded(b, counters, id)
<1>1. \A other \in Id : added[other] =
        IF other = id
        THEN [value |-> IF b.fading > 0 THEN OneMoreThan(counters[id].value, b.most) ELSE 1,
              left  |-> b.fading]
        ELSE IF counters[other].left < 0 THEN Absent ELSE counters[other]
  BY DEF CounterAdded
<1>2. b.fading \in Nat /\ b.most \in Nat
  BY DEF SoundBuffer
<1>3. OneMoreThan(counters[id].value, b.most) \in Nat
  BY <1>2 DEF OneMoreThan
<1>4. \A other \in Id : added[other] \in [value : Nat, left : Int]
  BY <1>1, <1>2, <1>3 DEF Absent
<1>5. added \in [Id -> [value : Nat, left : Int]]
  BY <1>4 DEF CounterAdded
<1> QED
  BY <1>1, <1>5

-----------------------------------------------------------------------------
\* CbfPacketBuffer::add leaves the event close enough to the new timer.
LEMMA AddSound ==
  ASSUME NEW b, SoundBuffer(b), NEW id \in Id, ~Stored(b, id), NEW timeout \in 1..MaxTime,
         NEW c \in AddPacket(b, id, timeout)
  PROVE  /\ SoundBuffer(c)
         /\ CountersKept(b, c)
         /\ Stored(c, id)
         /\ b.fading > 0 => /\ c.counters[id].left = b.fading
                            /\ c.counters[id].value = OneMoreThan(b.counters[id].value, b.most)
<1> DEFINE n        == HeadDrop(b, id)
           dropped  == Oldest(b.packets, n)
           timers   == [other \in (DOMAIN b.timers \ dropped) \union {id} |->
                          IF other = id THEN timeout ELSE b.timers[other]]
           packets  == Append(SubSeq(b.packets, n + 1, Len(b.packets)), id)
           stored   == b.stored - Bytes(dropped) + Length[id]
           counters == CounterAdded(b, CountersRemoved(b, dropped), id)
<1>1. PICK e \in EventAfterAdd(b, timers, dropped, id) :
        c = [b EXCEPT !.packets = packets, !.timers = timers, !.stored = stored,
                      !.event = e, !.counters = counters]
  BY DEF AddPacket
<1> HIDE DEF packets, stored, n
<1>2. /\ DOMAIN c = Fields
      /\ c.timers = timers /\ c.event = e /\ c.counters = counters
      /\ c.fading = b.fading /\ c.most = b.most
  BY <1>1 DEF SoundBuffer, Fields
<1>3. MaxTime \in Nat \ {0}
  BY BufferAssumption
<1>4. timers \in [DOMAIN timers -> Int] /\ id \in DOMAIN timers
  BY OverdueLimit
<1>5. \A other \in DOMAIN timers : timers[other] <= MaxTime /\ -timers[other] < MaxTime
  BY OverdueLimit, <1>3
<1>6. /\ e \in 0..MaxTime
      /\ \A other \in DOMAIN timers : e - timers[other] < MaxTime
  <2>1. CASE e \in Scheduled(timers)
    BY <2>1, <1>4, <1>5, ScheduledInTime
  <2>2. CASE b.timers # <<>> /\ e = b.event /\ Earliest(b.timers) # {}
    <3>1. b.event \in 0..MaxTime
      BY <2>2 DEF Earliest, SoundBuffer, OnItsWay, NoEvent
    <3>2. \A other \in DOMAIN timers :
            timers[other] = timeout \/ (other \in DOMAIN b.timers /\ timers[other] = b.timers[other])
      OBVIOUS
    <3>3. \A other \in DOMAIN b.timers : b.event - b.timers[other] < MaxTime
      BY DEF SoundBuffer, OnItsWay
    <3> QED
      BY <2>2, <3>1, <3>2, <3>3, <1>3
  <2>3. e \in Scheduled(timers) \/ (b.timers # <<>> /\ e = b.event /\ Earliest(b.timers) # {})
    <3> HIDE DEF timers, dropped
    <3> QED
      BY <1>1 DEF EventAfterAdd
  <2> QED
    BY <2>1, <2>2, <2>3
<1>7. counters \in [Id -> [value : Nat, left : Int]]
  BY RemovedCounters, AddedCounters
<1>8. SoundBuffer(c)
  <2> HIDE DEF timers, counters
  <2>1. OnItsWay(c)
    BY <1>2, <1>5, <1>6 DEF OnItsWay, NoEvent
  <2> QED
    BY <2>1, <1>2, <1>4, <1>6, <1>7 DEF SoundBuffer
<1>9. Stored(c, id)
  BY <1>2, <1>4 DEF Stored
<1>10. b.fading > 0 =>
         /\ counters[id].left = b.fading
         /\ counters[id].value = OneMoreThan(b.counters[id].value, b.most)
         /\ \A other \in Id \ {id} : b.counters[other].left >= 0 => counters[other] = b.counters[other]
  BY RemovedCounters, AddedCounters
<1>11. b.counters[id].value \in Nat /\ b.most \in Nat
  BY DEF SoundBuffer
<1>12. b.fading > 0 => counters[id].value >= b.counters[id].value \/ counters[id].value >= b.most
  <2> HIDE DEF counters
  <2> QED
    BY <1>10, <1>11 DEF OneMoreThan
<1>13. CountersKept(b, c)
  <2> HIDE DEF counters
  <2>1. b.counters \in [Id -> [value : Nat, left : Int]]
    BY DEF SoundBuffer
  <2> QED
    BY <2>1, <1>2, <1>10, <1>12 DEF CountersKept
<1> QED
  BY <1>2, <1>8, <1>9, <1>10, <1>13

\* CbfPacketBuffer::remove leaves no trace of the packet but its counter.
LEMMA RemoveSound ==
  ASSUME NEW b, SoundBuffer(b), NEW id \in Id, NEW c \in RemovePacket(b, id)
  PROVE  SoundBuffer(c) /\ CountersKept(b, c) /\ ~Stored(c, id)
<1> DEFINE timers   == Only(b.timers, DOMAIN b.timers \ {id})
           events   == UNION {IF first = id /\ timers # <<>> THEN Scheduled(timers) ELSE {b.event}
                              : first \in Earliest(b.timers)}
           packets  == ListWithout(b.packets, {id})
           stored   == b.stored - Length[id]
           counters == CountersRemoved(b, {id})
<1>1. PICK e \in events :
        c = [b EXCEPT !.packets = packets, !.timers = timers, !.stored = stored,
                      !.event = e, !.counters = counters]
  BY DEF RemovePacket
<1> HIDE DEF packets, stored
<1>2. /\ DOMAIN c = Fields
      /\ c.timers = timers /\ c.event = e /\ c.counters = counters
      /\ c.fading = b.fading /\ c.most = b.most
  BY <1>1 DEF SoundBuffer, Fields
<1>3. MaxTime \in Nat \ {0}
  BY BufferAssumption
<1>4. /\ DOMAIN timers = DOMAIN b.timers \ {id}
      /\ \A other \in DOMAIN timers : timers[other] = b.timers[other]
      /\ timers = [other \in DOMAIN timers |-> timers[other]]
  BY DEF Only
<1> HIDE DEF timers
<1>5. timers \in [DOMAIN timers -> Int]
  BY <1>4, OverdueLimit
<1>6. \A other \in DOMAIN timers : timers[other] <= MaxTime /\ -timers[other] < MaxTime
  BY <1>4, OverdueLimit
<1>7. e \in Scheduled(timers) \/ (e = b.event /\ Earliest(b.timers) # {})
  BY <1>1
<1>8. /\ e \in 0..MaxTime
      /\ \A other \in DOMAIN timers : e - timers[other] < MaxTime
  <2>1. CASE e \in Scheduled(timers)
    BY <2>1, <1>5, <1>6, ScheduledInTime
  <2>2. CASE e = b.event /\ Earliest(b.timers) # {}
    BY <2>2, <1>4 DEF Earliest, SoundBuffer, OnItsWay, NoEvent
  <2> QED
    BY <1>7, <2>1, <2>2
<1>9. counters \in [Id -> [value : Nat, left : Int]] /\ (b.fading > 0 => counters = b.counters)
  BY RemovedCounters
<1> HIDE DEF counters
<1>10. OnItsWay(c)
  BY <1>2, <1>6, <1>8 DEF OnItsWay, NoEvent
<1>11. SoundBuffer(c)
  BY <1>10, <1>2, <1>5, <1>8, <1>9 DEF SoundBuffer
<1>12. CountersKept(b, c)
  BY <1>2, <1>9 DEF CountersKept, SoundBuffer
<1> QED
  BY <1>2, <1>4, <1>11, <1>12 DEF Stored

\* CbfPacketBuffer::update never lets a timer run behind the event.
LEMMA UpdateSound ==
  ASSUME NEW b, SoundBuffer(b), NEW id \in Id, Stored(b, id), NEW timeout \in 1..MaxTime
  PROVE  LET c == UpdateTimer(b, id, timeout) IN
         SoundBuffer(c) /\ CountersKept(b, c) /\ Stored(c, id)
<1> DEFINE c == UpdateTimer(b, id, timeout)
           timers == [b.timers EXCEPT ![id] = timeout]
           counters == CounterIncremented(b, id)
<1>1. /\ DOMAIN c = Fields
      /\ c.timers = timers /\ c.event = b.event /\ c.counters = counters
      /\ c.fading = b.fading /\ c.most = b.most
  BY DEF UpdateTimer, SoundBuffer, Fields
<1>2. MaxTime \in Nat \ {0}
  BY BufferAssumption
<1>3. /\ timers \in [DOMAIN timers -> Int] /\ DOMAIN timers = DOMAIN b.timers
      /\ \A other \in DOMAIN timers : timers[other] = IF other = id THEN timeout ELSE b.timers[other]
  BY DEF SoundBuffer, Stored
<1>4. b.event \in 0..MaxTime
  BY DEF SoundBuffer, OnItsWay, Stored, NoEvent
<1> HIDE DEF c, timers
<1>5. OnItsWay(c)
  BY <1>1, <1>2, <1>3, <1>4 DEF OnItsWay, SoundBuffer, NoEvent
<1>6. /\ counters \in [Id -> [value : Nat, left : Int]]
      /\ counters[id].value = OneMoreThan(b.counters[id].value, b.most)
      /\ counters[id].left = IF b.counters[id].left < 0 THEN b.fading ELSE b.counters[id].left
      /\ \A other \in Id \ {id} : counters[other] = b.counters[other]
  <2>1. b.counters \in [Id -> [value : Nat, left : Int]] /\ b.most \in Nat /\ b.fading \in Nat
    BY DEF SoundBuffer
  <2>2. OneMoreThan(b.counters[id].value, b.most) \in Nat
    BY <2>1 DEF OneMoreThan
  <2> QED
    BY <2>1, <2>2 DEF CounterIncremented
<1> HIDE DEF counters
<1>7. SoundBuffer(c)
  BY <1>1, <1>3, <1>4, <1>5, <1>6 DEF SoundBuffer
<1>8. CountersKept(b, c)
  <2>1. b.counters \in [Id -> [value : Nat, left : Int]] /\ b.most \in Nat
    BY DEF SoundBuffer
  <2> QED
    BY <2>1, <1>1, <1>6 DEF CountersKept, OneMoreThan
<1> QED
  BY <1>1, <1>3, <1>7, <1>8 DEF Stored, c

\* CbfPacketBuffer::flush schedules an event for the timers it leaves.
LEMMA FlushSound ==
  ASSUME NEW b, SoundBuffer(b), NEW c \in Flush(b)
  PROVE  SoundBuffer(c) /\ CountersKept(b, c)
<1> DEFINE due      == Expired(b)
           timers   == Only(b.timers, DOMAIN b.timers \ due)
           packets  == ListWithout(b.packets, due)
           stored   == b.stored - Bytes(due)
           counters == CountersRemoved(b, due)
<1>1. PICK e \in IF timers = <<>> THEN {NoEvent} ELSE Scheduled(timers) :
        c = [b EXCEPT !.packets = packets, !.timers = timers, !.stored = stored,
                      !.event = e, !.counters = counters]
  BY DEF Flush
<1> HIDE DEF packets, stored
<1>2. /\ DOMAIN c = Fields
      /\ c.timers = timers /\ c.event = e /\ c.counters = counters
      /\ c.fading = b.fading /\ c.most = b.most
  BY <1>1 DEF SoundBuffer, Fields
<1>3. MaxTime \in Nat \ {0}
  BY BufferAssumption
<1>4. /\ DOMAIN timers \subseteq DOMAIN b.timers
      /\ \A other \in DOMAIN timers : timers[other] = b.timers[other]
      /\ timers = [other \in DOMAIN timers |-> timers[other]]
  BY DEF Only
<1> HIDE DEF timers
<1>5. timers \in [DOMAIN timers -> Int]
  BY <1>4, OverdueLimit
<1>6. \A other \in DOMAIN timers : timers[other] <= MaxTime /\ -timers[other] < MaxTime
  BY <1>4, OverdueLimit
<1>7. /\ e \in 0..MaxTime \union {NoEvent}
      /\ \A id \in DOMAIN timers : e \in 0..MaxTime /\ e - timers[id] < MaxTime
  <2>1. CASE timers = <<>>
    BY <2>1, <1>1
  <2>2. CASE e \in Scheduled(timers)
    BY <2>2, <1>5, <1>6, ScheduledInTime
  <2> QED
    BY <1>1, <2>1, <2>2
<1>8. counters \in [Id -> [value : Nat, left : Int]] /\ (b.fading > 0 => counters = b.counters)
  BY RemovedCounters
<1> HIDE DEF counters
<1>9. OnItsWay(c)
  BY <1>2, <1>6, <1>7 DEF OnItsWay, NoEvent
<1>10. SoundBuffer(c)
  BY <1>9, <1>2, <1>5, <1>7, <1>8 DEF SoundBuffer
<1>11. CountersKept(b, c)
  BY <1>2, <1>8 DEF CountersKept, SoundBuffer
<1> QED
  BY <1>10, <1>11

\* As long as the event is not due, time may pass.
LEMMA ElapsedSound ==
  ASSUME NEW b, SoundBuffer(b), b.event # 0
  PROVE  LET c == Elapsed(b) IN
         /\ SoundBuffer(c)
         /\ c.fading = b.fading /\ c.most = b.most
         /\ \A id \in Id : c.counters[id].value = b.counters[id].value
         /\ \A id \in Id : b.counters[id].left >= 0 => c.counters[id].left >= b.counters[id].left - 1
<1> DEFINE c == Elapsed(b)
           timers == [id \in DOMAIN b.timers |-> b.timers[id] - 1]
           event == IF b.event = NoEvent THEN NoEvent ELSE b.event - 1
           counters == [id \in Id |-> IF b.counters[id].value = 0 \/ b.counters[id].left < 0 \/ b.fading = 0
                                      THEN b.counters[id]
                                      ELSE [value |-> b.counters[id].value, left |-> b.counters[id].left - 1]]
<1>1. /\ DOMAIN c = Fields
      /\ c.timers = timers /\ c.event = event /\ c.counters = counters
      /\ c.fading = b.fading /\ c.most = b.most
  BY DEF Elapsed, SoundBuffer, Fields
<1>2. MaxTime \in Nat \ {0}
  BY BufferAssumption
<1>3. /\ timers \in [DOMAIN timers -> Int] /\ DOMAIN timers = DOMAIN b.timers
      /\ \A id \in DOMAIN timers : timers[id] = b.timers[id] - 1 /\ b.timers[id] \in Int
  BY OverdueLimit
<1>4. event \in 0..MaxTime \union {NoEvent}
  BY <1>2 DEF SoundBuffer, NoEvent
<1>5. \A id \in DOMAIN timers : event \in Nat /\ event = b.event - 1 /\ b.event \in Nat
  BY <1>3 DEF SoundBuffer, OnItsWay, NoEvent
<1> HIDE DEF c, timers, event
<1>6. OnItsWay(c)
  <2> SUFFICES ASSUME NEW id \in DOMAIN timers
               PROVE  /\ event # NoEvent
                      /\ timers[id] <= MaxTime
                      /\ event - timers[id] < MaxTime
    BY <1>1 DEF OnItsWay
  <2>1. b.timers[id] <= MaxTime /\ b.event - b.timers[id] < MaxTime
    BY <1>3 DEF SoundBuffer, OnItsWay
  <2> QED
    BY <2>1, <1>2, <1>3, <1>5 DEF NoEvent
<1>7. b.counters \in [Id -> [value : Nat, left : Int]]
  BY DEF SoundBuffer
<1>8. counters \in [Id -> [value : Nat, left : Int]]
  BY <1>7
<1>9. \A id \in Id : /\ counters[id].value = b.counters[id].value
                     /\ counters[id].left >= b.counters[id].left - 1
  BY <1>7
<1> HIDE DEF counters
<1>10. SoundBuffer(c)
  BY <1>1, <1>3, <1>4, <1>6, <1>8 DEF SoundBuffer
<1> QED
  BY <1>1, <1>9, <1>10 DEF c

-----------------------------------------------------------------------------
\* Whatever algorithm a copy is left to, the buffer stays sound.
LEMMA ForwardedSound ==
  ASSUME NEW b, SoundBuffer(b), NEW id \in Id, NEW timeout \in 1..MaxTime,
         NEW maxCounter, NEW near, NEW c,
         \/ c \in AreaCbf(b, id, timeout, maxCounter)
         \/ c \in AreaAdvanced(b, id, timeout, maxCounter, near)
         \/ c \in NonAreaCbf(b, id, timeout, near)
         \/ c = b
  PROVE  SoundBuffer(c) /\ CountersKept(b, c)
<1>1. CASE c \in RemovePacket(b, id)
  BY <1>1, RemoveSound
<1>2. CASE ~Stored(b, id) /\ c \in AddPacket(b, id, timeout)
  BY <1>2, AddSound
<1>3. CASE Stored(b, id) /\ c = UpdateTimer(b, id, timeout)
  BY <1>3, UpdateSound
<1>4. CASE c = b
  <2>1. b.counters \in [Id -> [value : Nat, left : Int]]
    BY DEF SoundBuffer
  <2> QED
    BY <1>4, <2>1 DEF CountersKept
<1>5. \/ c \in RemovePacket(b, id)
      \/ ~Stored(b, id) /\ c \in AddPacket(b, id, timeout)
      \/ Stored(b, id) /\ c = UpdateTimer(b, id, timeout)
      \/ c = b
  BY DEF AreaCbf, AreaAdvanced, NonAreaCbf
<1> QED
  BY <1>1, <1>2, <1>3, <1>4, <1>5

\* A row that lasts has a counter that lasts as long and has counted it.
RowCounted(id) ==
  /\ row[id] \in [length : Nat, left : Int]
  /\ row[id].left \in -1..mib.fading
  /\ IF row[id].left < 0 THEN row[id].length = 0
     ELSE /\ mib.fading > 0
          /\ row[id].length <= mib.maxCounter
          /\ buffer.counters[id].left >= row[id].left
          /\ buffer.counters[id].value >= row[id].length

RouterInv ==
  /\ SoundBuffer(buffer)
  /\ mib.maxCounter \in Nat \ {0}
  /\ mib.fading \in Nat
  /\ buffer.fading = mib.fading
  /\ buffer.most = mib.maxCounter + 1
  /\ row = [id \in Id |-> row[id]]
  /\ \A id \in Id : RowCounted(id)

\* The buffer of a router that starts is empty.
LEMMA RouterInitInv == RouterInit => RouterInv
<1> SUFFICES ASSUME RouterInit PROVE RouterInv
  OBVIOUS
<1>1. mib \in Mib
  BY RouterAssumption DEF RouterInit
<1>2. mib.maxCounter \in Nat \ {0} /\ mib.fading \in Nat
  BY <1>1 DEF Mib
<1>3. buffer = EmptyBuffer(mib.fading, mib.maxCounter + 1)
  BY DEF RouterInit
<1>4. DOMAIN buffer.timers = {}
  BY <1>3 DEF EmptyBuffer
<1>5. SoundBuffer(buffer)
  BY <1>2, <1>3, <1>4 DEF EmptyBuffer, SoundBuffer, OnItsWay, Fields, NoEvent, Absent
<1>6. row = [id \in Id |-> NoRow]
  BY DEF RouterInit
<1> QED
  BY <1>2, <1>3, <1>5, <1>6 DEF RouterInv, RowCounted, EmptyBuffer, NoRow

\* A buffer whose counters were kept still covers a row that was not changed.
LEMMA RowStaysCounted ==
  ASSUME RouterInv, SoundBuffer(buffer'), CountersKept(buffer, buffer'), UNCHANGED mib,
         NEW id \in Id, row'[id] = row[id]
  PROVE  RowCounted(id)'
<1>1. /\ buffer.counters[id] \in [value : Nat, left : Int]
      /\ buffer'.counters[id] \in [value : Nat, left : Int]
  BY DEF RouterInv, SoundBuffer
<1>2. RowCounted(id) /\ mib.fading \in Nat /\ mib.maxCounter \in Nat
  BY DEF RouterInv
<1>3. CASE row[id].left < 0
  BY <1>2, <1>3 DEF RowCounted
<1>4. CASE ~(row[id].left < 0)
  <2>1. /\ row[id].length \in Nat /\ row[id].left \in Int
        /\ row[id].left <= mib.fading /\ mib.fading > 0
        /\ row[id].length <= mib.maxCounter
        /\ buffer.counters[id].left >= row[id].left
        /\ buffer.counters[id].value >= row[id].length
    BY <1>2, <1>4 DEF RowCounted
  <2>2. /\ buffer.fading = mib.fading /\ buffer.most = mib.maxCounter + 1
    BY DEF RouterInv
  <2>3. buffer.counters[id].left >= 0 /\ buffer.fading > 0
    BY <1>1, <1>4, <2>1, <2>2
  <2>4. /\ buffer'.counters[id].left >= buffer.counters[id].left \/ buffer'.counters[id].left = mib.fading
        /\ buffer'.counters[id].value >= buffer.counters[id].value \/ buffer'.counters[id].value >= mib.maxCounter + 1
    BY <2>2, <2>3 DEF CountersKept
  <2> QED
    BY <1>1, <1>2, <1>4, <2>1, <2>4 DEF RowCounted
<1> QED
  BY <1>3, <1>4

\* A step that keeps the buffer sound and opens no row keeps the invariant.
LEMMA SoundStep ==
  ASSUME RouterInv, SoundBuffer(buffer'), CountersKept(buffer, buffer'), UNCHANGED <<mib, row>>
  PROVE  RouterInv'
<1>1. \A id \in Id : RowCounted(id)'
  BY RowStaysCounted
<1> QED
  BY <1>1 DEF RouterInv, CountersKept

\* A contention is only added to a row that has not reached the maximum.
LEMMA CbfStep ==
  ASSUME RouterInv, NEW id \in Id, NEW timeout \in 1..MaxTime,
         buffer' \in AreaCbf(buffer, id, timeout, mib.maxCounter), CountRow(id), UNCHANGED mib
  PROVE  RouterInv'
<1>1. SoundBuffer(buffer)
  BY DEF RouterInv
<1>2. SoundBuffer(buffer') /\ CountersKept(buffer, buffer')
  BY <1>1, ForwardedSound
<1>3. CASE ~(Fading /\ ~Stored(buffer, id) /\ Stored(buffer', id))
  <2>1. UNCHANGED row
    BY <1>3 DEF CountRow
  <2> QED
    BY <1>2, <2>1, SoundStep
<1>4. CASE Fading /\ ~Stored(buffer, id) /\ Stored(buffer', id)
  <2>1. CounterOf(buffer, id) < mib.maxCounter /\ buffer' \in AddPacket(buffer, id, timeout)
    <3>1. buffer' # buffer
      BY <1>4
    <3>2. ~(CounterOf(buffer, id) >= mib.maxCounter) /\ buffer' \in AddPacket(buffer, id, timeout)
      BY <1>4, <3>1 DEF AreaCbf
    <3>3. CounterOf(buffer, id) \in Int /\ mib.maxCounter \in Int
      BY DEF RouterInv, SoundBuffer, CounterOf
    <3> QED
      BY <3>2, <3>3
  <2>2. mib.fading > 0 /\ mib.fading \in Nat /\ mib.maxCounter \in Nat \ {0}
    BY <1>4 DEF Fading, RouterInv
  <2>3. /\ buffer'.counters[id].left = mib.fading
        /\ buffer'.counters[id].value = OneMoreThan(buffer.counters[id].value, mib.maxCounter + 1)
    BY <1>1, <1>4, <2>1, <2>2, AddSound DEF RouterInv
  <2>4. row' = [row EXCEPT ![id] =
          [length |-> IF @.left < 0 THEN 1 ELSE OneMoreThan(@.length, mib.maxCounter + 1),
           left   |-> mib.fading]]
    BY <1>4 DEF CountRow
  <2>5. row = [other \in Id |-> row[other]] /\ RowCounted(id)
    BY DEF RouterInv
  <2>6. row' = [other \in Id |-> row'[other]]
    BY <2>4, <2>5
  <2>7. row'[id] = [length |-> IF row[id].left < 0 THEN 1
                               ELSE OneMoreThan(row[id].length, mib.maxCounter + 1),
                    left |-> mib.fading]
    BY <2>4, <2>5
  <2>8. buffer.counters[id] \in [value : Nat, left : Int]
    BY <1>1 DEF SoundBuffer
  <2>9. RowCounted(id)'
    <3>1. CASE row[id].left < 0
      BY <3>1, <2>2, <2>3, <2>7, <2>8 DEF RowCounted, OneMoreThan
    <3>2. CASE ~(row[id].left < 0)
      <4>1. /\ row[id].length \in Nat
            /\ buffer.counters[id].left >= 0
            /\ buffer.counters[id].value >= row[id].length
        BY <3>2, <2>5, <2>8 DEF RowCounted
      <4>2. buffer.counters[id].value < mib.maxCounter
        BY <4>1, <2>1, <2>8 DEF CounterOf
      <4>3. /\ OneMoreThan(row[id].length, mib.maxCounter + 1) = row[id].length + 1
            /\ OneMoreThan(buffer.counters[id].value, mib.maxCounter + 1) = buffer.counters[id].value + 1
        BY <4>1, <4>2, <2>2, <2>8 DEF OneMoreThan
      <4> QED
        BY <3>2, <4>1, <4>2, <4>3, <2>2, <2>3, <2>7, <2>8 DEF RowCounted
    <3> QED
      BY <3>1, <3>2
  <2>10. \A other \in Id \ {id} : RowCounted(other)'
    BY <1>2, <2>4, <2>5, RowStaysCounted
  <2> QED
    BY <1>2, <2>6, <2>9, <2>10 DEF RouterInv, CountersKept
<1> QED
  BY <1>3, <1>4

\* A unit of time ages counters and rows alike.
LEMMA TickStep ==
  ASSUME RouterInv, TimePasses
  PROVE  RouterInv'
<1>1. SoundBuffer(buffer) /\ buffer.event # 0 /\ buffer' = Elapsed(buffer) /\ UNCHANGED mib
  BY DEF RouterInv, TimePasses, config
<1>2. /\ SoundBuffer(buffer')
      /\ buffer'.fading = buffer.fading /\ buffer'.most = buffer.most
      /\ \A id \in Id : buffer'.counters[id].value = buffer.counters[id].value
      /\ \A id \in Id : buffer.counters[id].left >= 0 =>
           buffer'.counters[id].left >= buffer.counters[id].left - 1
  BY <1>1, ElapsedSound
<1>3. row' = [id \in Id |-> IF row[id].left <= 0 THEN NoRow ELSE [row[id] EXCEPT !.left = @ - 1]]
  BY DEF TimePasses
<1>4. ASSUME NEW id \in Id PROVE RowCounted(id)'
  <2>1. RowCounted(id) /\ mib.fading \in Nat
    BY DEF RouterInv
  <2>2. /\ buffer.counters[id] \in [value : Nat, left : Int]
        /\ buffer'.counters[id] \in [value : Nat, left : Int]
    BY <1>1, <1>2 DEF SoundBuffer
  <2>3. row[id] \in [length : Nat, left : Int]
    BY <2>1 DEF RowCounted
  <2>4. CASE row[id].left <= 0
    <3>1. row'[id] = [length |-> 0, left |-> -1]
      BY <1>3, <2>4 DEF NoRow
    <3> QED
      BY <3>1, <1>1, <2>1 DEF RowCounted
  <2>5. CASE ~(row[id].left <= 0)
    <3>1. row'[id] = [row[id] EXCEPT !.left = @ - 1]
      BY <1>3, <2>5
    <3>2. /\ row'[id] \in [length : Nat, left : Int]
          /\ row'[id].left = row[id].left - 1
          /\ row'[id].length = row[id].length
      BY <3>1, <2>3
    <3>3. /\ mib.fading > 0
          /\ row[id].left <= mib.fading
          /\ row[id].length <= mib.maxCounter
          /\ buffer.counters[id].left >= row[id].left
          /\ buffer.counters[id].value >= row[id].length
      BY <2>1, <2>3, <2>5 DEF RowCounted
    <3>4. buffer'.counters[id].left >= buffer.counters[id].left - 1
      BY <1>2, <2>2, <2>3, <2>5, <3>3
    <3>5. buffer'.counters[id].value = buffer.counters[id].value
      BY <1>2
    <3> QED
      BY <1>1, <2>1, <2>2, <2>3, <2>5, <3>2, <3>3, <3>4, <3>5 DEF RowCounted
  <2> QED
    BY <2>4, <2>5
<1>5. row' = [id \in Id |-> row'[id]]
  BY <1>3
<1> QED
  BY <1>1, <1>2, <1>4, <1>5 DEF RouterInv

\* Every step of the router keeps the buffer sound.
LEMMA RouterNextKeepsInv ==
  RouterInv /\ traffic \in SUBSET Id /\ [RouterNext]_routerVars =>
    RouterInv' /\ traffic' \in SUBSET Id
<1> SUFFICES ASSUME RouterInv, traffic \in SUBSET Id, [RouterNext]_routerVars
             PROVE  RouterInv' /\ traffic' \in SUBSET Id
  OBVIOUS
<1>1. SoundBuffer(buffer)
  BY DEF RouterInv
<1>2. Timeouts \subseteq 1..MaxTime
  BY RouterAssumption
<1>3. ASSUME UNCHANGED <<mib, buffer, row>> PROVE RouterInv'
  <2>1. buffer.counters \in [Id -> [value : Nat, left : Int]]
    BY <1>1 DEF SoundBuffer
  <2>2. CountersKept(buffer, buffer')
    BY <1>3, <2>1 DEF CountersKept
  <2> QED
    BY <1>1, <1>3, <2>2, SoundStep
<1>4. ASSUME NEW id \in Id, Indicate(id) PROVE RouterInv'
  <2>1. UNCHANGED mib
    BY <1>4 DEF Indicate, config
  <2>2. PICK timeout \in Timeouts, near \in BOOLEAN :
          ForwardInside(id, timeout, near) \/ ForwardOutside(id, timeout, near)
    BY <1>4 DEF Indicate
  <2>3. timeout \in 1..MaxTime
    BY <1>2
  <2>4. CASE UNCHANGED <<buffer, row>>
    BY <1>3, <2>1, <2>4
  <2>5. CASE buffer' \in AreaCbf(buffer, id, timeout, mib.maxCounter) /\ CountRow(id)
    BY <2>1, <2>3, <2>5, CbfStep
  <2>6. CASE /\ \/ buffer' \in AreaAdvanced(buffer, id, timeout, mib.maxCounter, near)
                \/ buffer' \in NonAreaCbf(buffer, id, timeout, near)
             /\ UNCHANGED row
    <3>1. SoundBuffer(buffer') /\ CountersKept(buffer, buffer')
      BY <1>1, <2>3, <2>6, ForwardedSound
    <3> QED
      BY <2>1, <2>6, <3>1, SoundStep
  <2> QED
    BY <2>2, <2>4, <2>5, <2>6 DEF ForwardInside, ForwardOutside
<1>5. ASSUME Expire PROVE RouterInv'
  <2>1. buffer' \in Flush(buffer) /\ UNCHANGED <<mib, row>>
    BY <1>5 DEF Expire, config
  <2>2. SoundBuffer(buffer') /\ CountersKept(buffer, buffer')
    BY <1>1, <2>1, FlushSound
  <2> QED
    BY <2>1, <2>2, SoundStep
<1>6. ASSUME NEW id \in Id, IndicateStopped(id) PROVE RouterInv'
  BY <1>3, <1>6 DEF IndicateStopped, config
<1>7. ASSUME ForgetSource \/ Move \/ UNCHANGED routerVars PROVE RouterInv'
  BY <1>3, <1>7 DEF ForgetSource, Move, routerVars, config
<1>8. ASSUME TimePasses PROVE RouterInv'
  BY <1>8, TickStep
<1>9. ASSUME \E id \in traffic : Indicate(id) \/ IndicateStopped(id) PROVE RouterInv'
  BY <1>4, <1>6, <1>9
<1>10. traffic' = traffic
  BY DEF RouterNext, Indicate, IndicateStopped, ForgetSource, Move, Expire, TimePasses,
         config, routerVars
<1> QED
  BY <1>5, <1>7, <1>8, <1>9, <1>10 DEF RouterNext

\* The inductive invariant: the buffer is sound and every fading counter covers
\* the contentions in its row, whatever Router does with a copy.
THEOREM BufferInductive == RouterSpec => [](RouterInv /\ traffic \in SUBSET Id)
<1> DEFINE Inv == RouterInv /\ traffic \in SUBSET Id
<1>1. RouterInit => Inv
  BY RouterInitInv, RouterAssumption DEF RouterInit
<1>2. Inv /\ [RouterNext]_routerVars => Inv'
  BY RouterNextKeepsInv
<1> QED
  BY <1>1, <1>2, PTL DEF RouterSpec

\* CbfPacketBuffer: while packets contend an event is scheduled, and it is
\* never late by the longest timeout.
THEOREM NeverStalls == RouterSpec => []NeverStalled
<1>1. RouterInv => NeverStalled
  BY DEF RouterInv, SoundBuffer, OnItsWay, NeverStalled
<1> QED
  BY <1>1, BufferInductive, PTL

\* CbfCounterFading: a packet contends no more than the maximum number of times
\* before a lifetime passes without a contention.
THEOREM FadingIsLimited == RouterSpec => []FadingLimits
<1>1. RouterInv => FadingLimits
  <2> SUFFICES ASSUME RouterInv, NEW id \in Id PROVE row[id].length <= mib.maxCounter
    BY DEF FadingLimits
  <2> QED
    BY DEF RouterInv, RowCounted
<1> QED
  BY <1>1, BufferInductive, PTL
-----------------------------------------------------------------------------
(***************************************************************************)
(* Memory and duplicate packet list: the ids in the order in which they    *)
(* were last put there, each with all that came since; one that has been   *)
(* pushed out has seen the whole list come.                                *)
(***************************************************************************)
InList(list, id) == \E i \in 1..Len(list) : list[i] = id

InOrder(list, since, n) ==
  /\ list \in Seq(Id)
  /\ Len(list) <= n
  /\ \A i, j \in 1..Len(list) : list[i] = list[j] => i = j
  /\ since \in [Id -> SUBSET Id]
  /\ \A i \in 1..Len(list) : \A id \in Id :
       id \in since[list[i]] <=> \E k \in i..Len(list) : list[k] = id
  /\ \A id \in Id : ~InList(list, id) =>
       \/ since[id] = {}
       \/ /\ Len(list) = n
          /\ id \in since[id]
          /\ \A i \in 1..Len(list) : list[i] \in since[id]

\* What Newest makes of the packets seen since.
LEMMA NewestSince ==
  ASSUME NEW since \in [Id -> SUBSET Id], NEW id \in Id
  PROVE  /\ Newest(since, id) \in [Id -> SUBSET Id]
         /\ Newest(since, id)[id] = {id}
         /\ \A other \in Id : other # id =>
              Newest(since, id)[other] =
                IF since[other] = {} THEN {} ELSE since[other] \union {id}
  BY DEF Newest

\* A new id pushes out the oldest one of a full list.
LEMMA PushedInOrder ==
  ASSUME NEW list, NEW since, NEW n \in Nat \ {0}, NEW id \in Id,
         InOrder(list, since, n), ~InList(list, id)
  PROVE  InOrder(Pushed(list, id, n), Newest(since, id), n)
<1> DEFINE excess == IF Len(list) < n THEN 0 ELSE Len(list) - n + 1
           l == Pushed(list, id, n)
           m == Len(list) - excess
           s == Newest(since, id)
<1>1. /\ list \in Seq(Id) /\ Len(list) \in Nat /\ Len(list) <= n
      /\ excess \in {0, 1} /\ excess <= Len(list) /\ m \in Nat /\ m = Len(list) - excess
      /\ excess = 1 <=> Len(list) = n
      /\ excess = 1 => m + 1 = n
      /\ m < n
  BY DEF InOrder
<1>2. l = Append(SubSeq(list, excess + 1, Len(list)), id)
  BY DEF Pushed
<1>3. /\ s \in [Id -> SUBSET Id]
      /\ s[id] = {id}
      /\ \A other \in Id : other # id =>
           s[other] = IF since[other] = {} THEN {} ELSE since[other] \union {id}
  <2>1. since \in [Id -> SUBSET Id]
    BY DEF InOrder
  <2> QED
    BY <2>1, NewestSince, Zenon
<1> HIDE DEF l, s, excess, m
<1>4. /\ l \in Seq(Id) /\ Len(l) = m + 1
      /\ \A i \in 1..m : l[i] = list[i + excess] /\ i + excess \in 1..Len(list)
      /\ l[m + 1] = id
  <2>1. /\ SubSeq(list, excess + 1, Len(list)) \in Seq(Id)
        /\ Len(SubSeq(list, excess + 1, Len(list))) = m
    BY <1>1
  <2>2. \A i \in 1..m : /\ SubSeq(list, excess + 1, Len(list))[i] = list[i + excess]
                        /\ i + excess \in 1..Len(list)
    BY <1>1
  <2> QED
    BY <1>1, <1>2, <2>1, <2>2
<1>5. ASSUME NEW i \in 1..Len(l) PROVE i \in Int /\ i <= m + 1 /\ (i = m + 1 \/ i \in 1..m)
  BY <1>1, <1>4, <1>5
<1>6. \A i \in 1..Len(list) : list[i] \in Id /\ list[i] # id
  BY <1>1 DEF InList
<1>7. ASSUME NEW i \in 1..Len(l), NEW j \in 1..Len(l), l[i] = l[j] PROVE i = j
  <2>1. \A k \in 1..m : l[k] # id
    BY <1>6, <1>4
  <2>2. CASE i = m + 1 \/ j = m + 1
    BY <1>7, <1>4, <1>5, <2>1, <2>2
  <2>3. CASE i \in 1..m /\ j \in 1..m
    <3>1. i + excess = j + excess
      BY <1>7, <1>4, <2>3 DEF InOrder
    <3> QED
      BY <1>1, <2>3, <3>1
  <2> QED
    BY <1>5, <2>2, <2>3
<1>8. ASSUME NEW i \in 1..Len(l), NEW other \in Id
      PROVE  other \in s[l[i]] <=> \E k \in i..Len(l) : l[k] = other
  <2>1. CASE i = m + 1
    BY <1>1, <1>4, <1>3, <2>1
  <2>2. CASE i \in 1..m
    <3>9. m \in Nat /\ excess \in {0, 1} /\ Len(list) = m + excess /\ Len(l) = m + 1
      <4>1. \A x, y, z \in Nat : x = y - z => y = x + z
        OBVIOUS
      <4> QED
        BY <1>1, <1>4, <4>1
    <3>1. /\ i + excess \in 1..Len(list) /\ l[i] = list[i + excess]
          /\ list[i + excess] \in Id /\ list[i + excess] # id
      BY <1>4, <1>6, <2>2
    <3>2. list[i + excess] \in since[list[i + excess]]
      BY <3>1 DEF InOrder
    <3>3. s[l[i]] = since[list[i + excess]] \union {id}
      BY <1>3, <3>1, <3>2
    <3>4. other \in since[list[i + excess]] <=> \E k \in (i + excess)..Len(list) : list[k] = other
      BY <3>1 DEF InOrder
    <3>5. ASSUME NEW k \in (i + excess)..Len(list), list[k] = other
          PROVE  \E q \in i..Len(l) : l[q] = other
      <4>1. k - excess \in i..Len(l) /\ k - excess \in 1..m /\ (k - excess) + excess = k
        BY <2>2, <3>9
      <4> QED
        BY <1>4, <3>5, <4>1
    <3>6. ASSUME NEW q \in i..Len(l), l[q] = other
          PROVE  other \in s[l[i]]
      <4>1. CASE q = m + 1
        BY <1>4, <3>3, <3>6, <4>1
      <4>2. CASE q \in 1..m
        <5>1. q + excess \in (i + excess)..Len(list)
          BY <2>2, <3>6, <3>9, <4>2
        <5>2. list[q + excess] = other
          BY <1>4, <3>6, <4>2
        <5> QED
          BY <3>3, <3>4, <5>1, <5>2
      <4>3. q \in 1..Len(l)
        BY <1>4, <2>2, <3>6
      <4> QED
        BY <1>5, <4>1, <4>2, <4>3
    <3>7. id \in s[l[i]] /\ \E q \in i..Len(l) : l[q] = id
      BY <1>1, <1>4, <2>2, <3>3
    <3>8. ASSUME other \in s[l[i]] PROVE \E q \in i..Len(l) : l[q] = other
      <4>1. CASE other = id
        BY <3>7, <4>1
      <4>2. CASE other # id
        <5>1. PICK k \in (i + excess)..Len(list) : list[k] = other
          BY <3>3, <3>4, <3>8, <4>2
        <5> QED
          BY <3>5, <5>1
      <4> QED
        BY <4>1, <4>2
    <3> QED
      BY <3>6, <3>8
  <2> QED
    BY <1>5, <2>1, <2>2
<1>9. ASSUME NEW other \in Id, ~InList(l, other)
      PROVE  \/ s[other] = {}
             \/ /\ Len(l) = n
                /\ other \in s[other]
                /\ \A i \in 1..Len(l) : l[i] \in s[other]
  <2>1. other # id
    BY <1>1, <1>4, <1>9 DEF InList
  <2>2. s[other] = IF since[other] = {} THEN {} ELSE since[other] \union {id}
    BY <1>3, <2>1
  <2>3. CASE InList(list, other)
    <3>1. PICK p \in 1..Len(list) : list[p] = other
      BY <2>3 DEF InList
    <3>2. p = 1 /\ excess = 1
      <4>1. SUFFICES ASSUME p > excess PROVE FALSE
        BY <1>1
      <4>2. p - excess \in 1..m /\ (p - excess) + excess = p
        BY <1>1, <4>1
      <4>3. l[p - excess] = other
        BY <1>4, <3>1, <4>2
      <4>4. p - excess \in 1..Len(l)
        BY <1>1, <1>4, <4>2
      <4> QED
        BY <1>9, <4>3, <4>4 DEF InList
    <3>3. \A q \in 1..Len(list) : list[q] \in since[other]
      BY <1>6, <3>1, <3>2 DEF InOrder
    <3>4. s[other] = since[other] \union {id} /\ other \in since[other]
      BY <2>2, <3>1, <3>3
    <3>5. ASSUME NEW i \in 1..Len(l) PROVE l[i] \in s[other]
      <4>1. CASE i = m + 1
        BY <1>4, <3>4, <4>1
      <4>2. CASE i \in 1..m
        BY <1>4, <3>3, <3>4, <4>2
      <4> QED
        BY <1>5, <4>1, <4>2
    <3> QED
      BY <1>1, <1>4, <3>2, <3>4, <3>5
  <2>4. CASE ~InList(list, other) /\ since[other] # {}
    <3>1. /\ Len(list) = n
          /\ other \in since[other]
          /\ \A i \in 1..Len(list) : list[i] \in since[other]
      BY <2>4 DEF InOrder
    <3>2. ASSUME NEW i \in 1..Len(l) PROVE l[i] \in s[other]
      <4>1. s[other] = since[other] \union {id}
        BY <2>2, <2>4
      <4>2. CASE i = m + 1
        BY <1>4, <4>1, <4>2
      <4>3. CASE i \in 1..m
        BY <1>4, <3>1, <4>1, <4>3
      <4> QED
        BY <1>5, <4>2, <4>3
    <3> QED
      BY <1>1, <1>4, <2>2, <2>4, <3>1, <3>2
  <2> QED
    BY <2>2, <2>3, <2>4
<1>10. Len(l) <= n
  BY <1>1, <1>2
<1> QED
  BY <1>4, <1>3, <1>7, <1>8, <1>9, <1>10 DEF InOrder, l, s

\* An id that is there moves to the end.
LEMMA MovedInOrder ==
  ASSUME NEW list, NEW since, NEW n \in Nat, NEW id \in Id,
         InOrder(list, since, n), InList(list, id)
  PROVE  InOrder(Append(RemoveAt(list, Place(list, id)), id), Newest(since, id), n)
<1> DEFINE p == Place(list, id)
           l == Append(RemoveAt(list, p), id)
           s == Newest(since, id)
           m == Len(list)
           At(i) == IF i < p THEN i ELSE i + 1
<1>1. list \in Seq(Id) /\ m \in Nat /\ m <= n
  BY DEF InOrder
<1>2. p \in 1..m /\ list[p] = id
  <2>1. \E i \in DOMAIN list : list[i] = id
    BY <1>1 DEF InList
  <2> QED
    BY <1>1, <2>1 DEF Place
<1>3. /\ s \in [Id -> SUBSET Id]
      /\ s[id] = {id}
      /\ \A other \in Id : other # id =>
           s[other] = IF since[other] = {} THEN {} ELSE since[other] \union {id}
  <2>1. since \in [Id -> SUBSET Id]
    BY DEF InOrder
  <2> QED
    BY <2>1, NewestSince, Zenon
<1> HIDE DEF p, s
<1>4. /\ l \in Seq(Id) /\ Len(l) = m
      /\ \A i \in 1..(m - 1) : l[i] = list[At(i)] /\ At(i) \in 1..m /\ At(i) # p
      /\ l[m] = id
  <2> DEFINE front == SubSeq(list, 1, p - 1)
             back  == SubSeq(list, p + 1, m)
  <2>1. /\ front \in Seq(Id) /\ Len(front) = p - 1
        /\ \A i \in 1..(p - 1) : front[i] = list[i]
    BY <1>1, <1>2
  <2>2. /\ back \in Seq(Id) /\ Len(back) = m - p
        /\ \A i \in 1..(m - p) : back[i] = list[i + p]
    BY <1>1, <1>2
  <2>3. l = Append(front \o back, id)
    BY DEF RemoveAt
  <2> HIDE DEF front, back
  <2>4. /\ front \o back \in Seq(Id)
        /\ Len(front \o back) = m - 1
        /\ \A i \in 1..(m - 1) : (front \o back)[i] = IF i < p THEN front[i] ELSE back[i - (p - 1)]
    <3>1. front \o back \in Seq(Id) /\ Len(front \o back) = Len(front) + Len(back)
      BY <2>1, <2>2
    <3>2. \A i \in 1..(Len(front) + Len(back)) :
            (front \o back)[i] = IF i <= Len(front) THEN front[i] ELSE back[i - Len(front)]
      BY <2>1, <2>2, ConcatProperties
    <3>3. Len(front) + Len(back) = m - 1 /\ \A i \in 1..(m - 1) : i <= p - 1 <=> i < p
      BY <1>1, <1>2, <2>1, <2>2
    <3> QED
      BY <2>1, <3>1, <3>2, <3>3
  <2>5. \A i \in 1..(m - 1) : (front \o back)[i] = list[At(i)] /\ At(i) \in 1..m /\ At(i) # p
    <3> SUFFICES ASSUME NEW i \in 1..(m - 1)
                 PROVE  (front \o back)[i] = list[At(i)] /\ At(i) \in 1..m /\ At(i) # p
      OBVIOUS
    <3>1. CASE i < p
      BY <1>1, <1>2, <2>1, <2>4, <3>1
    <3>2. CASE ~(i < p)
      <4>1. i - (p - 1) \in 1..(m - p) /\ (i - (p - 1)) + p = i + 1
        BY <1>1, <1>2, <3>2
      <4> QED
        BY <1>1, <1>2, <2>2, <2>4, <3>2, <4>1
    <3> QED
      BY <3>1, <3>2
  <2> HIDE DEF l
  <2> QED
    BY <1>1, <1>2, <2>3, <2>4, <2>5
<1>5. \A i \in 1..m : i = m \/ i \in 1..(m - 1)
  BY <1>1
<1>6. \A i, j \in 1..(m - 1) : At(i) = At(j) => i = j
  BY <1>1, <1>2
<1>7. ASSUME NEW k \in 1..m, k # p
      PROVE  \E q \in 1..(m - 1) : At(q) = k /\ l[q] = list[k] /\ \A i \in 1..(m - 1) : At(i) <= k => i <= q
  <2>1. CASE k < p
    <3>1. k \in 1..(m - 1) /\ At(k) = k /\ \A i \in 1..(m - 1) : At(i) <= k => i <= k
      BY <1>1, <1>2, <2>1
    <3> QED
      BY <1>4, <3>1
  <2>2. CASE k > p
    <3>1. k - 1 \in 1..(m - 1) /\ At(k - 1) = k /\ \A i \in 1..(m - 1) : At(i) <= k => i <= k - 1
      BY <1>1, <1>2, <2>2
    <3> QED
      BY <1>4, <3>1
  <2>3. k < p \/ k > p
    BY <1>1, <1>2, <1>7
  <2> QED
    BY <2>1, <2>2, <2>3
<1>8. \A i, q \in 1..(m - 1) : i <= q => At(i) <= At(q)
  BY <1>1, <1>2
<1> HIDE DEF l, At
<1>9. \A i \in 1..m : list[i] \in Id /\ (i # p => list[i] # id)
  BY <1>1, <1>2 DEF InOrder
<1>10. ASSUME NEW i \in 1..Len(l), NEW j \in 1..Len(l), l[i] = l[j] PROVE i = j
  <2>1. \A k \in 1..(m - 1) : l[k] # id
    BY <1>4, <1>9
  <2>2. CASE i = m \/ j = m
    BY <1>4, <1>5, <1>10, <2>1, <2>2
  <2>3. CASE i \in 1..(m - 1) /\ j \in 1..(m - 1)
    <3>1. At(i) = At(j)
      BY <1>4, <1>10, <2>3 DEF InOrder
    <3> QED
      BY <1>6, <2>3, <3>1
  <2> QED
    BY <1>4, <1>5, <2>2, <2>3
<1>11. ASSUME NEW i \in 1..Len(l), NEW other \in Id
       PROVE  other \in s[l[i]] <=> \E k \in i..Len(l) : l[k] = other
  <2>1. CASE i = m
    BY <1>1, <1>3, <1>4, <2>1
  <2>2. CASE i \in 1..(m - 1)
    <3>1. l[i] = list[At(i)] /\ At(i) \in 1..m /\ list[At(i)] \in Id /\ list[At(i)] # id
      BY <1>4, <1>9, <2>2
    <3>2. \A x \in Id : x \in since[list[At(i)]] <=> \E k \in At(i)..m : list[k] = x
      BY <1>1, <3>1 DEF InOrder
    <3>3. since[list[At(i)]] # {}
      BY <1>1, <3>1, <3>2
    <3>4. s[l[i]] = since[list[At(i)]] \union {id}
      BY <1>3, <3>1, <3>3
    <3>5. id \in s[l[i]] /\ \E q \in i..Len(l) : l[q] = id
      BY <1>1, <1>4, <2>2, <3>4
    <3>6. ASSUME other # id, NEW k \in At(i)..m, list[k] = other
          PROVE  \E q \in i..Len(l) : l[q] = other
      <4>1. k \in 1..m /\ k # p /\ At(i) <= k
        BY <1>1, <1>2, <3>1, <3>6
      <4>2. PICK q \in 1..(m - 1) : l[q] = list[k] /\ \A j \in 1..(m - 1) : At(j) <= k => j <= q
        BY <1>7, <4>1
      <4>3. q \in i..Len(l)
        BY <1>1, <1>4, <2>2, <4>1, <4>2
      <4> QED
        BY <3>6, <4>2, <4>3
    <3>7. ASSUME other # id, NEW q \in i..Len(l), l[q] = other
          PROVE  other \in s[l[i]]
      <4>1. q \in 1..m /\ q # m
        BY <1>1, <1>4, <2>2, <3>7
      <4>2. q \in 1..(m - 1) /\ i <= q
        BY <1>1, <1>4, <2>2, <4>1
      <4>3. At(q) \in At(i)..m /\ list[At(q)] = other
        BY <1>1, <1>4, <1>8, <2>2, <3>1, <3>7, <4>2
      <4> QED
        BY <3>2, <3>4, <4>3
    <3> QED
      BY <3>2, <3>4, <3>5, <3>6, <3>7
  <2> QED
    BY <1>4, <1>5, <2>1, <2>2
<1>12. ASSUME NEW other \in Id, ~InList(l, other)
       PROVE  \/ s[other] = {}
              \/ /\ Len(l) = n
                 /\ other \in s[other]
                 /\ \A i \in 1..Len(l) : l[i] \in s[other]
  <2>1. other # id
    BY <1>1, <1>2, <1>4, <1>12 DEF InList
  <2>2. ~InList(list, other)
    <3> SUFFICES ASSUME NEW k \in 1..m, list[k] = other PROVE FALSE
      BY DEF InList
    <3>1. PICK q \in 1..(m - 1) : l[q] = list[k]
      BY <1>2, <1>7, <2>1
    <3> QED
      BY <1>1, <1>4, <1>12, <3>1 DEF InList
  <2>3. s[other] = IF since[other] = {} THEN {} ELSE since[other] \union {id}
    BY <1>3, <2>1
  <2>4. CASE since[other] # {}
    <3>1. /\ m = n
          /\ other \in since[other]
          /\ \A i \in 1..m : list[i] \in since[other]
      BY <2>2, <2>4 DEF InOrder
    <3>2. \A i \in 1..Len(l) : l[i] \in s[other]
      BY <1>4, <1>5, <2>3, <2>4, <3>1
    <3> QED
      BY <1>4, <2>3, <2>4, <3>1, <3>2
  <2> QED
    BY <2>3, <2>4
<1> QED
  BY <1>1, <1>3, <1>4, <1>10, <1>11, <1>12 DEF InOrder, l, s, p

\* Who is in the list has few newer ones, who was pushed out has many.
LEMMA InOrderCounts ==
  ASSUME NEW list, NEW since, NEW n \in Nat, InOrder(list, since, n)
  PROVE  ToSet(list) = {id \in Id : Cardinality(since[id]) \in 1..n}
<1> DEFINE m == Len(list)
<1>1. list \in Seq(Id) /\ m \in Nat /\ m <= n /\ since \in [Id -> SUBSET Id]
  BY DEF InOrder
<1>2. \A i, j \in 1..m : list[i] = list[j] => i = j
  BY DEF InOrder
<1>3. IsFiniteSet(Id)
  BY BufferAssumption
<1>4. ASSUME NEW i \in 1..m
      PROVE  Cardinality({list[k] : k \in i..m}) = m - i + 1
  <2> DEFINE T == {list[k] : k \in i..m}
             f == [k \in 1..(m - i + 1) |-> list[k + (i - 1)]]
  <2>1. \A k \in 1..(m - i + 1) : k + (i - 1) \in i..m
    BY <1>1
  <2>2. f \in [1..(m - i + 1) -> T]
    BY <2>1
  <2>3. ASSUME NEW a \in 1..(m - i + 1), NEW b \in 1..(m - i + 1), f[a] = f[b] PROVE a = b
    <3>1. list[a + (i - 1)] = list[b + (i - 1)]
      BY <2>3
    <3>2. a + (i - 1) \in 1..m /\ b + (i - 1) \in 1..m
      BY <1>1, <2>1
    <3>3. a + (i - 1) = b + (i - 1)
      BY <1>2, <3>1, <3>2
    <3> QED
      BY <1>1, <3>3
  <2>4. ASSUME NEW t \in T PROVE \E a \in 1..(m - i + 1) : f[a] = t
    <3>1. PICK k \in i..m : t = list[k]
      OBVIOUS
    <3>2. k - (i - 1) \in 1..(m - i + 1) /\ (k - (i - 1)) + (i - 1) = k
      BY <1>1
    <3> QED
      BY <3>1, <3>2
  <2>5. ExistsBijection(1..(m - i + 1), T)
    BY <2>2, <2>3, <2>4
    DEF ExistsBijection, Bijection, Injection, IsInjective, Surjection
  <2> QED
    BY <1>1, <2>5, FS_CountingElements
<1>5. ASSUME NEW id \in Id, NEW i \in 1..m, list[i] = id
      PROVE  Cardinality(since[id]) \in 1..n
  <2>1. since[id] = {list[k] : k \in i..m}
    <3>1. since[id] \subseteq Id /\ {list[k] : k \in i..m} \subseteq Id
      BY <1>1
    <3>2. \A x \in Id : x \in since[id] <=> \E k \in i..m : list[k] = x
      BY <1>5 DEF InOrder
    <3> QED
      BY <3>1, <3>2
  <2> QED
    BY <1>1, <1>4, <2>1
<1>6. ASSUME NEW id \in Id, ~InList(list, id)
      PROVE  Cardinality(since[id]) \notin 1..n
  <2>1. CASE since[id] = {}
    BY <2>1, FS_EmptySet
  <2>2. CASE /\ m = n
             /\ id \in since[id]
             /\ \A i \in 1..m : list[i] \in since[id]
    <3> DEFINE T == {list[k] : k \in 1..m}
    <3>1. T \union {id} \subseteq since[id] /\ since[id] \subseteq Id /\ T \subseteq Id /\ id \notin T
      BY <1>1, <1>6, <2>2 DEF InList
    <3>2. IsFiniteSet(since[id]) /\ IsFiniteSet(T) /\ IsFiniteSet(T \union {id})
      BY <1>3, <3>1, FS_Subset
    <3>3. Cardinality(T) = m
      <4>1. CASE m = 0
        <5>1. T = {}
          BY <4>1
        <5> QED
          BY <4>1, <5>1, FS_EmptySet
      <4>2. CASE m # 0
        <5>1. 1 \in 1..m
          BY <1>1, <4>2
        <5> QED
          BY <1>1, <1>4, <5>1
      <4> QED
        BY <4>1, <4>2
    <3>4. Cardinality(T \union {id}) = m + 1
      BY <3>1, <3>2, <3>3, FS_AddElement
    <3>5. Cardinality(since[id]) >= m + 1
      BY <3>1, <3>2, <3>4, FS_Subset
    <3>6. Cardinality(since[id]) \in Nat
      BY <3>2, FS_CardinalityType
    <3> QED
      BY <1>1, <2>2, <3>5, <3>6
  <2> QED
    BY <1>6, <2>1, <2>2 DEF InOrder
<1>7. ToSet(list) = {list[k] : k \in 1..m}
  BY <1>1 DEF ToSet
<1> QED
  BY <1>1, <1>5, <1>6, <1>7 DEF InList

MemoryInv ==
  /\ mib \in Mib
  /\ traffic \subseteq Id
  /\ InOrder(gbcMemory, heard, mib.memory)
  /\ InOrder(dpl, listed, DPLLength)

\* A list nothing has been put into is in order.
LEMMA EmptyInOrder ==
  ASSUME NEW n \in Nat
  PROVE  InOrder(<<>>, [id \in Id |-> {}], n)
  BY DEF InOrder

\* Both lists of a router that starts are in order.
LEMMA MemoryInitial == RouterInit => MemoryInv
<1> SUFFICES ASSUME RouterInit PROVE MemoryInv
  OBVIOUS
<1>1. mib \in Mib /\ traffic \subseteq Id /\ DPLLength \in Nat
  BY RouterAssumption DEF RouterInit
<1>2. mib.memory \in Nat
  BY <1>1 DEF Mib
<1> QED
  BY <1>1, <1>2, EmptyInOrder DEF RouterInit, MemoryInv

\* Only NoDuplicate and DecidePassUp touch the lists, and both keep the order.
LEMMA MemoryKept == ASSUME MemoryInv, [RouterNext]_routerVars PROVE MemoryInv'
<1>1. mib \in Mib /\ traffic \subseteq Id /\ mib.memory \in Nat /\ DPLLength \in Nat \ {0}
  BY RouterAssumption DEF MemoryInv, Mib
<1>2. mib' = mib /\ traffic' = traffic
  BY DEF RouterNext, Indicate, IndicateStopped, ForgetSource, Move, Expire, TimePasses,
         config, routerVars
<1>3. ASSUME UNCHANGED memoryVars PROVE MemoryInv'
  BY <1>2, <1>3 DEF MemoryInv, memoryVars
<1>4. ASSUME NEW id \in Id, NoDuplicate(id), DecidePassUp(id) PROVE MemoryInv'
  <2>1. InOrder(dpl, listed, DPLLength)'
    <3>1. CASE DetectsDuplicates
      <4>1. ~InList(dpl, id)
        BY <1>4, <3>1 DEF NoDuplicate, InList, MemoryInv, InOrder, ToSet
      <4> QED
        BY <1>1, <1>4, <3>1, <4>1, PushedInOrder DEF NoDuplicate, MemoryInv
    <3>2. CASE ~DetectsDuplicates
      BY <1>4, <3>2 DEF NoDuplicate, MemoryInv
    <3> QED
      BY <3>1, <3>2
  <2>2. InOrder(gbcMemory, heard, mib.memory)'
    <3>1. CASE inside /\ mib.memory > 0
      <4>1. gbcMemory' = Appended(gbcMemory, id, mib.memory) /\ heard' = Newest(heard, id)
        BY <1>4, <3>1 DEF DecidePassUp
      <4>2. id \in ToSet(gbcMemory) <=> InList(gbcMemory, id)
        BY DEF InList, MemoryInv, InOrder, ToSet
      <4>3. mib.memory \in Nat \ {0}
        BY <1>1, <3>1
      <4>4. CASE InList(gbcMemory, id)
        BY <1>1, <1>2, <4>1, <4>2, <4>4, MovedInOrder DEF Appended, MemoryInv
      <4>5. CASE ~InList(gbcMemory, id)
        BY <1>2, <4>1, <4>2, <4>3, <4>5, PushedInOrder DEF Appended, MemoryInv
      <4> QED
        BY <4>4, <4>5
    <3>2. CASE ~(inside /\ mib.memory > 0)
      BY <1>2, <1>4, <3>2 DEF DecidePassUp, MemoryInv
    <3> QED
      BY <3>1, <3>2
  <2> QED
    BY <1>1, <1>2, <2>1, <2>2 DEF MemoryInv
<1>5. ASSUME NEW id \in traffic, Indicate(id) \/ IndicateStopped(id) PROVE MemoryInv'
  BY <1>1, <1>4, <1>5 DEF Indicate, IndicateStopped
<1>6. ASSUME ForgetSource PROVE MemoryInv'
  BY <1>1, <1>2, <1>6, EmptyInOrder DEF ForgetSource, MemoryInv
<1>7. ASSUME Move \/ Expire \/ TimePasses \/ UNCHANGED routerVars PROVE MemoryInv'
  BY <1>3, <1>7 DEF Move, Expire, TimePasses, routerVars
<1> QED
  BY <1>5, <1>6, <1>7 DEF RouterNext

\* GbcMemory and DuplicatePacketList: what they hold is exactly what was put
\* there most recently, whatever is repeated and whenever the list is dropped.
THEOREM RemembersMostRecent == RouterSpec => []MemoryIsMostRecent
<1>1. MemoryInv => MemoryIsMostRecent
  BY InOrderCounts, RouterAssumption DEF MemoryInv, Mib, MemoryIsMostRecent
<1>2. MemoryInv /\ [RouterNext]_routerVars => MemoryInv'
  BY MemoryKept
<1> QED
  BY <1>1, <1>2, MemoryInitial, PTL DEF RouterSpec
-----------------------------------------------------------------------------
(***************************************************************************)
(* List, timers, bytes and counters are about the same packets.            *)
(***************************************************************************)

\* The bytes of packets add up.
LEMMA BytesAddUp ==
  ASSUME NEW ids \in SUBSET Id
  PROVE  /\ Bytes(ids) \in Nat
         /\ \A part \in SUBSET ids : Bytes(ids) = Bytes(part) + Bytes(ids \ part)
         /\ \A id \in Id \ ids : Bytes(ids \union {id}) = Bytes(ids) + Length[id]
<1>1. IsFiniteSet(ids)
  BY BufferAssumption, FS_Subset
<1>2. \A id \in Id : Length[id] \in Nat
  BY BufferAssumption
<1>3. SumFunctionOnSet(Length, ids) \in Nat
  BY <1>1, <1>2, SumNatural
<1>4. \A part \in SUBSET ids :
        SumFunctionOnSet(Length, ids)
          = SumFunctionOnSet(Length, part) + SumFunctionOnSet(Length, ids \ part)
  BY <1>1, <1>2, SumSplit
<1>5. ASSUME NEW id \in Id \ ids
      PROVE  SumFunctionOnSet(Length, ids \union {id}) = SumFunctionOnSet(Length, ids) + Length[id]
  <2>1. SumFunctionOnSet(Length, ids \union {id}) = Length[id] + SumFunctionOnSet(Length, ids)
    BY <1>1, <1>2, SumWith
  <2> QED
    BY <1>2, <1>3, <2>1
<1> QED
  BY <1>3, <1>4, <1>5 DEF Bytes

LEMMA NoBytes == Bytes({}) = 0
BY SumEmpty DEF Bytes

LEMMA BytesOfOne == ASSUME NEW id \in Id PROVE Bytes({id}) = Length[id]
<1>1. Bytes({} \union {id}) = Bytes({}) + Length[id]
  BY BytesAddUp
<1>2. {} \union {id} = {id} /\ Length[id] \in Nat
  BY BufferAssumption
<1> QED
  BY <1>1, <1>2, NoBytes

-----------------------------------------------------------------------------
\* The recursion of ListWithout, on the first n places.
Leaves(g, list, ids, n) ==
  g = [i \in 0..n |-> IF i = 0 THEN <<>>
                      ELSE IF list[i] \in ids THEN g[i - 1] ELSE Append(g[i - 1], list[i])]

LEMMA LeavesAt ==
  ASSUME NEW list, NEW ids, NEW n, NEW g, Leaves(g, list, ids, n), NEW i \in 0..n
  PROVE  g[i] = IF i = 0 THEN <<>>
                ELSE IF list[i] \in ids THEN g[i - 1] ELSE Append(g[i - 1], list[i])
BY Zenon DEF Leaves

LEMMA LeavesExists ==
  ASSUME NEW list, NEW ids, NEW m \in Nat
  PROVE  \E g : Leaves(g, list, ids, m)
<1> DEFINE T == {n \in Nat : \E g : Leaves(g, list, ids, n)}
<1>1. 0 \in T
  <2> DEFINE g == [i \in 0..0 |-> <<>>]
  <2>1. Leaves(g, list, ids, 0)
    BY DEF Leaves
  <2> HIDE DEF g
  <2> QED
    BY <2>1
<1>2. ASSUME NEW n \in T PROVE n + 1 \in T
  <2>1. PICK g : Leaves(g, list, ids, n)
    OBVIOUS
  <2> DEFINE h == [i \in 0..(n + 1) |->
                     IF i = 0 THEN <<>>
                     ELSE IF list[i] \in ids THEN g[i - 1] ELSE Append(g[i - 1], list[i])]
  <2>2. \A i \in 0..n : i \in 0..(n + 1) /\ h[i] = g[i]
    <3>1. \A i \in 0..n :
            g[i] = IF i = 0 THEN <<>>
                   ELSE IF list[i] \in ids THEN g[i - 1] ELSE Append(g[i - 1], list[i])
      BY <2>1, LeavesAt
    <3> QED
      BY <3>1
  <2>3. \A i \in 0..(n + 1) : i # 0 => g[i - 1] = h[i - 1]
    <3>1. \A i \in 0..(n + 1) : i # 0 => i - 1 \in 0..n
      OBVIOUS
    <3> HIDE DEF h
    <3> QED
      BY <2>2, <3>1
  <2>4. Leaves(h, list, ids, n + 1)
    <3>1. h = [i \in 0..(n + 1) |->
                 IF i = 0 THEN <<>>
                 ELSE IF list[i] \in ids THEN h[i - 1] ELSE Append(h[i - 1], list[i])]
      BY <2>3
    <3> HIDE DEF h
    <3> QED
      BY <3>1 DEF Leaves
  <2> HIDE DEF h
  <2> QED
    BY <2>4
<1>3. T = Nat
  <2> HIDE DEF T
  <2>1. T \in SUBSET Nat
    BY DEF T
  <2> QED
    BY <1>1, <1>2, <2>1, InductiveSet
<1> QED
  BY <1>3

\* A list without repetitions and one that is not in it.
LEMMA AppendNew ==
  ASSUME NEW list \in Seq(Id), IsInjective(list), NEW id \in Id, id \notin ToSet(list)
  PROVE  /\ Append(list, id) \in Seq(Id)
         /\ IsInjective(Append(list, id))
         /\ ToSet(Append(list, id)) = ToSet(list) \union {id}
<1> DEFINE n == Len(list)
           l == Append(list, id)
<1>1. /\ n \in Nat /\ DOMAIN list = 1..n
      /\ l \in Seq(Id) /\ DOMAIN l = 1..(n + 1)
      /\ \A i \in 1..n : l[i] = list[i]
      /\ l[n + 1] = id
  OBVIOUS
<1> HIDE DEF n, l
<1>2. 1..(n + 1) = 1..n \union {n + 1}
  BY <1>1
<1>3. \A i \in 1..n : l[i] # id
  BY <1>1 DEF ToSet
<1>4. IsInjective(l)
  BY <1>1, <1>2, <1>3 DEF IsInjective
<1>5. ToSet(l) = ToSet(list) \union {id}
  <2>1. {l[i] : i \in 1..n \union {n + 1}} = {list[i] : i \in 1..n} \union {id}
    BY <1>1
  <2> QED
    BY <1>1, <1>2, <2>1 DEF ToSet
<1> QED
  BY <1>1, <1>4, <1>5 DEF l

\* What is left of a list without repetitions is one, and has the others.
LEMMA ListWithoutKeeps ==
  ASSUME NEW list \in Seq(Id), IsInjective(list), NEW ids
  PROVE  /\ ListWithout(list, ids) \in Seq(Id)
         /\ IsInjective(ListWithout(list, ids))
         /\ ToSet(ListWithout(list, ids)) = ToSet(list) \ ids
<1> DEFINE n == Len(list)
           g == CHOOSE g : Leaves(g, list, ids, n)
           T == {k \in Nat : k <= n =>
                   /\ g[k] \in Seq(Id)
                   /\ IsInjective(g[k])
                   /\ ToSet(g[k]) = {list[i] : i \in 1..k} \ ids}
<1>1. n \in Nat /\ DOMAIN list = 1..n /\ \A i \in 1..n : list[i] \in Id
  OBVIOUS
<1>2. Leaves(g, list, ids, n)
  BY <1>1, LeavesExists
<1>3. ListWithout(list, ids) = g[n]
  BY Zenon DEF ListWithout, Leaves
<1> HIDE DEF g
<1>4. /\ g[0] = <<>>
      /\ \A k \in 1..n : g[k] = IF list[k] \in ids THEN g[k - 1] ELSE Append(g[k - 1], list[k])
  <2>1. \A i \in 0..n : g[i] = IF i = 0 THEN <<>>
                                ELSE IF list[i] \in ids THEN g[i - 1] ELSE Append(g[i - 1], list[i])
    BY <1>2, LeavesAt
  <2> QED
    BY <1>1, <2>1
<1>5. 0 \in T
  <2>1. /\ <<>> \in Seq(Id) /\ IsInjective(<<>>) /\ ToSet(<<>>) = {}
        /\ {list[i] : i \in 1..0} = {}
    BY DEF IsInjective, ToSet
  <2> QED
    BY <1>4, <2>1
<1>6. ASSUME NEW k \in T PROVE k + 1 \in T
  <2> SUFFICES ASSUME k + 1 <= n
               PROVE  /\ g[k + 1] \in Seq(Id)
                      /\ IsInjective(g[k + 1])
                      /\ ToSet(g[k + 1]) = {list[i] : i \in 1..(k + 1)} \ ids
    OBVIOUS
  <2>1. k \in Nat /\ k + 1 \in 1..n /\ (k + 1) - 1 = k /\ k <= n
    BY <1>1
  <2>2. /\ g[k] \in Seq(Id)
        /\ IsInjective(g[k])
        /\ ToSet(g[k]) = {list[i] : i \in 1..k} \ ids
    BY <2>1
  <2>3. g[k + 1] = IF list[k + 1] \in ids THEN g[k] ELSE Append(g[k], list[k + 1])
    BY <1>4, <2>1
  <2>4. {list[i] : i \in 1..(k + 1)} = {list[i] : i \in 1..k} \union {list[k + 1]}
    <3>1. 1..(k + 1) = 1..k \union {k + 1}
      BY <2>1
    <3> QED
      BY <3>1
  <2>5. CASE list[k + 1] \in ids
    BY <2>2, <2>3, <2>4, <2>5
  <2>6. CASE list[k + 1] \notin ids
    <3>1. list[k + 1] \notin {list[i] : i \in 1..k}
      BY <1>1, <2>1 DEF IsInjective
    <3> HIDE DEF T
    <3>2. list[k + 1] \notin ToSet(g[k]) /\ list[k + 1] \in Id
      BY <1>1, <2>1, <2>2, <3>1
    <3>3. /\ Append(g[k], list[k + 1]) \in Seq(Id)
          /\ IsInjective(Append(g[k], list[k + 1]))
          /\ ToSet(Append(g[k], list[k + 1])) = ToSet(g[k]) \union {list[k + 1]}
      BY <2>2, <3>2, AppendNew
    <3> QED
      BY <2>2, <2>3, <2>4, <2>6, <3>3
  <2> QED
    BY <2>5, <2>6
<1>7. T = Nat
  <2> HIDE DEF T
  <2>1. T \in SUBSET Nat
    BY DEF T
  <2> QED
    BY <1>5, <1>6, <2>1, InductiveSet
<1>8. {list[i] : i \in 1..n} = ToSet(list)
  BY <1>1 DEF ToSet
<1>9. /\ g[n] \in Seq(Id)
      /\ IsInjective(g[n])
      /\ ToSet(g[n]) = {list[i] : i \in 1..n} \ ids
  <2>1. n \in T
    <3> HIDE DEF T
    <3> QED
      BY <1>1, <1>7
  <2>2. n <= n
    BY <1>1
  <2> QED
    BY <2>1, <2>2
<1> QED
  BY <1>3, <1>8, <1>9
-----------------------------------------------------------------------------
\* What an operation makes of the counters.
CounterRange(b) == [Id -> [value : 0..b.most, left : -1..b.fading]]

CountersPlaced(b, counters, ids) ==
  /\ counters \in CounterRange(b)
  /\ b.fading = 0 =>
       \A id \in Id : counters[id].left = 0 /\ (counters[id].value > 0 <=> id \in ids)

LEMMA CountersRemovedPlaced ==
  ASSUME NEW b, SoundBuffer(b), NEW ids, CountersPlaced(b, b.counters, ids), NEW gone
  PROVE  CountersPlaced(b, CountersRemoved(b, gone), ids \ gone)
<1> DEFINE counters == CountersRemoved(b, gone)
<1>1. b.fading \in Nat /\ b.most \in Nat \ {0}
  BY DEF SoundBuffer
<1>2. CASE b.fading > 0
  BY <1>1, <1>2 DEF CountersRemoved, CountersPlaced
<1>3. CASE b.fading = 0
  <2>1. counters = [id \in Id |-> IF id \in gone THEN Absent ELSE b.counters[id]]
    BY <1>1, <1>3 DEF CountersRemoved
  <2>2. \A id \in Id : /\ b.counters[id] \in [value : 0..b.most, left : -1..b.fading]
                       /\ b.counters[id].left = 0
                       /\ b.counters[id].value > 0 <=> id \in ids
    BY <1>3 DEF CountersPlaced, CounterRange
  <2>3. Absent \in [value : 0..b.most, left : -1..b.fading] /\ Absent.left = 0 /\ Absent.value = 0
    BY <1>1 DEF Absent
  <2>4. \A id \in Id : counters[id] = IF id \in gone THEN Absent ELSE b.counters[id]
    BY <2>1
  <2>5. counters \in CounterRange(b)
    BY <2>1, <2>2, <2>3 DEF CounterRange
  <2> HIDE DEF counters
  <2>6. \A id \in Id : counters[id].left = 0 /\ (counters[id].value > 0 <=> id \in ids \ gone)
    BY <2>2, <2>3, <2>4
  <2> QED
    BY <2>5, <2>6 DEF CountersPlaced, counters
<1> QED
  BY <1>1, <1>2, <1>3

LEMMA CounterAddedPlaced ==
  ASSUME NEW b, SoundBuffer(b), NEW counters, NEW ids, CountersPlaced(b, counters, ids),
         NEW id \in Id
  PROVE  CountersPlaced(b, CounterAdded(b, counters, id), ids \union {id})
<1> DEFINE added == CounterAdded(b, counters, id)
<1>1. b.fading \in Nat /\ b.most \in Nat \ {0}
  BY DEF SoundBuffer
<1>2. \A other \in Id : counters[other] \in [value : 0..b.most, left : -1..b.fading]
  BY DEF CountersPlaced, CounterRange
<1>3. \A other \in Id : added[other] =
        IF other = id
        THEN [value |-> IF b.fading > 0 THEN OneMoreThan(counters[id].value, b.most) ELSE 1,
              left  |-> b.fading]
        ELSE IF counters[other].left < 0 THEN Absent ELSE counters[other]
  BY DEF CounterAdded
<1>4. OneMoreThan(counters[id].value, b.most) \in 0..b.most
  BY <1>1, <1>2 DEF OneMoreThan
<1>5. Absent \in [value : 0..b.most, left : -1..b.fading]
  BY <1>1 DEF Absent
<1>6. \A other \in Id : added[other] \in [value : 0..b.most, left : -1..b.fading]
  BY <1>1, <1>2, <1>3, <1>4, <1>5
<1>7. added \in CounterRange(b)
  BY <1>6 DEF CounterAdded, CounterRange
<1> HIDE DEF added
<1>8. ASSUME b.fading = 0, NEW other \in Id
      PROVE  added[other].left = 0 /\ (added[other].value > 0 <=> other \in ids \union {id})
  <2>1. counters[other].left = 0 /\ (counters[other].value > 0 <=> other \in ids)
    BY <1>8 DEF CountersPlaced
  <2>2. CASE other = id
    BY <1>3, <1>8, <2>2
  <2>3. CASE other # id
    BY <1>3, <2>1, <2>3
  <2> QED
    BY <2>2, <2>3
<1> QED
  BY <1>7, <1>8 DEF CountersPlaced, added

LEMMA CounterIncrementedPlaced ==
  ASSUME NEW b, SoundBuffer(b), NEW ids, CountersPlaced(b, b.counters, ids), NEW id \in Id \cap ids
  PROVE  CountersPlaced(b, CounterIncremented(b, id), ids)
<1> DEFINE counters == CounterIncremented(b, id)
<1>1. b.fading \in Nat /\ b.most \in Nat \ {0}
  BY DEF SoundBuffer
<1>2. /\ b.counters \in CounterRange(b)
      /\ \A other \in Id : b.counters[other] \in [value : 0..b.most, left : -1..b.fading]
  BY DEF CountersPlaced, CounterRange
<1>3. /\ counters[id] = [value |-> OneMoreThan(b.counters[id].value, b.most),
                         left  |-> IF b.counters[id].left < 0 THEN b.fading ELSE b.counters[id].left]
      /\ \A other \in Id \ {id} : counters[other] = b.counters[other]
  BY <1>2 DEF CounterIncremented, CounterRange
<1>4. OneMoreThan(b.counters[id].value, b.most) \in 0..b.most
  BY <1>1, <1>2 DEF OneMoreThan
<1>5. counters[id] \in [value : 0..b.most, left : -1..b.fading]
  BY <1>1, <1>2, <1>3, <1>4
<1>6. counters \in CounterRange(b)
  BY <1>2, <1>3, <1>5 DEF CounterIncremented, CounterRange
<1> HIDE DEF counters
<1>7. ASSUME b.fading = 0, NEW other \in Id
      PROVE  counters[other].left = 0 /\ (counters[other].value > 0 <=> other \in ids)
  <2>1. b.counters[other].left = 0 /\ (b.counters[other].value > 0 <=> other \in ids)
    BY <1>7 DEF CountersPlaced
  <2>2. CASE other = id
    BY <1>1, <1>2, <1>3, <2>1, <2>2 DEF OneMoreThan
  <2>3. CASE other # id
    BY <1>3, <2>1, <2>3
  <2> QED
    BY <2>2, <2>3
<1> QED
  BY <1>6, <1>7 DEF CountersPlaced, counters

PlacedBuffer(b) ==
  /\ b.packets \in Seq(Id)
  /\ IsInjective(b.packets)
  /\ ToSet(b.packets) = DOMAIN b.timers
  /\ b.stored = Bytes(DOMAIN b.timers)
  /\ b.stored <= Capacity
  /\ CountersPlaced(b, b.counters, DOMAIN b.timers)

-----------------------------------------------------------------------------
\* Dropping at the head ends: at the latest when no packet is left.
LEMMA HeadDropFits ==
  ASSUME NEW b, PlacedBuffer(b), NEW id \in Id
  PROVE  /\ HeadDrop(b, id) \in 0..Len(b.packets)
         /\ b.stored + Length[id] - Bytes(Oldest(b.packets, HeadDrop(b, id))) <= Capacity
<1> DEFINE len     == Len(b.packets)
           rest(n) == b.stored + Length[id] - Bytes(Oldest(b.packets, n))
           ends(n) == ~(rest(n) <= Capacity) => n = len
           T       == {n \in 0..len : ends(n)}
<1>1. len \in Nat /\ len \in T /\ T \in SUBSET Nat
  BY DEF PlacedBuffer
<1>2. PICK n \in T : \A m \in T : n <= m
  <2> HIDE DEF T
  <2> QED
    BY <1>1, LeastNatural
<1>3. \A m \in 0..(n - 1) : m \in 0..len /\ m \notin T
  BY <1>1, <1>2
<1>4. \E k \in 0..len : /\ rest(k) <= Capacity \/ k = len
                        /\ \A m \in 0..(k - 1) : ~(rest(m) <= Capacity)
  BY <1>2, <1>3
<1>5. HeadDrop(b, id) = CHOOSE k \in 0..len : /\ rest(k) <= Capacity \/ k = len
                                              /\ \A m \in 0..(k - 1) : ~(rest(m) <= Capacity)
  BY Zenon DEF HeadDrop
<1> DEFINE k == HeadDrop(b, id)
<1>6. k \in 0..len /\ (rest(k) <= Capacity \/ k = len)
  <2> HIDE DEF rest, len, k
  <2>1. k = CHOOSE q \in 0..len : /\ rest(q) <= Capacity \/ q = len
                                  /\ \A m \in 0..(q - 1) : ~(rest(m) <= Capacity)
    BY <1>5 DEF k
  <2> QED
    BY Zenon, <1>4, <2>1
<1>7. rest(len) <= Capacity
  <2>1. Oldest(b.packets, len) = ToSet(b.packets)
    BY DEF Oldest, ToSet, PlacedBuffer
  <2>2. b.stored = Bytes(ToSet(b.packets)) /\ ToSet(b.packets) \subseteq Id
    <3>1. b.packets \in Seq(Id) /\ \A i \in DOMAIN b.packets : b.packets[i] \in Id
      BY DEF PlacedBuffer
    <3> QED
      BY <3>1 DEF PlacedBuffer, ToSet
  <2>3. Bytes(ToSet(b.packets)) \in Nat
    BY <2>2, BytesAddUp
  <2> QED
    BY <2>1, <2>2, <2>3, BufferAssumption
<1> QED
  BY <1>6, <1>7

\* The rest of a list without repetitions has the packets that are not in front.
LEMMA RestKeeps ==
  ASSUME NEW list \in Seq(Id), IsInjective(list), NEW n \in 0..Len(list)
  PROVE  /\ SubSeq(list, n + 1, Len(list)) \in Seq(Id)
         /\ IsInjective(SubSeq(list, n + 1, Len(list)))
         /\ ToSet(SubSeq(list, n + 1, Len(list))) = ToSet(list) \ Oldest(list, n)
<1> DEFINE len == Len(list)
           l   == SubSeq(list, n + 1, len)
<1>1. /\ len \in Nat /\ n \in Nat /\ n <= len /\ DOMAIN list = 1..len
      /\ l \in Seq(Id) /\ DOMAIN l = 1..(len - n)
      /\ \A i \in 1..(len - n) : l[i] = list[n + i] /\ n + i \in 1..len
  OBVIOUS
<1> HIDE DEF l, len
<1>2. IsInjective(l)
  <2> SUFFICES ASSUME NEW i \in 1..(len - n), NEW j \in 1..(len - n), l[i] = l[j]
               PROVE  i = j
    BY <1>1 DEF IsInjective
  <2>1. n + i = n + j
    BY <1>1 DEF IsInjective
  <2> QED
    BY <1>1, <2>1
<1>3. ASSUME NEW id \in ToSet(l) PROVE id \in ToSet(list) \ Oldest(list, n)
  <2>1. PICK i \in 1..(len - n) : id = l[i]
    BY <1>1 DEF ToSet
  <2>2. \A k \in 1..n : k \in 1..len /\ k # n + i
    BY <1>1, <2>1
  <2>3. id = list[n + i] /\ n + i \in 1..len
    BY <1>1, <2>1
  <2> QED
    BY <1>1, <2>2, <2>3 DEF ToSet, Oldest, IsInjective
<1>4. ASSUME NEW id \in ToSet(list) \ Oldest(list, n) PROVE id \in ToSet(l)
  <2>1. PICK k \in 1..len : id = list[k] /\ k \notin 1..n
    BY <1>1 DEF ToSet, Oldest
  <2>2. k - n \in 1..(len - n) /\ n + (k - n) = k
    BY <1>1, <2>1
  <2>3. l[k - n] = id
    BY <1>1, <2>1, <2>2
  <2> QED
    BY <1>1, <2>2, <2>3 DEF ToSet
<1> QED
  BY <1>1, <1>2, <1>3, <1>4 DEF l, len

LEMMA PlacedIds ==
  ASSUME NEW b, PlacedBuffer(b)
  PROVE  DOMAIN b.timers \subseteq Id /\ b.stored \in 0..Capacity
<1>1. b.packets \in Seq(Id) /\ \A i \in DOMAIN b.packets : b.packets[i] \in Id
  BY DEF PlacedBuffer
<1>2. DOMAIN b.timers \subseteq Id
  BY <1>1 DEF PlacedBuffer, ToSet
<1>3. b.stored \in Nat /\ b.stored <= Capacity
  BY <1>2, BytesAddUp DEF PlacedBuffer
<1> QED
  BY <1>2, <1>3, BufferAssumption

\* CbfPacketBuffer::add puts the packet everywhere, after what it dropped has
\* left everywhere.
LEMMA AddPlaced ==
  ASSUME NEW b, SoundBuffer(b), PlacedBuffer(b), NEW id \in Id, ~Stored(b, id), NEW timeout,
         NEW c \in AddPacket(b, id, timeout)
  PROVE  PlacedBuffer(c)
<1> DEFINE n        == HeadDrop(b, id)
           dropped  == Oldest(b.packets, n)
           ids      == DOMAIN b.timers
           timers   == [other \in (DOMAIN b.timers \ dropped) \union {id} |->
                          IF other = id THEN timeout ELSE b.timers[other]]
           packets  == Append(SubSeq(b.packets, n + 1, Len(b.packets)), id)
           stored   == b.stored - Bytes(dropped) + Length[id]
           counters == CounterAdded(b, CountersRemoved(b, dropped), id)
<1>1. PICK e \in EventAfterAdd(b, timers, dropped, id) :
        c = [b EXCEPT !.packets = packets, !.timers = timers, !.stored = stored,
                      !.event = e, !.counters = counters]
  BY DEF AddPacket
<1>2. DOMAIN timers = (ids \ dropped) \union {id}
  OBVIOUS
<1>3. n \in 0..Len(b.packets) /\ b.stored + Length[id] - Bytes(dropped) <= Capacity
  BY HeadDropFits
<1> HIDE DEF packets, stored, n, timers, counters
<1>4. /\ DOMAIN c = Fields
      /\ c.packets = packets /\ c.timers = timers /\ c.stored = stored /\ c.counters = counters
      /\ c.fading = b.fading /\ c.most = b.most
  BY <1>1 DEF SoundBuffer, Fields
<1>5. /\ b.packets \in Seq(Id) /\ IsInjective(b.packets) /\ ToSet(b.packets) = ids
      /\ b.stored = Bytes(ids) /\ ids \subseteq Id /\ id \notin ids
  BY PlacedIds DEF PlacedBuffer, Stored
<1>6. dropped \subseteq ids
  BY <1>3, <1>5 DEF Oldest, ToSet
<1> HIDE DEF dropped
<1>7. /\ packets \in Seq(Id)
      /\ IsInjective(packets)
      /\ ToSet(packets) = (ids \ dropped) \union {id}
  <2>1. /\ SubSeq(b.packets, n + 1, Len(b.packets)) \in Seq(Id)
        /\ IsInjective(SubSeq(b.packets, n + 1, Len(b.packets)))
        /\ ToSet(SubSeq(b.packets, n + 1, Len(b.packets))) = ids \ dropped
    BY <1>3, <1>5, RestKeeps DEF dropped
  <2>2. id \notin ids \ dropped
    BY <1>5
  <2> QED
    BY <2>1, <2>2, AppendNew DEF packets
<1>8. stored = Bytes((ids \ dropped) \union {id}) /\ stored <= Capacity
  <2>1. Bytes(ids) = Bytes(dropped) + Bytes(ids \ dropped)
    BY <1>5, <1>6, BytesAddUp
  <2>2. Bytes((ids \ dropped) \union {id}) = Bytes(ids \ dropped) + Length[id]
    BY <1>5, BytesAddUp
  <2>3. Bytes(dropped) \in Nat /\ Bytes(ids \ dropped) \in Nat /\ Length[id] \in Nat
    BY <1>5, <1>6, BytesAddUp, BufferAssumption
  <2> QED
    BY <1>3, <1>5, <2>1, <2>2, <2>3, BufferAssumption DEF stored
<1>9. CountersPlaced(b, counters, (ids \ dropped) \union {id})
  <2>1. CountersPlaced(b, CountersRemoved(b, dropped), ids \ dropped)
    BY CountersRemovedPlaced DEF PlacedBuffer
  <2> QED
    BY <2>1, CounterAddedPlaced DEF counters
<1> QED
  BY <1>2, <1>4, <1>7, <1>8, <1>9 DEF PlacedBuffer, CountersPlaced, CounterRange

\* Packets that leave, in remove and in flush, leave everywhere.
LEMMA LeavingPlaced ==
  ASSUME NEW b, SoundBuffer(b), PlacedBuffer(b), NEW gone \in SUBSET DOMAIN b.timers,
         NEW c, DOMAIN c = Fields, c.fading = b.fading, c.most = b.most,
         c.packets = ListWithout(b.packets, gone),
         DOMAIN c.timers = DOMAIN b.timers \ gone,
         c.stored = b.stored - Bytes(gone),
         c.counters = CountersRemoved(b, gone)
  PROVE  PlacedBuffer(c)
<1> DEFINE ids == DOMAIN b.timers
<1>1. /\ b.packets \in Seq(Id) /\ IsInjective(b.packets) /\ ToSet(b.packets) = ids
      /\ b.stored = Bytes(ids) /\ ids \subseteq Id /\ b.stored <= Capacity
  BY PlacedIds DEF PlacedBuffer
<1>2. /\ c.packets \in Seq(Id)
      /\ IsInjective(c.packets)
      /\ ToSet(c.packets) = ids \ gone
  BY <1>1, ListWithoutKeeps
<1>3. c.stored = Bytes(ids \ gone) /\ c.stored <= Capacity
  <2>1. Bytes(ids) = Bytes(gone) + Bytes(ids \ gone)
    BY <1>1, BytesAddUp
  <2>2. Bytes(gone) \in Nat /\ Bytes(ids \ gone) \in Nat
    BY <1>1, BytesAddUp
  <2> QED
    BY <1>1, <2>1, <2>2, BufferAssumption
<1>4. CountersPlaced(b, c.counters, ids \ gone)
  <2>1. CountersPlaced(b, b.counters, ids)
    BY DEF PlacedBuffer
  <2> HIDE DEF ids
  <2>2. CountersPlaced(b, CountersRemoved(b, gone), ids \ gone)
    BY <2>1, CountersRemovedPlaced
  <2> QED
    BY <2>2
<1> QED
  BY <1>2, <1>3, <1>4 DEF PlacedBuffer, CountersPlaced, CounterRange

LEMMA RemovePlaced ==
  ASSUME NEW b, SoundBuffer(b), PlacedBuffer(b), NEW id \in Id, Stored(b, id),
         NEW c \in RemovePacket(b, id)
  PROVE  PlacedBuffer(c)
<1> DEFINE timers   == Only(b.timers, DOMAIN b.timers \ {id})
           events   == UNION {IF first = id /\ timers # <<>> THEN Scheduled(timers) ELSE {b.event}
                              : first \in Earliest(b.timers)}
           packets  == ListWithout(b.packets, {id})
           stored   == b.stored - Length[id]
           counters == CountersRemoved(b, {id})
<1>1. PICK e \in events :
        c = [b EXCEPT !.packets = packets, !.timers = timers, !.stored = stored,
                      !.event = e, !.counters = counters]
  BY DEF RemovePacket
<1>2. DOMAIN timers = DOMAIN b.timers \ {id}
  BY DEF Only
<1> HIDE DEF packets, stored, timers, counters
<1>3. /\ DOMAIN c = Fields
      /\ c.packets = packets /\ c.timers = timers /\ c.stored = stored /\ c.counters = counters
      /\ c.fading = b.fading /\ c.most = b.most
  BY <1>1 DEF SoundBuffer, Fields
<1>4. stored = b.stored - Bytes({id}) /\ {id} \subseteq DOMAIN b.timers
  BY BytesOfOne DEF stored, Stored
<1> QED
  BY <1>2, <1>3, <1>4, LeavingPlaced DEF packets, counters

LEMMA FlushPlaced ==
  ASSUME NEW b, SoundBuffer(b), PlacedBuffer(b), NEW c \in Flush(b)
  PROVE  PlacedBuffer(c)
<1> DEFINE due      == Expired(b)
           timers   == Only(b.timers, DOMAIN b.timers \ due)
           packets  == ListWithout(b.packets, due)
           stored   == b.stored - Bytes(due)
           counters == CountersRemoved(b, due)
<1>1. PICK e \in IF timers = <<>> THEN {NoEvent} ELSE Scheduled(timers) :
        c = [b EXCEPT !.packets = packets, !.timers = timers, !.stored = stored,
                      !.event = e, !.counters = counters]
  BY DEF Flush
<1>2. DOMAIN timers = DOMAIN b.timers \ due
  BY DEF Only
<1> HIDE DEF packets, stored, timers, counters
<1>3. /\ DOMAIN c = Fields
      /\ c.packets = packets /\ c.timers = timers /\ c.stored = stored /\ c.counters = counters
      /\ c.fading = b.fading /\ c.most = b.most
  BY <1>1 DEF SoundBuffer, Fields
<1>4. due \subseteq DOMAIN b.timers
  BY DEF Expired
<1> HIDE DEF due
<1> QED
  BY <1>2, <1>3, <1>4, LeavingPlaced DEF packets, stored, counters

LEMMA UpdatePlaced ==
  ASSUME NEW b, SoundBuffer(b), PlacedBuffer(b), NEW id \in Id, Stored(b, id), NEW timeout
  PROVE  PlacedBuffer(UpdateTimer(b, id, timeout))
<1> DEFINE c == UpdateTimer(b, id, timeout)
<1>1. /\ DOMAIN c = Fields
      /\ c.packets = b.packets /\ c.timers = [b.timers EXCEPT ![id] = timeout]
      /\ c.stored = b.stored /\ c.counters = CounterIncremented(b, id)
      /\ c.fading = b.fading /\ c.most = b.most
  BY DEF UpdateTimer, SoundBuffer, Fields
<1>2. DOMAIN c.timers = DOMAIN b.timers
  BY <1>1
<1>3. CountersPlaced(b, CounterIncremented(b, id), DOMAIN b.timers)
  BY CounterIncrementedPlaced DEF PlacedBuffer, Stored
<1> HIDE DEF c
<1>4. PlacedBuffer(c)
  BY <1>1, <1>2, <1>3 DEF PlacedBuffer, CountersPlaced, CounterRange
<1> QED
  BY <1>4 DEF c

LEMMA ElapsedPlaced ==
  ASSUME NEW b, SoundBuffer(b), PlacedBuffer(b)
  PROVE  PlacedBuffer(Elapsed(b))
<1> DEFINE c == Elapsed(b)
           counters == [id \in Id |-> IF b.counters[id].value = 0 \/ b.counters[id].left < 0 \/ b.fading = 0
                                      THEN b.counters[id]
                                      ELSE [value |-> b.counters[id].value, left |-> b.counters[id].left - 1]]
<1>1. /\ DOMAIN c = Fields
      /\ c.packets = b.packets /\ c.timers = [id \in DOMAIN b.timers |-> b.timers[id] - 1]
      /\ c.stored = b.stored /\ c.counters = counters
      /\ c.fading = b.fading /\ c.most = b.most
  BY DEF Elapsed, SoundBuffer, Fields
<1>2. DOMAIN c.timers = DOMAIN b.timers
  BY <1>1
<1>3. b.fading \in Nat /\ b.most \in Nat
  BY DEF SoundBuffer
<1>4. \A id \in Id : b.counters[id] \in [value : 0..b.most, left : -1..b.fading]
  BY DEF PlacedBuffer, CountersPlaced, CounterRange
<1>5. counters \in CounterRange(b)
  BY <1>3, <1>4 DEF CounterRange
<1>6. b.fading = 0 => \A id \in Id : counters[id] = b.counters[id]
  OBVIOUS
<1> HIDE DEF c, counters
<1>7. PlacedBuffer(c)
  BY <1>1, <1>2, <1>5, <1>6 DEF PlacedBuffer, CountersPlaced, CounterRange
<1> QED
  BY <1>7 DEF c

\* Whatever algorithm a copy is left to, the records stay together.
LEMMA ForwardedPlaced ==
  ASSUME NEW b, SoundBuffer(b), PlacedBuffer(b), NEW id \in Id, NEW timeout,
         NEW maxCounter, NEW near, NEW c,
         \/ c \in AreaCbf(b, id, timeout, maxCounter)
         \/ c \in AreaAdvanced(b, id, timeout, maxCounter, near)
         \/ c \in NonAreaCbf(b, id, timeout, near)
         \/ c = b
  PROVE  PlacedBuffer(c)
<1>1. \/ Stored(b, id) /\ c \in RemovePacket(b, id)
      \/ ~Stored(b, id) /\ c \in AddPacket(b, id, timeout)
      \/ Stored(b, id) /\ c = UpdateTimer(b, id, timeout)
      \/ c = b
  BY DEF AreaCbf, AreaAdvanced, NonAreaCbf
<1> QED
  BY <1>1, RemovePlaced, AddPlaced, UpdatePlaced

\* Every step of the router keeps the records together.
LEMMA PlacedKept ==
  ASSUME RouterInv, traffic \in SUBSET Id, PlacedBuffer(buffer), [RouterNext]_routerVars
  PROVE  PlacedBuffer(buffer')
<1>1. SoundBuffer(buffer)
  BY DEF RouterInv
<1>2. ASSUME NEW id \in Id, Indicate(id) PROVE PlacedBuffer(buffer')
  <2>1. PICK timeout \in Timeouts, near \in BOOLEAN :
          ForwardInside(id, timeout, near) \/ ForwardOutside(id, timeout, near)
    BY <1>2 DEF Indicate
  <2>2. \/ buffer' \in AreaCbf(buffer, id, timeout, mib.maxCounter)
        \/ buffer' \in AreaAdvanced(buffer, id, timeout, mib.maxCounter, near)
        \/ buffer' \in NonAreaCbf(buffer, id, timeout, near)
        \/ buffer' = buffer
    BY <2>1 DEF ForwardInside, ForwardOutside
  <2> QED
    BY <1>1, <2>2, ForwardedPlaced
<1>3. ASSUME Expire PROVE PlacedBuffer(buffer')
  BY <1>1, <1>3, FlushPlaced DEF Expire
<1>4. ASSUME TimePasses PROVE PlacedBuffer(buffer')
  BY <1>1, <1>4, ElapsedPlaced DEF TimePasses
<1>5. ASSUME UNCHANGED buffer PROVE PlacedBuffer(buffer')
  BY <1>5
<1> QED
  BY <1>2, <1>3, <1>4, <1>5
     DEF RouterNext, IndicateStopped, ForgetSource, Move, routerVars

\* The empty buffer of a router that starts keeps nothing anywhere.
LEMMA PlacedInitial == RouterInit => PlacedBuffer(buffer)
<1> SUFFICES ASSUME RouterInit PROVE PlacedBuffer(buffer)
  OBVIOUS
<1>1. mib \in Mib
  BY RouterAssumption DEF RouterInit
<1>2. mib.maxCounter \in Nat \ {0} /\ mib.fading \in Nat
  BY <1>1 DEF Mib
<1>3. /\ buffer.packets = <<>> /\ buffer.timers = <<>> /\ buffer.stored = 0
      /\ buffer.fading = mib.fading /\ buffer.most = mib.maxCounter + 1
      /\ buffer.counters = [id \in Id |-> Absent]
  BY DEF RouterInit, EmptyBuffer
<1>4. /\ <<>> \in Seq(Id) /\ DOMAIN <<>> = {}
  OBVIOUS
<1>5. IsInjective(<<>>) /\ ToSet(<<>>) = {}
  BY DEF IsInjective, ToSet
<1>6. CountersPlaced(buffer, buffer.counters, {})
  BY <1>2, <1>3 DEF CountersPlaced, CounterRange, Absent
<1> QED
  BY <1>3, <1>4, <1>5, <1>6, NoBytes, BufferAssumption DEF PlacedBuffer

\* The inductive invariant of the records: list, timers, bytes and counters are
\* about the same packets, and the bytes fit.
THEOREM BufferPlaced == RouterSpec => [](RouterInv /\ PlacedBuffer(buffer))
<1> DEFINE Inv == RouterInv /\ traffic \in SUBSET Id
<1>1. Inv /\ PlacedBuffer(buffer) /\ [RouterNext]_routerVars => PlacedBuffer(buffer')
  BY PlacedKept
<1>2. PlacedBuffer(buffer)' <=> PlacedBuffer(buffer')
  OBVIOUS
<1> HIDE DEF Inv
<1>3. Inv /\ PlacedBuffer(buffer) /\ [RouterNext]_routerVars => PlacedBuffer(buffer)'
  BY <1>1, <1>2
<1>4. RouterSpec => []Inv
  BY BufferInductive DEF Inv
<1>5. Inv => RouterInv
  BY DEF Inv
<1> QED
  BY <1>3, <1>4, <1>5, PlacedInitial, PTL DEF RouterSpec

\* CbfPacketBuffer: every stored packet has one timer, m_stored_bytes is what
\* the stored packets have, and a counter that does not fade exists as long as
\* its packet, whichever of add, remove, update and flush happened and however
\* many packets were dropped at the head.
THEOREM BufferIsConsistent == RouterSpec => []BufferConsistent
<1>1. RouterInv /\ PlacedBuffer(buffer) => BufferConsistent
  <2> SUFFICES ASSUME RouterInv, PlacedBuffer(buffer) PROVE BufferConsistent
    OBVIOUS
  <2>1. ~Fading => buffer.fading = 0
    BY DEF RouterInv, Fading
  <2> QED
    BY <2>1 DEF BufferConsistent, PlacedBuffer, CountersPlaced, Stored
<1> QED
  BY <1>1, BufferPlaced, PTL

\* What the types say beyond the other invariants.
Configured ==
  /\ [mib |-> mib, traffic |-> traffic] \in Scenarios
  /\ inside \in BOOLEAN

LEMMA StaysConfigured ==
  /\ RouterInit => Configured
  /\ Configured /\ [RouterNext]_routerVars => Configured'
<1>1. RouterInit => Configured
  <2> SUFFICES ASSUME RouterInit PROVE Configured
    OBVIOUS
  <2>1. PICK s \in Scenarios : mib = s.mib /\ traffic = s.traffic
    BY DEF RouterInit
  <2>2. s \in [mib : Mib, traffic : SUBSET Id]
    BY RouterAssumption
  <2>3. s = [mib |-> s.mib, traffic |-> s.traffic]
    BY <2>2
  <2> QED
    BY <2>1, <2>3 DEF RouterInit, Configured
<1>2. Configured /\ [RouterNext]_routerVars => Configured'
  BY DEF Configured, RouterNext, Indicate, IndicateStopped, ForgetSource, Move, Expire, TimePasses,
         config, routerVars
<1> QED
  BY <1>1, <1>2

\* The types of the router and its buffer; the bounds are part of them: bytes
\* within the capacity, both lists within theirs, timers less than the longest
\* timeout overdue.
THEOREM RouterTyped == RouterSpec => []RouterTypeOK
<1>1. RouterInv /\ PlacedBuffer(buffer) /\ MemoryInv /\ Configured => RouterTypeOK
  <2> SUFFICES ASSUME RouterInv, PlacedBuffer(buffer), MemoryInv, Configured PROVE RouterTypeOK
    OBVIOUS
  <2>1. SoundBuffer(buffer) /\ MaxTime \in Nat
    BY BufferAssumption DEF RouterInv
  <2>2. \A id \in DOMAIN buffer.timers : buffer.timers[id] \in (-MaxTime)..MaxTime
    <3>1. \A id \in DOMAIN buffer.timers :
            buffer.timers[id] \in Int /\ buffer.timers[id] <= MaxTime /\ -buffer.timers[id] < MaxTime
      BY <2>1, OverdueLimit
    <3> QED
      BY <2>1, <3>1
  <2>3. DOMAIN buffer.timers \subseteq Id /\ buffer.stored \in 0..Capacity
    BY PlacedIds
  <2>4. buffer.counters \in [Id -> [value : 0..buffer.most, left : -1..buffer.fading]]
    BY DEF PlacedBuffer, CountersPlaced, CounterRange
  <2>5. IsBuffer(buffer)
    BY <2>1, <2>2, <2>3, <2>4 DEF IsBuffer, SoundBuffer, Fields, PlacedBuffer
  <2>6. row \in [Id -> [length : 0..(mib.maxCounter + 1), left : -1..mib.fading]]
    <3>1. mib.maxCounter \in Nat \ {0} /\ mib.fading \in Nat /\ row = [id \in Id |-> row[id]]
      BY DEF RouterInv
    <3>2. ASSUME NEW id \in Id
          PROVE  row[id] \in [length : 0..(mib.maxCounter + 1), left : -1..mib.fading]
      <4>1. RowCounted(id)
        BY DEF RouterInv
      <4> QED
        BY <3>1, <4>1 DEF RowCounted
    <3> QED
      BY <3>1, <3>2
  <2>7. /\ dpl \in Seq(Id) /\ Len(dpl) <= DPLLength /\ listed \in [Id -> SUBSET Id]
        /\ gbcMemory \in Seq(Id) /\ Len(gbcMemory) <= mib.memory /\ heard \in [Id -> SUBSET Id]
    BY DEF MemoryInv, InOrder
  <2>8. buffer.fading = mib.fading
    BY DEF RouterInv
  <2> QED
    BY <2>5, <2>6, <2>7, <2>8 DEF RouterTypeOK, Configured
<1>2. RouterSpec => []MemoryInv
  BY MemoryInitial, MemoryKept, PTL DEF RouterSpec
<1>3. RouterSpec => []Configured
  BY StaysConfigured, PTL DEF RouterSpec
<1> QED
  BY <1>1, <1>2, <1>3, BufferPlaced, PTL

-----------------------------------------------------------------------------
(***************************************************************************)
(* The network: every router's buffer is one of the above, and a copy is   *)
(* at most as far from the source as the hops it has made can carry it.    *)
(***************************************************************************)
\* Distance, of positions that are given.
Far(position, r, s) ==
  LET d == position[r] - position[s] IN IF d < 0 THEN -d ELSE d

\* How many hops the packet can make: what is heard is not looked at again
\* once the hop limit is reached.
Hops == IF HopLimit = 0 THEN 1 ELSE HopLimit

CopyInReach(c, position, reached) ==
  /\ c \in [from : Router, to : Router, hop : 0..HopLimit]
  /\ HopLimit > 0 => c.hop > 0
  /\ c.from \in reached
  /\ Far(position, c.to, c.from) <= MaxRange
  /\ Far(position, c.to, Source) <= MaxRange * (HopLimit - c.hop + 1)

CarriedInReach(r, b, kept, position, reached) ==
  /\ SoundBuffer(b) /\ PlacedBuffer(b)
  /\ kept \in [from : Router, hop : 0..HopLimit]
  /\ IF Stored(b, Message)
     THEN /\ r \in reached /\ kept.from \in reached
          /\ kept.hop \in 1..(HopLimit - 1)
          /\ Far(position, r, kept.from) <= MaxRange
          /\ Far(position, r, Source) <= MaxRange * (HopLimit - kept.hop)
     ELSE kept = Nothing

NetworkInv ==
  /\ setup \in Setups
  /\ DOMAIN buffers = Router /\ DOMAIN carried = Router
  /\ got \subseteq Router /\ Source \in got
  /\ sent \in [Router -> 0..(setup.maxCounter + 1)]
  /\ \A r \in Router : sent[r] > 0 => r \in got
  /\ lost \in 0..setup.losses
  /\ \A r \in got : Far(setup.position, r, Source) <= MaxRange * Hops
  /\ \A c \in air : CopyInReach(c, setup.position, got)
  /\ \A r \in Router : CarriedInReach(r, buffers[r], carried[r], setup.position, got)

\* The packet is not heard farther from the source than its hops can carry it,
\* and a router forwards only what it has heard.
StaysInReach ==
  /\ \A r \in got : Distance(r, Source) <= MaxRange * Hops
  /\ \A r \in Router : Carries(r) \/ sent[r] > 0 => r \in got

-----------------------------------------------------------------------------
\* Distances along the line.
LEMMA FarApart ==
  ASSUME NEW position \in [Router -> Nat], NEW r \in Router, NEW s \in Router, NEW t \in Router
  PROVE  /\ Far(position, r, s) \in Nat
         /\ Far(position, r, s) = Far(position, s, r)
         /\ Far(position, r, t) <= Far(position, r, s) + Far(position, s, t)
<1> DEFINE x == position[r]
           y == position[s]
           z == position[t]
<1>1. x \in Nat /\ y \in Nat /\ z \in Nat
  OBVIOUS
<1> QED
  BY <1>1 DEF Far

\* What is known of a setup.
LEMMA SetupFields ==
  ASSUME setup \in Setups
  PROVE  /\ setup.position \in [Router -> Nat]
         /\ setup.maxCounter \in Nat \ {0} /\ setup.fading \in Nat /\ setup.losses \in Nat
BY NetworkAssumption

LEMMA Multiples ==
  ASSUME NEW m \in Nat, NEW a \in Int, NEW b \in Int, a <= b
  PROVE  m * a <= m * b /\ m * (a + 1) = m * a + m /\ m * a \in Int
<1> DEFINE d == b - a
<1>1. d \in Nat /\ b = a + d
  OBVIOUS
<1>2. m * d \in Nat
  BY <1>1
<1> HIDE DEF d
<1>3. m * b = m * a + m * d
  BY <1>1
<1>4. m * a \in Int
  OBVIOUS
<1> QED
  BY <1>2, <1>3, <1>4

\* The timeout of a copy from a router in range is one of the buffer's.
LEMMA TimeoutInRange ==
  ASSUME NEW r \in Router, NEW s \in Router, Distance(r, s) \in 0..MaxRange
  PROVE  Timeout(r, s) \in 1..MaxTime
<1> DEFINE d == Distance(r, s)
           w == MaxTime - MinTime
           q == (w * d) \div MaxRange
<1>1. MaxRange \in Nat /\ MaxRange >= 1 /\ MinTime \in 1..MaxTime /\ MaxTime \in Nat /\ w \in Nat
  BY NetworkAssumption, BufferAssumption
<1>2. d \in Nat /\ d <= MaxRange
  BY <1>1
<1> HIDE DEF d, w
<1>3. w * d \in Nat /\ w * d <= MaxRange * w
  <2>1. w * d <= w * MaxRange
    BY <1>1, <1>2, Multiples
  <2>2. w * d \in Nat /\ w * MaxRange = MaxRange * w
    BY <1>1, <1>2
  <2> QED
    BY <2>1, <2>2
<1>4. q \in Nat /\ MaxRange * q <= w * d
  BY <1>1, <1>3
<1> HIDE DEF q
<1>5. q <= w
  <2> SUFFICES ASSUME w + 1 <= q PROVE FALSE
    BY <1>1, <1>4
  <2>1. MaxRange * (w + 1) <= MaxRange * q /\ MaxRange * (w + 1) = MaxRange * w + MaxRange
    BY <1>1, <1>4, Multiples
  <2>2. MaxRange * w \in Int /\ MaxRange * q \in Int /\ MaxRange * (w + 1) \in Int
    BY <1>1, <1>4
  <2> QED
    BY <1>1, <1>3, <1>4, <2>1, <2>2
<1>6. Timeout(r, s) = MaxTime - q
  BY DEF Timeout, q, w, d
<1> QED
  BY <1>1, <1>4, <1>5, <1>6 DEF w

\* Copies of a broadcast go to routers in range.
LEMMA BroadcastInReach ==
  ASSUME setup \in Setups, NEW s \in Router, NEW hop \in 0..HopLimit, NEW reached, s \in reached,
         HopLimit > 0 => hop > 0,
         Far(setup.position, s, Source) <= MaxRange * (HopLimit - hop),
         NEW c \in Broadcast(s, hop)
  PROVE  CopyInReach(c, setup.position, reached)
<1>1. PICK r \in Router : Distance(r, s) <= MaxRange /\ c = [from |-> s, to |-> r, hop |-> hop]
  BY DEF Broadcast
<1>2. setup.position \in [Router -> Nat] /\ Source \in Router /\ HopLimit \in Nat /\ MaxRange \in Nat
  BY SetupFields, NetworkAssumption
<1>3. Far(setup.position, r, s) <= MaxRange
  BY <1>1 DEF Distance, Far
<1>4. /\ Far(setup.position, r, Source) <= Far(setup.position, r, s) + Far(setup.position, s, Source)
      /\ Far(setup.position, r, Source) \in Nat /\ Far(setup.position, r, s) \in Nat
      /\ Far(setup.position, s, Source) \in Nat
  BY <1>2, FarApart
<1>5. /\ MaxRange * ((HopLimit - hop) + 1) = MaxRange * (HopLimit - hop) + MaxRange
      /\ MaxRange * (HopLimit - hop) \in Int
  BY <1>2, Multiples
<1>6. Far(setup.position, r, Source) <= MaxRange * (HopLimit - hop + 1)
  <2> DEFINE a == Far(setup.position, r, Source)
             b == Far(setup.position, r, s)
             d == Far(setup.position, s, Source)
             m == MaxRange * (HopLimit - hop)
             n == MaxRange * (HopLimit - hop + 1)
  <2>1. a <= b + d /\ b <= MaxRange /\ d <= m /\ n = m + MaxRange
    BY <1>3, <1>4, <1>5
  <2>2. a \in Int /\ b \in Int /\ d \in Int /\ m \in Int /\ MaxRange \in Int
    BY <1>2, <1>4, <1>5
  <2> HIDE DEF a, b, d, m, n
  <2>3. a <= n
    BY <2>1, <2>2
  <2> QED
    BY <2>3 DEF a, n
<1> QED
  BY <1>1, <1>3, <1>6 DEF CopyInReach

\* Where a router is that hears a copy.
LEMMA HeardInReach ==
  ASSUME setup \in Setups, NEW c, NEW reached, CopyInReach(c, setup.position, reached)
  PROVE  Far(setup.position, c.to, Source) <= MaxRange * Hops
<1>1. /\ HopLimit \in Nat /\ MaxRange \in Nat /\ c.hop \in 0..HopLimit /\ (HopLimit > 0 => c.hop > 0)
      /\ c.to \in Router /\ Source \in Router
      /\ Far(setup.position, c.to, Source) <= MaxRange * (HopLimit - c.hop + 1)
  BY NetworkAssumption DEF CopyInReach
<1>2. Far(setup.position, c.to, Source) \in Nat
  BY <1>1, SetupFields, FarApart
<1>3. HopLimit - c.hop + 1 <= Hops /\ Hops \in Int /\ HopLimit - c.hop + 1 \in Int
  BY <1>1 DEF Hops
<1>4. MaxRange * (HopLimit - c.hop + 1) <= MaxRange * Hops
  BY <1>1, <1>3, Multiples
<1>5. MaxRange * (HopLimit - c.hop + 1) \in Int /\ MaxRange * Hops \in Int
  BY <1>1, <1>3
<1> QED
  BY <1>1, <1>2, <1>4, <1>5

\* What is reached stays so when others are.
LEMMA ReachGrows ==
  ASSUME NEW position, NEW reached, NEW more, reached \subseteq more
  PROVE  /\ \A c : CopyInReach(c, position, reached) => CopyInReach(c, position, more)
         /\ \A r, b, kept : CarriedInReach(r, b, kept, position, reached)
                              => CarriedInReach(r, b, kept, position, more)
BY DEF CopyInReach, CarriedInReach

-----------------------------------------------------------------------------
\* An empty buffer is one of those above.
LEMMA EmptyBufferSound ==
  ASSUME NEW fading \in Nat, NEW most \in Nat \ {0}
  PROVE  LET b == EmptyBuffer(fading, most) IN
         SoundBuffer(b) /\ PlacedBuffer(b) /\ DOMAIN b.timers = {}
<1> DEFINE b == EmptyBuffer(fading, most)
<1>1. /\ DOMAIN b = Fields
      /\ b.packets = <<>> /\ b.timers = <<>> /\ b.stored = 0 /\ b.event = NoEvent
      /\ b.fading = fading /\ b.most = most /\ b.counters = [id \in Id |-> Absent]
  BY DEF EmptyBuffer, Fields
<1> HIDE DEF b
<1>2. <<>> \in Seq(Id) /\ DOMAIN <<>> = {} /\ IsInjective(<<>>) /\ ToSet(<<>>) = {}
  BY DEF IsInjective, ToSet
<1>3. b.timers \in [DOMAIN b.timers -> Int] /\ DOMAIN b.timers = {}
  BY <1>1, <1>2
<1>4. SoundBuffer(b)
  BY <1>1, <1>3 DEF SoundBuffer, OnItsWay, Absent
<1>5. CountersPlaced(b, b.counters, {})
  BY <1>1 DEF CountersPlaced, CounterRange, Absent
<1>6. PlacedBuffer(b)
  BY <1>1, <1>2, <1>5, NoBytes, BufferAssumption DEF PlacedBuffer
<1> QED
  BY <1>3, <1>4, <1>6 DEF b

LEMMA NetworkInitial == NetworkInit => NetworkInv
<1> SUFFICES ASSUME NetworkInit PROVE NetworkInv
  OBVIOUS
<1>1. /\ setup \in Setups /\ got = {Source} /\ air = Broadcast(Source, HopLimit) /\ lost = 0
      /\ buffers = [r \in Router |-> EmptyBuffer(setup.fading, setup.maxCounter + 1)]
      /\ carried = [r \in Router |-> Nothing] /\ sent = [r \in Router |-> 0]
  BY DEF NetworkInit
<1>2. /\ Source \in Router /\ HopLimit \in Nat /\ MaxRange \in Nat
      /\ setup.position \in [Router -> Nat] /\ setup.maxCounter \in Nat \ {0}
      /\ setup.fading \in Nat /\ setup.losses \in Nat
  BY <1>1, NetworkAssumption, SetupFields
<1>3. Far(setup.position, Source, Source) = 0
  BY <1>2 DEF Far
<1>4. MaxRange * (HopLimit - HopLimit) = 0
  <2>1. HopLimit - HopLimit = 0 /\ MaxRange * 0 = 0
    BY <1>2
  <2> QED
    BY <2>1
<1>5. \A c \in air : CopyInReach(c, setup.position, got)
  <2>1. /\ HopLimit \in 0..HopLimit /\ Source \in got
        /\ Far(setup.position, Source, Source) <= MaxRange * (HopLimit - HopLimit)
    BY <1>1, <1>2, <1>3, <1>4
  <2>2. \A c \in Broadcast(Source, HopLimit) : CopyInReach(c, setup.position, got)
    BY <1>1, <1>2, <2>1, BroadcastInReach
  <2> QED
    BY <1>1, <2>2
<1>6. MaxRange * Hops \in Nat
  BY <1>2 DEF Hops
<1> DEFINE empty == EmptyBuffer(setup.fading, setup.maxCounter + 1)
<1>7. SoundBuffer(empty) /\ PlacedBuffer(empty) /\ ~Stored(empty, Message)
  BY <1>2, EmptyBufferSound DEF Stored
<1>8. \A r \in Router : CarriedInReach(r, buffers[r], carried[r], setup.position, got)
  BY <1>1, <1>2, <1>7 DEF CarriedInReach, Nothing
<1>9. \A r \in got : Far(setup.position, r, Source) <= MaxRange * Hops
  BY <1>1, <1>3, <1>6
<1>10. sent \in [Router -> 0..(setup.maxCounter + 1)] /\ (\A r \in Router : ~(sent[r] > 0)) /\ lost \in 0..setup.losses
  BY <1>1, <1>2
<1>11. DOMAIN buffers = Router /\ DOMAIN carried = Router /\ got \subseteq Router /\ Source \in got
  BY <1>1, <1>2
<1> HIDE DEF empty
<1> QED
  BY <1>1, <1>5, <1>8, <1>9, <1>10, <1>11 DEF NetworkInv

\* A copy that is heard: forwarding is left to the algorithm unless its hop
\* limit is reached.
LEMMA ReceiveKeeps == ASSUME NetworkInv, NEW c \in air, Receive(c) PROVE NetworkInv'
<1> DEFINE pos  == setup.position
           more == got \union {c.to}
<1>1. /\ setup \in Setups /\ got \subseteq Router /\ Source \in got
      /\ DOMAIN buffers = Router /\ DOMAIN carried = Router
      /\ \A r \in got : Far(pos, r, Source) <= MaxRange * Hops
      /\ \A d \in air : CopyInReach(d, pos, got)
      /\ \A r \in Router : CarriedInReach(r, buffers[r], carried[r], pos, got)
  BY DEF NetworkInv
<1>2. /\ air' = air \ {c} /\ got' = more /\ UNCHANGED <<setup, sent, lost>>
      /\ IF c.hop <= 1 THEN UNCHANGED <<buffers, carried>>
         ELSE \E b \in Forwarded(c) :
                /\ buffers' = [buffers EXCEPT ![c.to] = b]
                /\ carried' = [carried EXCEPT ![c.to] =
                     IF ~Stored(b, Message) THEN Nothing
                     ELSE IF Carries(c.to) THEN @ ELSE [from |-> c.from, hop |-> c.hop - 1]]
  BY DEF Receive
<1>3. CopyInReach(c, pos, got) /\ c \in [from : Router, to : Router, hop : 0..HopLimit]
      /\ c.from \in got /\ c.to \in Router /\ c.hop \in 0..HopLimit /\ HopLimit \in Nat
  BY <1>1, NetworkAssumption DEF CopyInReach
<1>4. /\ \A d \in air' : CopyInReach(d, pos, more)
      /\ \A r \in Router : CarriedInReach(r, buffers[r], carried[r], pos, more)
  BY <1>1, <1>2, ReachGrows
<1>5. \A r \in more : Far(pos, r, Source) <= MaxRange * Hops
  BY <1>1, <1>3, HeardInReach
<1>6. /\ DOMAIN buffers' = Router /\ DOMAIN carried' = Router
      /\ \A r \in Router : CarriedInReach(r, buffers'[r], carried'[r], pos, more)
  <2>1. CASE c.hop <= 1
    BY <1>1, <1>2, <1>4, <2>1
  <2>2. CASE ~(c.hop <= 1)
    <3> DEFINE kept(b) == IF ~Stored(b, Message) THEN Nothing
                          ELSE IF Carries(c.to) THEN carried[c.to]
                          ELSE [from |-> c.from, hop |-> c.hop - 1]
    <3>1. PICK b \in Forwarded(c) :
            /\ buffers' = [buffers EXCEPT ![c.to] = b]
            /\ carried' = [carried EXCEPT ![c.to] = kept(b)]
      BY <1>2, <2>2
    <3>2. CarriedInReach(c.to, buffers[c.to], carried[c.to], pos, more)
      BY <1>3, <1>4
    <3>3. SoundBuffer(b) /\ PlacedBuffer(b)
      <4>1. Distance(c.to, c.from) \in 0..MaxRange
        <5>1. Far(pos, c.to, c.from) <= MaxRange /\ Far(pos, c.to, c.from) \in Nat
          BY <1>1, <1>3, SetupFields, FarApart DEF CopyInReach
        <5>2. Distance(c.to, c.from) = Far(pos, c.to, c.from)
          BY DEF Distance, Far
        <5> QED
          BY <5>1, <5>2, NetworkAssumption
      <4>2. Timeout(c.to, c.from) \in 1..MaxTime /\ Message \in Id
        BY <1>3, <4>1, TimeoutInRange, NetworkAssumption
      <4>3. \/ b \in AreaCbf(buffers[c.to], Message, Timeout(c.to, c.from), setup.maxCounter)
            \/ b \in AreaAdvanced(buffers[c.to], Message, Timeout(c.to, c.from), setup.maxCounter,
                                  Covered(c.to, carried[c.to].from, c.from))
        BY <3>1 DEF Forwarded
      <4>4. SoundBuffer(buffers[c.to]) /\ PlacedBuffer(buffers[c.to])
        BY <3>2 DEF CarriedInReach
      <4> QED
        BY <4>2, <4>3, <4>4, ForwardedSound, ForwardedPlaced
    <3>4. CarriedInReach(c.to, b, kept(b), pos, more)
      <4>1. CASE ~Stored(b, Message)
        <5>1. kept(b) = Nothing /\ Nothing \in [from : Router, hop : 0..HopLimit]
          BY <4>1, NetworkAssumption DEF Nothing
        <5> HIDE DEF kept
        <5> QED
          BY <3>3, <4>1, <5>1 DEF CarriedInReach
      <4>2. CASE Stored(b, Message) /\ Carries(c.to)
        <5>1. kept(b) = carried[c.to] /\ Stored(buffers[c.to], Message)
          BY <4>2 DEF Carries
        <5> HIDE DEF kept
        <5> QED
          BY <3>2, <3>3, <4>2, <5>1 DEF CarriedInReach
      <4>3. CASE Stored(b, Message) /\ ~Carries(c.to)
        <5> DEFINE new == [from |-> c.from, hop |-> c.hop - 1]
        <5>1. kept(b) = new
          BY <4>3
        <5>2. /\ new \in [from : Router, hop : 0..HopLimit] /\ new.from = c.from
              /\ new.hop = c.hop - 1 /\ new.hop \in 1..(HopLimit - 1)
          BY <1>3, <2>2
        <5>3. HopLimit - (c.hop - 1) = HopLimit - c.hop + 1
          BY <1>3
        <5>4. Far(pos, c.to, Source) <= MaxRange * (HopLimit - new.hop)
          BY <1>3, <5>2, <5>3 DEF CopyInReach
        <5>5. Far(pos, c.to, new.from) <= MaxRange
          BY <1>3, <5>2 DEF CopyInReach
        <5> HIDE DEF kept, new
        <5> QED
          BY <1>3, <3>3, <4>3, <5>1, <5>2, <5>4, <5>5 DEF CarriedInReach
      <4> QED
        BY <4>1, <4>2, <4>3
    <3> HIDE DEF kept
    <3>5. ASSUME NEW r \in Router PROVE CarriedInReach(r, buffers'[r], carried'[r], pos, more)
      <4>1. CASE r = c.to
        <5>1. buffers'[r] = b /\ carried'[r] = kept(b)
          BY <1>1, <3>1, <4>1
        <5> QED
          BY <3>4, <4>1, <5>1
      <4>2. CASE r # c.to
        <5>1. buffers'[r] = buffers[r] /\ carried'[r] = carried[r]
          BY <1>1, <3>1, <4>2
        <5> QED
          BY <1>4, <5>1
      <4> QED
        BY <4>1, <4>2
    <3> QED
      BY <1>1, <3>1, <3>5
  <2> QED
    BY <2>1, <2>2
<1>7. /\ more \subseteq Router /\ Source \in more
      /\ sent \in [Router -> 0..(setup.maxCounter + 1)] /\ (\A r \in Router : sent[r] > 0 => r \in more)
      /\ lost \in 0..setup.losses
  BY <1>3 DEF NetworkInv
<1> HIDE DEF more
<1> QED
  BY <1>1, <1>2, <1>4, <1>5, <1>6, <1>7 DEF NetworkInv

\* What a flush leaves.
LEMMA FlushLeaves ==
  ASSUME NEW b, SoundBuffer(b), NEW c \in Flush(b)
  PROVE  Stored(c, Message) <=> Stored(b, Message) /\ Message \notin Expired(b)
<1> DEFINE timers == Only(b.timers, DOMAIN b.timers \ Expired(b))
<1>1. PICK e : c = [b EXCEPT !.packets = ListWithout(@, Expired(b)), !.timers = timers,
                            !.stored = @ - Bytes(Expired(b)), !.event = e,
                            !.counters = CountersRemoved(b, Expired(b))]
  BY DEF Flush
<1>2. DOMAIN timers = DOMAIN b.timers \ Expired(b)
  BY DEF Only
<1> HIDE DEF timers
<1>3. c.timers = timers
  BY <1>1 DEF SoundBuffer, Fields
<1> QED
  BY <1>2, <1>3 DEF Stored

\* A router that transmits what it carries has heard it, and has a hop left.
LEMMA TransmitKeeps == ASSUME NetworkInv, NEW r \in Router, Transmit(r) PROVE NetworkInv'
<1> DEFINE pos == setup.position
<1>1. /\ setup \in Setups /\ got \subseteq Router /\ Source \in got
      /\ DOMAIN buffers = Router /\ DOMAIN carried = Router
      /\ \A d \in air : CopyInReach(d, pos, got)
      /\ \A s \in Router : CarriedInReach(s, buffers[s], carried[s], pos, got)
      /\ sent \in [Router -> 0..(setup.maxCounter + 1)] /\ \A s \in Router : sent[s] > 0 => s \in got
      /\ HopLimit \in Nat
  BY NetworkAssumption DEF NetworkInv
<1>2. PICK b \in Flush(buffers[r]) : buffers' = [buffers EXCEPT ![r] = b]
  BY DEF Transmit
<1>3. /\ UNCHANGED <<setup, got, lost>>
      /\ IF Message \in Expired(buffers[r])
         THEN /\ air' = air \union Broadcast(r, carried[r].hop)
              /\ carried' = [carried EXCEPT ![r] = Nothing]
              /\ sent' = [sent EXCEPT ![r] = OneMoreThan(@, setup.maxCounter + 1)]
         ELSE UNCHANGED <<air, carried, sent>>
  BY DEF Transmit
<1>4. CarriedInReach(r, buffers[r], carried[r], pos, got) /\ SoundBuffer(buffers[r])
  BY <1>1 DEF CarriedInReach
<1>5. /\ SoundBuffer(b) /\ PlacedBuffer(b)
      /\ Stored(b, Message) <=> Stored(buffers[r], Message) /\ Message \notin Expired(buffers[r])
  BY <1>2, <1>4, FlushSound, FlushPlaced, FlushLeaves DEF CarriedInReach
<1>6. Nothing \in [from : Router, hop : 0..HopLimit]
  BY NetworkAssumption DEF Nothing
<1>7. CASE Message \in Expired(buffers[r])
  <2>1. Stored(buffers[r], Message)
    BY <1>7 DEF Expired, Stored
  <2>2. /\ r \in got /\ carried[r].hop \in 1..(HopLimit - 1)
        /\ Far(pos, r, Source) <= MaxRange * (HopLimit - carried[r].hop)
    BY <1>4, <2>1 DEF CarriedInReach
  <2>3. carried[r].hop \in 0..HopLimit /\ carried[r].hop > 0
    BY <1>1, <2>2
  <2>4. \A d \in Broadcast(r, carried[r].hop) : CopyInReach(d, pos, got)
    BY <1>1, <2>2, <2>3, BroadcastInReach
  <2>5. CarriedInReach(r, b, Nothing, pos, got)
    BY <1>5, <1>6, <1>7 DEF CarriedInReach
  <2>6. \A s \in Router : CarriedInReach(s, buffers'[s], carried'[s], pos, got)
    <3>1. ASSUME NEW s \in Router PROVE /\ s = r => buffers'[s] = b /\ carried'[s] = Nothing
                                        /\ s # r => buffers'[s] = buffers[s] /\ carried'[s] = carried[s]
      BY <1>1, <1>2, <1>3, <1>7
    <3> QED
      BY <1>1, <2>5, <3>1
  <2>7. sent' \in [Router -> 0..(setup.maxCounter + 1)] /\ \A s \in Router : sent'[s] > 0 => s \in got
    <3>1. setup.maxCounter \in Nat /\ sent[r] \in 0..(setup.maxCounter + 1)
      BY <1>1, NetworkAssumption
    <3>2. OneMoreThan(sent[r], setup.maxCounter + 1) \in 0..(setup.maxCounter + 1)
      BY <3>1 DEF OneMoreThan
    <3>3. sent' = [sent EXCEPT ![r] = OneMoreThan(sent[r], setup.maxCounter + 1)]
      BY <1>3, <1>7
    <3> QED
      BY <1>1, <2>2, <3>2, <3>3
  <2>8. \A d \in air' : CopyInReach(d, pos, got)
    BY <1>1, <1>3, <1>7, <2>4
  <2>9. DOMAIN buffers' = Router /\ DOMAIN carried' = Router
    BY <1>1, <1>2, <1>3, <1>7
  <2> QED
    BY <1>1, <1>3, <2>6, <2>7, <2>8, <2>9 DEF NetworkInv
<1>8. CASE Message \notin Expired(buffers[r])
  <2>1. UNCHANGED <<air, carried, sent>>
    BY <1>3, <1>8
  <2>2. CarriedInReach(r, b, carried[r], pos, got)
    BY <1>4, <1>5, <1>8 DEF CarriedInReach
  <2>3. \A s \in Router : CarriedInReach(s, buffers'[s], carried'[s], pos, got)
    <3>1. ASSUME NEW s \in Router PROVE /\ s = r => buffers'[s] = b
                                        /\ s # r => buffers'[s] = buffers[s]
      BY <1>1, <1>2
    <3> QED
      BY <1>1, <2>1, <2>2, <3>1
  <2>4. DOMAIN buffers' = Router
    BY <1>1, <1>2
  <2> QED
    BY <1>1, <1>3, <2>1, <2>3, <2>4 DEF NetworkInv
<1> QED
  BY <1>7, <1>8

\* Time that passes, and a lost copy, change nothing of it.
LEMMA NextTickKeeps == ASSUME NetworkInv, NextTick PROVE NetworkInv'
<1>1. /\ \A r \in Router : buffers[r].event # 0
      /\ buffers' = [r \in Router |-> Elapsed(buffers[r])]
      /\ UNCHANGED <<setup, carried, air, got, sent, lost>>
  BY DEF NextTick
<1>2. ASSUME NEW r \in Router
      PROVE  CarriedInReach(r, buffers'[r], carried[r], setup.position, got)
  <2> DEFINE b == buffers[r]
             c == Elapsed(b)
  <2>1. CarriedInReach(r, b, carried[r], setup.position, got)
    BY DEF NetworkInv
  <2>2. buffers'[r] = c /\ b.event # 0 /\ SoundBuffer(b) /\ PlacedBuffer(b)
    BY <1>1, <2>1 DEF CarriedInReach
  <2>3. SoundBuffer(c) /\ PlacedBuffer(c)
    BY <2>2, ElapsedSound, ElapsedPlaced
  <2>4. DOMAIN c.timers = DOMAIN b.timers
    <3>1. c.timers = [id \in DOMAIN b.timers |-> b.timers[id] - 1]
      BY <2>2 DEF Elapsed, SoundBuffer, Fields
    <3> QED
      BY <3>1
  <2> HIDE DEF b, c
  <2> QED
    BY <2>1, <2>2, <2>3, <2>4 DEF CarriedInReach, Stored
<1> QED
  BY <1>1, <1>2 DEF NetworkInv

LEMMA LoseKeeps == ASSUME NetworkInv, NEW c \in air, Lose(c) PROVE NetworkInv'
<1>1. /\ lost < setup.losses /\ lost' = lost + 1 /\ air' = air \ {c}
      /\ UNCHANGED <<setup, buffers, carried, got, sent>>
  BY DEF Lose
<1>2. lost' \in 0..setup.losses
  BY <1>1, SetupFields DEF NetworkInv
<1> QED
  BY <1>1, <1>2 DEF NetworkInv

LEMMA NetworkKept == ASSUME NetworkInv, [NetworkNext]_networkVars PROVE NetworkInv'
<1>1. CASE UNCHANGED networkVars
  BY <1>1 DEF networkVars, NetworkInv
<1> QED
  BY <1>1, ReceiveKeeps, LoseKeeps, TransmitKeeps, NextTickKeeps DEF NetworkNext

\* The inductive invariant of the network.
THEOREM NetworkInductive == NetworkSpec => []NetworkInv
BY NetworkInitial, NetworkKept, PTL DEF NetworkSpec

\* Routers that contend do not carry a packet farther than its hop limit says,
\* whatever is lost and however often a contention starts again: the hop limit
\* goes down on the way through the buffer, not when the copy is heard.
THEOREM PacketStaysInReach == NetworkSpec => []StaysInReach
<1>1. NetworkInv => StaysInReach
  <2> SUFFICES ASSUME NetworkInv PROVE StaysInReach
    OBVIOUS
  <2>1. \A r \in got : Distance(r, Source) <= MaxRange * Hops
    BY DEF NetworkInv, Distance, Far
  <2>2. ASSUME NEW r \in Router, Carries(r) PROVE r \in got
    BY <2>2 DEF NetworkInv, CarriedInReach, Carries
  <2> QED
    BY <2>1, <2>2 DEF NetworkInv, StaysInReach
<1> QED
  BY <1>1, NetworkInductive, PTL

\* Each router of the network keeps its buffer as a router does on its own: the
\* timeouts that distances give are within the buffer's bounds.
THEOREM NetworkBuffersSound ==
  NetworkSpec => [](\A r \in Router : SoundBuffer(buffers[r]) /\ PlacedBuffer(buffers[r]))
<1> DEFINE Kept == \A r \in Router : SoundBuffer(buffers[r]) /\ PlacedBuffer(buffers[r])
<1>1. NetworkInv => Kept
  BY DEF NetworkInv, CarriedInReach
<1> HIDE DEF Kept
<1>2. NetworkSpec => []Kept
  BY <1>1, NetworkInductive, PTL
<1> QED
  BY <1>2 DEF Kept
=============================================================================
