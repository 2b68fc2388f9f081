------------------------------ MODULE F2Sketch ------------------------------
(***************************************************************************)
(* The score of a packet: AdaptiveFilterFSM::calculate_max_sum_sq.  It is  *)
(* the largest sum of squared byte frequencies over the windows of         *)
(* WINDOW_SIZE bytes at the front of the packet, computed incrementally:   *)
(* a histogram of the window, a ring of its bytes, and a list of the bytes *)
(* with a count, from which one is removed by moving the last into its     *)
(* place.  Zero bytes, which are padding, do not count, and the scan stops *)
(* as soon as the threshold is passed.                                     *)
(*                                                                         *)
(* One step per byte.  Which bytes the packet has is decided as they are   *)
(* read.                                                                   *)
(***************************************************************************)
EXTENDS SequencesExt, Integers

CONSTANTS
  Byte,         \* the values of a byte, zero among them
  WINDOW_SIZE,  \* bytes of a window
  Overhang,     \* bytes read after the first window
  SQ_THRESHOLD, \* threshold of the policy in force
  MaxSize       \* bound: size of a packet

ASSUME SketchAssumption ==
  /\ Byte \subseteq Nat
  /\ IsFiniteSet(Byte)
  /\ 0 \in Byte
  /\ WINDOW_SIZE \in Nat \ {0}
  /\ Overhang \in Nat
  /\ SQ_THRESHOLD \in Nat \ {0}
  /\ MaxSize \in Nat

VARIABLES
  size,        \* buf.size()
  buf,         \* the bytes read so far
  histogram,   \* count of each byte in the window
  active,      \* active_vals, up to n_active
  inActive,    \* in_active, the bytes for which it is true
  ring,        \* ring_buffer
  ringIdx,     \* ring_idx
  items,       \* items_in_window
  maxSumSq,    \* max_sum_sq
  result       \* what has been returned, NoResult before

windowVars == <<histogram, active, inActive, ring, ringIdx, items>>
sketchVars == <<size, buf, windowVars, maxSumSq, result>>

NoResult == -1

MaxScore == WINDOW_SIZE * WINDOW_SIZE

SketchTypeOK ==
  /\ size \in 0..MaxSize
  /\ buf \in Seq(Byte)
  /\ histogram \in [Byte -> 0..WINDOW_SIZE]
  /\ active \in Seq(Byte) /\ Len(active) <= Cardinality(Byte)
  /\ inActive \subseteq Byte
  /\ ring \in [0..(WINDOW_SIZE - 1) -> Byte]
  /\ ringIdx \in 0..(WINDOW_SIZE - 1)
  /\ items \in 0..WINDOW_SIZE
  /\ maxSumSq \in 0..MaxScore
  /\ result \in 0..MaxScore \union {NoResult}

SketchInit ==
  /\ size \in 0..MaxSize
  /\ buf = <<>>
  /\ histogram = [v \in Byte |-> 0]
  /\ active = <<>>
  /\ inActive = {}
  /\ ring = [i \in 0..(WINDOW_SIZE - 1) |-> 0]  \* no slot is read before it is written
  /\ ringIdx = 0
  /\ items = 0
  /\ maxSumSq = 0
  /\ result = NoResult

ScanLimit == IF size < WINDOW_SIZE + Overhang THEN size ELSE WINDOW_SIZE + Overhang

-----------------------------------------------------------------------------
\* Mutation: the last byte is dropped but not moved.
WithoutMut(list, old) == SubSeq(list, 1, Len(list) - 1)

\* The list without old: the last byte takes its place.
Without(list, old) ==
  LET j == CHOOSE i \in DOMAIN list : list[i] = old
      n == Len(list)
  IN SubSeq([list EXCEPT ![j] = list[n]], 1, n - 1)

\* The histogram and the list after the oldest byte has left a full window.
Evicted ==
  LET old   == ring[ringIdx]
      count == [histogram EXCEPT ![old] = @ - 1]
  IN IF items < WINDOW_SIZE
     THEN [count |-> histogram, list |-> active, members |-> inActive]
     ELSE IF count[old] = 0
     THEN [count |-> count, list |-> Without(active, old), members |-> inActive \ {old}]
     ELSE [count |-> count, list |-> active, members |-> inActive]

\* The window moves on by the byte cur.
Slide(cur) ==
  LET e == Evicted IN
  /\ histogram' = [e.count EXCEPT ![cur] = @ + 1]
  /\ active' = IF cur \in e.members THEN e.list ELSE Append(e.list, cur)
  /\ inActive' = e.members \union {cur}
  /\ ring' = [ring EXCEPT ![ringIdx] = cur]
  /\ ringIdx' = (ringIdx + 1) % WINDOW_SIZE
  /\ items' = IF items = WINDOW_SIZE THEN items ELSE items + 1

\* Mutation: padding is counted.
SumSqMut(count, list) ==
  LET sum[n \in 0..Len(list)] ==
        IF n = 0 THEN 0
        ELSE IF sum[n - 1] > SQ_THRESHOLD THEN sum[n - 1]
        ELSE sum[n - 1] + count[list[n]] * count[list[n]]
  IN sum[Len(list)]

\* The sum over the list, which is left at the byte that passes the threshold.
SumSq(count, list) ==
  LET sum[n \in 0..Len(list)] ==
        IF n = 0 THEN 0
        ELSE IF sum[n - 1] > SQ_THRESHOLD \/ list[n] = 0 THEN sum[n - 1]
        ELSE sum[n - 1] + count[list[n]] * count[list[n]]
  IN sum[Len(list)]

\* A packet shorter than a window is not scored.
TooSmall ==
  /\ result = NoResult
  /\ size < WINDOW_SIZE
  /\ result' = 0
  /\ UNCHANGED <<size, buf, windowVars, maxSumSq>>

Read(cur) ==
  /\ result = NoResult
  /\ size >= WINDOW_SIZE
  /\ Len(buf) < ScanLimit
  /\ buf' = Append(buf, cur)
  /\ Slide(cur)
  /\ UNCHANGED size

\* The window is not full yet.
Fill(cur) ==
  /\ Read(cur)
  /\ items' < WINDOW_SIZE
  /\ UNCHANGED <<maxSumSq, result>>

\* The window is scored, and the packet is not suspicious so far.
Score(cur) ==
  /\ Read(cur)
  /\ items' = WINDOW_SIZE
  /\ LET sumSq == SumSq(histogram', active') IN
     /\ sumSq <= SQ_THRESHOLD
     /\ maxSumSq' = IF sumSq > maxSumSq THEN sumSq ELSE maxSumSq
  /\ UNCHANGED result

\* The threshold is passed.
Detect(cur) ==
  /\ Read(cur)
  /\ items' = WINDOW_SIZE
  /\ LET sumSq == SumSq(histogram', active') IN
     /\ sumSq > SQ_THRESHOLD
     /\ result' = sumSq
  /\ UNCHANGED maxSumSq

Return ==
  /\ result = NoResult
  /\ size >= WINDOW_SIZE
  /\ Len(buf) = ScanLimit
  /\ result' = maxSumSq
  /\ UNCHANGED <<size, buf, windowVars, maxSumSq>>

SketchNext ==
  \/ TooSmall
  \/ \E cur \in Byte : Fill(cur) \/ Score(cur) \/ Detect(cur)
  \/ Return

SketchSpec == SketchInit /\ [][SketchNext]_sketchVars

-----------------------------------------------------------------------------
\* Reference definitions: the windows of buf, and the score of one of them.
CountIn(s, v) == Cardinality({i \in DOMAIN s : s[i] = v})

WindowsOf(s) ==
  {SubSeq(s, i, i + WINDOW_SIZE - 1) : i \in 1..(Len(s) - WINDOW_SIZE + 1)}

Squares(count) == [v \in Byte |-> count[v] * count[v]]

F2(w) == SumFunctionOnSet(Squares([v \in Byte |-> CountIn(w, v)]), Byte \ {0})

LargestF2 == Max({F2(w) : w \in WindowsOf(buf)} \union {0})

(***************************************************************************)
(* Whatever was read, evicted, and read again, the histogram counts the    *)
(* bytes of the window, and the list has every byte with a count once: a   *)
(* byte is neither scored twice nor forgotten, and the list cannot outgrow *)
(* its array.                                                              *)
(***************************************************************************)
SketchIsWindow ==
  LET w == SubSeq(buf, Len(buf) - items + 1, Len(buf)) IN
  /\ \A v \in Byte : histogram[v] = CountIn(w, v)
  /\ ToSet(active) = {v \in Byte : histogram[v] > 0}
  /\ Cardinality(ToSet(active)) = Len(active)
  /\ inActive = ToSet(active)

(***************************************************************************)
(* The verdict is exact although the scan stops early: the score passes    *)
(* the threshold exactly when some window of the bytes scanned does.  A    *)
(* score that does not is the maximum over the windows, and one that does  *)
(* is never overstated.                                                    *)
(***************************************************************************)
VerdictExact ==
  result # NoResult =>
    /\ result > SQ_THRESHOLD <=> LargestF2 > SQ_THRESHOLD
    /\ result <= SQ_THRESHOLD => result = LargestF2
    /\ result <= LargestF2
    /\ result <= SQ_THRESHOLD => Len(buf) = (IF size < WINDOW_SIZE THEN 0 ELSE ScanLimit)
=============================================================================
