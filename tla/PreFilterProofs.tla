--------------------------- MODULE PreFilterProofs ---------------------------
(***************************************************************************)
(* Proofs about the pre-filter.                                            *)
(*                                                                         *)
(* The filter, for every budget resolution, every guard value that         *)
(* satisfies ControlAssumption and every set of policies: IInv strengthens *)
(* the properties of AdaptiveFilter.  The streak began after the last      *)
(* flagged packet, or at the start, so the sixfold rate is only met after  *)
(* StreakThreshold packets (Cooling); and the policy in force is inside    *)
(* the guards whenever the guards are on and it came from the bridge or is *)
(* the default (Vetted).                                                   *)
(*                                                                         *)
(* The score of a packet, for windows of every size and packets of any     *)
(* bytes: SketchInv says where in the ring the bytes of the window are, so *)
(* that the byte evicted is the one that leaves the window, and that       *)
(* histogram, list and membership agree after each move.  ScoreInv is      *)
(* about the scan: until a window passes the threshold, max_sum_sq is the  *)
(* largest score so far.                                                   *)
(***************************************************************************)
EXTENDS AdaptiveFilter, F2Sketch, FiniteSums

StreakIsRecent == since < MaxSince => streak <= since

Vetted == guards /\ vetted => Guarded(policy)

IInv == TypeOK /\ StreakIsRecent /\ CooldownHolds /\ Vetted

-----------------------------------------------------------------------------
\* The two operators every clamp is built from.
LEMMA LesserFact ==
  ASSUME NEW a \in Int, NEW b \in Int
  PROVE  /\ Lesser(a, b) \in {a, b}
         /\ Lesser(a, b) <= a
         /\ Lesser(a, b) <= b
  BY DEF Lesser

LEMMA GreaterFact ==
  ASSUME NEW a \in Int, NEW b \in Int
  PROVE  /\ Greater(a, b) \in {a, b}
         /\ Greater(a, b) >= a
         /\ Greater(a, b) >= b
  BY DEF Greater

\* The S0 range is closed under the clamp whatever rate is asked for.
LEMMA ClampRange ==
  ASSUME NEW r \in Int
  PROVE  ClampS0(r) \in MinS0..MaxS0
  BY DEF ClampS0, Lesser, Greater, MinS0, MaxS0

(***************************************************************************)
(* enforce_policy_boundaries makes a policy of anything an agent asks for, *)
(* in the S0 range even with the guards off, and inside the guards with    *)
(* them on.                                                                *)
(***************************************************************************)
THEOREM EnforceIsSafe ==
  ASSUME NEW p \in RawPolicy, NEW g \in BOOLEAN
  PROVE  /\ Enforce(p, g) \in Policy
         /\ Enforce(p, g).base \in MinS0..MaxS0
         /\ g => Guarded(Enforce(p, g))
<1>1. /\ p.recovery \in 0..MaxRecovery
      /\ p.penalty \in Nat
      /\ p.sq \in Nat \ {0}
      /\ p.base \in Int
  BY DEF RawPolicy
<1>2. ClampS0(p.base) \in MinS0..MaxS0
  BY <1>1, ClampRange
<1>3. ClampS0(p.base) \in 0..100
  BY <1>2 DEF MinS0, MaxS0
<1>4. /\ Lesser(p.recovery, RecoveryCap) \in 0..MaxRecovery
      /\ Lesser(p.recovery, RecoveryCap) <= RecoveryCap
  BY <1>1, ControlAssumption DEF Lesser
<1>5. /\ Greater(p.penalty, PenaltyFloor) \in Nat
      /\ Greater(p.penalty, PenaltyFloor) >= PenaltyFloor
  BY <1>1, ControlAssumption DEF Greater
<1>6. /\ Lesser(p.sq, SqCap) \in Nat \ {0}
      /\ Lesser(p.sq, SqCap) <= SqCap
  BY <1>1, ControlAssumption DEF Lesser
<1>7. CASE g
  BY <1>2, <1>3, <1>4, <1>5, <1>6, <1>7 DEF Enforce, Policy, Guarded
<1>8. CASE ~g
  BY <1>1, <1>2, <1>3, <1>8 DEF Enforce, Policy
<1>9. QED
  BY <1>7, <1>8

(***************************************************************************)
(* The floor under the sampling rate is a rate, is full at TAU_2 and       *)
(* below, and never rises when the budget does (get_sampling_rate's four   *)
(* pieces fit together).                                                   *)
(***************************************************************************)
THEOREM FloorAntitone ==
  ASSUME NEW b \in 0..MaxBudget, NEW c \in 0..MaxBudget, b <= c
  PROVE  /\ Floor(b) \in 0..FullRate
         /\ b <= Tau2 => Floor(b) = FullRate
         /\ Floor(c) <= Floor(b)
  BY ControlAssumption DEF Floor, FullRate, MaxBudget, Tau1, Tau2

-----------------------------------------------------------------------------
\* A quotient is at least n when the dividend is at least n times the divisor.
LEMMA QuotientAtLeast ==
  ASSUME NEW a \in Nat, NEW d \in Nat \ {0}, NEW n \in Nat, n * d <= a
  PROVE  a \div d \in Nat /\ n <= a \div d
  OBVIOUS

\* The cost of a flagged packet, and what it is at least inside the guards.
LEMMA CostBound ==
  ASSUME TypeOK, NEW sq \in Scores, sq > policy.sq
  PROVE  /\ Cost(sq) \in Nat
         /\ Guarded(policy) => Cost(sq) >= 3 * RecoveryCap
<1> DEFINE t == policy.sq
           q == policy.penalty
<1>1. t \in Nat \ {0} /\ q \in Nat /\ sq \in Nat /\ Decade \in Nat
  BY ControlAssumption, FilterAssumption DEF TypeOK, Policy
<1>2. sq - t \in Nat /\ sq - t >= 1
  BY <1>1
<1>3. (sq - t) * q \in Nat /\ (sq - t) * q >= q
  BY <1>1, <1>2
<1>4. (sq - t) * q * Decade \in Nat /\ (sq - t) * q * Decade >= q * Decade
  BY <1>1, <1>3
<1>5. Cost(sq) = ((sq - t) * q * Decade) \div t
  BY DEF Cost
<1>6. Cost(sq) \in Nat
  <2> HIDE DEF t, q
  <2>1. 0 * t <= (sq - t) * q * Decade
    BY <1>1, <1>4
  <2>2. QED
    BY <1>1, <1>4, <1>5, <2>1, QuotientAtLeast
<1>7. ASSUME Guarded(policy) PROVE Cost(sq) >= 3 * RecoveryCap
  <2>1. t <= SqCap /\ q >= PenaltyFloor
    BY <1>7 DEF Guarded
  <2> HIDE DEF t, q
  <2>2. 3 * RecoveryCap \in Nat /\ SqCap \in Nat /\ PenaltyFloor \in Nat
    BY ControlAssumption
  <2>3. (3 * RecoveryCap) * t <= (3 * RecoveryCap) * SqCap
    BY <1>1, <2>1, <2>2
  <2>4. PenaltyFloor * Decade <= q * Decade
    BY <1>1, <2>1, <2>2
  <2>5. (3 * RecoveryCap) * SqCap <= PenaltyFloor * Decade
    BY ControlAssumption
  <2>6. (3 * RecoveryCap) * t <= (sq - t) * q * Decade
    BY <1>1, <1>4, <2>2, <2>3, <2>4, <2>5
  <2>7. 3 * RecoveryCap <= ((sq - t) * q * Decade) \div t
    BY <1>1, <1>4, <2>2, <2>6, QuotientAtLeast
  <2>8. QED
    BY <1>5, <1>6, <2>2, <2>7
<1>8. QED
  BY <1>6, <1>7

-----------------------------------------------------------------------------
LEMMA InitIInv == Init => IInv
<1> SUFFICES ASSUME Init PROVE IInv
  OBVIOUS
<1>1. /\ MaxBudget \in Nat /\ MaxRecovery \in Nat
      /\ StreakThreshold \in Nat /\ MaxSince \in Nat
  BY ControlAssumption, FilterAssumption DEF MaxBudget
<1>2. policy \in Policy /\ (vetted => Guarded(policy))
  <2>1. CASE policy \in CustomPolicies /\ vetted = FALSE
    BY <2>1, FilterAssumption
  <2>2. CASE /\ policy \in {[DefaultPolicy EXCEPT !.base = r] : r \in StartRates(mode)}
             /\ vetted = TRUE
    <3>1. StartRates(mode) \subseteq 0..100
      BY FilterAssumption DEF Init, Mode, StartRates, MinS0
    <3>2. PICK r \in 0..100 : policy = [DefaultPolicy EXCEPT !.base = r]
      BY <2>2, <3>1
    <3>3. DefaultPolicy \in Policy /\ Guarded(DefaultPolicy)
      BY FilterAssumption
    <3>4. policy \in Policy
      BY <3>2, <3>3 DEF Policy
    <3>5. Guarded(policy)
      BY <3>2, <3>3 DEF Guarded, Policy
    <3>6. QED
      BY <3>4, <3>5
  <2>3. QED
    BY <2>1, <2>2 DEF Init
<1>3. vetted \in BOOLEAN
  BY Zenon DEF Init
<1>4. last \in Outcome
  BY DEF Init, Outcome
<1>5. TypeOK
  BY <1>1, <1>2, <1>3, <1>4 DEF Init, TypeOK
<1>6. StreakIsRecent /\ CooldownHolds
  BY <1>1 DEF Init, StreakIsRecent, CooldownHolds, Greater
<1>7. QED
  BY <1>2, <1>5, <1>6 DEF IInv, Vetted

\* What a packet nobody flags does to budget, streak and the count of packets,
\* at most: one more packet, and the sixfold rate only beyond the threshold.
LEMMA UnflaggedStep ==
  ASSUME TypeOK, StreakIsRecent, CooldownHolds, UNCHANGED policy, UNCHANGED low,
         streak' \in {streak, NextStreak},
         budget' = Recovered(streak') \/ budget' = Lesser(MaxBudget, budget + policy.recovery),
         since' = OneMore
  PROVE  /\ budget' \in 0..MaxBudget
         /\ streak' \in 0..(StreakThreshold + 1)
         /\ since' \in 0..MaxSince
         /\ StreakIsRecent'
         /\ CooldownHolds'
<1> DEFINE r == policy.recovery
           excess == Greater(0, since - StreakThreshold)
<1>1. /\ MaxBudget \in Nat /\ MaxRecovery \in Nat
      /\ StreakThreshold \in Nat /\ MaxSince \in Nat
      /\ r \in 0..MaxRecovery /\ low \in Nat
      /\ budget \in 0..MaxBudget
      /\ streak \in 0..(StreakThreshold + 1)
      /\ since \in 0..MaxSince
  BY ControlAssumption, FilterAssumption DEF MaxBudget, TypeOK, Policy
<1>2. /\ streak' \in 0..(StreakThreshold + 1)
      /\ streak' <= streak + 1
  BY <1>1 DEF NextStreak, Lesser
<1>3. since' \in 0..MaxSince /\ (since' < MaxSince => since < MaxSince /\ since' = since + 1)
  BY <1>1 DEF OneMore, Lesser
<1>4. StreakIsRecent'
  BY <1>1, <1>2, <1>3 DEF StreakIsRecent
<1>5. /\ budget' \in 0..MaxBudget
      /\ \/ budget' <= budget + r
         \/ streak' > StreakThreshold /\ budget' <= budget + 6 * r
  BY <1>1, <1>2 DEF Recovered, Lesser
<1>6. ASSUME since' < MaxSince
      PROVE  budget' <= low + MaxRecovery * (since' + 5 * Greater(0, since' - StreakThreshold))
  <2>1. since < MaxSince /\ since' = since + 1 /\ streak <= since
    BY <1>3, <1>6 DEF StreakIsRecent
  <2>2. budget <= low + MaxRecovery * (since + 5 * excess)
    BY <2>1 DEF CooldownHolds
  <2>3. excess \in Nat
    BY <1>1 DEF Greater
  <2>4. Greater(0, since' - StreakThreshold) \in Nat
        /\ Greater(0, since' - StreakThreshold) >= excess
    BY <1>1, <2>1 DEF Greater
  <2> DEFINE k == since + 5 * excess
             k1 == since' + 5 * Greater(0, since' - StreakThreshold)
  <2>5. k \in Nat /\ k1 \in Nat /\ k1 >= k + 1
    BY <1>1, <2>1, <2>3, <2>4
  <2>6. CASE budget' <= budget + r
    <3> HIDE DEF k, k1, r
    <3>1. MaxRecovery * k + MaxRecovery <= MaxRecovery * k1
      BY <1>1, <2>5
    <3>2. MaxRecovery * k \in Nat /\ MaxRecovery * k1 \in Nat
      BY <1>1, <2>5
    <3>3. budget <= low + MaxRecovery * k
      BY <2>2 DEF k
    <3>4. budget' <= low + MaxRecovery * k1
      BY <1>1, <1>5, <2>6, <3>1, <3>2, <3>3
    <3>5. QED
      BY <3>4 DEF k1
  <2>7. CASE streak' > StreakThreshold /\ budget' <= budget + 6 * r
    <3>1. k1 = k + 6
      BY <1>1, <1>2, <2>1, <2>7 DEF Greater
    <3> HIDE DEF k, k1, r
    <3>2. MaxRecovery * k1 = MaxRecovery * k + 6 * MaxRecovery
      BY <1>1, <2>5, <3>1
    <3>3. MaxRecovery * k \in Nat /\ MaxRecovery * k1 \in Nat
      BY <1>1, <2>5
    <3>4. budget <= low + MaxRecovery * k
      BY <2>2 DEF k
    <3>5. budget' <= low + MaxRecovery * k1
      BY <1>1, <1>5, <2>7, <3>2, <3>3, <3>4
    <3>6. QED
      BY <3>5 DEF k1
  <2>8. QED
    BY <1>5, <2>6, <2>7
<1>7. CooldownHolds'
  BY <1>6 DEF CooldownHolds
<1>8. QED
  BY <1>2, <1>3, <1>4, <1>5, <1>7

LEMMA NextKeepsIInv == IInv /\ [Next]_vars => IInv'
<1> SUFFICES ASSUME IInv, [Next]_vars PROVE IInv'
  OBVIOUS
<1>1. TypeOK /\ StreakIsRecent /\ CooldownHolds /\ Vetted
  BY DEF IInv
<1>2. ASSUME UNCHANGED <<config, policy, vetted, low>>,
             streak' \in {streak, NextStreak},
             budget' = Recovered(streak') \/ budget' = Lesser(MaxBudget, budget + policy.recovery),
             since' = OneMore,
             last' \in Outcome
      PROVE  IInv'
  <2>1. /\ budget' \in 0..MaxBudget
        /\ streak' \in 0..(StreakThreshold + 1)
        /\ since' \in 0..MaxSince
        /\ StreakIsRecent'
        /\ CooldownHolds'
    BY <1>1, <1>2, UnflaggedStep
  <2>2. mode' = mode /\ guards' = guards /\ vetted' = vetted /\ policy' = policy /\ low' = low
    BY <1>2 DEF config
  <2>3. guards' \in BOOLEAN /\ vetted' \in BOOLEAN
    BY <1>1, <2>2, Zenon DEF TypeOK
  <2>4. TypeOK'
    BY <1>1, <1>2, <2>1, <2>2, <2>3 DEF TypeOK
  <2>5. Vetted'
    BY <1>1, <2>2 DEF Vetted, Guarded
  <2>6. QED
    BY <2>1, <2>4, <2>5 DEF IInv
<1>3. CASE ShortPacket
  <2>1. last' \in Outcome
    BY <1>3 DEF ShortPacket, Outcome
  <2>2. QED
    BY <1>2, <1>3, <2>1 DEF ShortPacket
<1>4. CASE SkippedPacket
  <2>1. last' \in Outcome
    BY <1>4 DEF SkippedPacket, Outcome
  <2>2. QED
    BY <1>2, <1>4, <2>1 DEF SkippedPacket
<1>5. CASE CleanPacket
  <2>1. last' \in Outcome
    BY <1>5 DEF CleanPacket, Outcome
  <2>2. QED
    BY <1>2, <1>5, <2>1 DEF CleanPacket
<1>6. CASE FlaggedPacket
  <2>1. PICK sq \in Scores : sq > policy.sq /\ budget' = Drained(sq)
    BY <1>6 DEF FlaggedPacket
  <2>2. /\ MaxBudget \in Nat /\ MaxRecovery \in Nat
        /\ StreakThreshold \in Nat /\ MaxSince \in Nat
    BY ControlAssumption, FilterAssumption DEF MaxBudget
  <2>3. budget \in 0..MaxBudget /\ Cost(sq) \in Nat
    BY <1>1, <2>1, CostBound DEF TypeOK
  <2>4. budget' \in 0..MaxBudget
    BY <2>1, <2>2, <2>3 DEF Drained, Greater
  <2>5. /\ mode' = mode /\ guards' = guards /\ vetted' = vetted /\ policy' = policy
        /\ streak' = 0 /\ since' = 0 /\ low' = budget' /\ last' = "flagged"
    BY <1>6 DEF FlaggedPacket, config
  <2>6. guards' \in BOOLEAN /\ vetted' \in BOOLEAN
    BY <1>1, <2>5, Zenon DEF TypeOK
  <2>7. last' \in Outcome
    BY <2>5 DEF Outcome
  <2>8. TypeOK'
    BY <1>1, <2>2, <2>4, <2>5, <2>6, <2>7 DEF TypeOK
  <2>9. StreakIsRecent' /\ CooldownHolds'
    <3>1. StreakIsRecent'
      BY <2>2, <2>5 DEF StreakIsRecent
    <3>2. since' + 5 * Greater(0, since' - StreakThreshold) = 0
      BY <2>2, <2>5 DEF Greater
    <3>3. MaxRecovery * 0 = 0
      BY <2>2
    <3>4. budget' \in Int /\ low' = budget'
      BY <2>2, <2>4, <2>5
    <3>5. MaxRecovery * (since' + 5 * Greater(0, since' - StreakThreshold)) = 0
      BY <3>2, <3>3
    <3>6. budget' <= low' + MaxRecovery * (since' + 5 * Greater(0, since' - StreakThreshold))
      BY <3>4, <3>5
    <3>7. QED
      BY <3>1, <3>6 DEF CooldownHolds
  <2>10. Vetted'
    BY <1>1, <2>5 DEF Vetted, Guarded
  <2>11. QED
    BY <2>8, <2>9, <2>10 DEF IInv
<1>7. CASE UpdatePolicy
  <2>1. PICK raw \in RawPolicies : policy' = Enforce(raw, guards)
    BY <1>7 DEF UpdatePolicy
  <2>2. raw \in RawPolicy /\ guards \in BOOLEAN
    BY <1>1, <2>1, FilterAssumption, Zenon DEF TypeOK
  <2>3. policy' \in Policy /\ (guards => Guarded(policy'))
    BY <2>1, <2>2, EnforceIsSafe
  <2>4. /\ mode' = mode /\ guards' = guards /\ vetted' = TRUE /\ budget' = budget
        /\ streak' = streak /\ last' = last /\ low' = low /\ since' = since
    BY <1>7 DEF UpdatePolicy, config
  <2>5. guards' \in BOOLEAN /\ vetted' \in BOOLEAN
    BY <2>2, <2>4, Zenon
  <2>6. TypeOK'
    BY <1>1, <2>3, <2>4, <2>5 DEF TypeOK
  <2>7. StreakIsRecent' /\ CooldownHolds'
    BY <1>1, <2>4 DEF StreakIsRecent, CooldownHolds
  <2>8. Vetted'
    BY <2>3, <2>4 DEF Vetted, Guarded
  <2>9. QED
    BY <2>6, <2>7, <2>8 DEF IInv
<1>8. CASE UNCHANGED vars
  <2>1. /\ mode' = mode /\ guards' = guards /\ policy' = policy /\ budget' = budget
        /\ streak' = streak /\ last' = last /\ vetted' = vetted /\ low' = low
        /\ since' = since
    BY <1>8 DEF vars
  <2>2. guards' \in BOOLEAN /\ vetted' \in BOOLEAN
    BY <1>1, <2>1, Zenon DEF TypeOK
  <2>3. TypeOK'
    BY <1>1, <2>1, <2>2 DEF TypeOK
  <2>4. StreakIsRecent' /\ CooldownHolds' /\ Vetted'
    BY <1>1, <2>1 DEF StreakIsRecent, CooldownHolds, Vetted, Guarded
  <2>5. QED
    BY <2>3, <2>4 DEF IInv
<1>9. QED
  BY <1>3, <1>4, <1>5, <1>6, <1>7, <1>8 DEF Next, Packet

(***************************************************************************)
(* The inductive invariant holds in every reachable state.                 *)
(***************************************************************************)
THEOREM Inductive == Spec => []IInv
<1>1. QED
  BY InitIInv, NextKeepsIInv, PTL DEF Spec

(***************************************************************************)
(* The budget stays between zero and full, and every variable of the       *)
(* filter keeps its type, whatever policies are installed.                 *)
(***************************************************************************)
THEOREM TypeCorrect == Spec => []TypeOK
<1>1. IInv => TypeOK
  BY DEF IInv
<1>2. QED
  BY <1>1, Inductive, PTL

(***************************************************************************)
(* The budget recovers no faster than one recovery a packet after a        *)
(* flagged packet, and six only beyond a streak of STREAK_THRESHOLD.       *)
(***************************************************************************)
THEOREM CooldownIsKept == Spec => []CooldownHolds
<1>1. IInv => CooldownHolds
  BY DEF IInv
<1>2. QED
  BY <1>1, Inductive, PTL

(***************************************************************************)
(* No policy, guarded or not, keeps an adaptive filter in S2 or S3 from    *)
(* inspecting a full-size packet.                                          *)
(***************************************************************************)
THEOREM InspectionIsMandatory == Spec => MandatoryInspection
<1>1. IInv /\ [Next]_vars
        => [UNCHANGED <<policy, vetted>> /\ last' = "skipped" /\ Adaptive
              => State \notin {"S2", "S3"}]_vars
  <2> SUFFICES ASSUME IInv, Next, policy' = policy, vetted' = vetted,
                      last' = "skipped", Adaptive, vars' # vars
               PROVE  State \notin {"S2", "S3"}
    BY DEF vars
  <2>1. CASE SkippedPacket
    <3>1. SamplingRate < FullRate
      BY <2>1 DEF SkippedPacket, MaySkip
    <3>2. BaseRate \in Int /\ budget \in 0..MaxBudget /\ Decade \in Nat \ {0}
      BY ControlAssumption DEF IInv, TypeOK, Policy, BaseRate
    <3>3. Floor(budget) \in 0..FullRate /\ (budget <= Tau2 => Floor(budget) = FullRate)
      BY <3>2, FloorAntitone
    <3>4. FullRate \in Nat
      BY <3>2 DEF FullRate
    <3>5. budget > Tau2
      BY <3>1, <3>2, <3>3, <3>4 DEF SamplingRate, Greater, Tau2
    <3>6. QED
      BY <3>5 DEF State
  <2>2. CASE UpdatePolicy
    BY <2>2 DEF UpdatePolicy, config, vars
  <2>3. QED
    BY <2>1, <2>2 DEF Next, Packet, ShortPacket, CleanPacket, FlaggedPacket
<1>2. QED
  BY <1>1, Inductive, PTL DEF Spec, MandatoryInspection

(***************************************************************************)
(* With the guards on, a flagged packet costs at least three recoveries:   *)
(* the proportion between the three boundaries is what ControlAssumption   *)
(* says of them.                                                           *)
(***************************************************************************)
THEOREM FlagsCost == Spec => FlaggedNeverPays
<1>1. IInv /\ [Next]_vars
        => [UNCHANGED <<policy, vetted>> /\ last' = "flagged" /\ guards /\ vetted
              => budget' <= Greater(0, budget - 3 * RecoveryCap)]_vars
  <2> SUFFICES ASSUME IInv, Next, policy' = policy, vetted' = vetted,
                      last' = "flagged", guards, vetted, vars' # vars
               PROVE  budget' <= Greater(0, budget - 3 * RecoveryCap)
    BY DEF vars
  <2>1. TypeOK /\ Guarded(policy)
    BY DEF IInv, Vetted
  <2>2. CASE FlaggedPacket
    <3>1. PICK sq \in Scores : sq > policy.sq /\ budget' = Drained(sq)
      BY <2>2 DEF FlaggedPacket
    <3>2. Cost(sq) \in Nat /\ Cost(sq) >= 3 * RecoveryCap
      BY <2>1, <3>1, CostBound
    <3>3. budget \in Int /\ RecoveryCap \in Nat
      BY <2>1, ControlAssumption DEF TypeOK, MaxBudget
    <3>4. QED
      BY <3>1, <3>2, <3>3 DEF Drained, Greater
  <2>3. CASE UpdatePolicy
    BY <2>3 DEF UpdatePolicy, config, vars
  <2>4. QED
    BY <2>2, <2>3 DEF Next, Packet, ShortPacket, CleanPacket, SkippedPacket
<1>2. QED
  BY <1>1, Inductive, PTL DEF Spec, FlaggedNeverPays

-----------------------------------------------------------------------------
\* Where the ring keeps the window: behind ringIdx its newest bytes, from
\* ringIdx on the older ones, once it has wrapped.
RingHoldsWindow ==
  /\ buf \in Seq(Byte)
  /\ ring \in [0..(WINDOW_SIZE - 1) -> Byte]
  /\ ringIdx \in 0..(WINDOW_SIZE - 1)
  /\ items \in 0..WINDOW_SIZE
  /\ items <= Len(buf)
  /\ items < WINDOW_SIZE => ringIdx = items /\ Len(buf) = items
  /\ \A p \in 0..(ringIdx - 1) : ring[p] = buf[Len(buf) - ringIdx + p + 1]
  /\ items = WINDOW_SIZE =>
       \A p \in ringIdx..(WINDOW_SIZE - 1) : ring[p] = buf[Len(buf) - ringIdx - WINDOW_SIZE + p + 1]

\* The positions from i to j at which s has v.
Places(s, i, j, v) == {k \in i..j : s[k] = v}

HistogramCounts ==
  \A v \in Byte : histogram[v] = Cardinality(Places(buf, Len(buf) - items + 1, Len(buf), v))

\* List, membership and histogram agree.
Agree(count, list, members) ==
  /\ count \in [Byte -> Nat]
  /\ list \in Seq(Byte)
  /\ members \subseteq Byte
  /\ \A i, j \in 1..Len(list) : list[i] = list[j] => i = j
  /\ \A v \in Byte : v \in members <=> count[v] > 0
  /\ \A v \in Byte : v \in members <=> \E i \in 1..Len(list) : list[i] = v

SketchInv ==
  /\ RingHoldsWindow
  /\ HistogramCounts
  /\ Agree(histogram, active, inActive)

-----------------------------------------------------------------------------
\* A byte has a number of places.
LEMMA PlacesFinite ==
  ASSUME NEW s, NEW i \in Int, NEW j \in Int, NEW v
  PROVE  IsFiniteSet(Places(s, i, j, v)) /\ Cardinality(Places(s, i, j, v)) \in Nat
<1>1. IsFiniteSet(i..j)
  BY FS_Interval
<1> QED
  BY <1>1, FS_Subset, FS_CardinalityType DEF Places

\* A window has as many of a byte as there are places in the packet.
LEMMA CountInWindow ==
  ASSUME NEW s \in Seq(Byte), NEW i \in 1..(Len(s) + 1), NEW v
  PROVE  CountIn(SubSeq(s, i, Len(s)), v) = Cardinality(Places(s, i, Len(s), v))
<1> DEFINE w == SubSeq(s, i, Len(s))
           m == Len(s) - i + 1
           S == {k \in DOMAIN w : w[k] = v}
           T == Places(s, i, Len(s), v)
           f == [k \in T |-> k - (i - 1)]
<1>1. /\ DOMAIN w = 1..m /\ m \in Nat
      /\ \A k \in 1..m : w[k] = s[k + (i - 1)]
  OBVIOUS
<1>2. ASSUME NEW k \in T PROVE f[k] \in S
  <2>1. k \in i..Len(s) /\ s[k] = v
    BY DEF Places
  <2>2. k - (i - 1) \in 1..m /\ (k - (i - 1)) + (i - 1) = k
    BY <2>1
  <2> QED
    BY <1>1, <2>1, <2>2
<1>3. \A a, b \in T : f[a] = f[b] => a = b
  BY DEF Places
<1>4. ASSUME NEW k \in S PROVE \E a \in T : f[a] = k
  <2>1. k \in 1..m /\ w[k] = v
    BY <1>1
  <2>2. k + (i - 1) \in i..Len(s) /\ s[k + (i - 1)] = v
    BY <1>1, <2>1
  <2>3. k + (i - 1) \in T /\ (k + (i - 1)) - (i - 1) = k
    BY <2>1, <2>2 DEF Places
  <2> QED
    BY <2>3
<1>5. f \in [T -> S]
  BY <1>2
<1> HIDE DEF f, S, T
<1>6. ExistsBijection(T, S)
  BY <1>3, <1>4, <1>5 DEF ExistsBijection, Bijection, Injection, IsInjective, Surjection
<1>7. Cardinality(S) = Cardinality(T)
  BY <1>6, PlacesFinite, FS_Bijection DEF T
<1> QED
  BY <1>7 DEF CountIn, S, T

\* One more byte is read.
LEMMA PlacesAppend ==
  ASSUME NEW s \in Seq(Byte), NEW c \in Byte, NEW i \in 1..(Len(s) + 1), NEW v
  PROVE  Cardinality(Places(Append(s, c), i, Len(s) + 1, v)) =
           Cardinality(Places(s, i, Len(s), v)) + IF v = c THEN 1 ELSE 0
<1> DEFINE n == Len(s)
           S == Places(s, i, n, v)
           T == Places(Append(s, c), i, n + 1, v)
<1>1. \A k \in 1..(n + 1) : Append(s, c)[k] = IF k = n + 1 THEN c ELSE s[k]
  OBVIOUS
<1>2. T = IF v = c THEN S \union {n + 1} ELSE S
  BY <1>1 DEF Places
<1>3. IsFiniteSet(S) /\ Cardinality(S) \in Nat
  BY PlacesFinite
<1>4. n + 1 \notin S
  BY DEF Places
<1> HIDE DEF S, T
<1>5. Cardinality(S \union {n + 1}) = Cardinality(S) + 1
  BY <1>3, <1>4, FS_AddElement
<1>6. Cardinality(T) = Cardinality(S) + IF v = c THEN 1 ELSE 0
  BY <1>2, <1>3, <1>5
<1> QED
  BY <1>6 DEF S, T

\* The oldest byte leaves the window.
LEMMA PlacesDrop ==
  ASSUME NEW s \in Seq(Byte), NEW i \in 1..Len(s), NEW v
  PROVE  Cardinality(Places(s, i, Len(s), v)) =
           Cardinality(Places(s, i + 1, Len(s), v)) + IF v = s[i] THEN 1 ELSE 0
<1> DEFINE S == Places(s, i + 1, Len(s), v)
           T == Places(s, i, Len(s), v)
<1>1. T = IF v = s[i] THEN S \union {i} ELSE S
  BY DEF Places
<1>2. IsFiniteSet(S) /\ Cardinality(S) \in Nat
  BY PlacesFinite
<1>3. i \notin S
  BY DEF Places
<1> HIDE DEF S, T
<1>4. Cardinality(S \union {i}) = Cardinality(S) + 1
  BY <1>2, <1>3, FS_AddElement
<1>5. Cardinality(T) = Cardinality(S) + IF v = s[i] THEN 1 ELSE 0
  BY <1>1, <1>2, <1>4
<1> QED
  BY <1>5 DEF S, T

\* Moving the last byte into the place of another removes just that one.
LEMMA WithoutRemoves ==
  ASSUME NEW list \in Seq(Byte), NEW old,
         \A i, j \in 1..Len(list) : list[i] = list[j] => i = j,
         \E i \in 1..Len(list) : list[i] = old
  PROVE  LET l == Without(list, old) IN
         /\ l \in Seq(Byte)
         /\ \A i, j \in 1..Len(l) : l[i] = l[j] => i = j
         /\ \A v : (\E i \in 1..Len(l) : l[i] = v) <=> v # old /\ \E i \in 1..Len(list) : list[i] = v
<1> DEFINE q == CHOOSE i \in DOMAIN list : list[i] = old
           n == Len(list)
           moved == [list EXCEPT ![q] = list[n]]
           l == SubSeq(moved, 1, n - 1)
<1>1. q \in 1..n /\ list[q] = old /\ n \in Nat \ {0}
  <2>1. \E i \in DOMAIN list : list[i] = old
    OBVIOUS
  <2>2. q \in DOMAIN list /\ list[q] = old
    BY <2>1
  <2> QED
    BY <2>2
<1>2. Without(list, old) = l
  BY DEF Without
<1> HIDE DEF q
<1>3. /\ moved \in Seq(Byte) /\ Len(moved) = n
      /\ \A i \in 1..n : moved[i] = IF i = q THEN list[n] ELSE list[i]
  BY <1>1
<1> HIDE DEF moved
<1>4. /\ l \in Seq(Byte) /\ Len(l) = n - 1
      /\ \A i \in 1..(n - 1) : l[i] = IF i = q THEN list[n] ELSE list[i]
  BY <1>1, <1>3
<1> HIDE DEF l
<1>5. ASSUME NEW i \in 1..(n - 1), NEW j \in 1..(n - 1), l[i] = l[j] PROVE i = j
  <2>1. i \in 1..n /\ j \in 1..n /\ n \in 1..n /\ i # n /\ j # n
    BY <1>1
  <2> QED
    BY <1>4, <1>5, <2>1
<1>6. ASSUME NEW i \in 1..(n - 1) PROVE l[i] # old /\ \E j \in 1..n : list[j] = l[i]
  <2>1. i \in 1..n /\ n \in 1..n /\ i # n
    BY <1>1
  <2>2. CASE i = q
    BY <1>1, <1>4, <2>1, <2>2
  <2>3. CASE i # q
    BY <1>1, <1>4, <2>1, <2>3
  <2> QED
    BY <2>2, <2>3
<1>7. ASSUME NEW j \in 1..n, list[j] # old PROVE \E i \in 1..(n - 1) : l[i] = list[j]
  <2>1. CASE j = n
    <3>1. q \in 1..(n - 1)
      BY <1>1, <1>7, <2>1
    <3> QED
      BY <1>4, <2>1, <3>1
  <2>2. CASE j # n
    <3>1. j \in 1..(n - 1) /\ j # q
      BY <1>1, <1>7, <2>2
    <3> QED
      BY <1>4, <3>1
  <2> QED
    BY <2>1, <2>2
<1>8. \A i, j \in 1..Len(l) : l[i] = l[j] => i = j
  BY <1>4, <1>5
<1>9. ASSUME NEW v PROVE (\E i \in 1..Len(l) : l[i] = v) <=> v # old /\ \E i \in 1..n : list[i] = v
  <2>1. 1..Len(l) = 1..(n - 1)
    BY <1>4
  <2>2. ASSUME NEW i \in 1..(n - 1), l[i] = v PROVE v # old /\ \E j \in 1..n : list[j] = v
    BY <1>6, <2>2
  <2>3. ASSUME NEW j \in 1..n, list[j] = v, v # old PROVE \E i \in 1..(n - 1) : l[i] = v
    BY <1>7, <2>3
  <2> QED
    BY <2>1, <2>2, <2>3, Zenon
<1>10. l \in Seq(Byte)
  BY <1>4
<1> HIDE DEF n
<1>11. \A v : (\E i \in 1..Len(l) : l[i] = v) <=> v # old /\ \E i \in 1..Len(list) : list[i] = v
  BY <1>9 DEF n
<1> QED
  BY <1>2, <1>8, <1>10, <1>11, Zenon

-----------------------------------------------------------------------------
\* What leaves a full window is its oldest byte.
LEMMA OldestInRing ==
  ASSUME RingHoldsWindow, items = WINDOW_SIZE
  PROVE  ring[ringIdx] = buf[Len(buf) - items + 1] /\ Len(buf) - items + 1 \in 1..Len(buf)
         /\ ring[ringIdx] \in Byte
  BY SketchAssumption DEF RingHoldsWindow

\* The ring after one more byte.
LEMMA RingMoves ==
  ASSUME RingHoldsWindow, NEW cur \in Byte, buf' = Append(buf, cur), Slide(cur)
  PROVE  RingHoldsWindow'
<1> DEFINE W == WINDOW_SIZE
           n == Len(buf)
<1>1. W \in Nat \ {0}
  BY SketchAssumption
<1>2. /\ buf \in Seq(Byte) /\ n \in Nat
      /\ ring \in [0..(W - 1) -> Byte] /\ ringIdx \in 0..(W - 1)
      /\ items \in 0..W /\ items <= n
      /\ items < W => ringIdx = items /\ n = items
  BY DEF RingHoldsWindow
<1>3. /\ \A p \in 0..(ringIdx - 1) : ring[p] = buf[n - ringIdx + p + 1]
      /\ items = W => \A p \in ringIdx..(W - 1) : ring[p] = buf[n - ringIdx - W + p + 1]
  BY DEF RingHoldsWindow
<1>4. /\ ring' = [ring EXCEPT ![ringIdx] = cur]
      /\ ringIdx' = (ringIdx + 1) % W
      /\ items' = IF items = W THEN items ELSE items + 1
  BY DEF Slide
<1>5. /\ buf' \in Seq(Byte) /\ Len(buf') = n + 1
      /\ buf'[n + 1] = cur
      /\ \A k \in 1..n : buf'[k] = buf[k]
  BY <1>2
<1>6. /\ ring' \in [0..(W - 1) -> Byte]
      /\ ring'[ringIdx] = cur
      /\ \A p \in 0..(W - 1) : p # ringIdx => ring'[p] = ring[p]
  BY <1>2, <1>4
<1>7. items' \in 0..W /\ items' <= n + 1
  BY <1>1, <1>2, <1>4
<1>0. W = WINDOW_SIZE
  OBVIOUS
<1> HIDE DEF W, n
<1>8. CASE ringIdx + 1 < W
  <2>1. ringIdx' = ringIdx + 1
    <3>1. \A a \in 0..(W - 1) : a % W = a
      BY <1>1
    <3>2. ringIdx + 1 \in 0..(W - 1)
      BY <1>1, <1>2, <1>8
    <3> QED
      BY <1>4, <3>1, <3>2
  <2>2. items' < W => ringIdx' = items' /\ n + 1 = items'
    BY <1>1, <1>2, <1>4, <2>1
  <2>3. ASSUME NEW p \in 0..(ringIdx' - 1) PROVE ring'[p] = buf'[(n + 1) - ringIdx' + p + 1]
    <3>1. CASE p = ringIdx
      <4>1. (n + 1) - ringIdx' + p + 1 = n + 1
        BY <1>2, <2>1, <3>1
      <4> QED
        BY <1>5, <1>6, <3>1, <4>1
    <3>2. CASE p # ringIdx
      <4>1. /\ p \in 0..(ringIdx - 1) /\ p \in 0..(W - 1)
            /\ (n + 1) - ringIdx' + p + 1 = n - ringIdx + p + 1
            /\ n - ringIdx + p + 1 \in 1..n
        BY <1>1, <1>2, <2>1, <3>2
      <4>2. ring'[p] = buf[n - ringIdx + p + 1]
        BY <1>3, <1>6, <3>2, <4>1
      <4>3. buf'[n - ringIdx + p + 1] = buf[n - ringIdx + p + 1]
        BY <1>5, <4>1
      <4> QED
        BY <4>1, <4>2, <4>3
    <3> QED
      BY <3>1, <3>2
  <2>4. ASSUME items' = W, NEW p \in ringIdx'..(W - 1)
        PROVE  ring'[p] = buf'[(n + 1) - ringIdx' - W + p + 1]
    <3>1. items = W
      BY <1>1, <1>2, <1>4, <1>8, <2>4
    <3>2. /\ p \in ringIdx..(W - 1) /\ p \in 0..(W - 1) /\ p # ringIdx
          /\ (n + 1) - ringIdx' - W + p + 1 = n - ringIdx - W + p + 1
          /\ n - ringIdx - W + p + 1 \in 1..n
      BY <1>1, <1>2, <2>1, <3>1
    <3>3. ring'[p] = buf[n - ringIdx - W + p + 1]
      BY <1>3, <1>6, <3>1, <3>2
    <3>4. buf'[n - ringIdx - W + p + 1] = buf[n - ringIdx - W + p + 1]
      BY <1>5, <3>2
    <3> QED
      BY <3>2, <3>3, <3>4
  <2>5. /\ \A p \in 0..(ringIdx' - 1) : ring'[p] = buf'[Len(buf') - ringIdx' + p + 1]
        /\ items' = W =>
             \A p \in ringIdx'..(W - 1) : ring'[p] = buf'[Len(buf') - ringIdx' - W + p + 1]
    BY <1>5, <2>3, <2>4
  <2>6. ringIdx' \in 0..(W - 1)
    BY <1>1, <1>2, <1>8, <2>1
  <2> QED
    BY <1>0, <1>5, <1>6, <1>7, <2>2, <2>5, <2>6 DEF RingHoldsWindow
<1>9. CASE ringIdx + 1 = W
  <2>1. ringIdx' = 0 /\ items' = W
    <3>1. (ringIdx + 1) % W = 0
      BY <1>1, <1>9
    <3> QED
      BY <1>1, <1>2, <1>4, <1>9, <3>1
  <2>2. ASSUME NEW p \in 0..(W - 1) PROVE ring'[p] = buf'[(n + 1) - 0 - W + p + 1]
    <3>1. CASE p = ringIdx
      <4>1. (n + 1) - 0 - W + p + 1 = n + 1
        BY <1>1, <1>2, <1>9, <3>1
      <4> QED
        BY <1>5, <1>6, <3>1, <4>1
    <3>2. CASE p # ringIdx
      <4>1. /\ p \in 0..(ringIdx - 1) /\ p \in 0..(W - 1)
            /\ (n + 1) - 0 - W + p + 1 = n - ringIdx + p + 1
            /\ n - ringIdx + p + 1 \in 1..n
        BY <1>1, <1>2, <1>9, <3>2
      <4>2. ring'[p] = buf[n - ringIdx + p + 1]
        BY <1>3, <1>6, <3>2, <4>1
      <4>3. buf'[n - ringIdx + p + 1] = buf[n - ringIdx + p + 1]
        BY <1>5, <4>1
      <4> QED
        BY <4>1, <4>2, <4>3
    <3> QED
      BY <3>1, <3>2
  <2>3. /\ \A p \in 0..(ringIdx' - 1) : FALSE
        /\ \A p \in ringIdx'..(W - 1) : ring'[p] = buf'[Len(buf') - ringIdx' - W + p + 1]
    <3>1. /\ Len(buf') - ringIdx' - W = (n + 1) - 0 - W
          /\ ringIdx'..(W - 1) = 0..(W - 1)
          /\ 0..(ringIdx' - 1) = {}
      BY <1>1, <1>2, <1>5, <2>1
    <3> QED
      BY <2>2, <3>1, Zenon
  <2>4. ringIdx' \in 0..(W - 1) /\ ~(items' < W)
    BY <1>1, <2>1
  <2> QED
    BY <1>0, <1>5, <1>6, <1>7, <2>3, <2>4 DEF RingHoldsWindow
<1> QED
  BY <1>1, <1>2, <1>8, <1>9

\* The histogram without the oldest byte, if the window is full.
LEMMA EvictedCounts ==
  ASSUME SketchInv
  PROVE  LET lo == Len(buf) + 1 - (IF items = WINDOW_SIZE THEN items ELSE items + 1) + 1 IN
         /\ lo \in 1..(Len(buf) + 1)
         /\ \A v \in Byte : Evicted.count[v] = Cardinality(Places(buf, lo, Len(buf), v))
         /\ Agree(Evicted.count, Evicted.list, Evicted.members)
<1> DEFINE n == Len(buf)
           old == ring[ringIdx]
           count == [histogram EXCEPT ![old] = @ - 1]
<1>1. WINDOW_SIZE \in Nat \ {0}
  BY SketchAssumption
<1>2. buf \in Seq(Byte) /\ n \in Nat /\ items \in 0..WINDOW_SIZE /\ items <= n
  BY DEF SketchInv, RingHoldsWindow
<1>3. Agree(histogram, active, inActive)
  BY DEF SketchInv
<1>4. CASE items < WINDOW_SIZE
  <2>1. Evicted = [count |-> histogram, list |-> active, members |-> inActive]
    BY <1>4 DEF Evicted
  <2>2. n + 1 - (items + 1) + 1 = n - items + 1 /\ n - items + 1 \in 1..(n + 1)
    BY <1>2
  <2> QED
    BY <1>3, <1>4, <1>2, <2>1, <2>2 DEF SketchInv, HistogramCounts
<1>5. CASE items = WINDOW_SIZE
  <2>1. old \in Byte /\ old = buf[n - items + 1] /\ n - items + 1 \in 1..n
    BY <1>5, OldestInRing DEF SketchInv
  <2>2. n + 1 - items + 1 = (n - items + 1) + 1 /\ n + 1 - items + 1 \in 1..(n + 1)
    BY <1>1, <1>2, <1>5, <2>1
  <2>3. histogram \in [Byte -> Nat]
    BY <1>3 DEF Agree
  <2> HIDE DEF old
  <2>4. \A v \in Byte : count[v] = histogram[v] - (IF v = old THEN 1 ELSE 0)
    BY <2>1, <2>3
  <2>5. \A v \in Byte : histogram[v] =
          Cardinality(Places(buf, n + 1 - items + 1, n, v)) + IF v = old THEN 1 ELSE 0
    BY <1>2, <2>1, <2>2, PlacesDrop DEF SketchInv, HistogramCounts
  <2>6. \A v \in Byte : Cardinality(Places(buf, n + 1 - items + 1, n, v)) \in Nat
    BY <1>2, <2>2, PlacesFinite
  <2>7. \A v \in Byte : count[v] = Cardinality(Places(buf, n + 1 - items + 1, n, v)) /\ count[v] \in Nat
    BY <2>4, <2>5, <2>6
  <2>8. count \in [Byte -> Nat]
    <3>1. count = [v \in Byte |-> count[v]]
      BY <2>3
    <3> QED
      BY <2>7, <3>1
  <2>9. \A v \in Byte : v # old => count[v] = histogram[v]
    BY <2>3, <2>4
  <2>10. old \in inActive /\ \E i \in 1..Len(active) : active[i] = old
    <3>1. histogram[old] > 0
      BY <2>1, <2>5, <2>6
    <3> QED
      BY <1>3, <2>1, <3>1 DEF Agree
  <2>11. Evicted = IF count[old] = 0
                   THEN [count |-> count, list |-> Without(active, old), members |-> inActive \ {old}]
                   ELSE [count |-> count, list |-> active, members |-> inActive]
    BY <1>1, <1>5 DEF Evicted, old
  <2> HIDE DEF count
  <2>12. CASE count[old] = 0
    <3> DEFINE l == Without(active, old)
    <3>1. /\ l \in Seq(Byte)
          /\ \A i, j \in 1..Len(l) : l[i] = l[j] => i = j
          /\ \A v : (\E i \in 1..Len(l) : l[i] = v) <=>
                      v # old /\ \E i \in 1..Len(active) : active[i] = v
      BY <1>3, <2>10, WithoutRemoves DEF Agree
    <3> HIDE DEF l
    <3>2. Agree(count, l, inActive \ {old})
      <4>1. /\ inActive \subseteq Byte
            /\ \A v \in Byte : v \in inActive <=> histogram[v] > 0
            /\ \A v \in Byte : v \in inActive <=> \E i \in 1..Len(active) : active[i] = v
        BY <1>3 DEF Agree
      <4>2. \A v \in Byte : v \in inActive \ {old} <=> count[v] > 0
        BY <2>9, <2>12, <4>1
      <4>3. \A v \in Byte : v \in inActive \ {old} <=> \E i \in 1..Len(l) : l[i] = v
        BY <3>1, <4>1
      <4> QED
        BY <2>8, <3>1, <4>1, <4>2, <4>3 DEF Agree
    <3>3. Evicted = [count |-> count, list |-> l, members |-> inActive \ {old}]
      BY <2>11, <2>12 DEF l
    <3> QED
      BY <1>5, <2>2, <2>7, <3>2, <3>3
  <2>13. CASE count[old] # 0
    <3>1. count[old] > 0
      BY <2>1, <2>7, <2>13
    <3>2. Agree(count, active, inActive)
      BY <1>3, <2>8, <2>9, <2>10, <3>1 DEF Agree
    <3>3. Evicted = [count |-> count, list |-> active, members |-> inActive]
      BY <2>11, <2>13
    <3> QED
      BY <1>5, <2>2, <2>7, <3>2, <3>3
  <2> QED
    BY <2>12, <2>13
<1> QED
  BY <1>1, <1>2, <1>4, <1>5

\* One more byte: ring, histogram and list move together.
LEMMA SlideKeeps ==
  ASSUME SketchInv, NEW cur \in Byte, buf' = Append(buf, cur), Slide(cur)
  PROVE  SketchInv'
<1> DEFINE n == Len(buf)
           lo == n + 1 - (IF items = WINDOW_SIZE THEN items ELSE items + 1) + 1
           e == Evicted
<1>1. RingHoldsWindow'
  BY RingMoves DEF SketchInv
<1>2. /\ lo \in 1..(n + 1)
      /\ \A v \in Byte : e.count[v] = Cardinality(Places(buf, lo, n, v))
      /\ Agree(e.count, e.list, e.members)
  BY EvictedCounts
<1>3. /\ histogram' = [e.count EXCEPT ![cur] = @ + 1]
      /\ active' = IF cur \in e.members THEN e.list ELSE Append(e.list, cur)
      /\ inActive' = e.members \union {cur}
      /\ items' = IF items = WINDOW_SIZE THEN items ELSE items + 1
  BY DEF Slide
<1>4. buf \in Seq(Byte) /\ n \in Nat
  BY DEF SketchInv, RingHoldsWindow
<1> HIDE DEF e
<1>5. Len(buf') = n + 1 /\ lo = Len(buf') - items' + 1
  <2>1. Len(buf') = n + 1
    BY <1>4
  <2>2. items' \in Int
    BY <1>1, SketchAssumption DEF RingHoldsWindow
  <2>3. lo = n + 1 - items' + 1
    BY <1>3
  <2> HIDE DEF lo
  <2> QED
    BY <1>4, <2>1, <2>2, <2>3
<1>6. /\ e.count \in [Byte -> Nat] /\ e.list \in Seq(Byte) /\ e.members \subseteq Byte
      /\ \A i, j \in 1..Len(e.list) : e.list[i] = e.list[j] => i = j
      /\ \A v \in Byte : v \in e.members <=> e.count[v] > 0
      /\ \A v \in Byte : v \in e.members <=> \E i \in 1..Len(e.list) : e.list[i] = v
  BY <1>2 DEF Agree
<1>7. /\ histogram' \in [Byte -> Nat]
      /\ \A v \in Byte : histogram'[v] = e.count[v] + IF v = cur THEN 1 ELSE 0
  BY <1>3, <1>6
<1> HIDE DEF lo, n
<1>8. HistogramCounts'
  <2>1. \A v \in Byte : Cardinality(Places(buf', lo, n + 1, v)) =
                          Cardinality(Places(buf, lo, n, v)) + IF v = cur THEN 1 ELSE 0
    BY <1>2, <1>4, PlacesAppend DEF n
  <2>2. \A v \in Byte : histogram'[v] = Cardinality(Places(buf', lo, n + 1, v))
    BY <1>2, <1>7, <2>1
  <2> QED
    BY <1>5, <2>2 DEF HistogramCounts
<1>9. Agree(histogram, active, inActive)'
  <2>1. \A v \in Byte : v \in inActive' <=> histogram'[v] > 0
    BY <1>3, <1>6, <1>7
  <2>2. CASE cur \in e.members
    <3>1. active' = e.list /\ inActive' = e.members
      BY <1>3, <2>2
    <3> QED
      BY <1>6, <1>7, <2>1, <3>1 DEF Agree
  <2>3. CASE cur \notin e.members
    <3>1. active' = Append(e.list, cur)
      BY <1>3, <2>3
    <3>2. /\ active' \in Seq(Byte) /\ Len(active') = Len(e.list) + 1 /\ Len(e.list) \in Nat
          /\ active'[Len(e.list) + 1] = cur
          /\ \A i \in 1..Len(e.list) : active'[i] = e.list[i]
      BY <1>6, <3>1
    <3>3. \A i \in 1..Len(e.list) : active'[i] # cur
      BY <1>6, <2>3, <3>2
    <3>4. \A i \in 1..Len(active') : i = Len(e.list) + 1 \/ i \in 1..Len(e.list)
      BY <3>2
    <3>5. \A i, j \in 1..Len(active') : active'[i] = active'[j] => i = j
      BY <1>6, <3>2, <3>3, <3>4
    <3>6. ASSUME NEW v \in Byte
          PROVE  v \in inActive' <=> \E i \in 1..Len(active') : active'[i] = v
      <4>1. CASE v = cur
        <5>1. Len(e.list) + 1 \in 1..Len(active')
          BY <3>2
        <5> QED
          BY <1>3, <3>2, <4>1, <5>1
      <4>2. CASE v # cur
        <5>1. v \in inActive' <=> \E i \in 1..Len(e.list) : e.list[i] = v
          BY <1>3, <1>6, <4>2
        <5>2. \A i \in 1..Len(e.list) : i \in 1..Len(active')
          BY <3>2
        <5> QED
          BY <3>2, <3>4, <4>2, <5>1, <5>2
      <4> QED
        BY <4>1, <4>2
    <3>7. inActive' \subseteq Byte
      BY <1>3, <1>6
    <3> QED
      BY <1>7, <2>1, <3>2, <3>5, <3>6, <3>7 DEF Agree
  <2> QED
    BY <2>2, <2>3
<1> QED
  BY <1>1, <1>8, <1>9 DEF SketchInv

\* Before the first byte all tables are empty.
LEMMA SketchInitial == SketchInit => SketchInv
<1> SUFFICES ASSUME SketchInit PROVE SketchInv
  OBVIOUS
<1>1. WINDOW_SIZE \in Nat \ {0} /\ 0 \in Byte
  BY SketchAssumption
<1>2. RingHoldsWindow
  BY <1>1 DEF SketchInit, RingHoldsWindow
<1>3. ASSUME NEW v \in Byte PROVE histogram[v] = Cardinality(Places(buf, Len(buf) - items + 1, Len(buf), v))
  <2>1. Places(buf, Len(buf) - items + 1, Len(buf), v) = {}
    BY DEF SketchInit, Places
  <2> QED
    BY <2>1, FS_EmptySet DEF SketchInit
<1>4. Agree(histogram, active, inActive)
  BY DEF SketchInit, Agree
<1> QED
  BY <1>2, <1>3, <1>4 DEF SketchInv, HistogramCounts

\* Only Read moves the window.
LEMMA SketchKept == ASSUME SketchInv, [SketchNext]_sketchVars PROVE SketchInv'
<1>1. ASSUME UNCHANGED <<buf, windowVars>> PROVE SketchInv'
  BY <1>1 DEF SketchInv, RingHoldsWindow, HistogramCounts, Agree, windowVars
<1>2. ASSUME NEW cur \in Byte, Read(cur) PROVE SketchInv'
  BY <1>2, SlideKeeps DEF Read
<1>3. ASSUME TooSmall \/ Return \/ UNCHANGED sketchVars PROVE SketchInv'
  BY <1>1, <1>3 DEF TooSmall, Return, sketchVars
<1> QED
  BY <1>2, <1>3 DEF SketchNext, Fill, Score, Detect

\* A list without repetitions has as many entries as members.
LEMMA ListLength ==
  ASSUME NEW list \in Seq(Byte), \A i, j \in 1..Len(list) : list[i] = list[j] => i = j
  PROVE  Cardinality(ToSet(list)) = Len(list)
<1>1. ToSet(list) = {list[i] : i \in 1..Len(list)} /\ list \in [1..Len(list) -> ToSet(list)]
  BY DEF ToSet
<1>2. \A t \in ToSet(list) : \E i \in 1..Len(list) : list[i] = t
  BY <1>1
<1>3. ExistsBijection(1..Len(list), ToSet(list))
  BY <1>1, <1>2 DEF ExistsBijection, Bijection, Injection, IsInjective, Surjection
<1> QED
  BY <1>3, FS_CountingElements

(***************************************************************************)
(* calculate_max_sum_sq: for windows of any size and packets of any bytes, *)
(* the histogram counts the window and the list has each of its bytes      *)
(* once.                                                                   *)
(***************************************************************************)
THEOREM TablesDescribeWindow == SketchSpec => []SketchIsWindow
<1>1. SketchInv => SketchIsWindow
  <2> SUFFICES ASSUME SketchInv PROVE SketchIsWindow
    OBVIOUS
  <2> DEFINE lo == Len(buf) - items + 1
  <2>1. buf \in Seq(Byte) /\ lo \in 1..(Len(buf) + 1)
    BY SketchAssumption DEF SketchInv, RingHoldsWindow
  <2>2. \A v \in Byte : histogram[v] = CountIn(SubSeq(buf, lo, Len(buf)), v)
    BY <2>1, CountInWindow DEF SketchInv, HistogramCounts
  <2>3. Agree(histogram, active, inActive)
    BY DEF SketchInv
  <2>4. ToSet(active) = {active[i] : i \in 1..Len(active)}
    BY <2>3 DEF Agree, ToSet
  <2>5. inActive = ToSet(active) /\ ToSet(active) = {v \in Byte : histogram[v] > 0}
    <3>1. \A v : v \in ToSet(active) <=> \E i \in 1..Len(active) : active[i] = v
      BY <2>4
    <3>2. \A v \in ToSet(active) : v \in Byte
      BY <2>3, <3>1 DEF Agree
    <3>3. /\ inActive \subseteq Byte
          /\ \A v \in Byte : v \in inActive <=> histogram[v] > 0
          /\ \A v \in Byte : v \in inActive <=> v \in ToSet(active)
      BY <2>3, <3>1 DEF Agree
    <3> QED
      BY <3>2, <3>3
  <2>6. Cardinality(ToSet(active)) = Len(active)
    BY <2>3, ListLength DEF Agree
  <2> QED
    BY <2>2, <2>5, <2>6 DEF SketchIsWindow
<1>2. SketchInv /\ [SketchNext]_sketchVars => SketchInv'
  BY SketchKept
<1> QED
  BY <1>1, <1>2, SketchInitial, PTL DEF SketchSpec

-----------------------------------------------------------------------------
\* The recursion of SumSq, on the first n bytes of the list.
Summed(g, count, list, n) ==
  g = [i \in 0..n |-> IF i = 0 THEN 0
                      ELSE IF g[i - 1] > SQ_THRESHOLD \/ list[i] = 0 THEN g[i - 1]
                      ELSE g[i - 1] + count[list[i]] * count[list[i]]]

LEMMA SummedAt ==
  ASSUME NEW count, NEW list, NEW n, NEW g, Summed(g, count, list, n), NEW i \in 0..n
  PROVE  g[i] = IF i = 0 THEN 0
                ELSE IF g[i - 1] > SQ_THRESHOLD \/ list[i] = 0 THEN g[i - 1]
                ELSE g[i - 1] + count[list[i]] * count[list[i]]
BY Zenon DEF Summed

LEMMA SummedExists ==
  ASSUME NEW count, NEW list, NEW m \in Nat
  PROVE  \E g : Summed(g, count, list, m)
<1> DEFINE T == {n \in Nat : \E g : Summed(g, count, list, n)}
<1>1. 0 \in T
  <2> DEFINE g == [i \in 0..0 |-> 0]
  <2>1. Summed(g, count, list, 0)
    BY DEF Summed
  <2> HIDE DEF g
  <2> QED
    BY <2>1
<1>2. ASSUME NEW n \in T PROVE n + 1 \in T
  <2>1. PICK g : Summed(g, count, list, n)
    OBVIOUS
  <2> DEFINE h == [i \in 0..(n + 1) |->
                     IF i = 0 THEN 0
                     ELSE IF g[i - 1] > SQ_THRESHOLD \/ list[i] = 0 THEN g[i - 1]
                     ELSE g[i - 1] + count[list[i]] * count[list[i]]]
  <2>2. \A i \in 0..n : i \in 0..(n + 1) /\ h[i] = g[i]
    <3>1. \A i \in 0..n :
            g[i] = IF i = 0 THEN 0
                   ELSE IF g[i - 1] > SQ_THRESHOLD \/ list[i] = 0 THEN g[i - 1]
                   ELSE g[i - 1] + count[list[i]] * count[list[i]]
      BY <2>1, SummedAt
    <3> QED
      BY <3>1
  <2>3. \A i \in 0..(n + 1) : i # 0 => g[i - 1] = h[i - 1]
    <3>1. \A i \in 0..(n + 1) : i # 0 => i - 1 \in 0..n
      OBVIOUS
    <3> HIDE DEF h
    <3> QED
      BY <2>2, <3>1
  <2>4. Summed(h, count, list, n + 1)
    <3>1. h = [i \in 0..(n + 1) |->
                 IF i = 0 THEN 0
                 ELSE IF h[i - 1] > SQ_THRESHOLD \/ list[i] = 0 THEN h[i - 1]
                 ELSE h[i - 1] + count[list[i]] * count[list[i]]]
      BY <2>3
    <3> HIDE DEF h
    <3> QED
      BY <3>1 DEF Summed
  <2> HIDE DEF h
  <2> QED
    BY <2>4
<1>3. T = Nat
  <2> HIDE DEF T
  <2>1. T \in SUBSET Nat
    BY DEF T
  <2> QED
    BY <1>1, <1>2, <2>1, InductiveSet
<1> QED
  BY <1>3

\* Squares of counts are naturals.
LEMMA SquaresNatural ==
  ASSUME NEW count \in [Byte -> Nat]
  PROVE  /\ \A v \in Byte : Squares(count)[v] \in Nat /\ Squares(count)[v] = count[v] * count[v]
         /\ \A S \in SUBSET Byte : IsFiniteSet(S) /\ SumFunctionOnSet(Squares(count), S) \in Nat
<1>1. \A n \in Nat : n * n \in Nat
  OBVIOUS
<1>2. \A v \in Byte : Squares(count)[v] \in Nat /\ Squares(count)[v] = count[v] * count[v]
  BY <1>1 DEF Squares
<1>3. ASSUME NEW S \in SUBSET Byte
      PROVE  IsFiniteSet(S) /\ SumFunctionOnSet(Squares(count), S) \in Nat
  <2>1. IsFiniteSet(S)
    BY SketchAssumption, FS_Subset
  <2> QED
    BY <1>2, <2>1, SumNatural
<1> QED
  BY <1>2, <1>3

\* The sum over the list is that over all bytes, unless the threshold is
\* passed; then it is not more, and the one over all bytes passes it as well.
LEMMA SumSqExact ==
  ASSUME NEW count \in [Byte -> Nat], NEW list, NEW members, Agree(count, list, members)
  PROVE  LET all == SumFunctionOnSet(Squares(count), Byte \ {0}) IN
         /\ SumSq(count, list) \in Nat
         /\ SumSq(count, list) <= all
         /\ SumSq(count, list) <= SQ_THRESHOLD => SumSq(count, list) = all
<1> DEFINE n      == Len(list)
           sq     == Squares(count)
           front(k) == {list[i] : i \in 1..k} \ {0}
           Sum(S) == SumFunctionOnSet(sq, S)
           g      == CHOOSE g : Summed(g, count, list, n)
           T      == {k \in Nat : k <= n =>
                        /\ g[k] \in Nat
                        /\ g[k] <= Sum(front(k))
                        /\ g[k] <= SQ_THRESHOLD => g[k] = Sum(front(k))}
<1>1. /\ list \in Seq(Byte) /\ n \in Nat /\ SQ_THRESHOLD \in Nat
      /\ \A i \in 1..n : list[i] \in Byte
      /\ \A i, j \in 1..n : list[i] = list[j] => i = j
      /\ \A v \in Byte : count[v] \in Nat /\ (count[v] > 0 <=> \E i \in 1..n : list[i] = v)
  BY SketchAssumption DEF Agree
<1>2. Summed(g, count, list, n)
  BY <1>1, SummedExists
<1>3. SumSq(count, list) = g[n]
  BY Zenon DEF SumSq, Summed
<1> HIDE DEF g
<1>4. /\ g[0] = 0
      /\ \A k \in 1..n : g[k] = IF g[k - 1] > SQ_THRESHOLD \/ list[k] = 0 THEN g[k - 1]
                                ELSE g[k - 1] + count[list[k]] * count[list[k]]
  <2>1. \A i \in 0..n : g[i] = IF i = 0 THEN 0
                                ELSE IF g[i - 1] > SQ_THRESHOLD \/ list[i] = 0 THEN g[i - 1]
                                ELSE g[i - 1] + count[list[i]] * count[list[i]]
    BY <1>2, SummedAt
  <2> QED
    BY <1>1, <2>1
<1>5. /\ \A v \in Byte : sq[v] \in Nat /\ sq[v] = count[v] * count[v]
      /\ \A S \in SUBSET Byte : IsFiniteSet(S) /\ Sum(S) \in Nat
  BY SquaresNatural
<1>6. 0 \in T
  <2>1. front(0) = {}
    OBVIOUS
  <2>2. Sum({}) = 0
    BY SumEmpty
  <2>3. Sum(front(0)) = 0
    BY <2>1, <2>2
  <2> HIDE DEF Sum, front
  <2> QED
    BY <1>1, <1>4, <2>3
<1>7. ASSUME NEW k \in T PROVE k + 1 \in T
  <2> SUFFICES ASSUME k + 1 <= n
               PROVE  /\ g[k + 1] \in Nat
                      /\ g[k + 1] <= Sum(front(k + 1))
                      /\ g[k + 1] <= SQ_THRESHOLD => g[k + 1] = Sum(front(k + 1))
    OBVIOUS
  <2> DEFINE v == list[k + 1]
  <2>1. k \in Nat /\ k <= n /\ k + 1 \in 1..n /\ (k + 1) - 1 = k
    <3>1. k \in Nat
      OBVIOUS
    <3> HIDE DEF T, n, sq, front, Sum
    <3> QED
      BY <1>1, <3>1
  <2>2. /\ g[k] \in Nat
        /\ g[k] <= Sum(front(k))
        /\ g[k] <= SQ_THRESHOLD => g[k] = Sum(front(k))
    BY <2>1
  <2>3. g[k + 1] = IF g[k] > SQ_THRESHOLD \/ v = 0 THEN g[k] ELSE g[k] + count[v] * count[v]
    BY <1>4, <2>1
  <2>4. v \in Byte
    BY <1>1, <2>1
  <2>5. front(k) \subseteq Byte /\ front(k + 1) = IF v = 0 THEN front(k) ELSE front(k) \union {v}
    <3>1. 1..(k + 1) = 1..k \union {k + 1}
      BY <2>1
    <3>2. \A i \in 1..k : i \in 1..n
      BY <1>1, <2>1
    <3> QED
      BY <1>1, <3>1, <3>2
  <2>6. v \notin front(k)
    <3>1. \A i \in 1..k : i \in 1..n /\ i # k + 1
      BY <1>1, <2>1
    <3> QED
      BY <1>1, <2>1, <3>1
  <2>7. v # 0 => Sum(front(k + 1)) = sq[v] + Sum(front(k))
    <3> HIDE DEF front, v, sq
    <3> SUFFICES ASSUME v # 0 PROVE Sum(front(k + 1)) = sq[v] + Sum(front(k))
      OBVIOUS
    <3>1. front(k + 1) = front(k) \union {v} /\ IsFiniteSet(front(k))
      BY <1>5, <2>5
    <3>2. \A y \in front(k) \union {v} : sq[y] \in Nat
      BY <1>5, <2>4, <2>5
    <3>3. SumFunctionOnSet(sq, front(k) \union {v}) = sq[v] + SumFunctionOnSet(sq, front(k))
      BY <2>6, <3>1, <3>2, SumWith
    <3> QED
      BY <3>1, <3>3
  <2>8. sq[v] \in Nat /\ sq[v] = count[v] * count[v] /\ Sum(front(k)) \in Nat
    BY <1>5, <2>4, <2>5
  <2> HIDE DEF front, v, sq, Sum, T
  <2>9. CASE v = 0
    BY <2>2, <2>3, <2>5, <2>9
  <2>10. CASE v # 0 /\ g[k] > SQ_THRESHOLD
    BY <1>1, <2>2, <2>3, <2>7, <2>8, <2>10
  <2>11. CASE v # 0 /\ ~(g[k] > SQ_THRESHOLD)
    <3>1. g[k + 1] = g[k] + sq[v]
      BY <2>3, <2>8, <2>11
    <3> QED
      BY <1>1, <2>2, <2>7, <2>8, <2>11, <3>1
  <2> QED
    BY <2>9, <2>10, <2>11
<1>8. T = Nat
  <2> HIDE DEF T
  <2>1. T \in SUBSET Nat
    BY DEF T
  <2> QED
    BY <1>6, <1>7, <2>1, InductiveSet
<1>9. /\ g[n] \in Nat
      /\ g[n] <= Sum(front(n))
      /\ g[n] <= SQ_THRESHOLD => g[n] = Sum(front(n))
  <2>1. n \in T
    <3> HIDE DEF T
    <3> QED
      BY <1>1, <1>8
  <2>2. n <= n
    BY <1>1
  <2> QED
    BY <2>1, <2>2
<1>10. Sum(Byte \ {0}) = Sum(front(n))
  <2> DEFINE rest == (Byte \ {0}) \ front(n)
  <2>1. front(n) \subseteq Byte \ {0}
    BY <1>1
  <2>2. ASSUME NEW v \in rest PROVE sq[v] = 0
    <3>1. v \in Byte /\ ~\E i \in 1..n : list[i] = v
      OBVIOUS
    <3>2. count[v] = 0
      BY <1>1, <3>1
    <3>3. sq[v] = count[v] * count[v]
      BY <1>5, <3>1
    <3> QED
      BY <3>2, <3>3
  <2>3. IsFiniteSet(Byte \ {0}) /\ IsFiniteSet(rest) /\ \A v \in Byte \ {0} : sq[v] \in Nat
    BY <1>5
  <2> HIDE DEF sq, front, rest
  <2>4. SumFunctionOnSet(sq, rest) = 0
    BY <2>2, <2>3, SumZeros
  <2>5. SumFunctionOnSet(sq, Byte \ {0})
          = SumFunctionOnSet(sq, front(n)) + SumFunctionOnSet(sq, (Byte \ {0}) \ front(n))
    BY <2>1, <2>3, SumSplit
  <2>6. Sum(front(n)) \in Nat
    BY <1>5, <2>1
  <2> QED
    BY <2>4, <2>5, <2>6 DEF rest
<1> QED
  BY <1>3, <1>9, <1>10

-----------------------------------------------------------------------------
\* The score of the window that starts at i, and where windows start.
F2At(s, i) == F2(SubSeq(s, i, i + WINDOW_SIZE - 1))
Starts  == 1..(Len(buf) - WINDOW_SIZE + 1)

\* How many bytes are read unless the threshold is passed.
Scanned == IF size < WINDOW_SIZE THEN 0 ELSE ScanLimit

\* While the scan goes on maxSumSq is the largest score so far and no window
\* has passed the threshold.
ScoreInv ==
  /\ size \in Nat
  /\ maxSumSq \in 0..SQ_THRESHOLD
  /\ Len(buf) <= Scanned
  /\ maxSumSq = 0 \/ \E i \in Starts : F2At(buf, i) = maxSumSq
  /\ \/ /\ result \in {NoResult, maxSumSq}
        /\ result # NoResult => Len(buf) = Scanned
        /\ \A i \in Starts : F2At(buf, i) <= maxSumSq
     \/ /\ result \in Nat
        /\ result > SQ_THRESHOLD
        /\ \E i \in Starts : result <= F2At(buf, i)

\* A score is a natural.
LEMMA F2Natural ==
  ASSUME NEW w \in Seq(Byte)
  PROVE  /\ [v \in Byte |-> CountIn(w, v)] \in [Byte -> Nat]
         /\ F2(w) \in Nat
<1>1. ASSUME NEW v \in Byte PROVE CountIn(w, v) \in Nat
  <2>1. DOMAIN w = 1..Len(w) /\ IsFiniteSet(1..Len(w))
    BY FS_Interval
  <2>2. IsFiniteSet({i \in DOMAIN w : w[i] = v})
    BY <2>1, FS_Subset
  <2> QED
    BY <2>2, FS_CardinalityType DEF CountIn
<1>2. [v \in Byte |-> CountIn(w, v)] \in [Byte -> Nat]
  BY <1>1
<1>3. SumFunctionOnSet(Squares([v \in Byte |-> CountIn(w, v)]), Byte \ {0}) \in Nat
  BY <1>2, SquaresNatural
<1> QED
  BY <1>2, <1>3 DEF F2

\* Every window has one.
LEMMA WindowScored ==
  ASSUME buf \in Seq(Byte), NEW i \in Starts
  PROVE  SubSeq(buf, i, i + WINDOW_SIZE - 1) \in Seq(Byte) /\ F2At(buf, i) \in Nat
<1>1. /\ WINDOW_SIZE \in Nat \ {0} /\ i \in Nat \ {0} /\ Len(buf) \in Nat
      /\ i + WINDOW_SIZE - 1 <= Len(buf)
  BY SketchAssumption DEF Starts
<1>2. SubSeq(buf, i, i + WINDOW_SIZE - 1) \in Seq(Byte)
  BY <1>1
<1> QED
  BY <1>2, F2Natural DEF F2At

\* One more byte is read: the windows before stay, the last one is that of the
\* histogram.
LEMMA ReadWindows ==
  ASSUME SketchInv, SketchInv', NEW cur \in Byte, buf' = Append(buf, cur)
  PROVE  /\ items' < WINDOW_SIZE => Starts' = {}
         /\ items' = WINDOW_SIZE =>
              /\ Starts' = Starts \union {Len(buf') - WINDOW_SIZE + 1}
              /\ F2At(buf', Len(buf) - WINDOW_SIZE + 2) = SumFunctionOnSet(Squares(histogram'), Byte \ {0})
         /\ \A i \in Starts : F2At(buf', i) = F2At(buf, i)
<1> DEFINE W == WINDOW_SIZE
           n == Len(buf)
<1>1. /\ W \in Nat \ {0} /\ n \in Nat /\ buf \in Seq(Byte) /\ buf' \in Seq(Byte)
      /\ Len(buf') = n + 1 /\ \A k \in 1..n : buf'[k] = buf[k]
  BY SketchAssumption DEF SketchInv, RingHoldsWindow
<1>2. items' \in 0..W /\ items' <= n + 1 /\ (items' < W => n + 1 = items')
  BY <1>1 DEF SketchInv, RingHoldsWindow
<1>3. items' < W => Starts' = {}
  BY <1>1, <1>2 DEF Starts
<1>4. ASSUME NEW i \in Starts PROVE F2At(buf', i) = F2At(buf, i)
  <2>1. i \in Nat \ {0} /\ i + W - 1 \in Nat /\ i + W - 1 <= n
    BY <1>1, <1>4 DEF Starts
  <2>2. \A k \in 1..((i + W - 1) - i + 1) : i + k - 1 \in 1..n
    BY <1>1, <2>1
  <2>3. SubSeq(buf', i, i + W - 1) = SubSeq(buf, i, i + W - 1)
    BY <1>1, <2>1, <2>2
  <2> QED
    BY <2>3 DEF F2At
<1>5. ASSUME items' = W
      PROVE  /\ Starts' = Starts \union {Len(buf') - WINDOW_SIZE + 1}
             /\ F2At(buf', n - W + 2) = SumFunctionOnSet(Squares(histogram'), Byte \ {0})
  <2> DEFINE lo == Len(buf') - W + 1
             w  == SubSeq(buf', lo, Len(buf'))
  <2>1. lo = n - W + 2 /\ lo \in 1..(Len(buf') + 1) /\ lo + W - 1 = Len(buf')
    BY <1>1, <1>2, <1>5
  <2>2. Starts' = Starts \union {lo}
    BY <1>1, <2>1 DEF Starts
  <2>3. histogram' \in [Byte -> Nat]
    BY DEF SketchInv, Agree
  <2>4. ASSUME NEW v \in Byte PROVE histogram'[v] = CountIn(w, v)
    <3>1. histogram'[v] = Cardinality(Places(buf', lo, Len(buf'), v))
      BY <1>5 DEF SketchInv, HistogramCounts
    <3> QED
      BY <1>1, <2>1, <3>1, CountInWindow
  <2>5. histogram' = [v \in Byte |-> CountIn(w, v)]
    BY <2>3, <2>4
  <2>6. F2At(buf', lo) = F2(w)
    BY <2>1 DEF F2At
  <2> HIDE DEF w, lo
  <2> QED
    BY <2>1, <2>2, <2>5, <2>6 DEF F2, lo
<1> QED
  BY <1>3, <1>4, <1>5

LEMMA ScoreInitial == SketchInit => ScoreInv
<1> SUFFICES ASSUME SketchInit PROVE ScoreInv
  OBVIOUS
<1>1. /\ WINDOW_SIZE \in Nat \ {0} /\ Overhang \in Nat /\ SQ_THRESHOLD \in Nat \ {0}
      /\ MaxSize \in Nat
  BY SketchAssumption
<1>2. size \in Nat /\ Len(buf) = 0 /\ Starts = {} /\ 0 <= Scanned
  BY <1>1 DEF SketchInit, Starts, Scanned, ScanLimit
<1> QED
  BY <1>1, <1>2 DEF SketchInit, ScoreInv

LEMMA ScoreKept == ASSUME SketchInv, SketchInv', ScoreInv, [SketchNext]_sketchVars PROVE ScoreInv'
<1> DEFINE W == WINDOW_SIZE
           T == SQ_THRESHOLD
<1>1. W \in Nat \ {0} /\ Overhang \in Nat /\ T \in Nat \ {0} /\ size \in Nat
  BY SketchAssumption DEF ScoreInv
<1>2. /\ buf \in Seq(Byte) /\ Len(buf) \in Nat /\ Len(buf) <= Scanned
      /\ maxSumSq \in 0..T
      /\ maxSumSq = 0 \/ \E i \in Starts : F2At(buf, i) = maxSumSq
  BY DEF SketchInv, RingHoldsWindow, ScoreInv
<1>3. ASSUME result = NoResult PROVE \A i \in Starts : F2At(buf, i) <= maxSumSq
  BY <1>1, <1>3 DEF ScoreInv, NoResult
<1>4. CASE TooSmall
  <2>1. Len(buf) = 0 /\ Starts = {} /\ maxSumSq = 0 /\ Scanned = 0
    BY <1>1, <1>2, <1>4 DEF TooSmall, Starts, Scanned
  <2>2. UNCHANGED <<size, buf, maxSumSq>> /\ result' = 0
    BY <1>4 DEF TooSmall
  <2>3. Starts' = {} /\ Len(buf') = 0 /\ Scanned' = 0
    BY <2>1, <2>2 DEF Starts, Scanned, ScanLimit
  <2> QED
    BY <1>1, <2>1, <2>2, <2>3 DEF ScoreInv
<1>5. CASE Return
  <2>1. /\ UNCHANGED <<size, buf, maxSumSq>> /\ result' = maxSumSq /\ result = NoResult
        /\ size >= W /\ Len(buf) = ScanLimit
    BY <1>5 DEF Return
  <2>2. Starts' = Starts /\ Len(buf') = Scanned' /\ \A i \in Starts : F2At(buf', i) = F2At(buf, i)
    BY <1>1, <2>1 DEF Starts, Scanned, ScanLimit, F2At
  <2> QED
    BY <1>1, <1>2, <1>3, <2>1, <2>2 DEF ScoreInv
<1>6. CASE UNCHANGED sketchVars
  BY <1>6 DEF ScoreInv, sketchVars, Scanned, ScanLimit, Starts, F2At
<1>7. ASSUME NEW cur \in Byte, Fill(cur) \/ Score(cur) \/ Detect(cur) PROVE ScoreInv'
  <2> DEFINE begin == Len(buf) - W + 2
             sumSq == SumSq(histogram', active')
             all   == SumFunctionOnSet(Squares(histogram'), Byte \ {0})
  <2>1. /\ buf' = Append(buf, cur) /\ UNCHANGED size /\ result = NoResult
        /\ size >= W /\ Len(buf) < ScanLimit
    BY <1>7 DEF Fill, Score, Detect, Read
  <2>2. /\ Len(buf') = Len(buf) + 1 /\ Len(buf') <= Scanned' /\ size' \in Nat
    BY <1>1, <1>2, <2>1 DEF Scanned, ScanLimit
  <2>3. /\ items' < W => Starts' = {}
        /\ items' = W => Starts' = Starts \union {begin} /\ F2At(buf', begin) = all
        /\ \A i \in Starts : F2At(buf', i) = F2At(buf, i)
    <3>1. begin = Len(buf') - W + 1
      BY <1>1, <1>2, <2>2
    <3> QED
      BY <2>1, <3>1, ReadWindows
  <2>4. /\ sumSq \in Nat
        /\ sumSq <= all
        /\ sumSq <= T => sumSq = all
        /\ all \in Nat
    <3>1. histogram' \in [Byte -> Nat] /\ Agree(histogram', active', inActive')
      BY DEF SketchInv, Agree
    <3> QED
      BY <3>1, SumSqExact, SquaresNatural
  <2>5. \A i \in Starts : F2At(buf, i) \in Nat
    BY <1>2, WindowScored
  <2>6. CASE Fill(cur)
    <3>1. Starts' = {} /\ UNCHANGED <<maxSumSq, result>>
      BY <2>3, <2>6 DEF Fill
    <3>2. maxSumSq = 0
      <4>1. Starts = {}
        <5>1. items' < W /\ items' <= Len(buf') /\ (items' < W => Len(buf') = items')
          BY <2>6 DEF Fill, SketchInv, RingHoldsWindow
        <5> QED
          BY <1>1, <1>2, <2>2, <5>1 DEF Starts
      <4> QED
        BY <1>2, <4>1
    <3> QED
      BY <1>1, <2>1, <2>2, <3>1, <3>2 DEF ScoreInv
  <2>7. CASE Score(cur)
    <3>1. /\ Starts' = Starts \union {begin} /\ F2At(buf', begin) = all /\ sumSq <= T /\ sumSq = all
          /\ maxSumSq' = IF sumSq > maxSumSq THEN sumSq ELSE maxSumSq
          /\ result' = NoResult
      BY <2>1, <2>3, <2>4, <2>7 DEF Score
    <3> HIDE DEF sumSq, all, begin
    <3>2. maxSumSq' \in 0..T /\ all <= maxSumSq' /\ maxSumSq <= maxSumSq'
      BY <1>1, <1>2, <2>4, <3>1
    <3>3. \A i \in Starts' : F2At(buf', i) <= maxSumSq'
      <4>1. \A i \in Starts : F2At(buf, i) <= maxSumSq /\ F2At(buf, i) \in Nat
        BY <1>3, <2>1, <2>5
      <4>2. \A i \in Starts : F2At(buf', i) <= maxSumSq'
        BY <1>2, <2>3, <3>2, <4>1
      <4> QED
        BY <3>1, <3>2, <4>2
    <3>4. maxSumSq' = 0 \/ \E i \in Starts' : F2At(buf', i) = maxSumSq'
      <4>1. CASE maxSumSq' = sumSq
        BY <3>1, <4>1
      <4>2. CASE maxSumSq' = maxSumSq
        BY <1>2, <2>3, <3>1, <4>2
      <4> QED
        BY <3>1, <4>1, <4>2
    <3> QED
      BY <2>2, <3>1, <3>2, <3>3, <3>4 DEF ScoreInv
  <2>8. CASE Detect(cur)
    <3>1. /\ Starts' = Starts \union {begin} /\ F2At(buf', begin) = all /\ sumSq > T
          /\ maxSumSq' = maxSumSq /\ result' = sumSq
      BY <2>3, <2>8 DEF Detect
    <3> HIDE DEF sumSq, all, begin
    <3>2. maxSumSq' = 0 \/ \E i \in Starts' : F2At(buf', i) = maxSumSq'
      BY <1>2, <2>3, <3>1
    <3>3. \E i \in Starts' : result' <= F2At(buf', i)
      BY <2>4, <3>1
    <3> QED
      BY <1>2, <2>2, <2>4, <3>1, <3>2, <3>3 DEF ScoreInv
  <2> QED
    BY <1>7, <2>6, <2>7, <2>8
<1> QED
  BY <1>4, <1>5, <1>6, <1>7 DEF SketchNext

\* Whatever is larger than every score and one of them is the largest.
LEMMA Largest ==
  ASSUME buf \in Seq(Byte)
  PROVE  /\ LargestF2 \in Nat
         /\ \A i \in Starts : F2At(buf, i) <= LargestF2
         /\ LargestF2 = 0 \/ \E i \in Starts : LargestF2 = F2At(buf, i)
<1> DEFINE S == {F2(w) : w \in WindowsOf(buf)} \union {0}
<1>1. WindowsOf(buf) = {SubSeq(buf, i, i + WINDOW_SIZE - 1) : i \in Starts}
  BY DEF WindowsOf, Starts
<1>2. S = {F2At(buf, i) : i \in Starts} \union {0}
  BY <1>1 DEF F2At
<1>3. S \in SUBSET Nat
  BY <1>2, WindowScored
<1>4. IsFiniteSet(S)
  <2>1. IsFiniteSet(Starts)
    BY SketchAssumption, FS_Interval DEF Starts
  <2> DEFINE scores == [i \in Starts |-> F2At(buf, i)]
  <2>2. {F2At(buf, i) : i \in Starts} = {scores[i] : i \in Starts}
    OBVIOUS
  <2> HIDE DEF scores
  <2>3. IsFiniteSet({F2At(buf, i) : i \in Starts})
    BY <2>1, <2>2, FiniteValues
  <2> QED
    BY <1>2, <2>3, FS_AddElement
<1>5. LargestF2 = Max(S)
  BY DEF LargestF2
<1> HIDE DEF S
<1>6. Max(S) \in S /\ \A x \in S : x <= Max(S)
  <2>1. \E n \in S : \A x \in S : n >= x
    BY <1>2, <1>3, <1>4, GreatestNatural
  <2>2. Max(S) = CHOOSE n \in S : \A x \in S : n >= x
    BY DEF Max
  <2>3. Max(S) \in S /\ \A x \in S : Max(S) >= x
    BY Zenon, <2>1, <2>2
  <2> QED
    BY <1>3, <2>3
<1> QED
  BY <1>2, <1>3, <1>5, <1>6

(***************************************************************************)
(* calculate_max_sum_sq, for windows of any size, any threshold and        *)
(* packets of any bytes: leaving the list at the byte that passes the      *)
(* threshold, and the packet at the window that does, never changes the    *)
(* verdict; a score that does not pass it is the largest F2 of the windows *)
(* scanned, and one that does is never more than it.                       *)
(***************************************************************************)
THEOREM VerdictIsExact == SketchSpec => []VerdictExact
<1>1. SketchInv /\ ScoreInv => VerdictExact
  <2> SUFFICES ASSUME SketchInv, ScoreInv, result # NoResult
               PROVE  /\ result > SQ_THRESHOLD <=> LargestF2 > SQ_THRESHOLD
                      /\ result <= SQ_THRESHOLD => result = LargestF2
                      /\ result <= LargestF2
                      /\ result <= SQ_THRESHOLD => Len(buf) = (IF size < WINDOW_SIZE THEN 0 ELSE ScanLimit)
    BY DEF VerdictExact
  <2>1. /\ SQ_THRESHOLD \in Nat /\ maxSumSq \in 0..SQ_THRESHOLD /\ buf \in Seq(Byte)
        /\ maxSumSq = 0 \/ \E i \in Starts : F2At(buf, i) = maxSumSq
    BY SketchAssumption DEF SketchInv, RingHoldsWindow, ScoreInv
  <2>2. /\ LargestF2 \in Nat
        /\ \A i \in Starts : F2At(buf, i) <= LargestF2
        /\ LargestF2 = 0 \/ \E i \in Starts : LargestF2 = F2At(buf, i)
    BY <2>1, Largest
  <2>3. \A i \in Starts : F2At(buf, i) \in Nat
    BY <2>1, WindowScored
  <2>4. CASE /\ result = maxSumSq /\ Len(buf) = Scanned
             /\ \A i \in Starts : F2At(buf, i) <= maxSumSq
    <3>1. LargestF2 = maxSumSq
      BY <2>1, <2>2, <2>3, <2>4
    <3> QED
      BY <2>1, <2>4, <3>1 DEF Scanned
  <2>5. CASE /\ result \in Nat /\ result > SQ_THRESHOLD
             /\ \E i \in Starts : result <= F2At(buf, i)
    <3>1. result <= LargestF2
      BY <2>2, <2>3, <2>5
    <3> QED
      BY <2>1, <2>2, <2>5, <3>1
  <2> QED
    BY <2>4, <2>5 DEF ScoreInv
<1>2. SketchInv /\ [SketchNext]_sketchVars => SketchInv'
  BY SketchKept
<1>3. SketchInv /\ SketchInv' /\ ScoreInv /\ [SketchNext]_sketchVars => ScoreInv'
  BY ScoreKept
<1> QED
  BY <1>1, <1>2, <1>3, SketchInitial, ScoreInitial, PTL DEF SketchSpec

-----------------------------------------------------------------------------
\* Arithmetic of the bound.
LEMMA Products ==
  /\ \A a, b \in Nat : a * b \in Nat /\ a * b = b * a
  /\ \A a, b, c \in Nat : a <= b => c * a <= c * b
  /\ \A a, b, c \in Nat : c * (a + b) = c * a + c * b
<1>1. \A a, b \in Nat : a * b \in Nat /\ a * b = b * a
  OBVIOUS
<1>2. ASSUME NEW a \in Nat, NEW b \in Nat, NEW c \in Nat PROVE c * (a + b) = c * a + c * b
  OBVIOUS
<1>3. ASSUME NEW a \in Nat, NEW b \in Nat, NEW c \in Nat, a <= b PROVE c * a <= c * b
  <2>1. c * b = c * (a + (b - a)) /\ b - a \in Nat
    BY <1>3
  <2>2. c * b = c * a + c * (b - a) /\ c * (b - a) \in Nat /\ c * a \in Nat
    BY <1>1, <1>2, <2>1
  <2> HIDE <1>3
  <2> QED
    BY <2>2
<1> QED
  BY <1>1, <1>2, <1>3

\* The counts of a window's bytes add up to its length.
LEMMA CountsAddUp ==
  ASSUME NEW w \in Seq(Byte), NEW S \in SUBSET Byte
  PROVE  SumFunctionOnSet([v \in Byte |-> CountIn(w, v)], S) \in 0..Len(w)
<1> DEFINE c     == [v \in Byte |-> CountIn(w, v)]
           At(t) == {k \in 1..Len(w) : w[k] \in t}
           P     == {t \in SUBSET S : SumFunctionOnSet(c, t) = Cardinality(At(t))}
<1>1. \A t : IsFiniteSet(At(t)) /\ Cardinality(At(t)) \in 0..Len(w)
  <2> TAKE t
  <2>1. IsFiniteSet(1..Len(w)) /\ Cardinality(1..Len(w)) = Len(w)
    BY IntervalSize
  <2>2. At(t) \subseteq 1..Len(w)
    OBVIOUS
  <2>3. IsFiniteSet(At(t)) /\ Cardinality(At(t)) <= Len(w) /\ Cardinality(At(t)) \in Nat
    BY <2>1, <2>2, FS_Subset, FS_CardinalityType
  <2> QED
    BY <2>3
<1>2. \A v \in Byte : c[v] \in Nat /\ c[v] = Cardinality(At({v}))
  <2>1. c \in [Byte -> Nat]
    BY F2Natural
  <2>2. \A v \in Byte : {k \in DOMAIN w : w[k] = v} = At({v})
    OBVIOUS
  <2> QED
    BY <2>1, <2>2 DEF CountIn
<1>3. \A t \in SUBSET S : IsFiniteSet(t)
  BY SketchAssumption, FS_Subset
<1> HIDE DEF c
<1>4. ASSUME NEW t \in SUBSET S, \A v \in t : t \ {v} \in P PROVE t \in P
  <2>1. CASE t = {}
    <3>1. SumFunctionOnSet(c, {}) = 0
      BY SumEmpty
    <3>2. At({}) = {}
      OBVIOUS
    <3>3. Cardinality(At({})) = 0
      BY <3>2, FS_EmptySet
    <3> QED
      BY <2>1, <3>1, <3>3
  <2>2. CASE t # {}
    <3>1. PICK v \in t : TRUE
      BY <2>2
    <3>2. SumFunctionOnSet(c, t) = c[v] + SumFunctionOnSet(c, t \ {v})
      <4>1. \A x \in t : c[x] \in Nat
        BY <1>2
      <4> QED
        BY <1>3, <4>1, SumWithout
    <3>3. SumFunctionOnSet(c, t \ {v}) = Cardinality(At(t \ {v}))
      BY <1>4
    <3>4. c[v] = Cardinality(At({v}))
      BY <1>2
    <3>5. At(t) = At({v}) \union At(t \ {v}) /\ At({v}) \cap At(t \ {v}) = {}
      BY <3>1
    <3> HIDE DEF At
    <3>6. Cardinality(At({v}) \cap At(t \ {v})) = 0
      BY <3>5, FS_EmptySet
    <3>7. Cardinality(At(t)) = Cardinality(At({v})) + Cardinality(At(t \ {v}))
      <4>1. Cardinality(At({v}) \union At(t \ {v}))
              = Cardinality(At({v})) + Cardinality(At(t \ {v})) - Cardinality(At({v}) \cap At(t \ {v}))
        BY <1>1, FS_Union
      <4>2. Cardinality(At({v})) \in Nat /\ Cardinality(At(t \ {v})) \in Nat
        BY <1>1
      <4>3. Cardinality(At(t)) = Cardinality(At({v}) \union At(t \ {v}))
        BY Zenon, <3>5
      <4> QED
        BY <3>6, <4>1, <4>2, <4>3
    <3> QED
      BY <3>2, <3>3, <3>4, <3>7
  <2> QED
    BY <2>1, <2>2
<1>5. S \in P
  <2> HIDE DEF P
  <2>1. IsFiniteSet(S)
    BY <1>3
  <2> QED
    BY <1>4, <2>1, InductiveFamily
<1> QED
  BY <1>1, <1>5 DEF c

\* The squares add up to no more than that of the length.
LEMMA F2Bounded ==
  ASSUME NEW w \in Seq(Byte)
  PROVE  F2(w) <= Len(w) * Len(w)
<1> DEFINE c  == [v \in Byte |-> CountIn(w, v)]
           n  == Len(w)
           sq == Squares(c)
           P  == {t \in SUBSET Byte : SumFunctionOnSet(sq, t) <= n * SumFunctionOnSet(c, t)}
<1>1. n \in Nat /\ c \in [Byte -> Nat] /\ \A v \in Byte : c[v] \in Nat
  BY F2Natural
<1>2. \A v \in Byte : sq[v] = c[v] * c[v] /\ sq[v] \in Nat
  BY <1>1, SquaresNatural
<1>3. \A t \in SUBSET Byte : IsFiniteSet(t)
  BY SketchAssumption, FS_Subset
<1>4. \A t \in SUBSET Byte : SumFunctionOnSet(c, t) \in Nat /\ SumFunctionOnSet(c, t) <= n
  BY CountsAddUp
<1>5. \A t \in SUBSET Byte : SumFunctionOnSet(sq, t) \in Nat
  BY <1>1, SquaresNatural
<1> HIDE DEF c, sq, n
<1>6. \A v \in Byte : c[v] <= n
  <2> TAKE v \in Byte
  <2>1. SumFunctionOnSet(c, {v}) = c[v] + SumFunctionOnSet(c, {v} \ {v})
    BY <1>1, <1>3, SumWithout
  <2>2. SumFunctionOnSet(c, {v} \ {v}) \in Nat /\ SumFunctionOnSet(c, {v}) <= n
        /\ SumFunctionOnSet(c, {v}) \in Nat
    BY <1>4
  <2> QED
    BY <1>1, <2>1, <2>2
<1>7. ASSUME NEW t \in SUBSET Byte, \A v \in t : t \ {v} \in P PROVE t \in P
  <2>1. CASE t = {}
    <3>1. SumFunctionOnSet(sq, {}) = 0 /\ SumFunctionOnSet(c, {}) = 0
      BY SumEmpty
    <3> QED
      BY <1>1, <2>1, <3>1
  <2>2. CASE t # {}
    <3>1. PICK v \in t : TRUE
      BY <2>2
    <3> DEFINE a == SumFunctionOnSet(c, t \ {v})
               b == SumFunctionOnSet(sq, t \ {v})
    <3>2. SumFunctionOnSet(sq, t) = sq[v] + b /\ SumFunctionOnSet(c, t) = c[v] + a
      <4>1. IsFiniteSet(t) /\ \A x \in t : c[x] \in Nat /\ sq[x] \in Nat
        BY <1>1, <1>2, <1>3
      <4>2. SumFunctionOnSet(sq, t) = sq[v] + SumFunctionOnSet(sq, t \ {v})
        BY <4>1, SumWithout
      <4>3. SumFunctionOnSet(c, t) = c[v] + SumFunctionOnSet(c, t \ {v})
        BY <4>1, SumWithout
      <4> QED
        BY <4>2, <4>3
    <3>3. b <= n * a
      BY <1>7
    <3>4. a \in Nat /\ b \in Nat /\ c[v] \in Nat /\ sq[v] = c[v] * c[v]
      BY <1>1, <1>2, <1>4, <1>5
    <3> HIDE DEF a, b
    <3>5. c[v] * c[v] <= n * c[v]
      <4>1. c[v] * c[v] <= c[v] * n
        BY <1>1, <1>6, <3>4, Products
      <4> QED
        BY <1>1, <3>4, <4>1, Products
    <3>6. n * (c[v] + a) = n * c[v] + n * a
      BY <1>1, <3>4, Products
    <3>7. n * c[v] \in Nat /\ n * a \in Nat /\ c[v] * c[v] \in Nat
      BY <1>1, <3>4, Products
    <3>8. sq[v] + b <= n * (c[v] + a)
      BY <3>3, <3>4, <3>5, <3>6, <3>7
    <3> QED
      BY <3>2, <3>8
  <2> QED
    BY <2>1, <2>2
<1>8. \A t \in SUBSET Byte : t \in P
  <2> TAKE t \in SUBSET Byte
  <2>1. IsFiniteSet(Byte) /\ IsFiniteSet(t)
    BY <1>3
  <2> DEFINE Q == {r \in SUBSET t : r \in P}
  <2>2. ASSUME NEW r \in SUBSET t, \A v \in r : r \ {v} \in Q PROVE r \in Q
    BY <1>7, <2>2
  <2>3. t \in Q
    <3> HIDE DEF P, Q
    <3> QED
      BY <2>1, <2>2, InductiveFamily
  <2> QED
    BY <2>3
<1>9. F2(w) = SumFunctionOnSet(sq, Byte \ {0})
  BY DEF F2, sq, c
<1> DEFINE total == SumFunctionOnSet(c, Byte \ {0})
<1>10. F2(w) <= n * total
  BY <1>8, <1>9
<1>11. total \in Nat /\ total <= n /\ F2(w) \in Nat
  BY <1>4, <1>5, <1>9
<1> HIDE DEF total, P
<1>12. n * total <= n * n /\ n * total \in Nat /\ n * n \in Nat
  BY <1>1, <1>11, Products
<1>13. F2(w) <= n * n
  BY <1>10, <1>11, <1>12
<1> QED
  BY <1>13 DEF n

(***************************************************************************)
(* The types of the score, with their bounds: no count exceeds the window, *)
(* the list fits its array, no score exceeds the square of the window, so  *)
(* the sums of calculate_max_sum_sq do not overflow.                       *)
(***************************************************************************)
THEOREM SketchTyped == SketchSpec => []SketchTypeOK
<1> DEFINE Sized == size \in 0..MaxSize
<1>1. SketchInv /\ ScoreInv /\ Sized => SketchTypeOK
  <2> SUFFICES ASSUME SketchInv, ScoreInv, Sized PROVE SketchTypeOK
    OBVIOUS
  <2>1. /\ buf \in Seq(Byte) /\ WINDOW_SIZE \in Nat \ {0} /\ MaxScore \in Nat /\ SQ_THRESHOLD \in Nat
        /\ ring \in [0..(WINDOW_SIZE - 1) -> Byte]
        /\ ringIdx \in 0..(WINDOW_SIZE - 1)
        /\ items \in 0..WINDOW_SIZE /\ items <= Len(buf) /\ Len(buf) \in Nat
    BY SketchAssumption, Products DEF SketchInv, RingHoldsWindow, MaxScore
  <2>2. /\ histogram \in [Byte -> Nat] /\ active \in Seq(Byte) /\ inActive \subseteq Byte
        /\ \A i, j \in 1..Len(active) : active[i] = active[j] => i = j
    BY DEF SketchInv, Agree
  <2>3. ASSUME NEW v \in Byte PROVE histogram[v] \in 0..WINDOW_SIZE
    <3> DEFINE lo == Len(buf) - items + 1
    <3>1. lo \in 1..(Len(buf) + 1) /\ Len(buf) - lo + 1 = items
      BY <2>1
    <3> HIDE DEF lo
    <3>2. IsFiniteSet(lo..Len(buf)) /\ Cardinality(lo..Len(buf)) = items
      BY <2>1, <3>1, IntervalSize
    <3>3. Places(buf, lo, Len(buf), v) \subseteq lo..Len(buf)
      BY DEF Places
    <3>4. Cardinality(Places(buf, lo, Len(buf), v)) <= Cardinality(lo..Len(buf))
      BY <3>2, <3>3, FS_Subset
    <3>5. histogram[v] = Cardinality(Places(buf, lo, Len(buf), v))
      BY DEF SketchInv, HistogramCounts, lo
    <3>6. Cardinality(lo..Len(buf)) \in Nat
      BY <3>2, FS_CardinalityType
    <3> QED
      BY <2>1, <2>2, <3>2, <3>4, <3>5, <3>6
  <2>4. Len(active) <= Cardinality(Byte)
    <3>1. Cardinality(ToSet(active)) = Len(active)
      BY <2>2, ListLength
    <3>2. ToSet(active) \subseteq Byte
      BY <2>2 DEF ToSet
    <3> QED
      BY <3>1, <3>2, SketchAssumption, FS_Subset
  <2>5. ASSUME NEW i \in Starts PROVE F2At(buf, i) \in 0..MaxScore
    <3> DEFINE w == SubSeq(buf, i, i + WINDOW_SIZE - 1)
    <3>1. w \in Seq(Byte) /\ F2At(buf, i) \in Nat
      BY <2>1, WindowScored
    <3>2. Len(w) = WINDOW_SIZE
      BY <2>1 DEF Starts
    <3>3. F2(w) <= Len(w) * Len(w)
      BY <3>1, F2Bounded
    <3> QED
      BY <2>1, <3>1, <3>2, <3>3 DEF F2At, MaxScore
  <2>6. maxSumSq \in 0..MaxScore
    BY <2>1, <2>5 DEF ScoreInv
  <2>7. result \in 0..MaxScore \union {NoResult}
    <3>1. CASE result \in {NoResult, maxSumSq}
      BY <2>6, <3>1
    <3>2. CASE result \in Nat /\ \E i \in Starts : result <= F2At(buf, i)
      BY <2>1, <2>5, <3>2
    <3> QED
      BY <3>1, <3>2 DEF ScoreInv
  <2> QED
    BY <2>1, <2>2, <2>3, <2>4, <2>6, <2>7 DEF SketchTypeOK
<1>2. SketchInv /\ [SketchNext]_sketchVars => SketchInv'
  BY SketchKept
<1>3. SketchInv /\ SketchInv' /\ ScoreInv /\ [SketchNext]_sketchVars => ScoreInv'
  BY ScoreKept
<1>4. SketchInit => Sized
  BY DEF SketchInit
<1>5. Sized /\ [SketchNext]_sketchVars => Sized'
  BY DEF SketchNext, TooSmall, Return, Fill, Score, Detect, Read, sketchVars
<1> QED
  BY <1>1, <1>2, <1>3, <1>4, <1>5, SketchInitial, ScoreInitial, PTL DEF SketchSpec
=============================================================================
