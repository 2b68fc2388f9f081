--------------------------- MODULE AdaptiveFilter ---------------------------
(***************************************************************************)
(* AdaptiveFilterFSM (pre_filter.cpp): the filter in front of the parser.  *)
(* A virtual budget falls with every flagged packet and recovers with all  *)
(* others; it decides the FSM state and, in the adaptive modes, a floor    *)
(* under the sampling rate of the policy in force.                         *)
(*                                                                         *)
(* Data: a packet is short or carries the score calculate_max_sum_sq gives *)
(* it; the generator's draw is a free choice wherever some draw makes it.  *)
(* A rate is a multiple of 1/(600 Decade), so that the code's two linear   *)
(* pieces have whole coefficients.  clean_streak is only compared with     *)
(* STREAK_THRESHOLD, so it is counted up to one above it.                  *)
(***************************************************************************)
EXTENDS ControlLogic

CONSTANTS
  StreakThreshold,  \* STREAK_THRESHOLD
  Scores,           \* scores a full-size packet may have
  DefaultPolicy,    \* 0.05, 50, 600: what every mode starts with
  StaticRates,      \* sampling rates the static mode may be started with
  CustomPolicies,   \* policies the command line may install at start
  RawPolicies,      \* policies models and agents may ask for
  MaxSince          \* bound: packets counted since the last flagged one

ASSUME FilterAssumption ==
  /\ StreakThreshold \in Nat
  /\ Scores \subseteq Nat
  /\ DefaultPolicy \in Policy
  /\ Guarded(DefaultPolicy)
  /\ StaticRates \subseteq 0..100
  /\ CustomPolicies \subseteq Policy
  /\ RawPolicies \subseteq RawPolicy
  /\ MaxSince \in Nat

VARIABLES
  mode,     \* execution_mode_
  guards,   \* safety_guards_enabled_ of the bridge
  policy,   \* RECOVERY_RATE, PENALTY_MULTIPLIER, SQ_THRESHOLD, BASE_SAMPLING_RATE
  budget,   \* current_budget
  streak,   \* clean_streak
  last,     \* what became of the last packet: was_inspected() and the verdict
  vetted,   \* history variable: the policy is the default or the bridge's
  low,      \* history variable: budget right after the last flagged packet
  since     \* history variable: packets since then, up to MaxSince

config == <<mode, guards>>
vars   == <<mode, guards, policy, budget, streak, last, vetted, low, since>>

MaxBudget == 10 * Decade
Tau1      == 7 * Decade
Tau2      == 4 * Decade
Tau3      == Decade

Mode    == {"fsm", "static", "onnx", "socket"}
Outcome == {"none", "short", "skipped", "clean", "flagged"}

TypeOK ==
  /\ mode \in Mode
  /\ guards \in BOOLEAN
  /\ policy \in Policy
  /\ budget \in 0..MaxBudget
  /\ streak \in 0..(StreakThreshold + 1)
  /\ last \in Outcome
  /\ vetted \in BOOLEAN
  /\ low \in 0..MaxBudget
  /\ since \in 0..MaxSince

-----------------------------------------------------------------------------
\* get_state
State == IF budget > Tau1 THEN "S0" ELSE
         IF budget > Tau2 THEN "S1" ELSE
         IF budget > Tau3 THEN "S2" ELSE "S3"

\* The mode fixes the flag: set_adaptive_sampling_enabled has no caller.
Adaptive == mode # "static"

FullRate == 600 * Decade

\* fsm_floor: 1 at Tau2 and below, 0.5 at Tau1, 0.05 at the full budget.
Floor(b) ==
  IF b <= Tau2 THEN FullRate ELSE
  IF b <= Tau1 THEN FullRate - 100 * (b - Tau2) ELSE
  IF b < MaxBudget THEN 300 * Decade - 90 * (b - Tau1) ELSE 30 * Decade

BaseRate == policy.base * 6 * Decade

\* Mutation: the policy's rate is used without the floor.
SamplingRateMut == BaseRate

\* get_sampling_rate
SamplingRate == IF Adaptive THEN Greater(BaseRate, Floor(budget)) ELSE BaseRate

\* Some draw of eight bits inspects; some draw does not.
MayInspect == SamplingRate * 256 >= FullRate
MaySkip    == SamplingRate < FullRate

NextStreak == Lesser(streak + 1, StreakThreshold + 1)

\* Mutation: nothing is recovered in the two constrained states.
RecoveredMut(s) ==
  IF budget <= Tau2 THEN budget
  ELSE Lesser(MaxBudget,
              budget + (IF s > StreakThreshold THEN 6 ELSE 1) * policy.recovery)

\* The budget after a packet nobody flagged, given the streak with it.
Recovered(s) ==
  Lesser(MaxBudget,
         budget + (IF s > StreakThreshold THEN 6 ELSE 1) * policy.recovery)

\* What a flagged packet costs: the relative excess, times the penalty, times
\* ten points.
Cost(sq) == ((sq - policy.sq) * policy.penalty * Decade) \div policy.sq

Drained(sq) == Greater(0, budget - Cost(sq))

OneMore == Lesser(since + 1, MaxSince)

-----------------------------------------------------------------------------
\* How a session is set up: the mode's policy, or one from the command line.
StartRates(m) ==
  CASE m = "fsm"    -> {10}
    [] m = "static" -> StaticRates
    [] OTHER        -> {MinS0}

Init ==
  /\ mode \in Mode
  /\ guards \in BOOLEAN
  /\ \/ /\ policy \in {[DefaultPolicy EXCEPT !.base = r] : r \in StartRates(mode)}
        /\ vetted = TRUE
     \/ /\ policy \in CustomPolicies
        /\ vetted = FALSE
  /\ budget = MaxBudget
  /\ streak = 0
  /\ last = "none"
  /\ low = MaxBudget
  /\ since = 0

\* Less than one window: passed without a look, and without counting as clean.
ShortPacket ==
  /\ last' = "short"
  /\ budget' = Lesser(MaxBudget, budget + policy.recovery)
  /\ since' = OneMore
  /\ UNCHANGED <<config, policy, vetted, streak, low>>

\* The draw leaves the packet out: passed, and counted as clean.
SkippedPacket ==
  /\ MaySkip
  /\ last' = "skipped"
  /\ streak' = NextStreak
  /\ budget' = Recovered(streak')
  /\ since' = OneMore
  /\ UNCHANGED <<config, policy, vetted, low>>

CleanPacket ==
  /\ MayInspect
  /\ \E sq \in Scores : sq <= policy.sq
  /\ last' = "clean"
  /\ streak' = NextStreak
  /\ budget' = Recovered(streak')
  /\ since' = OneMore
  /\ UNCHANGED <<config, policy, vetted, low>>

\* Mutation: a flagged packet does not end the clean streak.
FlaggedPacketMut ==
  /\ MayInspect
  /\ \E sq \in Scores :
       /\ sq > policy.sq
       /\ budget' = Drained(sq)
  /\ last' = "flagged"
  /\ low' = budget'
  /\ since' = 0
  /\ UNCHANGED <<config, policy, vetted, streak>>

FlaggedPacket ==
  /\ MayInspect
  /\ \E sq \in Scores :
       /\ sq > policy.sq
       /\ budget' = Drained(sq)
  /\ last' = "flagged"
  /\ streak' = 0
  /\ low' = budget'
  /\ since' = 0
  /\ UNCHANGED <<config, policy, vetted>>

\* The bridge installs a policy, after the boundaries.
UpdatePolicy ==
  /\ mode \in {"onnx", "socket"}
  /\ \E raw \in RawPolicies : policy' = Enforce(raw, guards)
  /\ vetted' = TRUE
  /\ UNCHANGED <<config, budget, streak, last, low, since>>

Packet == ShortPacket \/ SkippedPacket \/ CleanPacket \/ FlaggedPacket

Next == Packet \/ UpdatePolicy

Spec == Init /\ [][Next]_vars

-----------------------------------------------------------------------------
(***************************************************************************)
(* Whatever policy is in force, an adaptive filter in S2 or S3 looks at    *)
(* every packet of at least one window: the floor overrides the policy.    *)
(***************************************************************************)
MandatoryInspection ==
  [][UNCHANGED <<policy, vetted>> /\ last' = "skipped" /\ Adaptive
       => State \notin {"S2", "S3"}]_vars

(***************************************************************************)
(* The filter cannot be talked out of an alarm faster than its recovery    *)
(* rate: one recovery per packet since the last flagged packet, and the    *)
(* sixfold rate only for packets after a streak that began since then,     *)
(* across every change of policy.                                          *)
(***************************************************************************)
CooldownHolds ==
  since < MaxSince =>
    budget <= low + MaxRecovery * (since + 5 * Greater(0, since - StreakThreshold))

(***************************************************************************)
(* With the guards on, and a policy of the bridge or the default in force, *)
(* a flagged packet costs at least what three clean ones give back, so     *)
(* traffic with one flagged packet in four never lifts the budget.  The    *)
(* three boundaries only do this together.                                 *)
(***************************************************************************)
FlaggedNeverPays ==
  [][UNCHANGED <<policy, vetted>> /\ last' = "flagged" /\ guards /\ vetted
       => budget' <= Greater(0, budget - 3 * RecoveryCap)]_vars

(***************************************************************************)
(* Once packets keep coming, none is flagged any more and the recovery     *)
(* rate is not zero, the filter goes back to S0 for good, whatever mix of  *)
(* short, skipped and clean packets it sees.                               *)
(***************************************************************************)
Unflagged == ShortPacket \/ SkippedPacket \/ CleanPacket
QuietEndsAlarm ==
  (/\ []<><<Unflagged>>_vars
   /\ <>[][~FlaggedPacket]_vars
   /\ <>[](policy.recovery > 0))
  => <>[](State = "S0")

(***************************************************************************)
(* While the agent trains, the budget does not override its sampling rate  *)
(* (main.cpp:44, "FSM sampling override disabled").  The code does not do  *)
(* that: the socket mode is adaptive.                                      *)
(***************************************************************************)
TrainingKeepsPolicyRate == mode = "socket" => SamplingRate = BaseRate
=============================================================================
