---------------------------- MODULE ControlLogic ----------------------------
(***************************************************************************)
(* Filter policies and the boundaries every learned policy is put through  *)
(* before the filter runs with it (control_logic.hpp).                     *)
(*                                                                         *)
(* Units: a budget is counted in steps, Decade of them to ten budget       *)
(* points; recovery is in steps per packet; sampling is in percent.  The   *)
(* code's numbers are RecoveryCap = 0.10 points, PenaltyFloor = 20,        *)
(* SqCap = 650 and, for any Decade that makes 0.10 points a whole number   *)
(* of steps, they satisfy the assumption.                                  *)
(***************************************************************************)
EXTENDS Integers

CONSTANTS
  Decade,        \* steps in ten points of budget
  MaxRecovery,   \* largest recovery rate any source asks for
  RecoveryCap,   \* recovery_rate boundary
  PenaltyFloor,  \* penalty_multiplier boundary
  SqCap          \* sq_threshold boundary

ASSUME ControlAssumption ==
  /\ Decade \in Nat \ {0}
  /\ MaxRecovery \in Nat
  /\ RecoveryCap \in 0..MaxRecovery
  /\ PenaltyFloor \in Nat
  /\ SqCap \in Nat \ {0}
  /\ 3 * RecoveryCap * SqCap <= PenaltyFloor * Decade

MinS0 == 70   \* kMinDrlS0SamplingRate
MaxS0 == 80   \* kMaxDrlS0SamplingRate

\* What the filter runs with, and what a model or an agent asks for: the
\* sampling rate it asks for may be anything, the other three are positive
\* in every decoder and in the agent's action space.
Policy    == [recovery : 0..MaxRecovery, penalty : Nat, sq : Nat \ {0}, base : 0..100]
RawPolicy == [recovery : 0..MaxRecovery, penalty : Nat, sq : Nat \ {0}, base : Int]

Lesser(a, b)  == IF a < b THEN a ELSE b
Greater(a, b) == IF a > b THEN a ELSE b

\* clamp_drl_s0_sampling_rate
ClampS0(rate) == Greater(MinS0, Lesser(rate, MaxS0))

\* Mutation: the penalty boundary is left out.
EnforceMut(p, guards) ==
  [recovery |-> IF guards THEN Lesser(p.recovery, RecoveryCap) ELSE p.recovery,
   penalty  |-> p.penalty,
   sq       |-> IF guards THEN Lesser(p.sq, SqCap) ELSE p.sq,
   base     |-> ClampS0(p.base)]

\* enforce_policy_boundaries: the sampling range holds with and without guards.
Enforce(p, guards) ==
  [recovery |-> IF guards THEN Lesser(p.recovery, RecoveryCap) ELSE p.recovery,
   penalty  |-> IF guards THEN Greater(p.penalty, PenaltyFloor) ELSE p.penalty,
   sq       |-> IF guards THEN Lesser(p.sq, SqCap) ELSE p.sq,
   base     |-> ClampS0(p.base)]

\* A policy inside the guards.
Guarded(p) ==
  /\ p.recovery <= RecoveryCap
  /\ p.penalty >= PenaltyFloor
  /\ p.sq <= SqCap
=============================================================================
