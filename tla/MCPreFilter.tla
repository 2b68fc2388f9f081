---------------------------- MODULE MCPreFilter ----------------------------
(***************************************************************************)
(* The two halves of pre_filter.cpp, the budget and the score of a packet, *)
(* in one run.  They share no state but the score itself, which the budget *)
(* takes from MCScores: a behaviour exercises one half while the other     *)
(* rests in an initial state.                                              *)
(***************************************************************************)
EXTENDS MCAdaptiveFilter, F2Sketch

VARIABLE part

MCInit ==
  \/ part = "budget" /\ Init /\ SketchInit /\ size = 0
  \/ part = "score" /\ SketchInit /\ Init /\ mode = "fsm" /\ guards /\ vetted

\* The score has been returned.
Scored == part = "score" /\ result # NoResult /\ UNCHANGED <<vars, sketchVars>>

MCNext ==
  /\ UNCHANGED part
  /\ \/ part = "budget" /\ Next /\ UNCHANGED sketchVars
     \/ part = "score" /\ SketchNext /\ UNCHANGED vars
     \/ Scored

MCSpec == MCInit /\ [][MCNext]_<<part, vars, sketchVars>>
=============================================================================
