-------------------------- MODULE MCAdaptiveFilter --------------------------
(***************************************************************************)
(* AdaptiveFilter on a coarse budget: a step is five points, the guards    *)
(* keep the code's proportion (three recoveries cost less than the         *)
(* smallest drain), and the streak threshold is two packets.               *)
(***************************************************************************)
EXTENDS AdaptiveFilter

MCScores == {0, 4, 7, 30}
MCDefault == [recovery |-> 1, penalty |-> 9, sq |-> 6, base |-> 10]
MCStaticRates == {100}
MCCustom == {[recovery |-> 2, penalty |-> 1, sq |-> 3, base |-> 10]}
\* Below and above every boundary, and inside all of them.
MCRaw == {[recovery |-> 2, penalty |-> 1, sq |-> 8, base |-> -1],
          [recovery |-> 1, penalty |-> 12, sq |-> 5, base |-> 75],
          [recovery |-> 0, penalty |-> 9, sq |-> 6, base |-> 200]}
=============================================================================
