-------------------------- MODULE AsyncControlProofs --------------------------
(***************************************************************************)
(* What the abstract control loop guarantees, and so does whatever         *)
(* implements it.                                                          *)
(***************************************************************************)
EXTENDS AsyncControl, TLAPS

(***************************************************************************)
(* Decisions keep the order of their windows on the way from controller to *)
(* filter (onnx_worker_loop, publish_native_onnx_window).                  *)
(***************************************************************************)
THEOREM AlwaysOrdered == Spec => [](TypeOK /\ Ordered)
<1> USE DEF TypeOK, Ordered, None
<1>1. Init => TypeOK /\ Ordered
  BY DEF Init
<1>2. TypeOK /\ Ordered /\ [Next]_vars => (TypeOK /\ Ordered)'
  <2> SUFFICES ASSUME TypeOK, Ordered, [Next]_vars PROVE (TypeOK /\ Ordered)'
    OBVIOUS
  <2>1. CASE CloseWindow
    BY <2>1 DEF CloseWindow
  <2>2. CASE Observe
    BY <2>2 DEF Observe
  <2>3. CASE Decide
    BY <2>3 DEF Decide
  <2>4. CASE UNCHANGED vars
    BY <2>4 DEF vars
  <2>5. QED
    BY <2>1, <2>2, <2>3, <2>4 DEF Next
<1>3. QED
  BY <1>1, <1>2, PTL DEF Spec

(***************************************************************************)
(* The decision in force is never replaced by one made from an older       *)
(* window.                                                                 *)
(***************************************************************************)
THEOREM DecisionsNeverRegress == Spec => NeverRegress
<1>1. TypeOK /\ Ordered /\ [Next]_vars => [live' >= live]_vars
  BY DEF TypeOK, Ordered, None, Next, CloseWindow, Observe, Decide, vars
<1>2. QED
  BY <1>1, AlwaysOrdered, PTL DEF Spec, NeverRegress
=============================================================================
