---------------------------- MODULE AsyncControl ----------------------------
(***************************************************************************)
(* What the native ONNX control plane promises the packet path, without    *)
(* the mutex, the condition variable and the flags that carry it: the data *)
(* plane closes control windows, a slow controller looks at the newest     *)
(* closed window, decides, and its decision takes effect when a later      *)
(* window is closed.  A decision is named by the window it was made from.  *)
(***************************************************************************)
EXTENDS Integers

VARIABLES
  window,    \* number of windows closed so far
  working,   \* window the controller is deciding about, None if idle
  ready,     \* decision waiting to be applied, None if there is none
  live       \* decision in force in the filter, None before the first

None == 0

vars == <<window, working, ready, live>>

TypeOK ==
  /\ window \in Nat
  /\ working \in Nat
  /\ ready \in Nat
  /\ live \in Nat

Init ==
  /\ window = 0
  /\ working = None
  /\ ready = None
  /\ live = None

\* A window closes; the decision waiting, if any, takes effect with it.
CloseWindow ==
  /\ window' = window + 1
  /\ live' = IF ready = None THEN live ELSE ready
  /\ ready' = None
  /\ UNCHANGED working

\* The idle controller looks at the newest window, which it may have seen before.
Observe ==
  /\ working = None
  /\ window # 0
  /\ working' = window
  /\ UNCHANGED <<window, ready, live>>

\* The controller's decision replaces the one nobody has picked up yet.
Decide ==
  /\ working # None
  /\ ready' = working
  /\ working' = None
  /\ UNCHANGED <<window, live>>

Next == CloseWindow \/ Observe \/ Decide

Spec == Init /\ [][Next]_vars

(***************************************************************************)
(* Decisions travel in the order of their windows: what is in force is not *)
(* newer than what waits, which is not newer than what is being decided,   *)
(* and a decision in force is older than the newest window, so its age is  *)
(* at least one window.                                                    *)
(***************************************************************************)
Ordered ==
  /\ working <= window
  /\ ready <= window
  /\ live <= window
  /\ live # None => live < window
  /\ working # None => ready <= working /\ live <= working
  /\ ready # None => live <= ready

\* A window's decision is never replaced by one made from an older window.
NeverRegress == [][live' >= live]_vars
=============================================================================
