--------------------------- MODULE AdmissionLimit ---------------------------
(***************************************************************************)
(* What the adaptive limit of an admission controller promises the permits *)
(* and the queue that live by it: it stays between the configured bounds,  *)
(* pressure halves it at once but at most once per sampling window, and    *)
(* only the end of a window without pressure may raise it.  A controller   *)
(* that is not enabled has Minimum = Maximum.                              *)
(***************************************************************************)
EXTENDS Integers

CONSTANTS Minimum, Maximum  \* minimum_concurrency, effective_maximum

VARIABLES
    limit,    \* desired_limit
    reduced   \* Window::emergency_reduction_applied

(* emergency_limit *)
Halved(l) == IF l \div 2 > Minimum THEN l \div 2 ELSE Minimum

(* What pressure makes of the limit. *)
Pressed == IF reduced THEN limit ELSE Halved(limit)

Init ==
    /\ limit \in Minimum .. Maximum
    /\ reduced = FALSE

(* evaluate_pressure: the window stays open. *)
Pressure ==
    /\ limit' = Pressed
    /\ reduced' = TRUE

(* evaluate_window of a window that saw pressure. *)
ClosePressed ==
    /\ limit' = Pressed
    /\ reduced' = FALSE

(* evaluate_window of one that did not: backoff, probe, or no change. *)
CloseQuiet ==
    /\ ~ reduced
    /\ limit' \in Minimum .. Maximum
    /\ UNCHANGED reduced

Next == Pressure \/ ClosePressed \/ CloseQuiet

Spec == Init /\ [][Next]_<<limit, reduced>>
=============================================================================
