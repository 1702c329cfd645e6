---------------------------- MODULE MCAdmission ----------------------------
(* Four callers, a limit of one to three and a queue of three; two control    *)
(* tasks for one reserved slot.                                             *)
EXTENDS Admission, TLC

Symmetry == Permutations(Callers) \cup Permutations(Controls)
=============================================================================
