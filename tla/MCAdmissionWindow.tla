------------------------- MODULE MCAdmissionWindow -------------------------
(* A limit between 2 and 24: several halvings, backoffs and probes apart. *)
EXTENDS AdmissionWindow
=============================================================================
