-------------------------- MODULE MCAdmissionDrain --------------------------
(* Three callers and a control task that may be busy when the host stops      *)
(* intake and drains.                                                       *)
EXTENDS Admission
=============================================================================
