--------------------------- MODULE MCQueueIndexes --------------------------
(***************************************************************************)
(* The rows and both indexes of the key-value backend: two messages, one   *)
(* sent and one published, each delayed or not, claimed two at a time,     *)
(* rescheduled and deleted by two callers while cleanup runs.              *)
(***************************************************************************)
EXTENDS KvQueue

MCAttributeSets == {[delay |-> 0, retention |-> 2, size |-> 1]}
MCSupplied == {}
MCDelays == {Unset, 1}
MCSymmetry == Permutations(Clients)
=============================================================================
