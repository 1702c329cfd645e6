--------------------------- MODULE MCQueueReclaim --------------------------
(***************************************************************************)
(* Up to two messages in each of two incarnations, one sent and one        *)
(* published; cleanup pages of two: rows appear, expire and are retired on *)
(* both sides of the cursor.                                               *)
(***************************************************************************)
EXTENDS Queue

MCAttributeSets == {[delay |-> 0, retention |-> 1, size |-> 1]}
MCSupplied == {}
MCDelays == {Unset}
=============================================================================
