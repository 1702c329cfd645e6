--------------------------- MODULE MCQueueClaims ---------------------------
(***************************************************************************)
(* One queue and one published message: two callers whose clocks differ by *)
(* one from the reference claim it, extend or shorten the claim, record    *)
(* checkpoints, delete it and publish it again after it expired, while     *)
(* cleanup runs.                                                           *)
(***************************************************************************)
EXTENDS Queue

MCAttributeSets == {[delay |-> 0, retention |-> 3, size |-> 1]}
MCSupplied == {}
MCDelays == {Unset}
MCSymmetry == Permutations(Clients)
=============================================================================
