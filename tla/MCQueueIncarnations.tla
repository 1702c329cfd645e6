------------------------ MODULE MCQueueIncarnations ------------------------
(***************************************************************************)
(* Two queue names and two urls: creates, deletes and purges captured in   *)
(* one order and committed in another, around the cleanup job and a        *)
(* published message that is too large once the attributes were set.       *)
(***************************************************************************)
EXTENDS Queue

MCAttributeSets == {[delay |-> 0, retention |-> 1, size |-> 2]}
MCSupplied == {[delay |-> Unset, retention |-> 2, size |-> 1]}
MCDelays == {Unset}
MCSymmetry ==
    Permutations(Clients) \cup Permutations(Names) \cup Permutations(Urls)
=============================================================================
