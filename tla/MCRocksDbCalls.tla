--------------------------- MODULE MCRocksDbCalls ---------------------------
(* A writer with two calls at a time, and a reader. *)
EXTENDS RocksDb

CONSTANTS c1, r1, k1, k2, s1, s2

MCRequests == {c1, r1}
MCReaders == {r1}
MCKeys == {k1, k2}
MCValues == {1}
MCSlots == {s1, s2}
MCWork == [c \in MCRequests |-> IF c = c1 THEN 3 ELSE 2]

Symmetry == Permutations(MCKeys) \cup Permutations(MCSlots)
=============================================================================
