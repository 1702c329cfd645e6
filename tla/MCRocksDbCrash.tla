--------------------------- MODULE MCRocksDbCrash ---------------------------
(* Two writers: retries, groups of acknowledgements and a crash. *)
EXTENDS RocksDb

CONSTANTS c1, c2, k1, s1

MCRequests == {c1, c2}
MCReaders == {}
MCKeys == {k1}
MCValues == {1}
MCSlots == {s1}
MCWork == [c \in MCRequests |-> 1]
=============================================================================
