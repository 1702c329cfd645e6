---------------------------- MODULE MCGsiBackfill ----------------------------
(***************************************************************************)
(* A table of two items, scanned one at a time.  The first moves between   *)
(* two index keys, is deleted and written again.  Either an index was      *)
(* created and deleted before, and the second one meets a stream that is   *)
(* enabled, disabled, cleaned up and trimmed; or two indexes have just     *)
(* been created, each with its own capture, and are built side by side.    *)
(***************************************************************************)
EXTENDS GsiBackfill

MCKeys == {"k1", "k2"}
MCVals == {"v", "w"}
MCImages == [key : MCKeys, val : {"v"}] \cup [key : {"k1"}, val : {"w"}]
MCMaxVersion == [i \in Items |-> IF i = 1 THEN 3 ELSE 1]

Scanning == [phase |-> "scanning", cursor |-> 0, bound |-> 0]

MCInit ==
    /\ base = [i \in Items |-> [rev |-> 1, img |-> [key |-> IF i = 1 THEN "k1" ELSE "k2",
                                                    val |-> "v"]]]
    /\ log = <<>>
    /\ history = [i \in Items |-> [v \in Versions |-> NoEntry]]
    /\ rows = [x \in Indexes |-> [i \in Items |-> [k \in Keys |-> NoRow]]]
    /\ \/ /\ created = 1 /\ updates = 0
          /\ builds = [x \in Indexes |-> NoBuild]
          /\ stream = [public |-> FALSE, updating |-> FALSE, capture |-> {}]
       \/ /\ created = 2 /\ updates = MaxUpdates
          /\ builds = [x \in Indexes |-> Scanning]
          /\ stream = [public |-> FALSE, updating |-> FALSE, capture |-> Indexes]
    /\ pending = NoInitialization
    /\ frontier = [retired |-> 0, cleaned |-> 0, sweep |-> NoSweep]
    /\ trimmed = 0 /\ turn = 0

MCSpec == MCInit /\ [][Next]_vars /\ Fairness
=============================================================================
