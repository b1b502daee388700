------------------------------ MODULE MCCache ------------------------------
(* Instances of CacheDatabase for TLC. *)
EXTENDS CacheDatabase, TLC

CONSTANTS k1, k2, v1, v2, p1, p2

OneKey == {k1}
TwoKeys == {k1, k2}
OneValue == {v1}
TwoValues == {v1, v2}
TwoPlaces == {p1, p2}

Interchangeable ==
    Permutations(Keys) \cup Permutations(Values) \cup Permutations(Places)

CompactFaults == {"compact"}
AllFaults == {"data", "unlink", "binlog", "compact", "swap", "open"}
=============================================================================
