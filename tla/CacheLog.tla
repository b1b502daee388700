------------------------------ MODULE CacheLog ------------------------------
(***************************************************************************)
(* The records of the cache's binlog (storage_cache_types.h) and what      *)
(* reading them from the first to the last yields.  A record is a function *)
(* on the keys it names: a Store or MultiStore gives each of them an entry *)
(* (the place of the data file and the checksum of its content), a         *)
(* MultiRemove gives each of them None.  The checksum is the value itself: *)
(* collisions of the 32-bit xxHash are left out.  MultiAccess records only *)
(* carry the times that pruning looks at and are left out with them.       *)
(***************************************************************************)
EXTENDS Integers, Sequences, FiniteSets

CONSTANTS Keys, Values, Places, None

Entry == [place : Places, sum : Values]

Slot == Entry \cup {None}
Record == UNION {[S -> Slot] : S \in SUBSET Keys}

\* A key has 128 bits: there are finitely many.
ASSUME LogAssumption ==
    /\ None \notin Values /\ None \notin Entry /\ None \notin Seq(Record)
    /\ IsFiniteSet(Keys)

Store(k, e) == [key \in {k} |-> e]
MultiRemove(S) == [k \in S |-> None]
IsRemove(r) == \A k \in DOMAIN r : r[k] = None

\* The entry the log gives k: that of the last record that names k.
Touching(log, k) == {i \in DOMAIN log : k \in DOMAIN log[i]}
LastTouching(log, k) ==
    CHOOSE i \in Touching(log, k) : \A j \in Touching(log, k) : j <= i
EntryOf(log, k) ==
    IF Touching(log, k) = {} THEN None ELSE log[LastTouching(log, k)][k]

\* readBinlog: the map after the whole log is processed.
Replay(log) == [k \in Keys |-> EntryOf(log, k)]

\* The stores of a log, one for each key of each record, and its removes.
Stores(log) ==
    {s \in (DOMAIN log) \X Keys :
        s[2] \in DOMAIN log[s[1]] /\ log[s[1]][s[2]] # None}
Removes(log) == {i \in DOMAIN log : IsRemove(log[i])}

\* The records that hold no entry of the map m any more.
Garbage(log, m) ==
    Cardinality(Stores(log)) + Cardinality(Removes(log))
        - Cardinality({k \in Keys : m[k] # None})

\* _binlogExcessLength in records, as reading the log counts it: every
\* remove, and every store of a key that has an entry when it is read.
ReplayExcess(log) ==
    Cardinality(Removes(log))
        + Cardinality({s \in Stores(log) :
                          EntryOf(SubSeq(log, 1, s[1] - 1), s[2]) # None})
=============================================================================
