------------------------ MODULE CacheDatabaseProofs ------------------------
(***************************************************************************)
(* Proofs about the cache database, for every set of keys, values and      *)
(* places and every size of a bundle.  A task is built from functions of   *)
(* the state it has reached, so there is a lemma for each of these         *)
(* functions.  Good says of such a state what the tasks keep of the lists  *)
(* of removals, Sound what they keep of binlog and map, InStep how far a   *)
(* compactor has come, Gone that what the binlog still says of a removed   *)
(* key is deleted.  The invariants RInv, LInv, GInv and FInv each add to   *)
(* the one before; the last gives the refinement of LossyCache.            *)
(***************************************************************************)
EXTENDS CacheDatabase, FiniteSetTheorems, SequenceTheorems,
        WellFoundedInduction, TLAPS

Fields == {"map", "removing", "stale", "fresh", "armed", "excess", "handle",
           "binlog", "files"}

Shape(d) == Fields \subseteq DOMAIN d /\ DOMAIN d.map = Keys

\* The bundle of removals.
Waits(d) ==
    /\ d.removing \subseteq Keys
    /\ IsFiniteSet(d.removing) /\ Cardinality(d.removing) < MaxBundled
    /\ d.removing # {} => d.armed
    /\ \A k \in d.removing : d.map[k] = None

\* The list of what is removed because it is stale; fresh only counts what
\* was stored while there is one.
Spares(d) ==
    /\ d.stale \subseteq Keys /\ d.stale \cap d.fresh = {}
    /\ d.stale = {} => d.fresh = {}

Good(d) == Shape(d) /\ Waits(d) /\ Spares(d)

\* A database that is not open has nothing in memory.
RInv == Good(db) /\ (~isOpen => db.removing = {})

-----------------------------------------------------------------------------
(* The functions tasks are built from. *)

LEMMA NoneWaits ==
    ASSUME NEW d, d.removing = {}
    PROVE  Waits(d)
<1>1. Cardinality({}) = 0 /\ IsFiniteSet({})  BY FS_EmptySet
<1>2. MaxBundled \in Nat \ {0}  BY DatabaseAssumption DEF DatabaseAssumption
<1> QED  BY <1>1, <1>2 DEF Waits

\* A step that leaves the map, the bundle and the lists as they are.
LEMMA QuietKeeps ==
    ASSUME NEW d, NEW e, Good(d), Shape(e), e.map = d.map, e.removing = d.removing,
           e.stale = d.stale, e.fresh = d.fresh, d.armed => e.armed
    PROVE  Good(e)
BY DEF Good, Waits, Spares

LEMMA WriteMultiRemoveResult ==
    ASSUME NEW d, Shape(d), NEW ok, NEW e, e = WriteMultiRemove(d, ok)
    PROVE  /\ Shape(e) /\ e.removing = {} /\ e.map = d.map
           /\ e.stale = d.stale /\ e.fresh = d.fresh
<1>1. CASE d.removing = {}  BY <1>1 DEF WriteMultiRemove
<1>2. CASE d.removing # {} /\ ok
  <2>1. e = [d EXCEPT !.removing = {},
                      !.binlog = Append(@, MultiRemove(d.removing)),
                      !.excess = @ + 1]
    BY <1>2 DEF WriteMultiRemove
  <2> QED  BY <2>1 DEF Shape, Fields
<1>3. CASE d.removing # {} /\ ~ok
  <2>1. e = [d EXCEPT !.removing = {}, !.handle = FALSE]
    BY <1>3 DEF WriteMultiRemove
  <2> QED  BY <2>1 DEF Shape, Fields
<1> QED  BY <1>1, <1>2, <1>3

\* The bundles are written.
LEMMA WriteKeeps ==
    ASSUME NEW d, Good(d), NEW ok, NEW e, e = WriteMultiRemove(d, ok)
    PROVE  Good(e) /\ e.removing = {}
<1>1. /\ Shape(e) /\ e.removing = {} /\ e.map = d.map
      /\ e.stale = d.stale /\ e.fresh = d.fresh
  BY WriteMultiRemoveResult DEF Good
<1>2. Waits(e)  BY <1>1, NoneWaits
<1> QED  BY <1>1, <1>2 DEF Good, Spares

\* remove: the bundle is written as soon as it is full.
LEMMA RemoveKeeps ==
    ASSUME NEW d, Good(d), NEW k \in Keys, NEW ok, NEW unlinked,
           NEW z, z = RemoveEntry(d, k, ok, unlinked)
    PROVE  Good(z) /\ z.stale = d.stale /\ z.fresh = d.fresh
<1>1. CASE d.map[k] = None  BY <1>1 DEF RemoveEntry
<1>2. CASE d.map[k] # None
  <2> DEFINE x == [d EXCEPT !.removing = @ \cup {k}]
             y == WriteMultiRemoveLazy(x, ok)
  <2>1. z = [y EXCEPT !.map[k] = None,
                      !.files[d.map[k].place] = IF unlinked THEN None ELSE @]
    BY <1>2 DEF RemoveEntry
  <2>2. /\ Shape(x) /\ x.removing = d.removing \cup {k} /\ x.map = d.map
        /\ x.stale = d.stale /\ x.fresh = d.fresh
    BY DEF Good, Shape, Fields
  <2>3. /\ IsFiniteSet(x.removing)
        /\ Cardinality(x.removing) = Cardinality(d.removing) + 1
        /\ Cardinality(d.removing) \in Nat /\ MaxBundled \in Nat
        /\ Cardinality(d.removing) < MaxBundled
    <3>1. k \notin d.removing /\ IsFiniteSet(d.removing)
          /\ Cardinality(d.removing) < MaxBundled
      BY <1>2 DEF Good, Waits
    <3>2. Cardinality(d.removing) \in Nat  BY <3>1, FS_CardinalityType
    <3>3. /\ IsFiniteSet(d.removing \cup {k})
          /\ Cardinality(d.removing \cup {k}) = Cardinality(d.removing) + 1
      BY <3>1, FS_AddElement
    <3>4. MaxBundled \in Nat  BY DatabaseAssumption DEF DatabaseAssumption
    <3>5. x.removing = d.removing \cup {k}  BY <2>2
    <3> HIDE DEF x
    <3> QED  BY <3>1, <3>2, <3>3, <3>4, <3>5
  <2> HIDE DEF x
  <2>4. /\ Shape(y) /\ y.map = d.map /\ y.stale = d.stale /\ y.fresh = d.fresh
        /\ \/ y.removing = {}
           \/ /\ y.removing = d.removing \cup {k} /\ y.armed
              /\ Cardinality(y.removing) < MaxBundled /\ IsFiniteSet(y.removing)
    <3>1. CASE Cardinality(x.removing) = MaxBundled
      <4>1. y = WriteMultiRemove(x, ok)  BY <3>1 DEF WriteMultiRemoveLazy
      <4> HIDE DEF y
      <4> QED  BY <2>2, <4>1, WriteMultiRemoveResult
    <3>2. CASE Cardinality(x.removing) # MaxBundled
      <4>1. y = [x EXCEPT !.armed = TRUE]  BY <3>2 DEF WriteMultiRemoveLazy
      <4> HIDE DEF y
      <4>2. /\ Shape(y) /\ y.map = x.map /\ y.stale = x.stale /\ y.fresh = x.fresh
            /\ y.removing = x.removing /\ y.armed
        BY <2>2, <4>1 DEF Shape, Fields
      <4>3. Cardinality(x.removing) < MaxBundled  BY <2>3, <3>2
      <4> QED  BY <2>2, <2>3, <4>2, <4>3
    <3> QED  BY <3>1, <3>2
  <2> HIDE DEF y
  <2>5. /\ Shape(z) /\ z.removing = y.removing
        /\ z.stale = y.stale /\ z.fresh = y.fresh /\ z.armed = y.armed
        /\ z.map = [y.map EXCEPT ![k] = None]
    BY <2>1, <2>4 DEF Shape, Fields
  <2>6. Waits(z)
    <3>1. CASE y.removing = {}  BY <2>5, <3>1, NoneWaits
    <3>2. CASE y.removing # {}
      <4>1. y.removing = d.removing \cup {k}  BY <2>4, <3>2
      <4>2. \A j \in d.removing : d.map[j] = None  BY DEF Good, Waits
      <4>3. \A j \in z.removing : z.map[j] = None
        <5> SUFFICES ASSUME NEW j \in z.removing  PROVE z.map[j] = None
          OBVIOUS
        <5>1. DOMAIN y.map = Keys  BY <2>4 DEF Shape
        <5>2. CASE j = k  BY <2>5, <5>1, <5>2
        <5>3. CASE j # k
          <6>1. y.map[j] = None  BY <2>4, <2>5, <4>1, <4>2, <5>3
          <6>2. j \in Keys  BY <2>5, <4>1 DEF Good, Waits
          <6> QED  BY <2>5, <5>1, <5>3, <6>1, <6>2
        <5> QED  BY <5>2, <5>3
      <4>4. z.removing \subseteq Keys  BY <2>5, <4>1 DEF Good, Waits
      <4> QED  BY <2>4, <2>5, <3>2, <4>3, <4>4 DEF Waits
    <3> QED  BY <3>1, <3>2
  <2> QED  BY <2>4, <2>5, <2>6 DEF Good, Spares
<1> QED  BY <1>1, <1>2

LEMMA RescueKeeps ==
    ASSUME NEW d, Good(d), NEW k \in Keys, NEW r, r = Rescue(d, k)
    PROVE  Good(r) /\ k \notin r.removing /\ k \notin r.stale /\ r.map = d.map
           /\ r.removing \subseteq d.removing
<1>1. /\ Shape(r) /\ r.removing = d.removing \ {k} /\ r.stale = d.stale \ {k}
      /\ r.fresh = IF d.stale \subseteq {k} THEN {} ELSE d.fresh
      /\ r.map = d.map /\ r.armed = d.armed
  BY DEF Rescue, Good, Shape, Fields
<1>2. Waits(r)
  <2>1. /\ IsFiniteSet(d.removing) /\ Cardinality(d.removing) < MaxBundled
        /\ d.removing # {} => d.armed /\ d.removing \subseteq Keys
        /\ \A j \in d.removing : d.map[j] = None
    BY DEF Good, Waits
  <2>2. r.removing \in SUBSET d.removing  BY <1>1
  <2>3. IsFiniteSet(r.removing) /\ Cardinality(r.removing) <= Cardinality(d.removing)
    BY <2>1, <2>2, FS_Subset
  <2>4. Cardinality(r.removing) < MaxBundled
    <3>1. Cardinality(d.removing) \in Nat /\ Cardinality(r.removing) \in Nat
      BY <2>1, <2>3, FS_CardinalityType
    <3>2. MaxBundled \in Nat  BY DatabaseAssumption DEF DatabaseAssumption
    <3> QED  BY <2>1, <2>3, <3>1, <3>2
  <2>5. r.removing # {} => d.removing # {}  BY <2>2
  <2> QED  BY <1>1, <2>1, <2>2, <2>3, <2>4, <2>5 DEF Waits
<1>3. Spares(r)  BY <1>1 DEF Good, Spares
<1> QED  BY <1>1, <1>2, <1>3 DEF Good

\* A key that is stored must not be on its way out.
LEMMA StoreKeeps ==
    ASSUME NEW d, Good(d), NEW k \in Keys, k \notin d.removing, k \notin d.stale,
           NEW e, NEW z, z = WriteStore(d, k, e)
    PROVE  Good(z)
<1>1. /\ Shape(z) /\ z.removing = d.removing /\ z.stale = d.stale
      /\ z.fresh = IF d.stale = {} THEN d.fresh ELSE d.fresh \cup {k}
      /\ z.armed = d.armed /\ z.map = [d.map EXCEPT ![k] = e]
  BY DEF WriteStore, Good, Shape, Fields
<1>2. \A j \in d.removing : z.map[j] = None
  <2> SUFFICES ASSUME NEW j \in d.removing  PROVE z.map[j] = None  OBVIOUS
  <2>1. DOMAIN d.map = Keys /\ d.map[j] = None /\ j # k
    BY DEF Good, Shape, Waits
  <2>2. j \in Keys  BY DEF Good, Waits
  <2> QED  BY <1>1, <2>1, <2>2
<1>3. Waits(z)  BY <1>1, <1>2 DEF Good, Waits
<1> QED  BY <1>1, <1>3 DEF Good, Spares

\* Without its memory.
LEMMA ClearKeeps ==
    ASSUME NEW d, Shape(d), NEW e, e = ClearState(d)
    PROVE  Good(e) /\ e.removing = {}
<1>1. /\ e.map = Nothing /\ e.removing = {} /\ e.stale = {} /\ e.fresh = {}
      /\ Fields \subseteq DOMAIN e
  BY DEF ClearState, Shape, Fields
<1>2. Shape(e)  BY <1>1 DEF Shape, Nothing
<1>3. Waits(e)  BY <1>1, NoneWaits
<1> QED  BY <1>1, <1>2, <1>3 DEF Good, Spares

LEMMA EmptyIsGood ==
    ASSUME NEW b, NEW e, e = [EmptyVersion EXCEPT !.handle = b]
    PROVE  /\ Good(e) /\ e.removing = {}
           /\ Good(EmptyVersion) /\ EmptyVersion.removing = {}
<1>1. /\ EmptyVersion.map = Nothing /\ EmptyVersion.removing = {}
      /\ EmptyVersion.stale = {} /\ EmptyVersion.fresh = {}
      /\ Fields \subseteq DOMAIN EmptyVersion
  BY DEF EmptyVersion, Fields
<1>2. /\ e.map = Nothing /\ e.removing = {} /\ e.stale = {} /\ e.fresh = {}
      /\ Fields \subseteq DOMAIN e
  BY <1>1 DEF Fields
<1>3. DOMAIN Nothing = Keys  BY DEF Nothing
<1>4. Waits(e) /\ Waits(EmptyVersion)  BY <1>1, <1>2, NoneWaits
<1> QED  BY <1>1, <1>2, <1>3, <1>4 DEF Good, Shape, Spares

LEMMA ReadKeeps ==
    ASSUME NEW d, Good(d), d.removing = {}, NEW e, e = ReadBinlog(d)
    PROVE  Good(e)
<1>1. /\ e.map = Replay(d.binlog) /\ e.removing = {} /\ e.stale = d.stale
      /\ e.fresh = d.fresh /\ Fields \subseteq DOMAIN e
  BY DEF ReadBinlog, Good, Shape, Fields
<1>2. Shape(e)  BY <1>1 DEF Shape, Replay
<1>3. Waits(e)  BY <1>1, NoneWaits
<1> QED  BY <1>1, <1>2, <1>3 DEF Good, Spares

-----------------------------------------------------------------------------
(* The tasks. *)

LEMMA PutKeeps ==
    ASSUME NEW c, NEW d, Good(d), NEW k \in Keys, NEW v, PutFrom(c, d, k, v)
    PROVE  Good(db')
<1> DEFINE r == Rescue(d, k)
<1>1. Good(r) /\ k \notin r.removing /\ k \notin r.stale  BY RescueKeeps
<1>2. \/ db' = [r EXCEPT !.armed = TRUE]
      \/ db' = [r EXCEPT !.handle = FALSE, !.armed = TRUE]
      \/ \E p \in PlacesFor(r, k) :
            LET e == WriteStore(r, k, [place |-> p, sum |-> v])
            IN  \/ db' = [e EXCEPT !.files[p] = v]
                \/ \E ok \in BinlogWrites(e), unlinked \in Succeeds("unlink"),
                      left \in {e.files[p], Torn} :
                      db' = RemoveEntry([e EXCEPT !.files[p] = left], k, ok, unlinked)
  BY DEF PutFrom
<1> HIDE DEF r
<1>3. ASSUME \/ db' = [r EXCEPT !.armed = TRUE]
             \/ db' = [r EXCEPT !.handle = FALSE, !.armed = TRUE]
      PROVE  Good(db')
  <2>1. /\ Shape(db') /\ db'.map = r.map /\ db'.removing = r.removing
        /\ db'.stale = r.stale /\ db'.fresh = r.fresh /\ db'.armed
    BY <1>1, <1>3 DEF Good, Shape, Fields
  <2> QED  BY <1>1, <2>1, QuietKeeps
<1>4. ASSUME NEW p \in PlacesFor(r, k), NEW e, Good(e), NEW left, NEW f,
             f = [e EXCEPT !.files[p] = left]
      PROVE  Good(f)
  <2>1. /\ Shape(f) /\ f.map = e.map /\ f.removing = e.removing
        /\ f.stale = e.stale /\ f.fresh = e.fresh /\ f.armed = e.armed
    BY <1>4 DEF Good, Shape, Fields
  <2> QED  BY <1>4, <2>1, QuietKeeps
<1>5. ASSUME NEW p \in PlacesFor(r, k), NEW e, e = WriteStore(r, k, [place |-> p, sum |-> v]),
             \/ db' = [e EXCEPT !.files[p] = v]
             \/ \E ok \in BinlogWrites(e), unlinked \in Succeeds("unlink"),
                   left \in {e.files[p], Torn} :
                   db' = RemoveEntry([e EXCEPT !.files[p] = left], k, ok, unlinked)
      PROVE  Good(db')
  <2>1. Good(e)  BY <1>1, <1>5, StoreKeeps
  <2>2. CASE db' = [e EXCEPT !.files[p] = v]  BY <1>4, <2>1, <2>2
  <2>3. ASSUME NEW ok, NEW unlinked, NEW left,
               db' = RemoveEntry([e EXCEPT !.files[p] = left], k, ok, unlinked)
        PROVE  Good(db')
    <3> DEFINE f == [e EXCEPT !.files[p] = left]
    <3>1. Good(f)  BY <1>4, <2>1
    <3>2. db' = RemoveEntry(f, k, ok, unlinked)  BY <2>3
    <3> HIDE DEF f
    <3> QED  BY <3>1, <3>2, RemoveKeeps
  <2>4. CASE \E ok \in BinlogWrites(e), unlinked \in Succeeds("unlink"),
                left \in {e.files[p], Torn} :
                db' = RemoveEntry([e EXCEPT !.files[p] = left], k, ok, unlinked)
    <3>1. PICK ok \in BinlogWrites(e), unlinked \in Succeeds("unlink"),
               left \in {e.files[p], Torn} :
               db' = RemoveEntry([e EXCEPT !.files[p] = left], k, ok, unlinked)
      BY <2>4
    <3> QED  BY <2>3, <3>1
  <2> QED  BY <1>5, <2>2, <2>4
<1> QED  BY <1>2, <1>3, <1>5

\* clearStaleChunk; the list is forgotten with its last key.
LEMMA StaleChunkKeeps ==
    ASSUME NEW d, Good(d), StaleChunk(d)
    PROVE  Good(db')
<1>1. PICK k \in d.stale, ok \in BinlogWrites(d), unlinked \in Succeeds("unlink") :
        LET e == [RemoveEntry(d, k, ok, unlinked) EXCEPT !.stale = @ \ {k}]
        IN  IF e.stale = {} THEN db' = [e EXCEPT !.fresh = {}] ELSE db' = e
  BY DEF StaleChunk
<1> DEFINE z == RemoveEntry(d, k, ok, unlinked)
           e == [z EXCEPT !.stale = @ \ {k}]
<1>2. k \in Keys  BY DEF Good, Spares
<1>3. Good(z)  BY <1>2, RemoveKeeps
<1>4. IF e.stale = {} THEN db' = [e EXCEPT !.fresh = {}] ELSE db' = e
  BY <1>1
<1> HIDE DEF z
<1>5. /\ Shape(e) /\ e.stale = z.stale \ {k} /\ e.fresh = z.fresh /\ e.map = z.map
      /\ e.removing = z.removing /\ e.armed = z.armed
  BY <1>3 DEF Good, Shape, Fields
<1> HIDE DEF e
<1>6. /\ Shape(db') /\ db'.stale = e.stale /\ db'.map = e.map
      /\ db'.removing = e.removing /\ db'.armed = e.armed
      /\ db'.fresh = IF e.stale = {} THEN {} ELSE e.fresh
  <2>1. CASE e.stale = {}  BY <1>4, <1>5, <2>1 DEF Shape, Fields
  <2>2. CASE e.stale # {}  BY <1>4, <1>5, <2>2
  <2> QED  BY <2>1, <2>2
<1>7. Waits(db')  BY <1>3, <1>5, <1>6 DEF Good, Waits
<1>8. Spares(db')  BY <1>3, <1>5, <1>6 DEF Good, Spares
<1> QED  BY <1>6, <1>7, <1>8 DEF Good

\* Stale entries are chosen while none are being removed.
LEMMA StartStaleKeeps ==
    ASSUME Good(db), db.stale = {}, NEW S \in SUBSET Keys,
           StaleChunk([db EXCEPT !.stale = S])
    PROVE  Good(db')
<1> DEFINE d == [db EXCEPT !.stale = S]
<1>1. /\ Shape(d) /\ d.stale = S /\ d.fresh = db.fresh /\ d.map = db.map
      /\ d.removing = db.removing /\ d.armed = db.armed
  BY DEF Good, Shape, Fields
<1>2. StaleChunk(d)  OBVIOUS
<1> HIDE DEF d
<1>3. Waits(d) /\ Spares(d)  BY <1>1 DEF Good, Waits, Spares
<1>4. Good(d)  BY <1>1, <1>3 DEF Good
<1> QED  BY <1>2, <1>4, StaleChunkKeeps

LEMMA MoveAwayKeeps ==
    ASSUME NEW d, Good(d), NEW from \in Keys, NEW ok,
           NEW e, e = MoveAway(d, from, ok)
    PROVE  Good(e) /\ e.removing = {}
<1> DEFINE x == [d EXCEPT !.removing = @ \cup {from}, !.map[from] = None]
<1>1. e = WriteMultiRemove(x, ok)  BY DEF MoveAway
<1>2. /\ Shape(x) /\ x.stale = d.stale /\ x.fresh = d.fresh
  BY DEF Good, Shape, Fields
<1> HIDE DEF x
<1>3. /\ Shape(e) /\ e.removing = {} /\ e.stale = x.stale /\ e.fresh = x.fresh
  BY <1>1, <1>2, WriteMultiRemoveResult
<1>4. Waits(e)  BY <1>3, NoneWaits
<1> QED  BY <1>2, <1>3, <1>4 DEF Good, Spares

LEMMA ClosedKeeps ==
    ASSUME NEW d, Good(d), NEW ok, NEW e, e = Closed(d, ok)
    PROVE  Good(e) /\ e.removing = {}
<1> DEFINE x == IF d.handle THEN WriteMultiRemove(d, ok) ELSE d
<1>1. e = ClearState(x)  BY DEF Closed
<1>2. Shape(x)
  <2>1. Shape(WriteMultiRemove(d, ok))  BY WriteMultiRemoveResult DEF Good
  <2> QED  BY <2>1 DEF Good
<1> HIDE DEF x
<1> QED  BY <1>1, <1>2, ClearKeeps

LEMMA OpenKeeps ==
    ASSUME RInv, Open
    PROVE  RInv'
<1>1. Good(db) /\ db.removing = {}  BY DEF RInv, Open
<1>2. isOpen'  BY DEF Open
<1>3. CASE db' = ReadBinlog([db EXCEPT !.binlog = DiskLog])
  <2> DEFINE d == [db EXCEPT !.binlog = DiskLog]
  <2>1. /\ Shape(d) /\ d.stale = db.stale /\ d.fresh = db.fresh /\ d.map = db.map
        /\ d.removing = db.removing /\ d.armed = db.armed
    BY <1>1 DEF Good, Shape, Fields
  <2>2. db' = ReadBinlog(d)  BY <1>3
  <2> HIDE DEF d
  <2>3. Good(d)  BY <1>1, <2>1, QuietKeeps
  <2> QED  BY <1>1, <1>2, <2>1, <2>2, <2>3, ReadKeeps DEF RInv
<1>4. CASE db' = ReadBinlog(EmptyVersion)
  <2>1. Good(EmptyVersion) /\ EmptyVersion.removing = {}  BY EmptyIsGood
  <2> QED  BY <1>2, <1>4, <2>1, ReadKeeps DEF RInv
<1> QED  BY <1>3, <1>4 DEF Open

LEMMA CallersKeep ==
    ASSUME RInv, Callers
    PROVE  RInv'
<1>1. Good(db)  BY DEF RInv
<1>2. ASSUME NEW k \in Keys, NEW v \in Values, Put(k, v) \/ PutIfEmpty(k, v)
      PROVE  RInv'
  <2>1. Asked /\ PutFrom(comp, db, k, v)  BY <1>2 DEF Put, PutIfEmpty
  <2>2. Good(db')  BY <1>1, <2>1, PutKeeps
  <2> QED  BY <2>1, <2>2 DEF RInv, Asked
<1>3. ASSUME NEW k \in Keys, Get(k) \/ Remove(k)  PROVE RInv'
  <2>1. isOpen' = isOpen /\ isOpen  BY <1>3 DEF Get, Remove, Asked
  <2>2. CASE GetReadable(k)
    <3>1. db' = [db EXCEPT !.armed = TRUE]  BY <2>2 DEF GetReadable
    <3>2. /\ Shape(db') /\ db'.map = db.map /\ db'.removing = db.removing
          /\ db'.stale = db.stale /\ db'.fresh = db.fresh /\ db'.armed
      BY <1>1, <3>1 DEF Good, Shape, Fields
    <3>3. Good(db')  BY <1>1, <3>2, QuietKeeps
    <3> QED  BY <2>1, <3>3 DEF RInv
  <2>3. CASE GetUnreadable(k) \/ Remove(k)
    <3>1. \E ok, unlinked : db' = RemoveEntry(db, k, ok, unlinked)
      BY <2>3 DEF GetUnreadable, Remove
    <3>2. Good(db')  BY <1>1, <3>1, RemoveKeeps
    <3> QED  BY <2>1, <3>2 DEF RInv
  <2> QED  BY <1>3, <2>2, <2>3 DEF Get
<1>4. ASSUME NEW from \in Keys, NEW to \in Keys, CopyIfEmpty(from, to)  PROVE RInv'
  <2>1. isOpen' = isOpen /\ isOpen  BY <1>4 DEF CopyIfEmpty, Asked
  <2>2. CASE GetUnreadable(from)
    <3>1. \E ok, unlinked : db' = RemoveEntry(db, from, ok, unlinked)
      BY <2>2 DEF GetUnreadable
    <3>2. Good(db')  BY <1>1, <3>1, RemoveKeeps
    <3> QED  BY <2>1, <3>2 DEF RInv
  <2>3. CASE ~GetUnreadable(from)
    <3> DEFINE d == [db EXCEPT !.armed = TRUE]
               v == Lookup(db.map, db.files, from)
    <3>1. \E c : PutFrom(c, d, to, v)  BY <1>4, <2>3 DEF CopyIfEmpty
    <3>2. /\ Shape(d) /\ d.map = db.map /\ d.removing = db.removing
          /\ d.stale = db.stale /\ d.fresh = db.fresh /\ d.armed
      BY <1>1 DEF Good, Shape, Fields
    <3> HIDE DEF d, v
    <3>3. Good(d)  BY <1>1, <3>2, QuietKeeps
    <3>4. Good(db')  BY <3>1, <3>3, PutKeeps
    <3> QED  BY <2>1, <3>4 DEF RInv
  <2> QED  BY <2>2, <2>3
<1>5. ASSUME NEW from \in Keys, NEW to \in Keys, MoveIfEmpty(from, to)  PROVE RInv'
  <2>1. isOpen' = isOpen /\ isOpen  BY <1>5 DEF MoveIfEmpty, Asked
  <2>2. CASE db' = MoveAway(db, from, FALSE)
    <3>1. Good(db')  BY <1>1, <2>2, MoveAwayKeeps
    <3> QED  BY <2>1, <3>1 DEF RInv
  <2>3. CASE db' # MoveAway(db, from, FALSE)
    <3> DEFINE a == MoveAway(db, from, TRUE)
               d == Rescue(a, to)
    <3>1. \/ db' = WriteStore(d, to, db.map[from])
          \/ db' = [d EXCEPT !.handle = FALSE]
      BY <1>5, <2>3 DEF MoveIfEmpty
    <3>2. Good(a)  BY <1>1, MoveAwayKeeps
    <3> HIDE DEF a
    <3>3. Good(d) /\ to \notin d.removing /\ to \notin d.stale
      BY <3>2, RescueKeeps
    <3> HIDE DEF d
    <3>4. CASE db' = WriteStore(d, to, db.map[from])
      <4>1. Good(db')  BY <3>3, <3>4, StoreKeeps
      <4> QED  BY <2>1, <4>1 DEF RInv
    <3>5. CASE db' = [d EXCEPT !.handle = FALSE]
      <4>1. /\ Shape(db') /\ db'.map = d.map /\ db'.removing = d.removing
            /\ db'.stale = d.stale /\ db'.fresh = d.fresh /\ db'.armed = d.armed
        BY <3>3, <3>5 DEF Good, Shape, Fields
      <4>2. Good(db')  BY <3>3, <4>1, QuietKeeps
      <4> QED  BY <2>1, <4>2 DEF RInv
    <3> QED  BY <3>1, <3>4, <3>5
  <2> QED  BY <2>2, <2>3
<1>6. ASSUME NEW S \in SUBSET Mapped, ClearByTag(S)  PROVE RInv'
  <2>1. /\ isOpen' = isOpen /\ isOpen /\ db.stale # {}
        /\ db' = [db EXCEPT !.stale = @ \cup S, !.fresh = @ \ S]
    BY <1>6 DEF ClearByTag, Asked
  <2>2. /\ Shape(db') /\ db'.map = db.map /\ db'.removing = db.removing
        /\ db'.armed = db.armed /\ db'.stale = db.stale \cup S
        /\ db'.fresh = db.fresh \ S
    BY <1>1, <2>1 DEF Good, Shape, Fields
  <2>3. S \subseteq Keys  BY DEF Mapped
  <2>4. Waits(db') /\ Spares(db')  BY <1>1, <2>1, <2>2, <2>3 DEF Good, Waits, Spares
  <2> QED  BY <2>1, <2>2, <2>4 DEF RInv, Good
<1>7. ASSUME NEW S \in SUBSET Mapped, ClearByTagFirst(S)  PROVE RInv'
  <2>1. /\ isOpen' = isOpen /\ isOpen /\ db.stale = {}
        /\ StaleChunk([db EXCEPT !.stale = S])
    BY <1>7 DEF ClearByTagFirst, Asked
  <2>2. S \in SUBSET Keys  BY DEF Mapped
  <2>3. Good(db')  BY <1>1, <2>1, <2>2, StartStaleKeeps
  <2> QED  BY <2>1, <2>3 DEF RInv
<1>8. CASE Open  BY <1>8, OpenKeeps
<1>9. CASE Close
  <2>1. \E ok : db' = Closed(db, ok)  BY <1>9 DEF Close
  <2> QED  BY <1>1, <2>1, ClosedKeeps DEF RInv
<1>10. CASE Clear
  <2>1. \/ db' = [EmptyVersion EXCEPT !.handle = isOpen]
        \/ \E ok : db' = Closed(db, ok)
    BY <1>10 DEF Clear
  <2>2. Good(db') /\ db'.removing = {}  BY <1>1, <2>1, ClosedKeeps, EmptyIsGood
  <2> QED  BY <2>2 DEF RInv
<1>11. CASE UpdateSettings
  BY <1>11 DEF UpdateSettings, Asked, RInv
<1> QED
  BY <1>2, <1>3, <1>4, <1>5, <1>6, <1>7, <1>8, <1>9, <1>10, <1>11 DEF Callers

LEMMA TimersKeep ==
    ASSUME RInv, Timers
    PROVE  RInv'
<1>1. Good(db)  BY DEF RInv
<1>2. CASE WriteBundles
  <2>1. /\ isOpen' = isOpen /\ isOpen
        /\ \E ok : db' = [WriteMultiRemove(db, ok) EXCEPT !.armed = FALSE]
    BY <1>2 DEF WriteBundles
  <2>2. PICK ok : db' = [WriteMultiRemove(db, ok) EXCEPT !.armed = FALSE]
    BY <2>1
  <2> DEFINE e == WriteMultiRemove(db, ok)
  <2>3. Good(e) /\ e.removing = {}  BY <1>1, WriteKeeps
  <2>4. db' = [e EXCEPT !.armed = FALSE]  BY <2>2
  <2> HIDE DEF e
  <2>5. /\ Shape(db') /\ db'.removing = {}
        /\ db'.stale = e.stale /\ db'.fresh = e.fresh
    BY <2>3, <2>4 DEF Good, Shape, Fields
  <2>6. Waits(db')  BY <2>5, NoneWaits
  <2> QED  BY <2>1, <2>3, <2>5, <2>6 DEF RInv, Good, Spares
<1>3. CASE ClearStaleChunk
  <2>1. isOpen' = isOpen /\ isOpen /\ StaleChunk(db)
    BY <1>3 DEF ClearStaleChunk
  <2>2. Good(db')  BY <1>1, <2>1, StaleChunkKeeps
  <2> QED  BY <2>1, <2>2 DEF RInv
<1>4. ASSUME NEW S \in SUBSET Mapped, Prune(S)  PROVE RInv'
  <2>1. /\ isOpen' = isOpen /\ isOpen /\ db.stale = {}
        /\ StaleChunk([db EXCEPT !.stale = S])
    BY <1>4 DEF Prune
  <2>2. S \in SUBSET Keys  BY DEF Mapped
  <2>3. Good(db')  BY <1>1, <2>1, <2>2, StartStaleKeeps
  <2> QED  BY <2>1, <2>3 DEF RInv
<1> QED  BY <1>2, <1>3, <1>4 DEF Timers

\* The compactor touches the binlog and its length, nothing of this.
LEMMA MessagesKeep ==
    ASSUME RInv, Compactor \/ Messages
    PROVE  RInv'
<1>1. isOpen' = isOpen
  BY DEF Compactor, Messages, CompactorStart, ProcessValues, Finalize, Fail,
         GetManyRaw, CompactorDone, CompactorFail, LateCompactorFail, compactorOnly
<1>2. Good(db)  BY DEF RInv
<1>3. CASE CompactorDone
  <2>1. \/ db' = [db EXCEPT !.binlog = Swapped, !.excess = @ - comp.excess]
        \/ db' = db
        \/ \E left : db' = [db EXCEPT !.binlog = left, !.handle = FALSE]
    BY <1>3 DEF CompactorDone
  <2>2. /\ Shape(db') /\ db'.map = db.map /\ db'.removing = db.removing
        /\ db'.stale = db.stale /\ db'.fresh = db.fresh /\ db'.armed = db.armed
    <3>1. CASE db' = [db EXCEPT !.binlog = Swapped, !.excess = @ - comp.excess]
      BY <1>2, <3>1 DEF Good, Shape, Fields
    <3>2. CASE db' = db  BY <1>2, <3>2 DEF Good
    <3>3. ASSUME NEW left, db' = [db EXCEPT !.binlog = left, !.handle = FALSE]
          PROVE  /\ Shape(db') /\ db'.map = db.map /\ db'.removing = db.removing
                 /\ db'.stale = db.stale /\ db'.fresh = db.fresh
                 /\ db'.armed = db.armed
      BY <1>2, <3>3 DEF Good, Shape, Fields
    <3> QED  BY <2>1, <3>1, <3>2, <3>3
  <2>3. Good(db')  BY <1>2, <2>2, QuietKeeps
  <2> QED  BY <1>1, <2>2, <2>3 DEF RInv
<1>4. CASE ~CompactorDone
  <2>1. db' = db
    BY <1>4 DEF Compactor, Messages, CompactorStart, ProcessValues, Finalize, Fail,
         GetManyRaw, CompactorFail, LateCompactorFail, compactorOnly
  <2> QED  BY <1>1, <2>1 DEF RInv
<1> QED  BY <1>3, <1>4

\* A crash leaves the files only.
LEMMA CrashesKeep ==
    ASSUME RInv, Crashes
    PROVE  RInv'
<1>1. Good(db) /\ Shape(db)  BY DEF RInv, Good
<1>2. ASSUME NEW d, Shape(d), Crashed(d)  PROVE RInv'
  <2>1. db' = ClearState(d)  BY <1>2 DEF Crashed
  <2>2. Good(db') /\ db'.removing = {}  BY <1>2, <2>1, ClearKeeps
  <2> QED  BY <2>2 DEF RInv
<1>3. CASE Crash  BY <1>1, <1>2, <1>3 DEF Crash
<1>4. ASSUME NEW k \in Keys, NEW v \in Values, CrashInPut(k, v)  PROVE RInv'
  <2> DEFINE r == Rescue(db, k)
  <2>1. PICK p \in PlacesFor(r, k) :
          \E left : Crashed([WriteStore(r, k, [place |-> p, sum |-> v])
                                EXCEPT !.files[p] = left])
    BY <1>4 DEF CrashInPut
  <2>2. Good(r) /\ k \notin r.removing /\ k \notin r.stale  BY <1>1, RescueKeeps
  <2> DEFINE e == WriteStore(r, k, [place |-> p, sum |-> v])
  <2>3. \E left : Crashed([e EXCEPT !.files[p] = left])  BY <2>1
  <2> HIDE DEF r
  <2>4. Good(e)  BY <2>2, StoreKeeps
  <2> HIDE DEF e
  <2>5. ASSUME NEW left  PROVE Shape([e EXCEPT !.files[p] = left])
    BY <2>4 DEF Good, Shape, Fields
  <2> QED  BY <1>2, <2>3, <2>5
<1>5. ASSUME NEW from \in Keys, NEW to \in Keys, CrashInMove(from, to)  PROVE RInv'
  <2> DEFINE e == MoveAway(db, from, TRUE)
  <2>1. Crashed(e)  BY <1>5 DEF CrashInMove
  <2>2. Good(e)  BY <1>1, MoveAwayKeeps
  <2> HIDE DEF e
  <2> QED  BY <1>2, <2>1, <2>2 DEF Good
<1>6. CASE CrashInSwap
  <2>1. PICK left \in {db.binlog, <<>>} : Crashed([db EXCEPT !.binlog = left])
    BY <1>6 DEF CrashInSwap
  <2>2. Shape([db EXCEPT !.binlog = left])  BY <1>1 DEF Shape, Fields
  <2> QED  BY <1>2, <2>1, <2>2
<1> QED  BY <1>3, <1>4, <1>5, <1>6 DEF Crashes

LEMMA NextKeeps == RInv /\ [Next]_vars => RInv'
<1> SUFFICES ASSUME RInv, [Next]_vars  PROVE RInv'  OBVIOUS
<1>1. CASE Callers  BY <1>1, CallersKeep
<1>2. CASE Timers  BY <1>2, TimersKeep
<1>3. CASE Compactor \/ Messages  BY <1>3, MessagesKeep
<1>4. CASE Crashes  BY <1>4, CrashesKeep
<1>5. CASE UNCHANGED vars  BY <1>5 DEF vars, RInv
<1> QED  BY <1>1, <1>2, <1>3, <1>4, <1>5 DEF Next

LEMMA InitIsGood == Init => RInv
BY EmptyIsGood DEF Init, RInv

THEOREM BundleInvariant == Spec => []RInv
<1> QED  BY InitIsGood, NextKeeps, PTL DEF Spec

\* The Expects of writeMultiRemove holds, a bundle that waits has its timer,
\* and no key that waits to be removed has an entry: writing the bundle never
\* undoes a put or a move, whatever failed before.
THEOREM RemovalsAlwaysWait == Spec => []RemovalsWait
<1>1. RInv => RemovalsWait  BY DEF RInv, Good, Waits, RemovalsWait
<1> QED  BY <1>1, BundleInvariant, PTL

\* clearStaleChunk and clearByTag never remove what was stored after the
\* stale entries were chosen.
THEOREM StoredSince == Spec => []NewEntriesSpared
<1>1. RInv => NewEntriesSpared  BY DEF RInv, Good, Spares, NewEntriesSpared
<1> QED  BY <1>1, BundleInvariant, PTL

IsLog(s) == s \in Seq(Record)

-----------------------------------------------------------------------------
(* What a log says of a key. *)

LEMMA Greatest ==
    ASSUME NEW n \in Nat, NEW S \in SUBSET (1 .. n), S # {}
    PROVE  \E m \in S : \A j \in S : j <= m
<1> DEFINE R == {p \in Nat \X Nat : p[1] < p[2]}
           T == {n - i : i \in S}
<1>1. OpToRel(<, Nat) = R  BY Zenon DEF OpToRel
<1>2. IsWellFoundedOn(R, Nat)  BY <1>1, NatLessThanWellFounded
<1>3. \A y, z \in Nat : y < z => <<y, z>> \in R  OBVIOUS
<1> HIDE DEF R
<1>4. T \subseteq Nat /\ T # {}
  <2>1. \A i \in S : n - i \in Nat  OBVIOUS
  <2>2. PICK i \in S : TRUE  OBVIOUS
  <2>3. n - i \in T  OBVIOUS
  <2> QED  BY <2>1, <2>3
<1> HIDE DEF T
<1>5. PICK x \in T : \A y \in T : ~(<<y, x>> \in R)  BY <1>2, <1>4, WFMin
<1> USE DEF T
<1>6. PICK m \in S : x = n - m  BY <1>5
<1>7. ASSUME NEW j \in S  PROVE j <= m
  <2>1. n - j \in T /\ n - j \in Nat /\ x \in Nat /\ m \in Int /\ j \in Int
    BY <1>4
  <2>2. ~(n - j < x)  BY <1>3, <1>5, <2>1
  <2> QED  BY <1>6, <2>1, <2>2
<1> QED  BY <1>7

\* A log put together of two.
IsJoin(u, s, t) ==
    /\ IsLog(u) /\ Len(u) = Len(s) + Len(t)
    /\ Len(s) \in Nat /\ Len(t) \in Nat
    /\ DOMAIN s = 1 .. Len(s) /\ DOMAIN t = 1 .. Len(t)
    /\ DOMAIN u = 1 .. Len(s) + Len(t)
    /\ \A i \in DOMAIN s : i \in DOMAIN u /\ u[i] = s[i]
    /\ \A i \in DOMAIN t : Len(s) + i \in DOMAIN u /\ u[Len(s) + i] = t[i]
    /\ \A i \in DOMAIN u : \/ i \in DOMAIN s
                           \/ i - Len(s) \in DOMAIN t /\ i > Len(s)

LEMMA Joined ==
    ASSUME NEW s, NEW t, IsLog(s), IsLog(t)
    PROVE  IsJoin(s \o t, s, t)
<1> DEFINE u == s \o t
<1> DEFINE Q == Record
<1>1. s \in Seq(Q) /\ t \in Seq(Q)  BY DEF IsLog
<1> HIDE DEF Q
<1>2. /\ u \in Seq(Q) /\ Len(u) = Len(s) + Len(t)
      /\ \A i \in 1 .. Len(s) + Len(t) :
            u[i] = IF i <= Len(s) THEN s[i] ELSE t[i - Len(s)]
  BY <1>1, ConcatProperties
<1>0. u = s \o t  OBVIOUS
<1> HIDE DEF u
<1>3. /\ Len(s) \in Nat /\ Len(t) \in Nat /\ DOMAIN s = 1 .. Len(s)
      /\ DOMAIN t = 1 .. Len(t) /\ DOMAIN u = 1 .. Len(u)
  BY <1>1, <1>2, LenProperties
<1>4. IsLog(u)  BY <1>2 DEF Q, IsLog
<1>5. \A i \in DOMAIN s : i \in DOMAIN u /\ u[i] = s[i]  BY <1>2, <1>3
<1>6. \A i \in DOMAIN t : Len(s) + i \in DOMAIN u /\ u[Len(s) + i] = t[i]
  BY <1>2, <1>3
<1>7. \A i \in DOMAIN u : \/ i \in DOMAIN s
                          \/ i - Len(s) \in DOMAIN t /\ i > Len(s)
  BY <1>2, <1>3
<1>8. IsJoin(u, s, t)  BY <1>2, <1>3, <1>4, <1>5, <1>6, <1>7 DEF IsJoin
<1> QED  BY <1>0, <1>8

LEMMA LastIs ==
    ASSUME NEW s, NEW k, NEW m \in Touching(s, k),
           \A j \in Touching(s, k) : j <= m, Touching(s, k) \subseteq Nat
    PROVE  LastTouching(s, k) = m /\ EntryOf(s, k) = s[m][k]
<1>1. \E i \in Touching(s, k) : \A j \in Touching(s, k) : j <= i  OBVIOUS
<1> DEFINE l == LastTouching(s, k)
<1>2. l \in Touching(s, k) /\ \A j \in Touching(s, k) : j <= l
  BY <1>1 DEF LastTouching
<1> HIDE DEF l
<1>3. l = m  BY <1>2
<1> QED  BY <1>3 DEF l, EntryOf

LEMMA LastExists ==
    ASSUME NEW s, IsLog(s), NEW k, Touching(s, k) # {}
    PROVE  /\ Touching(s, k) \subseteq Nat
           /\ LastTouching(s, k) \in Touching(s, k)
           /\ \A j \in Touching(s, k) : j <= LastTouching(s, k)
           /\ EntryOf(s, k) = s[LastTouching(s, k)][k]
<1>1. Len(s) \in Nat /\ DOMAIN s = 1 .. Len(s)
  BY LenProperties DEF IsLog
<1>2. Touching(s, k) \in SUBSET (1 .. Len(s))  BY <1>1 DEF Touching
<1>3. PICK m \in Touching(s, k) : \A j \in Touching(s, k) : j <= m
  BY <1>1, <1>2, Greatest
<1>4. Touching(s, k) \subseteq Nat  BY <1>2
<1> QED  BY <1>3, <1>4, LastIs

\* The later part of a log decides what it names.
LEMMA EntryOfJoined ==
    ASSUME NEW s, NEW t, IsLog(s), IsLog(t), NEW k
    PROVE  /\ Touching(s \o t, k) = {} <=>
                 Touching(s, k) = {} /\ Touching(t, k) = {}
           /\ EntryOf(s \o t, k) = IF Touching(t, k) = {} THEN EntryOf(s, k)
                                                       ELSE EntryOf(t, k)
<1> DEFINE u == s \o t
<1>0. u = s \o t  OBVIOUS
<1> HIDE DEF u
<1>10. IsJoin(u, s, t)  BY <1>0, Joined
<1>1. /\ IsLog(u) /\ Len(s) \in Nat /\ Len(t) \in Nat
      /\ DOMAIN s = 1 .. Len(s) /\ DOMAIN t = 1 .. Len(t)
      /\ DOMAIN u = 1 .. Len(s) + Len(t)
      /\ \A i \in DOMAIN s : i \in DOMAIN u /\ u[i] = s[i]
      /\ \A i \in DOMAIN t : Len(s) + i \in DOMAIN u /\ u[Len(s) + i] = t[i]
      /\ \A i \in DOMAIN u : \/ i \in DOMAIN s
                             \/ i - Len(s) \in DOMAIN t /\ i > Len(s)
  BY <1>10 DEF IsJoin
<1>2. \A i \in DOMAIN s : i \in Touching(u, k) <=> i \in Touching(s, k)
  BY <1>1 DEF Touching
<1>3. \A i \in DOMAIN t : Len(s) + i \in Touching(u, k) <=> i \in Touching(t, k)
  BY <1>1 DEF Touching
<1>4. \A i \in Touching(u, k) :
         \/ i \in Touching(s, k)
         \/ i - Len(s) \in Touching(t, k) /\ i > Len(s)
  <2> SUFFICES ASSUME NEW i \in Touching(u, k)
               PROVE  \/ i \in Touching(s, k)
                      \/ i - Len(s) \in Touching(t, k) /\ i > Len(s)
    OBVIOUS
  <2>1. i \in DOMAIN u  BY DEF Touching
  <2>2. CASE i \in DOMAIN s  BY <1>2, <2>2
  <2>3. CASE i - Len(s) \in DOMAIN t /\ i > Len(s)
    <3>1. Len(s) + (i - Len(s)) = i  BY <1>1, <2>1
    <3> QED  BY <1>3, <2>3, <3>1
  <2> QED  BY <1>1, <2>1, <2>2, <2>3
<1>5. Touching(u, k) = {} <=> Touching(s, k) = {} /\ Touching(t, k) = {}
  <2>1. \A i \in Touching(s, k) : i \in Touching(u, k)  BY <1>2 DEF Touching
  <2>2. \A i \in Touching(t, k) : Len(s) + i \in Touching(u, k)
    BY <1>3 DEF Touching
  <2> QED  BY <1>4, <2>1, <2>2
<1>6. Touching(u, k) \subseteq Nat  BY <1>1 DEF Touching
<1>7. CASE Touching(t, k) # {}
  <2> DEFINE m == LastTouching(t, k)
  <2>1. /\ Touching(t, k) \subseteq Nat /\ m \in Touching(t, k)
        /\ \A j \in Touching(t, k) : j <= m /\ EntryOf(t, k) = t[m][k]
    BY <1>7, LastExists
  <2> HIDE DEF m
  <2>2. m \in DOMAIN t  BY <2>1 DEF Touching
  <2>3. Len(s) + m \in Touching(u, k) /\ u[Len(s) + m] = t[m]
    BY <1>1, <1>3, <2>1, <2>2
  <2>4. \A j \in Touching(u, k) : j <= Len(s) + m
    <3> SUFFICES ASSUME NEW j \in Touching(u, k)  PROVE j <= Len(s) + m  OBVIOUS
    <3>1. j \in Nat /\ m \in Nat  BY <1>6, <2>1
    <3>2. CASE j \in Touching(s, k)
      <4>1. j <= Len(s)  BY <1>1, <3>2 DEF Touching
      <4> QED  BY <1>1, <3>1, <4>1
    <3>3. CASE j - Len(s) \in Touching(t, k)
      <4>1. j - Len(s) <= m  BY <2>1, <3>3
      <4> QED  BY <1>1, <3>1, <4>1
    <3> QED  BY <1>4, <3>2, <3>3
  <2>5. EntryOf(u, k) = u[Len(s) + m][k]  BY <1>6, <2>3, <2>4, LastIs
  <2> QED  BY <1>5, <1>7, <2>1, <2>3, <2>5 DEF u
<1>8. CASE Touching(t, k) = {} /\ Touching(s, k) # {}
  <2> DEFINE m == LastTouching(s, k)
  <2>1. /\ m \in Touching(s, k)
        /\ \A j \in Touching(s, k) : j <= m /\ EntryOf(s, k) = s[m][k]
    BY <1>8, LastExists
  <2> HIDE DEF m
  <2>2. m \in DOMAIN s  BY <2>1 DEF Touching
  <2>3. m \in Touching(u, k) /\ u[m] = s[m]  BY <1>1, <1>2, <2>1, <2>2
  <2>4. \A j \in Touching(u, k) : j <= m  BY <1>4, <1>8, <2>1
  <2>5. EntryOf(u, k) = u[m][k]  BY <1>6, <2>3, <2>4, LastIs
  <2> QED  BY <1>5, <1>8, <2>1, <2>3, <2>5 DEF u
<1>9. CASE Touching(t, k) = {} /\ Touching(s, k) = {}
  BY <1>5, <1>9 DEF EntryOf, u
<1> QED  BY <1>7, <1>8, <1>9

LEMMA EmptyLog ==
    ASSUME NEW k
    PROVE  IsLog(<<>>) /\ Touching(<<>>, k) = {} /\ EntryOf(<<>>, k) = None
BY EmptySeq DEF IsLog, Touching, EntryOf

LEMMA OneRecord ==
    ASSUME NEW r \in Record, NEW k
    PROVE  /\ IsLog(<<r>>)
           /\ Touching(<<r>>, k) = {} <=> k \notin DOMAIN r
           /\ EntryOf(<<r>>, k) = IF k \in DOMAIN r THEN r[k] ELSE None
<1> DEFINE Q == Record
<1>0. r \in Q  OBVIOUS
<1> HIDE DEF Q
<1>1. <<r>> \in Seq(Q) /\ DOMAIN <<r>> = {1} /\ <<r>>[1] = r  BY <1>0
<1>2. IsLog(<<r>>)  BY <1>1 DEF IsLog, Q
<1>3. Touching(<<r>>, k) = IF k \in DOMAIN r THEN {1} ELSE {}
  BY <1>1 DEF Touching
<1>4. CASE k \in DOMAIN r
  <2>1. EntryOf(<<r>>, k) = <<r>>[1][k]  BY <1>3, <1>4, LastIs
  <2> QED  BY <1>1, <1>2, <1>3, <1>4, <2>1
<1>5. CASE k \notin DOMAIN r  BY <1>2, <1>3, <1>5 DEF EntryOf
<1> QED  BY <1>4, <1>5

\* A record at the end of a log.
LEMMA Appended ==
    ASSUME NEW s, IsLog(s), NEW r \in Record, NEW k
    PROVE  /\ IsLog(Append(s, r)) /\ Append(s, r) = s \o <<r>>
           /\ Len(Append(s, r)) = Len(s) + 1
           /\ EntryOf(Append(s, r), k) =
                 IF k \in DOMAIN r THEN r[k] ELSE EntryOf(s, k)
<1> DEFINE Q == Record
<1>0. s \in Seq(Q) /\ r \in Q  BY DEF IsLog
<1> HIDE DEF Q
<1>1. /\ Append(s, r) \in Seq(Q) /\ Append(s, r) = s \o <<r>>
      /\ Len(Append(s, r)) = Len(s) + 1
  BY <1>0, AppendIsConcat, AppendProperties
<1>2. IsLog(Append(s, r))  BY <1>1 DEF IsLog, Q
<1>3. /\ IsLog(<<r>>)
      /\ Touching(<<r>>, k) = {} <=> k \notin DOMAIN r
      /\ EntryOf(<<r>>, k) = IF k \in DOMAIN r THEN r[k] ELSE None
  BY OneRecord
<1>4. EntryOf(s \o <<r>>, k) =
         IF Touching(<<r>>, k) = {} THEN EntryOf(s, k) ELSE EntryOf(<<r>>, k)
  BY <1>3, EntryOfJoined
<1> QED  BY <1>1, <1>2, <1>3, <1>4

LEMMA RecordsAre ==
    /\ \A k \in Keys : \A e \in Slot : /\ Store(k, e) \in Record
                                       /\ DOMAIN Store(k, e) = {k}
                                       /\ Store(k, e)[k] = e
    /\ \A S \in SUBSET Keys : /\ MultiRemove(S) \in Record
                              /\ DOMAIN MultiRemove(S) = S
                              /\ \A k \in S : MultiRemove(S)[k] = None
    /\ \A r \in Record : DOMAIN r \subseteq Keys
    /\ \A r \in Record : \A k \in DOMAIN r : r[k] \in Slot
<1>1. ASSUME NEW k \in Keys, NEW e \in Slot
      PROVE  Store(k, e) \in Record /\ DOMAIN Store(k, e) = {k} /\ Store(k, e)[k] = e
  <2>1. Store(k, e) \in [{k} -> Slot]  BY DEF Store
  <2> QED  BY <2>1 DEF Record, Store
<1>2. ASSUME NEW S \in SUBSET Keys
      PROVE  /\ MultiRemove(S) \in Record /\ DOMAIN MultiRemove(S) = S
             /\ \A k \in S : MultiRemove(S)[k] = None
  <2>1. MultiRemove(S) \in [S -> Slot]  BY DEF MultiRemove, Slot
  <2> QED  BY <2>1 DEF Record, MultiRemove
<1>3. ASSUME NEW r \in Record
      PROVE  DOMAIN r \subseteq Keys /\ \A k \in DOMAIN r : r[k] \in Slot
  <2>1. PICK S \in SUBSET Keys : r \in [S -> Slot]  BY DEF Record
  <2> QED  BY <2>1
<1> QED  BY <1>1, <1>2, <1>3

\* What a log says of a key it has stored.
LEMMA EntryIsNamed ==
    ASSUME NEW s, IsLog(s), NEW k \in Keys
    PROVE  /\ EntryOf(s, k) \in Slot
           /\ EntryOf(s, k) # None =>
                 /\ EntryOf(s, k) \in Entry /\ EntryOf(s, k).place \in Named(s)
                 /\ \E i \in DOMAIN s : <<i, k>> \in Stores(s)
<1>1. CASE Touching(s, k) = {}  BY <1>1 DEF EntryOf, Slot
<1>2. CASE Touching(s, k) # {}
  <2> DEFINE m == LastTouching(s, k)
  <2>1. m \in Touching(s, k) /\ EntryOf(s, k) = s[m][k]  BY <1>2, LastExists
  <2> HIDE DEF m
  <2>2. m \in DOMAIN s /\ k \in DOMAIN s[m]  BY <2>1 DEF Touching
  <2>3. s[m] \in Record
    <3>1. m \in 1 .. Len(s)  BY <2>2, LenProperties DEF IsLog
    <3> QED  BY <3>1, ElementOfSeq DEF IsLog
  <2>4. s[m][k] \in Slot  BY <2>2, <2>3, RecordsAre
  <2>5. ASSUME s[m][k] # None
        PROVE  <<m, k>> \in Stores(s) /\ s[m][k].place \in Named(s)
    <3>1. <<m, k>> \in Stores(s)  BY <2>2, <2>5 DEF Stores
    <3> QED  BY <3>1 DEF Named
  <2> QED  BY <2>1, <2>2, <2>4, <2>5 DEF Slot
<1> QED  BY <1>1, <1>2

-----------------------------------------------------------------------------
(* Counting records. *)

Weight(s) == Cardinality(Stores(s)) + Cardinality(Removes(s))

LEMMA CountsAreFinite ==
    ASSUME NEW s, IsLog(s)
    PROVE  /\ IsFiniteSet(Stores(s)) /\ IsFiniteSet(Removes(s))
           /\ Cardinality(Stores(s)) \in Nat /\ Cardinality(Removes(s)) \in Nat
           /\ Weight(s) \in Nat
<1>1. Len(s) \in Nat /\ DOMAIN s = 1 .. Len(s)
  BY LenProperties DEF IsLog
<1>2. IsFiniteSet(DOMAIN s)  BY <1>1, FS_Interval
<1>3. IsFiniteSet(Keys)  BY LogAssumption
<1>4. IsFiniteSet((DOMAIN s) \X Keys)  BY <1>2, <1>3, FS_Product
<1>5. Stores(s) \in SUBSET ((DOMAIN s) \X Keys)  BY DEF Stores
<1>6. Removes(s) \in SUBSET DOMAIN s  BY DEF Removes
<1>7. IsFiniteSet(Stores(s)) /\ IsFiniteSet(Removes(s))
  BY <1>2, <1>4, <1>5, <1>6, FS_Subset
<1>8. Cardinality(Stores(s)) \in Nat /\ Cardinality(Removes(s)) \in Nat
  BY <1>7, FS_CardinalityType
<1> QED  BY <1>7, <1>8 DEF Weight

LEMMA DisjointCounts ==
    ASSUME NEW A, NEW B, IsFiniteSet(A), IsFiniteSet(B), A \cap B = {}
    PROVE  Cardinality(A \cup B) = Cardinality(A) + Cardinality(B)
<1>1. Cardinality(A \cup B) =
         Cardinality(A) + Cardinality(B) - Cardinality(A \cap B)
  BY FS_Union
<1>2. Cardinality(A \cap B) = 0  BY FS_EmptySet
<1>3. Cardinality(A) \in Nat /\ Cardinality(B) \in Nat  BY FS_CardinalityType
<1> QED  BY <1>1, <1>2, <1>3

LEMMA SameCount ==
    ASSUME NEW A, NEW B, IsFiniteSet(A), NEW f \in [A -> B],
           \A x, y \in A : f[x] = f[y] => x = y,
           \A y \in B : \E x \in A : f[x] = y
    PROVE  IsFiniteSet(B) /\ Cardinality(B) = Cardinality(A)
<1>1. f \in Bijection(A, B)
  BY DEF Bijection, Injection, Surjection, IsInjective
<1>2. ExistsBijection(A, B)  BY <1>1 DEF ExistsBijection
<1> QED  BY <1>2, FS_Bijection

LEMMA WeightJoined ==
    ASSUME NEW s, NEW t, IsLog(s), IsLog(t)
    PROVE  Weight(s \o t) = Weight(s) + Weight(t)
<1> DEFINE u == s \o t
           n == Len(s)
           A == {<<n + x[1], x[2]>> : x \in Stores(t)}
           B == {n + i : i \in Removes(t)}
<1>0. u = s \o t  OBVIOUS
<1> HIDE DEF u
<1>1. /\ IsLog(u) /\ n \in Nat /\ Len(t) \in Nat
      /\ DOMAIN s = 1 .. n /\ DOMAIN t = 1 .. Len(t)
      /\ DOMAIN u = 1 .. n + Len(t)
      /\ \A i \in DOMAIN s : i \in DOMAIN u /\ u[i] = s[i]
      /\ \A i \in DOMAIN t : n + i \in DOMAIN u /\ u[n + i] = t[i]
      /\ \A i \in DOMAIN u : \/ i \in DOMAIN s
                             \/ i - n \in DOMAIN t /\ i > n
  BY <1>0, Joined DEF IsJoin
<1> HIDE DEF n
<1>2. /\ IsFiniteSet(Stores(s)) /\ IsFiniteSet(Removes(s))
      /\ IsFiniteSet(Stores(t)) /\ IsFiniteSet(Removes(t))
      /\ Cardinality(Stores(s)) \in Nat /\ Cardinality(Removes(s)) \in Nat
      /\ Cardinality(Stores(t)) \in Nat /\ Cardinality(Removes(t)) \in Nat
  BY CountsAreFinite
<1>3. \A x \in Stores(t) : x = <<x[1], x[2]>> /\ x[1] \in DOMAIN t /\ x[2] \in Keys
  BY DEF Stores
<1>4. IsFiniteSet(A) /\ Cardinality(A) = Cardinality(Stores(t))
  <2> DEFINE f == [x \in Stores(t) |-> <<n + x[1], x[2]>>]
  <2>1. f \in [Stores(t) -> A]  OBVIOUS
  <2>2. \A x, y \in Stores(t) : f[x] = f[y] => x = y
    <3> SUFFICES ASSUME NEW x \in Stores(t), NEW y \in Stores(t), f[x] = f[y]
                 PROVE  x = y
      OBVIOUS
    <3>1. n + x[1] = n + y[1] /\ x[2] = y[2]  OBVIOUS
    <3>2. x[1] \in Nat /\ y[1] \in Nat  BY <1>1, <1>3
    <3>3. x[1] = y[1]  BY <1>1, <3>1, <3>2
    <3> QED  BY <1>3, <3>1, <3>3
  <2>3. \A y \in A : \E x \in Stores(t) : f[x] = y  OBVIOUS
  <2> HIDE DEF f, A
  <2> QED  BY <1>2, <2>1, <2>2, <2>3, SameCount
<1>5. IsFiniteSet(B) /\ Cardinality(B) = Cardinality(Removes(t))
  <2> DEFINE f == [x \in Removes(t) |-> n + x]
  <2>1. f \in [Removes(t) -> B]  OBVIOUS
  <2>2. \A x, y \in Removes(t) : f[x] = f[y] => x = y
    <3> SUFFICES ASSUME NEW x \in Removes(t), NEW y \in Removes(t), f[x] = f[y]
                 PROVE  x = y
      OBVIOUS
    <3>1. n + x = n + y  OBVIOUS
    <3>2. x \in Nat /\ y \in Nat  BY <1>1 DEF Removes
    <3> QED  BY <1>1, <3>1, <3>2
  <2>3. \A y \in B : \E x \in Removes(t) : f[x] = y  OBVIOUS
  <2> HIDE DEF f, B
  <2> QED  BY <1>2, <2>1, <2>2, <2>3, SameCount
<1>6. Stores(u) = Stores(s) \cup A
  <2>1. ASSUME NEW x \in Stores(u)  PROVE x \in Stores(s) \cup A
    <3>1. /\ x = <<x[1], x[2]>> /\ x[1] \in DOMAIN u /\ x[2] \in Keys
          /\ x[2] \in DOMAIN u[x[1]] /\ u[x[1]][x[2]] # None
      BY DEF Stores
    <3>2. CASE x[1] \in DOMAIN s  BY <1>1, <3>1, <3>2 DEF Stores
    <3>3. CASE x[1] - n \in DOMAIN t /\ x[1] > n
      <4> DEFINE y == <<x[1] - n, x[2]>>
      <4>1. n + (x[1] - n) = x[1]  BY <1>1, <3>1
      <4>2. u[x[1]] = t[x[1] - n]  BY <1>1, <3>3, <4>1
      <4>3. y \in Stores(t)  BY <3>1, <3>3, <4>2 DEF Stores
      <4>4. x = <<n + y[1], y[2]>>  BY <3>1, <4>1
      <4> QED  BY <4>3, <4>4
    <3> QED  BY <1>1, <3>1, <3>2, <3>3
  <2>2. ASSUME NEW x \in Stores(s)  PROVE x \in Stores(u)
    <3>1. /\ x = <<x[1], x[2]>> /\ x[1] \in DOMAIN s /\ x[2] \in Keys
          /\ x[2] \in DOMAIN s[x[1]] /\ s[x[1]][x[2]] # None
      BY DEF Stores
    <3> QED  BY <1>1, <3>1 DEF Stores
  <2>3. ASSUME NEW y \in Stores(t)  PROVE <<n + y[1], y[2]>> \in Stores(u)
    <3>1. /\ y[1] \in DOMAIN t /\ y[2] \in Keys
          /\ y[2] \in DOMAIN t[y[1]] /\ t[y[1]][y[2]] # None
      BY DEF Stores
    <3>2. n + y[1] \in DOMAIN u /\ u[n + y[1]] = t[y[1]]  BY <1>1, <3>1
    <3> QED  BY <3>1, <3>2 DEF Stores
  <2> QED  BY <2>1, <2>2, <2>3
<1>7. Removes(u) = Removes(s) \cup B
  <2>1. ASSUME NEW i \in Removes(u)  PROVE i \in Removes(s) \cup B
    <3>1. i \in DOMAIN u /\ IsRemove(u[i])  BY DEF Removes
    <3>2. CASE i \in DOMAIN s  BY <1>1, <3>1, <3>2 DEF Removes
    <3>3. CASE i - n \in DOMAIN t /\ i > n
      <4>1. n + (i - n) = i  BY <1>1, <3>1
      <4>2. u[i] = t[i - n]  BY <1>1, <3>3, <4>1
      <4>3. i - n \in Removes(t)  BY <3>1, <3>3, <4>2 DEF Removes
      <4> QED  BY <4>1, <4>3
    <3> QED  BY <1>1, <3>1, <3>2, <3>3
  <2>2. Removes(s) \subseteq Removes(u)  BY <1>1 DEF Removes
  <2>3. \A i \in Removes(t) : n + i \in Removes(u)  BY <1>1 DEF Removes
  <2> QED  BY <2>1, <2>2, <2>3
<1>8. Stores(s) \cap A = {} /\ Removes(s) \cap B = {}
  <2>1. \A x \in Stores(s) : x[1] \in DOMAIN s  BY DEF Stores
  <2>2. \A x \in A : x[1] > n
    <3>1. \A y \in Stores(t) : n + y[1] > n  BY <1>1, <1>3
    <3> QED  BY <3>1
  <2>3. \A i \in Removes(s) : i <= n  BY <1>1 DEF Removes
  <2>4. \A i \in B : i \in Nat /\ i > n  BY <1>1 DEF Removes
  <2>5. \A i \in DOMAIN s : i \in Nat /\ i <= n  BY <1>1
  <2>6. \A i \in Nat : ~(i <= n /\ i > n)  BY <1>1
  <2> HIDE DEF A, B
  <2>7. Stores(s) \cap A = {}  BY <2>1, <2>2, <2>5, <2>6
  <2>8. Removes(s) \cap B = {}  BY <2>3, <2>4, <2>6
  <2> QED  BY <2>7, <2>8
<1> HIDE DEF A, B
<1>9. /\ Cardinality(Stores(u)) = Cardinality(Stores(s)) + Cardinality(Stores(t))
      /\ Cardinality(Removes(u)) = Cardinality(Removes(s)) + Cardinality(Removes(t))
  BY <1>2, <1>4, <1>5, <1>6, <1>7, <1>8, DisjointCounts
<1>10. Weight(u) = Weight(s) + Weight(t)  BY <1>2, <1>9 DEF Weight
<1> QED  BY <1>0, <1>10

LEMMA OneWeighs ==
    ASSUME NEW r \in Record, NEW S, S = {k \in DOMAIN r : r[k] # None}
    PROVE  /\ Weight(<<r>>) = Cardinality(S) + (IF IsRemove(r) THEN 1 ELSE 0)
           /\ IsFiniteSet(S) /\ Cardinality(S) \in Nat
<1>0. IsLog(<<r>>)  BY OneRecord
<1>1. DOMAIN <<r>> = {1} /\ <<r>>[1] = r  OBVIOUS
<1>2. DOMAIN r \subseteq Keys /\ IsFiniteSet(Keys)  BY RecordsAre, LogAssumption
<1>3. IsFiniteSet(S) /\ Cardinality(S) \in Nat
  BY <1>2, FS_Subset, FS_CardinalityType
<1>4. Stores(<<r>>) = {1} \X S  BY <1>1, <1>2 DEF Stores
<1>5. Cardinality(Stores(<<r>>)) = Cardinality(S)
  <2> DEFINE A == {1} \X S
             f == [k \in S |-> <<1, k>>]
  <2>1. f \in [S -> A]  OBVIOUS
  <2>2. \A x, y \in S : f[x] = f[y] => x = y  OBVIOUS
  <2>3. \A y \in A : \E x \in S : f[x] = y  OBVIOUS
  <2>4. Stores(<<r>>) = A  BY <1>4
  <2> HIDE DEF f, A
  <2> QED  BY <1>3, <2>1, <2>2, <2>3, <2>4, SameCount
<1>6. Cardinality(Removes(<<r>>)) = IF IsRemove(r) THEN 1 ELSE 0
  <2>1. Removes(<<r>>) = IF IsRemove(r) THEN {1} ELSE {}  BY <1>1 DEF Removes
  <2>2. Cardinality({1}) = 1 /\ Cardinality({}) = 0
    BY FS_Singleton, FS_EmptySet
  <2> QED  BY <2>1, <2>2
<1> QED  BY <1>3, <1>5, <1>6 DEF Weight

LEMMA RecordsWeigh ==
    /\ \A k \in Keys : \A e \in Entry : Weight(<<Store(k, e)>>) = 1
    /\ \A S \in SUBSET Keys : Weight(<<MultiRemove(S)>>) = 1
    /\ \A r \in Record :
          DOMAIN r # {} /\ (\A k \in DOMAIN r : r[k] # None) =>
             Weight(<<r>>) = Cardinality(DOMAIN r)
    /\ Weight(<<>>) = 0
<1>1. ASSUME NEW k \in Keys, NEW e \in Entry  PROVE Weight(<<Store(k, e)>>) = 1
  <2> DEFINE r == Store(k, e)
  <2>1. e \in Slot /\ e # None  BY LogAssumption DEF Slot
  <2>2. r \in Record /\ DOMAIN r = {k} /\ r[k] = e  BY <2>1, RecordsAre
  <2> HIDE DEF r
  <2>3. {k} = {j \in DOMAIN r : r[j] # None}  BY <2>1, <2>2
  <2>4. ~IsRemove(r)  BY <2>1, <2>2 DEF IsRemove
  <2>5. Cardinality({k}) = 1  BY FS_Singleton
  <2>6. Weight(<<r>>) = 1  BY <2>2, <2>3, <2>4, <2>5, OneWeighs
  <2> QED  BY <2>6 DEF r
<1>2. ASSUME NEW S \in SUBSET Keys  PROVE Weight(<<MultiRemove(S)>>) = 1
  <2> DEFINE r == MultiRemove(S)
  <2>1. r \in Record /\ DOMAIN r = S /\ \A k \in S : r[k] = None  BY RecordsAre
  <2> HIDE DEF r
  <2>2. {} = {j \in DOMAIN r : r[j] # None}  BY <2>1
  <2>3. IsRemove(r)  BY <2>1 DEF IsRemove
  <2>4. Cardinality({}) = 0  BY FS_EmptySet
  <2>5. Weight(<<r>>) = 1  BY <2>1, <2>2, <2>3, <2>4, OneWeighs
  <2> QED  BY <2>5 DEF r
<1>3. ASSUME NEW r \in Record, DOMAIN r # {}, \A k \in DOMAIN r : r[k] # None
      PROVE  Weight(<<r>>) = Cardinality(DOMAIN r)
  <2> DEFINE S == DOMAIN r
  <2>1. S = {j \in DOMAIN r : r[j] # None}  BY <1>3
  <2>2. ~IsRemove(r)  BY <1>3 DEF IsRemove
  <2> HIDE DEF S
  <2>3. Weight(<<r>>) = Cardinality(S) + 0 /\ Cardinality(S) \in Nat
    BY <2>1, <2>2, OneWeighs
  <2> QED  BY <2>3 DEF S
<1>4. Weight(<<>>) = 0
  <2>1. Stores(<<>>) = {} /\ Removes(<<>>) = {}  BY DEF Stores, Removes
  <2>2. Cardinality({}) = 0  BY FS_EmptySet
  <2>3. Weight(<<>>) = 0 + 0  BY <2>1, <2>2, Zenon DEF Weight
  <2> QED  BY <2>3
<1> QED  BY <1>1, <1>2, <1>3, <1>4

-----------------------------------------------------------------------------
(* The rest of a log, from where it has been copied to. *)

Rest(s, n) == SubSeq(s, n + 1, Len(s))

LEMMA RestIsLog ==
    ASSUME NEW s, IsLog(s), NEW n \in 0 .. Len(s)
    PROVE  /\ IsLog(Rest(s, n)) /\ Len(Rest(s, n)) = Len(s) - n
           /\ \A i \in 1 .. Len(s) - n : Rest(s, n)[i] = s[n + i]
<1> DEFINE Q == Record
           r == Rest(s, n)
<1>1. s \in Seq(Q)  BY DEF IsLog
<1> HIDE DEF Q
<1>2. Len(s) \in Nat /\ n \in Nat /\ n <= Len(s)  BY <1>1, LenProperties
<1>3. n + 1 \in Int /\ Len(s) \in Int  BY <1>2
<1>4. \A i \in n + 1 .. Len(s) : s[i] \in Q
  <2>1. \A i \in n + 1 .. Len(s) : i \in 1 .. Len(s)  BY <1>2
  <2> QED  BY <1>1, <2>1, ElementOfSeq
<1>5. /\ r \in Seq(Q)
      /\ Len(r) = IF n + 1 <= Len(s) THEN Len(s) - (n + 1) + 1 ELSE 0
      /\ \A i \in 1 .. Len(s) - (n + 1) + 1 : r[i] = s[n + 1 + i - 1]
  BY <1>3, <1>4, SubSeqProperties DEF Rest
<1> HIDE DEF r
<1>6. Len(r) = Len(s) - n  BY <1>2, <1>5
<1>7. \A i \in 1 .. Len(s) - n : r[i] = s[n + i]
  <2> SUFFICES ASSUME NEW i \in 1 .. Len(s) - n  PROVE r[i] = s[n + i]  OBVIOUS
  <2>1. i \in 1 .. Len(s) - (n + 1) + 1 /\ n + 1 + i - 1 = n + i  BY <1>2
  <2> QED  BY <1>5, <2>1
<1>8. IsLog(r)  BY <1>5 DEF IsLog, Q
<1> QED  BY <1>6, <1>7, <1>8 DEF r

LEMMA RestGrows ==
    ASSUME NEW s, IsLog(s), NEW t, IsLog(t), NEW n \in 0 .. Len(s)
    PROVE  /\ Rest(s \o t, n) = Rest(s, n) \o t
           /\ n \in 0 .. Len(s \o t) /\ IsLog(s \o t)
<1> DEFINE u == s \o t
           a == Rest(u, n)
           b == Rest(s, n)
           c == b \o t
           Q == Record
<1>0. u = s \o t /\ c = b \o t  OBVIOUS
<1> HIDE DEF u, c
<1>1. /\ IsLog(u) /\ Len(u) = Len(s) + Len(t)
      /\ Len(s) \in Nat /\ Len(t) \in Nat
      /\ DOMAIN s = 1 .. Len(s) /\ DOMAIN t = 1 .. Len(t)
      /\ \A i \in DOMAIN s : u[i] = s[i]
      /\ \A i \in DOMAIN t : u[Len(s) + i] = t[i]
  <2>1. IsJoin(u, s, t)  BY <1>0, Joined
  <2> QED  BY <2>1 DEF IsJoin
<1>2. n \in 0 .. Len(u) /\ n \in Nat /\ n <= Len(s)  BY <1>1
<1>3. /\ IsLog(a) /\ Len(a) = Len(u) - n
      /\ \A i \in 1 .. Len(u) - n : a[i] = u[n + i]
  BY <1>1, <1>2, RestIsLog
<1>4. /\ IsLog(b) /\ Len(b) = Len(s) - n
      /\ \A i \in 1 .. Len(s) - n : b[i] = s[n + i]
  BY RestIsLog
<1> HIDE DEF a, b
<1>5. /\ IsLog(c) /\ Len(c) = Len(b) + Len(t)
      /\ DOMAIN b = 1 .. Len(b)
      /\ \A i \in DOMAIN b : c[i] = b[i]
      /\ \A i \in DOMAIN t : c[Len(b) + i] = t[i]
  <2>1. IsJoin(c, b, t)  BY <1>0, <1>4, Joined
  <2> QED  BY <2>1 DEF IsJoin
<1>6. Len(a) = Len(c)  BY <1>1, <1>2, <1>3, <1>4, <1>5
<1>7. \A i \in 1 .. Len(a) : a[i] = c[i]
  <2> SUFFICES ASSUME NEW i \in 1 .. Len(a)  PROVE a[i] = c[i]  OBVIOUS
  <2>1. a[i] = u[n + i]  BY <1>3
  <2>2. CASE i <= Len(s) - n
    <3>1. i \in DOMAIN b /\ n + i \in DOMAIN s /\ i \in 1 .. Len(s) - n
      BY <1>1, <1>2, <1>3, <1>4, <1>5, <2>2
    <3>2. u[n + i] = s[n + i]  BY <1>1, <3>1
    <3>3. c[i] = b[i]  BY <1>5, <3>1
    <3>4. b[i] = s[n + i]  BY <1>4, <3>1
    <3> QED  BY <2>1, <3>2, <3>3, <3>4
  <2>3. CASE i > Len(s) - n
    <3> DEFINE j == i - (Len(s) - n)
    <3>1. /\ j \in DOMAIN t /\ n + i = Len(s) + j /\ i = Len(b) + j
      BY <1>1, <1>2, <1>3, <1>4, <2>3
    <3> HIDE DEF j
    <3>2. u[Len(s) + j] = t[j] /\ c[Len(b) + j] = t[j]  BY <1>1, <1>5, <3>1
    <3> QED  BY <2>1, <3>1, <3>2
  <2>4. i \in Int  BY <1>3
  <2> QED  BY <1>1, <1>2, <2>2, <2>3, <2>4
<1>8. a \in Seq(Q) /\ c \in Seq(Q)  BY <1>3, <1>5 DEF IsLog
<1> HIDE DEF Q
<1>9. a = c  BY <1>6, <1>7, <1>8, SeqEqual
<1> QED  BY <1>0, <1>1, <1>2, <1>9 DEF a, b

\* What is in the rest is the last word on what it names.
LEMMA RestDecides ==
    ASSUME NEW s, IsLog(s), NEW n \in 0 .. Len(s), NEW k
    PROVE  /\ Touching(Rest(s, n), k) # {} =>
                 EntryOf(s, k) = EntryOf(Rest(s, n), k)
           /\ Rest(s, Len(s)) = <<>>
<1> DEFINE a == SubSeq(s, 1, n)
           b == Rest(s, n)
           Q == Record
<1>1. s \in Seq(Q)  BY DEF IsLog
<1> HIDE DEF Q
<1>2. Len(s) \in Nat /\ n \in Nat /\ n <= Len(s)  BY <1>1, LenProperties
<1>3. a \o b = s
  <2>1. 1 \in 1 .. Len(s) + 1 /\ n \in 1 - 1 .. Len(s) /\ Len(s) \in n .. Len(s)
    BY <1>2
  <2>2. SubSeq(s, 1, n) \o SubSeq(s, n + 1, Len(s)) = SubSeq(s, 1, Len(s))
    BY <1>1, <2>1, ConcatAdjacentSubSeq
  <2>3. SubSeq(s, 1, Len(s)) = s  BY <1>1, SubSeqFull
  <2> QED  BY <2>2, <2>3 DEF Rest
<1>4. IsLog(a)
  <2>1. \A i \in 1 .. n : s[i] \in Q
    <3>1. \A i \in 1 .. n : i \in 1 .. Len(s)  BY <1>2
    <3> QED  BY <1>1, <3>1, ElementOfSeq
  <2>2. a \in Seq(Q)  BY <1>2, <2>1, SubSeqProperties
  <2> QED  BY <2>2 DEF IsLog, Q
<1>5. IsLog(b)  BY RestIsLog
<1>6. Rest(s, Len(s)) = <<>>
  BY <1>2, SubSeqEmpty DEF Rest
<1> HIDE DEF a, b
<1>7. EntryOf(a \o b, k) = IF Touching(b, k) = {} THEN EntryOf(a, k)
                                             ELSE EntryOf(b, k)
  BY <1>4, <1>5, EntryOfJoined
<1> QED  BY <1>3, <1>6, <1>7 DEF b

LEMMA StoredKeys ==
    ASSUME NEW s, IsLog(s)
    PROVE  /\ \A i, j \in Int : KeysStored(s, i, j) \subseteq Keys
           /\ \A i, n, j \in Int :
                 i <= n /\ n <= j =>
                    KeysStored(s, i, j) = KeysStored(s, i, n) \cup KeysStored(s, n, j)
           /\ \A k \in Keys : EntryOf(s, k) # None => k \in KeysStored(s, 0, Len(s))
           /\ \A t : IsLog(t) => \A i \in Int, j \in 0 .. Len(s) :
                 KeysStored(s \o t, i, j) = KeysStored(s, i, j)
<1>1. \A x \in Stores(s) : x = <<x[1], x[2]>> /\ x[1] \in DOMAIN s /\ x[2] \in Keys
  BY DEF Stores
<1>2. Len(s) \in Nat /\ DOMAIN s = 1 .. Len(s)  BY LenProperties DEF IsLog
<1>3. \A i, j \in Int : KeysStored(s, i, j) \subseteq Keys
  BY <1>1 DEF KeysStored
<1>4. ASSUME NEW i \in Int, NEW n \in Int, NEW j \in Int, i <= n, n <= j
      PROVE  KeysStored(s, i, j) = KeysStored(s, i, n) \cup KeysStored(s, n, j)
  <2>1. \A m \in DOMAIN s : i < m /\ m <= j <=> (i < m /\ m <= n) \/ (n < m /\ m <= j)
    BY <1>2, <1>4
  <2>2. \A x \in Stores(s) :
          i < x[1] /\ x[1] <= j <=> (i < x[1] /\ x[1] <= n) \/ (n < x[1] /\ x[1] <= j)
    BY <1>1, <2>1
  <2> QED  BY <2>2 DEF KeysStored
<1>5. ASSUME NEW k \in Keys, EntryOf(s, k) # None
      PROVE  k \in KeysStored(s, 0, Len(s))
  <2>1. PICK i \in DOMAIN s : <<i, k>> \in Stores(s)  BY <1>5, EntryIsNamed
  <2>2. 0 < i /\ i <= Len(s)  BY <1>2
  <2> QED  BY <2>1, <2>2 DEF KeysStored
<1>6. ASSUME NEW t, IsLog(t), NEW i \in Int, NEW j \in 0 .. Len(s)
      PROVE  KeysStored(s \o t, i, j) = KeysStored(s, i, j)
  <2> DEFINE u == s \o t
  <2>0. u = s \o t  OBVIOUS
  <2> HIDE DEF u
  <2>1. /\ DOMAIN u = 1 .. Len(s) + Len(t) /\ Len(t) \in Nat
        /\ \A m \in DOMAIN s : m \in DOMAIN u /\ u[m] = s[m]
    BY <1>6, <2>0, Joined DEF IsJoin
  <2>2. ASSUME NEW m \in Int, NEW k, m <= j
        PROVE  <<m, k>> \in Stores(u) <=> <<m, k>> \in Stores(s)
    <3>1. m \in DOMAIN u <=> m \in DOMAIN s  BY <1>2, <2>1, <2>2
    <3> QED  BY <2>1, <3>1 DEF Stores
  <2>3. \A x \in Stores(u) : x = <<x[1], x[2]>> /\ x[1] \in Int
    BY <2>1 DEF Stores
  <2>4. \A x \in Stores(s) : x[1] \in Int  BY <1>1, <1>2
  <2>5. \A x : x \in Stores(u) /\ x[1] <= j <=> x \in Stores(s) /\ x[1] <= j
    BY <1>1, <2>2, <2>3, <2>4
  <2>6. KeysStored(u, i, j) = KeysStored(s, i, j)  BY <2>5 DEF KeysStored
  <2> QED  BY <2>0, <2>6
<1> QED  BY <1>3, <1>4, <1>5, <1>6

-----------------------------------------------------------------------------
(* What the binlog and the map have to do with each other. *)

MappedIn(d) == {k \in Keys : d.map[k] # None}

LogShape(d) ==
    /\ Shape(d) /\ DOMAIN d.files = Places
    /\ d.map \in [Keys -> Slot] /\ d.removing \subseteq Keys
    /\ IsLog(d.binlog) /\ d.excess \in Nat

\* No two keys share a data file.
Distinct(s) ==
    \A j, k \in Keys :
        j # k /\ EntryOf(s, j) # None /\ EntryOf(s, k) # None =>
            EntryOf(s, j).place # EntryOf(s, k).place

\* But for the removals that wait, the binlog says what the map says, and the
\* excess is garbage in it.
Agrees(d) ==
    d.handle =>
        /\ \A k \in Keys \ d.removing : EntryOf(d.binlog, k) = d.map[k]
        /\ d.excess + Cardinality(MappedIn(d)) <= Weight(d.binlog)

Sound(d) == LogShape(d) /\ Distinct(d.binlog) /\ Agrees(d)

\* From d to e the binlog has grown by t.
GrownBy(d, e, t) ==
    /\ IsLog(t) /\ e.binlog = d.binlog \o t /\ d.excess <= e.excess
    /\ \A k \in d.removing \ e.removing : Touching(t, k) # {}
    /\ \A P \in SUBSET Keys :
          e.excess + Cardinality(MappedIn(e) \ P) <=
              d.excess + Cardinality(MappedIn(d) \ P) + Weight(t)
Evolves(d, e) == e.handle => d.handle /\ \E t : GrownBy(d, e, t)

LEMMA MappedIsFinite ==
    ASSUME NEW d, NEW P
    PROVE  /\ IsFiniteSet(MappedIn(d)) /\ IsFiniteSet(MappedIn(d) \ P)
           /\ Cardinality(MappedIn(d)) \in Nat
           /\ Cardinality(MappedIn(d) \ P) \in Nat
<1>1. IsFiniteSet(Keys)  BY LogAssumption
<1>2. MappedIn(d) \in SUBSET Keys /\ MappedIn(d) \ P \in SUBSET Keys
  BY DEF MappedIn
<1>3. IsFiniteSet(MappedIn(d)) /\ IsFiniteSet(MappedIn(d) \ P)
  BY <1>1, <1>2, FS_Subset
<1> QED  BY <1>3, FS_CardinalityType

LEMMA JoinsAssociate ==
    ASSUME NEW s, NEW t, NEW u, IsLog(s), IsLog(t), IsLog(u)
    PROVE  (s \o t) \o u = s \o (t \o u) /\ s \o <<>> = s
<1> DEFINE Q == Record
<1>1. s \in Seq(Q) /\ t \in Seq(Q) /\ u \in Seq(Q)  BY DEF IsLog
<1> HIDE DEF Q
<1> QED  BY <1>1, ConcatAssociative, ConcatEmptySeq

\* Growing twice is growing.
LEMMA EvolvesTwice ==
    ASSUME NEW d, NEW e, NEW z, LogShape(d), LogShape(e), LogShape(z),
           Evolves(d, e), Evolves(e, z)
    PROVE  Evolves(d, z)
<1> SUFFICES ASSUME z.handle
             PROVE  d.handle /\ \E t : GrownBy(d, z, t)
  BY DEF Evolves
<1>1. e.handle /\ d.handle  BY DEF Evolves
<1>2. PICK s : GrownBy(d, e, s)  BY <1>1 DEF Evolves
<1>3. PICK t : GrownBy(e, z, t)  BY DEF Evolves
<1>4. IsLog(s) /\ IsLog(t) /\ IsLog(d.binlog)
  BY <1>2, <1>3 DEF GrownBy, LogShape
<1>5. IsLog(s \o t)  BY <1>4, Joined DEF IsJoin
<1>6. z.binlog = d.binlog \o (s \o t)
  <2>1. e.binlog = d.binlog \o s /\ z.binlog = e.binlog \o t
    BY <1>2, <1>3 DEF GrownBy
  <2> DEFINE L == d.binlog
  <2>2. IsLog(L) /\ e.binlog = L \o s  BY <1>4, <2>1
  <2> HIDE DEF L
  <2>3. (L \o s) \o t = L \o (s \o t)  BY <1>4, <2>2, JoinsAssociate
  <2> QED  BY <2>1, <2>2, <2>3 DEF L
<1>7. ASSUME NEW k \in d.removing \ z.removing  PROVE Touching(s \o t, k) # {}
  <2>1. Touching(s, k) # {} \/ Touching(t, k) # {}
    BY <1>2, <1>3 DEF GrownBy
  <2> QED  BY <1>4, <2>1, EntryOfJoined
<1>8. ASSUME NEW P \in SUBSET Keys
      PROVE  z.excess + Cardinality(MappedIn(z) \ P) <=
                 d.excess + Cardinality(MappedIn(d) \ P) + Weight(s \o t)
  <2>1. Weight(s \o t) = Weight(s) + Weight(t)  BY <1>4, WeightJoined
  <2>2. /\ z.excess + Cardinality(MappedIn(z) \ P) <=
              e.excess + Cardinality(MappedIn(e) \ P) + Weight(t)
        /\ e.excess + Cardinality(MappedIn(e) \ P) <=
              d.excess + Cardinality(MappedIn(d) \ P) + Weight(s)
    BY <1>2, <1>3 DEF GrownBy
  <2>3. /\ Cardinality(MappedIn(z) \ P) \in Nat
        /\ Cardinality(MappedIn(e) \ P) \in Nat
        /\ Cardinality(MappedIn(d) \ P) \in Nat
        /\ Weight(s) \in Nat /\ Weight(t) \in Nat
    BY <1>4, MappedIsFinite, CountsAreFinite
  <2>4. z.excess \in Nat /\ e.excess \in Nat /\ d.excess \in Nat
    BY DEF LogShape
  <2> QED  BY <2>1, <2>2, <2>3, <2>4
<1>9. d.excess <= z.excess
  <2>1. d.excess <= e.excess /\ e.excess <= z.excess
    BY <1>2, <1>3 DEF GrownBy
  <2>2. d.excess \in Nat /\ e.excess \in Nat /\ z.excess \in Nat
    BY DEF LogShape
  <2> QED  BY <2>1, <2>2
<1>10. GrownBy(d, z, s \o t)  BY <1>5, <1>6, <1>7, <1>8, <1>9 DEF GrownBy
<1> QED  BY <1>1, <1>10

\* What both halves of Agrees ask of a log that has grown.
LEMMA StillExcess ==
    ASSUME NEW d, NEW z, Sound(d), LogShape(z), Evolves(d, z), z.handle
    PROVE  z.excess + Cardinality(MappedIn(z)) <= Weight(z.binlog)
<1>1. d.handle  BY DEF Evolves
<1>2. PICK t : GrownBy(d, z, t)  BY DEF Evolves
<1>3. IsLog(t) /\ z.binlog = d.binlog \o t /\ IsLog(d.binlog)
  BY <1>2 DEF GrownBy, Sound, LogShape
<1>4. Weight(z.binlog) = Weight(d.binlog) + Weight(t)  BY <1>3, WeightJoined
<1>5. MappedIn(z) \ {} = MappedIn(z) /\ MappedIn(d) \ {} = MappedIn(d)
  OBVIOUS
<1>6. z.excess + Cardinality(MappedIn(z)) <=
         d.excess + Cardinality(MappedIn(d)) + Weight(t)
  BY <1>2, <1>5 DEF GrownBy
<1>7. d.excess + Cardinality(MappedIn(d)) <= Weight(d.binlog)
  BY <1>1 DEF Sound, Agrees
<1>8. /\ Cardinality(MappedIn(z)) \in Nat /\ Cardinality(MappedIn(d)) \in Nat
      /\ Weight(t) \in Nat /\ Weight(d.binlog) \in Nat
      /\ z.excess \in Nat /\ d.excess \in Nat
  BY <1>3, MappedIsFinite, CountsAreFinite DEF Sound, LogShape
<1> QED  BY <1>4, <1>6, <1>7, <1>8

\* Keys S lose their entries, with the bundle written or not, or the binlog
\* is lost.
Removed(d, z, S) ==
    /\ z.map = [k \in Keys |-> IF k \in S THEN None ELSE d.map[k]]
    /\ \/ /\ z.removing = d.removing \cup S /\ z.binlog = d.binlog
          /\ z.excess = d.excess /\ z.handle = d.handle
       \/ /\ z.removing = {} /\ z.handle = d.handle
          /\ z.binlog = Append(d.binlog, MultiRemove(d.removing \cup S))
          /\ z.excess = d.excess + 1
       \/ /\ z.binlog = d.binlog /\ z.excess = d.excess /\ z.handle = FALSE
          /\ z.removing \subseteq d.removing \cup S

LEMMA RemovedEvolves ==
    ASSUME NEW d, NEW z, NEW S \in SUBSET Keys, Sound(d), Removed(d, z, S),
           \A k \in d.removing : d.map[k] = None,
           Shape(z), DOMAIN z.files = Places
    PROVE  Sound(z) /\ Evolves(d, z)
<1>1. /\ d.map \in [Keys -> Slot] /\ d.removing \subseteq Keys
      /\ IsLog(d.binlog) /\ d.excess \in Nat
  BY DEF Sound, LogShape
<1>2. z.map \in [Keys -> Slot]
  <2>1. None \in Slot  BY DEF Slot
  <2> QED  BY <1>1, <2>1 DEF Removed
<1> DEFINE r == MultiRemove(d.removing \cup S)
           L == d.binlog
<1>3. /\ r \in Record /\ DOMAIN r = d.removing \cup S
      /\ \A k \in DOMAIN r : r[k] = None
  BY <1>1, RecordsAre
<1>0. IsLog(L)  BY <1>1
<1> HIDE DEF r, L
<1>4. /\ IsLog(Append(L, r)) /\ Append(L, r) = L \o <<r>> /\ IsLog(<<r>>)
  BY <1>0, <1>3, Appended, OneRecord
<1>15. \A k : /\ EntryOf(Append(L, r), k) =
                   IF k \in DOMAIN r THEN r[k] ELSE EntryOf(L, k)
              /\ Touching(<<r>>, k) = {} <=> k \notin DOMAIN r
  BY <1>0, <1>3, Appended, OneRecord
<1>5. L \o <<>> = L  BY <1>0, JoinsAssociate
<1>16. /\ L = d.binlog /\ r = MultiRemove(d.removing \cup S)  BY DEF L, r
<1>6. LogShape(z)
  <2>1. z.removing \subseteq Keys /\ z.excess \in Nat  BY <1>1 DEF Removed
  <2>2. IsLog(z.binlog)  BY <1>0, <1>4, <1>16 DEF Removed
  <2> QED  BY <1>2, <2>1, <2>2 DEF LogShape
<1>7. Distinct(z.binlog)
  <2>1. CASE z.binlog = L  BY <1>16, <2>1 DEF Sound
  <2>2. CASE z.binlog = Append(L, r)
    <3>1. \A k : EntryOf(z.binlog, k) # None => EntryOf(z.binlog, k) = EntryOf(L, k)
      BY <1>3, <1>15, <2>2
    <3>2. Distinct(L)  BY <1>16 DEF Sound
    <3> QED  BY <3>1, <3>2 DEF Distinct
  <2> QED  BY <1>16, <2>1, <2>2 DEF Removed
<1>8. ASSUME NEW P \in SUBSET Keys
      PROVE  /\ Cardinality(MappedIn(z) \ P) <= Cardinality(MappedIn(d) \ P)
             /\ Cardinality(MappedIn(z) \ P) \in Nat
             /\ Cardinality(MappedIn(d) \ P) \in Nat
  <2>1. MappedIn(z) \ P \in SUBSET (MappedIn(d) \ P)
    BY DEF Removed, MappedIn
  <2>2. /\ IsFiniteSet(MappedIn(d) \ P) /\ Cardinality(MappedIn(z) \ P) \in Nat
        /\ Cardinality(MappedIn(d) \ P) \in Nat
    BY MappedIsFinite
  <2> QED  BY <2>1, <2>2, FS_Subset
<1>9. Evolves(d, z)
  <2> SUFFICES ASSUME z.handle  PROVE d.handle /\ \E t : GrownBy(d, z, t)
    BY DEF Evolves
  <2>1. CASE /\ z.removing = d.removing \cup S /\ z.binlog = d.binlog
             /\ z.excess = d.excess /\ z.handle = d.handle
    <3>1. IsLog(<<>>) /\ Weight(<<>>) = 0  BY EmptyLog, RecordsWeigh
    <3>2. \A P \in SUBSET Keys :
             z.excess + Cardinality(MappedIn(z) \ P) <=
                 d.excess + Cardinality(MappedIn(d) \ P) + Weight(<<>>)
      <4> SUFFICES ASSUME NEW P \in SUBSET Keys
                   PROVE  z.excess + Cardinality(MappedIn(z) \ P) <=
                              d.excess + Cardinality(MappedIn(d) \ P) + Weight(<<>>)
        OBVIOUS
      <4>1. Weight(<<>>) = 0  BY <3>1
      <4>2. Cardinality(MappedIn(z) \ P) <= Cardinality(MappedIn(d) \ P)
        BY <1>8
      <4>3. /\ Cardinality(MappedIn(z) \ P) \in Nat
            /\ Cardinality(MappedIn(d) \ P) \in Nat
        BY <1>8
      <4>4. z.excess = d.excess /\ d.excess \in Int  BY <1>1, <2>1
      <4> QED  BY <4>1, <4>2, <4>3, <4>4
    <3>3. d.excess <= z.excess  BY <1>1, <2>1
    <3>4. GrownBy(d, z, <<>>)
      BY <1>5, <1>16, <2>1, <3>1, <3>2, <3>3 DEF GrownBy
    <3> QED  BY <2>1, <3>4
  <2>2. CASE /\ z.removing = {} /\ z.handle = d.handle
             /\ z.binlog = Append(d.binlog, r) /\ z.excess = d.excess + 1
    <3>1. Weight(<<r>>) = 1  BY <1>1, <1>16, RecordsWeigh
    <3>2. \A P \in SUBSET Keys :
             z.excess + Cardinality(MappedIn(z) \ P) <=
                 d.excess + Cardinality(MappedIn(d) \ P) + Weight(<<r>>)
      <4> SUFFICES ASSUME NEW P \in SUBSET Keys
                   PROVE  z.excess + Cardinality(MappedIn(z) \ P) <=
                              d.excess + Cardinality(MappedIn(d) \ P) + Weight(<<r>>)
        OBVIOUS
      <4>1. Cardinality(MappedIn(z) \ P) <= Cardinality(MappedIn(d) \ P)
        BY <1>8
      <4>2. /\ Cardinality(MappedIn(z) \ P) \in Nat
            /\ Cardinality(MappedIn(d) \ P) \in Nat
        BY <1>8
      <4>3. z.excess = d.excess + 1 /\ d.excess \in Int  BY <1>1, <2>2
      <4> QED  BY <3>1, <4>1, <4>2, <4>3
    <3>3. \A k \in d.removing \ z.removing : Touching(<<r>>, k) # {}
      BY <1>3, <1>15
    <3>4. d.excess <= z.excess  BY <1>1, <2>2
    <3>5. GrownBy(d, z, <<r>>)
      BY <1>4, <1>16, <2>2, <3>2, <3>3, <3>4 DEF GrownBy
    <3> QED  BY <2>2, <3>5
  <2> QED  BY <1>16, <2>1, <2>2 DEF Removed
<1>10. Agrees(z)
  <2> SUFFICES ASSUME z.handle
               PROVE  /\ \A k \in Keys \ z.removing : EntryOf(z.binlog, k) = z.map[k]
                      /\ z.excess + Cardinality(MappedIn(z)) <= Weight(z.binlog)
    BY DEF Agrees
  <2>1. z.excess + Cardinality(MappedIn(z)) <= Weight(z.binlog)
    BY <1>6, <1>9, StillExcess
  <2>2. \A k \in Keys \ d.removing : EntryOf(L, k) = d.map[k]
    BY <1>9, <1>16 DEF Sound, Agrees, Evolves
  <2>3. ASSUME NEW k \in Keys \ z.removing
        PROVE  EntryOf(z.binlog, k) = z.map[k]
    <3>0. z.map[k] = IF k \in S THEN None ELSE d.map[k]  BY DEF Removed
    <3>1. CASE z.removing = d.removing \cup S /\ z.binlog = L
      BY <2>2, <2>3, <3>0, <3>1
    <3>2. CASE z.binlog = Append(L, r)
      BY <1>3, <1>15, <2>2, <2>3, <3>0, <3>2
    <3> QED  BY <1>16, <3>1, <3>2 DEF Removed
  <2> QED  BY <2>1, <2>3
<1> QED  BY <1>6, <1>7, <1>9, <1>10 DEF Sound

\* A Store record is written for k; what the map said of it does not count.
Stored(d, z, k, e) ==
    /\ z.map = [d.map EXCEPT ![k] = e] /\ z.removing = d.removing \ {k}
    /\ z.binlog = Append(d.binlog, Store(k, e)) /\ z.handle = d.handle
    /\ z.excess = IF d.map[k] # None THEN d.excess + 1 ELSE d.excess

\* No entry of another key has its data at this place.
Apart(s, k, p) ==
    \A j \in Keys \ {k} : EntryOf(s, j) # None => EntryOf(s, j).place # p

LEMMA StoredEvolves ==
    ASSUME NEW d, NEW z, NEW k \in Keys, NEW e \in Entry, Sound(d),
           Stored(d, z, k, e), Apart(d.binlog, k, e.place),
           Shape(z), DOMAIN z.files = Places
    PROVE  Sound(z) /\ Evolves(d, z)
<1>1. /\ d.map \in [Keys -> Slot] /\ d.removing \subseteq Keys
      /\ IsLog(d.binlog) /\ d.excess \in Nat /\ e \in Slot
  BY DEF Sound, LogShape, Slot
<1> DEFINE r == Store(k, e)
           L == d.binlog
<1>2. /\ r \in Record /\ DOMAIN r = {k} /\ r[k] = e
  BY <1>1, RecordsAre
<1>3. IsLog(L)  BY <1>1
<1> HIDE DEF r, L
<1>4. /\ IsLog(Append(L, r)) /\ Append(L, r) = L \o <<r>> /\ IsLog(<<r>>)
  BY <1>2, <1>3, Appended, OneRecord
<1>5. \A j : /\ EntryOf(Append(L, r), j) = IF j = k THEN e ELSE EntryOf(L, j)
             /\ Touching(<<r>>, j) = {} <=> j # k
  BY <1>2, <1>3, Appended, OneRecord
<1>6. /\ L = d.binlog /\ r = Store(k, e)
      /\ z.map = [d.map EXCEPT ![k] = e] /\ z.removing = d.removing \ {k}
      /\ z.binlog = Append(L, r) /\ z.handle = d.handle
      /\ z.excess = IF d.map[k] # None THEN d.excess + 1 ELSE d.excess
  BY DEF L, r, Stored
<1>7. LogShape(z)
  <2>1. z.map \in [Keys -> Slot]  BY <1>1, <1>6
  <2>2. z.removing \subseteq Keys  BY <1>1, <1>6
  <2>3. IsLog(z.binlog)  BY <1>4, <1>6
  <2>4. z.excess \in Nat  BY <1>1, <1>6
  <2> QED  BY <2>1, <2>2, <2>3, <2>4 DEF LogShape
<1>8. Distinct(z.binlog)
  <2>1. Distinct(L) /\ Apart(L, k, e.place)  BY <1>6 DEF Sound
  <2>2. \A j : EntryOf(z.binlog, j) = IF j = k THEN e ELSE EntryOf(L, j)
    BY <1>5, <1>6
  <2> QED  BY <2>1, <2>2 DEF Distinct, Apart
<1>9. ASSUME NEW P \in SUBSET Keys
      PROVE  z.excess + Cardinality(MappedIn(z) \ P) <=
                 d.excess + Cardinality(MappedIn(d) \ P) + Weight(<<r>>)
  <2>1. Weight(<<r>>) = 1  BY <1>6, RecordsWeigh
  <2>2. /\ Cardinality(MappedIn(z) \ P) \in Nat
        /\ Cardinality(MappedIn(d) \ P) \in Nat
    BY MappedIsFinite
  <2>3. e # None  BY LogAssumption
  <2>4. MappedIn(z) = MappedIn(d) \cup {k}  BY <1>1, <1>6, <2>3 DEF MappedIn
  <2>5. CASE d.map[k] # None
    <3>1. MappedIn(z) = MappedIn(d)  BY <2>4, <2>5 DEF MappedIn
    <3>2. z.excess = d.excess + 1  BY <1>6, <2>5
    <3> HIDE DEF MappedIn
    <3> QED  BY <1>1, <2>1, <2>2, <3>1, <3>2
  <2>6. CASE d.map[k] = None
    <3> DEFINE A == MappedIn(d) \ P
    <3>1. MappedIn(z) \ P \in SUBSET (A \cup {k})  BY <2>4
    <3>2. IsFiniteSet(A)  BY MappedIsFinite
    <3> HIDE DEF A
    <3>3. /\ IsFiniteSet(A \cup {k})
          /\ Cardinality(A \cup {k}) <= Cardinality(A) + 1
      <4>1. /\ IsFiniteSet(A \cup {k})
            /\ Cardinality(A \cup {k}) = IF k \in A THEN Cardinality(A)
                                                   ELSE Cardinality(A) + 1
        BY <3>2, FS_AddElement
      <4>2. Cardinality(A) \in Nat  BY <3>2, FS_CardinalityType
      <4> QED  BY <4>1, <4>2
    <3>4. Cardinality(MappedIn(z) \ P) <= Cardinality(A \cup {k})
      BY <3>1, <3>3, FS_Subset
    <3>5. Cardinality(A) \in Nat /\ Cardinality(A \cup {k}) \in Nat
      BY <3>2, <3>3, FS_CardinalityType
    <3>6. Cardinality(MappedIn(z) \ P) <= Cardinality(A) + 1
      BY <2>2, <3>3, <3>4, <3>5
    <3>7. z.excess = d.excess  BY <1>6, <2>6
    <3> QED  BY <1>1, <2>1, <2>2, <3>6, <3>7 DEF A
  <2> QED  BY <2>5, <2>6
<1>10. Evolves(d, z)
  <2> SUFFICES ASSUME z.handle  PROVE d.handle /\ \E t : GrownBy(d, z, t)
    BY DEF Evolves
  <2>1. \A j \in d.removing \ z.removing : Touching(<<r>>, j) # {}
    BY <1>5, <1>6
  <2>2. d.excess <= z.excess  BY <1>1, <1>6
  <2>3. GrownBy(d, z, <<r>>)
    BY <1>4, <1>6, <1>9, <2>1, <2>2 DEF GrownBy
  <2> QED  BY <1>6, <2>3
<1>11. Agrees(z)
  <2> SUFFICES ASSUME z.handle
               PROVE  /\ \A j \in Keys \ z.removing : EntryOf(z.binlog, j) = z.map[j]
                      /\ z.excess + Cardinality(MappedIn(z)) <= Weight(z.binlog)
    BY DEF Agrees
  <2>1. z.excess + Cardinality(MappedIn(z)) <= Weight(z.binlog)
    BY <1>7, <1>10, StillExcess
  <2>2. \A j \in Keys \ d.removing : EntryOf(L, j) = d.map[j]
    BY <1>6 DEF Sound, Agrees
  <2>3. ASSUME NEW j \in Keys \ z.removing
        PROVE  EntryOf(z.binlog, j) = z.map[j]
    <3>1. CASE j = k  BY <1>1, <1>5, <1>6, <3>1
    <3>2. CASE j # k  BY <1>1, <1>5, <1>6, <2>2, <2>3, <3>2
    <3> QED  BY <3>1, <3>2
  <2> QED  BY <2>1, <2>3
<1> QED  BY <1>7, <1>8, <1>10, <1>11 DEF Sound

-----------------------------------------------------------------------------
(* The compactor. *)

CompactorFields == {"st", "till", "excess", "pos", "asked", "values", "temp",
                    "from", "gap"}

\* What the compacted log would be if it were finished at once.
Copied(c, d) == c.temp \o Rest(d.binlog, c.from)

\* The keys it may still write.
Pending(c, d) == DOMAIN c.values \cup c.asked \cup KeysStored(d.binlog, c.pos, c.till)
Unwritten(c, d) == Pending(c, d) \ Written(c.temp)

CompactorShape(c, d) ==
    /\ IsLog(c.temp) /\ c.values \in Record /\ c.asked \subseteq Keys
    /\ c.from \in 0 .. Len(d.binlog) /\ c.till \in 0 .. c.from
    /\ c.pos \in 0 .. c.till /\ c.excess \in 0 .. d.excess

\* It never says anything else than the binlog; it is silent only on keys
\* it may still write and on those whose removal waits.
SaysTheSame(c, d) ==
    /\ \A k \in Keys : EntryOf(Copied(c, d), k) \in {None, EntryOf(d.binlog, k)}
    /\ \A k \in Keys \ d.removing :
          EntryOf(Copied(c, d), k) # EntryOf(d.binlog, k) => k \in Pending(c, d)

\* What the excess has grown by since it started is garbage it has copied.
Counts(c, d) ==
    d.excess + Cardinality(MappedIn(d) \ Unwritten(c, d)) <=
        c.excess + Weight(Copied(c, d))

\* Before it has read all it has to read.
Reads(c, d) ==
    c.st \in {"start", "ask", "values"} =>
        /\ c.from = c.till
        /\ \A i \in DOMAIN c.temp : \A k \in DOMAIN c.temp[i] : c.temp[i][k] # None
        /\ \A k \in DOMAIN c.values :
              /\ c.values[k] # None
              /\ Touching(Rest(d.binlog, c.from), k) = {} =>
                    c.values[k] = EntryOf(d.binlog, k)

Phases(c, d) ==
    /\ c.st # "values" => DOMAIN c.values = {}
    /\ c.st # "ask" => c.asked = {}
    /\ c.st \in {"catchUp", "done"} => KeysStored(d.binlog, c.pos, c.till) = {}

Follows(c, d) ==
    /\ CompactorShape(c, d) /\ SaysTheSame(c, d) /\ Counts(c, d)
    /\ Reads(c, d) /\ Phases(c, d)

\* A compactor follows the database while it can still succeed.
InStep(c, d) ==
    c # None =>
        /\ CompactorFields \subseteq DOMAIN c
        /\ c.st # "failed" /\ d.handle => Follows(c, d)

LEMMA FollowsOn ==
    ASSUME NEW c, NEW d, NEW e, LogShape(d), LogShape(e), Evolves(d, e),
           e.handle, Follows(c, d)
    PROVE  Follows(c, e)
<1>1. PICK t : GrownBy(d, e, t)  BY DEF Evolves
<1> DEFINE L == d.binlog
           M == e.binlog
           n == c.from
           X == Copied(c, d)
           Y == Copied(c, e)
<1>2. /\ IsLog(L) /\ IsLog(t) /\ M = L \o t /\ n \in 0 .. Len(L)
      /\ IsLog(c.temp) /\ c.till \in 0 .. n /\ c.pos \in 0 .. c.till
      /\ X = c.temp \o Rest(L, n) /\ Y = c.temp \o Rest(M, n)
  BY <1>1 DEF GrownBy, LogShape, Follows, CompactorShape, Copied
<1>3. Len(L) \in Nat  BY <1>2, LenProperties DEF IsLog
<1> HIDE DEF L, M, n, X, Y
<1>4. Rest(M, n) = Rest(L, n) \o t /\ n \in 0 .. Len(M) /\ IsLog(M)
  BY <1>2, RestGrows
<1>5. IsLog(Rest(L, n))  BY <1>2, RestIsLog
<1>6. Y = X \o t /\ IsLog(X)
  <2> DEFINE T == c.temp
             R == Rest(L, n)
  <2>1. /\ IsLog(T) /\ IsLog(R) /\ IsLog(t) /\ X = T \o R /\ Rest(M, n) = R \o t
        /\ Y = T \o Rest(M, n)
    BY <1>2, <1>4, <1>5
  <2> HIDE DEF T, R
  <2>2. (T \o R) \o t = T \o (R \o t)  BY <2>1, JoinsAssociate
  <2>3. IsLog(T \o R)  BY <2>1, Joined DEF IsJoin
  <2> QED  BY <2>1, <2>2, <2>3
<1>7. \A k : /\ EntryOf(Y, k) = IF Touching(t, k) = {} THEN EntryOf(X, k)
                                                    ELSE EntryOf(t, k)
             /\ EntryOf(M, k) = IF Touching(t, k) = {} THEN EntryOf(L, k)
                                                    ELSE EntryOf(t, k)
             /\ Touching(Rest(M, n), k) = {} =>
                   Touching(Rest(L, n), k) = {} /\ Touching(t, k) = {}
  <2> SUFFICES ASSUME NEW k
               PROVE  /\ EntryOf(Y, k) = IF Touching(t, k) = {} THEN EntryOf(X, k)
                                                          ELSE EntryOf(t, k)
                      /\ EntryOf(M, k) = IF Touching(t, k) = {} THEN EntryOf(L, k)
                                                          ELSE EntryOf(t, k)
                      /\ Touching(Rest(M, n), k) = {} =>
                            Touching(Rest(L, n), k) = {} /\ Touching(t, k) = {}
    OBVIOUS
  <2> DEFINE R == Rest(L, n)
             S == Rest(M, n)
  <2>1. /\ IsLog(L) /\ IsLog(t) /\ IsLog(X) /\ IsLog(R)
        /\ M = L \o t /\ Y = X \o t /\ S = R \o t
    BY <1>2, <1>4, <1>5, <1>6
  <2> HIDE DEF R, S
  <2>2. EntryOf(Y, k) = IF Touching(t, k) = {} THEN EntryOf(X, k)
                                           ELSE EntryOf(t, k)
    BY <2>1, EntryOfJoined
  <2>3. EntryOf(M, k) = IF Touching(t, k) = {} THEN EntryOf(L, k)
                                           ELSE EntryOf(t, k)
    BY <2>1, EntryOfJoined
  <2>4. Touching(S, k) = {} => Touching(R, k) = {} /\ Touching(t, k) = {}
    BY <2>1, EntryOfJoined
  <2> QED  BY <2>2, <2>3, <2>4 DEF R, S
<1>8. KeysStored(M, c.pos, c.till) = KeysStored(L, c.pos, c.till)
  <2>1. c.pos \in Int /\ c.till \in 0 .. Len(L)  BY <1>2, <1>3
  <2> QED  BY <1>2, <2>1, StoredKeys
<1>9. Pending(c, e) = Pending(c, d) /\ Unwritten(c, e) = Unwritten(c, d)
  BY <1>8 DEF Pending, Unwritten, L, M
<1>10. CompactorShape(c, e)
  <2>1. d.excess <= e.excess /\ d.excess \in Nat /\ e.excess \in Nat
    BY <1>1 DEF GrownBy, LogShape
  <2>2. c.excess \in 0 .. d.excess  BY DEF Follows, CompactorShape
  <2>3. c.excess \in 0 .. e.excess  BY <2>1, <2>2
  <2> QED  BY <1>4, <2>3 DEF CompactorShape, Follows, n, M
<1>11. SaysTheSame(c, e)
  <2>1. \A k \in Keys : EntryOf(X, k) \in {None, EntryOf(L, k)}
    BY DEF Follows, SaysTheSame, X, L
  <2>2. \A k \in Keys \ d.removing : EntryOf(X, k) # EntryOf(L, k) => k \in Pending(c, d)
    BY DEF Follows, SaysTheSame, X, L
  <2>3. \A k \in d.removing \ e.removing : Touching(t, k) # {}
    BY <1>1 DEF GrownBy
  <2>4. \A k \in Keys : EntryOf(Y, k) \in {None, EntryOf(M, k)}
    BY <1>7, <2>1
  <2>5. \A k \in Keys \ e.removing : EntryOf(Y, k) # EntryOf(M, k) => k \in Pending(c, e)
    BY <1>7, <1>9, <2>2, <2>3
  <2> QED  BY <2>4, <2>5 DEF SaysTheSame, Y, M
<1>12. Counts(c, e)
  <2> DEFINE P == Unwritten(c, d) \cap Keys
  <2>1. /\ MappedIn(d) \ Unwritten(c, d) = MappedIn(d) \ P
        /\ MappedIn(e) \ Unwritten(c, d) = MappedIn(e) \ P
    BY DEF MappedIn
  <2>2. P \in SUBSET Keys  OBVIOUS
  <2> HIDE DEF P
  <2>3. e.excess + Cardinality(MappedIn(e) \ P) <=
              d.excess + Cardinality(MappedIn(d) \ P) + Weight(t)
    BY <1>1, <2>2 DEF GrownBy
  <2>4. d.excess + Cardinality(MappedIn(d) \ P) <= c.excess + Weight(X)
    BY <2>1 DEF Follows, Counts, X
  <2>5. Weight(Y) = Weight(X) + Weight(t)  BY <1>2, <1>6, WeightJoined
  <2>6. /\ Cardinality(MappedIn(e) \ P) \in Nat /\ Cardinality(MappedIn(d) \ P) \in Nat
        /\ Weight(X) \in Nat /\ Weight(t) \in Nat
    BY <1>2, <1>6, MappedIsFinite, CountsAreFinite
  <2>7. e.excess \in Int /\ d.excess \in Int /\ c.excess \in Int
    BY DEF LogShape, Follows, CompactorShape
  <2>8. e.excess + Cardinality(MappedIn(e) \ P) <= c.excess + Weight(Y)
    BY <2>3, <2>4, <2>5, <2>6, <2>7
  <2> QED  BY <1>9, <2>1, <2>8 DEF Counts, Y
<1>13. Reads(c, e)
  <2> SUFFICES ASSUME c.st \in {"start", "ask", "values"}
               PROVE  /\ c.from = c.till
                      /\ \A i \in DOMAIN c.temp : \A k \in DOMAIN c.temp[i] : c.temp[i][k] # None
                      /\ \A k \in DOMAIN c.values :
                            /\ c.values[k] # None
                            /\ Touching(Rest(e.binlog, c.from), k) = {} =>
                                  c.values[k] = EntryOf(e.binlog, k)
    BY DEF Reads
  <2>1. /\ c.from = c.till
        /\ \A i \in DOMAIN c.temp : \A k \in DOMAIN c.temp[i] : c.temp[i][k] # None
        /\ \A k \in DOMAIN c.values :
              /\ c.values[k] # None
              /\ Touching(Rest(L, n), k) = {} => c.values[k] = EntryOf(L, k)
    BY DEF Follows, Reads, L, n
  <2>2. \A k \in DOMAIN c.values :
           Touching(Rest(M, n), k) = {} => c.values[k] = EntryOf(M, k)
    BY <1>7, <2>1
  <2> QED  BY <2>1, <2>2 DEF M, n
<1>14. Phases(c, e)  BY <1>8 DEF Follows, Phases, L, M
<1> QED  BY <1>10, <1>11, <1>12, <1>13, <1>14 DEF Follows

LEMMA WrittenIs ==
    ASSUME NEW s, IsLog(s)
    PROVE  /\ \A k : k \in Written(s) <=> Touching(s, k) # {}
           /\ \A r \in Record : Written(Append(s, r)) = Written(s) \cup DOMAIN r
<1>1. ASSUME NEW t  PROVE \A k : k \in Written(t) <=> Touching(t, k) # {}
  BY DEF Written, Touching
<1>2. ASSUME NEW r \in Record, NEW k
      PROVE  Touching(Append(s, r), k) # {} <=> Touching(s, k) # {} \/ k \in DOMAIN r
  <2> DEFINE t == <<r>>
  <2>1. /\ IsLog(t) /\ Touching(t, k) = {} <=> k \notin DOMAIN r
    BY OneRecord
  <2>2. Append(s, r) = s \o t  BY Appended
  <2>3. IsLog(t)  BY OneRecord
  <2>4. Touching(t, k) = {} <=> k \notin DOMAIN r  BY OneRecord
  <2> HIDE DEF t
  <2>5. Touching(s \o t, k) = {} <=> Touching(s, k) = {} /\ Touching(t, k) = {}
    BY <2>3, EntryOfJoined
  <2> QED  BY <2>2, <2>4, <2>5
<1> QED  BY <1>1, <1>2

LEMMA NewInStep ==
    ASSUME NEW d, Sound(d), Good(d), d.handle
    PROVE  InStep(NewCompactor(d), d)
<1> DEFINE c == NewCompactor(d)
           L == d.binlog
           X == Copied(c, d)
<1>1. /\ c.st = "start" /\ c.till = Len(L) /\ c.excess = d.excess /\ c.pos = 0
      /\ c.asked = {} /\ c.values = MultiRemove({}) /\ c.temp = <<>>
      /\ c.from = Len(L) /\ CompactorFields \subseteq DOMAIN c
  BY DEF NewCompactor, CompactorFields
<1> HIDE DEF c
<1>2. IsLog(L) /\ Len(L) \in Nat
  BY LenProperties DEF Sound, LogShape, IsLog
<1> HIDE DEF L
<1>3. MultiRemove({}) \in Record /\ DOMAIN MultiRemove({}) = {}
  BY RecordsAre
<1>4. Rest(L, Len(L)) = <<>>
  <2>1. Len(L) \in 0 .. Len(L)  BY <1>2
  <2> QED  BY <1>2, <2>1, RestDecides
<1>5. X = <<>>
  <2>1. IsLog(<<>>)  BY EmptyLog
  <2>2. <<>> \o <<>> = <<>>  BY <2>1, JoinsAssociate
  <2>3. Copied(c, d) = <<>> \o Rest(L, Len(L))  BY <1>1 DEF Copied, L
  <2> QED  BY <1>4, <2>2, <2>3
<1> HIDE DEF X
<1>6. IsLog(X) /\ Weight(X) = 0 /\ \A k : EntryOf(X, k) = None
  BY <1>5, EmptyLog, RecordsWeigh
<1>7. CompactorShape(c, d)
  <2>1. IsLog(<<>>)  BY EmptyLog
  <2>2. d.excess \in Nat /\ c.excess \in 0 .. d.excess
    BY <1>1 DEF Sound, LogShape
  <2> QED  BY <1>1, <1>2, <1>3, <2>1, <2>2 DEF CompactorShape, L
<1>8. Pending(c, d) = KeysStored(L, 0, Len(L))
  BY <1>1, <1>3 DEF Pending, L
<1>9. \A k \in Keys : EntryOf(L, k) # None => k \in Pending(c, d)
  BY <1>2, <1>8, StoredKeys
<1>10. SaysTheSame(c, d)  BY <1>6, <1>9 DEF SaysTheSame, X, L
<1>11. Counts(c, d)
  <2>1. Written(c.temp) = {}  BY <1>1, EmptyLog, WrittenIs
  <2>2. MappedIn(d) \ Unwritten(c, d) = {}
    <3> SUFFICES ASSUME NEW k \in Keys, d.map[k] # None  PROVE k \in Pending(c, d)
      BY <2>1 DEF Unwritten, MappedIn
    <3>1. k \notin d.removing  BY DEF Good, Waits
    <3>2. EntryOf(L, k) # None  BY <3>1 DEF Sound, Agrees, L
    <3> QED  BY <1>9, <3>2
  <2>3. Cardinality({}) = 0 /\ d.excess \in Int  BY FS_EmptySet DEF Sound, LogShape
  <2>4. Weight(Copied(c, d)) = 0  BY <1>6 DEF X
  <2>5. Cardinality(MappedIn(d) \ Unwritten(c, d)) = 0  BY <2>2, <2>3
  <2>6. c.excess = d.excess  BY <1>1
  <2> QED  BY <2>3, <2>4, <2>5, <2>6 DEF Counts
<1>12. Reads(c, d)
  <2>1. DOMAIN c.temp = {} /\ DOMAIN c.values = {}  BY <1>1, <1>3
  <2> QED  BY <1>1, <2>1 DEF Reads
<1>13. Phases(c, d)  BY <1>1, <1>3 DEF Phases
<1> QED
  BY <1>1, <1>7, <1>10, <1>11, <1>12, <1>13 DEF InStep, Follows, c

LEMMA OptimizedInStep ==
    ASSUME NEW d, Sound(d), Good(d), NEW c, InStep(c, d), NEW x \in Optimized(c, d)
    PROVE  InStep(x, d)
<1>1. CASE x = c  BY <1>1
<1>2. CASE x = NewCompactor(d) /\ d.handle  BY <1>2, NewInStep
<1> QED  BY <1>1, <1>2 DEF Optimized

\* The compactor keeps step while the database goes from d to e.
LEMMA InStepOn ==
    ASSUME NEW c, NEW d, NEW e, LogShape(d), LogShape(e), Evolves(d, e), InStep(c, d)
    PROVE  InStep(c, e)
<1>1. e.handle => d.handle  BY DEF Evolves
<1> QED  BY <1>1, FollowsOn DEF InStep

\* What parseChunk finds done when it starts.
ToParse(c, d) ==
    /\ CompactorShape(c, d) /\ SaysTheSame(c, d) /\ Counts(c, d) /\ Reads(c, d)
    /\ c.st \in {"start", "values"} /\ DOMAIN c.values = {} /\ c.asked = {}

LEMMA ParsedInStep ==
    ASSUME Sound(db), NEW c, CompactorFields \subseteq DOMAIN c,
           db.handle => ToParse(c, db), NEW x \in Parsed(c)
    PROVE  InStep(x, db)
<1> DEFINE L == db.binlog
<1>1. IsLog(L)  BY DEF Sound, LogShape
<1>2. ASSUME NEW n \in c.pos + 1 .. c.till,
             x = [c EXCEPT !.st = "ask", !.pos = n,
                           !.asked = KeysStored(L, c.pos, n)]
      PROVE  InStep(x, db)
  <2>1. /\ CompactorFields \subseteq DOMAIN x /\ x.st = "ask" /\ x.pos = n
        /\ x.asked = KeysStored(L, c.pos, n) /\ x.values = c.values
        /\ x.temp = c.temp /\ x.till = c.till /\ x.from = c.from
        /\ x.excess = c.excess
    BY <1>2 DEF CompactorFields
  <2> SUFFICES ASSUME db.handle  PROVE Follows(x, db)
    BY <2>1 DEF InStep
  <2>2. ToParse(c, db)  OBVIOUS
  <2>3. /\ c.pos \in Int /\ n \in Int /\ c.till \in Int /\ c.pos <= n
        /\ n <= c.till /\ n \in 0 .. c.till
    BY <1>1, <2>2, LenProperties DEF ToParse, CompactorShape, IsLog
  <2> HIDE DEF L
  <2>4. /\ KeysStored(L, c.pos, c.till) =
              KeysStored(L, c.pos, n) \cup KeysStored(L, n, c.till)
        /\ KeysStored(L, c.pos, n) \subseteq Keys
    <3> DEFINE i == c.pos
               j == c.till
    <3>1. i \in Int /\ n \in Int /\ j \in Int /\ i <= n /\ n <= j  BY <2>3
    <3> HIDE DEF i, j
    <3>2. /\ KeysStored(L, i, j) = KeysStored(L, i, n) \cup KeysStored(L, n, j)
          /\ KeysStored(L, i, n) \subseteq Keys
      BY <1>1, <3>1, StoredKeys
    <3> QED  BY <3>2 DEF i, j
  <2>5. Pending(x, db) = Pending(c, db) /\ Unwritten(x, db) = Unwritten(c, db)
    <3>1. Pending(x, db) = Pending(c, db)
      BY <2>1, <2>2, <2>4 DEF Pending, ToParse, L
    <3> QED  BY <2>1, <3>1 DEF Unwritten
  <2>6. Copied(x, db) = Copied(c, db)  BY <2>1 DEF Copied
  <2>7. CompactorShape(x, db)
    BY <2>1, <2>2, <2>3, <2>4 DEF CompactorShape, ToParse
  <2>8. SaysTheSame(x, db)  BY <2>2, <2>5, <2>6 DEF SaysTheSame, ToParse
  <2>9. Counts(x, db)  BY <2>1, <2>2, <2>5, <2>6 DEF Counts, ToParse
  <2>10. Reads(x, db)  BY <2>1, <2>2 DEF Reads, ToParse
  <2>11. Phases(x, db)  BY <2>1, <2>2 DEF Phases, ToParse
  <2> QED  BY <2>7, <2>8, <2>9, <2>10, <2>11 DEF Follows
<1>3. ASSUME KeysStored(L, c.pos, c.till) = {}, x = [c EXCEPT !.st = "catchUp"]
      PROVE  InStep(x, db)
  <2>1. /\ CompactorFields \subseteq DOMAIN x /\ x.st = "catchUp" /\ x.pos = c.pos
        /\ x.asked = c.asked /\ x.values = c.values
        /\ x.temp = c.temp /\ x.till = c.till /\ x.from = c.from
        /\ x.excess = c.excess
    BY <1>3 DEF CompactorFields
  <2> SUFFICES ASSUME db.handle  PROVE Follows(x, db)
    BY <2>1 DEF InStep
  <2>2. ToParse(c, db)  OBVIOUS
  <2>3. Pending(x, db) = Pending(c, db) /\ Unwritten(x, db) = Unwritten(c, db)
    BY <2>1 DEF Pending, Unwritten
  <2>4. Copied(x, db) = Copied(c, db)  BY <2>1 DEF Copied
  <2>5. CompactorShape(x, db)  BY <2>1, <2>2 DEF CompactorShape, ToParse
  <2>6. SaysTheSame(x, db)  BY <2>2, <2>3, <2>4 DEF SaysTheSame, ToParse
  <2>7. Counts(x, db)  BY <2>1, <2>2, <2>3, <2>4 DEF Counts, ToParse
  <2>8. Reads(x, db)  BY <2>1 DEF Reads
  <2>9. Phases(x, db)  BY <1>3, <2>1, <2>2 DEF Phases, ToParse
  <2> QED  BY <2>5, <2>6, <2>7, <2>8, <2>9 DEF Follows
<1> QED  BY <1>2, <1>3 DEF Parsed

LEMMA StartInStep ==
    ASSUME Sound(db), InStep(comp, db), CompactorStart
    PROVE  InStep(comp', db)
<1>1. /\ comp.st = "start" /\ CompactorFields \subseteq DOMAIN comp
      /\ comp' \in Parsed(comp)
  BY DEF CompactorStart, At, InStep
<1>2. db.handle => ToParse(comp, db)
  BY <1>1 DEF CompactorStart, At, InStep, Follows, Phases, ToParse
<1> QED  BY <1>1, <1>2, ParsedInStep

\* getManyRaw gives it what the map says now of the keys it asks for.
LEMMA ValuesInStep ==
    ASSUME Sound(db), Good(db), InStep(comp, db), GetManyRaw
    PROVE  InStep(comp', db)
<1> DEFINE c == comp
           x == comp'
           L == db.binlog
           v == [k \in c.asked \cap Mapped |-> db.map[k]]
<1>1. /\ c.st = "ask" /\ CompactorFields \subseteq DOMAIN c
      /\ x = [c EXCEPT !.st = "values", !.asked = {}, !.values = v]
      /\ c # None
  BY DEF GetManyRaw, At, InStep
<1>2. DOMAIN v = c.asked \cap Mapped /\ \A k \in c.asked \cap Mapped : v[k] = db.map[k]
  OBVIOUS
<1> HIDE DEF v
<1>3. /\ CompactorFields \subseteq DOMAIN x /\ x.st = "values" /\ x.pos = c.pos
      /\ x.asked = {} /\ x.values = v
      /\ x.temp = c.temp /\ x.till = c.till /\ x.from = c.from
      /\ x.excess = c.excess
  BY <1>1 DEF CompactorFields
<1> SUFFICES ASSUME db.handle  PROVE Follows(x, db)
  BY <1>3 DEF InStep
<1>4. Follows(c, db)  BY <1>1 DEF InStep
<1>5. v \in Record
  <2>1. db.map \in [Keys -> Slot] /\ c.asked \subseteq Keys
    BY <1>4 DEF Sound, LogShape, Follows, CompactorShape
  <2>2. v \in [c.asked \cap Mapped -> Slot]  BY <2>1 DEF v
  <2>3. c.asked \cap Mapped \in SUBSET Keys  BY <2>1
  <2> QED  BY <2>2, <2>3 DEF Record
<1>6. DOMAIN c.values = {}  BY <1>1, <1>4 DEF Follows, Phases
<1>7. \A k \in Keys \ db.removing : EntryOf(L, k) = db.map[k]
  BY DEF Sound, Agrees
<1>8. \A k \in Mapped : k \in Keys \ db.removing /\ db.map[k] # None
  BY DEF Mapped, Good, Waits
<1>9. Copied(x, db) = Copied(c, db)  BY <1>3 DEF Copied
<1>10. CompactorShape(x, db)
  BY <1>3, <1>4, <1>5 DEF CompactorShape, Follows
<1>11. SaysTheSame(x, db)
  <2> DEFINE X == Copied(c, db)
             K == KeysStored(L, c.pos, c.till)
  <2>1. \A k \in Keys : EntryOf(X, k) \in {None, EntryOf(L, k)}
    BY <1>4 DEF Follows, SaysTheSame
  <2>2. \A k \in Keys \ db.removing : EntryOf(X, k) # EntryOf(L, k) => k \in c.asked \cup K
    BY <1>4, <1>6 DEF Follows, SaysTheSame, Pending
  <2> HIDE DEF X, K
  <2>3. ASSUME NEW k \in Keys \ db.removing, EntryOf(X, k) # EntryOf(L, k)
        PROVE  k \in DOMAIN v \cup K
    <3>1. EntryOf(L, k) # None  BY <2>1, <2>3
    <3>2. k \in Mapped  BY <1>7, <3>1 DEF Mapped
    <3> QED  BY <1>2, <2>2, <2>3, <3>2
  <2>4. Pending(x, db) = DOMAIN v \cup K  BY <1>3 DEF Pending, K
  <2> QED  BY <1>9, <2>1, <2>3, <2>4 DEF SaysTheSame, X
<1>12. Counts(x, db)
  <2>1. MappedIn(db) = Mapped  BY DEF MappedIn, Mapped
  <2>2. MappedIn(db) \ Unwritten(x, db) = MappedIn(db) \ Unwritten(c, db)
    BY <1>2, <1>3, <1>6, <2>1 DEF Unwritten, Pending
  <2> QED  BY <1>3, <1>4, <1>9, <2>2 DEF Counts, Follows
<1>13. Reads(x, db)
  <2>1. \A k \in DOMAIN v : v[k] # None /\ v[k] = EntryOf(L, k)
    BY <1>2, <1>7, <1>8
  <2>2. /\ c.from = c.till
        /\ \A i \in DOMAIN c.temp : \A k \in DOMAIN c.temp[i] : c.temp[i][k] # None
    BY <1>1, <1>4 DEF Follows, Reads
  <2> QED  BY <1>3, <2>1, <2>2 DEF Reads
<1>14. Phases(x, db)  BY <1>3 DEF Phases
<1> QED  BY <1>10, <1>11, <1>12, <1>13, <1>14 DEF Follows

\* A turn of finalize copies what the compacted log would be.
LEMMA FinalizeInStep ==
    ASSUME Sound(db), InStep(comp, db), Finalize
    PROVE  InStep(comp', db)
<1> DEFINE c == comp
           x == comp'
           L == db.binlog
           X == Copied(c, db)
<1>1. /\ c.st = "catchUp" /\ CompactorFields \subseteq DOMAIN c /\ c # None
      /\ \E gap, ends : x = [CatchUp(c) EXCEPT !.gap = gap,
                                !.st = IF ends THEN "done" ELSE "catchUp"]
  BY DEF Finalize, At, InStep
<1>2. CatchUp(c) = [c EXCEPT !.temp = @ \o Rest(L, c.from), !.from = Len(L)]
  BY DEF CatchUp, Rest
<1>3. /\ CompactorFields \subseteq DOMAIN x /\ x.st \in {"done", "catchUp"}
      /\ x.pos = c.pos /\ x.asked = c.asked /\ x.values = c.values
      /\ x.temp = X /\ x.till = c.till /\ x.from = Len(L)
      /\ x.excess = c.excess
  <2> DEFINE y == CatchUp(c)
  <2>1. /\ CompactorFields \subseteq DOMAIN y /\ y.pos = c.pos /\ y.asked = c.asked
        /\ y.values = c.values /\ y.temp = X /\ y.till = c.till
        /\ y.from = Len(L) /\ y.excess = c.excess
    BY <1>1, <1>2 DEF CompactorFields, Copied
  <2>2. PICK gap, ends : x = [y EXCEPT !.gap = gap,
                                 !.st = IF ends THEN "done" ELSE "catchUp"]
    BY <1>1
  <2> HIDE DEF y, X
  <2> QED  BY <2>1, <2>2 DEF CompactorFields
<1> SUFFICES ASSUME db.handle  PROVE Follows(x, db)
  BY <1>3 DEF InStep
<1>4. Follows(c, db)  BY <1>1 DEF InStep
<1>5. IsLog(L) /\ Len(L) \in Nat
  BY LenProperties DEF Sound, LogShape, IsLog
<1>6. IsLog(X)
  <2>1. IsLog(c.temp) /\ c.from \in 0 .. Len(L)
    BY <1>4 DEF Follows, CompactorShape
  <2>2. IsLog(Rest(L, c.from))  BY <1>5, <2>1, RestIsLog
  <2> DEFINE R == Rest(L, c.from)
             T == c.temp
  <2>3. IsLog(T) /\ IsLog(R) /\ X = T \o R  BY <2>1, <2>2 DEF Copied
  <2> HIDE DEF R, T, X
  <2> QED  BY <2>3, Joined DEF IsJoin
<1>7. Copied(x, db) = X
  <2>1. Copied(x, db) = X \o Rest(L, Len(L))  BY <1>3 DEF Copied
  <2> HIDE DEF X
  <2>2. Len(L) \in 0 .. Len(L)  BY <1>5
  <2>3. Rest(L, Len(L)) = <<>>  BY <1>5, <2>2, RestDecides
  <2>4. X \o <<>> = X  BY <1>6, JoinsAssociate
  <2> QED  BY <2>1, <2>3, <2>4
<1>8. /\ Pending(x, db) = {} /\ Pending(c, db) = {}
      /\ Unwritten(x, db) = {} /\ Unwritten(c, db) = {}
  <2>1. DOMAIN c.values = {} /\ c.asked = {} /\ KeysStored(L, c.pos, c.till) = {}
    BY <1>1, <1>4 DEF Follows, Phases
  <2> QED  BY <1>3, <2>1 DEF Pending, Unwritten
<1>9. CompactorShape(x, db)
  <2>1. c.till \in 0 .. Len(L) /\ Len(L) \in 0 .. Len(L)
    BY <1>4, <1>5 DEF Follows, CompactorShape
  <2> QED  BY <1>3, <1>4, <1>6, <2>1 DEF CompactorShape, Follows
<1>10. SaysTheSame(x, db)
  BY <1>4, <1>7, <1>8 DEF SaysTheSame, Follows
<1>11. Counts(x, db)  BY <1>3, <1>4, <1>7, <1>8 DEF Counts, Follows
<1>12. Reads(x, db)  BY <1>3 DEF Reads
<1>13. Phases(x, db)  BY <1>1, <1>3, <1>4 DEF Phases, Follows
<1> QED  BY <1>9, <1>10, <1>11, <1>12, <1>13 DEF Follows

\* Before the reading is done the compactor has nothing but entries, so that
\* what it has written of a key is what the binlog says.
LEMMA WrittenIsSame ==
    ASSUME NEW c, NEW d, Follows(c, d), IsLog(d.binlog),
           c.st \in {"start", "ask", "values"}, NEW k \in Keys, k \in Written(c.temp)
    PROVE  EntryOf(Copied(c, d), k) = EntryOf(d.binlog, k)
<1> DEFINE T == c.temp
           L == d.binlog
           n == c.from
           R == Rest(L, n)
           X == T \o R
<1>1. IsLog(T) /\ IsLog(L) /\ n \in 0 .. Len(L)
  BY DEF Follows, CompactorShape
<1>2. \A i \in DOMAIN T : \A j \in DOMAIN T[i] : T[i][j] # None
  BY DEF Follows, Reads
<1>3. EntryOf(X, k) \in {None, EntryOf(L, k)}
  BY DEF Follows, SaysTheSame, Copied
<1>4. k \in Written(T)  OBVIOUS
<1>5. X = T \o R /\ R = Rest(L, n)  OBVIOUS
<1>6. Copied(c, d) = X  BY DEF Copied
<1> HIDE DEF T, L, n, R, X
<1>7. IsLog(R)  BY <1>1, <1>5, RestIsLog
<1>8. EntryOf(X, k) = IF Touching(R, k) = {} THEN EntryOf(T, k) ELSE EntryOf(R, k)
  BY <1>1, <1>5, <1>7, EntryOfJoined
<1>9. Touching(R, k) # {} => EntryOf(L, k) = EntryOf(R, k)
  BY <1>1, <1>5, RestDecides
<1>10. EntryOf(T, k) # None
  <2> DEFINE m == LastTouching(T, k)
  <2>1. Touching(T, k) # {}  BY <1>1, <1>4, WrittenIs
  <2>2. m \in Touching(T, k) /\ EntryOf(T, k) = T[m][k]  BY <1>1, <2>1, LastExists
  <2> HIDE DEF m
  <2>3. m \in DOMAIN T /\ k \in DOMAIN T[m]  BY <2>2 DEF Touching
  <2> QED  BY <1>2, <2>2, <2>3
<1>11. EntryOf(X, k) = EntryOf(L, k)  BY <1>3, <1>8, <1>9, <1>10
<1> QED  BY <1>6, <1>11 DEF L

\* What processValues has written, and what it goes on with.
Processed(c) ==
    LET new == [k \in DOMAIN c.values \ Written(c.temp) |-> c.values[k]]
        t == IF DOMAIN new = {} THEN c.temp ELSE Append(c.temp, new)
    IN  [c EXCEPT !.temp = t, !.values = MultiRemove({})]

LEMMA ProcessedToParse ==
    ASSUME NEW d, Sound(d), d.handle, NEW c, Follows(c, d),
           CompactorFields \subseteq DOMAIN c, c.st = "values",
           NEW x, x = Processed(c)
    PROVE  ToParse(x, d)
<1> DEFINE L == d.binlog
           T == c.temp
           n == c.from
           R == Rest(L, n)
           X == T \o R
           new == [k \in DOMAIN c.values \ Written(c.temp) |-> c.values[k]]
           t == IF DOMAIN new = {} THEN c.temp ELSE Append(c.temp, new)
           Y == t \o R
<1>1. /\ IsLog(T) /\ IsLog(L) /\ n \in 0 .. Len(L) /\ c.values \in Record
      /\ c.asked = {} /\ c.excess \in Int /\ d.excess \in Int
  BY DEF Follows, CompactorShape, Phases, Sound, LogShape
<1>2. DOMAIN c.values \subseteq Keys /\ \A k \in DOMAIN c.values : c.values[k] \in Slot
  BY <1>1, RecordsAre
<1>3. /\ DOMAIN new = DOMAIN c.values \ Written(T)
      /\ \A k \in DOMAIN new : new[k] = c.values[k] /\ new[k] \in Slot
  BY <1>2
<1>4. new \in Record
  <2>1. new \in [DOMAIN new -> Slot]  BY <1>3
  <2>2. DOMAIN new \in SUBSET Keys  BY <1>2, <1>3
  <2> HIDE DEF new
  <2> QED  BY <2>1, <2>2 DEF Record
<1>5. /\ CompactorFields \subseteq DOMAIN x /\ x.st = "values" /\ x.pos = c.pos
      /\ x.asked = c.asked /\ x.values = MultiRemove({})
      /\ x.temp = t /\ x.till = c.till /\ x.from = n
      /\ x.excess = c.excess
  <2>1. x = [c EXCEPT !.temp = t, !.values = MultiRemove({})]
    BY DEF Processed
  <2> HIDE DEF t
  <2> QED  BY <2>1 DEF CompactorFields
<1>6. /\ T = c.temp /\ n = c.from /\ L = d.binlog /\ R = Rest(L, n) /\ X = T \o R
      /\ Y = t \o R /\ Copied(c, d) = X /\ Copied(x, d) = Y
      /\ (DOMAIN new = {} => t = T) /\ (DOMAIN new # {} => t = Append(T, new))
  BY <1>5 DEF Copied
<1>7. /\ n = c.till
      /\ \A i \in DOMAIN T : \A k \in DOMAIN T[i] : T[i][k] # None
      /\ \A k \in DOMAIN c.values :
            c.values[k] # None /\ (Touching(R, k) = {} => c.values[k] = EntryOf(L, k))
  BY DEF Follows, Reads
<1> HIDE DEF new, t, X, Y, T, n, L, R
<1>8. MultiRemove({}) \in Record /\ DOMAIN MultiRemove({}) = {}
  BY RecordsAre
<1>9. IsLog(R)  BY <1>1, <1>6, RestIsLog
<1>10. IsLog(t)
  <2>1. CASE DOMAIN new = {}  BY <1>1, <1>6, <2>1
  <2>2. CASE DOMAIN new # {}
    <3>1. IsLog(Append(T, new))  BY <1>1, <1>4, Appended
    <3> QED  BY <1>6, <2>2, <3>1
  <2> QED  BY <2>1, <2>2
<1>11. Written(t) = Written(T) \cup DOMAIN new
  <2>1. CASE DOMAIN new = {}  BY <1>6, <2>1
  <2>2. CASE DOMAIN new # {}  BY <1>1, <1>4, <1>6, <2>2, WrittenIs
  <2> QED  BY <2>1, <2>2
<1>12. \A k : EntryOf(t, k) = IF k \in DOMAIN new THEN new[k] ELSE EntryOf(T, k)
  <2>1. CASE DOMAIN new = {}  BY <1>6, <2>1
  <2>2. CASE DOMAIN new # {}
    <3>1. \A k : EntryOf(Append(T, new), k)
                   = IF k \in DOMAIN new THEN new[k] ELSE EntryOf(T, k)
      <4> SUFFICES ASSUME NEW k
                   PROVE  EntryOf(Append(T, new), k)
                            = IF k \in DOMAIN new THEN new[k] ELSE EntryOf(T, k)
        OBVIOUS
      <4>1. IsLog(T) /\ new \in Record  BY <1>1, <1>4
      <4> DEFINE one == <<new>>
      <4>2. /\ IsLog(one) /\ Append(T, new) = T \o one
            /\ Touching(one, k) = {} <=> k \notin DOMAIN new
            /\ EntryOf(one, k) = IF k \in DOMAIN new THEN new[k] ELSE None
        BY <4>1, OneRecord, Appended
      <4> HIDE DEF one
      <4>3. EntryOf(T \o one, k)
              = IF Touching(one, k) = {} THEN EntryOf(T, k) ELSE EntryOf(one, k)
        BY <4>1, <4>2, EntryOfJoined
      <4> QED  BY <4>2, <4>3
    <3> QED  BY <1>6, <2>2, <3>1
  <2> QED  BY <2>1, <2>2
<1>13. \A k : /\ EntryOf(Y, k) = IF Touching(R, k) = {} THEN EntryOf(t, k)
                                                     ELSE EntryOf(R, k)
              /\ EntryOf(X, k) = IF Touching(R, k) = {} THEN EntryOf(T, k)
                                                     ELSE EntryOf(R, k)
              /\ Touching(R, k) # {} => EntryOf(L, k) = EntryOf(R, k)
  <2> SUFFICES ASSUME NEW k
               PROVE  /\ EntryOf(Y, k) = IF Touching(R, k) = {} THEN EntryOf(t, k)
                                                             ELSE EntryOf(R, k)
                      /\ EntryOf(X, k) = IF Touching(R, k) = {} THEN EntryOf(T, k)
                                                             ELSE EntryOf(R, k)
                      /\ Touching(R, k) # {} => EntryOf(L, k) = EntryOf(R, k)
    OBVIOUS
  <2>1. EntryOf(Y, k) = IF Touching(R, k) = {} THEN EntryOf(t, k) ELSE EntryOf(R, k)
    BY <1>6, <1>9, <1>10, EntryOfJoined
  <2>2. EntryOf(X, k) = IF Touching(R, k) = {} THEN EntryOf(T, k) ELSE EntryOf(R, k)
    BY <1>1, <1>6, <1>9, EntryOfJoined
  <2>3. Touching(R, k) # {} => EntryOf(L, k) = EntryOf(R, k)
    BY <1>1, <1>6, RestDecides
  <2> QED  BY <2>1, <2>2, <2>3
<1>14. \A k : k \notin DOMAIN new => EntryOf(Y, k) = EntryOf(X, k)
  BY <1>12, <1>13
<1>15. \A k \in DOMAIN new : EntryOf(Y, k) = EntryOf(L, k)
  BY <1>3, <1>7, <1>12, <1>13
<1>16. CompactorShape(x, d)
  BY <1>1, <1>5, <1>6, <1>8, <1>10 DEF CompactorShape, Follows
<1> DEFINE K == KeysStored(L, c.pos, c.till)
<1>17. /\ Pending(c, d) = DOMAIN c.values \cup K
       /\ Pending(x, d) = K
  BY <1>1, <1>5, <1>6, <1>8 DEF Pending
<1> HIDE DEF K
<1>18. SaysTheSame(x, d)
  <2>1. \A k \in Keys : EntryOf(X, k) \in {None, EntryOf(L, k)}
    BY <1>6 DEF Follows, SaysTheSame
  <2>2. \A k \in Keys \ d.removing : EntryOf(X, k) # EntryOf(L, k) => k \in DOMAIN c.values \cup K
    BY <1>6, <1>17 DEF Follows, SaysTheSame
  <2>3. \A k \in Keys : k \in Written(T) => EntryOf(X, k) = EntryOf(L, k)
    BY <1>1, <1>6, WrittenIsSame
  <2>4. \A k \in Keys : EntryOf(Y, k) \in {None, EntryOf(L, k)}
    BY <1>14, <1>15, <2>1
  <2>5. \A k \in Keys \ d.removing : EntryOf(Y, k) # EntryOf(L, k) => k \in K
    BY <1>3, <1>14, <1>15, <2>2, <2>3
  <2> QED  BY <1>6, <1>17, <2>4, <2>5 DEF SaysTheSame
<1>19. Weight(Y) = Weight(X) + Cardinality(DOMAIN new) /\ Cardinality(DOMAIN new) \in Nat
  <2>0. IsFiniteSet(DOMAIN new) /\ Cardinality(DOMAIN new) \in Nat
    <3>1. DOMAIN new \in SUBSET Keys  BY <1>2, <1>3
    <3> QED  BY <3>1, LogAssumption, FS_Subset, FS_CardinalityType
  <2>1. Weight(Y) = Weight(t) + Weight(R)  BY <1>6, <1>9, <1>10, WeightJoined
  <2>2. Weight(X) = Weight(T) + Weight(R)  BY <1>1, <1>6, <1>9, WeightJoined
  <2>3. Weight(T) \in Nat /\ Weight(R) \in Nat  BY <1>1, <1>9, CountsAreFinite
  <2>4. Weight(t) = Weight(T) + Cardinality(DOMAIN new)
    <3>1. CASE DOMAIN new = {}
      <4>1. Cardinality(DOMAIN new) = 0  BY <3>1, FS_EmptySet
      <4> QED  BY <1>6, <2>3, <3>1, <4>1
    <3>2. CASE DOMAIN new # {}
      <4> DEFINE r == <<new>>
      <4>1. t = T \o r /\ IsLog(r)  BY <1>1, <1>4, <1>6, <3>2, Appended, OneRecord
      <4>2. \A k \in DOMAIN new : new[k] # None  BY <1>3, <1>7
      <4>3. Weight(r) = Cardinality(DOMAIN new)  BY <1>4, <3>2, <4>2, RecordsWeigh
      <4> HIDE DEF r
      <4>4. Weight(t) = Weight(T) + Weight(r)  BY <1>1, <4>1, WeightJoined
      <4> QED  BY <4>3, <4>4
    <3> QED  BY <3>1, <3>2
  <2> QED  BY <2>0, <2>1, <2>2, <2>3, <2>4
<1>20. Counts(x, d)
  <2> DEFINE A == MappedIn(d) \ Unwritten(c, d)
             B == MappedIn(d) \ Unwritten(x, d)
             N == DOMAIN new
  <2>1. B \in SUBSET (A \cup N)
    BY <1>3, <1>5, <1>6, <1>11, <1>17 DEF Unwritten
  <2>2. IsFiniteSet(A) /\ Cardinality(A) \in Nat /\ Cardinality(B) \in Nat
    BY MappedIsFinite
  <2>3. IsFiniteSet(N)
    <3>1. N \in SUBSET Keys  BY <1>2, <1>3
    <3> QED  BY <3>1, LogAssumption, FS_Subset
  <2>4. d.excess + Cardinality(A) <= c.excess + Weight(X)
    BY <1>6 DEF Follows, Counts
  <2>5. Weight(Y) = Weight(X) + Cardinality(N) /\ Cardinality(N) \in Nat  BY <1>19
  <2> HIDE DEF A, B, N
  <2>6. /\ IsFiniteSet(A \cup N)
        /\ Cardinality(A \cup N) = Cardinality(A) + Cardinality(N) - Cardinality(A \cap N)
    BY <2>2, <2>3, FS_Union
  <2>7. IsFiniteSet(A \cap N)  BY <2>2, FS_Intersection
  <2>8. Cardinality(A \cap N) \in Nat /\ Cardinality(A \cup N) \in Nat
    BY <2>6, <2>7, FS_CardinalityType
  <2>9. Cardinality(B) <= Cardinality(A \cup N)  BY <2>1, <2>6, FS_Subset
  <2>10. IsLog(X) /\ Weight(X) \in Nat
    <3>1. IsLog(X)  BY <1>1, <1>6, <1>9, Joined DEF IsJoin
    <3> QED  BY <3>1, CountsAreFinite
  <2>11. d.excess \in Int /\ c.excess \in Int  BY <1>1
  <2>12. Cardinality(B) <= Cardinality(A) + Cardinality(N)  BY <2>2, <2>5, <2>6, <2>8, <2>9
  <2>13. d.excess + Cardinality(B) <= c.excess + Weight(Y)
    <3> DEFINE cA == Cardinality(A)
               cB == Cardinality(B)
               cN == Cardinality(N)
               wX == Weight(X)
               wY == Weight(Y)
               de == d.excess
               ce == c.excess
    <3>1. /\ cA \in Nat /\ cB \in Nat /\ cN \in Nat /\ wX \in Nat /\ de \in Int /\ ce \in Int
          /\ cB <= cA + cN /\ wY = wX + cN /\ de + cA <= ce + wX
      BY <2>2, <2>4, <2>5, <2>10, <2>11, <2>12
    <3> HIDE DEF cA, cB, cN, wX, wY, de, ce
    <3>2. de + cB <= ce + wY  BY <3>1
    <3> QED  BY <3>2 DEF de, ce, cB, wY
  <2> QED  BY <1>5, <1>6, <2>13 DEF Counts, B
<1>21. Reads(x, d)
  <2>1. \A i \in DOMAIN t : \A k \in DOMAIN t[i] : t[i][k] # None
    <3>1. CASE DOMAIN new = {}  BY <1>6, <1>7, <3>1
    <3>2. CASE DOMAIN new # {}
      <4> DEFINE Q == Record
      <4>0. T \in Seq(Q) /\ new \in Q  BY <1>1, <1>4 DEF IsLog
      <4> HIDE DEF Q
      <4>1. /\ DOMAIN T = 1 .. Len(T) /\ Len(T) \in Nat
            /\ DOMAIN t = 1 .. Len(T) + 1
            /\ \A i \in 1 .. Len(T) : t[i] = T[i]
            /\ t[Len(T) + 1] = new
        <5> DEFINE u == Append(T, new)
        <5>1. /\ u \in Seq(Q) /\ Len(u) = Len(T) + 1
              /\ \A i \in 1 .. Len(T) : u[i] = T[i]
              /\ u[Len(T) + 1] = new
          BY <4>0, AppendProperties
        <5>2. t = u  BY <1>6, <3>2
        <5> HIDE DEF u
        <5>3. /\ DOMAIN T = 1 .. Len(T) /\ Len(T) \in Nat /\ DOMAIN u = 1 .. Len(u)
          BY <4>0, <5>1, LenProperties
        <5> QED  BY <5>1, <5>2, <5>3
      <4>2. \A k \in DOMAIN new : new[k] # None  BY <1>3, <1>7
      <4>3. \A i \in DOMAIN t : i \in DOMAIN T \/ i = Len(T) + 1  BY <4>1
      <4> QED  BY <1>7, <4>1, <4>2, <4>3
    <3> QED  BY <3>1, <3>2
  <2> QED  BY <1>5, <1>6, <1>7, <1>8, <2>1 DEF Reads
<1> QED
  BY <1>1, <1>5, <1>8, <1>16, <1>18, <1>20, <1>21 DEF ToParse

LEMMA ProcessInStep ==
    ASSUME Sound(db), InStep(comp, db), ProcessValues
    PROVE  InStep(comp', db)
<1> DEFINE x == Processed(comp)
<1>1. /\ comp.st = "values" /\ CompactorFields \subseteq DOMAIN comp
      /\ comp' \in Parsed(x) /\ comp # None
  BY DEF ProcessValues, At, InStep, Processed
<1>2. CompactorFields \subseteq DOMAIN x  BY <1>1 DEF Processed, CompactorFields
<1>3. x = Processed(comp)  OBVIOUS
<1> HIDE DEF x
<1>4. db.handle => ToParse(x, db)
  <2> SUFFICES ASSUME db.handle  PROVE ToParse(x, db)  OBVIOUS
  <2>1. Follows(comp, db)  BY <1>1 DEF InStep
  <2> QED  BY <1>1, <1>3, <2>1, ProcessedToParse
<1> QED  BY <1>1, <1>2, <1>4, ParsedInStep

-----------------------------------------------------------------------------
(* What the functions of a task do to the log. *)

Goes(d, z) == Sound(z) /\ Evolves(d, z)

LEMMA GoesOn ==
    ASSUME NEW d, NEW e, NEW z, Sound(d), Goes(d, e), Goes(e, z)
    PROVE  Goes(d, z)
BY EvolvesTwice DEF Goes, Sound

LEMMA RemovedGoes ==
    ASSUME NEW d, NEW z, NEW S \in SUBSET Keys, Good(d), Sound(d), Removed(d, z, S),
           Shape(z), DOMAIN z.files = Places
    PROVE  Goes(d, z)
<1>1. \A k \in d.removing : d.map[k] = None  BY DEF Good, Waits
<1> QED  BY <1>1, RemovedEvolves DEF Goes

\* What the log is about is left alone.
Alike(d, z) ==
    /\ Shape(z) /\ DOMAIN z.files = Places
    /\ z.map = d.map /\ z.removing = d.removing /\ z.binlog = d.binlog
    /\ z.excess = d.excess /\ z.handle = d.handle

LEMMA AlikeGoes ==
    ASSUME NEW d, NEW z, Good(d), Sound(d), Alike(d, z)
    PROVE  Goes(d, z)
<1>1. d.map = [k \in Keys |-> d.map[k]]  BY DEF Sound, LogShape
<1>2. Removed(d, z, {})  BY <1>1 DEF Removed, Alike
<1> QED  BY <1>2, RemovedGoes DEF Alike

\* The binlog is closed after a write that failed.
LEMMA LostGoes ==
    ASSUME NEW d, NEW z, Good(d), Sound(d), Shape(z), DOMAIN z.files = Places,
           z.map = d.map, z.removing \subseteq d.removing, z.binlog = d.binlog,
           z.excess = d.excess, z.handle = FALSE
    PROVE  Goes(d, z)
<1>1. d.map = [k \in Keys |-> d.map[k]]  BY DEF Sound, LogShape
<1>2. Removed(d, z, {})  BY <1>1 DEF Removed
<1> QED  BY <1>2, RemovedGoes

LEMMA WriteMultiRemoveIs ==
    ASSUME NEW d, LogShape(d), NEW ok, NEW e, e = WriteMultiRemove(d, ok)
    PROVE  /\ Removed(d, e, {}) /\ Shape(e) /\ e.files = d.files
           /\ e.removing = {} /\ e.map = d.map
           /\ (ok => e.handle = d.handle)
<1>1. d.map = [k \in Keys |-> d.map[k]] /\ Fields \subseteq DOMAIN d
  BY DEF LogShape, Shape
<1>2. CASE d.removing = {}
  <2>1. e = d  BY <1>2 DEF WriteMultiRemove
  <2> QED  BY <1>1, <1>2, <2>1 DEF Removed, LogShape
<1>3. CASE d.removing # {} /\ ok
  <2>1. e = [d EXCEPT !.removing = {},
                      !.binlog = Append(@, MultiRemove(d.removing)),
                      !.excess = @ + 1]
    BY <1>3 DEF WriteMultiRemove
  <2>2. /\ Shape(e) /\ e.files = d.files /\ e.removing = {} /\ e.map = d.map
        /\ e.handle = d.handle /\ e.excess = d.excess + 1
        /\ e.binlog = Append(d.binlog, MultiRemove(d.removing))
    BY <1>1, <2>1 DEF Shape, Fields, LogShape
  <2>3. d.removing \cup {} = d.removing  OBVIOUS
  <2> QED  BY <1>1, <2>2, <2>3 DEF Removed
<1>4. CASE d.removing # {} /\ ~ok
  <2>1. e = [d EXCEPT !.removing = {}, !.handle = FALSE]
    BY <1>4 DEF WriteMultiRemove
  <2>2. /\ Shape(e) /\ e.files = d.files /\ e.removing = {} /\ e.map = d.map
        /\ e.handle = FALSE /\ e.excess = d.excess /\ e.binlog = d.binlog
    BY <1>1, <2>1 DEF Shape, Fields, LogShape
  <2> QED  BY <1>1, <1>4, <2>2 DEF Removed
<1> QED  BY <1>2, <1>3, <1>4

\* The entry of k is gone, and its data if it could be deleted.
RemovesOne(d, z, k, ok, unlinked) ==
    /\ Removed(d, z, {k}) /\ Shape(z) /\ (ok => z.handle = d.handle)
    /\ z.files = [d.files EXCEPT ![d.map[k].place] = IF unlinked THEN None ELSE @]
    /\ DOMAIN z.files = Places

LEMMA RemoveEntryIs ==
    ASSUME NEW d, LogShape(d), NEW k \in Keys, d.map[k] # None, NEW ok, NEW unlinked,
           NEW z, z = RemoveEntry(d, k, ok, unlinked)
    PROVE  RemovesOne(d, z, k, ok, unlinked)
<1> DEFINE x == [d EXCEPT !.removing = @ \cup {k}]
           y == WriteMultiRemoveLazy(x, ok)
           r == MultiRemove(d.removing \cup {k})
<1>1. z = [y EXCEPT !.map[k] = None,
                    !.files[d.map[k].place] = IF unlinked THEN None ELSE @]
  BY DEF RemoveEntry
<1>2. /\ Shape(x) /\ x.removing = d.removing \cup {k} /\ x.map = d.map
      /\ x.binlog = d.binlog /\ x.excess = d.excess /\ x.handle = d.handle
      /\ x.files = d.files
  BY DEF LogShape, Shape, Fields
<1>3. r = MultiRemove(x.removing)  BY <1>2
<1> HIDE DEF x, r
<1>4. /\ Shape(y) /\ y.map = d.map /\ y.files = d.files
      /\ ok => y.handle = d.handle
      /\ \/ /\ y.removing = d.removing \cup {k} /\ y.binlog = d.binlog
            /\ y.excess = d.excess /\ y.handle = d.handle
         \/ /\ y.removing = {} /\ y.binlog = Append(d.binlog, r)
            /\ y.excess = d.excess + 1 /\ y.handle = d.handle
         \/ /\ y.binlog = d.binlog /\ y.excess = d.excess /\ y.handle = FALSE
            /\ y.removing = {}
  <2>1. CASE Cardinality(x.removing) = MaxBundled /\ ok
    <3>1. y = [x EXCEPT !.removing = {},
                        !.binlog = Append(@, MultiRemove(x.removing)),
                        !.excess = @ + 1]
      BY <1>2, <2>1 DEF WriteMultiRemoveLazy, WriteMultiRemove
    <3> HIDE DEF y
    <3>2. /\ Shape(y) /\ y.map = x.map /\ y.files = x.files /\ y.handle = x.handle
          /\ y.removing = {} /\ y.excess = x.excess + 1
          /\ y.binlog = Append(x.binlog, MultiRemove(x.removing))
      BY <1>2, <3>1 DEF Shape, Fields
    <3> QED  BY <1>2, <1>3, <3>2
  <2>2. CASE Cardinality(x.removing) = MaxBundled /\ ~ok
    <3>1. y = [x EXCEPT !.removing = {}, !.handle = FALSE]
      BY <1>2, <2>2 DEF WriteMultiRemoveLazy, WriteMultiRemove
    <3> HIDE DEF y
    <3>2. /\ Shape(y) /\ y.map = x.map /\ y.files = x.files /\ y.handle = FALSE
          /\ y.removing = {} /\ y.excess = x.excess /\ y.binlog = x.binlog
      BY <1>2, <3>1 DEF Shape, Fields
    <3> QED  BY <1>2, <2>2, <3>2
  <2>3. CASE Cardinality(x.removing) # MaxBundled
    <3>1. y = [x EXCEPT !.armed = TRUE]  BY <2>3 DEF WriteMultiRemoveLazy
    <3> HIDE DEF y
    <3>2. /\ Shape(y) /\ y.map = x.map /\ y.files = x.files /\ y.handle = x.handle
          /\ y.removing = x.removing /\ y.excess = x.excess /\ y.binlog = x.binlog
      BY <1>2, <3>1 DEF Shape, Fields
    <3> QED  BY <1>2, <3>2
  <2> QED  BY <2>1, <2>2, <2>3
<1> HIDE DEF y
<1>5. /\ Shape(z) /\ z.map = [d.map EXCEPT ![k] = None] /\ z.removing = y.removing
      /\ z.files = [d.files EXCEPT ![d.map[k].place] = IF unlinked THEN None ELSE @]
      /\ z.binlog = y.binlog /\ z.excess = y.excess /\ z.handle = y.handle
  BY <1>1, <1>4 DEF Shape, Fields
<1>6. z.map = [j \in Keys |-> IF j \in {k} THEN None ELSE d.map[j]]
  BY <1>5 DEF LogShape
<1>7. Removed(d, z, {k})  BY <1>4, <1>5, <1>6 DEF Removed, r
<1>8. DOMAIN z.files = Places  BY <1>5 DEF LogShape
<1> QED  BY <1>4, <1>5, <1>7, <1>8 DEF RemovesOne

\* The entry of k is gone and the removals that waited are written with it.
MovesAway(d, z, k, ok) ==
    /\ Removed(d, z, {k}) /\ Shape(z) /\ z.files = d.files /\ z.removing = {}
    /\ ok => /\ z.handle = d.handle
             /\ z.binlog = Append(d.binlog, MultiRemove(d.removing \cup {k}))

LEMMA MoveAwayIs ==
    ASSUME NEW d, LogShape(d), NEW k \in Keys, NEW ok, NEW z, z = MoveAway(d, k, ok)
    PROVE  MovesAway(d, z, k, ok)
<1> DEFINE x == [d EXCEPT !.removing = @ \cup {k}, !.map[k] = None]
           r == MultiRemove(d.removing \cup {k})
<1>1. /\ Shape(x) /\ x.removing = d.removing \cup {k} /\ x.map = [d.map EXCEPT ![k] = None]
      /\ x.binlog = d.binlog /\ x.excess = d.excess /\ x.handle = d.handle
      /\ x.files = d.files
  BY DEF LogShape, Shape, Fields
<1>2. z = WriteMultiRemove(x, ok)  BY DEF MoveAway
<1>3. r = MultiRemove(x.removing)  BY <1>1
<1> HIDE DEF x, r
<1>4. x.map = [j \in Keys |-> IF j \in {k} THEN None ELSE d.map[j]]
  BY <1>1 DEF LogShape
<1>5. CASE ok
  <2>1. z = [x EXCEPT !.removing = {},
                      !.binlog = Append(@, MultiRemove(x.removing)),
                      !.excess = @ + 1]
    BY <1>1, <1>2, <1>5 DEF WriteMultiRemove
  <2>2. /\ Shape(z) /\ z.map = x.map /\ z.files = x.files /\ z.handle = x.handle
        /\ z.removing = {} /\ z.excess = x.excess + 1
        /\ z.binlog = Append(x.binlog, MultiRemove(x.removing))
    BY <1>1, <2>1 DEF Shape, Fields
  <2> QED  BY <1>1, <1>3, <1>4, <2>2 DEF Removed, MovesAway, r
<1>6. CASE ~ok
  <2>1. z = [x EXCEPT !.removing = {}, !.handle = FALSE]
    BY <1>1, <1>2, <1>6 DEF WriteMultiRemove
  <2>2. /\ Shape(z) /\ z.map = x.map /\ z.files = x.files /\ z.handle = FALSE
        /\ z.removing = {} /\ z.excess = x.excess /\ z.binlog = x.binlog
    BY <1>1, <2>1 DEF Shape, Fields
  <2> QED  BY <1>1, <1>4, <1>6, <2>2 DEF Removed, MovesAway
<1> QED  BY <1>5, <1>6

LEMMA RescueIs ==
    ASSUME NEW d, LogShape(d), NEW k \in Keys, NEW r, r = Rescue(d, k)
    PROVE  /\ Shape(r) /\ r.map = d.map /\ r.removing = d.removing \ {k}
           /\ r.binlog = d.binlog /\ r.excess = d.excess /\ r.handle = d.handle
           /\ r.files = d.files
BY DEF Rescue, LogShape, Shape, Fields

LEMMA StoreIs ==
    ASSUME NEW d, LogShape(d), NEW k \in Keys, NEW e,
           NEW z, z = WriteStore(Rescue(d, k), k, e)
    PROVE  Stored(d, z, k, e) /\ Shape(z) /\ z.files = d.files
<1> DEFINE r == Rescue(d, k)
<1>1. /\ Shape(r) /\ r.map = d.map /\ r.removing = d.removing \ {k}
      /\ r.binlog = d.binlog /\ r.excess = d.excess /\ r.handle = d.handle
      /\ r.files = d.files
  BY RescueIs
<1>2. z = WriteStore(r, k, e)  OBVIOUS
<1> HIDE DEF r
<1>3. /\ Shape(z) /\ z.map = [r.map EXCEPT ![k] = e] /\ z.removing = r.removing
      /\ z.binlog = Append(r.binlog, Store(k, e)) /\ z.handle = r.handle
      /\ z.excess = IF r.map[k] # None THEN r.excess + 1 ELSE r.excess
      /\ z.files = r.files
  BY <1>1, <1>2 DEF WriteStore, Shape, Fields
<1> QED  BY <1>1, <1>3 DEF Stored

\* The place a put draws holds the data of no other entry.
LEMMA PlaceIsFree ==
    ASSUME NEW d, Good(d), Sound(d), d.handle, NEW k \in Keys,
           NEW p \in PlacesFor(Rescue(d, k), k)
    PROVE  p \in Places /\ Apart(d.binlog, k, p)
<1> DEFINE r == Rescue(d, k)
<1>1. /\ r.map = d.map /\ r.files = d.files /\ r.binlog = d.binlog /\ LogShape(d)
  BY RescueIs DEF Sound
<1>2. p \in PlacesFor(r, k)  OBVIOUS
<1> HIDE DEF r
<1>3. CASE d.map[k] # None
  <2>1. p = d.map[k].place  BY <1>1, <1>2, <1>3 DEF PlacesFor
  <2>2. d.map[k] \in Entry  BY <1>1, <1>3 DEF LogShape, Slot
  <2>3. EntryOf(d.binlog, k) = d.map[k]
    BY <1>3 DEF Sound, Agrees, Good, Waits
  <2> QED  BY <1>3, <2>1, <2>2, <2>3 DEF Apart, Sound, Distinct, Entry
<1>4. CASE d.map[k] = None
  <2>1. p \in Places /\ p \notin Named(d.binlog)  BY <1>1, <1>2, <1>4 DEF PlacesFor
  <2>2. \A j \in Keys : EntryOf(d.binlog, j) # None => EntryOf(d.binlog, j).place \in Named(d.binlog)
    BY EntryIsNamed, <1>1 DEF LogShape
  <2> QED  BY <2>1, <2>2 DEF Apart
<1> QED  BY <1>3, <1>4

LEMMA EntriesAre ==
    ASSUME NEW p \in Places, NEW v \in Values
    PROVE  [place |-> p, sum |-> v] \in Entry /\ [place |-> p, sum |-> v] # None
<1>1. [place |-> p, sum |-> v] \in Entry  BY DEF Entry
<1> QED  BY <1>1, LogAssumption

\* The store of a put, which cannot fail half way.
LEMMA PutStores ==
    ASSUME NEW d, Good(d), Sound(d), NEW k \in Keys, NEW v \in Values,
           NEW r, r = Rescue(d, k), d.handle, NEW p \in PlacesFor(r, k),
           NEW n, n = [place |-> p, sum |-> v], NEW e, e = WriteStore(r, k, n)
    PROVE  /\ p \in Places /\ Apart(d.binlog, k, p) /\ n \in Entry
           /\ Stored(d, e, k, n) /\ Shape(e) /\ e.files = d.files
           /\ Goes(d, e) /\ Good(e) /\ e.map[k] = n /\ n # None
<1>0. LogShape(d) /\ DOMAIN d.files = Places  BY DEF Sound, LogShape
<1>2. p \in Places /\ Apart(d.binlog, k, p)  BY PlaceIsFree
<1>3. n \in Entry /\ n # None /\ n.place = p  BY <1>2, EntriesAre
<1>4. Good(e)
  <2>1. Good(r) /\ k \notin r.removing /\ k \notin r.stale  BY RescueKeeps
  <2> QED  BY <2>1, StoreKeeps
<1>5. Stored(d, e, k, n) /\ Shape(e) /\ e.files = d.files  BY <1>0, StoreIs
<1>6. Goes(d, e)  BY <1>0, <1>2, <1>3, <1>5, StoredEvolves DEF Goes
<1>7. e.map[k] = n  BY <1>0, <1>5 DEF Stored, LogShape
<1> QED  BY <1>2, <1>3, <1>4, <1>5, <1>6, <1>7

\* Something is written to a data file.
LEMMA PlaceWritten ==
    ASSUME NEW e, Good(e), Sound(e), NEW p \in Places, NEW left,
           NEW f, f = [e EXCEPT !.files[p] = left]
    PROVE  /\ Alike(e, f) /\ f.files = [e.files EXCEPT ![p] = left]
           /\ Good(f) /\ Sound(f) /\ Goes(e, f)
<1>0. LogShape(e)  BY DEF Sound
<1>1. Alike(e, f) /\ f.files = [e.files EXCEPT ![p] = left]
  BY <1>0 DEF LogShape, Shape, Fields, Alike
<1>2. f.stale = e.stale /\ f.fresh = e.fresh /\ f.armed = e.armed
  BY <1>0 DEF LogShape, Shape, Fields
<1>3. Good(f)
  <2>1. Shape(f) /\ f.map = e.map /\ f.removing = e.removing  BY <1>1 DEF Alike
  <2> QED  BY <1>2, <2>1, QuietKeeps
<1>4. Goes(e, f)  BY <1>1, AlikeGoes
<1> QED  BY <1>1, <1>3, <1>4 DEF Goes

LEMMA PutGoes ==
    ASSUME NEW c, NEW d, Good(d), Sound(d), InStep(c, d), NEW k \in Keys,
           NEW v \in Values, PutFrom(c, d, k, v)
    PROVE  Goes(d, db') /\ InStep(comp', db')
<1> DEFINE r == Rescue(d, k)
<1>0. LogShape(d) /\ DOMAIN d.files = Places  BY DEF Sound, LogShape
<1>1. /\ Shape(r) /\ r.map = d.map /\ r.removing = d.removing \ {k}
      /\ r.binlog = d.binlog /\ r.excess = d.excess /\ r.handle = d.handle
      /\ r.files = d.files
  BY <1>0, RescueIs
<1>2. Good(r) /\ k \notin r.removing /\ k \notin r.stale  BY RescueKeeps
<1>3. CASE /\ Lookup(r.map, r.files, k) = v
           /\ db' = [r EXCEPT !.armed = TRUE] /\ comp' \in Optimized(c, r)
  <2>1. v # None  BY LogAssumption
  <2>2. r.map[k] # None  BY <1>3, <2>1 DEF Lookup
  <2> HIDE DEF r
  <2>3. k \notin d.removing  BY <1>1, <2>2 DEF Good, Waits
  <2>4. Alike(d, r)  BY <1>0, <1>1, <2>3 DEF Alike
  <2>5. Goes(d, r)  BY <2>4, AlikeGoes
  <2>6. Sound(r) /\ LogShape(r) /\ Evolves(d, r)  BY <2>5 DEF Goes, Sound
  <2>7. InStep(c, r)  BY <1>0, <2>6, InStepOn
  <2>8. InStep(comp', r)  BY <1>2, <1>3, <2>6, <2>7, OptimizedInStep
  <2>9. Alike(r, db')  BY <1>0, <1>1, <1>3 DEF Alike, Shape, Fields
  <2>10. Goes(r, db')  BY <1>2, <2>6, <2>9, AlikeGoes
  <2>11. LogShape(db') /\ Evolves(r, db')  BY <2>10 DEF Goes, Sound
  <2>12. InStep(comp', db')  BY <2>6, <2>8, <2>11, InStepOn
  <2> QED  BY <2>5, <2>10, <2>12, GoesOn
<1>4. CASE db' = [r EXCEPT !.handle = FALSE, !.armed = TRUE] /\ comp' = c
  <2> HIDE DEF r
  <2>1. /\ Shape(db') /\ db'.files = r.files /\ db'.map = r.map /\ db'.binlog = r.binlog
        /\ db'.excess = r.excess /\ db'.handle = FALSE /\ db'.removing = r.removing
    BY <1>1, <1>4 DEF Shape, Fields
  <2>2. Goes(d, db')  BY <1>0, <1>1, <2>1, LostGoes
  <2>3. LogShape(db') /\ Evolves(d, db')  BY <2>2 DEF Goes, Sound
  <2> QED  BY <1>0, <1>4, <2>2, <2>3, InStepOn
<1>5. ASSUME TRUE \in BinlogWrites(r), NEW p \in PlacesFor(r, k),
             NEW e, e = WriteStore(r, k, [place |-> p, sum |-> v])
      PROVE  /\ Goes(d, e) /\ InStep(c, e) /\ Good(e) /\ p \in Places
             /\ e.map[k] # None
  <2> DEFINE n == [place |-> p, sum |-> v]
  <2>1. Goes(d, e) /\ Good(e) /\ p \in Places /\ e.map[k] # None
    <3>1. /\ e = WriteStore(r, k, n) /\ n = [place |-> p, sum |-> v]
          /\ d.handle /\ r = Rescue(d, k)
      BY <1>1, <1>5 DEF BinlogWrites
    <3> HIDE DEF n, r
    <3> QED  BY <1>5, <3>1, PutStores
  <2>2. LogShape(e) /\ Evolves(d, e)  BY <2>1 DEF Goes, Sound
  <2> QED  BY <1>0, <2>1, <2>2, InStepOn
<1>6. ASSUME TRUE \in BinlogWrites(r), NEW p \in PlacesFor(r, k), NEW e,
             e = WriteStore(r, k, [place |-> p, sum |-> v]),
             db' = [e EXCEPT !.files[p] = v], comp' \in Optimized(c, e)
      PROVE  Goes(d, db') /\ InStep(comp', db')
  <2>1. Goes(d, e) /\ InStep(c, e) /\ Good(e) /\ p \in Places  BY <1>5, <1>6
  <2>2. Sound(e) /\ LogShape(e)  BY <2>1 DEF Goes, Sound
  <2>3. InStep(comp', e)  BY <1>6, <2>1, <2>2, OptimizedInStep
  <2>5. Goes(e, db')  BY <1>6, <2>1, <2>2, PlaceWritten
  <2>6. LogShape(db') /\ Evolves(e, db')  BY <2>5 DEF Goes, Sound
  <2> QED  BY <2>1, <2>2, <2>3, <2>5, <2>6, InStepOn, GoesOn
<1>7. ASSUME TRUE \in BinlogWrites(r), NEW p \in PlacesFor(r, k), NEW e,
             e = WriteStore(r, k, [place |-> p, sum |-> v]), comp' = c,
             NEW ok, NEW unlinked, NEW left,
             db' = RemoveEntry([e EXCEPT !.files[p] = left], k, ok, unlinked)
      PROVE  Goes(d, db') /\ InStep(comp', db')
  <2> DEFINE f == [e EXCEPT !.files[p] = left]
  <2>1. Goes(d, e) /\ InStep(c, e) /\ Good(e) /\ p \in Places /\ e.map[k] # None
    BY <1>5, <1>7
  <2>2. Sound(e) /\ LogShape(e)  BY <2>1 DEF Goes, Sound
  <2>3. Alike(e, f) /\ Good(f) /\ Sound(f) /\ Goes(e, f)
    BY <2>1, <2>2, PlaceWritten
  <2>5. db' = RemoveEntry(f, k, ok, unlinked)  BY <1>7
  <2> HIDE DEF f
  <2>7. Sound(f) /\ LogShape(f) /\ f.map[k] # None
    BY <2>1, <2>3 DEF Sound, Alike
  <2>8. RemovesOne(f, db', k, ok, unlinked)  BY <2>5, <2>7, RemoveEntryIs
  <2>9. Removed(f, db', {k}) /\ Shape(db') /\ DOMAIN db'.files = Places
    BY <2>8 DEF RemovesOne
  <2>10. Goes(f, db')  BY <2>3, <2>7, <2>9, RemovedGoes
  <2>11. Goes(d, db')  BY <2>1, <2>2, <2>3, <2>10, GoesOn
  <2>12. LogShape(db') /\ Evolves(d, db')  BY <2>11 DEF Goes, Sound
  <2> QED  BY <1>0, <1>7, <2>11, <2>12, InStepOn
<1>8. \/ /\ Lookup(r.map, r.files, k) = v
         /\ db' = [r EXCEPT !.armed = TRUE] /\ comp' \in Optimized(c, r)
      \/ db' = [r EXCEPT !.handle = FALSE, !.armed = TRUE] /\ comp' = c
      \/ /\ TRUE \in BinlogWrites(r)
         /\ \E p \in PlacesFor(r, k) :
               LET e == WriteStore(r, k, [place |-> p, sum |-> v])
               IN  \/ db' = [e EXCEPT !.files[p] = v] /\ comp' \in Optimized(c, e)
                   \/ /\ comp' = c
                      /\ \E ok, unlinked, left :
                            db' = RemoveEntry([e EXCEPT !.files[p] = left], k, ok, unlinked)
  BY DEF PutFrom
<1> HIDE DEF r
<1>9. CASE /\ TRUE \in BinlogWrites(r)
           /\ \E p \in PlacesFor(r, k) :
                 LET e == WriteStore(r, k, [place |-> p, sum |-> v])
                 IN  \/ db' = [e EXCEPT !.files[p] = v] /\ comp' \in Optimized(c, e)
                     \/ /\ comp' = c
                        /\ \E ok, unlinked, left :
                              db' = RemoveEntry([e EXCEPT !.files[p] = left], k, ok, unlinked)
  <2>1. PICK p \in PlacesFor(r, k) :
                 LET e == WriteStore(r, k, [place |-> p, sum |-> v])
                 IN  \/ db' = [e EXCEPT !.files[p] = v] /\ comp' \in Optimized(c, e)
                     \/ /\ comp' = c
                        /\ \E ok, unlinked, left :
                              db' = RemoveEntry([e EXCEPT !.files[p] = left], k, ok, unlinked)
    BY <1>9
  <2> DEFINE e == WriteStore(r, k, [place |-> p, sum |-> v])
  <2>2. CASE db' = [e EXCEPT !.files[p] = v] /\ comp' \in Optimized(c, e)
    BY <1>6, <1>9, <2>2
  <2>3. CASE /\ comp' = c
             /\ \E ok, unlinked, left :
                   db' = RemoveEntry([e EXCEPT !.files[p] = left], k, ok, unlinked)
    <3>1. e = WriteStore(r, k, [place |-> p, sum |-> v])  OBVIOUS
    <3> HIDE DEF e
    <3>2. PICK ok, unlinked, left :
             db' = RemoveEntry([e EXCEPT !.files[p] = left], k, ok, unlinked)
      BY <2>3
    <3> QED  BY <1>7, <1>9, <2>3, <3>1, <3>2
  <2> QED  BY <2>1, <2>2, <2>3
<1> QED  BY <1>3, <1>4, <1>8, <1>9

LEMMA RemoveGoes ==
    ASSUME NEW c, NEW d, Good(d), Sound(d), InStep(c, d), NEW k \in Keys,
           NEW ok, NEW unlinked, NEW z, z = RemoveEntry(d, k, ok, unlinked)
    PROVE  Goes(d, z) /\ InStep(c, z) /\ Good(z)
<1>0. LogShape(d) /\ DOMAIN d.files = Places  BY DEF Sound, LogShape
<1>1. CASE d.map[k] = None
  <2>1. z = d  BY <1>1 DEF RemoveEntry
  <2>2. Alike(d, z)  BY <1>0, <2>1 DEF Alike, LogShape
  <2> QED  BY <2>1, <2>2, AlikeGoes
<1>2. CASE d.map[k] # None
  <2>1. RemovesOne(d, z, k, ok, unlinked)  BY <1>0, <1>2, RemoveEntryIs
  <2>2. Removed(d, z, {k}) /\ Shape(z) /\ DOMAIN z.files = Places
    BY <2>1 DEF RemovesOne
  <2>3. Goes(d, z)  BY <2>2, RemovedGoes
  <2>4. LogShape(z) /\ Evolves(d, z)  BY <2>3 DEF Goes, Sound
  <2> QED  BY <1>0, <2>3, <2>4, InStepOn, RemoveKeeps
<1> QED  BY <1>1, <1>2

LEMMA StaleGoes ==
    ASSUME NEW d, Good(d), Sound(d), InStep(comp, d), StaleChunk(d)
    PROVE  Goes(d, db') /\ InStep(comp', db')
<1>1. PICK k \in d.stale, ok \in BinlogWrites(d), unlinked \in Succeeds("unlink") :
        LET e == [RemoveEntry(d, k, ok, unlinked) EXCEPT !.stale = @ \ {k}]
        IN  IF e.stale = {}
            THEN db' = [e EXCEPT !.fresh = {}] /\ comp' \in Optimized(comp, e)
            ELSE db' = e /\ UNCHANGED comp
  BY DEF StaleChunk
<1>2. k \in Keys  BY DEF Good, Spares
<1> DEFINE x == RemoveEntry(d, k, ok, unlinked)
           e == [x EXCEPT !.stale = @ \ {k}]
<1>3. Goes(d, x) /\ InStep(comp, x) /\ Good(x)  BY <1>2, RemoveGoes
<1>4. IF e.stale = {} THEN db' = [e EXCEPT !.fresh = {}] /\ comp' \in Optimized(comp, e)
      ELSE db' = e /\ UNCHANGED comp
  BY <1>1
<1> HIDE DEF x
<1>5. Sound(x) /\ LogShape(x) /\ DOMAIN x.files = Places
  BY <1>3 DEF Goes, Sound, LogShape
<1>6. Alike(x, e)  BY <1>5 DEF Alike, LogShape, Shape, Fields
<1> HIDE DEF e
<1>7. Alike(x, db') /\ (comp' = comp \/ comp' \in Optimized(comp, e))
  <2>1. CASE db' = e /\ comp' = comp  BY <1>6, <2>1
  <2>2. CASE db' = [e EXCEPT !.fresh = {}] /\ comp' \in Optimized(comp, e)
    BY <1>6, <2>2 DEF Alike, Shape, Fields
  <2> QED  BY <1>4, <2>1, <2>2
<1>8. Goes(x, db')  BY <1>3, <1>5, <1>7, AlikeGoes
<1>9. LogShape(db') /\ Evolves(x, db') /\ Sound(db')  BY <1>8 DEF Goes, Sound
<1>10. Optimized(comp, e) = Optimized(comp, x)
  BY <1>6 DEF Alike, Optimized, NewCompactor
<1>11. InStep(comp', x)  BY <1>3, <1>5, <1>7, <1>10, OptimizedInStep
<1>12. InStep(comp', db')  BY <1>5, <1>9, <1>11, InStepOn
<1> QED  BY <1>3, <1>8, <1>12, GoesOn

LEMMA StartStaleGoes ==
    ASSUME Good(db), Sound(db), InStep(comp, db), db.stale = {}, NEW S \in SUBSET Keys,
           StaleChunk([db EXCEPT !.stale = S])
    PROVE  Goes(db, db') /\ InStep(comp', db')
<1> DEFINE d == [db EXCEPT !.stale = S]
<1>0. LogShape(db)  BY DEF Sound
<1>1. /\ Alike(db, d) /\ d.stale = S /\ d.fresh = db.fresh /\ d.armed = db.armed
  BY <1>0 DEF LogShape, Alike, Shape, Fields
<1>2. StaleChunk(d)  OBVIOUS
<1> HIDE DEF d
<1>3. Good(d)  BY <1>1 DEF Alike, Good, Waits, Spares
<1>4. Goes(db, d)  BY <1>1, AlikeGoes
<1>5. Sound(d) /\ LogShape(d) /\ Evolves(db, d)  BY <1>4 DEF Goes, Sound
<1>6. InStep(comp, d)  BY <1>0, <1>5, InStepOn
<1>7. Goes(d, db') /\ InStep(comp', db')  BY <1>2, <1>3, <1>5, <1>6, StaleGoes
<1> QED  BY <1>4, <1>7, GoesOn

\* Once from is removed in the log its place is free for to.
LEMMA MoveGoes ==
    ASSUME Good(db), Sound(db), InStep(comp, db), NEW from \in Keys, NEW to \in Keys,
           from # to, MoveIfEmpty(from, to)
    PROVE  Goes(db, db') /\ InStep(comp', db')
<1>0. LogShape(db) /\ comp' = comp /\ db.map[from] # None /\ DOMAIN db.files = Places
  BY DEF Sound, MoveIfEmpty, LogShape
<1>1. ASSUME NEW ok, NEW a, a = MoveAway(db, from, ok)
      PROVE  Goes(db, a) /\ Good(a) /\ DOMAIN a.files = Places /\ Sound(a)
  <2>1. Removed(db, a, {from}) /\ Shape(a) /\ a.files = db.files
    <3>1. MovesAway(db, a, from, ok)  BY <1>0, <1>1, MoveAwayIs
    <3> QED  BY <3>1 DEF MovesAway
  <2>2. Goes(db, a)  BY <1>0, <2>1, RemovedGoes
  <2> QED  BY <1>0, <1>1, <2>1, <2>2, MoveAwayKeeps DEF Goes
<1>2. SUFFICES Goes(db, db')
  <2>1. LogShape(db') /\ Evolves(db, db')  BY <1>2 DEF Goes, Sound
  <2> QED  BY <1>0, <1>2, <2>1, InStepOn
<1>3. CASE db' = MoveAway(db, from, FALSE)  BY <1>1, <1>3
<1>4. CASE db' # MoveAway(db, from, FALSE)
  <2> DEFINE a == MoveAway(db, from, TRUE)
             n == db.map[from]
  <2>1. /\ TRUE \in BinlogWrites(db)
        /\ \/ db' = WriteStore(Rescue(a, to), to, n)
           \/ db' = [Rescue(a, to) EXCEPT !.handle = FALSE]
    BY <1>4 DEF MoveIfEmpty
  <2>2. Goes(db, a) /\ Good(a) /\ DOMAIN a.files = Places /\ Sound(a) /\ LogShape(a)
    BY <1>1 DEF Sound
  <2>3. a.binlog = Append(db.binlog, MultiRemove(db.removing \cup {from}))
    <3>1. MovesAway(db, a, from, TRUE)  BY <1>0, MoveAwayIs
    <3> QED  BY <3>1 DEF MovesAway
  <2>4. db.handle  BY <2>1 DEF BinlogWrites
  <2>5. n \in Entry  BY <1>0 DEF LogShape, Slot
  <2> HIDE DEF a
  <2>6. Apart(a.binlog, to, n.place)
    <3> DEFINE r == MultiRemove(db.removing \cup {from})
               L == db.binlog
    <3>1. /\ r \in Record /\ DOMAIN r = db.removing \cup {from}
          /\ \A j \in DOMAIN r : r[j] = None
      BY <1>0, RecordsAre DEF LogShape
    <3>2. IsLog(L) /\ a.binlog = Append(L, r)  BY <1>0, <2>3 DEF LogShape
    <3>3. EntryOf(L, from) = n  BY <1>0, <2>4 DEF Sound, Agrees, Good, Waits
    <3>4. Distinct(L)  BY DEF Sound
    <3> HIDE DEF r, L, n
    <3>5. ASSUME NEW j \in Keys \ {to}, EntryOf(a.binlog, j) # None
          PROVE  EntryOf(a.binlog, j).place # n.place
      <4>1. EntryOf(Append(L, r), j) = IF j \in DOMAIN r THEN r[j] ELSE EntryOf(L, j)
        BY <3>1, <3>2, Appended
      <4>2. EntryOf(a.binlog, j) = EntryOf(L, j) /\ j # from
        BY <3>1, <3>2, <3>5, <4>1
      <4>3. n # None  BY <1>0 DEF n
      <4> QED  BY <3>3, <3>4, <3>5, <4>2, <4>3 DEF Distinct
    <3> QED  BY <3>5 DEF Apart
  <2>7. CASE db' = WriteStore(Rescue(a, to), to, n)
    <3>1. Stored(a, db', to, n) /\ Shape(db') /\ db'.files = a.files
      BY <2>2, <2>7, StoreIs
    <3>2. Goes(a, db')  BY <2>2, <2>5, <2>6, <3>1, StoredEvolves DEF Goes
    <3> QED  BY <2>2, <3>2, GoesOn
  <2>8. CASE db' = [Rescue(a, to) EXCEPT !.handle = FALSE]
    <3> DEFINE r == Rescue(a, to)
    <3>1. /\ Shape(r) /\ r.map = a.map /\ r.removing = a.removing \ {to}
          /\ r.binlog = a.binlog /\ r.excess = a.excess /\ r.files = a.files
      BY <2>2, RescueIs
    <3> HIDE DEF r
    <3>2. /\ Shape(db') /\ db'.map = r.map /\ db'.removing = r.removing
          /\ db'.binlog = r.binlog /\ db'.excess = r.excess /\ db'.files = r.files
          /\ db'.handle = FALSE
      BY <2>8, <3>1 DEF Shape, Fields, r
    <3>3. Goes(a, db')  BY <2>2, <3>1, <3>2, LostGoes
    <3> QED  BY <2>2, <3>3, GoesOn
  <2> QED  BY <2>1, <2>7, <2>8
<1> QED  BY <1>3, <1>4

LEMMA BundlesGo ==
    ASSUME Good(db), Sound(db), InStep(comp, db), WriteBundles, Good(db')
    PROVE  Goes(db, db') /\ InStep(comp', db')
<1>0. LogShape(db)  BY DEF Sound
<1>1. PICK ok : db' = [WriteMultiRemove(db, ok) EXCEPT !.armed = FALSE]
  BY DEF WriteBundles
<1> DEFINE e == WriteMultiRemove(db, ok)
<1>2. Removed(db, e, {}) /\ Shape(e) /\ e.files = db.files /\ e.removing = {}
  BY <1>0, WriteMultiRemoveIs
<1>3. db' = [e EXCEPT !.armed = FALSE]  BY <1>1
<1> HIDE DEF e
<1>4. /\ Shape(db') /\ db'.map = e.map /\ db'.removing = e.removing
      /\ db'.binlog = e.binlog /\ db'.excess = e.excess /\ db'.handle = e.handle
      /\ db'.files = e.files
  BY <1>2, <1>3 DEF Shape, Fields
<1>5. Removed(db, db', {}) /\ DOMAIN db'.files = Places
  BY <1>0, <1>2, <1>4 DEF Removed, LogShape
<1>6. Goes(db, db')  BY <1>4, <1>5, RemovedGoes
<1>7. LogShape(db') /\ Evolves(db, db') /\ Sound(db')  BY <1>6 DEF Goes, Sound
<1>8. InStep(comp, db')  BY <1>0, <1>7, InStepOn
<1>9. comp' \in Optimized(comp, db')  BY DEF WriteBundles
<1> QED  BY <1>6, <1>7, <1>8, <1>9, OptimizedInStep

-----------------------------------------------------------------------------
(* Reading the log back. *)

LEMMA Least ==
    ASSUME NEW S \in SUBSET Nat, S # {}
    PROVE  \E m \in S : \A j \in S : m <= j
<1> DEFINE R == {p \in Nat \X Nat : p[1] < p[2]}
<1>1. OpToRel(<, Nat) = R  BY Zenon DEF OpToRel
<1>2. IsWellFoundedOn(R, Nat)  BY <1>1, NatLessThanWellFounded
<1>3. \A y, z \in Nat : y < z => <<y, z>> \in R  OBVIOUS
<1> HIDE DEF R
<1>4. PICK x \in S : \A y \in S : ~(<<y, x>> \in R)  BY <1>2, WFMin
<1>5. ASSUME NEW j \in S  PROVE x <= j
  <2>1. x \in Nat /\ j \in Nat /\ ~(j < x)  BY <1>3, <1>4
  <2> QED  BY <2>1
<1> QED  BY <1>5

LEMMA FrontIs ==
    ASSUME NEW s, IsLog(s), NEW i \in DOMAIN s, NEW r, r = SubSeq(s, 1, i - 1)
    PROVE  /\ IsLog(r) /\ i \in Nat /\ DOMAIN r = {j \in DOMAIN s : j < i}
           /\ \A j \in DOMAIN r : r[j] = s[j]
<1> DEFINE Q == Record
           n == i - 1
<1>1. s \in Seq(Q)  BY DEF IsLog
<1> HIDE DEF Q
<1>2. Len(s) \in Nat /\ DOMAIN s = 1 .. Len(s)  BY <1>1, LenProperties
<1>3. i \in Nat /\ n \in Nat /\ n + 1 = i /\ n < Len(s) /\ i <= Len(s) /\ 1 \in Int
  BY <1>2
<1>0. r = SubSeq(s, 1, n)  OBVIOUS
<1> HIDE DEF n
<1>4. \A j \in 1 .. n : s[j] \in Q
  <2>1. \A j \in 1 .. n : j \in 1 .. Len(s)  BY <1>2, <1>3
  <2> QED  BY <1>1, <2>1, ElementOfSeq
<1>5. /\ r \in Seq(Q) /\ Len(r) = IF 1 <= n THEN n - 1 + 1 ELSE 0
      /\ \A j \in 1 .. n - 1 + 1 : r[j] = s[1 + j - 1]
  BY <1>0, <1>3, <1>4, SubSeqProperties
<1>6. Len(r) = n /\ DOMAIN r = 1 .. Len(r)  BY <1>3, <1>5, LenProperties
<1>7. DOMAIN r = {j \in DOMAIN s : j < i}
  <2>1. \A j : j \in 1 .. n <=> j \in 1 .. Len(s) /\ j < i  BY <1>2, <1>3
  <2> QED  BY <1>2, <1>6, <2>1
<1>8. \A j \in DOMAIN r : r[j] = s[j]
  <2> SUFFICES ASSUME NEW j \in DOMAIN r  PROVE r[j] = s[j]  OBVIOUS
  <2>1. j \in 1 .. n - 1 + 1 /\ 1 + j - 1 = j  BY <1>3, <1>6
  <2> QED  BY <1>5, <2>1
<1> QED  BY <1>3, <1>5, <1>7, <1>8 DEF IsLog, Q

\* The first store of a key is not garbage: nothing before it gave it one.
LEMMA ExcessReplayed ==
    ASSUME NEW s, IsLog(s), NEW M, M = {k \in Keys : EntryOf(s, k) # None}
    PROVE  /\ ReplayExcess(s) \in Nat
           /\ ReplayExcess(s) + Cardinality(M) <= Weight(s)
<1> DEFINE St == Stores(s)
           A == {x \in St : EntryOf(SubSeq(s, 1, x[1] - 1), x[2]) # None}
           B == {x \in St \ A : \A y \in St : y[2] = x[2] => x[1] <= y[1]}
<1>1. IsFiniteSet(St) /\ Cardinality(St) \in Nat /\ Cardinality(Removes(s)) \in Nat
  BY CountsAreFinite
<1>2. DOMAIN s \subseteq Nat /\ Len(s) \in Nat /\ DOMAIN s = 1 .. Len(s)
  BY LenProperties DEF IsLog
<1>3. \A x \in St : x[1] \in DOMAIN s /\ x[2] \in Keys /\ x = <<x[1], x[2]>>
  BY DEF Stores
<1>4. \A x, y \in B : x[2] = y[2] => x = y
  <2> SUFFICES ASSUME NEW x \in B, NEW y \in B, x[2] = y[2]  PROVE x = y  OBVIOUS
  <2>1. x[1] \in Nat /\ y[1] \in Nat /\ x[1] <= y[1] /\ y[1] <= x[1]  BY <1>2, <1>3
  <2>2. x[1] = y[1]  BY <2>1
  <2> QED  BY <1>3, <2>2
<1>5. ASSUME NEW k \in M  PROVE \E x \in B : x[2] = k
  <2> DEFINE I == {i \in DOMAIN s : <<i, k>> \in St}
  <2>1. I # {} /\ I \in SUBSET Nat  BY <1>2, EntryIsNamed
  <2>2. PICK m \in I : \A j \in I : m <= j  BY <2>1, Least
  <2>3. <<m, k>> \in St /\ m \in DOMAIN s /\ m \in Nat  BY <1>2, <2>2
  <2>4. \A y \in St : y[2] = k => m <= y[1]
    <3> SUFFICES ASSUME NEW y \in St, y[2] = k  PROVE m <= y[1]  OBVIOUS
    <3>1. y[1] \in I  BY <1>3
    <3> QED  BY <2>2, <3>1
  <2> HIDE DEF I
  <2>5. <<m, k>> \notin A
    <3> DEFINE r == SubSeq(s, 1, m - 1)
    <3>1. /\ IsLog(r) /\ DOMAIN r = {j \in DOMAIN s : j < m}
          /\ \A j \in DOMAIN r : r[j] = s[j]
      BY <2>3, FrontIs
    <3> HIDE DEF r
    <3>2. EntryOf(r, k) = None
      <4>1. CASE Touching(r, k) = {}  BY <4>1 DEF EntryOf
      <4>2. CASE Touching(r, k) # {}
        <5>1. PICK j \in Touching(r, k) : EntryOf(r, k) = r[j][k]
          BY <3>1, <4>2, LastExists
        <5>2. j \in DOMAIN s /\ j < m /\ k \in DOMAIN s[j] /\ r[j] = s[j] /\ k \in Keys
          BY <3>1, <5>1 DEF Touching
        <5>3. ASSUME s[j][k] # None  PROVE FALSE
          <6>1. <<j, k>> \in St  BY <5>2, <5>3 DEF Stores
          <6>2. m <= j /\ j \in Nat  BY <1>2, <2>4, <5>2, <6>1
          <6> QED  BY <2>3, <5>2, <6>2
        <5> QED  BY <5>1, <5>2, <5>3
      <4> QED  BY <4>1, <4>2
    <3> QED  BY <3>2 DEF r
  <2> HIDE DEF A
  <2>6. <<m, k>> \in B  BY <2>3, <2>4, <2>5
  <2> QED  BY <2>6
<1>6. A \in SUBSET St /\ B \in SUBSET (St \ A)  OBVIOUS
<1>7. ReplayExcess(s) = Cardinality(Removes(s)) + Cardinality(A)
  BY DEF ReplayExcess
<1>8. \A x \in B : x[2] \in Keys  BY <1>3
<1> HIDE DEF A, B, St
<1>9. IsFiniteSet(A) /\ IsFiniteSet(St \ A) /\ IsFiniteSet(B)
  BY <1>1, <1>6, FS_Subset, FS_Difference
<1>10. IsFiniteSet(M) /\ Cardinality(M) <= Cardinality(B)
  <2> DEFINE C == {x \in B : x[2] \in M}
             f == [x \in C |-> x[2]]
  <2>1. C \in SUBSET B  OBVIOUS
  <2>2. IsFiniteSet(C) /\ Cardinality(C) <= Cardinality(B)  BY <1>9, <2>1, FS_Subset
  <2>3. f \in [C -> M]  OBVIOUS
  <2>4. \A x, y \in C : f[x] = f[y] => x = y  BY <1>4
  <2>5. \A k \in M : \E x \in C : f[x] = k  BY <1>5
  <2> HIDE DEF f, C
  <2>6. IsFiniteSet(M) /\ Cardinality(M) = Cardinality(C)
    BY <2>2, <2>3, <2>4, <2>5, SameCount
  <2> QED  BY <2>2, <2>6
<1>11. Cardinality(St) = Cardinality(A) + Cardinality(St \ A)
  <2>1. A \cup (St \ A) = St /\ A \cap (St \ A) = {}  BY <1>6
  <2> QED  BY <1>9, <2>1, DisjointCounts
<1>12. Cardinality(B) <= Cardinality(St \ A)  BY <1>6, <1>9, FS_Subset
<1>13. /\ Cardinality(A) \in Nat /\ Cardinality(St \ A) \in Nat
       /\ Cardinality(B) \in Nat /\ Cardinality(M) \in Nat
  BY <1>9, <1>10, FS_CardinalityType
<1>14. Weight(s) = Cardinality(St) + Cardinality(Removes(s))  BY DEF Weight, St
<1> QED  BY <1>1, <1>7, <1>10, <1>11, <1>12, <1>13, <1>14

LEMMA ReadIsSound ==
    ASSUME NEW d, Shape(d), DOMAIN d.files = Places, IsLog(d.binlog),
           Distinct(d.binlog), d.removing = {}, NEW e, e = ReadBinlog(d)
    PROVE  /\ Sound(e) /\ e.handle = TRUE /\ e.map = Replay(d.binlog)
           /\ e.files = d.files /\ e.binlog = d.binlog /\ e.removing = {}
<1> DEFINE L == d.binlog
           M == {k \in Keys : EntryOf(L, k) # None}
<1>1. /\ Shape(e) /\ e.map = Replay(L) /\ e.removing = {} /\ e.binlog = L
      /\ e.files = d.files /\ e.excess = ReplayExcess(L) /\ e.handle = TRUE
  BY DEF ReadBinlog, Shape, Fields, Replay
<1>2. \A k \in Keys : e.map[k] = EntryOf(L, k)  BY <1>1 DEF Replay
<1>3. MappedIn(e) = M  BY <1>2 DEF MappedIn
<1>4. ReplayExcess(L) \in Nat /\ ReplayExcess(L) + Cardinality(M) <= Weight(L)
  BY ExcessReplayed
<1>5. e.map \in [Keys -> Slot]
  <2>1. \A k \in Keys : EntryOf(L, k) \in Slot  BY EntryIsNamed
  <2> QED  BY <1>1, <2>1 DEF Replay
<1>6. LogShape(e)  BY <1>1, <1>4, <1>5 DEF LogShape
<1>7. Agrees(e)  BY <1>1, <1>2, <1>3, <1>4 DEF Agrees
<1>8. Distinct(e.binlog)  BY <1>1
<1> QED  BY <1>1, <1>6, <1>7, <1>8 DEF Sound

LEMMA ClearIsSound ==
    ASSUME NEW d, LogShape(d), Distinct(d.binlog), NEW e, e = ClearState(d)
    PROVE  /\ Sound(e) /\ e.handle = FALSE /\ e.files = d.files
           /\ e.binlog = d.binlog /\ e.removing = {} /\ e.map = Nothing
<1>1. /\ Fields \subseteq DOMAIN e /\ e.map = Nothing /\ e.removing = {}
      /\ e.binlog = d.binlog /\ e.files = d.files /\ e.excess = 0 /\ e.handle = FALSE
  BY DEF ClearState, LogShape, Shape, Fields
<1>2. Nothing \in [Keys -> Slot] /\ DOMAIN Nothing = Keys  BY DEF Nothing, Slot
<1>3. LogShape(e)  BY <1>1, <1>2 DEF LogShape, Shape
<1>4. Agrees(e)  BY <1>1 DEF Agrees
<1> QED  BY <1>1, <1>3, <1>4 DEF Sound

LEMMA ClosedIsSound ==
    ASSUME NEW d, Good(d), Sound(d), NEW ok, NEW e, e = Closed(d, ok)
    PROVE  /\ Sound(e) /\ e.handle = FALSE /\ e.files = d.files
           /\ e.removing = {}
<1> DEFINE x == IF d.handle THEN WriteMultiRemove(d, ok) ELSE d
           y == WriteMultiRemove(d, ok)
<1>1. e = ClearState(x) /\ x \in {y, d}  BY DEF Closed
<1>2. Sound(y) /\ y.files = d.files
  <2>0. LogShape(d)  BY DEF Sound
  <2>1. Removed(d, y, {}) /\ Shape(y) /\ y.files = d.files
    BY <2>0, WriteMultiRemoveIs
  <2>2. DOMAIN y.files = Places  BY <2>0, <2>1 DEF LogShape
  <2> HIDE DEF y
  <2> QED  BY <2>1, <2>2, RemovedGoes DEF Goes
<1> HIDE DEF x, y
<1>3. LogShape(x) /\ Distinct(x.binlog) /\ x.files = d.files  BY <1>1, <1>2 DEF Sound
<1> QED  BY <1>1, <1>3, ClearIsSound

LEMMA EmptyIsSound ==
    ASSUME NEW b, NEW e, \/ e = [EmptyVersion EXCEPT !.handle = b]
                         \/ e = EmptyVersion /\ b = FALSE
    PROVE  /\ Sound(e) /\ e.binlog = <<>> /\ e.map = Nothing /\ e.removing = {}
           /\ e.handle = b
           /\ Shape(EmptyVersion) /\ DOMAIN EmptyVersion.files = Places
           /\ IsLog(EmptyVersion.binlog) /\ Distinct(EmptyVersion.binlog)
           /\ EmptyVersion.removing = {}
<1>1. /\ Fields \subseteq DOMAIN EmptyVersion /\ EmptyVersion.map = Nothing
      /\ EmptyVersion.removing = {} /\ EmptyVersion.binlog = <<>>
      /\ EmptyVersion.excess = 0 /\ DOMAIN EmptyVersion.files = Places
      /\ EmptyVersion.handle = FALSE
  BY DEF EmptyVersion, Fields
<1> HIDE DEF EmptyVersion
<1>2. /\ Fields \subseteq DOMAIN e /\ e.map = Nothing /\ e.removing = {}
      /\ e.binlog = <<>> /\ e.excess = 0 /\ DOMAIN e.files = Places /\ e.handle = b
  BY <1>1 DEF Fields
<1>3. Nothing \in [Keys -> Slot] /\ DOMAIN Nothing = Keys
  BY DEF Nothing, Slot
<1>4. IsLog(<<>>) /\ \A k : EntryOf(<<>>, k) = None  BY EmptyLog
<1>5. LogShape(e) /\ Shape(EmptyVersion)  BY <1>1, <1>2, <1>3, <1>4 DEF LogShape, Shape
<1>6. Distinct(<<>>)  BY <1>4 DEF Distinct
<1>7. Agrees(e)
  <2>1. MappedIn(e) = {}  BY <1>2 DEF MappedIn, Nothing
  <2>2. Cardinality(MappedIn(e)) = 0 /\ Weight(<<>>) = 0
    BY <2>1, FS_EmptySet, RecordsWeigh
  <2>3. \A k \in Keys : EntryOf(e.binlog, k) = e.map[k]  BY <1>2, <1>4 DEF Nothing
  <2> QED  BY <1>2, <2>2, <2>3 DEF Agrees
<1> QED  BY <1>1, <1>2, <1>4, <1>5, <1>6, <1>7 DEF Sound

-----------------------------------------------------------------------------
(* The compacted log. *)

LEMMA SwappedIs ==
    ASSUME Sound(db), InStep(comp, db), At("catchUp") \/ At("done"), db.handle
    PROVE  /\ IsLog(Swapped) /\ Distinct(Swapped)
           /\ \A k \in Keys : EntryOf(Swapped, k) \in {None, EntryOf(db.binlog, k)}
           /\ \A k \in Keys \ db.removing : EntryOf(Swapped, k) = db.map[k]
           /\ comp.excess \in 0 .. db.excess
           /\ db.excess + Cardinality(MappedIn(db)) <= comp.excess + Weight(Swapped)
<1> DEFINE L == db.binlog
           T == comp.temp
           n == comp.from
           X == T \o Rest(L, n)
<1>1. /\ comp.st \in {"catchUp", "done"} /\ CompactorFields \subseteq DOMAIN comp
      /\ Follows(comp, db)
  BY DEF At, InStep
<1>2. Swapped = X /\ Copied(comp, db) = X
  BY <1>1 DEF Swapped, CatchUp, CompactorFields, Copied, Rest
<1>3. /\ IsLog(T) /\ IsLog(L) /\ n \in 0 .. Len(L) /\ comp.excess \in 0 .. db.excess
  BY <1>1 DEF Follows, CompactorShape, Sound, LogShape
<1>4. Pending(comp, db) = {}
  BY <1>1 DEF Follows, Phases, Pending
<1>5. Unwritten(comp, db) = {}  BY <1>4 DEF Unwritten
<1> DEFINE R == Rest(L, n)
<1>6. X = T \o R  OBVIOUS
<1>7. IsLog(R)  BY <1>3, RestIsLog
<1>8. \A k \in Keys : EntryOf(X, k) \in {None, EntryOf(L, k)}
  BY <1>1, <1>2 DEF Follows, SaysTheSame
<1>9. \A k \in Keys \ db.removing : EntryOf(X, k) = EntryOf(L, k)
  BY <1>1, <1>2, <1>4 DEF Follows, SaysTheSame
<1>10. \A k \in Keys \ db.removing : EntryOf(L, k) = db.map[k]
  BY DEF Sound, Agrees
<1>11. db.excess + Cardinality(MappedIn(db)) <= comp.excess + Weight(X)
  <2>1. MappedIn(db) \ Unwritten(comp, db) = MappedIn(db)  BY <1>5
  <2> QED  BY <1>1, <1>2, <2>1 DEF Follows, Counts
<1>12. Distinct(L)  BY DEF Sound
<1> HIDE DEF X, T, R, L, n
<1>13. IsLog(X)  BY <1>3, <1>6, <1>7, Joined DEF IsJoin
<1>14. Distinct(X)
  <2>1. \A k \in Keys : EntryOf(X, k) # None => EntryOf(X, k) = EntryOf(L, k)
    BY <1>8
  <2> QED  BY <1>12, <2>1 DEF Distinct
<1> QED  BY <1>2, <1>3, <1>8, <1>9, <1>10, <1>11, <1>13, <1>14 DEF L

LEMMA SwapIsSound ==
    ASSUME Good(db), Sound(db), InStep(comp, db), CompactorDone
    PROVE  Sound(db') /\ (db'.handle => db.handle)
<1>0. LogShape(db) /\ Distinct(db.binlog)  BY DEF Sound
<1>1. CASE db' = db  BY <1>1
<1>2. CASE db.handle /\ db' = [db EXCEPT !.binlog = Swapped, !.excess = @ - comp.excess]
  <2>1. /\ Shape(db') /\ db'.map = db.map /\ db'.removing = db.removing
        /\ db'.files = db.files /\ db'.binlog = Swapped
        /\ db'.excess = db.excess - comp.excess
    BY <1>0, <1>2 DEF LogShape, Shape, Fields
  <2>2. At("catchUp") \/ At("done")  BY DEF CompactorDone
  <2> DEFINE X == Swapped
  <2>3. /\ IsLog(X) /\ Distinct(X) /\ comp.excess \in 0 .. db.excess
        /\ \A k \in Keys \ db.removing : EntryOf(X, k) = db.map[k]
        /\ db.excess + Cardinality(MappedIn(db)) <= comp.excess + Weight(X)
    BY <1>2, <2>2, SwappedIs
  <2>4. db'.binlog = X  BY <2>1
  <2> HIDE DEF X
  <2>5. LogShape(db')
    <3>1. db'.excess \in Nat
      <4>1. db.excess \in Nat /\ comp.excess \in 0 .. db.excess
        BY <1>0, <2>3 DEF LogShape
      <4> QED  BY <2>1, <4>1
    <3> QED  BY <1>0, <2>1, <2>3, <2>4, <3>1 DEF LogShape
  <2>6. Agrees(db')
    <3>1. MappedIn(db') = MappedIn(db)  BY <2>1 DEF MappedIn
    <3>2. db'.excess + Cardinality(MappedIn(db')) <= Weight(db'.binlog)
      <4>1. Cardinality(MappedIn(db)) \in Nat /\ Weight(X) \in Nat /\ db.excess \in Nat
        BY <1>0, <2>3, MappedIsFinite, CountsAreFinite DEF LogShape
      <4>2. comp.excess \in Nat /\ db'.excess = db.excess - comp.excess
        BY <2>1, <2>3, <4>1
      <4>3. db.excess + Cardinality(MappedIn(db)) <= comp.excess + Weight(X)  BY <2>3
      <4> QED  BY <2>4, <3>1, <4>1, <4>2, <4>3
    <3> QED  BY <2>1, <2>3, <2>4, <3>2 DEF Agrees
  <2> QED  BY <1>2, <2>3, <2>4, <2>5, <2>6 DEF Sound
<1>3. ASSUME NEW left \in {db.binlog, <<>>, Swapped}, db.handle,
             db' = [db EXCEPT !.binlog = left, !.handle = FALSE]
      PROVE  Sound(db') /\ (db'.handle => db.handle)
  <2>1. /\ Shape(db') /\ db'.map = db.map /\ db'.removing = db.removing
        /\ db'.files = db.files /\ db'.binlog = left
        /\ db'.excess = db.excess /\ db'.handle = FALSE
    BY <1>0, <1>3 DEF LogShape, Shape, Fields
  <2>2. IsLog(left) /\ Distinct(left)
    <3>1. At("catchUp") \/ At("done")  BY DEF CompactorDone
    <3>2. IsLog(Swapped) /\ Distinct(Swapped)  BY <1>3, <3>1, SwappedIs
    <3>3. IsLog(<<>>) /\ Distinct(<<>>)  BY EmptyLog DEF Distinct
    <3> QED  BY <1>0, <3>2, <3>3 DEF LogShape
  <2>3. LogShape(db') /\ Agrees(db')  BY <1>0, <2>1, <2>2 DEF LogShape, Agrees
  <2> QED  BY <2>1, <2>2, <2>3 DEF Sound
<1> QED  BY <1>1, <1>2, <1>3 DEF CompactorDone

-----------------------------------------------------------------------------
(* The invariant of the log. *)

LInv ==
    /\ RInv /\ Sound(db) /\ InStep(comp, db)
    /\ comp # None => isOpen
    /\ db.handle => isOpen
    /\ isOpen => ready = None
    /\ ready # None => IsLog(ready) /\ Distinct(ready)

LEMMA TaskKeepsLog ==
    ASSUME LInv, RInv', isOpen, isOpen' = isOpen, ready' = ready,
           Goes(db, db'), InStep(comp', db')
    PROVE  LInv'
<1>1. Sound(db') /\ (db'.handle => db.handle)  BY DEF Goes, Evolves
<1> QED  BY <1>1 DEF LInv

\* With the memory gone only the files matter.
LEMMA ForgottenKeepsLog ==
    ASSUME LInv, RInv', Sound(db'), db'.handle = FALSE, comp' = None,
           isOpen' = FALSE, ready' # None => IsLog(ready') /\ Distinct(ready')
    PROVE  LInv'
BY DEF LInv, InStep

LEMMA PutKeepsLog ==
    ASSUME LInv, NEW k \in Keys, NEW v \in Values, Put(k, v) \/ PutIfEmpty(k, v)
    PROVE  Goes(db, db') /\ InStep(comp', db')
<1>1. PutFrom(comp, db, k, v)  BY DEF Put, PutIfEmpty
<1> QED  BY <1>1, PutGoes DEF LInv, RInv

LEMMA GetKeepsLog ==
    ASSUME LInv, NEW k \in Keys, Get(k) \/ Remove(k)
    PROVE  Goes(db, db') /\ InStep(comp', db')
<1>0. Good(db) /\ Sound(db) /\ InStep(comp, db) /\ LogShape(db)
  BY DEF LInv, RInv, Sound
<1>1. CASE GetUnreadable(k) \/ Remove(k)
  <2>1. \E ok, unlinked : db' = RemoveEntry(db, k, ok, unlinked)
    BY <1>1 DEF GetUnreadable, Remove
  <2>2. comp' = comp  BY <1>1 DEF GetUnreadable, Remove
  <2> QED  BY <1>0, <2>1, <2>2, RemoveGoes
<1>2. CASE GetReadable(k)
  <2>1. Alike(db, db') /\ comp' \in Optimized(comp, db)
    BY <1>0, <1>2 DEF GetReadable, Alike, LogShape, Shape, Fields
  <2>2. Goes(db, db')  BY <1>0, <2>1, AlikeGoes
  <2>3. InStep(comp', db)  BY <1>0, <2>1, OptimizedInStep
  <2>4. LogShape(db') /\ Evolves(db, db')  BY <2>2 DEF Goes, Sound
  <2> QED  BY <1>0, <2>2, <2>3, <2>4, InStepOn
<1> QED  BY <1>1, <1>2 DEF Get

LEMMA CopyKeepsLog ==
    ASSUME LInv, NEW from \in Keys, NEW to \in Keys, CopyIfEmpty(from, to)
    PROVE  Goes(db, db') /\ InStep(comp', db')
<1>0. Good(db) /\ Sound(db) /\ InStep(comp, db) /\ LogShape(db)
  BY DEF LInv, RInv, Sound
<1>1. CASE GetUnreadable(from)
  <2>1. \E ok, unlinked : db' = RemoveEntry(db, from, ok, unlinked)
    BY <1>1 DEF GetUnreadable
  <2>2. comp' = comp  BY <1>1 DEF GetUnreadable
  <2> QED  BY <1>0, <2>1, <2>2, RemoveGoes
<1>2. CASE ~GetUnreadable(from)
  <2> DEFINE v == Lookup(db.map, db.files, from)
             d == [db EXCEPT !.armed = TRUE]
  <2>1. PICK c \in Optimized(comp, db) : PutFrom(c, d, to, v)
    BY <1>2 DEF CopyIfEmpty
  <2>2. v \in Values
    <3>1. v # None  BY <1>2 DEF CopyIfEmpty
    <3>2. db.map[from] # None /\ v = db.map[from].sum  BY <3>1 DEF Lookup
    <3> QED  BY <1>0, <3>2 DEF LogShape, Slot, Entry
  <2>3. /\ Alike(db, d) /\ d.stale = db.stale /\ d.fresh = db.fresh /\ d.armed
    BY <1>0 DEF Alike, LogShape, Shape, Fields
  <2> HIDE DEF d, v
  <2>4. Good(d)  BY <1>0, <2>3, QuietKeeps DEF Alike
  <2>5. Goes(db, d)  BY <1>0, <2>3, AlikeGoes
  <2>6. Sound(d) /\ LogShape(d) /\ Evolves(db, d)  BY <2>5 DEF Goes, Sound
  <2>7. InStep(c, db)  BY <1>0, OptimizedInStep
  <2>8. InStep(c, d)  BY <1>0, <2>6, <2>7, InStepOn
  <2>9. Goes(d, db') /\ InStep(comp', db')  BY <2>1, <2>2, <2>4, <2>6, <2>8, PutGoes
  <2> QED  BY <1>0, <2>5, <2>9, GoesOn
<1> QED  BY <1>1, <1>2

LEMMA OpenKeepsLog ==
    ASSUME LInv, RInv', Open
    PROVE  LInv'
<1>0. Good(db) /\ Sound(db) /\ LogShape(db) /\ db.removing = {}
  BY DEF LInv, RInv, Sound, Open
<1>1. /\ isOpen' = TRUE /\ ready' = None /\ comp' \in Optimized(None, db')
      /\ \/ db' = ReadBinlog([db EXCEPT !.binlog = DiskLog])
         \/ db' = ReadBinlog(EmptyVersion)
  BY DEF Open
<1>2. Sound(db')
  <2>1. CASE db' = ReadBinlog([db EXCEPT !.binlog = DiskLog])
    <3> DEFINE d == [db EXCEPT !.binlog = DiskLog]
    <3>1. IsLog(DiskLog) /\ Distinct(DiskLog)
      BY <1>0 DEF LInv, DiskLog, Sound, LogShape
    <3>2. /\ Shape(d) /\ d.files = db.files /\ d.binlog = DiskLog
          /\ d.removing = db.removing
      BY <1>0 DEF LogShape, Shape, Fields
    <3>3. db' = ReadBinlog(d)  BY <2>1
    <3> HIDE DEF d
    <3>4. DOMAIN d.files = Places  BY <1>0, <3>2 DEF LogShape
    <3> QED  BY <1>0, <3>1, <3>2, <3>3, <3>4, ReadIsSound
  <2>2. CASE db' = ReadBinlog(EmptyVersion)
    <3>1. /\ Shape(EmptyVersion) /\ DOMAIN EmptyVersion.files = Places
          /\ IsLog(EmptyVersion.binlog) /\ Distinct(EmptyVersion.binlog)
          /\ EmptyVersion.removing = {}
      BY EmptyIsSound
    <3> HIDE DEF EmptyVersion
    <3> QED  BY <2>2, <3>1, ReadIsSound
  <2> QED  BY <1>1, <2>1, <2>2
<1>3. InStep(None, db')  BY DEF InStep
<1>4. Good(db')  BY DEF RInv
<1>5. InStep(comp', db')  BY <1>1, <1>2, <1>3, <1>4, OptimizedInStep
<1> QED  BY <1>1, <1>2, <1>5 DEF LInv

LEMMA CloseKeepsLog ==
    ASSUME LInv, RInv', Close \/ Clear
    PROVE  LInv'
<1>0. Good(db) /\ Sound(db)  BY DEF LInv, RInv
<1>1. comp' = None  BY DEF Close, Clear, DropCompactor
<1>2. ASSUME NEW ok, db' = Closed(db, ok), isOpen' = FALSE, ready' = ready
      PROVE  LInv'
  <2>1. Sound(db') /\ db'.handle = FALSE  BY <1>0, <1>2, ClosedIsSound
  <2> QED  BY <1>1, <1>2, <2>1, ForgottenKeepsLog DEF LInv
<1>3. CASE db' = [EmptyVersion EXCEPT !.handle = isOpen] /\ ready' = None /\ isOpen' = isOpen
  <2>1. Sound(db') /\ db'.handle = isOpen  BY <1>3, EmptyIsSound
  <2> QED  BY <1>1, <1>3, <2>1 DEF LInv, InStep
<1> QED  BY <1>2, <1>3 DEF Close, Clear

LEMMA CallersKeepLog ==
    ASSUME LInv, RInv', Callers
    PROVE  LInv'
<1>0. Good(db) /\ Sound(db) /\ InStep(comp, db) /\ LogShape(db)
  BY DEF LInv, RInv, Sound
<1>1. ASSUME NEW k \in Keys, NEW v \in Values, Put(k, v) \/ PutIfEmpty(k, v)
      PROVE  LInv'
  <2>1. isOpen /\ isOpen' = isOpen /\ ready' = ready
    BY <1>1 DEF Put, PutIfEmpty, Asked
  <2> QED  BY <1>1, <2>1, PutKeepsLog, TaskKeepsLog
<1>2. ASSUME NEW k \in Keys, Get(k) \/ Remove(k)  PROVE LInv'
  <2>1. isOpen /\ isOpen' = isOpen /\ ready' = ready
    BY <1>2 DEF Get, Remove, Asked
  <2> QED  BY <1>2, <2>1, GetKeepsLog, TaskKeepsLog
<1>3. ASSUME NEW from \in Keys, NEW to \in Keys, from # to,
             CopyIfEmpty(from, to) \/ MoveIfEmpty(from, to)
      PROVE  LInv'
  <2>1. isOpen /\ isOpen' = isOpen /\ ready' = ready
    BY <1>3 DEF CopyIfEmpty, MoveIfEmpty, Asked
  <2>2. Goes(db, db') /\ InStep(comp', db')  BY <1>0, <1>3, CopyKeepsLog, MoveGoes
  <2> QED  BY <2>1, <2>2, TaskKeepsLog
<1>4. ASSUME NEW S \in SUBSET Mapped, ClearByTag(S)  PROVE LInv'
  <2>1. isOpen /\ isOpen' = isOpen /\ ready' = ready /\ comp' = comp
    BY <1>4 DEF ClearByTag, Asked
  <2>2. Alike(db, db')
    BY <1>0, <1>4 DEF ClearByTag, Alike, LogShape, Shape, Fields
  <2>3. Goes(db, db')  BY <1>0, <2>2, AlikeGoes
  <2>4. LogShape(db') /\ Evolves(db, db')  BY <2>3 DEF Goes, Sound
  <2>5. InStep(comp', db')  BY <1>0, <2>1, <2>4, InStepOn
  <2> QED  BY <2>1, <2>3, <2>5, TaskKeepsLog
<1>5. ASSUME NEW S \in SUBSET Mapped, ClearByTagFirst(S)  PROVE LInv'
  <2>1. isOpen /\ isOpen' = isOpen /\ ready' = ready
    BY <1>5 DEF ClearByTagFirst, Asked
  <2>2. db.stale = {} /\ StaleChunk([db EXCEPT !.stale = S]) /\ S \in SUBSET Keys
    BY <1>5 DEF ClearByTagFirst, Mapped
  <2>3. Goes(db, db') /\ InStep(comp', db')  BY <1>0, <2>2, StartStaleGoes
  <2> QED  BY <2>1, <2>3, TaskKeepsLog
<1>6. CASE UpdateSettings
  <2>1. /\ isOpen /\ isOpen' = isOpen /\ ready' = ready
        /\ db' = db /\ comp' \in Optimized(comp, db)
    BY <1>6 DEF UpdateSettings, Asked
  <2>2. InStep(comp', db)  BY <1>0, <2>1, OptimizedInStep
  <2> QED  BY <2>1, <2>2 DEF LInv
<1> QED
  BY <1>1, <1>2, <1>3, <1>4, <1>5, <1>6, OpenKeepsLog, CloseKeepsLog DEF Callers

LEMMA TimersKeepLog ==
    ASSUME LInv, RInv', Timers
    PROVE  LInv'
<1>0. Good(db) /\ Good(db') /\ Sound(db) /\ InStep(comp, db)  BY DEF LInv, RInv
<1>1. CASE WriteBundles
  <2>1. isOpen /\ isOpen' = isOpen /\ ready' = ready  BY <1>1 DEF WriteBundles
  <2> QED  BY <1>0, <1>1, <2>1, BundlesGo, TaskKeepsLog
<1>2. CASE ClearStaleChunk
  <2>1. isOpen /\ isOpen' = isOpen /\ ready' = ready /\ StaleChunk(db)
    BY <1>2 DEF ClearStaleChunk
  <2> QED  BY <1>0, <2>1, StaleGoes, TaskKeepsLog
<1>3. ASSUME NEW S \in SUBSET Mapped, Prune(S)  PROVE LInv'
  <2>1. isOpen /\ isOpen' = isOpen /\ ready' = ready  BY <1>3 DEF Prune
  <2>2. db.stale = {} /\ StaleChunk([db EXCEPT !.stale = S]) /\ S \in SUBSET Keys
    BY <1>3 DEF Prune, Mapped
  <2>3. Goes(db, db') /\ InStep(comp', db')  BY <1>0, <2>2, StartStaleGoes
  <2> QED  BY <2>1, <2>3, TaskKeepsLog
<1> QED  BY <1>1, <1>2, <1>3 DEF Timers

LEMMA CompactorKeepsLog ==
    ASSUME LInv, RInv', Compactor \/ Messages
    PROVE  LInv'
<1>0. /\ Good(db) /\ Sound(db) /\ InStep(comp, db) /\ isOpen' = isOpen
  BY DEF LInv, RInv, Compactor, Messages, CompactorStart, ProcessValues, Finalize,
         Fail, GetManyRaw, CompactorDone, CompactorFail, LateCompactorFail, compactorOnly
<1>1. CASE CompactorStart \/ ProcessValues \/ Finalize \/ GetManyRaw \/ Fail
  <2>1. db' = db /\ ready' = ready /\ comp # None
    BY <1>1 DEF CompactorStart, ProcessValues, Finalize, Fail, GetManyRaw, At, compactorOnly
  <2>2. InStep(comp', db)
    <3>1. CASE Fail
      <4>1. comp' = [comp EXCEPT !.st = "failed"]  BY <3>1 DEF Fail
      <4>2. CompactorFields \subseteq DOMAIN comp  BY <1>0, <2>1 DEF InStep
      <4>3. CompactorFields \subseteq DOMAIN comp' /\ comp'.st = "failed"
        BY <4>1, <4>2 DEF CompactorFields
      <4> QED  BY <4>3 DEF InStep
    <3>2. CASE ~Fail
      BY <1>0, <1>1, <3>2, StartInStep, ProcessInStep, FinalizeInStep, ValuesInStep
    <3> QED  BY <3>1, <3>2
  <2> QED  BY <1>0, <2>1, <2>2 DEF LInv
<1>2. CASE CompactorDone
  <2>1. comp' = None /\ ready' = None  BY <1>2 DEF CompactorDone
  <2>2. Sound(db') /\ (db'.handle => db.handle)  BY <1>0, <1>2, SwapIsSound
  <2> QED  BY <1>0, <2>1, <2>2 DEF LInv, InStep
<1>3. CASE CompactorFail \/ LateCompactorFail
  <2>1. comp' = None /\ db' = db /\ ready' \in {None, ready} /\ (isOpen => ready' = None)
    BY <1>3 DEF CompactorFail, LateCompactorFail
  <2> QED  BY <1>0, <2>1 DEF LInv, InStep
<1> QED  BY <1>1, <1>2, <1>3 DEF Compactor, Messages

LEMMA CrashesKeepLog ==
    ASSUME LInv, RInv', Crashes
    PROVE  LInv'
<1>0. Good(db) /\ Sound(db) /\ InStep(comp, db) /\ LogShape(db)
  BY DEF LInv, RInv, Sound
<1>1. ASSUME NEW d, LogShape(d), Distinct(d.binlog), Crashed(d),
             ready' # None => IsLog(ready') /\ Distinct(ready')
      PROVE  LInv'
  <2>1. db' = ClearState(d) /\ isOpen' = FALSE /\ comp' = None  BY <1>1 DEF Crashed
  <2>2. Sound(db') /\ db'.handle = FALSE  BY <1>1, <2>1, ClearIsSound
  <2> QED  BY <1>1, <2>1, <2>2, ForgottenKeepsLog
<1>2. ready # None => IsLog(ready) /\ Distinct(ready)  BY DEF LInv
<1>3. CASE Crash  BY <1>0, <1>1, <1>2, <1>3 DEF Crash, Sound
<1>4. ASSUME NEW k \in Keys, NEW v \in Values, CrashInPut(k, v)  PROVE LInv'
  <2> DEFINE r == Rescue(db, k)
  <2>1. ready' = ready /\ TRUE \in BinlogWrites(r)  BY <1>4 DEF CrashInPut
  <2>2. PICK p \in PlacesFor(r, k) :
          \E left : Crashed([WriteStore(r, k, [place |-> p, sum |-> v])
                                EXCEPT !.files[p] = left])
    BY <1>4 DEF CrashInPut
  <2> DEFINE n == [place |-> p, sum |-> v]
             e == WriteStore(r, k, n)
  <2>3. Goes(db, e) /\ Good(e) /\ p \in Places
    <3>1. r.handle = db.handle  BY <1>0, RescueIs
    <3>2. /\ n = [place |-> p, sum |-> v] /\ e = WriteStore(r, k, n)
          /\ db.handle /\ r = Rescue(db, k)
      BY <2>1, <3>1 DEF BinlogWrites
    <3> HIDE DEF n, e, r
    <3> QED  BY <1>0, <3>2, PutStores
  <2>4. PICK left : Crashed([e EXCEPT !.files[p] = left])  BY <2>2
  <2> HIDE DEF e, r, n
  <2> DEFINE f == [e EXCEPT !.files[p] = left]
  <2>5. Sound(f)  BY <2>3, PlaceWritten DEF Goes
  <2>6. Crashed(f)  BY <2>4
  <2> HIDE DEF f
  <2> QED  BY <1>1, <1>2, <2>1, <2>5, <2>6 DEF Sound
<1>5. ASSUME NEW from \in Keys, NEW to \in Keys, CrashInMove(from, to)  PROVE LInv'
  <2> DEFINE a == MoveAway(db, from, TRUE)
  <2>1. Crashed(a) /\ ready' = ready  BY <1>5 DEF CrashInMove
  <2>2. MovesAway(db, a, from, TRUE)  BY <1>0, MoveAwayIs
  <2> HIDE DEF a
  <2>3. Removed(db, a, {from}) /\ Shape(a) /\ DOMAIN a.files = Places
    BY <1>0, <2>2 DEF MovesAway, LogShape
  <2>4. Sound(a)  BY <1>0, <2>3, RemovedGoes DEF Goes
  <2> QED  BY <1>1, <1>2, <2>1, <2>4 DEF Sound
<1>6. CASE CrashInSwap
  <2>1. At("done") /\ db.handle /\ ready' = Swapped  BY <1>6 DEF CrashInSwap
  <2>2. PICK left \in {db.binlog, <<>>} : Crashed([db EXCEPT !.binlog = left])
    BY <1>6 DEF CrashInSwap
  <2>3. IsLog(Swapped) /\ Distinct(Swapped)  BY <1>0, <2>1, SwappedIs
  <2> DEFINE d == [db EXCEPT !.binlog = left]
  <2>4. /\ Shape(d) /\ d.files = db.files /\ d.map = db.map /\ d.binlog = left
        /\ d.removing = db.removing /\ d.excess = db.excess
    BY <1>0 DEF LogShape, Shape, Fields
  <2>5. Crashed(d)  BY <2>2
  <2> HIDE DEF d
  <2>6. IsLog(left) /\ Distinct(left)
    <3>1. IsLog(<<>>) /\ Distinct(<<>>)  BY EmptyLog DEF Distinct
    <3> QED  BY <1>0, <3>1 DEF LogShape, Sound
  <2>7. LogShape(d)  BY <1>0, <2>4, <2>6 DEF LogShape
  <2> QED  BY <1>1, <2>1, <2>3, <2>4, <2>5, <2>6, <2>7
<1> QED  BY <1>3, <1>4, <1>5, <1>6 DEF Crashes

LEMMA LogKept == LInv /\ [Next]_vars => LInv'
<1> SUFFICES ASSUME LInv, [Next]_vars  PROVE LInv'  OBVIOUS
<1>1. RInv'  BY NextKeeps DEF LInv
<1>2. CASE Callers  BY <1>1, <1>2, CallersKeepLog
<1>3. CASE Timers  BY <1>1, <1>3, TimersKeepLog
<1>4. CASE Compactor \/ Messages  BY <1>1, <1>4, CompactorKeepsLog
<1>5. CASE Crashes  BY <1>1, <1>5, CrashesKeepLog
<1>6. CASE UNCHANGED vars  BY <1>6 DEF vars, LInv, RInv
<1> QED  BY <1>2, <1>3, <1>4, <1>5, <1>6 DEF Next

LEMMA InitIsSound == Init => LInv
<1> SUFFICES ASSUME Init  PROVE LInv  OBVIOUS
<1>1. RInv /\ db = EmptyVersion /\ isOpen = FALSE /\ ready = None /\ comp = None
  BY InitIsGood DEF Init
<1>2. EmptyVersion.handle = FALSE  BY DEF EmptyVersion
<1> HIDE DEF EmptyVersion
<1>3. Sound(EmptyVersion)  BY EmptyIsSound
<1> QED  BY <1>1, <1>2, <1>3 DEF LInv, InStep

\* The binlog, the map and the compactor agree with each other, whatever fails.
THEOREM LogInvariant == Spec => []LInv
<1> QED  BY InitIsSound, LogKept, PTL DEF Spec

\* Once the compactor has read its part, what it has written and what it has
\* still to copy give every key what the map gives it, whatever was put, moved
\* or removed while it read, and whatever failed.
THEOREM CompactedIsTheMap == Spec => []CompactedAgrees
<1>1. LInv => CompactedAgrees
  <2> SUFFICES ASSUME LInv, At("catchUp") \/ At("done"), db.handle,
                      NEW k \in Keys \ db.removing
               PROVE  EntryOf(Swapped, k) = db.map[k]
    BY DEF CompactedAgrees
  <2> QED  BY SwappedIs DEF LInv
<1> QED  BY <1>1, LogInvariant, PTL

\* _binlogExcessLength never counts more than there is to gain, so that a
\* compaction shortens the binlog, and what compactorDone takes off is never
\* more than what is counted: its Assert holds.
THEOREM ExcessIsAlwaysGarbage == Spec => []ExcessIsGarbage
<1>1. LInv => ExcessIsGarbage
  <2> SUFFICES ASSUME LInv
               PROVE  /\ db.excess >= 0
                      /\ db.handle => db.excess <= Garbage(db.binlog, db.map)
    BY DEF ExcessIsGarbage
  <2>0. db.excess \in Nat  BY DEF LInv, Sound, LogShape
  <2> SUFFICES ASSUME db.handle  PROVE db.excess <= Garbage(db.binlog, db.map)
    BY <2>0
  <2>1. db.excess + Cardinality(MappedIn(db)) <= Weight(db.binlog)
    BY DEF LInv, Sound, Agrees
  <2>2. /\ db.excess \in Nat /\ Cardinality(MappedIn(db)) \in Nat
        /\ Weight(db.binlog) \in Nat
    BY MappedIsFinite, CountsAreFinite DEF LInv, Sound, LogShape
  <2>3. Garbage(db.binlog, db.map) = Weight(db.binlog) - Cardinality(MappedIn(db))
    <3> DEFINE M == {k \in Keys : db.map[k] # None}
               L == db.binlog
    <3>1. MappedIn(db) = M  BY DEF MappedIn
    <3>2. Garbage(L, db.map) = Cardinality(Stores(L)) + Cardinality(Removes(L)) - Cardinality(M)
      BY Zenon DEF Garbage
    <3> HIDE DEF M, L
    <3>3. Weight(L) = Cardinality(Stores(L)) + Cardinality(Removes(L))  BY DEF Weight
    <3> HIDE DEF Weight
    <3>4. /\ Cardinality(Stores(L)) \in Nat /\ Cardinality(Removes(L)) \in Nat
          /\ Cardinality(M) \in Nat
      BY <2>2, <3>1, CountsAreFinite DEF LInv, Sound, LogShape, L
    <3>5. Garbage(L, db.map) = Weight(L) - Cardinality(M)  BY <3>2, <3>3, <3>4
    <3> QED  BY <3>1, <3>5 DEF L
  <2> QED  BY <2>1, <2>2, <2>3
<1> QED  BY <1>1, LogInvariant, PTL

-----------------------------------------------------------------------------
(* How a put ends. *)

\* Its record is written, and x to its data file.
PutWritten(d, f, k, n, x) ==
    /\ d.handle /\ n \in Entry /\ n # None /\ Apart(d.binlog, k, n.place)
    /\ Stored(d, f, k, n) /\ f.files = [d.files EXCEPT ![n.place] = x]
    /\ Good(f) /\ Sound(f)

LEMMA PutIsWritten ==
    ASSUME NEW d, Good(d), Sound(d), NEW k \in Keys, NEW v \in Values, d.handle,
           NEW p \in PlacesFor(Rescue(d, k), k), NEW n, n = [place |-> p, sum |-> v],
           NEW e, e = WriteStore(Rescue(d, k), k, n), NEW x,
           NEW f, f = [e EXCEPT !.files[p] = x]
    PROVE  PutWritten(d, f, k, n, x) /\ f.handle = e.handle /\ e.files = d.files
<1>1. /\ p \in Places /\ Apart(d.binlog, k, p) /\ n \in Entry
      /\ Stored(d, e, k, n) /\ Shape(e) /\ e.files = d.files
      /\ Goes(d, e) /\ Good(e) /\ n # None
  <2> DEFINE r == Rescue(d, k)
  <2>1. r = Rescue(d, k) /\ p \in PlacesFor(r, k) /\ e = WriteStore(r, k, n)  OBVIOUS
  <2> HIDE DEF r
  <2> QED  BY <2>1, PutStores
<1>2. Sound(e)  BY <1>1 DEF Goes
<1>3. /\ Alike(e, f) /\ f.files = [e.files EXCEPT ![p] = x]
      /\ Good(f) /\ Sound(f)
  <2>1. f.files = [e.files EXCEPT ![p] = x]  BY <1>1 DEF Shape, Fields
  <2> DEFINE g == [e EXCEPT !.files[p] = x]
  <2>2. Alike(e, g) /\ Good(g) /\ Sound(g)  BY <1>1, <1>2, PlaceWritten
  <2>3. f = g  OBVIOUS
  <2> HIDE DEF g
  <2> QED  BY <2>1, <2>2, <2>3
<1>4. Stored(d, f, k, n)  BY <1>1, <1>3 DEF Stored, Alike
<1>5. n.place = p  OBVIOUS
<1> QED  BY <1>1, <1>3, <1>4, <1>5 DEF PutWritten, Alike

\* The value was there, or its record or its data could not be written, or
\* both were.
PutEndsWith(d, z, k, v) ==
    \/ Lookup(d.map, d.files, k) = v /\ Alike(d, z) /\ z.files = d.files
    \/ /\ FALSE \in BinlogWrites(d)
       /\ z.handle = FALSE /\ z.map = d.map /\ z.files = d.files
    \/ \E n, f, x :
          /\ n.sum = v /\ PutWritten(d, f, k, n, x)
          /\ \/ z = f /\ x = v
             \/ \E ok \in BinlogWrites(f), unlinked \in Succeeds("unlink") :
                   RemovesOne(f, z, k, ok, unlinked)

LEMMA PutEnds ==
    ASSUME NEW c, NEW d, Good(d), Sound(d), NEW k \in Keys, NEW v \in Values,
           PutFrom(c, d, k, v)
    PROVE  PutEndsWith(d, db', k, v)
<1> DEFINE r == Rescue(d, k)
<1>0. LogShape(d) /\ DOMAIN d.files = Places  BY DEF Sound, LogShape
<1>1. /\ Shape(r) /\ r.map = d.map /\ r.removing = d.removing \ {k}
      /\ r.binlog = d.binlog /\ r.excess = d.excess /\ r.handle = d.handle
      /\ r.files = d.files
  BY <1>0, RescueIs
<1>2. \/ /\ Lookup(r.map, r.files, k) = v /\ db' = [r EXCEPT !.armed = TRUE]
      \/ /\ FALSE \in BinlogWrites(r)
         /\ db' = [r EXCEPT !.handle = FALSE, !.armed = TRUE]
      \/ /\ TRUE \in BinlogWrites(r)
         /\ \E p \in PlacesFor(r, k) :
               LET e == WriteStore(r, k, [place |-> p, sum |-> v])
               IN  \/ db' = [e EXCEPT !.files[p] = v]
                   \/ \E ok \in BinlogWrites(e), unlinked \in Succeeds("unlink"),
                         left \in {e.files[p], Torn} :
                         db' = RemoveEntry([e EXCEPT !.files[p] = left], k, ok, unlinked)
  BY DEF PutFrom
<1>3. CASE Lookup(r.map, r.files, k) = v /\ db' = [r EXCEPT !.armed = TRUE]
  <2> HIDE DEF r
  <2>1. v # None  BY LogAssumption
  <2>2. d.map[k] # None  BY <1>1, <1>3, <2>1 DEF Lookup
  <2>3. k \notin d.removing  BY <2>2 DEF Good, Waits
  <2>4. Alike(d, db') /\ db'.files = d.files
    BY <1>0, <1>1, <1>3, <2>3 DEF Alike, Shape, Fields
  <2>5. Lookup(d.map, d.files, k) = v  BY <1>1, <1>3
  <2> QED  BY <2>4, <2>5 DEF PutEndsWith
<1>4. CASE /\ FALSE \in BinlogWrites(r)
           /\ db' = [r EXCEPT !.handle = FALSE, !.armed = TRUE]
  <2> HIDE DEF r
  <2>1. FALSE \in BinlogWrites(d)  BY <1>1, <1>4 DEF BinlogWrites
  <2>2. db'.handle = FALSE /\ db'.map = r.map /\ db'.files = r.files
    BY <1>1, <1>4 DEF Shape, Fields
  <2> QED  BY <1>1, <2>1, <2>2 DEF PutEndsWith
<1>5. CASE /\ TRUE \in BinlogWrites(r)
           /\ \E p \in PlacesFor(r, k) :
                 LET e == WriteStore(r, k, [place |-> p, sum |-> v])
                 IN  \/ db' = [e EXCEPT !.files[p] = v]
                     \/ \E ok \in BinlogWrites(e), unlinked \in Succeeds("unlink"),
                           left \in {e.files[p], Torn} :
                           db' = RemoveEntry([e EXCEPT !.files[p] = left], k, ok, unlinked)
  <2>1. PICK p \in PlacesFor(r, k) :
           LET e == WriteStore(r, k, [place |-> p, sum |-> v])
           IN  \/ db' = [e EXCEPT !.files[p] = v]
               \/ \E ok \in BinlogWrites(e), unlinked \in Succeeds("unlink"),
                     left \in {e.files[p], Torn} :
                     db' = RemoveEntry([e EXCEPT !.files[p] = left], k, ok, unlinked)
    BY <1>5
  <2> DEFINE n == [place |-> p, sum |-> v]
             e == WriteStore(r, k, n)
  <2>2. d.handle  BY <1>1, <1>5 DEF BinlogWrites
  <2>3. n = [place |-> p, sum |-> v] /\ e = WriteStore(Rescue(d, k), k, n) /\ n.sum = v
    OBVIOUS
  <2>4. p \in PlacesFor(Rescue(d, k), k)  OBVIOUS
  <2>5. \/ db' = [e EXCEPT !.files[p] = v]
        \/ \E left : \E ok \in BinlogWrites(e), unlinked \in Succeeds("unlink") :
              db' = RemoveEntry([e EXCEPT !.files[p] = left], k, ok, unlinked)
    BY <2>1
  <2> HIDE DEF n, e, r
  <2>6. CASE db' = [e EXCEPT !.files[p] = v]
    <3> DEFINE f == [e EXCEPT !.files[p] = v]
    <3>1. f = [e EXCEPT !.files[p] = v]  OBVIOUS
    <3>2. db' = f  BY <2>6
    <3> HIDE DEF f
    <3>3. PutWritten(d, f, k, n, v)  BY <2>2, <2>3, <2>4, <3>1, PutIsWritten
    <3> QED  BY <2>3, <3>2, <3>3 DEF PutEndsWith
  <2>7. CASE \E left : \E ok \in BinlogWrites(e), unlinked \in Succeeds("unlink") :
                db' = RemoveEntry([e EXCEPT !.files[p] = left], k, ok, unlinked)
    <3>0. PICK left : \E ok \in BinlogWrites(e), unlinked \in Succeeds("unlink") :
             db' = RemoveEntry([e EXCEPT !.files[p] = left], k, ok, unlinked)
      BY <2>7
    <3>1. PICK ok \in BinlogWrites(e), unlinked \in Succeeds("unlink") :
             db' = RemoveEntry([e EXCEPT !.files[p] = left], k, ok, unlinked)
      BY <3>0
    <3> DEFINE f == [e EXCEPT !.files[p] = left]
    <3>2. f = [e EXCEPT !.files[p] = left] /\ db' = RemoveEntry(f, k, ok, unlinked)
      BY <3>1
    <3> HIDE DEF f
    <3>3. PutWritten(d, f, k, n, left) /\ f.handle = e.handle
      BY <2>2, <2>3, <2>4, <3>2, PutIsWritten
    <3>4. LogShape(f) /\ f.map[k] # None
      BY <1>0, <3>3 DEF PutWritten, Sound, Stored, LogShape
    <3>5. RemovesOne(f, db', k, ok, unlinked)  BY <3>2, <3>4, RemoveEntryIs
    <3>6. ok \in BinlogWrites(f)  BY <3>1, <3>3 DEF BinlogWrites
    <3> QED  BY <2>3, <3>1, <3>3, <3>5, <3>6 DEF PutEndsWith
  <2> QED  BY <2>5, <2>6, <2>7
<1> QED  BY <1>2, <1>3, <1>4, <1>5

-----------------------------------------------------------------------------
(* Files that can be deleted. *)

\* What the log still says of a key whose removal waits is gone.
Gone(d) ==
    d.handle =>
        \A k \in d.removing :
            EntryOf(d.binlog, k) # None =>
                d.files[EntryOf(d.binlog, k).place] # EntryOf(d.binlog, k).sum

LEMMA SteadyGone ==
    ASSUME NEW d, Gone(d), NEW z, z.handle => d.handle, z.files = d.files,
           z.removing = {} \/ (z.removing \subseteq d.removing /\ z.binlog = d.binlog)
    PROVE  Gone(z)
BY DEF Gone

LEMMA WrittenGone ==
    ASSUME NEW d, Gone(d), LogShape(d), NEW f, NEW k \in Keys, NEW n, NEW x,
           PutWritten(d, f, k, n, x)
    PROVE  Gone(f)
<1> DEFINE L == d.binlog
           r == Store(k, n)
<1>1. /\ n \in Slot /\ Apart(L, k, n.place) /\ d.handle
      /\ f.binlog = Append(L, r) /\ f.removing = d.removing \ {k}
      /\ f.files = [d.files EXCEPT ![n.place] = x] /\ d.removing \subseteq Keys
  BY DEF PutWritten, Stored, Slot, LogShape
<1>2. r \in Record /\ DOMAIN r = {k} /\ IsLog(L)  BY <1>1, RecordsAre DEF LogShape
<1> HIDE DEF r, L
<1>3. ASSUME NEW j \in f.removing, EntryOf(f.binlog, j) # None
      PROVE  f.files[EntryOf(f.binlog, j).place] # EntryOf(f.binlog, j).sum
  <2>1. EntryOf(Append(L, r), j) = IF j \in DOMAIN r THEN r[j] ELSE EntryOf(L, j)
    BY <1>2, Appended
  <2>2. EntryOf(f.binlog, j) = EntryOf(L, j) /\ j # k /\ j \in d.removing /\ j \in Keys
    BY <1>1, <1>2, <1>3, <2>1
  <2>3. EntryOf(L, j).place # n.place  BY <1>1, <1>3, <2>2 DEF Apart
  <2>4. d.files[EntryOf(L, j).place] # EntryOf(L, j).sum
    BY <1>1, <1>3, <2>2 DEF Gone, L
  <2>5. EntryOf(L, j).place \in DOMAIN d.files
    <3>1. EntryOf(L, j) \in Entry  BY <1>2, <1>3, <2>2, EntryIsNamed
    <3> QED  BY <3>1 DEF Entry, LogShape
  <2> QED  BY <1>1, <2>2, <2>3, <2>4, <2>5
<1> QED  BY <1>3 DEF Gone

LEMMA RemovedGone ==
    ASSUME NEW d, Good(d), Sound(d), Gone(d), NEW z, NEW k \in Keys, d.map[k] # None,
           NEW ok, NEW unlinked, unlinked, RemovesOne(d, z, k, ok, unlinked)
    PROVE  Gone(z)
<1> DEFINE L == d.binlog
           p == d.map[k].place
<1>1. /\ z.files = [d.files EXCEPT ![p] = None] /\ Removed(d, z, {k})
      /\ DOMAIN d.files = Places /\ IsLog(L) /\ d.removing \subseteq Keys
  BY DEF RemovesOne, Sound, LogShape
<1>2. CASE z.removing = {} \/ ~z.handle  BY <1>2 DEF Gone
<1>3. CASE z.removing # {} /\ z.handle
  <2>1. z.removing = d.removing \cup {k} /\ z.binlog = L /\ d.handle
    BY <1>1, <1>3 DEF Removed
  <2>2. EntryOf(L, k) = d.map[k]  BY <2>1 DEF Sound, Agrees, Good, Waits
  <2>3. ASSUME NEW j \in z.removing, EntryOf(L, j) # None
        PROVE  z.files[EntryOf(L, j).place] # EntryOf(L, j).sum
    <3>1. j \in Keys  BY <1>1, <2>1, <2>3
    <3>2. EntryOf(L, j) \in Entry  BY <1>1, <2>3, <3>1, EntryIsNamed
    <3>3. EntryOf(L, j).place \in Places /\ EntryOf(L, j).sum # None
      BY <3>2, LogAssumption DEF Entry
    <3>4. CASE EntryOf(L, j).place = p  BY <1>1, <3>3, <3>4
    <3>5. CASE EntryOf(L, j).place # p
      <4>1. j \in d.removing  BY <2>1, <2>2, <3>5
      <4>2. d.files[EntryOf(L, j).place] # EntryOf(L, j).sum
        BY <2>1, <2>3, <4>1 DEF Gone
      <4> QED  BY <1>1, <3>3, <3>5, <4>2
    <3> QED  BY <3>4, <3>5
  <2> QED  BY <2>1, <2>3 DEF Gone
<1> QED  BY <1>2, <1>3

\* The data of what is removed is deleted.
LEMMA Unlinked ==
    ASSUME "unlink" \notin Faults, NEW unlinked \in Succeeds("unlink")
    PROVE  unlinked
BY DEF Succeeds

LEMMA PutGone ==
    ASSUME "unlink" \notin Faults, NEW c, NEW d, Good(d), Sound(d), Gone(d),
           NEW k \in Keys, NEW v \in Values, PutFrom(c, d, k, v)
    PROVE  Gone(db')
<1>1. CASE Alike(d, db') /\ db'.files = d.files
  BY <1>1, SteadyGone DEF Alike
<1>2. CASE db'.handle = FALSE  BY <1>2 DEF Gone
<1>3. ASSUME NEW n, NEW f, NEW x, PutWritten(d, f, k, n, x),
             \/ db' = f
             \/ \E ok \in BinlogWrites(f), unlinked \in Succeeds("unlink") :
                   RemovesOne(f, db', k, ok, unlinked)
      PROVE  Gone(db')
  <2>1. Gone(f) /\ LogShape(d)  BY <1>3, WrittenGone DEF Sound
  <2>2. ASSUME NEW ok, NEW unlinked \in Succeeds("unlink"),
               RemovesOne(f, db', k, ok, unlinked)
        PROVE  Gone(db')
    <3>1. Good(f) /\ Sound(f) /\ f.map[k] # None
      BY <1>3, <2>1 DEF PutWritten, Stored, LogShape
    <3>2. unlinked  BY <2>2, Unlinked
    <3> QED  BY <2>1, <2>2, <3>1, <3>2, RemovedGone
  <2> QED  BY <1>3, <2>1, <2>2
<1>4. \/ Alike(d, db') /\ db'.files = d.files
      \/ db'.handle = FALSE
      \/ \E n, f, x :
            /\ PutWritten(d, f, k, n, x)
            /\ \/ db' = f
               \/ \E ok \in BinlogWrites(f), unlinked \in Succeeds("unlink") :
                     RemovesOne(f, db', k, ok, unlinked)
  <2>1. PutEndsWith(d, db', k, v)  BY PutEnds
  <2> QED  BY <2>1 DEF PutEndsWith
<1> QED  BY <1>1, <1>2, <1>3, <1>4

LEMMA RemoveGone ==
    ASSUME "unlink" \notin Faults, NEW d, Good(d), Sound(d), Gone(d), NEW k \in Keys,
           NEW ok, NEW unlinked \in Succeeds("unlink"),
           NEW z, z = RemoveEntry(d, k, ok, unlinked)
    PROVE  Gone(z)
<1>1. CASE d.map[k] = None  BY <1>1 DEF RemoveEntry
<1>2. CASE d.map[k] # None
  <2>1. RemovesOne(d, z, k, ok, unlinked)  BY <1>2, RemoveEntryIs DEF Sound
  <2>2. unlinked  BY Unlinked
  <2> QED  BY <1>2, <2>1, <2>2, RemovedGone
<1> QED  BY <1>1, <1>2

LEMMA StaleGone ==
    ASSUME "unlink" \notin Faults, NEW d, Good(d), Sound(d), Gone(d), StaleChunk(d)
    PROVE  Gone(db')
<1>1. PICK k \in d.stale, ok \in BinlogWrites(d), unlinked \in Succeeds("unlink") :
        LET e == [RemoveEntry(d, k, ok, unlinked) EXCEPT !.stale = @ \ {k}]
        IN  IF e.stale = {} THEN db' = [e EXCEPT !.fresh = {}] ELSE db' = e
  BY DEF StaleChunk
<1> DEFINE x == RemoveEntry(d, k, ok, unlinked)
           e == [x EXCEPT !.stale = @ \ {k}]
<1>2. k \in Keys  BY DEF Good, Spares
<1>3. Gone(x) /\ Good(x)  BY <1>2, RemoveGone, RemoveKeeps
<1>4. IF e.stale = {} THEN db' = [e EXCEPT !.fresh = {}] ELSE db' = e  BY <1>1
<1> HIDE DEF x
<1>5. /\ Shape(e) /\ e.files = x.files /\ e.removing = x.removing
      /\ e.binlog = x.binlog /\ e.handle = x.handle
  BY <1>3 DEF Good, Shape, Fields
<1> HIDE DEF e
<1>6. /\ db'.files = x.files /\ db'.removing = x.removing
      /\ db'.binlog = x.binlog /\ db'.handle = x.handle
  <2>1. CASE db' = e  BY <1>5, <2>1
  <2>2. CASE db' = [e EXCEPT !.fresh = {}]  BY <1>5, <2>2 DEF Shape, Fields
  <2> QED  BY <1>4, <2>1, <2>2
<1> QED  BY <1>3, <1>6, SteadyGone

LEMMA StartStaleGone ==
    ASSUME "unlink" \notin Faults, Good(db), Sound(db), Gone(db), db.stale = {},
           NEW S \in SUBSET Keys, StaleChunk([db EXCEPT !.stale = S])
    PROVE  Gone(db')
<1> DEFINE d == [db EXCEPT !.stale = S]
<1>0. LogShape(db)  BY DEF Sound
<1>1. /\ Alike(db, d) /\ d.stale = S /\ d.fresh = db.fresh /\ d.armed = db.armed
      /\ d.files = db.files
  BY <1>0 DEF LogShape, Alike, Shape, Fields
<1>2. StaleChunk(d)  OBVIOUS
<1> HIDE DEF d
<1>3. Good(d)  BY <1>1 DEF Alike, Good, Waits, Spares
<1>4. Sound(d)  BY <1>1, AlikeGoes DEF Goes
<1>5. Gone(d)  BY <1>1, SteadyGone DEF Alike
<1> QED  BY <1>2, <1>3, <1>4, <1>5, StaleGone

LEMMA CopyIs ==
    ASSUME LInv, NEW from \in Keys, NEW to \in Keys, CopyIfEmpty(from, to),
           ~GetUnreadable(from), NEW d, d = [db EXCEPT !.armed = TRUE],
           NEW v, v = Lookup(db.map, db.files, from)
    PROVE  /\ v \in Values /\ Good(d) /\ Sound(d) /\ Alike(db, d) /\ d.files = db.files
           /\ \E c : PutFrom(c, d, to, v)
<1>0. Good(db) /\ Sound(db) /\ LogShape(db)  BY DEF LInv, RInv, Sound
<1>1. v # None /\ \E c : PutFrom(c, d, to, v)  BY DEF CopyIfEmpty
<1>2. v \in Values
  <2>1. db.map[from] # None /\ v = db.map[from].sum  BY <1>1 DEF Lookup
  <2> QED  BY <1>0, <2>1 DEF LogShape, Slot, Entry
<1>3. /\ Alike(db, d) /\ d.stale = db.stale /\ d.fresh = db.fresh /\ d.armed
      /\ d.files = db.files
  BY <1>0 DEF Alike, LogShape, Shape, Fields
<1>4. Good(d)  BY <1>0, <1>3, QuietKeeps DEF Alike
<1>5. Sound(d)  BY <1>0, <1>3, AlikeGoes DEF Goes
<1> QED  BY <1>1, <1>2, <1>3, <1>4, <1>5

LEMMA CallersGone ==
    ASSUME "unlink" \notin Faults, LInv, Gone(db), Callers, LInv'
    PROVE  Gone(db')
<1>0. Good(db) /\ Sound(db) /\ LogShape(db)  BY DEF LInv, RInv, Sound
<1>1. ASSUME NEW k \in Keys, NEW v \in Values, Put(k, v) \/ PutIfEmpty(k, v)
      PROVE  Gone(db')
  <2>1. PutFrom(comp, db, k, v)  BY <1>1 DEF Put, PutIfEmpty
  <2> QED  BY <1>0, <2>1, PutGone
<1>2. ASSUME NEW k \in Keys, GetUnreadable(k) \/ Remove(k)  PROVE Gone(db')
  <2>1. PICK ok \in BinlogWrites(db), unlinked \in Succeeds("unlink") : db' = RemoveEntry(db, k, ok, unlinked)
    BY <1>2 DEF GetUnreadable, Remove
  <2> QED  BY <1>0, <2>1, RemoveGone
<1>3. ASSUME NEW k, GetReadable(k)  PROVE Gone(db')
  <2>1. Alike(db, db') /\ db'.files = db.files
    BY <1>0, <1>3 DEF GetReadable, Alike, LogShape, Shape, Fields
  <2> QED  BY <2>1, SteadyGone DEF Alike
<1>4. ASSUME NEW from \in Keys, NEW to \in Keys, CopyIfEmpty(from, to)  PROVE Gone(db')
  <2>1. CASE GetUnreadable(from)  BY <1>2, <2>1
  <2>2. CASE ~GetUnreadable(from)
    <3> DEFINE d == [db EXCEPT !.armed = TRUE]
               v == Lookup(db.map, db.files, from)
    <3>1. /\ v \in Values /\ Good(d) /\ Sound(d) /\ Alike(db, d) /\ d.files = db.files
          /\ \E c : PutFrom(c, d, to, v)
      BY <1>4, <2>2, CopyIs
    <3> HIDE DEF d, v
    <3>2. Gone(d)  BY <3>1, SteadyGone DEF Alike
    <3>3. PICK c : PutFrom(c, d, to, v)  BY <3>1
    <3> QED  BY <3>1, <3>2, <3>3, PutGone
  <2> QED  BY <2>1, <2>2
<1>5. ASSUME NEW from \in Keys, NEW to \in Keys, MoveIfEmpty(from, to)  PROVE Gone(db')
  <2>1. ASSUME NEW ok, NEW a, a = MoveAway(db, from, ok)
        PROVE  a.removing = {} /\ LogShape(a)
    <3>1. MovesAway(db, a, from, ok)  BY <1>0, <2>1, MoveAwayIs
    <3>2. Removed(db, a, {from}) /\ Shape(a) /\ DOMAIN a.files = Places
      BY <1>0, <3>1 DEF MovesAway, LogShape
    <3>3. Sound(a)  BY <1>0, <3>2, RemovedGoes DEF Goes
    <3> QED  BY <3>1, <3>3 DEF MovesAway, Sound
  <2>2. CASE db' = MoveAway(db, from, FALSE)  BY <2>1, <2>2 DEF Gone
  <2>3. CASE db' # MoveAway(db, from, FALSE)
    <3> DEFINE a == MoveAway(db, from, TRUE)
               n == db.map[from]
    <3>1. \/ db' = WriteStore(Rescue(a, to), to, n)
          \/ db' = [Rescue(a, to) EXCEPT !.handle = FALSE]
      BY <1>5, <2>3 DEF MoveIfEmpty
    <3>2. a.removing = {} /\ LogShape(a)  BY <2>1
    <3> HIDE DEF a, n
    <3>3. CASE db' = WriteStore(Rescue(a, to), to, n)
      <4>1. Stored(a, db', to, n)  BY <3>2, <3>3, StoreIs
      <4>2. db'.removing = {}  BY <3>2, <4>1 DEF Stored
      <4> QED  BY <4>2 DEF Gone
    <3>4. CASE db' = [Rescue(a, to) EXCEPT !.handle = FALSE]
      <4> DEFINE r == Rescue(a, to)
      <4>1. Shape(r)  BY <3>2, RescueIs
      <4> HIDE DEF r
      <4>2. db'.handle = FALSE  BY <3>4, <4>1 DEF Shape, Fields, r
      <4> QED  BY <4>2 DEF Gone
    <3> QED  BY <3>1, <3>3, <3>4
  <2> QED  BY <2>2, <2>3
<1>6. ASSUME NEW S, ClearByTag(S)  PROVE Gone(db')
  <2>1. Alike(db, db') /\ db'.files = db.files
    BY <1>0, <1>6 DEF ClearByTag, Alike, LogShape, Shape, Fields
  <2> QED  BY <2>1, SteadyGone DEF Alike
<1>7. ASSUME NEW S \in SUBSET Mapped, ClearByTagFirst(S)  PROVE Gone(db')
  <2>1. db.stale = {} /\ StaleChunk([db EXCEPT !.stale = S]) /\ S \in SUBSET Keys
    BY <1>7 DEF ClearByTagFirst, Mapped
  <2> QED  BY <1>0, <2>1, StartStaleGone
<1>8. CASE Open \/ Close \/ Clear
  <2>1. db'.removing = {}
    <3>1. CASE Open
      <4>1. CASE db' = ReadBinlog([db EXCEPT !.binlog = DiskLog])
        <5>1. db.removing = {}  BY <3>1 DEF LInv, RInv, Open
        <5> DEFINE d == [db EXCEPT !.binlog = DiskLog]
        <5>2. Fields \subseteq DOMAIN d /\ d.removing = {}
          BY <1>0, <5>1 DEF LogShape, Shape, Fields
        <5>3. db' = ReadBinlog(d)  BY <4>1
        <5> HIDE DEF d
        <5> QED  BY <5>2, <5>3 DEF ReadBinlog, Fields
      <4>2. CASE db' = ReadBinlog(EmptyVersion)
        BY <4>2 DEF ReadBinlog, EmptyVersion
      <4> QED  BY <3>1, <4>1, <4>2 DEF Open
    <3>2. ASSUME NEW ok, db' = Closed(db, ok)  PROVE db'.removing = {}
      BY <1>0, <3>2, ClosedIsSound
    <3>3. CASE db' = [EmptyVersion EXCEPT !.handle = isOpen]
      BY <3>3, EmptyIsSound
    <3> QED  BY <1>8, <3>1, <3>2, <3>3 DEF Close, Clear
  <2> QED  BY <2>1 DEF Gone
<1>9. CASE UpdateSettings  BY <1>9 DEF UpdateSettings
<1> QED
  BY <1>1, <1>2, <1>3, <1>4, <1>5, <1>6, <1>7, <1>8, <1>9 DEF Callers, Get

LEMMA OthersGone ==
    ASSUME "unlink" \notin Faults, LInv, Gone(db), LInv',
           Timers \/ Compactor \/ Messages \/ Crashes
    PROVE  Gone(db')
<1>0. Good(db) /\ Sound(db) /\ InStep(comp, db) /\ LogShape(db)
  BY DEF LInv, RInv, Sound
<1>1. CASE WriteBundles
  <2>1. PICK ok : db' = [WriteMultiRemove(db, ok) EXCEPT !.armed = FALSE]
    BY <1>1 DEF WriteBundles
  <2> DEFINE e == WriteMultiRemove(db, ok)
  <2>2. Shape(e) /\ e.removing = {}  BY <1>0, WriteMultiRemoveIs
  <2>3. db' = [e EXCEPT !.armed = FALSE]  BY <2>1
  <2> HIDE DEF e
  <2>4. db'.removing = {}  BY <2>2, <2>3 DEF Shape, Fields
  <2> QED  BY <2>4 DEF Gone
<1>2. CASE ClearStaleChunk  BY <1>0, <1>2, StaleGone DEF ClearStaleChunk
<1>3. ASSUME NEW S \in SUBSET Mapped, Prune(S)  PROVE Gone(db')
  <2>1. db.stale = {} /\ StaleChunk([db EXCEPT !.stale = S]) /\ S \in SUBSET Keys
    BY <1>3 DEF Prune, Mapped
  <2> QED  BY <1>0, <2>1, StartStaleGone
<1>4. CASE CompactorDone
  <2>1. CASE db.handle /\ db' = [db EXCEPT !.binlog = Swapped, !.excess = @ - comp.excess]
    <3>1. /\ db'.files = db.files /\ db'.removing = db.removing
          /\ db'.binlog = Swapped /\ db'.handle = db.handle
      BY <1>0, <2>1 DEF LogShape, Shape, Fields
    <3>2. \A k \in Keys : EntryOf(Swapped, k) \in {None, EntryOf(db.binlog, k)}
      BY <1>0, <1>4, <2>1, SwappedIs DEF CompactorDone
    <3> QED  BY <1>0, <3>1, <3>2 DEF Gone, LogShape
  <2>2. CASE db' = db  BY <2>2
  <2>3. ASSUME NEW left, db' = [db EXCEPT !.binlog = left, !.handle = FALSE]
        PROVE  Gone(db')
    <3>1. db'.handle = FALSE  BY <1>0, <2>3 DEF LogShape, Shape, Fields
    <3> QED  BY <3>1 DEF Gone
  <2> QED  BY <1>4, <2>1, <2>2, <2>3 DEF CompactorDone
<1>5. CASE (Compactor \/ Messages) /\ ~CompactorDone
  <2>1. db' = db
    BY <1>5 DEF Compactor, Messages, CompactorStart, ProcessValues, Finalize, Fail,
         GetManyRaw, CompactorFail, LateCompactorFail, compactorOnly
  <2> QED  BY <2>1
<1>6. CASE Crashes
  <2>1. isOpen' = FALSE
    BY <1>6 DEF Crashes, Crash, CrashInPut, CrashInMove, CrashInSwap, Crashed
  <2>2. ~db'.handle  BY <2>1 DEF LInv
  <2> QED  BY <2>2 DEF Gone
<1> QED  BY <1>1, <1>2, <1>3, <1>4, <1>5, <1>6 DEF Timers

\* A log that says what the map says, or else what is gone, finds the same.
LEMMA FindsTheSame ==
    ASSUME NEW d, Good(d), Sound(d), Gone(d), d.handle, NEW s,
           \A k \in Keys : EntryOf(s, k) \in {None, EntryOf(d.binlog, k)},
           \A k \in Keys \ d.removing : EntryOf(s, k) = d.map[k], NEW k \in Keys
    PROVE  Lookup(Replay(s), d.files, k) = Lookup(d.map, d.files, k)
<1>1. Replay(s)[k] = EntryOf(s, k)  BY DEF Replay
<1>2. CASE k \notin d.removing
  <2>1. Replay(s)[k] = d.map[k]  BY <1>1, <1>2
  <2> QED  BY <2>1 DEF Lookup
<1>3. CASE k \in d.removing
  <2>1. d.map[k] = None  BY <1>3 DEF Good, Waits
  <2>2. EntryOf(s, k) # None => EntryOf(s, k) = EntryOf(d.binlog, k)  OBVIOUS
  <2>3. EntryOf(d.binlog, k) # None =>
            d.files[EntryOf(d.binlog, k).place] # EntryOf(d.binlog, k).sum
    BY <1>3 DEF Gone
  <2> QED  BY <1>1, <2>1, <2>2, <2>3 DEF Lookup
<1> QED  BY <1>2, <1>3

LEMMA LogFinds ==
    ASSUME NEW d, Good(d), Sound(d), Gone(d), d.handle, NEW k \in Keys
    PROVE  Lookup(Replay(d.binlog), d.files, k) = Lookup(d.map, d.files, k)
<1>1. \A j \in Keys \ d.removing : EntryOf(d.binlog, j) = d.map[j]
  BY DEF Sound, Agrees
<1> QED  BY <1>1, FindsTheSame

GInv == LInv /\ Gone(db)

LEMMA GoneKept ==
    ASSUME "unlink" \notin Faults, GInv, [Next]_vars
    PROVE  GInv'
<1>1. LInv /\ Gone(db) /\ LInv'  BY LogKept DEF GInv
<1>2. CASE Callers  BY <1>1, <1>2, CallersGone DEF GInv
<1>3. CASE Timers \/ Compactor \/ Messages \/ Crashes
  BY <1>1, <1>3, OthersGone DEF GInv
<1>4. CASE UNCHANGED vars  BY <1>1, <1>4 DEF vars, GInv
<1> QED  BY <1>2, <1>3, <1>4 DEF Next

\* The log agrees with the map, and what it still says of a key whose removal
\* waits is deleted: what makes a crash harmless.
THEOREM GoneInvariant ==
    ASSUME "unlink" \notin Faults
    PROVE  Spec => []GInv
<1>1. Init => GInv
  <2> SUFFICES ASSUME Init  PROVE GInv  OBVIOUS
  <2>1. db.removing = {}  BY DEF Init, EmptyVersion
  <2> QED  BY <2>1, InitIsSound DEF GInv, Gone
<1>2. GInv /\ [Next]_vars => GInv'  BY GoneKept
<1> QED  BY <1>1, <1>2, PTL DEF Spec

-----------------------------------------------------------------------------
(* What is found. *)

Found(d) == [k \in Keys |-> Lookup(d.map, d.files, k)]

\* What else the theorem on the refinement leaves to the file system.
Faithful == Faults \cap {"unlink", "binlog", "swap"} = {}

LEMMA FaithfulWrites ==
    ASSUME Faithful
    PROVE  /\ "unlink" \notin Faults
           /\ \A d : d.handle => FALSE \notin BinlogWrites(d)
           /\ \A d : d.handle => \A ok \in BinlogWrites(d) : ok
           /\ \A unlinked \in Succeeds("unlink") : unlinked
           /\ FALSE \notin Succeeds("swap")
BY DEF Faithful, BinlogWrites, Succeeds

LEMMA FoundAgain ==
    ASSUME NEW d, NEW z, z.map = d.map, z.files = d.files
    PROVE  Found(z) = Found(d)
BY DEF Found

\* Entries of two keys have their data in two places.
LEMMA PlacesDiffer ==
    ASSUME NEW d, Good(d), Sound(d), d.handle, NEW j \in Keys, NEW k \in Keys, j # k,
           d.map[j] # None, d.map[k] # None
    PROVE  /\ d.map[j].place # d.map[k].place
           /\ d.map[j].place \in Places /\ d.map[j].sum \in Values
<1>1. j \notin d.removing /\ k \notin d.removing  BY DEF Good, Waits
<1>2. EntryOf(d.binlog, j) = d.map[j] /\ EntryOf(d.binlog, k) = d.map[k]
  BY <1>1 DEF Sound, Agrees
<1>3. d.map[j] \in Entry  BY DEF Sound, LogShape, Slot
<1> QED  BY <1>2, <1>3 DEF Sound, Distinct, Entry

LEMMA RemovedFound ==
    ASSUME NEW d, Good(d), Sound(d), d.handle, NEW k \in Keys, d.map[k] # None,
           NEW ok, NEW unlinked, NEW z, RemovesOne(d, z, k, ok, unlinked)
    PROVE  Found(z) = [Found(d) EXCEPT ![k] = None]
<1> DEFINE p == d.map[k].place
<1>1. /\ z.map = [j \in Keys |-> IF j \in {k} THEN None ELSE d.map[j]]
      /\ \A q \in Places \ {p} : z.files[q] = d.files[q]
  BY DEF RemovesOne, Removed, Sound, LogShape
<1> HIDE DEF p
<1>2. ASSUME NEW j \in Keys
      PROVE  Lookup(z.map, z.files, j) = IF j = k THEN None ELSE Lookup(d.map, d.files, j)
  <2>1. CASE j = k  BY <1>1, <2>1 DEF Lookup
  <2>2. CASE j # k
    <3>1. z.map[j] = d.map[j]  BY <1>1, <2>2
    <3>2. d.map[j] # None => d.map[j].place \in Places \ {p}
      BY <2>2, PlacesDiffer DEF p
    <3>3. d.map[j] # None => z.files[d.map[j].place] = d.files[d.map[j].place]
      BY <1>1, <3>2
    <3> QED  BY <2>2, <3>1, <3>3 DEF Lookup
  <2> QED  BY <2>1, <2>2
<1> QED  BY <1>2 DEF Found

LEMMA WrittenFound ==
    ASSUME NEW d, Good(d), Sound(d), NEW k \in Keys, NEW n, NEW x, NEW f,
           PutWritten(d, f, k, n, x)
    PROVE  Found(f) = [Found(d) EXCEPT ![k] = IF x = n.sum THEN x ELSE None]
<1>1. /\ d.handle /\ n \in Entry /\ n # None /\ Apart(d.binlog, k, n.place)
      /\ f.map = [d.map EXCEPT ![k] = n] /\ DOMAIN d.map = Keys
      /\ f.files = [d.files EXCEPT ![n.place] = x] /\ DOMAIN d.files = Places
  BY DEF PutWritten, Stored, Sound, LogShape
<1>2. n.place \in Places  BY <1>1 DEF Entry
<1>3. ASSUME NEW j \in Keys
      PROVE  Lookup(f.map, f.files, j)
               = IF j = k THEN IF x = n.sum THEN x ELSE None
                          ELSE Lookup(d.map, d.files, j)
  <2>1. CASE j = k
    <3>1. f.map[j] = n /\ f.files[n.place] = x  BY <1>1, <1>2, <2>1
    <3> QED  BY <1>1, <2>1, <3>1 DEF Lookup
  <2>2. CASE j # k
    <3>1. f.map[j] = d.map[j]  BY <1>1, <2>2
    <3>2. d.map[j] # None => d.map[j].place # n.place /\ d.map[j].place \in Places
      <4>1. SUFFICES ASSUME d.map[j] # None
                     PROVE  d.map[j].place # n.place /\ d.map[j].place \in Places
        OBVIOUS
      <4>2. j \notin d.removing  BY <4>1 DEF Good, Waits
      <4>3. EntryOf(d.binlog, j) = d.map[j]  BY <1>1, <4>2 DEF Sound, Agrees
      <4>4. d.map[j] \in Entry  BY <4>1 DEF Sound, LogShape, Slot
      <4> QED  BY <1>1, <2>2, <4>1, <4>3, <4>4 DEF Apart, Entry
    <3>3. d.map[j] # None => f.files[d.map[j].place] = d.files[d.map[j].place]
      BY <1>1, <3>2
    <3> QED  BY <2>2, <3>1, <3>3 DEF Lookup
  <2> QED  BY <2>1, <2>2
<1> QED  BY <1>3 DEF Found

\* A put stores its value or loses it, and touches nothing else.
LEMMA PutFound ==
    ASSUME Faithful, NEW c, NEW d, Good(d), Sound(d), d.handle, NEW k \in Keys,
           NEW v \in Values, PutFrom(c, d, k, v)
    PROVE  /\ \E found \in {v, None} : Found(db') = [Found(d) EXCEPT ![k] = found]
           /\ db'.handle
<1>0. PutEndsWith(d, db', k, v) /\ FALSE \notin BinlogWrites(d)
  BY PutEnds, FaithfulWrites
<1>1. CASE Lookup(d.map, d.files, k) = v /\ Alike(d, db') /\ db'.files = d.files
  <2>1. Found(db') = Found(d) /\ db'.handle  BY <1>1, FoundAgain DEF Alike
  <2>2. Found(d) = [Found(d) EXCEPT ![k] = v]  BY <1>1 DEF Found
  <2> QED  BY <2>1, <2>2
<1>2. ASSUME NEW n, NEW f, NEW x, n.sum = v, PutWritten(d, f, k, n, x),
             \/ db' = f /\ x = v
             \/ \E ok \in BinlogWrites(f), unlinked \in Succeeds("unlink") :
                   RemovesOne(f, db', k, ok, unlinked)
      PROVE  /\ \E found \in {v, None} : Found(db') = [Found(d) EXCEPT ![k] = found]
             /\ db'.handle
  <2>1. Found(f) = [Found(d) EXCEPT ![k] = IF x = n.sum THEN x ELSE None]
    BY <1>2, WrittenFound
  <2>2. Good(f) /\ Sound(f) /\ f.handle /\ f.map[k] # None
    BY <1>2 DEF PutWritten, Stored, Sound, LogShape
  <2>3. CASE db' = f /\ x = v  BY <1>2, <2>1, <2>2, <2>3
  <2>4. ASSUME NEW ok \in BinlogWrites(f), NEW unlinked, RemovesOne(f, db', k, ok, unlinked)
        PROVE  Found(db') = [Found(d) EXCEPT ![k] = None] /\ db'.handle
    <3>1. Found(db') = [Found(f) EXCEPT ![k] = None]  BY <2>2, <2>4, RemovedFound
    <3>2. ok  BY <2>2, <2>4, FaithfulWrites
    <3>3. db'.handle = f.handle  BY <2>4, <3>2 DEF RemovesOne
    <3>4. [Found(f) EXCEPT ![k] = None] = [Found(d) EXCEPT ![k] = None]
      BY <2>1 DEF Found
    <3> QED  BY <2>2, <3>1, <3>3, <3>4
  <2> QED  BY <1>2, <2>3, <2>4
<1> QED  BY <1>0, <1>1, <1>2 DEF PutEndsWith

LEMMA RemoveFound ==
    ASSUME Faithful, NEW d, Good(d), Sound(d), d.handle, NEW k \in Keys,
           NEW ok \in BinlogWrites(d), NEW unlinked,
           NEW z, z = RemoveEntry(d, k, ok, unlinked)
    PROVE  Found(z) = [Found(d) EXCEPT ![k] = None] /\ z.handle
<1>1. CASE d.map[k] = None
  <2>1. z = d  BY <1>1 DEF RemoveEntry
  <2>2. Found(d) = [Found(d) EXCEPT ![k] = None]  BY <1>1 DEF Found, Lookup
  <2> QED  BY <2>1, <2>2
<1>2. CASE d.map[k] # None
  <2>1. RemovesOne(d, z, k, ok, unlinked)  BY <1>2, RemoveEntryIs DEF Sound
  <2>2. ok  BY FaithfulWrites
  <2>3. z.handle = d.handle  BY <2>1, <2>2 DEF RemovesOne
  <2> QED  BY <1>2, <2>1, <2>3, RemovedFound
<1> QED  BY <1>1, <1>2

\* What is stale is lost.
LEMMA StaleFound ==
    ASSUME Faithful, NEW d, Good(d), Sound(d), d.handle, StaleChunk(d)
    PROVE  (\E k \in Keys : Found(db') = [Found(d) EXCEPT ![k] = None]) /\ db'.handle
<1>1. PICK k \in d.stale, ok \in BinlogWrites(d), unlinked \in Succeeds("unlink") :
        LET e == [RemoveEntry(d, k, ok, unlinked) EXCEPT !.stale = @ \ {k}]
        IN  IF e.stale = {} THEN db' = [e EXCEPT !.fresh = {}] ELSE db' = e
  BY DEF StaleChunk
<1> DEFINE x == RemoveEntry(d, k, ok, unlinked)
           e == [x EXCEPT !.stale = @ \ {k}]
<1>2. k \in Keys  BY DEF Good, Spares
<1>3. Found(x) = [Found(d) EXCEPT ![k] = None] /\ x.handle /\ Good(x)
  BY <1>2, RemoveFound, RemoveKeeps
<1>4. IF e.stale = {} THEN db' = [e EXCEPT !.fresh = {}] ELSE db' = e  BY <1>1
<1> HIDE DEF x
<1>5. Shape(e) /\ e.files = x.files /\ e.map = x.map /\ e.handle = x.handle
  BY <1>3 DEF Good, Shape, Fields
<1> HIDE DEF e
<1>6. db'.files = x.files /\ db'.map = x.map /\ db'.handle = x.handle
  <2>1. CASE db' = e  BY <1>5, <2>1
  <2>2. CASE db' = [e EXCEPT !.fresh = {}]  BY <1>5, <2>2 DEF Shape, Fields
  <2> QED  BY <1>4, <2>1, <2>2
<1>7. Found(db') = Found(x)  BY <1>6, FoundAgain
<1> QED  BY <1>2, <1>3, <1>6, <1>7

LEMMA StartStaleFound ==
    ASSUME Faithful, Good(db), Sound(db), db.handle, db.stale = {},
           NEW S \in SUBSET Keys, StaleChunk([db EXCEPT !.stale = S])
    PROVE  (\E k \in Keys : Found(db') = [Found(db) EXCEPT ![k] = None]) /\ db'.handle
<1> DEFINE d == [db EXCEPT !.stale = S]
<1>0. LogShape(db)  BY DEF Sound
<1>1. /\ Alike(db, d) /\ d.stale = S /\ d.fresh = db.fresh /\ d.armed = db.armed
      /\ d.files = db.files
  BY <1>0 DEF LogShape, Alike, Shape, Fields
<1>2. StaleChunk(d)  OBVIOUS
<1> HIDE DEF d
<1>3. Good(d)  BY <1>1 DEF Alike, Good, Waits, Spares
<1>4. Sound(d) /\ d.handle  BY <1>1, AlikeGoes DEF Goes, Alike
<1>5. Found(d) = Found(db)  BY <1>1, FoundAgain DEF Alike
<1>6. (\E k \in Keys : Found(db') = [Found(d) EXCEPT ![k] = None]) /\ db'.handle
  BY <1>2, <1>3, <1>4, StaleFound
<1> QED  BY <1>5, <1>6

\* A move takes along what was found.
LEMMA MoveFound ==
    ASSUME Faithful, Good(db), Sound(db), db.handle, NEW from \in Keys, NEW to \in Keys,
           from # to, MoveIfEmpty(from, to)
    PROVE  /\ Found(db') = [Found(db) EXCEPT ![to] = Found(db)[from], ![from] = None]
           /\ db'.handle /\ Moved(from, to)
<1>0. LogShape(db) /\ db.map[from] # None  BY DEF Sound, MoveIfEmpty
<1> DEFINE a == MoveAway(db, from, TRUE)
           d == Rescue(a, to)
           n == db.map[from]
<1>1. MovesAway(db, a, from, TRUE)  BY <1>0, MoveAwayIs
<1>2. PICK ok \in BinlogWrites(d) :
         db' = IF ok THEN WriteStore(d, to, n) ELSE [d EXCEPT !.handle = FALSE]
  BY FaithfulWrites DEF MoveIfEmpty
<1>3. Moved(from, to)  BY FaithfulWrites DEF MoveIfEmpty
<1>4. d = Rescue(a, to)  OBVIOUS
<1> HIDE DEF a, d
<1>5. LogShape(a) /\ a.handle
  <2>1. Removed(db, a, {from}) /\ Shape(a) /\ DOMAIN a.files = Places
    BY <1>0, <1>1 DEF MovesAway, LogShape
  <2>2. Sound(a)  BY <1>0, <2>1, RemovedGoes DEF Goes
  <2> QED  BY <1>1, <2>2 DEF Sound, MovesAway
<1>6. d.handle  BY <1>4, <1>5, RescueIs
<1>7. ok  BY <1>2, <1>6, FaithfulWrites
<1>8. db' = WriteStore(d, to, n)  BY <1>2, <1>7
<1>9. Stored(a, db', to, n) /\ db'.files = a.files  BY <1>4, <1>5, <1>8, StoreIs
<1>10. /\ db'.map = [a.map EXCEPT ![to] = n] /\ db'.files = db.files /\ db'.handle
       /\ a.map = [j \in Keys |-> IF j \in {from} THEN None ELSE db.map[j]]
  BY <1>1, <1>5, <1>9 DEF Stored, MovesAway, Removed
<1>11. \A j \in Keys :
          db'.map[j] = IF j = to THEN n ELSE IF j = from THEN None ELSE db.map[j]
  BY <1>10
<1>12. ASSUME NEW j \in Keys
       PROVE  Lookup(db'.map, db'.files, j)
                = IF j = from THEN None
                  ELSE IF j = to THEN Lookup(db.map, db.files, from)
                  ELSE Lookup(db.map, db.files, j)
  <2>1. CASE j = to
    <3>1. db'.map[j] = n /\ n # None  BY <1>0, <1>11, <2>1
    <3> QED  BY <1>10, <2>1, <3>1 DEF Lookup
  <2>2. CASE j = from
    <3>1. db'.map[j] = None  BY <1>11, <2>2
    <3> QED  BY <2>2, <3>1 DEF Lookup
  <2>3. CASE j # to /\ j # from
    <3>1. db'.map[j] = db.map[j]  BY <1>11, <2>3
    <3> QED  BY <1>10, <2>3, <3>1 DEF Lookup
  <2> QED  BY <2>1, <2>2, <2>3
<1>13. Found(db') = [Found(db) EXCEPT ![to] = Found(db)[from], ![from] = None]
  BY <1>12 DEF Found
<1> QED  BY <1>3, <1>10, <1>13

\* What a map read from the log s would find.
LogFound(s, files) == [k \in Keys |-> Lookup(Replay(s), files, k)]

LEMMA LogFoundIs ==
    ASSUME NEW d, Good(d), Sound(d), Gone(d), d.handle
    PROVE  LogFound(d.binlog, d.files) = Found(d)
BY LogFinds DEF LogFound, Found

LEMMA VisibleIs ==
    /\ isOpen => Visible = Found(db)
    /\ ~isOpen => Visible = LogFound(DiskLog, db.files)
    /\ isOpen' => Visible' = Found(db')
    /\ ~isOpen' => Visible' = LogFound(DiskLog', db'.files)
    /\ DOMAIN Visible = Keys
BY DEF Visible, Found, LogFound

\* What an open database leaves when it closes finds the same, whether the
\* bundle could be written or not.
LEMMA ClosedFound ==
    ASSUME NEW d, Good(d), Sound(d), Gone(d), d.handle, NEW ok \in BinlogWrites(d),
           NEW z, z = Closed(d, ok)
    PROVE  LogFound(z.binlog, z.files) = Found(d) /\ z.files = d.files
<1> DEFINE w == WriteMultiRemove(d, ok)
<1>0. LogShape(d) /\ ok \in BOOLEAN  BY DEF Sound, BinlogWrites, Succeeds
<1>1. /\ Removed(d, w, {}) /\ Shape(w) /\ w.files = d.files
      /\ w.removing = {} /\ w.map = d.map
  BY <1>0, WriteMultiRemoveIs
<1>2. z = ClearState(w)  BY DEF Closed
<1> HIDE DEF w
<1>3. Sound(w)
  <2>1. DOMAIN w.files = Places  BY <1>0, <1>1 DEF LogShape
  <2> QED  BY <1>1, <2>1, RemovedGoes DEF Goes
<1>4. z.binlog = w.binlog /\ z.files = d.files  BY <1>1, <1>2, <1>3, ClearIsSound DEF Sound
<1>5. CASE w.handle = d.handle
  <2>1. \A k \in Keys : EntryOf(w.binlog, k) = d.map[k]
    BY <1>1, <1>3, <1>5 DEF Sound, Agrees
  <2>2. \A k \in Keys : Replay(z.binlog)[k] = d.map[k]  BY <1>4, <2>1 DEF Replay
  <2> QED  BY <1>4, <2>2 DEF LogFound, Found, Lookup
<1>6. CASE w.binlog = d.binlog  BY <1>4, <1>6, LogFoundIs
<1> QED  BY <1>1, <1>5, <1>6 DEF Removed

LEMMA EmptyFound ==
    /\ \A files : LogFound(<<>>, files) = Nothing
    /\ \A d : d.map = Nothing => Found(d) = Nothing
<1>1. \A k : EntryOf(<<>>, k) = None  BY EmptyLog
<1>2. ASSUME NEW files  PROVE LogFound(<<>>, files) = Nothing
  <2>1. \A k \in Keys : Replay(<<>>)[k] = None  BY <1>1 DEF Replay
  <2> QED  BY <2>1 DEF LogFound, Nothing, Lookup
<1>3. ASSUME NEW d, d.map = Nothing  PROVE Found(d) = Nothing
  <2>1. \A k \in Keys : d.map[k] = None  BY <1>3 DEF Nothing
  <2> QED  BY <2>1 DEF Found, Nothing, Lookup
<1> QED  BY <1>2, <1>3

-----------------------------------------------------------------------------
(* Crashes. *)

\* After a crash the log on disk is read.
LEMMA CrashedFinds ==
    ASSUME isOpen, ready = None, ready' = ready, NEW d, Good(d), Sound(d), Gone(d),
           d.handle, Crashed(d)
    PROVE  Visible' = Found(d)
<1>1. db' = ClearState(d) /\ ~isOpen'  BY DEF Crashed
<1>2. db'.binlog = d.binlog /\ db'.files = d.files
  BY <1>1, ClearIsSound DEF Sound
<1>3. DiskLog' = d.binlog  BY <1>2 DEF DiskLog
<1> QED  BY <1>1, <1>2, <1>3, LogFoundIs, VisibleIs

\* What the crashes have in common.
LEMMA BeforeCrash ==
    ASSUME GInv, db.handle
    PROVE  /\ Good(db) /\ Sound(db) /\ LogShape(db) /\ Gone(db) /\ InStep(comp, db)
           /\ isOpen /\ ready = None /\ Visible = Found(db)
<1>1. isOpen  BY DEF GInv, LInv
<1> QED  BY <1>1, VisibleIs DEF GInv, LInv, RInv, Sound

LEMMA CrashFinds ==
    ASSUME GInv, db.handle, Crash
    PROVE  Visible' = Visible /\ latest' = latest
<1>1. Crashed(db) /\ latest' = latest /\ ready' = ready  BY DEF Crash
<1>2. Visible' = Found(db)  BY <1>1, BeforeCrash, CrashedFinds
<1> QED  BY <1>1, <1>2, BeforeCrash

LEMMA CloseFinds ==
    ASSUME GInv, db.handle, Close
    PROVE  Visible' = Visible
<1>0. Good(db) /\ Sound(db) /\ Gone(db) /\ ready = None /\ Visible = Found(db)
  BY BeforeCrash
<1>1. PICK ok \in BinlogWrites(db) : db' = Closed(db, ok)  BY DEF Close
<1>2. ~isOpen' /\ ready' = ready  BY DEF Close
<1>3. LogFound(db'.binlog, db'.files) = Found(db)  BY <1>0, <1>1, ClosedFound
<1>4. DiskLog' = db'.binlog  BY <1>0, <1>2 DEF DiskLog
<1> QED  BY <1>0, <1>2, <1>3, <1>4, VisibleIs

\* The record of a put is read back; its data may be there, torn or missing.
LEMMA CrashInPutFinds ==
    ASSUME GInv, db.handle, NEW k \in Keys, NEW v \in Values, CrashInPut(k, v)
    PROVE  /\ \E found \in {v, None} : Visible' = [Visible EXCEPT ![k] = found]
           /\ latest' = [latest EXCEPT ![k] = v]
<1>0. /\ Good(db) /\ Sound(db) /\ LogShape(db) /\ Gone(db)
      /\ isOpen /\ ready = None /\ Visible = Found(db)
  BY BeforeCrash
<1> DEFINE r == Rescue(db, k)
<1>1. ready' = ready /\ latest' = [latest EXCEPT ![k] = v]  BY DEF CrashInPut
<1>2. PICK p \in PlacesFor(r, k) :
        \E left : Crashed([WriteStore(r, k, [place |-> p, sum |-> v])
                              EXCEPT !.files[p] = left])
  BY DEF CrashInPut
<1> DEFINE n == [place |-> p, sum |-> v]
           e == WriteStore(r, k, n)
<1>3. PICK left : Crashed([e EXCEPT !.files[p] = left])  BY <1>2
<1> DEFINE f == [e EXCEPT !.files[p] = left]
<1>4. /\ n = [place |-> p, sum |-> v] /\ e = WriteStore(Rescue(db, k), k, n)
      /\ f = [e EXCEPT !.files[p] = left] /\ n.sum = v /\ Crashed(f)
      /\ p \in PlacesFor(Rescue(db, k), k)
  BY <1>3
<1> HIDE DEF n, e, r, f
<1>5. PutWritten(db, f, k, n, left)  BY <1>0, <1>4, PutIsWritten
<1>6. Gone(f)  BY <1>0, <1>5, WrittenGone
<1>7. Good(f) /\ Sound(f) /\ f.handle  BY <1>5 DEF PutWritten, Stored
<1>8. Visible' = Found(f)  BY <1>0, <1>1, <1>4, <1>6, <1>7, CrashedFinds
<1>9. Found(f) = [Found(db) EXCEPT ![k] = IF left = n.sum THEN left ELSE None]
  BY <1>0, <1>5, WrittenFound
<1>10. \E found \in {v, None} : Visible' = [Visible EXCEPT ![k] = found]
  BY <1>0, <1>4, <1>8, <1>9
<1> QED  BY <1>1, <1>10

\* The removal of a move is read back, not the store.
LEMMA CrashInMoveFinds ==
    ASSUME GInv, db.handle, NEW from \in Keys, NEW to \in Keys, CrashInMove(from, to)
    PROVE  /\ Visible' = [Visible EXCEPT ![to] = None, ![from] = None]
           /\ Moved(from, to)
<1>0. /\ Good(db) /\ Sound(db) /\ LogShape(db) /\ Gone(db)
      /\ isOpen /\ ready = None /\ Visible = Found(db)
  BY BeforeCrash
<1> DEFINE a == MoveAway(db, from, TRUE)
<1>1. /\ ready' = ready /\ Crashed(a) /\ Moved(from, to)
      /\ db.map[to] = None
  BY DEF CrashInMove
<1>2. MovesAway(db, a, from, TRUE) /\ Good(a)  BY <1>0, MoveAwayIs, MoveAwayKeeps
<1> HIDE DEF a
<1>3. /\ Removed(db, a, {from}) /\ Shape(a) /\ DOMAIN a.files = Places
      /\ a.files = db.files /\ a.removing = {} /\ a.handle
  BY <1>0, <1>2 DEF MovesAway, LogShape
<1>4. Sound(a) /\ Gone(a)  BY <1>0, <1>3, RemovedGoes DEF Goes, Gone
<1>5. Visible' = Found(a)  BY <1>0, <1>1, <1>2, <1>3, <1>4, CrashedFinds
<1>6. a.map = [j \in Keys |-> IF j \in {from} THEN None ELSE db.map[j]]
  BY <1>3 DEF Removed
<1>7. ASSUME NEW j \in Keys
      PROVE  Lookup(a.map, a.files, j)
               = IF j = from \/ j = to THEN None ELSE Lookup(db.map, db.files, j)
  <2>1. a.map[j] = IF j = from THEN None ELSE db.map[j]  BY <1>6
  <2> QED  BY <1>1, <1>3, <2>1 DEF Lookup
<1>8. Found(a) = [Found(db) EXCEPT ![to] = None, ![from] = None]  BY <1>7 DEF Found
<1> QED  BY <1>0, <1>1, <1>5, <1>8

\* The compacted log, found as binlog-ready, says what the binlog said.
LEMMA CrashInSwapFinds ==
    ASSUME GInv, db.handle, CrashInSwap
    PROVE  Visible' = Visible /\ latest' = latest
<1>0. /\ Good(db) /\ Sound(db) /\ LogShape(db) /\ Gone(db) /\ InStep(comp, db)
      /\ Visible = Found(db)
  BY BeforeCrash
<1>1. /\ At("done") /\ ready' = Swapped /\ latest' = latest  BY DEF CrashInSwap
<1>2. PICK left \in {db.binlog, <<>>} : Crashed([db EXCEPT !.binlog = left])
  BY DEF CrashInSwap
<1> DEFINE d == [db EXCEPT !.binlog = left]
<1>3. d.files = db.files /\ Fields \subseteq DOMAIN d
  BY <1>0 DEF LogShape, Shape, Fields
<1>4. db' = ClearState(d) /\ ~isOpen'  BY <1>2 DEF Crashed
<1> HIDE DEF d
<1>5. db'.files = db.files  BY <1>3, <1>4 DEF ClearState, Fields
<1>6. /\ IsLog(Swapped)
      /\ \A k \in Keys : EntryOf(Swapped, k) \in {None, EntryOf(db.binlog, k)}
      /\ \A k \in Keys \ db.removing : EntryOf(Swapped, k) = db.map[k]
  BY <1>0, <1>1, SwappedIs
<1>7. Swapped # None  BY <1>6, LogAssumption DEF IsLog
<1>8. DiskLog' = Swapped  BY <1>1, <1>7 DEF DiskLog
<1>9. \A k \in Keys : Lookup(Replay(Swapped), db.files, k) = Lookup(db.map, db.files, k)
  BY <1>0, <1>6, FindsTheSame
<1>10. LogFound(Swapped, db.files) = Found(db)  BY <1>9 DEF LogFound, Found
<1> QED  BY <1>0, <1>1, <1>4, <1>5, <1>8, <1>10, VisibleIs

\* When the process dies, between two tasks, inside a put or a move, or between
\* the file operations of a swap, and when the database is closed, what get
\* would find is found after the next start, under all keys but those the task
\* was about, as long as the files of removed values could be deleted: writes
\* to the binlog and to data files, compactions, the swap and the opening may
\* all have failed before.
THEOREM CrashesLoseNothing ==
    ASSUME "unlink" \notin Faults
    PROVE  Spec => CrashSafe
<1>1. GInv => LosesNothing
  <2> SUFFICES ASSUME GInv, db.handle
               PROVE  /\ Crash \/ CrashInSwap \/ Close => Same(Keys)
                      /\ \A k \in Keys, v \in Values : CrashInPut(k, v) => Same(Keys \ {k})
                      /\ \A from, to \in Keys :
                            CrashInMove(from, to) => Same(Keys \ {from, to})
    BY DEF LosesNothing
  <2>1. Crash \/ CrashInSwap \/ Close => Same(Keys)
    BY CrashFinds, CrashInSwapFinds, CloseFinds DEF Same
  <2>2. ASSUME NEW k \in Keys, NEW v \in Values, CrashInPut(k, v)
        PROVE  Same(Keys \ {k})
    <3>1. PICK found \in {v, None} : Visible' = [Visible EXCEPT ![k] = found]
      BY <2>2, CrashInPutFinds
    <3> QED  BY <3>1 DEF Same
  <2>3. ASSUME NEW from \in Keys, NEW to \in Keys, CrashInMove(from, to)
        PROVE  Same(Keys \ {from, to})
    <3>1. Visible' = [Visible EXCEPT ![to] = None, ![from] = None]
      BY <2>3, CrashInMoveFinds
    <3>2. DOMAIN Visible = Keys  BY VisibleIs
    <3>3. ASSUME NEW k \in Keys \ {from, to}  PROVE Visible'[k] = Visible[k]
      <4> DEFINE V == Visible
                 W == Visible'
      <4>1. W = [V EXCEPT ![to] = None, ![from] = None] /\ DOMAIN V = Keys
        BY <3>1, <3>2
      <4> HIDE DEF V, W
      <4>2. W[k] = V[k]  BY <4>1
      <4> QED  BY <4>2 DEF V, W
    <3> QED  BY <3>3 DEF Same
  <2> QED  BY <2>1, <2>2, <2>3
<1> QED  BY <1>1, GoneInvariant, PTL DEF CrashSafe

-----------------------------------------------------------------------------
(* The steps of the lossy cache. *)

Stays == Visible' = Visible /\ latest' = latest

LEMMA PutMaps ==
    ASSUME NEW k \in Keys, NEW v \in Values, latest' = [latest EXCEPT ![k] = v],
           \E found \in {v, None} : Visible' = [Visible EXCEPT ![k] = found]
    PROVE  Abstract!Next
<1>1. Abstract!Put(k, v)  BY DEF Abstract!Put
<1> QED  BY <1>1 DEF Abstract!Next

LEMMA RemoveMaps ==
    ASSUME NEW k \in Keys, latest' = [latest EXCEPT ![k] = None],
           Visible' = [Visible EXCEPT ![k] = None]
    PROVE  Abstract!Next
<1>1. Abstract!Remove(k)  BY DEF Abstract!Remove
<1> QED  BY <1>1 DEF Abstract!Next

LEMMA MoveMaps ==
    ASSUME NEW from \in Keys, NEW to \in Keys, from # to, Moved(from, to),
           NEW found \in {Visible[from], None},
           Visible' = [Visible EXCEPT ![to] = found, ![from] = None]
    PROVE  Abstract!Next
<1>1. Abstract!Move(from, to)  BY DEF Abstract!Move, Moved
<1> QED  BY <1>1 DEF Abstract!Next

LEMMA LoseMaps ==
    ASSUME latest' = latest,
           \/ \E k \in Keys : Visible' = [Visible EXCEPT ![k] = None]
           \/ Visible' = Nothing
    PROVE  Abstract!Next
<1>1. CASE \E k \in Keys : Visible' = [Visible EXCEPT ![k] = None]
  <2>1. PICK k \in Keys : Visible' = [Visible EXCEPT ![k] = None]  BY <1>1
  <2>2. Visible' = [j \in Keys |-> IF j \in {k} THEN None ELSE Visible[j]]
    BY <2>1, VisibleIs
  <2>3. Abstract!Lose({k})  BY <2>2 DEF Abstract!Lose
  <2> QED  BY <2>3 DEF Abstract!Next
<1>2. CASE Visible' = Nothing
  <2>1. Visible' = [j \in Keys |-> IF j \in Keys THEN None ELSE Visible[j]]
    BY <1>2 DEF Nothing
  <2>2. Abstract!Lose(Keys)  BY <2>1 DEF Abstract!Lose
  <2> QED  BY <2>2 DEF Abstract!Next
<1> QED  BY <1>1, <1>2

LEMMA ClearMaps ==
    ASSUME latest' = Nothing, Visible' = Nothing
    PROVE  Abstract!Next
<1>1. Abstract!RemoveAll  BY DEF Abstract!RemoveAll, Nothing
<1> QED  BY <1>1 DEF Abstract!Next

-----------------------------------------------------------------------------
(* The refinement. *)

\* An open database has its binlog open.
FInv == GInv /\ (isOpen => db.handle)

\* What a step of the database is to a caller who only looks for values.
Maps == Abstract!Next \/ Stays

LEMMA CallersMap ==
    ASSUME Faithful, FInv, Callers, ~(Open \/ Close \/ Clear)
    PROVE  Maps /\ db'.handle /\ isOpen'
<1>0. /\ Good(db) /\ Sound(db) /\ LogShape(db) /\ isOpen /\ isOpen' = isOpen /\ db.handle
  BY DEF FInv, GInv, LInv, RInv, Sound, Callers, Put, PutIfEmpty, Get, Remove,
         CopyIfEmpty, MoveIfEmpty, ClearByTag, ClearByTagFirst, UpdateSettings, Asked
<1>1. Visible = Found(db) /\ Visible' = Found(db')  BY <1>0, VisibleIs
<1>2. ASSUME NEW c, NEW d, Good(d), Sound(d), d.handle, Found(d) = Found(db),
             NEW k \in Keys, NEW v \in Values, PutFrom(c, d, k, v)
      PROVE  Maps /\ db'.handle
  <2>1. latest' = [latest EXCEPT ![k] = v]  BY <1>2 DEF PutFrom
  <2>2. (\E found \in {v, None} : Found(db') = [Found(d) EXCEPT ![k] = found]) /\ db'.handle
    BY <1>2, PutFound
  <2>3. \E found \in {v, None} : Visible' = [Visible EXCEPT ![k] = found]
    BY <1>1, <1>2, <2>2
  <2> QED  BY <1>2, <2>1, <2>2, <2>3, PutMaps DEF Maps
<1>3. ASSUME NEW k \in Keys, NEW v \in Values, Put(k, v) \/ PutIfEmpty(k, v)
      PROVE  Maps /\ db'.handle
  <2>1. PutFrom(comp, db, k, v)  BY <1>3 DEF Put, PutIfEmpty
  <2> QED  BY <1>0, <1>2, <2>1
<1>4. ASSUME NEW k \in Keys, GetUnreadable(k), latest' = latest
      PROVE  Maps /\ db'.handle
  <2>1. PICK ok \in BinlogWrites(db), unlinked \in Succeeds("unlink") :
           db' = RemoveEntry(db, k, ok, unlinked)
    BY <1>4 DEF GetUnreadable
  <2>2. Found(db') = [Found(db) EXCEPT ![k] = None] /\ db'.handle
    BY <1>0, <2>1, RemoveFound
  <2> QED  BY <1>1, <1>4, <2>2, LoseMaps DEF Maps
<1>5. ASSUME NEW k, GetReadable(k), latest' = latest
      PROVE  Maps /\ db'.handle
  <2>1. db'.map = db.map /\ db'.files = db.files /\ db'.handle = db.handle
    BY <1>0, <1>5 DEF GetReadable, LogShape, Shape, Fields
  <2>2. Found(db') = Found(db)  BY <2>1, FoundAgain
  <2> QED  BY <1>0, <1>1, <1>5, <2>1, <2>2 DEF Maps, Stays
<1>6. ASSUME NEW k \in Keys, Remove(k)  PROVE Maps /\ db'.handle
  <2>1. PICK ok \in BinlogWrites(db), unlinked \in Succeeds("unlink") :
           /\ db' = RemoveEntry(db, k, ok, unlinked)
           /\ latest' = IF unlinked THEN [latest EXCEPT ![k] = None] ELSE latest
    BY <1>6 DEF Remove
  <2>2. Found(db') = [Found(db) EXCEPT ![k] = None] /\ db'.handle
    BY <1>0, <2>1, RemoveFound
  <2>3. unlinked  BY <2>1, FaithfulWrites
  <2>4. latest' = [latest EXCEPT ![k] = None]  BY <2>1, <2>3
  <2> QED  BY <1>1, <2>2, <2>4, RemoveMaps DEF Maps
<1>7. ASSUME NEW from \in Keys, NEW to \in Keys, CopyIfEmpty(from, to)
      PROVE  Maps /\ db'.handle
  <2>1. CASE GetUnreadable(from) /\ latest' = latest  BY <1>4, <2>1
  <2>2. CASE ~(GetUnreadable(from) /\ latest' = latest)
    <3> DEFINE d == [db EXCEPT !.armed = TRUE]
               v == Lookup(db.map, db.files, from)
    <3>0. ~GetUnreadable(from)
      <4>1. CASE GetUnreadable(from)
        <5>1. v = None  BY <4>1 DEF GetUnreadable, Unreadable
        <5> QED  BY <1>7, <2>2, <5>1 DEF CopyIfEmpty
      <4> QED  BY <4>1
    <3>1. /\ v \in Values /\ Good(d) /\ Sound(d) /\ Alike(db, d) /\ d.files = db.files
          /\ \E c : PutFrom(c, d, to, v)
      BY <1>7, <3>0, CopyIs DEF FInv, GInv
    <3> HIDE DEF d, v
    <3>2. Found(d) = Found(db) /\ d.handle  BY <1>0, <3>1, FoundAgain DEF Alike
    <3>3. PICK c : PutFrom(c, d, to, v)  BY <3>1
    <3> QED  BY <1>2, <3>1, <3>2, <3>3
  <2> QED  BY <2>1, <2>2
<1>8. ASSUME NEW from \in Keys, NEW to \in Keys, from # to, MoveIfEmpty(from, to)
      PROVE  Maps /\ db'.handle
  <2>1. /\ Found(db') = [Found(db) EXCEPT ![to] = Found(db)[from], ![from] = None]
        /\ db'.handle /\ Moved(from, to)
    BY <1>0, <1>8, MoveFound
  <2>2. Visible' = [Visible EXCEPT ![to] = Visible[from], ![from] = None]
    BY <1>1, <2>1
  <2> QED  BY <1>8, <2>1, <2>2, MoveMaps DEF Maps
<1>9. ASSUME NEW S, ClearByTag(S)  PROVE Maps /\ db'.handle
  <2>1. /\ db'.map = db.map /\ db'.files = db.files /\ db'.handle = db.handle
        /\ latest' = latest
    BY <1>0, <1>9 DEF ClearByTag, LogShape, Shape, Fields
  <2>2. Found(db') = Found(db)  BY <2>1, FoundAgain
  <2> QED  BY <1>0, <1>1, <2>1, <2>2 DEF Maps, Stays
<1>10. ASSUME NEW S \in SUBSET Mapped, ClearByTagFirst(S)  PROVE Maps /\ db'.handle
  <2>1. db.stale = {} /\ StaleChunk([db EXCEPT !.stale = S]) /\ latest' = latest
    BY <1>10 DEF ClearByTagFirst
  <2>2. S \in SUBSET Keys  BY <1>10 DEF Mapped
  <2> QED  BY <1>0, <1>1, <2>1, <2>2, StartStaleFound, LoseMaps DEF Maps
<1>11. CASE UpdateSettings
  <2>1. db' = db /\ latest' = latest  BY <1>11 DEF UpdateSettings
  <2> QED  BY <1>0, <1>1, <2>1 DEF Maps, Stays
<1> QED
  BY <1>0, <1>3, <1>4, <1>5, <1>6, <1>7, <1>8, <1>9, <1>10, <1>11 DEF Callers, Get

LEMMA OpensMap ==
    ASSUME Faithful, FInv, LInv', Open \/ Close \/ Clear
    PROVE  Maps /\ (isOpen' => db'.handle)
<1>0. /\ Good(db) /\ Sound(db) /\ LogShape(db) /\ Gone(db)
      /\ (isOpen => ready = None /\ db.handle)
  BY DEF FInv, GInv, LInv, RInv, Sound
<1>1. CASE Open
  <2>0. /\ ~isOpen /\ isOpen' /\ latest' = latest /\ db.removing = {}
        /\ \/ db' = ReadBinlog([db EXCEPT !.binlog = DiskLog])
           \/ db' = ReadBinlog(EmptyVersion)
    BY <1>1 DEF Open, FInv, GInv, LInv, RInv
  <2>1. CASE db' = ReadBinlog([db EXCEPT !.binlog = DiskLog])
    <3> DEFINE d == [db EXCEPT !.binlog = DiskLog]
    <3>1. IsLog(DiskLog) /\ Distinct(DiskLog)
      BY <1>0 DEF FInv, GInv, LInv, DiskLog, Sound, LogShape
    <3>2. /\ Shape(d) /\ d.files = db.files /\ d.binlog = DiskLog
          /\ d.removing = {}
      BY <1>0, <2>0 DEF LogShape, Shape, Fields
    <3>3. db' = ReadBinlog(d)  BY <2>1
    <3> HIDE DEF d
    <3>4. DOMAIN d.files = Places  BY <1>0, <3>2 DEF LogShape
    <3>5. db'.map = Replay(DiskLog) /\ db'.files = db.files /\ db'.handle
      BY <3>1, <3>2, <3>3, <3>4, ReadIsSound
    <3>6. Visible' = Visible  BY <2>0, <3>5, VisibleIs DEF Found, LogFound
    <3> QED  BY <2>0, <3>5, <3>6 DEF Maps, Stays
  <2>2. CASE db' = ReadBinlog(EmptyVersion)
    <3>1. /\ Shape(EmptyVersion) /\ DOMAIN EmptyVersion.files = Places
          /\ IsLog(EmptyVersion.binlog) /\ Distinct(EmptyVersion.binlog)
          /\ EmptyVersion.removing = {} /\ EmptyVersion.binlog = <<>>
      BY EmptyIsSound
    <3> HIDE DEF EmptyVersion
    <3>2. db'.map = Replay(<<>>) /\ db'.handle  BY <2>2, <3>1, ReadIsSound
    <3>3. Found(db') = LogFound(<<>>, db'.files)  BY <3>2 DEF Found, LogFound
    <3>4. Visible' = Nothing  BY <2>0, <3>3, EmptyFound, VisibleIs
    <3> QED  BY <2>0, <3>2, <3>4, LoseMaps DEF Maps
  <2> QED  BY <2>0, <2>1, <2>2
<1>2. ASSUME isOpen, NEW ok \in BinlogWrites(db), db' = Closed(db, ok), ~isOpen',
             ready' = ready, latest' = latest
      PROVE  Maps /\ (isOpen' => db'.handle)
  <2>1. LogFound(db'.binlog, db'.files) = Found(db)  BY <1>0, <1>2, ClosedFound
  <2>2. DiskLog' = db'.binlog  BY <1>0, <1>2 DEF DiskLog
  <2>3. Visible' = Visible  BY <1>2, <2>1, <2>2, VisibleIs
  <2> QED  BY <1>2, <2>3 DEF Maps, Stays
<1>3. CASE /\ db' = [EmptyVersion EXCEPT !.handle = isOpen]
           /\ ready' = None /\ latest' = Nothing /\ isOpen' = isOpen
  <2>1. db'.binlog = <<>> /\ db'.map = Nothing /\ db'.handle = isOpen
    BY <1>3, EmptyIsSound
  <2>2. DiskLog' = <<>>  BY <1>3, <2>1 DEF DiskLog
  <2>3. Found(db') = Nothing /\ LogFound(DiskLog', db'.files) = Nothing
    BY <2>1, <2>2, EmptyFound
  <2>4. Visible' = Nothing  BY <2>3, VisibleIs
  <2> QED  BY <1>3, <2>1, <2>4, ClearMaps DEF Maps
<1> QED  BY <1>1, <1>2, <1>3 DEF Close, Clear

LEMMA TimersMap ==
    ASSUME Faithful, FInv, Timers
    PROVE  Maps /\ db'.handle /\ isOpen'
<1>0. /\ Good(db) /\ Sound(db) /\ LogShape(db) /\ isOpen /\ isOpen' = isOpen /\ db.handle
      /\ latest' = latest
  BY DEF FInv, GInv, LInv, RInv, Sound, Timers, WriteBundles, ClearStaleChunk, Prune
<1>1. Visible = Found(db) /\ Visible' = Found(db')  BY <1>0, VisibleIs
<1>2. CASE WriteBundles
  <2>1. PICK ok \in BinlogWrites(db) : db' = [WriteMultiRemove(db, ok) EXCEPT !.armed = FALSE]
    BY <1>2 DEF WriteBundles
  <2> DEFINE e == WriteMultiRemove(db, ok)
  <2>2. ok  BY <1>0, FaithfulWrites
  <2>3. Shape(e) /\ e.files = db.files /\ e.map = db.map /\ e.handle = db.handle
    BY <1>0, <2>2, WriteMultiRemoveIs
  <2>4. db' = [e EXCEPT !.armed = FALSE]  BY <2>1
  <2> HIDE DEF e
  <2>5. db'.map = db.map /\ db'.files = db.files /\ db'.handle
    BY <1>0, <2>3, <2>4 DEF Shape, Fields
  <2>6. Found(db') = Found(db)  BY <2>5, FoundAgain
  <2> QED  BY <1>0, <1>1, <2>5, <2>6 DEF Maps, Stays
<1>3. CASE ClearStaleChunk
  <2>1. StaleChunk(db)  BY <1>3 DEF ClearStaleChunk
  <2> QED  BY <1>0, <1>1, <2>1, StaleFound, LoseMaps DEF Maps
<1>4. ASSUME NEW S \in SUBSET Mapped, Prune(S)  PROVE Maps /\ db'.handle
  <2>1. db.stale = {} /\ StaleChunk([db EXCEPT !.stale = S]) /\ S \in SUBSET Keys
    BY <1>4 DEF Prune, Mapped
  <2> QED  BY <1>0, <1>1, <2>1, StartStaleFound, LoseMaps DEF Maps
<1> QED  BY <1>0, <1>2, <1>3, <1>4 DEF Timers

LEMMA CompactorMaps ==
    ASSUME Faithful, FInv, Compactor \/ Messages
    PROVE  Maps /\ (isOpen' => db'.handle)
<1>0. /\ LogShape(db) /\ isOpen' = isOpen /\ latest' = latest
      /\ (isOpen => db.handle) /\ (comp # None => isOpen)
  BY DEF FInv, GInv, LInv, RInv, Sound, Compactor, Messages, CompactorStart,
         ProcessValues, Finalize, Fail, GetManyRaw, CompactorDone, CompactorFail,
         LateCompactorFail, compactorOnly
<1>1. CASE CompactorDone
  <2>1. db'.map = db.map /\ db'.files = db.files /\ db'.handle = db.handle
    <3>1. \/ db' = db
          \/ db' = [db EXCEPT !.binlog = Swapped, !.excess = @ - comp.excess]
      BY <1>1, FaithfulWrites DEF CompactorDone
    <3> QED  BY <1>0, <3>1 DEF LogShape, Shape, Fields
  <2>2. Found(db') = Found(db)  BY <2>1, FoundAgain
  <2>3. isOpen  BY <1>0, <1>1 DEF CompactorDone, At
  <2> QED  BY <1>0, <2>1, <2>2, <2>3, VisibleIs DEF Maps, Stays
<1>2. CASE ~CompactorDone
  <2>1. db' = db /\ (isOpen \/ ready' = ready)
    BY <1>0, <1>2 DEF Compactor, Messages, CompactorStart, ProcessValues, Finalize,
         Fail, GetManyRaw, CompactorFail, LateCompactorFail, compactorOnly, At
  <2>2. Visible' = Visible
    <3>1. CASE isOpen  BY <1>0, <2>1, <3>1, VisibleIs
    <3>2. CASE ~isOpen
      <4>1. DiskLog' = DiskLog  BY <2>1, <3>2 DEF DiskLog
      <4> QED  BY <1>0, <2>1, <3>2, <4>1, VisibleIs
    <3> QED  BY <3>1, <3>2
  <2> QED  BY <1>0, <2>1, <2>2 DEF Maps, Stays
<1> QED  BY <1>1, <1>2

LEMMA CrashesMap ==
    ASSUME FInv, Crashes
    PROVE  Maps /\ ~isOpen'
<1>0. GInv /\ (isOpen => db.handle)  BY DEF FInv
<1>1. isOpen /\ ~isOpen'
  <2>1. comp # None => isOpen  BY <1>0 DEF GInv, LInv
  <2> QED
    BY <2>1 DEF Crashes, Crash, CrashInPut, CrashInMove, CrashInSwap, Crashed, At
<1>2. db.handle  BY <1>0, <1>1
<1>3. CASE Crash  BY <1>0, <1>1, <1>2, <1>3, CrashFinds DEF Maps, Stays
<1>4. ASSUME NEW k \in Keys, NEW v \in Values, CrashInPut(k, v)  PROVE Maps
  <2>1. /\ \E found \in {v, None} : Visible' = [Visible EXCEPT ![k] = found]
        /\ latest' = [latest EXCEPT ![k] = v]
    BY <1>0, <1>2, <1>4, CrashInPutFinds
  <2> QED  BY <2>1, PutMaps DEF Maps
<1>5. ASSUME NEW from \in Keys, NEW to \in Keys, from # to, CrashInMove(from, to)
      PROVE  Maps
  <2>1. /\ Visible' = [Visible EXCEPT ![to] = None, ![from] = None]
        /\ Moved(from, to)
    BY <1>0, <1>2, <1>5, CrashInMoveFinds
  <2> QED  BY <1>5, <2>1, MoveMaps DEF Maps
<1>6. CASE CrashInSwap
  BY <1>0, <1>1, <1>2, <1>6, CrashInSwapFinds DEF Maps, Stays
<1> QED  BY <1>1, <1>3, <1>4, <1>5, <1>6 DEF Crashes

\* A caller who only looks for values cannot tell the disk cache, with its files,
\* binlog, bundles, compactions and crashes, from a map that may lose entries:
\* what get finds is what was last put there or nothing.  Data files, compactions
\* and the opening may fail in any way; that a removed file stays, a record is
\* not written or the swap fails breaks the promise, as the model shows.
THEOREM CacheIsLossyCache ==
    ASSUME Faithful
    PROVE  Spec => ImplementsLossyCache
<1>1. Init => FInv /\ Abstract!Init
  <2> SUFFICES ASSUME Init  PROVE FInv /\ Abstract!Init  OBVIOUS
  <2>1. isOpen = FALSE /\ db.removing = {} /\ ready = None /\ db.binlog = <<>>
        /\ latest = Nothing
    BY DEF Init, EmptyVersion
  <2>2. FInv  BY <2>1, InitIsSound DEF FInv, GInv, Gone
  <2>3. DiskLog = <<>>  BY <2>1 DEF DiskLog
  <2>4. Visible = Nothing  BY <2>1, <2>3, EmptyFound, VisibleIs
  <2> QED  BY <2>1, <2>2, <2>4 DEF Abstract!Init, Nothing
<1>2. FInv /\ [Next]_vars => FInv' /\ [Abstract!Next]_(Abstract!vars)
  <2> SUFFICES ASSUME FInv, [Next]_vars
               PROVE  FInv' /\ [Abstract!Next]_(Abstract!vars)
    OBVIOUS
  <2>0. GInv'  BY FaithfulWrites, GoneKept DEF FInv
  <2>1. Maps /\ (isOpen' => db'.handle)
    <3>1. CASE Callers /\ ~(Open \/ Close \/ Clear)  BY <3>1, CallersMap
    <3>2. CASE Open \/ Close \/ Clear  BY <2>0, <3>2, OpensMap DEF GInv
    <3>3. CASE Timers  BY <3>3, TimersMap
    <3>4. CASE Compactor \/ Messages  BY <3>4, CompactorMaps
    <3>5. CASE Crashes  BY <3>5, CrashesMap
    <3>6. CASE UNCHANGED vars
      <4>1. Visible' = Visible /\ latest' = latest
        BY <3>6 DEF vars, Visible, DiskLog
      <4> QED  BY <3>6, <4>1 DEF Maps, Stays, vars, FInv
    <3> QED  BY <3>1, <3>2, <3>3, <3>4, <3>5, <3>6 DEF Next
  <2>2. Abstract!Next \/ UNCHANGED Abstract!vars
    BY <2>1 DEF Maps, Stays, Abstract!vars
  <2> QED  BY <2>0, <2>1, <2>2 DEF FInv
<1> QED  BY <1>1, <1>2, PTL DEF Spec, ImplementsLossyCache, Abstract!Spec
=============================================================================
