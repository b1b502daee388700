--------------------------- MODULE CacheDatabase ---------------------------
(***************************************************************************)
(* The disk cache: DatabaseObject, on its own queue, with the Compactor on *)
(* another (storage/cache/).  A value is a file of its own, found through  *)
(* a map in memory; the binlog records every change of the map and is read *)
(* back on open.  Removals are bundled: the map and the file go at once,   *)
(* the record later.  When enough of the binlog is garbage, the compactor  *)
(* writes a shorter one, asking the database for the entries it meets, and *)
(* the database swaps the two.                                             *)
(*                                                                         *)
(* A task of the database's queue is one action; a crash may also strike   *)
(* inside a task, between two of its writes.                               *)
(***************************************************************************)
EXTENDS CacheLog

CONSTANTS
    Torn,               \* content of a data file whose writing was cut short
    MaxBundled,         \* Settings::maxBundledRecords
    CompactAfterExcess, \* Settings::compactAfterExcess, in records
    MaxLog,             \* bound: callers ask for nothing in a longer binlog
    MaxLate,            \* bound: late failures of compactors under way at once
    Faults              \* what the file system may do: see FaultKinds

\* "data": writing a data file fails; "unlink": deleting one fails;
\* "binlog": a write to the binlog fails; "compact": the compactor fails;
\* "swap": replacing the binlog fails; "open": the version cannot be opened
\* or written.
FaultKinds == {"data", "unlink", "binlog", "compact", "swap", "open"}

ASSUME DatabaseAssumption ==
    /\ Torn \notin Values /\ Torn # None
    /\ MaxBundled \in Nat \ {0}
    /\ CompactAfterExcess \in Nat \ {0}
    /\ MaxLog \in Nat /\ MaxLate \in Nat
    /\ Faults \subseteq FaultKinds

VARIABLES
    db,       \* DatabaseObject's fields, with the files of its version
    isOpen,   \* the database has a key and a path
    ready,    \* the file binlog-ready, None if there is none
    comp,     \* _compactor and its CompactorObject, None if there is none
    late,     \* calls of compactorFail that compactors may still make unguarded
    latest    \* history: the value last put under each key, None if removed

vars == <<db, isOpen, ready, comp, late, latest>>

Nothing == [k \in Keys |-> None]

\* Without what memory holds: clearState, or a process that died.
ClearState(d) ==
    [d EXCEPT !.map = Nothing, !.removing = {}, !.stale = {}, !.fresh = {},
              !.armed = FALSE, !.excess = 0, !.handle = FALSE]

EmptyVersion ==
    [map |-> Nothing,       \* _map
     removing |-> {},       \* _removing
     stale |-> {},          \* _stale, chosen for removal
     fresh |-> {},          \* history: stored while _stale was not empty
     armed |-> FALSE,       \* _writeBundlesTimer.isActive()
     excess |-> 0,          \* _binlogExcessLength
     handle |-> FALSE,      \* _binlog.isOpen()
     binlog |-> <<>>,       \* the file binlog
     files |-> [p \in Places |-> None]]     \* the data files

Init ==
    /\ db = EmptyVersion
    /\ isOpen = FALSE
    /\ ready = None
    /\ comp = None
    /\ late = 0
    /\ latest = Nothing

\* What may come of an operation that a fault of this kind makes fail.
Succeeds(fault) == IF fault \in Faults THEN BOOLEAN ELSE {TRUE}

-----------------------------------------------------------------------------
(* The steps of a task, as functions of the state d it has reached. *)

\* File::write on the binlog; it fails when the file is closed.
BinlogWrites(d) == IF d.handle THEN Succeeds("binlog") ELSE {FALSE}

\* Mutant: the checksum of the data is not compared with the entry's.
LookupUnchecked(m, files, k) ==
    IF m[k] # None /\ files[m[k].place] \in Values
    THEN files[m[k].place] ELSE None

\* What get would find under k through the map m.
Lookup(m, files, k) ==
    IF m[k] # None /\ files[m[k].place] = m[k].sum THEN m[k].sum ELSE None

WriteMultiRemove(d, ok) ==
    IF d.removing = {} THEN d
    ELSE IF ok
    THEN [d EXCEPT !.removing = {},
                   !.binlog = Append(@, MultiRemove(d.removing)),
                   !.excess = @ + 1]
    ELSE [d EXCEPT !.removing = {}, !.handle = FALSE]

\* Mutant: a bundle that is not full does not set the timer.
WriteMultiRemoveWhenFull(d, ok) ==
    IF Cardinality(d.removing) = MaxBundled THEN WriteMultiRemove(d, ok) ELSE d

WriteMultiRemoveLazy(d, ok) ==
    IF Cardinality(d.removing) = MaxBundled
    THEN WriteMultiRemove(d, ok)
    ELSE [d EXCEPT !.armed = TRUE]

\* remove: unlinked says whether the data file could be deleted.
RemoveEntry(d, k, ok, unlinked) ==
    IF d.map[k] = None THEN d
    ELSE LET e == WriteMultiRemoveLazy(
                      [d EXCEPT !.removing = @ \cup {k}], ok)
         IN  [e EXCEPT !.map[k] = None,
                       !.files[d.map[k].place] = IF unlinked THEN None ELSE @]

\* A Store record is written and processed.
WriteStore(d, k, e) ==
    [d EXCEPT !.binlog = Append(@, Store(k, e)),
              !.excess = IF d.map[k] # None THEN @ + 1 ELSE @,
              !.map[k] = e,
              !.fresh = IF d.stale = {} THEN @ ELSE @ \cup {k}]

\* Mutants: one of the two lists is forgotten.
RescueFromStale(d, k) ==
    [d EXCEPT !.stale = @ \ {k},
              !.fresh = IF d.stale \subseteq {k} THEN {} ELSE @]
RescueFromRemoving(d, k) == [d EXCEPT !.removing = @ \ {k}]

\* A key about to be stored is neither to be removed nor stale any more.
Rescue(d, k) ==
    [d EXCEPT !.removing = @ \ {k}, !.stale = @ \ {k},
              !.fresh = IF d.stale \subseteq {k} THEN {} ELSE @]

\* A place for k: that of its entry, or a new one.  A new place is random in
\* 56 bits: one that a record already names is never drawn.
Named(log) ==
    {log[s[1]][s[2]].place : s \in Stores(log)}
PlacesFor(d, k) ==
    IF d.map[k] # None THEN {d.map[k].place}
    ELSE {p \in Places : d.files[p] = None /\ p \notin Named(d.binlog)}

-----------------------------------------------------------------------------
(* Starting a compaction. *)

NewCompactor(d) ==
    [st |-> "start",        \* what it does next
     till |-> Len(d.binlog),        \* Info::till
     excess |-> d.excess,           \* CompactorWrap::excessLength
     pos |-> 0,                     \* how far it has read
     asked |-> {},                  \* keys it asks the database for
     values |-> MultiRemove({}),    \* entries the database gave it
     temp |-> <<>>,                 \* the file binlog-temp
     from |-> Len(d.binlog),        \* how far the binlog is copied
     gap |-> 0]                     \* lastCatchUp

\* optimize: starts a compactor, unless pruning is due first or the delay
\* after a failed one has not passed (nextAttempt): both are left open.
Optimized(c, d) ==
    {c} \cup (IF c = None /\ d.handle /\ d.excess >= CompactAfterExcess
              THEN {NewCompactor(d)} ELSE {})

\* The failures a compactor may still report when it is dropped: the task it is
\* in runs to its end.  start does not return when it has failed: it parses on
\* and may fail once more.
Reports(c) ==
    IF c = None \/ "compact" \notin Faults THEN 0
    ELSE IF c.st = "start" THEN 2
    ELSE IF c.st \in {"values", "catchUp", "failed"} THEN 1
    ELSE 0

More(n) == IF late + n <= MaxLate THEN late + n ELSE MaxLate

\* Mutant: the compactor of the log that is gone is kept.
DropCompactorKeeps == comp' = comp /\ late' = late

\* The compactor is dropped.  What the task it is in still writes to binlog-temp
\* is left out: each compactor has its own.
DropCompactor ==
    /\ comp' = None
    /\ late' = More(Reports(comp))

-----------------------------------------------------------------------------
(* Opening and closing. *)

\* Mutant: binlog-ready is not looked for.
DiskLogOld == db.binlog

\* The log a start of the program would read: openBinlog first moves
\* binlog-ready, if it is there, over binlog.
DiskLog == IF ready # None THEN ready ELSE db.binlog

ReadBinlog(d) ==
    [d EXCEPT !.map = Replay(d.binlog), !.excess = ReplayExcess(d.binlog),
              !.handle = TRUE]

Open ==
    /\ ~isOpen
    /\ \E opened \in Succeeds("open") :
          db' = IF opened THEN ReadBinlog([db EXCEPT !.binlog = DiskLog])
                          ELSE ReadBinlog(EmptyVersion)
    /\ isOpen' = TRUE
    /\ ready' = None
    /\ comp' \in Optimized(None, db')
    /\ UNCHANGED <<late, latest>>

\* close writes the bundles if the binlog is open.
Closed(d, ok) == ClearState(IF d.handle THEN WriteMultiRemove(d, ok) ELSE d)

Close ==
    /\ isOpen
    /\ \E ok \in BinlogWrites(db) : db' = Closed(db, ok)
    /\ isOpen' = FALSE
    /\ DropCompactor
    /\ UNCHANGED <<ready, latest>>

\* clear: a new version is written and opened; the old one is left to the
\* cleaner.  When the version cannot be written, the database stays closed.
Clear ==
    \/ /\ db' = [EmptyVersion EXCEPT !.handle = isOpen]
       /\ ready' = None
       /\ latest' = Nothing
       /\ DropCompactor
       /\ UNCHANGED isOpen
    \/ /\ isOpen /\ FALSE \in Succeeds("open")
       /\ \E ok \in BinlogWrites(db) : db' = Closed(db, ok)
       /\ isOpen' = FALSE
       /\ DropCompactor
       /\ UNCHANGED <<ready, latest>>

-----------------------------------------------------------------------------
(* What callers ask for.  The bound leaves room for the records of a task. *)

Asked ==
    /\ isOpen /\ Len(db.binlog) + 2 <= MaxLog
    /\ UNCHANGED <<isOpen, ready, late>>

\* put of v under k, in a task that has reached the state d and compactor c.
\* A failed write of the binlog is taken for a value that is there already.
PutFrom(c, d, k, v) ==
    LET r == Rescue(d, k)
        there == Lookup(r.map, r.files, k) = v
    IN
    /\ latest' = [latest EXCEPT ![k] = v]
    /\ \/ /\ there
          /\ db' = [r EXCEPT !.armed = TRUE]
          /\ comp' \in Optimized(c, r)
       \/ /\ ~there /\ FALSE \in BinlogWrites(r)
          /\ db' = [r EXCEPT !.handle = FALSE, !.armed = TRUE]
          /\ comp' = c
       \/ /\ ~there /\ TRUE \in BinlogWrites(r)
          /\ \E p \in PlacesFor(r, k) :
                LET e == WriteStore(r, k, [place |-> p, sum |-> v])
                IN
                \/ /\ db' = [e EXCEPT !.files[p] = v]
                   /\ comp' \in Optimized(c, e)
                \/ /\ FALSE \in Succeeds("data")
                   /\ \E ok \in BinlogWrites(e),
                         unlinked \in Succeeds("unlink"),
                         left \in {e.files[p], Torn} :
                         db' = RemoveEntry([e EXCEPT !.files[p] = left],
                                           k, ok, unlinked)
                   /\ comp' = c

Put(k, v) == Asked /\ PutFrom(comp, db, k, v)

PutIfEmpty(k, v) ==
    /\ db.map[k] = None
    /\ Put(k, v)

\* get of a key whose data is missing or damaged removes it.
Unreadable(k) == db.map[k] # None /\ Lookup(db.map, db.files, k) = None

GetUnreadable(k) ==
    /\ Unreadable(k)
    /\ \E ok \in BinlogWrites(db), unlinked \in Succeeds("unlink") :
          db' = RemoveEntry(db, k, ok, unlinked)
    /\ UNCHANGED comp

\* get of a key whose data is there notes the access, for pruning.
GetReadable(k) ==
    /\ Lookup(db.map, db.files, k) # None
    /\ db' = [db EXCEPT !.armed = TRUE]
    /\ comp' \in Optimized(comp, db)

Get(k) ==
    /\ Asked
    /\ GetUnreadable(k) \/ GetReadable(k)
    /\ UNCHANGED latest

Remove(k) ==
    /\ Asked
    /\ \E ok \in BinlogWrites(db), unlinked \in Succeeds("unlink") :
          /\ db' = RemoveEntry(db, k, ok, unlinked)
          /\ latest' = IF unlinked THEN [latest EXCEPT ![k] = None]
                                   ELSE latest
    /\ UNCHANGED comp

\* copyIfEmpty is a get and a put; what get did not find removes nothing.
CopyIfEmpty(from, to) ==
    /\ Asked /\ db.map[to] = None
    /\ \/ GetUnreadable(from) /\ UNCHANGED latest
       \/ /\ Lookup(db.map, db.files, from) # None
          /\ \E c \in Optimized(comp, db) :
                PutFrom(c, [db EXCEPT !.armed = TRUE], to,
                        Lookup(db.map, db.files, from))

\* moveIfEmpty: the removal is written first, with all the others waiting.
MoveAway(d, from, ok) ==
    WriteMultiRemove([d EXCEPT !.removing = @ \cup {from},
                               !.map[from] = None], ok)

Moved(from, to) ==
    latest' = [latest EXCEPT ![to] = latest[from], ![from] = None]

MoveIfEmpty(from, to) ==
    /\ Asked /\ db.map[to] = None /\ db.map[from] # None
    /\ \/ /\ FALSE \in BinlogWrites(db)
          /\ db' = MoveAway(db, from, FALSE)
          /\ UNCHANGED latest
       \/ /\ TRUE \in BinlogWrites(db)
          /\ LET d == Rescue(MoveAway(db, from, TRUE), to)
             IN  \E ok \in BinlogWrites(d) :
                    db' = IF ok THEN WriteStore(d, to, db.map[from])
                                ELSE [d EXCEPT !.handle = FALSE]
          /\ Moved(from, to)
    /\ UNCHANGED comp

-----------------------------------------------------------------------------
(* Removing what is stale: by age, size or tag, chosen here at will. *)

\* One key at a time (staleRemoveChunk = 1): a longer chunk is several such
\* steps with nothing between them.
StaleChunk(d) ==
    \E k \in d.stale, ok \in BinlogWrites(d), unlinked \in Succeeds("unlink") :
        LET e == [RemoveEntry(d, k, ok, unlinked) EXCEPT !.stale = @ \ {k}]
        IN  IF e.stale = {}
            THEN db' = [e EXCEPT !.fresh = {}] /\ comp' \in Optimized(comp, e)
            ELSE db' = e /\ UNCHANGED comp

Mapped == {k \in Keys : db.map[k] # None}

\* prune: the timer finds stale entries and starts to remove them.
Prune(S) ==
    /\ isOpen /\ db.stale = {} /\ S # {}
    /\ Len(db.binlog) + 2 <= MaxLog
    /\ StaleChunk([db EXCEPT !.stale = S])
    /\ UNCHANGED <<isOpen, ready, late, latest>>

\* clearByTag: adds to what is being removed already, if anything is.
ClearByTag(S) ==
    /\ Asked /\ db.stale # {}
    /\ db' = [db EXCEPT !.stale = @ \cup S, !.fresh = @ \ S]
    /\ UNCHANGED <<comp, latest>>

ClearByTagFirst(S) ==
    /\ Asked /\ db.stale = {} /\ S # {}
    /\ StaleChunk([db EXCEPT !.stale = S])
    /\ UNCHANGED latest

ClearStaleChunk ==
    /\ isOpen
    /\ StaleChunk(db)
    /\ UNCHANGED <<isOpen, ready, late, latest>>

\* The timer: the bundles are written, then a compactor may start.
WriteBundles ==
    /\ isOpen /\ db.armed
    /\ \E ok \in BinlogWrites(db) :
          db' = [WriteMultiRemove(db, ok) EXCEPT !.armed = FALSE]
    /\ comp' \in Optimized(comp, db')
    /\ UNCHANGED <<isOpen, ready, late, latest>>

\* updateSettings looks whether there is something to optimize.
UpdateSettings ==
    /\ Asked
    /\ comp' \in Optimized(comp, db)
    /\ UNCHANGED <<db, latest>>

-----------------------------------------------------------------------------
(* The compactor, on its own queue. *)

compactorOnly == <<db, isOpen, ready, late, latest>>
At(st) == comp # None /\ comp.st = st

\* Mutant: the first record of a chunk is passed over.
KeysStoredLater(log, i, j) ==
    {s[2] : s \in {t \in Stores(log) : i + 1 < t[1] /\ t[1] <= j}}

KeysStored(log, i, j) ==
    {s[2] : s \in {t \in Stores(log) : i < t[1] /\ t[1] <= j}}

\* parseChunk: the keys of the next chunk are asked for; when there are no
\* more the new log is complete up to till.
Parsed(c) ==
    {[c EXCEPT !.st = "ask", !.pos = n, !.asked = KeysStored(db.binlog, c.pos, n)] :
        n \in {i \in c.pos + 1 .. c.till :
                  KeysStored(db.binlog, c.pos, i) # {}}}
      \cup
    (IF KeysStored(db.binlog, c.pos, c.till) = {}
     THEN {[c EXCEPT !.st = "catchUp"]} ELSE {})

CompactorStart ==
    /\ At("start")
    /\ comp' \in Parsed(comp)
    /\ UNCHANGED compactorOnly

Written(log) == UNION {DOMAIN log[i] : i \in DOMAIN log}

\* processValues: a key is written once, whatever came for it later.
ProcessValues ==
    /\ At("values")
    /\ LET new == [k \in DOMAIN comp.values \ Written(comp.temp)
                       |-> comp.values[k]]
           t == IF DOMAIN new = {} THEN comp.temp ELSE Append(comp.temp, new)
       IN  comp' \in Parsed([comp EXCEPT !.temp = t,
                                         !.values = MultiRemove({})])
    /\ UNCHANGED compactorOnly

\* CatchUp: what the binlog has beyond from is copied as it is.
CatchUp(c) ==
    [c EXCEPT !.temp = @ \o SubSeq(db.binlog, c.from + 1, Len(db.binlog)),
              !.from = Len(db.binlog)]

\* Mutant: it goes on until there is nothing left to copy.
FinalizeToTheEnd ==
    /\ At("catchUp")
    /\ LET gap == Len(db.binlog) - comp.from
       IN  comp' = [CatchUp(comp) EXCEPT
                       !.gap = gap,
                       !.st = IF gap = 0 THEN "done" ELSE "catchUp"]
    /\ UNCHANGED compactorOnly

\* One turn of finalize's loop: it ends when there is nothing left to copy
\* or when the database is not slower than the copying.
Finalize ==
    /\ At("catchUp")
    /\ LET gap == Len(db.binlog) - comp.from
           ends == gap = 0 \/ (comp.gap > 0 /\ gap >= comp.gap)
       IN  comp' = [CatchUp(comp) EXCEPT
                       !.gap = gap,
                       !.st = IF ends THEN "done" ELSE "catchUp"]
    /\ UNCHANGED compactorOnly

\* fail: any of its reads and writes failed; start may fail a second time.
Fail ==
    /\ At("start") \/ At("values") \/ At("catchUp")
    /\ FALSE \in Succeeds("compact")
    /\ comp' = [comp EXCEPT !.st = "failed"]
    /\ late' = IF At("start") THEN More(1) ELSE late
    /\ UNCHANGED <<db, isOpen, ready, latest>>

-----------------------------------------------------------------------------
(* The compactor's messages, handled on the database's queue. *)

GetManyRaw ==
    /\ At("ask")
    /\ comp' = [comp EXCEPT
                   !.st = "values", !.asked = {},
                   !.values = [k \in comp.asked \cap Mapped |-> db.map[k]]]
    /\ UNCHANGED compactorOnly

\* compactorFail: the compactor is gone, and binlog-ready with it.
CompactorFail ==
    /\ At("failed")
    /\ comp' = None
    /\ ready' = None
    /\ UNCHANGED <<db, isOpen, late, latest>>

\* A failure that comes when its compactor is dropped already: it is not
\* guarded, and drops the compactor that runs now.
LateCompactorFail ==
    /\ late > 0
    /\ comp' = None
    /\ late' = More(Reports(comp) - 1)
    /\ ready' = IF isOpen THEN None ELSE ready
    /\ UNCHANGED <<db, isOpen, latest>>

\* compactorDone: the last records are copied and the new log replaces the
\* old one, or it fails before anything is replaced.
Swapped == CatchUp(comp).temp

CompactorDone ==
    /\ At("done")
    /\ \/ /\ db.handle
          /\ db' = [db EXCEPT !.binlog = Swapped, !.excess = @ - comp.excess]
       \/ /\ ~db.handle \/ FALSE \in Succeeds("compact")
          /\ UNCHANGED db
       \/ /\ db.handle /\ FALSE \in Succeeds("swap")
          /\ \E left \in {db.binlog, <<>>, Swapped} :
                db' = [db EXCEPT !.binlog = left, !.handle = FALSE]
    /\ comp' = None
    /\ ready' = None
    /\ UNCHANGED <<isOpen, late, latest>>

-----------------------------------------------------------------------------
(* The process dies. *)

Crashed(d) ==
    /\ db' = ClearState(d)
    /\ isOpen' = FALSE
    /\ comp' = None
    /\ late' = 0

Crash == isOpen /\ Crashed(db) /\ UNCHANGED <<ready, latest>>

\* Between the record of a put and its data.
CrashInPut(k, v) ==
    /\ isOpen /\ Len(db.binlog) + 2 <= MaxLog
    /\ LET r == Rescue(db, k)
       IN  /\ Lookup(r.map, r.files, k) # v /\ TRUE \in BinlogWrites(r)
           /\ \E p \in PlacesFor(r, k) :
                 \E left \in {r.files[p], Torn, v} :
                    Crashed([WriteStore(r, k, [place |-> p, sum |-> v])
                                EXCEPT !.files[p] = left])
    /\ latest' = [latest EXCEPT ![k] = v]
    /\ UNCHANGED ready

\* Between the two records of a move.
CrashInMove(from, to) ==
    /\ isOpen /\ Len(db.binlog) + 2 <= MaxLog
    /\ db.map[to] = None /\ db.map[from] # None /\ TRUE \in BinlogWrites(db)
    /\ Crashed(MoveAway(db, from, TRUE))
    /\ Moved(from, to)
    /\ UNCHANGED ready

\* Between the moves of the files: binlog-temp is binlog-ready already, and
\* binlog still there or deleted.
CrashInSwap ==
    /\ At("done") /\ db.handle
    /\ ready' = Swapped
    /\ \E left \in {db.binlog, <<>>} : Crashed([db EXCEPT !.binlog = left])
    /\ UNCHANGED latest

-----------------------------------------------------------------------------
Callers ==
    \/ \E k \in Keys, v \in Values : Put(k, v) \/ PutIfEmpty(k, v)
    \/ \E k \in Keys : Get(k) \/ Remove(k)
    \/ \E from, to \in Keys :
          from # to /\ (CopyIfEmpty(from, to) \/ MoveIfEmpty(from, to))
    \/ \E S \in SUBSET Mapped : ClearByTag(S) \/ ClearByTagFirst(S)
    \/ Open \/ Close \/ Clear \/ UpdateSettings

Timers == WriteBundles \/ ClearStaleChunk \/ \E S \in SUBSET Mapped : Prune(S)

Compactor == CompactorStart \/ ProcessValues \/ Finalize \/ Fail

Messages == GetManyRaw \/ CompactorDone \/ CompactorFail \/ LateCompactorFail

Crashes ==
    \/ Crash
    \/ \E k \in Keys, v \in Values : CrashInPut(k, v)
    \/ \E from, to \in Keys : from # to /\ CrashInMove(from, to)
    \/ CrashInSwap

Next == Callers \/ Timers \/ Compactor \/ Messages \/ Crashes

Spec == Init /\ [][Next]_vars

\* Timers fire, and the two queues run what is posted to them.
Fairness ==
    /\ WF_vars(WriteBundles)
    /\ WF_vars(Compactor)
    /\ WF_vars(GetManyRaw \/ CompactorDone \/ CompactorFail)

FairSpec == Spec /\ Fairness

-----------------------------------------------------------------------------
(* Properties. *)

\* What a get would find under k: now if the database is open, else after it
\* is opened again.
Visible ==
    [k \in Keys |->
        Lookup(IF isOpen THEN db.map ELSE Replay(DiskLog), db.files, k)]

\* Whenever the process dies, what get found before is found after the next
\* start, under every key but those the task under way was writing: nothing is
\* lost and nothing comes back, with removals still waiting in _removing, with
\* a compaction under way, and with the process killed between the moves of
\* the swap, binlog-ready being all there is.  The same holds of close.
Same(S) == \A k \in S : Visible'[k] = Visible[k]
LosesNothing ==
    db.handle =>
        /\ Crash \/ CrashInSwap \/ Close => Same(Keys)
        /\ \A k \in Keys, v \in Values : CrashInPut(k, v) => Same(Keys \ {k})
        /\ \A from, to \in Keys : CrashInMove(from, to) => Same(Keys \ {from, to})
CrashSafe == [][LosesNothing]_vars

\* Once the compactor has read its part of the binlog, what it wrote and
\* what it has still to copy give every key what the map gives it, although
\* it read the entries in chunks while the map was changing.
CompactedAgrees ==
    (At("catchUp") \/ At("done")) /\ db.handle =>
        \A k \in Keys \ db.removing :
            EntryOf(Swapped, k) = db.map[k]

\* _binlogExcessLength counts no record twice: it never exceeds the garbage
\* in the binlog, across compactions too, so that compactions end; and the
\* Assert of compactorDone that it does not become negative holds.
ExcessIsGarbage ==
    /\ db.excess >= 0
    /\ isOpen /\ db.handle => db.excess <= Garbage(db.binlog, db.map)

\* Removals wait only while the timer that writes them is set, and fewer
\* than a bundle holds (the Expects of writeMultiRemove); a key that waits
\* has no entry, or writing the bundle would undo a put.
RemovalsWait ==
    /\ db.removing # {} => db.armed
    /\ Cardinality(db.removing) < MaxBundled
    /\ \A k \in db.removing : db.map[k] = None

\* Clearing stale entries spares those stored after the stale ones were
\* chosen: put and move take a key off the list.
NewEntriesSpared == db.stale \cap db.fresh = {}

\* The database implements a lossy cache.
Abstract == INSTANCE LossyCache WITH store <- Visible
ImplementsLossyCache == Abstract!Spec

\* A removal that waits is written, taken back by a put, or ends with the
\* database closed: the timer sees to it, however often removals come.
RemovalsWritten == \A k \in Keys : k \in db.removing ~> k \notin db.removing

\* A compaction ends, swapped in, failed or dropped, while callers go on; it
\* does not chase them: each turn of finalize copies less than the one before,
\* or is the last.
CompactionEnds ==
    /\ comp # None ~> comp = None
    /\ [][Finalize /\ comp.gap > 0 /\ comp'.st = "catchUp"
             => comp'.gap < comp.gap]_vars
=============================================================================
