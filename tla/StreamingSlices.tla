-------------------------- MODULE StreamingSlices --------------------------
(***************************************************************************)
(* Media::Streaming::Reader::Slices and the reader's calls on it           *)
(* (media/streaming/media_streaming_reader.cpp): the parts of a streamed   *)
(* file that are in memory, in slices read from and written to the cache.  *)
(* The parts met before the header of the file was parsed are kept in an   *)
(* entry of their own, which may also hold the first slice ("Good").       *)
(*                                                                         *)
(* Offsets count parts.  A fill is a step of the streaming thread; the     *)
(* loader and the cache answer at any time in between.  Waiting for them   *)
(* is StreamingReader.  A failed load only ends the reading; the reader    *)
(* may be destroyed at any time here, so it adds nothing.                  *)
(***************************************************************************)
EXTENDS Integers, Sequences, FiniteSets, SequencesExt, FiniteSetsExt

CONSTANTS
    Files,             \* the files and bounds, of which a behaviour has one
    kPartSize,          \* bytes of a part
    kPartsInSlice,      \* kPartsInSlice
    kSlicesInMemory     \* kSlicesInMemory

ASSUME SlicesAssumption ==
    /\ {kPartSize, kPartsInSlice, kSlicesInMemory} \subseteq Nat \ {0}
    /\ kSlicesInMemory >= 2 /\ kPartSize % 8 = 0
    /\ \A f \in Files :
          /\ {f.parts, f.lastSize, f.partsInHeader, f.loadMax} \subseteq Nat \ {0}
          /\ {f.onlyInHeader, f.outsideGood, f.ahead, f.pending, f.reopens} \subseteq Nat
          /\ f.lastSize <= kPartSize /\ f.onlyInHeader >= kPartsInSlice
          /\ {f.useCache, f.evicts} \subseteq BOOLEAN
          \* A buffer is not larger than a slice: it touches one part more at most.
          /\ \A r \in f.reads :
                /\ r[1] \in 0 .. f.parts - 1 /\ r[2] \in r[1] + 1 .. f.parts
                /\ r[2] - r[1] <= kPartsInSlice + 1

VARIABLES
    file,     \* rigid: the file, and the bounds
    s,        \* the reader: [slices, mode, used, loading, failed, opened, broken]
    gets,     \* slice numbers asked of the cache
    asked,    \* parts the loader will bring
    arrived,  \* _loadedParts
    cache,    \* external: slice number -> entry
    reopens

slicesVars == <<file, s, gets, asked, arrived, cache, reopens>>

FileParts == file.parts                     \* parts of the file
LastSize == file.lastSize               \* bytes of the last one
MaxOnlyInHeader == file.onlyInHeader    \* kMaxOnlyInHeader, in parts
MaxPartsInHeader == file.partsInHeader  \* kMaxPartsInHeader
PartsOutsideGood == file.outsideGood    \* kPartsOutsideFirstSliceGood
PreloadAhead == file.ahead              \* kPreloadPartsAhead
LoadMax == file.loadMax                 \* kLoadFromRemoteMax
UseCache == file.useCache               \* whether the loader has a cache key
Reads == file.reads                     \* the ranges FFmpeg reads: <<from, till>>
MaxPending == file.pending    \* bound: parts asked of the loader, not looked at yet
MaxReopens == file.reopens    \* bound: readers of the file after the first
Evicts == file.evicts         \* whether the cache may drop an entry

isFullInHeader == FileParts <= MaxOnlyInHeader

\* Slice 0 is the header, slice n the n-th of _data.
LastSlice == IF isFullInHeader THEN 0 ELSE (FileParts + kPartsInSlice - 1) \div kPartsInSlice
Numbers == 0 .. LastSlice

\* What stands where a part's bytes should be, when an entry is misread.
Junk == -1
NoEntry == [size |-> 0, flat |-> TRUE, parts |-> <<>>, rest |-> <<>>]

Slice == [parts |-> <<>>, flags |-> {}]

-----------------------------------------------------------------------------
(* The bytes of an entry. *)

\* Bytes of the parts of a slice, one after the other.
Bytes(parts) ==
    LET last == {o \in DOMAIN parts : parts[o] = FileParts - 1}
    IN  kPartSize * Cardinality(DOMAIN parts \ last) + LastSize * Cardinality(last)

\* serializeComplexSlice: a count, then offset, size and bytes of each part.
ComplexSize(parts) == 4 + 8 * Cardinality(DOMAIN parts) + Bytes(parts)

SliceStart(n) == IF n = 0 THEN 0 ELSE (n - 1) * kPartsInSlice
maxSliceSize(n) ==
    CASE n = 0    -> (FileParts - 1) * kPartSize + LastSize
      [] n = LastSlice /\ n > 0 -> (FileParts - 1 - SliceStart(n)) * kPartSize + LastSize
      [] OTHER    -> kPartsInSlice * kPartSize

IsContiguousSerialization(size, max) == size % kPartSize = 0 \/ size = max

\* Mutant: no zeros are appended.
PaddedNever(size, max) == size

\* The zeros appended to a complex entry that would be taken for a contiguous one.
Padded(size, max) ==
    Min({k \in size .. size + 3 : ~IsContiguousSerialization(k, max)})

\* The parts of a slice start at its begin and have no hole.
Continuous(parts) == DOMAIN parts = 0 .. Cardinality(DOMAIN parts) - 1

\* serializeAndUnloadSlice, the data: the parts one after the other, or a
\* complex entry, for a good header followed by the first slice.
Entry(n, good, parts, rest) ==
    IF ~good /\ Continuous(parts)
    THEN [size |-> Bytes(parts), flat |-> TRUE, rest |-> <<>>, parts |-> parts]
    ELSE [size |-> Padded(ComplexSize(parts) + IF good THEN ComplexSize(rest) ELSE 0,
                          maxSliceSize(n)),
          flat |-> FALSE, rest |-> rest, parts |-> parts]

\* processCacheData and processComplexCacheData: the parts found in an entry.
Decoded(size, flat, parts, max) ==
    IF ~IsContiguousSerialization(size, max) THEN IF flat THEN <<>> ELSE parts
    ELSE IF size > max THEN <<>>
    ELSE IF flat THEN parts
    ELSE [o \in 0 .. (size + kPartSize - 1) \div kPartSize - 1 |-> Junk]

-----------------------------------------------------------------------------
(* The slices. *)

Has(x, n, flag) == flag \in x.slices[n].flags
With(x, n, on, off) == [x EXCEPT !.slices[n].flags = (@ \cup on) \ off]
Holds(x, n) == DOMAIN x.slices[n].parts
isGoodHeader(x) == x.mode = "Good"

\* An Expects or an Assert that does not hold ends the program.
Expects(x, name, condition) ==
    IF condition THEN x ELSE [x EXCEPT !.broken = @ \cup {name}]

\* std::map::try_emplace: what is held already is kept.
Emplaced(held, found) ==
    [o \in DOMAIN held \cup DOMAIN found |->
        IF o \in DOMAIN held THEN held[o] ELSE found[o]]

\* Slice::addPart.
addPart(x, n, o, bytes) ==
    LET y == Expects(x, "addPart", o \notin Holds(x, n))
        z == [y EXCEPT !.slices[n].parts = Emplaced(@, [i \in {o} |-> bytes])]
    IN  IF Has(x, n, "loaded") THEN With(z, n, {"changed"}, {}) ELSE z

\* headerDone.
computeIsGoodHeader(x) ==
    /\ ~isFullInHeader
    /\ Cardinality({o \in Holds(x, 0) : o >= kPartsInSlice}) <= PartsOutsideGood

headerDone(x, fromCache) ==
    IF x.mode # "Unknown" THEN x
    ELSE LET mode == IF isFullInHeader THEN "Full"
                     ELSE IF computeIsGoodHeader(x) THEN "Good" ELSE "Small"
             y == [x EXCEPT !.mode = mode]
         IN  IF fromCache THEN y
             ELSE [Expects(y, "headerDone",
                           \A n \in Numbers \ {0} :
                               ~Has(x, n, "loading") /\ ~Has(x, n, "loaded"))
                   EXCEPT !.slices = [n \in Numbers |->
                       IF n = 0 THEN @[0]
                       ELSE [x.slices[n] EXCEPT !.flags = @ \cup {"loaded"}]]]

SliceAt(p) == p \div kPartsInSlice + 1

\* applyHeaderCacheData, applyWhile: header parts added to their slices.
applyParts(x, parts) ==
    LET given(n) == {p - SliceStart(n) : p \in {q \in parts : SliceAt(q) = n}}
    IN  [Expects(x, "addPart", \A n \in Numbers : given(n) \cap Holds(x, n) = {})
         EXCEPT !.slices = [n \in Numbers |->
             IF given(n) = {} THEN @[n]
             ELSE [parts |-> Emplaced(@[n].parts, [o \in given(n) |->
                                                   @[0].parts[SliceStart(n) + o]]),
                   flags |-> IF Has(x, n, "loaded") THEN @[n].flags \cup {"changed"}
                             ELSE @[n].flags]]]

applyHeaderCacheData(x) ==
    IF Holds(x, 0) = {} \/ x.mode \notin {"Good", "Unknown"} THEN x
    ELSE IF x.mode = "Good" THEN applyParts(x, {p \in Holds(x, 0) : SliceAt(p) = 1})
    ELSE IF isFullInHeader THEN headerDone(x, TRUE)
    ELSE headerDone(applyParts(x, Holds(x, 0)), TRUE)

\* Slice::processCacheData.
processCacheData(x, n, found) ==
    With([x EXCEPT !.slices[n].parts = Emplaced(@, found)], n, {"loaded"}, {"loading"})

\* Mutant: what the cache has of a slice is not used.
processSliceIgnored(x, n, found) ==
    IF Has(x, n, "loading") THEN With(x, n, {"loaded"}, {"loading"}) ELSE x

\* processCacheResult of a slice other than the header.
processSlice(x, n, found) ==
    IF Has(x, n, "loading") THEN processCacheData(x, n, found) ELSE x

\* processCacheResult of the header; a good one was read for the first slice.
processHeader(x, e) ==
    LET y == IF isGoodHeader(x) /\ Has(x, 1, "loading")
             THEN With(x, 0, {"loading"}, {"loaded"}) ELSE x
        z == applyHeaderCacheData(
                 processCacheData(y, 0, Decoded(e.size, e.flat, e.parts, maxSliceSize(0))))
        rest == Decoded(e.size - ComplexSize(e.parts), FALSE, e.rest, maxSliceSize(1))
    IN  IF (isGoodHeader(x) /\ ~Has(x, 1, "loading")) \/ ~Has(y, 0, "loading") THEN x
        ELSE IF ~isGoodHeader(z) THEN z
        ELSE processSlice(With(z, 1, {"loading"}, {}), 1,
                          IF e.flat THEN <<>> ELSE rest)

\* processPart.
processPart(x, p) ==
    LET n == SliceAt(p)
        y == IF x.mode = "Unknown" /\ Cardinality(Holds(x, 0)) < MaxPartsInHeader
             THEN addPart(x, 0, p, p) ELSE x
    IN  IF isFullInHeader THEN addPart(x, 0, p, p)
        ELSE IF x.mode = "Unknown" /\ p \in Holds(x, 0) THEN x
        ELSE addPart(y, n, p - SliceStart(n), p)

-----------------------------------------------------------------------------
(* Unloading. *)

\* serializeAndUnloadSlice: the entry goes to the cache, [n, e] is what is put.
\* A good header and the first slice share the entry 0.
Unloaded(x, n) == [x EXCEPT !.slices[n] = Slice]

serializeGood(x) ==
    LET y == Expects(Expects(x, "unloadFirst", Has(x, 1, "loaded")),
                     "empty", Holds(x, 0) # {})
        rest == [o \in Holds(x, 1) \ Holds(x, 0) |-> x.slices[1].parts[o]]
    IN  [x |-> With(Unloaded(y, 1), 0, {}, {"changed"}), n |-> 0,
         e |-> Entry(0, TRUE, x.slices[0].parts, rest)]

serializeAndUnloadSlice(x, n) ==
    IF isGoodHeader(x) /\ n <= 1 THEN serializeGood(x)
    ELSE LET y == Expects(x, "empty", Holds(x, n) # {})
         IN  [x |-> IF n > 0 THEN Unloaded(y, n) ELSE With(y, 0, {}, {"changed"}),
              n |-> n, e |-> Entry(n, FALSE, x.slices[n].parts, <<>>)]

Nothing(x) == [x |-> x, n |-> -1, e |-> NoEntry]

\* serializeAndUnloadUnused: at most one slice, the one used longest ago.
serializeAndUnloadUnused(x) ==
    IF x.mode = "Unknown" \/ Len(x.used) <= kSlicesInMemory THEN Nothing(x)
    ELSE LET n == Head(x.used)
             y == [x EXCEPT !.used = Tail(@)]
         IN  CASE ~Has(x, n, "loaded") -> Nothing(y)
               [] Has(x, n, "loaded") /\ (x.mode = "NoCache" \/ ~Has(x, n, "changed")) ->
                      Nothing(Unloaded(y, n))
               [] OTHER -> serializeAndUnloadSlice(y, n)

\* unloadToCache until nothing is left, in finalizeCache: what changed is written,
\* and what the header and the first slice share when one of them did.
unloadAll(x, c) ==
    LET shared == IF isGoodHeader(x) THEN {0, 1} ELSE {}
        changed == {n \in Numbers : Has(x, n, "changed")}
        written == IF x.mode \in {"Unknown", "NoCache"} THEN {}
                   ELSE (changed \ shared) \cup IF changed \cap shared # {} THEN {0} ELSE {}
        r(n) == serializeAndUnloadSlice(x, n)
    IN  [c |-> [n \in Numbers |-> IF n \in written THEN r(n).e ELSE c[n]],
         broken |-> x.broken \cup UNION {r(n).x.broken : n \in written}]

-----------------------------------------------------------------------------
(* Filling a buffer. *)

FirstParts(S, k) == {o \in S : Cardinality({i \in S : i < o}) < k}

\* Slice::prepareFill, offsetsFromLoader: the missing parts of a range, the
\* offsets to load from the first of them on.
Missing(x, n, from, till) == (from .. till - 1) \ Holds(x, n)
offsetsFromLoader(x, n, from, till) ==
    LET missing == Missing(x, n, from, till)
        start == IF missing = {} THEN till ELSE Min(missing)
    IN  FirstParts((start .. till + PreloadAhead - 1) \ Holds(x, n), LoadMax)

\* Slices::fill, cacheNotLoaded.
cacheNotLoaded(x, n) ==
    x.mode \notin {"NoCache", "Unknown"} /\ ~Has(x, n, "loaded")

\* The pieces of a range in the slices it touches: <<slice, from, till>>.
Pieces(from, till) ==
    IF isFullInHeader THEN {<<0, from, till>>}
    ELSE {<<n, Max({from - SliceStart(n), 0}), Min({till - SliceStart(n), kPartsInSlice})>> :
             n \in SliceAt(from) .. SliceAt(till - 1)}

\* Slices::fill and fillFromHeader, what to load.
Offsets(x, from, till) ==
    FirstParts(UNION {{o + SliceStart(i[1]) :
                       o \in {o \in offsetsFromLoader(x, i[1], i[2], i[3]) :
                                 /\ isFullInHeader \/ o < kPartsInSlice
                                 /\ o + SliceStart(i[1]) < FileParts}} :
                   i \in {i \in Pieces(from, till) : i[1] = 0 \/ ~cacheNotLoaded(x, i[1])}},
            LoadMax)

\* markSliceUsed.
markSliceUsed(x, n) ==
    LET found == {i \in DOMAIN x.used : x.used[i] = n}
        others == IF found = {} THEN x.used ELSE RemoveAt(x.used, Min(found))
    IN  [x EXCEPT !.used = Append(others, n)]

\* Slices::fill: [x, n, e, filled, reads, loads].
fill(x, from, till) ==
    LET pieces == Pieces(from, till)
        ready == \A i \in pieces : Missing(x, i[1], i[2], i[3]) = {}
        reads == {i[1] : i \in {i \in pieces : cacheNotLoaded(x, i[1]) /\ ~Has(x, i[1], "loading")}}
        loads == Offsets(x, from, till)
        used == markSliceUsed(markSliceUsed(x, SliceAt(from)), SliceAt(till - 1))
        r == IF ~ready THEN Nothing([x EXCEPT !.slices = [n \in Numbers |->
                     IF n \in reads THEN With(x, n, {"loading"}, {}).slices[n] ELSE @[n]]])
             ELSE IF isFullInHeader THEN Nothing(x)
             ELSE serializeAndUnloadUnused(used)
    IN  IF x.mode # "NoCache" /\ ~Has(x, 0, "loaded")
        THEN [x |-> x, n |-> -1, e |-> NoEntry, filled |-> FALSE, reads |-> {}, loads |-> {}]
        ELSE [x |-> r.x, n |-> r.n, e |-> r.e, filled |-> ready, loads |-> loads,
              reads |-> IF ready \/ isFullInHeader THEN {} ELSE reads]

headerWontBeFilled(x) ==
    x.mode = "Unknown" /\ Cardinality(Holds(x, 0)) >= MaxPartsInHeader

-----------------------------------------------------------------------------
(* The reader. *)

Reader == [slices |-> [n \in Numbers |->
                          IF n = 0 /\ UseCache THEN [Slice EXCEPT !.flags = {"loading"}]
                          ELSE Slice],
           mode |-> IF UseCache THEN "Unknown" ELSE "NoCache",
           used |-> <<>>, loading |-> {}, failed |-> FALSE, opened |-> FALSE,
           broken |-> {}]

SlicesInit ==
    /\ file \in Files
    /\ s = Reader
    /\ gets = IF UseCache THEN {0} ELSE {}
    /\ asked = {} /\ arrived = {}
    /\ cache = [n \in Numbers |-> NoEntry]
    /\ reopens = 0

\* processCacheResults: the answers of the cache so far, the header's first.
processCacheResults(x, got) ==
    LET h == IF 0 \in got THEN processHeader(x, cache[0]) ELSE x
        found(n) == Decoded(cache[n].size, cache[n].flat, cache[n].parts, maxSliceSize(n))
    IN  [h EXCEPT !.slices = [n \in Numbers |->
            IF n \in got \ {0} THEN processSlice(h, n, found(n)).slices[n] ELSE @[n]]]

\* Mutant: every part that arrives is taken.
AwaitedAll(x, parts) == parts

\* processLoadedParts: a part that is not waited for any more is skipped.
Awaited(x, parts) == parts \cap x.loading

\* Parts that came since the last look are taken in the order of their offsets,
\* which only matters to which of them a full header does not get.
processParts(x, parts) ==
    LET upTo[p \in 0 .. FileParts] ==
            IF p = 0 THEN x
            ELSE IF p - 1 \in parts THEN processPart(upTo[p - 1], p - 1) ELSE upTo[p - 1]
    IN  upTo[FileParts]

\* Mutant: the part stays among the parts that are waited for.
processLoadedPartsKept(x, parts) ==
    processParts(x, Awaited(x, parts))

processLoadedParts(x, parts) ==
    [processParts(x, Awaited(x, parts)) EXCEPT !.loading = @ \ parts]

Running == s.broken = {} /\ ~s.failed

\* readFromCache: the first slice of a good header is in the header's entry.
Key(x, n) == IF n = 1 /\ isGoodHeader(x) THEN 0 ELSE n

\* cancelLoadInRange, when a slice went to the cache.
RangeOf(n) == LET m == Max({n, 1}) IN SliceStart(m) .. SliceStart(m) + kPartsInSlice - 1

\* fillFromSlices, after x was made of what came by then: r was filled or has to
\* wait.  When the priority was increased, parts under way are asked for again.
fillFromSlices(x, r, got) ==
    LET cancelled == IF r.n >= 0 THEN RangeOf(r.n) \cap x.loading ELSE {}
        loading == x.loading \ cancelled
    IN  IF ~r.filled /\ headerWontBeFilled(r.x)
        THEN /\ s' = [r.x EXCEPT !.failed = TRUE]
             /\ gets' = gets \ got
             /\ UNCHANGED <<asked, cache>>
        ELSE /\ s' = [r.x EXCEPT !.loading = loading \cup r.loads,
                                 !.opened = @ \/ r.filled]
             /\ gets' = (gets \ got) \cup {Key(r.x, n) : n \in r.reads}
             /\ \E again \in {{}, r.loads \cap loading} :
                    asked' = (asked \ cancelled) \cup (r.loads \ loading) \cup again
             /\ Cardinality(asked' \cup arrived') <= MaxPending
             /\ cache' = IF UseCache /\ r.n >= 0 THEN [cache EXCEPT ![r.n] = r.e] ELSE cache

\* Reader::fill, one round: what came from the cache and the loader by then first.
Fill(from, till) ==
    /\ Running /\ UNCHANGED <<file, reopens>>
    /\ \E got \in SUBSET gets, seen \in {{}, arrived} :
        /\ arrived' = arrived \ seen
        /\ \E x \in {processLoadedParts(processCacheResults(s, got), seen)} :
            \E r \in {fill(x, from, till)} :
                fillFromSlices(x, r, got)

\* Reader::headerDone, once FFmpeg has read the header.
HeaderDone ==
    /\ Running /\ s.opened /\ s.mode = "Unknown"
    /\ s' = headerDone(s, FALSE)
    /\ UNCHANGED <<file, gets, asked, arrived, cache, reopens>>

\* LoaderMtproto fires a part.
PartLoaded(p) ==
    /\ p \in asked
    /\ asked' = asked \ {p} /\ arrived' = arrived \cup {p}
    /\ UNCHANGED <<file, s, gets, cache, reopens>>

\* ~Reader with finalizeCache, and later another reader of the same file.
Reopen ==
    LET r == unloadAll(s, cache)
    IN  /\ s.broken = {}
        /\ reopens < MaxReopens /\ reopens' = reopens + 1
        /\ cache' = r.c
        /\ s' = [Reader EXCEPT !.broken = r.broken]
        /\ gets' = (IF UseCache THEN {0} ELSE {}) /\ asked' = {} /\ arrived' = {}
        /\ UNCHANGED file

\* The cache drops an entry: pruned, or lost.
Evict(n) ==
    /\ Evicts /\ cache[n] # NoEntry
    /\ cache' = [cache EXCEPT ![n] = NoEntry]
    /\ UNCHANGED <<file, s, gets, asked, arrived, reopens>>

SlicesNext ==
    \/ \E r \in Reads : Fill(r[1], r[2])
    \/ HeaderDone \/ Reopen
    \/ \E p \in 0 .. FileParts - 1 : PartLoaded(p)
    \/ \E n \in Numbers : Evict(n)

SlicesSpec == SlicesInit /\ [][SlicesNext]_slicesVars

-----------------------------------------------------------------------------
(* Properties. *)

\* A buffer is filled with the right bytes: whatever way a part took, from the
\* loader or through entries of the cache, contiguous, complex or shared with
\* the header, it lies at its own offset.
PartsInPlace ==
    \A n \in Numbers : \A o \in Holds(s, n) : s.slices[n].parts[o] = SliceStart(n) + o

\* The assertions on slices hold: no part is added twice, the header is
\* finished before any slice was looked up in the cache, and no empty slice is
\* written.  Two exceptions are real: a good header may have to be written after
\* the first slice was dropped as unchanged ("unloadFirst"), and a cache that
\* forgets entries can bring a part that is still under way.
AssertionsHold ==
    s.broken \subseteq {"unloadFirst"} \cup (IF Evicts THEN {"addPart"} ELSE {})

\* A part is loaded only while it is missing: neither the cache nor a late
\* answer of the loader brings it while it is waited for.
LoadingIsMissing ==
    Evicts \/ \A p \in s.loading :
        IF isFullInHeader THEN p \notin Holds(s, 0)
        ELSE p - SliceStart(SliceAt(p)) \notin Holds(s, SliceAt(p))

\* Writing an entry never loses a part that was saved in it before: a slice is
\* written only after what the cache had of it was taken in.
SavedIsKept ==
    [][Evicts \/ \A n \in Numbers :
           DOMAIN cache[n].parts \cup DOMAIN cache[n].rest
           \subseteq DOMAIN cache'[n].parts \cup DOMAIN cache'[n].rest]_slicesVars
=============================================================================
