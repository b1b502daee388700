-------------------------- MODULE StreamingReader --------------------------
(***************************************************************************)
(* How a streamed file is waited for: the streaming thread in              *)
(* File::Context::read and Reader::fill, the main thread with              *)
(* LoaderMtproto, and the cache's thread that brings what it has.          *)
(* (media/streaming/media_streaming_reader.cpp, _file.cpp, _loader.cpp,    *)
(* _loader_mtproto.cpp).                                                   *)
(*                                                                         *)
(* What a slice holds is StreamingSlices; here a slice has PartsInSlice    *)
(* parts, is looked up in the cache first, its missing parts are loaded,   *)
(* and it is dropped after some read.  The header, and players that stop   *)
(* and start again on one reader, are left out.                            *)
(***************************************************************************)
EXTENDS Integers, Sequences, FiniteSets, SequencesExt, FiniteSetsExt

CONSTANTS
    LastPart,               \* parts of the file are 0 .. LastPart
    PartsInSlice,           \* kPartsInSlice
    MaxConcurrentRequests,  \* kMaxConcurrentRequests
    MaxErrors,              \* bound: requests that fail
    MaxDrops,               \* bound: slices dropped
    MaxSem,                 \* bound: releases of the semaphore that are counted
    Stops                   \* whether the player may stop

ASSUME ConstantsAssumption ==
    /\ {LastPart, MaxErrors, MaxDrops} \subseteq Nat
    /\ {PartsInSlice, MaxConcurrentRequests, MaxSem} \subseteq Nat \ {0} /\ MaxSem >= 2
    /\ Stops \in BOOLEAN

Parts == 0 .. LastPart
SliceOf(p) == p \div PartsInSlice
Slices == {SliceOf(p) : p \in Parts}
PartsOf(n) == {p \in Parts : SliceOf(p) = n}
NoPart == -1
Failed == -2

VARIABLES
    pc, cur,        \* the streaming thread, and the part it reads
    mem,            \* [have, looked, getting, loading, failed]: the reader's fields
    sem,            \* the context's semaphore
    waiting,        \* _waiting: the semaphore is to be released for a part
    cacheWaiting,   \* _cacheHelper->waiting
    results,        \* _cacheHelper->results: <<slice, parts found>>
    cachePc,        \* the cache's thread: idle, or in the callback's lock
    loadedParts,    \* _loadedParts
    mainPc,         \* the main thread: idle, or firing a part
    calls,          \* calls posted to the main thread (crl::on_main)
    loader,         \* [requested, requests, dead, flight, refresh]: LoaderMtproto
    interrupted, errors, drops

thread == <<pc, cur>>
vars == <<pc, cur, mem, sem, waiting, cacheWaiting, results, cachePc, loadedParts,
          mainPc, calls, loader, interrupted, errors, drops>>

-----------------------------------------------------------------------------
(* PriorityQueue: its values, those added with the current priority, and the *)
(* pairs of which the first has the higher priority; only comparisons count. *)

EmptyQueue == [values |-> {}, current |-> {}, before |-> {}]

Adds(q, v) == v \notin q.current
Removed(q, S) == [values |-> q.values \ S, current |-> q.current \ S,
                  before |-> {b \in q.before : b[1] \notin S /\ b[2] \notin S}]
Added(q, S) ==
    LET r == Removed(q, S)
    IN  [values |-> r.values \cup S, current |-> r.current \cup S,
         before |-> r.before \cup (S \X (r.values \ r.current))]
IncreasePriority(q) == [q EXCEPT !.current = {}]

\* The order of the entries: the higher priority, then the smaller value.
Precedes(q, v, w) == <<v, w>> \in q.before \/ (<<w, v>> \notin q.before /\ v < w)
FirstOf(q, n) == {w \in q.values : Cardinality({v \in q.values : Precedes(q, v, w)}) < n}

-----------------------------------------------------------------------------
(* LoaderMtproto, on the main thread. *)

\* sendNext: while fewer than the maximum are sent and not answered.
sendNext(l) ==
    LET sent == FirstOf(l.requested, MaxConcurrentRequests - Cardinality(l.requests))
    IN  [l EXCEPT !.requested = Removed(@, sent), !.requests = @ \cup sent,
                  !.dead = @ \ sent,
                  !.flight = [p \in Parts |-> IF p \in sent THEN @[p] + 1 ELSE @[p]]]

load(l, p) ==
    IF p \in l.requests \/ ~Adds(l.requested, p) THEN l
    ELSE sendNext([l EXCEPT !.requested = Added(@, {p})])

\* A request that failed and waits for a new file reference is not in flight.
\* Requests of one part are only counted: which of two is taken off is not told.
cancel(l, p) ==
    IF p \in l.requests
    THEN sendNext([l EXCEPT !.requests = @ \ {p}, !.dead = @ \ {p},
                            !.flight[p] = IF p \in l.dead \/ @ = 0 THEN @ ELSE @ - 1])
    ELSE [l EXCEPT !.requested = Removed(@, {p})]

\* The main thread runs the next call posted to it.
RunCall ==
    /\ mainPc = "idle" /\ calls # <<>>
    /\ LET c == Head(calls)
       IN  loader' = CASE c.op = "load"   -> load(loader, c.part)
                       [] c.op = "cancel" -> cancel(loader, c.part)
                       [] c.op = "raise"  -> [loader EXCEPT !.requested = IncreasePriority(@)]
    /\ calls' = Tail(calls)
    /\ UNCHANGED <<thread, mem, sem, waiting, cacheWaiting, results, cachePc, loadedParts,
                   mainPc, interrupted, errors, drops>>

\* _parts.fire: the part is appended; whoever waits is woken next.
fire(p) ==
    /\ loadedParts' = Append(loadedParts, p)
    /\ mainPc' = "fired"

Environment == UNCHANGED <<thread, mem, sem, waiting, cacheWaiting, results, cachePc, calls,
                           interrupted, drops>>

requestDone(p) ==
    /\ mainPc = "idle" /\ loader.flight[p] > 0
    /\ loader' = sendNext([loader EXCEPT !.requests = @ \ {p}, !.dead = @ \ {p},
                                         !.flight[p] = @ - 1])
    /\ fire(p)
    /\ Environment /\ UNCHANGED errors

\* requestFailed with any other error than a file reference's, and a redirect
\* to a CDN.
requestFailed(p) ==
    /\ mainPc = "idle" /\ loader.flight[p] > 0 /\ errors < MaxErrors
    /\ errors' = errors + 1
    /\ loader' = [loader EXCEPT !.flight[p] = @ - 1,
                                !.dead = IF p \in loader.requests /\ loader.flight[p] = 1
                                         THEN @ \cup {p} ELSE @]
    /\ fire(Failed)
    /\ Environment

\* requestFailed with FILE_REFERENCE_*: the reference is refreshed first.
referenceExpired(p) ==
    /\ mainPc = "idle" /\ loader.flight[p] > 0 /\ errors < MaxErrors
    /\ errors' = errors + 1
    /\ loader' = [loader EXCEPT !.flight[p] = @ - 1, !.refresh = @ \cup {p},
                                !.dead = IF p \in loader.requests /\ loader.flight[p] = 1
                                         THEN @ \cup {p} ELSE @]
    /\ UNCHANGED <<loadedParts, mainPc>> /\ Environment

\* Mutant: the part is not queued again.
referenceUpdatedForgets(p) ==
    /\ mainPc = "idle" /\ p \in loader.refresh
    /\ loader' = sendNext([loader EXCEPT !.refresh = @ \ {p}, !.requests = @ \ {p},
                                         !.dead = @ \ {p}])
    /\ UNCHANGED <<loadedParts, mainPc, errors>> /\ Environment

\* The callback of refreshFileReference, with a new reference or without.
referenceUpdated(p) ==
    /\ mainPc = "idle" /\ p \in loader.refresh
    /\ LET l == [loader EXCEPT !.refresh = @ \ {p}]
       IN  loader' = IF p \notin l.requests THEN l
                     ELSE sendNext([l EXCEPT !.requests = @ \ {p}, !.dead = @ \ {p},
                                             !.requested = Added(@, {p})])
    /\ UNCHANGED <<loadedParts, mainPc, errors>> /\ Environment

referenceNotUpdated(p) ==
    /\ mainPc = "idle" /\ p \in loader.refresh
    /\ loader' = [loader EXCEPT !.refresh = @ \ {p}]
    /\ fire(Failed)
    /\ UNCHANGED errors /\ Environment

\* The reader's handler of parts: reads _waiting, then resets it and releases.
Release == sem' = Min({sem + 1, MaxSem})

PartFired ==
    /\ mainPc = "fired"
    /\ mainPc' = IF waiting THEN "wakes" ELSE "idle"
    /\ UNCHANGED <<thread, mem, sem, waiting, cacheWaiting, results, cachePc, loadedParts,
                   calls, loader, interrupted, errors, drops>>

PartWakes ==
    /\ mainPc = "wakes"
    /\ mainPc' = "idle" /\ waiting' = FALSE /\ Release
    /\ UNCHANGED <<thread, mem, cacheWaiting, results, cachePc, loadedParts,
                   calls, loader, interrupted, errors, drops>>

-----------------------------------------------------------------------------
(* The cache's thread, in the callback of Reader::readFromCache. *)

\* The result is inserted under the lock, and cacheWaiting read.
CacheResult(n, found) ==
    /\ cachePc = "idle" /\ n \in mem.getting /\ found \subseteq PartsOf(n)
    /\ mem' = [mem EXCEPT !.getting = @ \ {n}]
    /\ results' = results \cup {<<n, found>>}
    /\ cachePc' = IF cacheWaiting THEN "wakes" ELSE "idle"
    /\ UNCHANGED <<thread, sem, waiting, cacheWaiting, loadedParts, mainPc, calls, loader,
                   interrupted, errors, drops>>

CacheWakes ==
    /\ cachePc = "wakes"
    /\ cachePc' = "idle" /\ cacheWaiting' = FALSE /\ Release
    /\ UNCHANGED <<thread, mem, waiting, results, loadedParts, mainPc, calls, loader,
                   interrupted, errors, drops>>

-----------------------------------------------------------------------------
(* The streaming thread. *)

Others == UNCHANGED <<cachePc, mainPc, loader, interrupted, errors>>

\* File::Context::read, for FFmpeg.
Read(p) ==
    /\ pc = "idle" /\ ~interrupted /\ ~mem.failed
    /\ pc' = "cache" /\ cur' = p
    /\ UNCHANGED <<mem, sem, waiting, cacheWaiting, results, loadedParts, calls, drops>>
    /\ Others

\* processCacheResults: nothing once the reader has failed.
TakeResults(then) ==
    /\ cachePc = "idle"
    /\ results' = IF mem.failed THEN results ELSE {}
    /\ mem' = IF mem.failed THEN mem
              ELSE [mem EXCEPT !.looked = @ \cup {r[1] : r \in results},
                               !.have = @ \cup UNION {r[2] : r \in results}]
    /\ pc' = then
    /\ UNCHANGED <<cur, sem, waiting, cacheWaiting, loadedParts, calls, drops>>
    /\ Others

\* Mutant: the failure is skipped like a part that is not waited for.
TakenUnfailed ==
    LET got == ToSet(loadedParts) \cap mem.loading.values
    IN  [mem EXCEPT !.have = @ \cup got, !.loading = Removed(@, got)]

\* processLoadedParts: what came before a failure, as far as it is waited for.
Taken ==
    LET before == {i \in DOMAIN loadedParts : \A j \in 1 .. i : loadedParts[j] # Failed}
        got == {loadedParts[i] : i \in before} \cap mem.loading.values
    IN  [mem EXCEPT !.have = @ \cup got, !.failed = Failed \in ToSet(loadedParts),
                    !.loading = Removed(@, got)]

TakeParts(then) ==
    /\ loadedParts' = IF mem.failed THEN loadedParts ELSE <<>>
    /\ mem' = IF mem.failed THEN mem ELSE Taken
    /\ pc' = then
    /\ UNCHANGED <<cur, sem, waiting, cacheWaiting, results, calls, drops>>
    /\ Others

\* Reader::fill: results and parts first.
FillResults == pc = "cache" /\ TakeResults("parts")
FillParts == pc = "parts" /\ TakeParts(IF mem.failed \/ Taken.failed THEN "failed" ELSE "try")

\* failed(): the waiting is over, the thread releases its own semaphore.
FillFailed ==
    /\ pc = "failed"
    /\ pc' = "acquire" /\ waiting' = FALSE /\ cacheWaiting' = FALSE /\ Release
    /\ UNCHANGED <<cur, mem, results, loadedParts, calls, drops>> /\ Others

\* Calls for a set of parts, in their order.
Calls(op, S) ==
    [i \in 1 .. Cardinality(S) |->
        [op |-> op, part |-> CHOOSE p \in S : Cardinality({r \in S : r < p}) = i - 1]]

\* fillFromSlices finds the part.  A slice may be dropped now: with what is
\* under way of it, when it goes to the cache, or without.  The parts ahead that
\* the code also asks for are asked for by the next fill.
Filled ==
    /\ pc = "try" /\ cur \in mem.have
    /\ pc' = "idle" /\ waiting' = FALSE /\ cacheWaiting' = FALSE
    /\ \/ UNCHANGED <<mem, calls, drops>>
       \/ \E n \in mem.looked \ {SliceOf(cur)}, cancelled \in BOOLEAN :
             LET under == IF cancelled THEN PartsOf(n) \cap mem.loading.values ELSE {}
             IN  /\ drops < MaxDrops /\ drops' = drops + 1
                 /\ mem' = [mem EXCEPT !.have = @ \ PartsOf(n), !.looked = @ \ {n},
                                       !.loading = Removed(@, under)]
                 /\ calls' = calls \o Calls("cancel", under)
    /\ UNCHANGED <<cur, sem, results, loadedParts>> /\ Others

\* fillFromSlices does not find it, and asks the cache, or the loader for it
\* and the parts ahead; the first is to be the first of those under way.
AskCache ==
    /\ pc = "try" /\ cur \notin mem.have /\ SliceOf(cur) \notin mem.looked
    /\ mem' = IF SliceOf(cur) \in {r[1] : r \in results} THEN mem
              ELSE [mem EXCEPT !.getting = @ \cup {SliceOf(cur)}]
    /\ pc' = "wait"
    /\ UNCHANGED <<cur, sem, waiting, cacheWaiting, results, loadedParts, calls, drops>>
    /\ Others

AskLoader ==
    /\ pc = "try" /\ cur \notin mem.have /\ SliceOf(cur) \in mem.looked
    /\ LET ahead == {p \in PartsOf(SliceOf(cur)) : p > cur} \ mem.have
           raise == mem.loading.values # {} /\ FirstOf(mem.loading, 1) # {cur}
           queue == IF raise THEN IncreasePriority(mem.loading) ELSE mem.loading
           asked == {p \in {cur} \cup ahead : Adds(queue, p)}
       IN  /\ mem' = [mem EXCEPT !.loading = Added(queue, asked)]
           /\ calls' = calls \o (IF raise THEN <<[op |-> "raise", part |-> cur]>> ELSE <<>>)
                             \o Calls("load", asked)
    /\ pc' = "wait"
    /\ UNCHANGED <<cur, sem, waiting, cacheWaiting, results, loadedParts, drops>>
    /\ Others

\* startWaiting, then both are looked at again.
StartWaitingCache ==
    /\ pc = "wait" /\ pc' = "wait2" /\ cacheWaiting' = TRUE
    /\ UNCHANGED <<cur, mem, sem, waiting, results, loadedParts, calls, drops>> /\ Others

\* Mutant: nothing is looked at again.
StartWaitingPartsSleeps ==
    /\ pc = "wait2" /\ pc' = "acquire" /\ waiting' = TRUE
    /\ UNCHANGED <<cur, mem, sem, cacheWaiting, results, loadedParts, calls, drops>> /\ Others

StartWaitingParts ==
    /\ pc = "wait2" /\ pc' = "again" /\ waiting' = TRUE
    /\ UNCHANGED <<cur, mem, sem, cacheWaiting, results, loadedParts, calls, drops>> /\ Others

AgainResults == pc = "again" /\ TakeResults(IF results # {} /\ ~mem.failed THEN "try" ELSE "again2")
AgainParts ==
    /\ pc = "again2"
    /\ TakeParts(IF mem.failed \/ Taken.failed THEN "failed"
                 ELSE IF loadedParts # <<>> THEN "try" ELSE "acquire")

\* The thread sleeps until the semaphore is released.
Acquire ==
    /\ pc = "acquire" /\ sem > 0
    /\ sem' = sem - 1
    /\ pc' = IF interrupted \/ mem.failed THEN "done" ELSE "cache"
    /\ UNCHANGED <<cur, mem, waiting, cacheWaiting, results, loadedParts, calls, drops>>
    /\ Others

\* File::stop: Context::interrupt, then the thread is joined.
Stop ==
    /\ Stops /\ ~interrupted /\ mainPc = "idle"
    /\ interrupted' = TRUE /\ Release
    /\ UNCHANGED <<thread, mem, waiting, cacheWaiting, results, cachePc, loadedParts,
                   mainPc, calls, loader, errors, drops>>

Init ==
    /\ pc = "idle" /\ cur = NoPart
    /\ mem = [have |-> {}, looked |-> {}, getting |-> {}, loading |-> EmptyQueue, failed |-> FALSE]
    /\ sem = 0 /\ waiting = FALSE /\ cacheWaiting = FALSE
    /\ results = {} /\ cachePc = "idle" /\ loadedParts = <<>> /\ mainPc = "idle"
    /\ calls = <<>>
    /\ loader = [requested |-> EmptyQueue, requests |-> {}, dead |-> {},
                 flight |-> [p \in Parts |-> 0], refresh |-> {}]
    /\ interrupted = FALSE /\ errors = 0 /\ drops = 0

Thread ==
    \/ FillResults \/ FillParts \/ FillFailed \/ Filled \/ AskCache \/ AskLoader
    \/ StartWaitingCache \/ StartWaitingParts \/ AgainResults \/ AgainParts \/ Acquire

MainThread == RunCall \/ PartFired \/ PartWakes
Server(p) == requestDone(p) \/ requestFailed(p) \/ referenceExpired(p)
Refreshed(p) == referenceUpdated(p) \/ referenceNotUpdated(p)
Cache == CacheWakes \/ \E n \in Slices, found \in SUBSET Parts : CacheResult(n, found)

Next ==
    \/ \E p \in Parts : Read(p) \/ Server(p) \/ Refreshed(p)
    \/ Thread \/ MainThread \/ Cache \/ Stop

Spec == Init /\ [][Next]_vars

FairSpec ==
    /\ Spec
    /\ WF_vars(Thread) /\ WF_vars(MainThread) /\ WF_vars(Cache)
    /\ \A p \in Parts : WF_vars(Server(p)) /\ WF_vars(Refreshed(p))

-----------------------------------------------------------------------------
(* Properties. *)

\* The thread does not sleep past anything: when it is about to sleep and
\* nothing was released, what lies in _loadedParts or in the cache's results
\* is about to wake it.
NothingSleptPast ==
    pc = "acquire" /\ sem = 0 =>
        /\ loadedParts # <<>> => mainPc # "idle" /\ (mainPc = "fired" => waiting)
        /\ results # {} => cachePc = "wakes"
        /\ ~interrupted /\ ~mem.failed

\* A part the reader counts as loading is on its way: called for, queued, sent,
\* waiting for a file reference, or fired; or the loader has failed.
OnItsWay(p) ==
    \/ \E i \in 1 .. Len(calls) : calls[i] = [op |-> "load", part |-> p]
    \/ p \in loader.requested.values \cup loader.refresh \cup ToSet(loadedParts)
    \/ loader.flight[p] > 0
LoadingIsOnItsWay ==
    mem.failed \/ Failed \in ToSet(loadedParts)
    \/ \A p \in mem.loading.values : OnItsWay(p)

\* Every read ends: the buffer is filled, the reader has failed or was stopped.
ReadsEnd == pc # "idle" ~> pc \in {"idle", "done"}
=============================================================================
