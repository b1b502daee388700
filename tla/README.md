# A verification project for Bettergram

Bettergram is a desktop client for the Telegram network: a C++/Qt program that
holds a replica of the user's chats, kept current by a stream of updates from
the server, and caches media in a local database. This directory holds TLA+
models of the parts of it that carry its own control logic, TLC runs that check
them on small instances, and TLAPS proofs that hold for every instance.

Paths below are relative to `src/Telegram/SourceFiles/`.

## 1. The system

| Part | State it keeps | Operations | Talks to |
|---|---|---|---|
| Update counters and differences: `data/data_pts_waiter.*`, `mainwidget.cpp`, `data/data_channel.h`, `apiwrap.cpp` | per box (one common box, one box per channel) a `PtsWaiter`: confirmed pts, last pts heard of, points counted, updates held back, whether a difference is requested, whether a gap or a poll is waited for; deadlines of the gap, of the poll and of the retry | receive an update, receive the result of a request, time out, get a difference (empty, slice, final, too long, error), show or leave a channel | the server through MTProto; the data model, which applies an update |
| Cache database: `storage/cache/` | a map from keys to places of files, an append-only binlog of it on disk, the files, bundles of delayed records, the compactor's copy of the binlog | open, put, get, remove, copy, move, prune, clear, compact | the file system; the thread queues of `crl` |
| MTProto sessions: `mtproto/session.cpp`, `connection.cpp`, `mtp_instance.cpp` | requests to send, sent and not acknowledged, received message ids, salts, keys | send, pack, resend, acknowledge, restart | sockets; every user of `MTP::send` |
| Streaming: `media/streaming/` | slices of a file, requests of its parts, cache state | read, fill, cancel | the cache database, the loader thread, the player thread |
| Downloads and uploads: `storage/file_download.cpp`, `file_upload.cpp` | queues of loaders, requests in flight per datacenter, parts to send | start, part loaded, part failed, cancel | MTProto, the cache |
| Local storage: `storage/localstorage.cpp` | settings and maps in pairs of files | write, read with fall-back | the file system |
| Sparse id lists: `storage/storage_sparse_ids_list.cpp`, `data/data_sparse_ids.cpp` | slices of known message ids | add a slice, remove, query around an id | API answers |
| Calls: `calls/` | the state of a call | ring, answer, discard, hang up | MTProto, libtgvoip |
| Bettergram services: `bettergram/` | prices, RSS channels, pinned news, resource groups | periodic fetch, parse, save | HTTP |

`PROJECT.json` lists the remaining parts (user interface, export, passport,
language packs, sandbox, base libraries) with the reason each is left out.

The behaviours that are hard to test: updates arrive out of order, are lost,
or are dropped while a difference is requested; an answer is computed by the
server at a moment the client cannot see, and results of other requests arrive
before or after it; one deadline serves several purposes; errors are retried
by timers that find the state changed; and files are written without
transactions by several threads. `PROJECT.json` lists each of these at its
line, with the property that covers it.

## 2. The modules

| Module | Models |
|---|---|
| `PtsWaiter` | the class `PtsWaiter` as operators on a record: `check`, `updated`, `updateAndApply`, `applySkippedUpdates`, the two waits and `setRequesting` |
| `CommonUpdates` | the common box: `MainWidget`'s handlers of pushes, results, timers, answers and errors, with the server and the connection as environment |
| `ChannelUpdates` | the box of one channel, whose start, error path and polling differ |
| `SeqUpdates` | the seq counter and the date of the update containers: `feedUpdates`, `updSetState`, `_bySeqUpdates` and its timer, containers of channels that are not loaded |
| `MtpSession` | requests between the main thread (`Session`), the connection thread (`ConnectionPrivate`) and the server |
| `MtpInstance` | what `Instance::Private` does with a request whose answer is an error |
| `ReceivedIds` | `ReceivedMsgIds`: which message of the server is let through |
| `StreamingSlices` | `Reader::Slices`: what a streamed file keeps in memory, loads and saves |
| `StreamingReader` | how the streaming thread waits for parts: semaphore, cache helper, `LoaderMtproto` |
| `Uploader` | the queue of `Storage::Uploader`, its parts and sessions |
| `CacheLog` | the records of the cache's binlog and what reading them yields |
| `CacheDatabase` | the cache database on its queue, the compactor on another, the files, crashes |
| `LossyCache` | what a cache promises its callers: the abstract specification `CacheDatabase` implements |
| `MC...` | constants for TLC |
| `PtsWaiterProofs` | lemmas on `PtsWaiter`: what one `updateAndApply` preserves |
| `CommonUpdatesProofs` | the inductive invariant of the common box and its theorems |
| `ChannelUpdatesProofs` | the same for the box of a channel |
| `MtpInstanceProofs` | the inductive invariant of `MtpInstance` and its theorems |
| `MtpSessionProofs` | the inductive invariant of a session, the one of received message ids, and their theorems |
| `StreamingProofs` | the invariants of a streamed file's waiting, of its loader and of its slices, and their theorems |
| `QueueProofs` | the inductive invariants of the uploader and of the sequence layer of updates, whose handlers work off a queue, and their theorems |
| `CacheDatabaseProofs` | the invariants of the cache's lists, log and compactor, its theorems and the refinement of `LossyCache` |

The modules rest on each other's promises rather than being composed into one
state space: the boxes and the uploader rely on `MtpInstance` to call a handler
in the end, that on `MtpSession` to bring an answer at most once, and that on
`ReceivedIds` for the server's messages; `StreamingReader` relies on
`StreamingSlices` for what a slice holds, and both read and write what the
cache database keeps. `CommonUpdates` and `ChannelUpdates` are built from
`PtsWaiter`, `CacheDatabase` from `CacheLog`.

Some modules have a rigid variable (`limit`, `server`, `file`, `known`) that
Init chooses: the scenario of a behaviour and its bounds. One run then covers
several scenarios that would be too large together.

### Update boxes

The server numbers the changes of a box: an update `[pts, count]` moves the box
from `pts - count` to `pts`. The client confirms `good`, has heard of `last`,
and has counted `count`: when `last = count` nothing in between is missing
(`PtsWaiter::check`). The state of the module is that of the code, except:

* the queue is the set of updates held back (in the code three maps under one
  key, which starts with the pts and so fixes the order of application);
* a deadline is a Boolean, `armed`: which of two moments comes first is left
  open, so a deadline may pass at any time, also before anything else happens;
* `applied` and `counted` are history variables: which updates the client's
  data reflects, and which points were counted since the last `init`. No guard
  reads them.

Every handler runs to its end on the main thread and is one action. What
interleaves is the environment: `Publish` adds an update to the server's log
and a message to the network, carried by a push, by the result of a request
that holds the update, or by one that holds only `pts` and `pts_count`
(`affectedHistory`). Messages are a set, so any order is possible; pushes can
be lost; a message is delivered at most once (`ReceivedIds`). A request is
answered later, with the state of that moment. Errors that MTProto retries by
itself (`isDefaultHandledError`) are not errors here. What an update does to the
data model is abstracted to its being applied. `getState` is sent without a
handler of errors (`mainwidget.cpp:3265`): an error to it would leave
`_requesting` set with nothing under way. The model's server answers errors to
`getDifference` only, so `RequestingIsAnswered` and the liveness of the box say
nothing of that case.

In `ChannelUpdates` the first pts heard of becomes the confirmed one, and
nothing is promised about what lies below it (`base`).

### Sequence numbers

A container of updates carries a `seq` (one number, two combined ones, or none)
and a date. `SeqUpdates` keeps `updSeq`, `updDate`, the stored containers and
the three timers as `cl`. A container is plain, or tells of a channel that is
not loaded (`minChannel`): `feedUpdates` then applies nothing, starts
`_byMinChannelTimer` and leaves the date where it is, so that a difference
brings the container again. `updSetState` feeds stored containers while
`_requesting` is still set, as the code does.

Limits of the promise, found while modelling: a `minChannel` container that
comes after `updDate` has passed its date is not brought again; a result whose
date passes a `minChannel` container while its difference fails or brings only a
slice loses it too. Nothing in the repository promises otherwise. The scenarios
of the run keep the two apart (`servers`: channels not loaded; faults; results
of requests). `updSeq` may move back after a slice, whose intermediate state the
server computes.

### MTProto requests

`MtpSession`. The main thread and the connection thread share `_toSend`,
`_haveSent`, `_toResend`, `_wereAcked` and the received responses, each map
under a lock of its own. A function that holds several locks at once or whose
other accesses cannot be told apart is one action; where it releases one lock
before it takes the next it is several actions with a program counter:
`resend` (three locks), the sending of a lone request (two), `rpc_result`
(`requestsAcked`, then `wasSent`). `requestsAcked` takes its locks
together; between it and `wasSent` the main thread only erases from `_haveSent`
and inserts into `_toSend` and `_toResend`.

The server is external: it executes a message once per id, repeats its answer
to a repeated message, may reject a packet in each of the ways the client
handles, and may forget the session. Message ids are numbers in the order of
sending; an id in none of the maps is not told apart from any other such id.
Every sending, resending, containers, state requests, `clearCallbacks`, a
broken connection and cancels are modelled; pings, HTTP waiting, the wrapping
into `invokeWithLayer` and `invokeAfter`, `replaceMsgId`, `msg_detailed_info`,
`msgs_all_info`, `msg_resend_req` and the key exchange are not. Three details
differ: `checkRequestsByTimer` asks for the state of all requests at once and
does not drop containers and state requests that stay unanswered for
`kContainerLives` seconds (`session.cpp:331`); a fatal `bad_msg_notification`
clears the request meant, while the list the code builds, `{ 1,
RPCCallbackClear(...) }`, holds the id 1 as well (`connection.cpp:1780`).

Seen while modelling and excluded from the properties by name: a result is
discarded when it arrives while the main thread is inside `resend`, or when
`_wereAcked` is trimmed between `requestsAcked` and `wasSent`
(`connection.cpp:2064`, `:2332`); a request can be sent before `_toResend` gets
its mark, which then stays (`session.cpp:490` against the comment at
`session.h:296`); `bad_msg_notification` with a fatal code for a container
calls no handler of the requests in it.

`MtpInstance`. A request is in flight, in `_delayedRequests`, or in
`_authWaiters` of a datacenter. `onErrorDefault` is one action per branch.
Time passes only while the timer runs. Left out: the change of the main
datacenter at sign-in, destruction of keys, temporary errors of the export and
import requests themselves.

`ReceivedIds`. The map of received ids is the set of its keys, each message
comes alone or in a container, and both are repeated at any time. `shrink`
runs once after a whole container, so the map may exceed `kIdsBufferSize` while
it is handled. What counts is that a message is registered: one that is
registered and then ignored for its time (`connection.cpp:2034`, `:2115`), or
that restarts the connection (`:1619`) or the session (`:2157`) instead of being
handled, is not told apart (the history `registered` has
both), so `StateTold` says that "received" means registered,
as it does in the code.

### Streaming

`StreamingSlices` has the slices, the entry of the header, the reader's
loading queue and what arrived, and as environment the loader and the cache.
Offsets count parts; sizes in bytes are scaled (a part has 16, the last one 8 or
4), enough for the tests on the size of an entry. Puts and gets of the cache are
served in order by its queue, so a put is atomic. Slices of a file without a
cache key are never freed, as in the code. The two assertions that
`AssertionsHold` excludes can really fail: the first slice is dropped as
unchanged while a good header that shares its entry has not been written
(`media_streaming_reader.cpp:558`, then the `Expects` at `:643`), and a part that
is under way is brought by the loader after the cache, having lost the entry,
made the reader ask for it twice (`:562`, `:196`).

`StreamingReader` has three threads. The streaming thread runs `fill` with a
program counter at every point where another thread can act: before and after
each look at `_loadedParts` and at the cache's results, at `startWaiting`, and
at the semaphore. The main thread runs posted calls and `LoaderMtproto`; the
cache's thread takes the helper's mutex. `PriorityQueue` is the set of its
parts, those of the current priority, and the pairs of parts of which the first
has the higher priority; so `sendNext` is one formula about the first parts of
the queue (`FirstOf`). The semaphore saturates at `MaxSem`. A read that is
filled asks for nothing more: the parts ahead that the code asks the loader for
at that moment (`media_streaming_reader.cpp:477`, `:821`) are asked for by the
next fill. Requests of one part in flight are counted, not told apart, so a
cancel may take off the older of two. There is one player per reader:
`Reader::stop` clears the context's pointer but not the one the cache helper
holds.

### Uploads

Everything runs on the main thread; the environment answers requests in any
order, also those of a file that was given up. `up` is the uploader's state,
`net` the requests not answered, `acked` (history) the parts the server has.
Parts that are bytes in memory (photos, thumbnails) have one size; a document
has the part size its length gives (`setDocSize`). `fileLost` is a document that
cannot be opened any more (`gone`: noticed with the first part) or became
shorter (`cut`: noticed in any part but the last, `Unreadable`). `clear()`,
called at the end of the program, and what becomes of a message whose file is
ready are left out.

### Cache database

`DatabaseObject` keeps a map from keys to entries (the place of a data file and
the checksum of its content), writes every change of it to the binlog, and reads
the binlog back on open. `db` holds its fields and the files of the current
version; `ready` is the file `binlog-ready`; `comp` the compactor, with its
`binlog-temp`; `latest` and `db.fresh` are history.

* Every task of the database's queue is one action, built from the functions of
  the code as operators on `db`. The compactor's steps and its messages are
  actions of their own: it asks for the entries of a chunk, the database answers
  (`GetManyRaw`), and the map may change before, between and after.
* A crash loses the memory. It may strike between two tasks or inside one, where
  a task makes more than one write: between the record and the data of a put
  (the file is the old one, torn or new), between the two records of a move,
  between the deletion and the renaming that replace the binlog.
* `Faults` says which operations of the file system may fail.
* Values stand for tag and bytes; the checksum is the value (no collisions); a
  new place is never one that a record already names (56 random bits). A record
  is written whole or not at all. Sizes, use times and tags are left out: pruning
  and `clearByTag` choose any set of entries, one key at a time
  (`staleRemoveChunk = 1`); a longer chunk is several such steps in a row.
  The excess is counted in records. `optimize` may leave the compactor alone even
  when there is enough garbage: the delay after a failure and pruning come first
  in the code.
* A compactor that is dropped still ends the task it is in. What the database
  notices of it is a failure, which the code does not guard
  (`LateCompactorFail`): one, or two from `start`, which does not return when it
  has failed (`storage_cache_compactor.cpp:116`). `late` counts the failures under
  way, up to `MaxLate`. What that task still writes to `binlog-temp`, or its
  removal of that file (`:166`), is left out: in the model each compactor has a
  file of its own, in the code a compactor of the database opened again shares the
  path.

`LossyCache` promises that what is found under a key is the value last stored
there or nothing. `CacheDatabase` maps to it by `Visible`: what `get` would find
now, or after the next open. That no stale value is ever found is part of that
refinement. It allows any value to be lost at any time, so that a crash loses
none is a property of its own: `CrashSafe` says of every crash and of `close`,
while the binlog is open, that what the next start finds is what was found
before, but for the keys of the put or the move that was interrupted; a crash
within the swap, which leaves only `binlog-ready`, is one of them.
`ExcessIsGarbage` is both what the `Assert` of `compactorDone` says, that the
excess is not negative, and that it never exceeds the garbage of the binlog.
`CompactionEnds` is the end of a compaction and the reason the code has for it:
each turn of `finalize` copies less than the one before or is the last, however
fast the callers are.

## 3. The runs

| Run | Bounds | Properties |
|---|---|---|
| `common` | pts to 4, counts 1 and 2, one zero-count update, one error, all kinds of answer | `NoGap`, `HeldBackIsWatched`, `RequestingIsAnswered`, `ConfirmedNeverMovesBack`, `HeardIsConfirmed` |
| `channel` | pts to 4, counts 1 and 2, one zero-count update, one error, pts known at the start or not | `NoGap`, `HeldBackIsWatched`, `HeardIsConfirmed`, `ShownIsPolled` |
| `channel_failed` | pts to 3, one error | violation of `FailedIsRetried`: a channel difference that failed is never requested again |
| `seq` | seq to 3, date to 4, one error, one new session, the three kinds of server | `NothingForgotten`, `StoredIsReached` |
| `mtp` | up to two requests, one with a handler, a buffer of one acknowledged id; five scenarios: broken connection, rejection and cancel, state request, lost session, and a fair one | `ExecutedOnce`, `HandledOnce`, `NoneForgotten`, `Answered` |
| `received_ids` | six ids, a buffer of two | `NoneRepeated`, `StateTold` |
| `instance` | two requests, the second after the first, two datacenters, three errors, refusals | `InOnePlace`, `NoneStranded`, `DelayedInTime`, `CalledInTheEnd` |
| `slices` | five files of up to five parts and three slices of which two fit in memory; up to two further readers of the same file | `PartsInPlace`, `AssertionsHold`, `LoadingIsMissing`, `SavedIsKept` |
| `reader` | three parts in two slices, one request at a time, two errors, one slice dropped | `NothingSleptPast`, `LoadingIsOnItsWay`, `ReadsEnd` |
| `upload` | a photo, a document and a document with a thumbnail of another part size, two sessions, two errors, one pause | `ReadyIsWhole`, `SentIsCurrent`, `SizesAgree`, `UploadsEnd` |
| `cache` | two keys, two values, two places, binlog to 4 records, bundles of 2, compaction from one record of garbage on, crashes, failing compactors, one late failure at a time | `CrashSafe`, `CompactedAgrees`, `ExcessIsGarbage`, `RemovalsWait`, `NewEntriesSpared`, `ImplementsLossyCache` |
| `cache_live` | one key, one value, two places, binlog to 4 records, every fault, two late failures at a time | `RemovalsWritten`, `CompactionEnds` |

Why the bounds are enough:

* A box that goes from pts 1 to 4 has three updates of one point, or one of two
  points and one of one: one confirmed, one missing and one held back, and a
  difference in two slices while another update arrives.
* Three numbers are one confirmed, one missing and one stored, or a combined
  container around a stored one.
* In `mtp` each scenario brings one kind of trouble together with those it can
  compound with: a reconnection with a container of two requests, a rejection
  with a cancel of one of them, a state request with a reconnection, a session
  that the server forgets with a rejected packet.
* Six ids against a buffer of two: an id can leave the buffer and come again,
  alone or in a container larger than the buffer.
* Two requests that depend on each other and two datacenters are what the
  branches of `onErrorDefault` compare; three errors let both be delayed, wait
  and be moved.
* The files of `slices`: a header that shares its entry with the first slice, one
  with an entry of its own, a cache that forgets, none, and a file kept whole in
  the header's entry. With three slices and room for two, one is always dropped.
* Two keys suffice for a move, for a full bundle, and for a compaction that reads
  one key before and one after a change. Keys, values and places are
  interchangeable; the liveness runs use no symmetry. Callers act while the binlog
  leaves room for the two records a task may write, timers and the compactor
  without a bound.

Runs with `CHECK_DEADLOCK FALSE` may stop: their environment's bounds are used
up and the program waits for nothing. The two cache runs have no such state and
check for deadlock.

Fairness: the timers fire, the server answers a request, an answer reaches its
handler, and a message on its way that is not lost is delivered (Qt's event
loop serves every timer and every event). In `mtp` each thread goes on, the
server takes and answers what reaches it and a broken connection is made again
(`ConnectionPrivate::restart`); only the behaviours whose scenario is fair are
obliged, and only they are asked for an end. In `reader` all three threads go
on and every part asked for is answered. In `upload` every request is answered
and the user ends every pause. In the cache the timer of the bundles fires and
both queues run what is posted to them (`crl` serves a queue until it is empty).
Nothing obliges the server to publish, the user to show a channel, a caller to
store.

What the code does and the properties therefore leave out, each by a disjunct
that names it:

* an update with `pts_count = 0` cancels the wait for an open gap
  (`data_pts_waiter.cpp:158`); `differenceTooLong` is only logged
  (`mainwidget.cpp:3038`);
* a channel's difference that failed is not requested again (`channel_failed`);
  a channel shown before its pts is known is not polled later
  (`mainwidget.cpp:3155`);
* a refused export or import of the authorization strands the requests that
  wait for it (`mtp_instance.cpp:1172`, `:1215`), as does `MSG_WAIT_FAILED` for a
  request whose predecessor is in flight again (`:1413`);
* a put whose record cannot be written reports success
  (`storage_cache_database_object.cpp:847`): `cache` has working binlog writes,
  `cache_live`, which promises nothing on values, has every fault;
* the discarded results of `MtpSession` and the two assertions of
  `StreamingSlices` described above.

## 4. The proofs

`CommonUpdatesProofs` proves for every `MaxPts`, `Counts`, `MaxZeros`,
`MaxFails` and `Answers` (assumption `ConstantsAssumption`: they are numbers
and sets of the obvious kind):

* `TypeCorrect`: `Spec => []TypeOK`;
* `NothingSkipped`: `Spec => []NoGap`;
* `QueueWatched`: `Spec => []HeldBackIsWatched`;
* `NeverBack`: `Spec => ConfirmedNeverMovesBack`;
* `AlwaysAnswered`: `Spec => []RequestingIsAnswered`; one direction is `RpcInv`
  below, the other `Awaited`, shown for every way a request starts and ends.

`NoGap` is not inductive: nothing in it says why `last = count` should mean
that no update is missing. The invariant `IInv` adds the reasons:

* `Tiled`: the server's updates tile the points of the box;
* `Counting`: while no difference is requested, `counted` lies between `good`
  and `last`, has `count - good` elements, and every update whose points were
  counted is applied or in the queue;
* `NetInv`: an update on its way has points that were not counted, and no two
  messages bring the same one;
* `RpcInv`: a request or an answer starts at the confirmed pts, which cannot
  move before the answer, because results that arrive meanwhile are not counted.

When an update is looked at, its points are added to `counted` (lemma
`CountUpdate`). A subset of `good+1 .. last` with `last - good` elements is the
whole interval (`PointsFit`), so when the sum matches, every update up to
`last` has been counted and is applied now (`LookPreserves`). The other lemmas
give one action each.

`ChannelUpdatesProofs` proves `ChannelTypeCorrect`, `ChannelNothingSkipped`
(`NoGap`) and `ChannelQueueWatched` (`HeldBackIsWatched`) under the same
assumptions. A channel's box starts at whatever pts it first hears of, so its
invariant takes the updates at or below `base` as reflected, says that a box
that has heard of nothing holds back and counts nothing, and lets a difference
be answered only from the confirmed pts. Counting is the same in both boxes:
what one `updateAndApply` preserves is proved once, in `PtsWaiterProofs`.

`MtpInstanceProofs` proves `InstanceSendsOnce` (`InOnePlace`),
`InstanceStrandsNone` (`NoneStranded`) and `InstanceNeverOversleeps`
(`DelayedInTime`) for every set of requests and datacenters, every dependency
among requests, every number of errors and every `MaxDelay`
(`ConstantsAssumption`). The queues keep requests that were cancelled, so the
invariant `IInv` speaks of those that still are requests: each is at most once
in the queue of the delayed (`Once`) and in one place only (`Placed`), waits for
the datacenter it goes to (`WaitsThere`), and somebody who waits has an
authorization under way or refused (`Exports`), because the first who waits
starts it. `InsertKeeps` says that a request put into the queue leaves it in the
order of the times, once behind all that are not later (`PlaceByTime`) and once
right before the request it depends on; `CheckDelayed` that what is due is a
beginning of the queue, so what is sent and what stays are disjoint.

`StreamingProofs` proves `ReaderSleepsPastNothing` (`NothingSleptPast`) for
files, slices and queues of every size, in every interleaving of the three
threads. The thread sets a flag and looks once more before it sleeps; the other
threads bring what they have and look at the flag after. The invariant `WInv`
follows the thread from the first flag to the semaphore: while nothing was
released that is not acquired yet, the flags stand (`FlagsStand`), because whoever
resets one releases, and what was brought after the last look is in the hands of
a thread that will wake it (`Brought`).

`LoadingIsNeverForgotten` (`LoadingIsOnItsWay`) is about the other half, the
loader: unless the file failed, a part that the reader counts as loading is
called for, queued, requested or fired. The property is not inductive, because
the calls posted from the streaming thread are run later by the main thread: a
part in the loader's queue may have a cancel posted behind it, or a cancel and
then a load again. The invariant `LInv` says which call counts: the last one
posted for the part asks for it (`CalledIn`), or none cancels it
(`Uncancelled`) and the loader or the parts that came have it (`HeldBy`). It
also says that what the loader counts as requested was sent and not answered, or
waits for a file reference (`SentOf`). A batch of calls goes out in ascending
order of the parts; that the sequence has exactly the calls of the set is
shown by counting the parts below each (`CallsOf`).

The third part of `StreamingProofs` is about the slices, under
`SlicesAssumption`: a part is a multiple of 8 bytes (`kPartSize` is 128 KB), at
least a slice's parts fit a file that lives in its header only
(`kMaxOnlyInHeader` is 80 parts, `kPartsInSlice` 64) and a header keeps at least
one part (`kMaxPartsInHeader` is 64). Files, their last parts, reads and the
cache's forgetting are arbitrary.

`PartsAreInPlace` (`PartsInPlace`) needs to know how an entry is read, because
nothing but its size tells whether it is a run of parts or a list with numbers.
The invariant `SlicesInv` says of memory and cache that every part lies at its
own offset (`Placed`, `Stored`). The size decides correctly by arithmetic:
among four consecutive sizes one is neither a multiple of a part nor the largest
of the slice, so at most three zeros keep a list from being taken for a run
(`SizesApart`, `PaddedIs`); and what follows the header's parts in a good entry,
with or without the zeros, is 4 to 7 modulo 8, never a run
(`RestIsNotContiguous`). The loop over the parts that arrived is followed by
induction on numbers (`NatSet`).

`AssertionsOfSlicesHold` (`AssertionsHold`), `LoadingPartsAreMissing`
(`LoadingIsMissing`) and `SavedPartsAreKept` (`SavedIsKept`) follow from a
second invariant, `MemoryInv`. None of the three is inductive: that a slice is
written without losing what its entry had depends on when the entry was read,
and that again on the mode the header was found to have. `MemoryInv` says what
they need of each other:

* `Memory`: the flags of the slices fit the mode; a header that is not done has
  no slice looked up beside it, one that is done holds something.
* `Agrees`, unless the cache forgets: what was looked up holds everything that
  its entry has (`TakenIn`), and before the header is done the cache has
  nothing beside it (`Bare`). The header and the first slice of a good header
  share one entry, so for the two `Kept` says which parts of the entry are whose.
* `Absent`, unless the cache forgets: what the loader is asked for is in neither
  the memory nor the cache, so no part can come twice.
* `AskedOf` and `Readable`: which entries can be on their way, and that each
  entry is read again as exactly what was written (`Serialized`).

Each operation of the reader has one lemma that says what it does to both:
`LoadedPartsSound` and `CacheResultsSound` for `processLoadedParts` and
`processCacheResults`, `FillSound` for `fill`, `GoodSerialized` and
`SliceSerialized` for the two entries `serializeAndUnloadUnused` may write; and
each step composes them. A closed reader saves its slices one after the other
(`AllSaved`), which is an induction on the number of the slice. TLC checked
`MemoryInv` on the instance of `slices` before it was proved.

`MtpSessionProofs` proves, for every finite set of requests, every size of
`_wereAcked` and every number of broken connections, rejections, lost sessions
and timers (`ConstantsAssumption`):

| Theorem | Property |
|---|---|
| `HandlerCalledOnce` | `HandledOnce` |
| `ServerExecutesOnce` | `ExecutedOnce` |
| `SessionForgetsNone` | `NoneForgotten` |
| `SessionInductiveInvariant` | `IInv`, from which the three follow |

TLC checked `IInv` on the instance of `mtp` before it was proved. It has four
parts beside the fields of the records:

* `Handling`: a handler is in `parser` only while it was neither called nor
  failed; a cancelled request has one only inside `cancel`. This alone gives
  `HandledOnce`, with no hypothesis on what the network brings.
* `Naming`: whatever is held under the id of a request (in `_haveSent`,
  `_toResend` or `_wereAcked`, between two locks of `resend` or of `cancel`,
  on its way, at the server) belongs to the request that has this id and keeps
  it; no two requests have the same id, and a container or a state request has
  none of theirs. New ids are given in ascending order, so that they differ is
  a fact about the cardinalities of initial segments (`IdGiven`, `Before`).
* `Executing`: until somebody forgets the session the server knows the id of
  everything it executed; with `Naming` a resent message has the same id, and
  is not executed again.
* `Keeping`: `NoneForgotten`, strengthened for the gap in `rpc_result`:
  between `requestsAcked` and `wasSent` the connection thread has the result,
  which may yet be discarded, so the request is in `_wereAcked` or `_toResend`
  or anywhere else it may wait (`ResultKnown`); when `wasSent` finds it in
  neither, the result is lost by name and the request still waits elsewhere.

The loop of `requestsAcked` is written with sets (`AckAll`): the ids are
different keys, each of them touches only its own entry, so the order in which
they are handled does not matter.

The same module proves `MessagesHandledOnce` (`NoneRepeated`) and
`StateToldHolds` (`StateTold`) of `ReceivedIds`, for every set of message ids
and every size of the buffer. The invariant `ReceivedInv` says why a buffer that
forgets is safe: what was registered is in the buffer or below its minimum, and
the buffer is full whenever anything lies below it, so an unknown id is
registered only above the minimum.

`QueueProofs` proves `ReadyFilesAreWhole` (`ReadyIsWhole`),
`AnswersAreOfTheCurrent` (`SentIsCurrent`) and `SizesAlwaysAgree`
(`SizesAgree`), for every set of files, every size of their parts, every list of
part sizes, every number of sessions, and all limits (`ConstantsAssumption`).
The invariant `Good` holds of the uploader's state also in the middle of
`sendNext`: what is waited for was sent, is of the current file and on its way
(`Waited`); the sums are those of the bytes waited for (`Sized`); what was sent
of a queued file is waited for or accepted (`Sent`); and of a file that is
neither queued nor reported nothing was sent (`Begun`). `Waited` carries
`Sized`: `partLoaded` takes off the part size of the file that is current now,
which is the one that was put on. `sendNext` calls itself until it sends or has
to wait, as a function on `0 .. n`; that this function exists (`SendNextIs`) and
that what one step keeps the whole keeps (`SendNextKeeps`) are inductions over
the numbers. The induction theorems of the library take an operator as a
parameter and cannot be used; `NatSet` states induction with a set instead and
is proved from the well-foundedness of the strict subsets of a finite set.
`NatMin` follows: sets of numbers have smallest elements, so there are a first
file, a first part size that fits and a session with the fewest bytes.

It also proves `NothingIsForgotten` (`NothingForgotten` of `SeqUpdates`), for all
bounds, with any of the three servers. The invariant has two parts. `Published`
is about the server: containers of later date have larger numbers. `Keeps(s, x)`
is about the client, also in the middle of a handler: what it has passed
(`Owed`: by its number, or because of a channel) is applied or coming, where
`Coming` strengthens `OnItsWay` of the run by what the property does not need
but a step does: an answer that was already computed brings it as well, and a
request never asks from a date later than `updDate` (`Asked`), so that the timer
of a channel may fire while a request is under way. Within the handler of a last
answer nothing is under way and everything passed must be applied: that is
`Keeps(s, FALSE)`, and it holds because `_requesting` is still set while
`updSetState` feeds what was stored. `FeedAll` feeds one stored container after
the other and is treated as `sendNext` is.

`CacheDatabaseProofs` proves, for every finite set of keys, every set of values
and places, every `MaxBundled`, `CompactAfterExcess` and `MaxLog`
(`LogAssumption`, `DatabaseAssumption`; that there are finitely many keys is
needed to count records):

| Theorem | Property | `Faults` |
|---|---|---|
| `RemovalsAlwaysWait` | `RemovalsWait` | any |
| `StoredSince` | `NewEntriesSpared` | any |
| `CompactedIsTheMap` | `CompactedAgrees` | any |
| `ExcessIsAlwaysGarbage` | `ExcessIsGarbage` | any |
| `CrashesLoseNothing` | `CrashSafe` | without `"unlink"` |
| `CacheIsLossyCache` | `ImplementsLossyCache` | without `"unlink"`, `"binlog"`, `"swap"` |

The hypotheses on `Faults` cannot be dropped: with one of the excluded faults
alone TLC finds a behaviour that violates the property. A file that could not be
deleted is found again when the process dies before the bundle is written; a put
whose record could not be written leaves the value before it in place, and so
does every put after a swap that failed, because the binlog stays closed.

The proof is in layers, each an invariant that rests on the one before.

* `RInv` (both lists of removals). One lemma for each function a task is built
  from (`RemoveKeeps`, `RescueKeeps`, `StoreKeeps`, ...) says that it keeps
  `Good`, whatever the file system did; the lemmas on tasks and crashes only
  compose them. A put keeps `Good` because it takes its key off both lists first,
  a removal because it writes the bundle exactly when it becomes full.
* What a log says of a key (`EntryOf`) needs no induction: it is what the last
  record that names the key says, so what two logs joined say follows from what
  each says (`EntryOfJoined`), and the number of records adds up (`WeightJoined`).
* `LInv` (the log). `Sound`: while the binlog is open it says what the map says
  of every key whose removal does not wait, no two keys share a place, and the
  excess, which is not negative, with the number of entries is at most the number
  of records. A removal
  or a store keeps this and appends to the binlog (`Evolves`). `InStep`: what the
  compactor has written and has still to copy says of every key what the binlog
  says or nothing, and nothing only of keys it has still to write; a record
  appended meanwhile is copied later and outweighs what was written
  (`FollowsOn`). `ExcessReplayed` says that reading a log counts no first store
  as garbage.
* `GInv` adds `Gone`: what the binlog still says of a key whose removal waits is
  about a file that is deleted. This is why bundling removals is harmless.
* `FInv` adds that an open database has its binlog open, and each task is shown
  to be a `Put`, `Remove`, `Move`, `Lose` or `RemoveAll` of `LossyCache` or to
  change nothing that is found (`PutFound`, `RemovedFound`, `MoveFound`,
  `ClosedFound`, `CrashesMap`). That crashes and `close` find what was found
  (`CrashFinds`, `CloseFinds`, `CrashInPutFinds`, `CrashInMoveFinds`,
  `CrashInSwapFinds`) follows from `GInv` alone and gives `CrashesLoseNothing`.

Only model-checked: the liveness properties (`HeardIsConfirmed`,
`ShownIsPolled`, `StoredIsReached`, `Answered`, `CalledInTheEnd`, `ReadsEnd`,
`UploadsEnd`, `RemovalsWritten`, `CompactionEnds`), which TLAPS does not reach.
Every other property of the passing runs, the invariants and the action
properties, is a theorem.

## 5. Not modelled, and the plan

1. Proofs: refinements of the other components to abstract ones, as
   `LossyCache` is for the cache.
2. The rest of the cache: use times, the clock and the choice of what to prune;
   the version directories and the cleaner that deletes old ones while `clear`
   and `open` create new ones; the bytes of the binlog after a torn write.
3. The download queues (`storage/file_download.cpp`), local storage's pairs of
   files, sparse id lists (a pure algorithm against a reference), calls, the
   Bettergram fetch loops.
4. Out of reach or of little control of their own: the user interface (most of
   the program's lines), generated schemes, codecs, cryptography and transports.
