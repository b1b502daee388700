-------------------------- MODULE StreamingProofs --------------------------
(***************************************************************************)
(* Proofs about a streamed file, for files and slices of every size and    *)
(* every number of requests, errors, dropped slices and readers.           *)
(*                                                                         *)
(* The waiting (StreamingReader): the thread says that it waits before it  *)
(* looks once more, and whoever brings something looks whether it waits    *)
(* after bringing it; so one of them sees the other.  WInv says this for   *)
(* every point at which the threads can be: a flag that was set is reset   *)
(* only by a release.  LInv is about the loader: the last of the calls     *)
(* posted for a part that is loading asks for it, or none cancels it and   *)
(* the loader has it.                                                      *)
(*                                                                         *)
(* The slices (StreamingSlices): SlicesInv says that every part of the     *)
(* memory and of the cache lies where it belongs, and that the size of an  *)
(* entry tells how it has to be read.                                      *)
(* MemoryInv says what the memory and the cache have of each other: the    *)
(* flags of a slice fit the mode of the reader (Memory); a slice that was  *)
(* looked up holds everything its entry holds, unless the cache evicts     *)
(* (Agrees); and what the loader is asked for is in neither (Absent).      *)
(***************************************************************************)
EXTENDS StreamingReader, StreamingSlices, FiniteSetTheorems, SequenceTheorems,
        WellFoundedInduction, TLAPS

-----------------------------------------------------------------------------
(* Induction: a set of numbers with 0 that holds the successor of each of    *)
(* its elements has all of them.                                           *)


LEMMA NatSet ==
    ASSUME NEW S, 0 \in S, \A n \in Nat : n \in S => n + 1 \in S
    PROVE  Nat \subseteq S
<1> SUFFICES ASSUME NEW k \in Nat, k \notin S PROVE FALSE  OBVIOUS
<1> DEFINE T == {i \in 0 .. k : i \notin S}
           F == {0 .. i : i \in T}
           R == StrictSubsetOrdering(0 .. k)
<1>1. IsFiniteSet(0 .. k)  BY FS_Interval
<1>2. IsWellFoundedOn(R, SUBSET (0 .. k))
  BY <1>1, FS_StrictSubsetOrderingWellFounded, FS_FiniteSubsetsOfFinite
<1>3. F \subseteq SUBSET (0 .. k) /\ F # {}  OBVIOUS
<1> HIDE DEF R
<1>4. PICK x \in F : \A y \in F : ~ (<<y, x>> \in R)
  <2> HIDE DEF F, T
  <2> QED  BY <1>2, <1>3, WFMin, Zenon
<1>5. PICK i \in T : x = 0 .. i  BY <1>4
<1>6. i # 0 /\ i - 1 \in Nat /\ i - 1 \in 0 .. k  BY <1>5
<1>7. i - 1 \notin S
  <2> SUFFICES ASSUME i - 1 \in S PROVE FALSE  OBVIOUS
  <2>1. (i - 1) + 1 \in S  BY <1>6
  <2>2. (i - 1) + 1 = i  BY <1>5
  <2> QED  BY <2>1, <2>2, <1>5
<1>8. 0 .. (i - 1) \in F  BY <1>6, <1>7
<1>9. /\ 0 .. (i - 1) \subseteq 0 .. i /\ i \in 0 .. i /\ i \notin 0 .. (i - 1)
      /\ 0 .. (i - 1) # 0 .. i
  BY <1>5
<1>10. <<0 .. (i - 1), 0 .. i>> \in R
  BY <1>9, <1>8, <1>3, <1>5, <1>4 DEF R, StrictSubsetOrdering
<1> QED  BY <1>10, <1>8, <1>5, <1>4

\* A set of numbers that is not empty has a smallest element.
LEMMA NatMin ==
    ASSUME NEW S, S \subseteq Nat, S # {}
    PROVE  Min(S) \in S /\ \A y \in S : Min(S) <= y
<1>1. \E m \in S : \A y \in S : m <= y
  <2> SUFFICES ASSUME \A m \in S : \E y \in S : ~(m <= y) PROVE FALSE  OBVIOUS
  <2> DEFINE Below == {n \in Nat : \A m \in S : m > n}
  <2>1. 0 \in Below  OBVIOUS
  <2>2. ASSUME NEW n \in Nat, n \in Below PROVE n + 1 \in Below
    <3> SUFFICES ASSUME NEW m \in S, ~(m > n + 1) PROVE FALSE  OBVIOUS
    <3>1. m = n + 1  BY <2>2
    <3>2. PICK y \in S : ~(m <= y)  OBVIOUS
    <3> QED  BY <3>1, <3>2, <2>2
  <2> HIDE DEF Below
  <2>3. Nat \subseteq Below  BY <2>1, <2>2, NatSet
  <2>4. PICK m \in S : TRUE  OBVIOUS
  <2> QED  BY <2>3, <2>4 DEF Below
<1> QED  BY <1>1 DEF Min

-----------------------------------------------------------------------------
(* The waiting of the streaming thread. *)

\* Nothing was released that the thread has not acquired yet.
Dry == sem = 0

\* Whoever interrupts, releases.
Stopped == interrupted /\ pc # "done" => ~Dry

\* The flags stand once they were set, until somebody releases.
FlagsStand ==
    Dry => /\ pc \in {"wait2", "again", "again2", "acquire"} => cacheWaiting
           /\ pc \in {"again", "again2", "acquire"} => waiting

\* What was brought after the thread looked wakes it.
Brought ==
    Dry => /\ pc \in {"again2", "acquire"} /\ ~mem.failed /\ results # {} =>
                  cachePc = "wakes"
           /\ pc = "acquire" => /\ ~mem.failed
                                /\ loadedParts # <<>> => mainPc # "idle"

WInv ==
    /\ sem \in Nat /\ "failed" \in DOMAIN mem
    /\ Stopped /\ FlagsStand /\ Brought

-----------------------------------------------------------------------------
LEMMA OnceReleased ==
    ASSUME sem \in Nat, Release
    PROVE  sem' \in Nat /\ ~Dry'
<1> DEFINE S == {sem + 1, MaxSem}
<1>1. MaxSem \in Nat /\ MaxSem >= 2
  BY ConstantsAssumption DEF ConstantsAssumption
<1>2. \E m \in S : \A y \in S : m <= y
  <2>1. CASE sem + 1 <= MaxSem  BY <1>1, <2>1
  <2>2. CASE ~(sem + 1 <= MaxSem)  BY <1>1, <2>2
  <2> QED  BY <2>1, <2>2
<1>3. Min(S) \in S  BY <1>2 DEF Min
<1>4. sem' = sem + 1 \/ sem' = MaxSem  BY <1>3 DEF Release
<1> QED  BY <1>1, <1>4 DEF Dry

\* A step with a release keeps the invariant whatever else it does.
LEMMA ReleaseKeeps ==
    ASSUME sem \in Nat, Release, "failed" \in DOMAIN mem'
    PROVE  WInv'
<1>1. sem' \in Nat /\ ~Dry'  BY OnceReleased
<1> QED  BY <1>1 DEF WInv, Stopped, FlagsStand, Brought

\* So does a step of the thread that leaves it awake.
LEMMA AwakeKeeps ==
    ASSUME WInv, pc # "done", "failed" \in DOMAIN mem', UNCHANGED <<sem, interrupted>>,
           pc' \notin {"wait2", "again", "again2", "acquire"}
    PROVE  WInv'
BY DEF WInv, Stopped, FlagsStand, Brought, Dry

\* What a step of the main thread does to what the invariant speaks of.
LEMMA FireKeeps ==
    ASSUME WInv, UNCHANGED <<pc, sem, waiting, cacheWaiting, results, cachePc, mem,
                             interrupted>>,
           mainPc' # "idle" \/ (UNCHANGED <<mainPc, loadedParts>>)
    PROVE  WInv'
BY DEF WInv, Stopped, FlagsStand, Brought, Dry

-----------------------------------------------------------------------------
LEMMA WInit == Init => WInv
BY DEF Init, WInv, Stopped, FlagsStand, Brought, Dry

LEMMA MainKeeps ==
    ASSUME WInv, MainThread \/ \E p \in Parts : Server(p) \/ Refreshed(p)
    PROVE  WInv'
<1>1. CASE RunCall  BY <1>1, FireKeeps DEF RunCall, thread
<1>2. CASE PartFired
  <2>1. CASE waiting
    <3>1. mainPc' # "idle"  BY <1>2, <2>1 DEF PartFired
    <3> QED  BY <1>2, <3>1, FireKeeps DEF PartFired, thread
  <2>2. CASE ~waiting
    <3>1. pc = "acquire" => ~Dry  BY <2>2 DEF WInv, FlagsStand
    <3>2. UNCHANGED <<pc, sem, waiting, cacheWaiting, results, cachePc, mem,
                      interrupted, loadedParts>>
      BY <1>2 DEF PartFired, thread
    <3> QED  BY <3>1, <3>2 DEF WInv, Stopped, FlagsStand, Brought, Dry
  <2> QED  BY <2>1, <2>2
<1>3. CASE PartWakes
  <2>1. sem \in Nat /\ Release /\ "failed" \in DOMAIN mem'
    BY <1>3 DEF PartWakes, WInv
  <2> QED  BY <2>1, ReleaseKeeps
<1>4. ASSUME NEW p \in Parts, Server(p) \/ Refreshed(p)  PROVE WInv'
  <2>1. UNCHANGED <<pc, sem, waiting, cacheWaiting, results, cachePc, mem, interrupted>>
    BY <1>4 DEF Server, Refreshed, requestDone, requestFailed, referenceExpired,
                referenceUpdated, referenceNotUpdated, Environment, thread
  <2>2. mainPc' # "idle" \/ UNCHANGED <<mainPc, loadedParts>>
    BY <1>4 DEF Server, Refreshed, requestDone, requestFailed, referenceExpired,
                referenceUpdated, referenceNotUpdated, fire
  <2> QED  BY <2>1, <2>2, FireKeeps
<1> QED  BY <1>1, <1>2, <1>3, <1>4 DEF MainThread

LEMMA CacheKeeps ==
    ASSUME WInv, Cache
    PROVE  WInv'
<1>1. CASE CacheWakes
  <2>1. sem \in Nat /\ Release /\ "failed" \in DOMAIN mem'
    BY <1>1 DEF CacheWakes, WInv
  <2> QED  BY <2>1, ReleaseKeeps
<1>2. ASSUME NEW n \in Slices, NEW found \in SUBSET Parts, CacheResult(n, found)
      PROVE  WInv'
  <2>1. /\ mem' = [mem EXCEPT !.getting = @ \ {n}]
        /\ cacheWaiting => cachePc' = "wakes"
        /\ UNCHANGED <<pc, sem, waiting, cacheWaiting, loadedParts, mainPc, interrupted>>
    BY <1>2 DEF CacheResult, thread
  <2>2. "failed" \in DOMAIN mem' /\ mem'.failed = mem.failed
    BY <2>1 DEF WInv
  <2> QED  BY <2>1, <2>2 DEF WInv, Stopped, FlagsStand, Brought, Dry
<1> QED  BY <1>1, <1>2 DEF Cache

\* The thread takes what the cache brought.
LEMMA ResultsKeep ==
    ASSUME WInv, NEW then, TakeResults(then),
           then \notin {"wait2", "again", "acquire"}, pc \notin {"done"},
           then = "again2" => pc = "again" /\ (results = {} \/ mem.failed)
    PROVE  WInv'
<1>1. /\ pc' = then
      /\ UNCHANGED <<sem, waiting, cacheWaiting, interrupted, mainPc, loadedParts>>
  BY DEF TakeResults, Others
<1>2. /\ "failed" \in DOMAIN mem' /\ mem'.failed = mem.failed
      /\ results = {} => results' = {}
  BY DEF TakeResults, WInv
<1>3. CASE then = "again2"
  BY <1>1, <1>2, <1>3 DEF WInv, Stopped, FlagsStand, Brought, Dry
<1>4. CASE then # "again2"
  BY <1>1, <1>2, <1>4, AwakeKeeps
<1> QED  BY <1>3, <1>4

\* The thread takes the parts that were loaded; it goes to sleep only when
\* there was none and the loader had not failed.
LEMMA PartsKeep ==
    ASSUME WInv, NEW then, TakeParts(then),
           then \notin {"wait2", "again", "again2"}, pc \notin {"done"},
           then = "acquire" => pc = "again2" /\ ~mem.failed /\ ~Taken.failed
    PROVE  WInv'
<1>1. /\ pc' = then
      /\ mem' = IF mem.failed THEN mem ELSE Taken
      /\ loadedParts' = IF mem.failed THEN loadedParts ELSE <<>>
      /\ UNCHANGED <<sem, waiting, cacheWaiting, interrupted, mainPc, results, cachePc>>
  BY DEF TakeParts, Others
<1>2. "failed" \in DOMAIN mem'
  <2>1. "failed" \in DOMAIN mem  BY DEF WInv
  <2>2. "failed" \in DOMAIN Taken  BY <2>1 DEF Taken
  <2> QED  BY <1>1, <2>1, <2>2
<1>3. CASE then = "acquire"
  BY <1>1, <1>2, <1>3 DEF WInv, Stopped, FlagsStand, Brought, Dry
<1>4. CASE then # "acquire"
  BY <1>1, <1>2, <1>4, AwakeKeeps
<1> QED  BY <1>3, <1>4

LEMMA ThreadKeeps ==
    ASSUME WInv, Thread
    PROVE  WInv'
<1>1. "failed" \in DOMAIN mem /\ sem \in Nat  BY DEF WInv
<1>2. CASE FillResults
  <2>1. pc = "cache" /\ TakeResults("parts")  BY <1>2 DEF FillResults
  <2> QED  BY <2>1, ResultsKeep
<1>3. CASE FillParts
  <2> DEFINE then == IF mem.failed \/ Taken.failed THEN "failed" ELSE "try"
  <2>1. pc = "parts" /\ TakeParts(then)  BY <1>3 DEF FillParts
  <2>2. then \in {"failed", "try"}  OBVIOUS
  <2> HIDE DEF then
  <2> QED  BY <2>1, <2>2, PartsKeep
<1>4. CASE FillFailed
  <2>1. Release /\ mem' = mem  BY <1>4 DEF FillFailed
  <2> QED  BY <1>1, <2>1, ReleaseKeeps
<1>5. CASE Filled
  <2>1. pc = "try" /\ pc' = "idle" /\ UNCHANGED <<sem, interrupted>>
    BY <1>5 DEF Filled, Others
  <2>2. "failed" \in DOMAIN mem'  BY <1>1, <1>5 DEF Filled
  <2> QED  BY <2>1, <2>2, AwakeKeeps
<1>6. CASE AskCache \/ AskLoader
  <2>1. pc = "try" /\ pc' = "wait" /\ UNCHANGED <<sem, interrupted>>
    BY <1>6 DEF AskCache, AskLoader, Others
  <2>2. "failed" \in DOMAIN mem'  BY <1>1, <1>6 DEF AskCache, AskLoader
  <2> QED  BY <2>1, <2>2, AwakeKeeps
<1>7. CASE StartWaitingCache
  BY <1>7 DEF StartWaitingCache, Others, WInv, Stopped, FlagsStand, Brought, Dry
<1>8. CASE StartWaitingParts
  BY <1>8 DEF StartWaitingParts, Others, WInv, Stopped, FlagsStand, Brought, Dry
<1>9. CASE AgainResults
  <2> DEFINE then == IF results # {} /\ ~mem.failed THEN "try" ELSE "again2"
  <2>1. pc = "again" /\ TakeResults(then)  BY <1>9 DEF AgainResults
  <2>2. /\ then \in {"try", "again2"}
        /\ then = "again2" => results = {} \/ mem.failed
    OBVIOUS
  <2> HIDE DEF then
  <2> QED  BY <2>1, <2>2, ResultsKeep
<1>10. CASE AgainParts
  <2> DEFINE then == IF mem.failed \/ Taken.failed THEN "failed"
                     ELSE IF loadedParts # <<>> THEN "try" ELSE "acquire"
  <2>1. pc = "again2" /\ TakeParts(then)  BY <1>10 DEF AgainParts
  <2>2. /\ then \in {"failed", "try", "acquire"}
        /\ then = "acquire" => ~mem.failed /\ ~Taken.failed
    OBVIOUS
  <2> HIDE DEF then
  <2> QED  BY <2>1, <2>2, PartsKeep
<1>11. CASE Acquire
  <2>1. /\ pc = "acquire" /\ sem > 0 /\ sem' = sem - 1 /\ mem' = mem
        /\ pc' = IF interrupted \/ mem.failed THEN "done" ELSE "cache"
        /\ interrupted' = interrupted
    BY <1>11 DEF Acquire, Others
  <2>2. sem' \in Nat  BY <1>1, <2>1
  <2> QED  BY <1>1, <2>1, <2>2 DEF WInv, Stopped, FlagsStand, Brought
<1> QED
  BY <1>2, <1>3, <1>4, <1>5, <1>6, <1>7, <1>8, <1>9, <1>10, <1>11 DEF Thread

LEMMA NextKeeps == WInv /\ [Next]_vars => WInv'
<1> SUFFICES ASSUME WInv, [Next]_vars  PROVE WInv'  OBVIOUS
<1>1. ASSUME NEW p \in Parts, Read(p)  PROVE WInv'
  <2>1. /\ pc = "idle" /\ pc' = "cache" /\ mem' = mem
        /\ UNCHANGED <<sem, interrupted>>
    BY <1>1 DEF Read, Others
  <2>2. "failed" \in DOMAIN mem'  BY <2>1 DEF WInv
  <2> QED  BY <2>1, <2>2, AwakeKeeps
<1>2. ASSUME NEW p \in Parts, Server(p) \/ Refreshed(p)  PROVE WInv'
  BY <1>2, MainKeeps
<1>3. CASE Thread  BY <1>3, ThreadKeeps
<1>4. CASE MainThread  BY <1>4, MainKeeps
<1>5. CASE Cache  BY <1>5, CacheKeeps
<1>6. CASE Stop
  <2>1. sem \in Nat /\ Release /\ "failed" \in DOMAIN mem'
    BY <1>6 DEF Stop, WInv
  <2> QED  BY <2>1, ReleaseKeeps
<1>7. CASE UNCHANGED vars
  <2>1. UNCHANGED <<pc, sem, waiting, cacheWaiting, results, cachePc, mem,
                    interrupted, mainPc, loadedParts>>
    BY <1>7 DEF vars
  <2> QED  BY <2>1, FireKeeps
<1> QED  BY <1>1, <1>2, <1>3, <1>4, <1>5, <1>6, <1>7 DEF Next

\* The streaming thread never sleeps past a part, a result of the cache, a
\* failure or an interruption: between its last look and the semaphore nobody
\* is missed.
THEOREM ReaderSleepsPastNothing == Spec => []NothingSleptPast
<1>1. Init => WInv  BY WInit
<1>2. WInv /\ [Next]_vars => WInv'  BY NextKeeps
<1>3. WInv => NothingSleptPast
  BY DEF WInv, Stopped, FlagsStand, Brought, Dry, NothingSleptPast
<1> QED  BY <1>1, <1>2, <1>3, PTL DEF Spec

-----------------------------------------------------------------------------
(* A part the reader counts as loading is on its way.  The calls that were   *)
(* posted and what the loader has of a part say it together: a call to load  *)
(* it that no call to cancel it follows, or no call to cancel it at all and  *)
(* a loader that has queued it or counts it as requested.                    *)

Posted == [op : {"load", "cancel", "raise"}, part : Parts]
LoadOf(p) == [op |-> "load", part |-> p]
CancelOf(p) == [op |-> "cancel", part |-> p]

Uncancelled(c, p) == \A j \in 1 .. Len(c) : c[j] # CancelOf(p)
CalledIn(c, p) ==
    \E i \in 1 .. Len(c) : /\ c[i] = LoadOf(p)
                           /\ \A j \in 1 .. Len(c) : j > i => c[j] # CancelOf(p)

\* The part is called for in c, or among those in H.
HeldBy(c, H, p) == CalledIn(c, p) \/ (Uncancelled(c, p) /\ p \in H)

\* What the loader has of the parts, and that what it counts as requested was
\* sent and not answered, or waits for a file reference.
HasOf(l) == l.requested.values \cup l.requests
SentOf(l) == \A p \in l.requests : p \in l.refresh \/ l.flight[p] > 0

QueueShape(q) ==
    /\ q = [values |-> q.values, current |-> q.current, before |-> q.before]
    /\ q.values \subseteq Parts /\ q.current \subseteq q.values

LoaderOf(a, b, c, f, r) ==
    [requested |-> a, requests |-> b, dead |-> c, flight |-> f, refresh |-> r]

LoaderShape(l) ==
    /\ l = LoaderOf(l.requested, l.requests, l.dead, l.flight, l.refresh)
    /\ QueueShape(l.requested) /\ l.requests \subseteq Parts
    /\ l.flight \in [Parts -> Nat]

Gone == mem.failed \/ Failed \in ToSet(loadedParts)

MemOf(h, k, g, q, x) ==
    [have |-> h, looked |-> k, getting |-> g, loading |-> q, failed |-> x]
MemShape(a) == a = MemOf(a.have, a.looked, a.getting, a.loading, a.failed)

LoadShape ==
    /\ MemShape(mem)
    /\ mem.loading.values \subseteq Parts
    /\ pc # "idle" => cur \in Parts
    /\ calls \in Seq(Posted)
    /\ loadedParts \in Seq(Parts \cup {Failed})
    /\ LoaderShape(loader)

AllHeld == \A p \in mem.loading.values :
              HeldBy(calls, HasOf(loader) \cup ToSet(loadedParts), p)

LInv == LoadShape /\ (Gone \/ (SentOf(loader) /\ AllHeld))

-----------------------------------------------------------------------------
LEMMA PartsFinite == IsFiniteSet(Parts) /\ Parts \subseteq Nat
<1>1. LastPart \in Nat  BY ConstantsAssumption DEF ConstantsAssumption
<1>2. IsFiniteSet(0 .. LastPart)  BY <1>1, FS_Interval
<1> QED  BY <1>1, <1>2 DEF Parts

\* Calls posts one call for every part, and no other: the number of smaller
\* parts tells them apart and takes every value from 0.
LEMMA CallsOf ==
    ASSUME NEW op, NEW S \in SUBSET Parts
    PROVE  /\ Calls(op, S) \in Seq([op : {op}, part : S])
           /\ \A p \in S : \E i \in 1 .. Len(Calls(op, S)) :
                 Calls(op, S)[i] = [op |-> op, part |-> p]
<1>1. IsFiniteSet(S) /\ S \subseteq Nat  BY PartsFinite, FS_Subset
<1> DEFINE Below(p) == {r \in S : r < p}
           n == Cardinality(S)
           f == [p \in S |-> Cardinality(Below(p))]
<1>2. n \in Nat  BY <1>1, FS_CardinalityType
<1>3. ASSUME NEW p \in S  PROVE f[p] \in 0 .. n - 1
  <2>1. Below(p) \in SUBSET S /\ p \notin Below(p)  BY <1>1
  <2>2. /\ IsFiniteSet(Below(p)) /\ Cardinality(Below(p)) <= n
        /\ n = Cardinality(Below(p)) => S = Below(p)
    BY <1>1, <2>1, FS_Subset
  <2>3. Cardinality(Below(p)) \in Nat  BY <2>2, FS_CardinalityType
  <2>4. Cardinality(Below(p)) # n  BY <2>1, <2>2
  <2>5. f[p] = Cardinality(Below(p))  OBVIOUS
  <2> HIDE DEF Below, f, n
  <2> QED  BY <1>2, <2>2, <2>3, <2>4, <2>5
<1>4. ASSUME NEW p \in S, NEW q \in S, p < q  PROVE f[p] # f[q]
  <2>0. p \in Nat /\ q \in Nat /\ \A r \in S : r < p => r < q
    <3>1. p \in Nat /\ q \in Nat  BY <1>1
    <3>2. ASSUME NEW r \in S, r < p  PROVE r < q
      <4>1. r \in Nat  BY <1>1
      <4> QED  BY <3>1, <3>2, <4>1, <1>4
    <3> QED  BY <3>1, <3>2
  <2>1. Below(p) \in SUBSET Below(q) /\ p \in Below(q) /\ p \notin Below(p)
    <3>1. Below(p) \subseteq Below(q)  BY <2>0
    <3>2. p \in Below(q)  BY <1>4
    <3>3. ~(p < p)  BY <2>0
    <3> QED  BY <3>1, <3>2, <3>3
  <2>2. Below(q) \in SUBSET S  OBVIOUS
  <2>3. IsFiniteSet(Below(q))  BY <1>1, <2>2, FS_Subset
  <2>4. Cardinality(Below(q)) = Cardinality(Below(p)) => Below(q) = Below(p)
    BY <2>1, <2>3, FS_Subset
  <2>5. f[p] = Cardinality(Below(p)) /\ f[q] = Cardinality(Below(q))  OBVIOUS
  <2> HIDE DEF Below, f, n
  <2> QED  BY <2>1, <2>4, <2>5
<1>5. \A p, q \in S : f[p] = f[q] => p = q
  <2> SUFFICES ASSUME NEW p \in S, NEW q \in S, f[p] = f[q], p # q  PROVE FALSE
    OBVIOUS
  <2>1. p < q \/ q < p  BY <1>1
  <2> HIDE DEF f
  <2> QED  BY <2>1, <1>4
<1>6. f \in Injection(S, 0 .. n - 1)
  <2>1. f \in [S -> 0 .. n - 1]
    <3>1. f = [p \in S |-> f[p]]  OBVIOUS
    <3> HIDE DEF f
    <3> QED  BY <1>3, <3>1
  <2> HIDE DEF f
  <2> QED  BY <1>5, <2>1 DEF Injection, IsInjective
<1>7. IsFiniteSet(0 .. n - 1) /\ Cardinality(0 .. n - 1) = n
  <2> HIDE DEF n
  <2>1. IsFiniteSet(0 .. n - 1)
        /\ Cardinality(0 .. n - 1) = IF 0 > n - 1 THEN 0 ELSE n - 1 - 0 + 1
    BY <1>2, FS_Interval
  <2> QED  BY <1>2, <2>1
<1>8. f \in Surjection(S, 0 .. n - 1)
  <2> HIDE DEF f
  <2> QED  BY <1>6, <1>7, FS_Injection
<1>9. ASSUME NEW i \in 1 .. n  PROVE \E p \in S : Cardinality(Below(p)) = i - 1
  <2>1. i - 1 \in 0 .. n - 1  BY <1>2
  <2> HIDE DEF f
  <2>2. PICK p \in S : f[p] = i - 1  BY <1>8, <2>1 DEF Surjection
  <2> QED  BY <2>2 DEF f
<1> DEFINE c == Calls(op, S)
           at(i) == CHOOSE p \in S : Cardinality(Below(p)) = i - 1
<1>10. c = [i \in 1 .. n |-> [op |-> op, part |-> at(i)]]  BY DEF Calls
<1>11. ASSUME NEW i \in 1 .. n
       PROVE  at(i) \in S /\ Cardinality(Below(at(i))) = i - 1
  <2> HIDE DEF Below
  <2> QED  BY <1>9
<1>12. c \in [1 .. n -> [op : {op}, part : S]]
  <2> HIDE DEF at, n, c
  <2> QED  BY <1>10, <1>11
<1>13. c \in Seq([op : {op}, part : S]) /\ Len(c) = n
  <2> DEFINE X == [op : {op}, part : S]
  <2>1. c \in [1 .. n -> X]  BY <1>12
  <2> HIDE DEF n, c, X
  <2>2. c \in Seq(X)  BY <1>2, <2>1, SeqDef
  <2>3. Len(c) = n  BY <1>2, <2>1, <2>2, LenProperties
  <2> QED  BY <2>2, <2>3 DEF X
<1>14. ASSUME NEW p \in S  PROVE \E i \in 1 .. n : c[i] = [op |-> op, part |-> p]
  <2>1. f[p] + 1 \in 1 .. n
    <3> HIDE DEF f, n
    <3> QED  BY <1>2, <1>3
  <2>2. at(f[p] + 1) \in S /\ f[at(f[p] + 1)] = f[p]
    <3>1. f[p] \in 0 .. n - 1  BY <1>3
    <3>2. at(f[p] + 1) \in S /\ Cardinality(Below(at(f[p] + 1))) = (f[p] + 1) - 1
      <4> HIDE DEF f, n, Below, at
      <4> QED  BY <1>11, <2>1
    <3>3. f[at(f[p] + 1)] = Cardinality(Below(at(f[p] + 1)))
      <4> HIDE DEF at, Below
      <4> QED  BY <3>2
    <3> HIDE DEF f, n, at, Below
    <3> QED  BY <1>2, <3>1, <3>2, <3>3
  <2>3. at(f[p] + 1) = p
    <3> HIDE DEF f, at
    <3> QED  BY <1>5, <2>2
  <2> HIDE DEF at, f, n, c
  <2> QED  BY <1>10, <2>1, <2>3
<1> HIDE DEF c, n
<1> QED  BY <1>13, <1>14 DEF c, n

-----------------------------------------------------------------------------
(* What calls posted and calls run do to a part that is held.                *)

LEMMA HeldMore ==
    ASSUME NEW c, NEW H, NEW G, NEW p, HeldBy(c, H, p), p \in H => p \in G
    PROVE  HeldBy(c, G, p)
BY DEF HeldBy

LEMMA HeldAppended ==
    ASSUME NEW c \in Seq(Posted), NEW d \in Seq(Posted), NEW H, NEW p,
           HeldBy(c, H, p), Uncancelled(d, p)
    PROVE  HeldBy(c \o d, H, p)
<1>1. Len(c) \in Nat /\ Len(d) \in Nat /\ Len(c \o d) = Len(c) + Len(d)  OBVIOUS
<1>2. \A j \in 1 .. Len(c) : (c \o d)[j] = c[j]  OBVIOUS
<1>3. \A j \in 1 .. Len(c) + Len(d) : j > Len(c) =>
         j - Len(c) \in 1 .. Len(d) /\ (c \o d)[j] = d[j - Len(c)]
  BY <1>1
<1>4. \A j \in 1 .. Len(c) + Len(d) : j > Len(c) => (c \o d)[j] # CancelOf(p)
  BY <1>3 DEF Uncancelled
<1>5. \A j \in 1 .. Len(c) + Len(d) : j > Len(c) \/ j \in 1 .. Len(c)  BY <1>1
<1>6. CASE CalledIn(c, p)
  <2>1. PICK k \in 1 .. Len(c) : /\ c[k] = LoadOf(p)
                                 /\ \A j \in 1 .. Len(c) : j > k => c[j] # CancelOf(p)
    BY <1>6 DEF CalledIn
  <2>2. k \in 1 .. Len(c) + Len(d) /\ (c \o d)[k] = LoadOf(p)  BY <1>1, <1>2, <2>1
  <2>3. \A j \in 1 .. Len(c) + Len(d) : j > k => (c \o d)[j] # CancelOf(p)
    BY <1>2, <1>4, <1>5, <2>1
  <2>4. CalledIn(c \o d, p)  BY <1>1, <2>2, <2>3 DEF CalledIn
  <2> QED  BY <2>4 DEF HeldBy
<1>7. CASE Uncancelled(c, p) /\ p \in H
  <2>1. Uncancelled(c \o d, p)  BY <1>1, <1>2, <1>4, <1>5, <1>7 DEF Uncancelled
  <2> QED  BY <1>7, <2>1 DEF HeldBy
<1> QED  BY <1>6, <1>7 DEF HeldBy

LEMMA HeldCalled ==
    ASSUME NEW c \in Seq(Posted), NEW d \in Seq(Posted), NEW H, NEW p,
           Uncancelled(d, p), NEW k \in 1 .. Len(d), d[k] = LoadOf(p)
    PROVE  HeldBy(c \o d, H, p)
<1>1. Len(c) \in Nat /\ Len(d) \in Nat /\ Len(c \o d) = Len(c) + Len(d)  OBVIOUS
<1>2. \A j \in 1 .. Len(c) + Len(d) : j > Len(c) =>
         j - Len(c) \in 1 .. Len(d) /\ (c \o d)[j] = d[j - Len(c)]
  BY <1>1
<1> DEFINE m == Len(c) + k
<1>3. m \in 1 .. Len(c) + Len(d) /\ m > Len(c) /\ m - Len(c) = k  BY <1>1
<1>4. (c \o d)[m] = LoadOf(p)
  <2> HIDE DEF m
  <2> QED  BY <1>2, <1>3
<1>5. \A j \in 1 .. Len(c) + Len(d) : j > m => (c \o d)[j] # CancelOf(p)
  <2> SUFFICES ASSUME NEW j \in 1 .. Len(c) + Len(d), j > m
               PROVE  (c \o d)[j] # CancelOf(p)
    OBVIOUS
  <2>1. j > Len(c)  BY <1>1
  <2> QED  BY <1>2, <2>1 DEF Uncancelled
<1>6. CalledIn(c \o d, p)
  <2> HIDE DEF m
  <2> QED  BY <1>1, <1>3, <1>4, <1>5 DEF CalledIn
<1> QED  BY <1>6 DEF HeldBy

\* The first call is run: a call to load brings its part, and a call to cancel
\* may take away its own only.
LEMMA HeldRun ==
    ASSUME NEW c \in Seq(Posted), c # <<>>, NEW H, NEW G, NEW p, HeldBy(c, H, p),
           Head(c) = LoadOf(p) => p \in G,
           p \in H /\ Head(c) # CancelOf(p) => p \in G
    PROVE  HeldBy(Tail(c), G, p)
<1>1. /\ Len(c) \in Nat /\ Len(c) >= 1 /\ Len(Tail(c)) = Len(c) - 1
      /\ Head(c) = c[1]
  OBVIOUS
<1>2. \A j \in 1 .. Len(c) - 1 : Tail(c)[j] = c[j + 1]  OBVIOUS
<1>3. CASE CalledIn(c, p)
  <2>1. PICK k \in 1 .. Len(c) : /\ c[k] = LoadOf(p)
                                 /\ \A j \in 1 .. Len(c) : j > k => c[j] # CancelOf(p)
    BY <1>3 DEF CalledIn
  <2>2. \A j \in 1 .. Len(c) - 1 : j + 1 > k => Tail(c)[j] # CancelOf(p)
    BY <1>1, <1>2, <2>1
  <2>3. CASE k = 1
    <3>1. Uncancelled(Tail(c), p)  BY <1>1, <2>2, <2>3 DEF Uncancelled
    <3> QED  BY <1>1, <2>1, <2>3, <3>1 DEF HeldBy
  <2>4. CASE k # 1
    <3> DEFINE m == k - 1
    <3>1. m \in 1 .. Len(c) - 1 /\ m + 1 = k  BY <1>1, <2>1, <2>4
    <3>2. Tail(c)[m] = LoadOf(p)
      <4> HIDE DEF m
      <4> QED  BY <1>2, <2>1, <3>1
    <3>3. \A j \in 1 .. Len(c) - 1 : j > m => Tail(c)[j] # CancelOf(p)
      BY <1>1, <2>1, <2>2, <2>4
    <3>4. CalledIn(Tail(c), p)
      <4> HIDE DEF m
      <4> QED  BY <1>1, <3>1, <3>2, <3>3 DEF CalledIn
    <3> QED  BY <3>4 DEF HeldBy
  <2> QED  BY <2>3, <2>4
<1>4. CASE Uncancelled(c, p) /\ p \in H
  <2>1. Head(c) # CancelOf(p)  BY <1>1, <1>4 DEF Uncancelled
  <2>2. Uncancelled(Tail(c), p)  BY <1>1, <1>2, <1>4 DEF Uncancelled
  <2> QED  BY <1>4, <2>1, <2>2 DEF HeldBy
<1> QED  BY <1>3, <1>4 DEF HeldBy

-----------------------------------------------------------------------------
(* The loader keeps its shape and what it has of the parts.                  *)

LEMMA QueuesKeep ==
    ASSUME NEW q, QueueShape(q), NEW S, S \subseteq Parts
    PROVE  /\ Removed(q, S).values = q.values \ S /\ QueueShape(Removed(q, S))
           /\ Added(q, S).values = q.values \cup S /\ QueueShape(Added(q, S))
           /\ IncreasePriority(q).values = q.values /\ QueueShape(IncreasePriority(q))
<1>1. Removed(q, S).values = q.values \ S /\ QueueShape(Removed(q, S))
  BY DEF Removed, QueueShape
<1>2. Added(q, S).values = q.values \cup S /\ QueueShape(Added(q, S))
  BY DEF Added, Removed, QueueShape
<1>3. IncreasePriority(q) = [values |-> q.values, current |-> {}, before |-> q.before]
  BY DEF IncreasePriority, QueueShape
<1>4. IncreasePriority(q).values = q.values /\ QueueShape(IncreasePriority(q))
  BY <1>3 DEF QueueShape
<1> QED  BY <1>1, <1>2, <1>4

LEMMA ReplacedInTurn ==
    ASSUME NEW l, NEW a, NEW b, NEW c, NEW f
    PROVE  [l EXCEPT !.requested = a, !.requests = b, !.dead = c, !.flight = f]
           = [[[[l EXCEPT !.requested = a] EXCEPT !.requests = b]
                 EXCEPT !.dead = c] EXCEPT !.flight = f]
OBVIOUS

LEMMA ThreeInTurn ==
    ASSUME NEW l, NEW b, NEW c, NEW f
    PROVE  [l EXCEPT !.requests = b, !.dead = c, !.flight = f]
           = [[[l EXCEPT !.requests = b] EXCEPT !.dead = c] EXCEPT !.flight = f]
OBVIOUS

\* The fields of a loader, one of which is replaced after the other.
LEMMA LoaderReplaced ==
    ASSUME NEW l, LoaderShape(l), NEW b, NEW c, NEW f
    PROVE  [[[l EXCEPT !.requests = b] EXCEPT !.dead = c] EXCEPT !.flight = f]
           = LoaderOf(l.requested, b, c, f, l.refresh)
<1> DEFINE x == [l EXCEPT !.requests = b]
           y == [x EXCEPT !.dead = c]
<1>1. x = [requested |-> l.requested, requests |-> b, dead |-> l.dead, flight |-> l.flight,
           refresh |-> l.refresh]
  BY DEF LoaderShape, LoaderOf
<1>2. y = [requested |-> l.requested, requests |-> b, dead |-> c, flight |-> l.flight,
           refresh |-> l.refresh]
  <2> HIDE DEF x
  <2> QED  BY <1>1
<1>3. [y EXCEPT !.flight = f]
      = [requested |-> l.requested, requests |-> b, dead |-> c, flight |-> f,
         refresh |-> l.refresh]
  <2> HIDE DEF y
  <2> QED  BY <1>2
<1> QED  BY <1>3 DEF LoaderOf

LEMMA IncreasedKeeps ==
    ASSUME NEW l, LoaderShape(l)
    PROVE  LET m == [l EXCEPT !.requested = IncreasePriority(@)]
           IN  LoaderShape(m) /\ HasOf(m) = HasOf(l) /\ (SentOf(l) => SentOf(m))
<1> DEFINE m == [l EXCEPT !.requested = IncreasePriority(@)]
<1>1. /\ m = [requested |-> IncreasePriority(l.requested), requests |-> l.requests,
              dead |-> l.dead, flight |-> l.flight, refresh |-> l.refresh]
  BY DEF LoaderShape, LoaderOf
<1>2. /\ IncreasePriority(l.requested).values = l.requested.values
      /\ QueueShape(IncreasePriority(l.requested))
  BY QueuesKeep DEF LoaderShape, LoaderOf
<1> HIDE DEF m
<1> SUFFICES LoaderShape(m) /\ HasOf(m) = HasOf(l) /\ (SentOf(l) => SentOf(m))
  BY DEF m
<1> QED  BY <1>1, <1>2 DEF LoaderShape, LoaderOf, HasOf, SentOf

LEMMA SendNextKeeps ==
    ASSUME NEW l, LoaderShape(l)
    PROVE  /\ LoaderShape(sendNext(l)) /\ HasOf(sendNext(l)) = HasOf(l)
           /\ SentOf(l) => SentOf(sendNext(l))
<1> DEFINE m == sendNext(l)
           sent == FirstOf(l.requested, MaxConcurrentRequests - Cardinality(l.requests))
           more == [p \in Parts |-> IF p \in sent THEN l.flight[p] + 1 ELSE l.flight[p]]
<1>1. sent \subseteq l.requested.values  BY DEF FirstOf
<1>2. m = [requested |-> Removed(l.requested, sent), requests |-> l.requests \cup sent,
           dead |-> l.dead \ sent, flight |-> more, refresh |-> l.refresh]
  <2>1. m = [l EXCEPT !.requested = Removed(l.requested, sent),
                      !.requests = l.requests \cup sent, !.dead = l.dead \ sent,
                      !.flight = more]
    BY DEF sendNext
  <2> DEFINE a == Removed(l.requested, sent)
             b == l.requests \cup sent
             c == l.dead \ sent
  <2> HIDE DEF m, sent, more, a, b, c
  <2>2. m = [[[[l EXCEPT !.requested = a] EXCEPT !.requests = b]
               EXCEPT !.dead = c] EXCEPT !.flight = more]
    <3>1. [l EXCEPT !.requested = a, !.requests = b, !.dead = c, !.flight = more]
          = [[[[l EXCEPT !.requested = a] EXCEPT !.requests = b]
                EXCEPT !.dead = c] EXCEPT !.flight = more]
      BY Zenon, ReplacedInTurn
    <3> QED  BY Zenon, <2>1, <3>1 DEF a, b, c
  <2> DEFINE k == [l EXCEPT !.requested = a]
  <2>3. a = Removed(l.requested, sent) /\ QueueShape(a)
    BY QueuesKeep, <1>1 DEF a, LoaderShape, LoaderOf, QueueShape
  <2>4. k = [requested |-> a, requests |-> l.requests, dead |-> l.dead,
             flight |-> l.flight, refresh |-> l.refresh]
    BY DEF LoaderShape, LoaderOf
  <2> HIDE DEF k
  <2>5. LoaderShape(k)  BY <2>3, <2>4 DEF LoaderShape, LoaderOf
  <2>6. [[[k EXCEPT !.requests = b] EXCEPT !.dead = c] EXCEPT !.flight = more]
        = LoaderOf(k.requested, b, c, more, k.refresh)
    BY Zenon, <2>5, LoaderReplaced
  <2>7. k.requested = a /\ k.refresh = l.refresh  BY <2>4
  <2> QED  BY Zenon, <2>2, <2>6, <2>7 DEF a, b, c, k, LoaderOf
<1> HIDE DEF sent, m
<1>3. /\ m.requested = Removed(l.requested, sent)
      /\ m.requested.values = l.requested.values \ sent /\ QueueShape(m.requested)
      /\ sent \subseteq Parts
  BY <1>1, <1>2, QueuesKeep DEF LoaderShape, LoaderOf, QueueShape
<1>4. m.flight \in [Parts -> Nat]  BY <1>2 DEF LoaderShape, LoaderOf
<1>5. LoaderShape(m)  BY <1>2, <1>3, <1>4 DEF LoaderShape, LoaderOf
<1>6. HasOf(m) = HasOf(l)  BY <1>1, <1>2, <1>3 DEF HasOf
<1>7. SentOf(l) => SentOf(m)
  <2> SUFFICES ASSUME SentOf(l), NEW p \in m.requests
               PROVE  p \in m.refresh \/ m.flight[p] > 0
    BY DEF SentOf
  <2>1. p \in Parts /\ l.flight[p] \in Nat  BY <1>5 DEF LoaderShape, LoaderOf
  <2>2. CASE p \in sent  BY <1>2, <2>1, <2>2
  <2>3. CASE p \notin sent  BY <1>2, <2>1, <2>3 DEF SentOf
  <2> QED  BY <2>2, <2>3
<1> QED  BY <1>5, <1>6, <1>7 DEF m

LEMMA LoadKeeps ==
    ASSUME NEW l, LoaderShape(l), NEW p \in Parts
    PROVE  /\ LoaderShape(load(l, p)) /\ HasOf(l) \cup {p} \subseteq HasOf(load(l, p))
           /\ SentOf(l) => SentOf(load(l, p))
<1>1. CASE p \in l.requests \/ ~Adds(l.requested, p)
  <2>1. load(l, p) = l  BY <1>1 DEF load
  <2> QED  BY <1>1, <2>1 DEF Adds, HasOf, LoaderShape, LoaderOf, QueueShape
<1>2. CASE ~(p \in l.requests \/ ~Adds(l.requested, p))
  <2> DEFINE m == [l EXCEPT !.requested = Added(@, {p})]
  <2>1. load(l, p) = sendNext(m)  BY <1>2 DEF load
  <2>2. m = [requested |-> Added(l.requested, {p}), requests |-> l.requests,
             dead |-> l.dead, flight |-> l.flight, refresh |-> l.refresh]
    BY DEF LoaderShape, LoaderOf
  <2>3. m.requested.values = l.requested.values \cup {p} /\ QueueShape(m.requested)
    <3> HIDE DEF m
    <3> QED  BY <2>2, QueuesKeep DEF LoaderShape, LoaderOf
  <2> HIDE DEF m
  <2>4. LoaderShape(m)  BY <2>2, <2>3 DEF LoaderShape, LoaderOf
  <2>5. HasOf(m) = HasOf(l) \cup {p} /\ (SentOf(l) => SentOf(m))
    BY <2>2, <2>3 DEF HasOf, SentOf
  <2> QED  BY <2>1, <2>4, <2>5, SendNextKeeps
<1> QED  BY <1>1, <1>2

LEMMA CancelKeeps ==
    ASSUME NEW l, LoaderShape(l), NEW p \in Parts
    PROVE  /\ LoaderShape(cancel(l, p)) /\ HasOf(l) \ {p} \subseteq HasOf(cancel(l, p))
           /\ SentOf(l) => SentOf(cancel(l, p))
<1>1. CASE p \in l.requests
  <2> DEFINE less == IF p \in l.dead \/ l.flight[p] = 0 THEN l.flight[p] ELSE l.flight[p] - 1
             m == [l EXCEPT !.requests = @ \ {p}, !.dead = @ \ {p},
                            !.flight[p] = IF p \in l.dead \/ @ = 0 THEN @ ELSE @ - 1]
  <2>1. cancel(l, p) = sendNext(m)  BY <1>1 DEF cancel
  <2>2. m = [requested |-> l.requested, requests |-> l.requests \ {p},
             dead |-> l.dead \ {p}, flight |-> [l.flight EXCEPT ![p] = less],
             refresh |-> l.refresh]
    <3> DEFINE fewer == [l.flight EXCEPT ![p] = less]
    <3>1. m = [l EXCEPT !.requests = l.requests \ {p}, !.dead = l.dead \ {p},
                        !.flight = fewer]
      OBVIOUS
    <3> DEFINE b == l.requests \ {p}
               c == l.dead \ {p}
    <3> HIDE DEF m, less, fewer, b, c
    <3>2. [l EXCEPT !.requests = b, !.dead = c, !.flight = fewer]
          = [[[l EXCEPT !.requests = b] EXCEPT !.dead = c] EXCEPT !.flight = fewer]
      BY Zenon, ThreeInTurn
    <3>3. [[[l EXCEPT !.requests = b] EXCEPT !.dead = c] EXCEPT !.flight = fewer]
          = LoaderOf(l.requested, b, c, fewer, l.refresh)
      BY Zenon, LoaderReplaced
    <3> QED  BY Zenon, <3>1, <3>2, <3>3 DEF b, c, fewer, LoaderOf
  <2>3. less \in Nat  BY DEF LoaderShape, LoaderOf
  <2> HIDE DEF m, less
  <2>4. LoaderShape(m)  BY <2>2, <2>3 DEF LoaderShape, LoaderOf
  <2>5. HasOf(l) \ {p} \subseteq HasOf(m)  BY <2>2 DEF HasOf
  <2>6. SentOf(l) => SentOf(m)  BY <2>2 DEF SentOf, LoaderShape, LoaderOf
  <2> QED  BY <2>1, <2>4, <2>5, <2>6, SendNextKeeps
<1>2. CASE p \notin l.requests
  <2> DEFINE m == [l EXCEPT !.requested = Removed(@, {p})]
  <2>1. cancel(l, p) = m  BY <1>2 DEF cancel
  <2>2. m = [requested |-> Removed(l.requested, {p}), requests |-> l.requests,
             dead |-> l.dead, flight |-> l.flight, refresh |-> l.refresh]
    BY DEF LoaderShape, LoaderOf
  <2>3. m.requested.values = l.requested.values \ {p} /\ QueueShape(m.requested)
    <3> HIDE DEF m
    <3> QED  BY <2>2, QueuesKeep DEF LoaderShape, LoaderOf
  <2> HIDE DEF m
  <2> QED  BY <2>1, <2>2, <2>3 DEF LoaderShape, LoaderOf, HasOf, SentOf
<1> QED  BY <1>1, <1>2

-----------------------------------------------------------------------------
(* Every step keeps the parts that are loading on their way.                 *)

LEMMA Fired ==
    ASSUME NEW S, NEW q \in Seq(S), NEW x \in S
    PROVE  Append(q, x) \in Seq(S) /\ ToSet(Append(q, x)) = ToSet(q) \cup {x}
<1>1. /\ Len(q) \in Nat /\ Len(Append(q, x)) = Len(q) + 1
      /\ \A i \in 1 .. Len(q) : Append(q, x)[i] = q[i]
      /\ Append(q, x)[Len(q) + 1] = x
      /\ Append(q, x) \in Seq(S)
  OBVIOUS
<1>2. DOMAIN q = 1 .. Len(q) /\ DOMAIN Append(q, x) = 1 .. Len(q) + 1  BY <1>1
<1>3. 1 .. Len(q) + 1 = 1 .. Len(q) \cup {Len(q) + 1}  BY <1>1
<1> QED  BY <1>1, <1>2, <1>3 DEF ToSet

\* A step that leaves the thread alone: what the loader has of a part it loses
\* only when the part is fired.
LEMMA LoaderStep ==
    ASSUME LInv, UNCHANGED <<pc, cur, mem, calls>>, LoaderShape(loader'),
           SentOf(loader) => SentOf(loader') \/ Gone',
           loadedParts' \in Seq(Parts \cup {Failed}),
           ToSet(loadedParts) \subseteq ToSet(loadedParts'),
           HasOf(loader) \subseteq HasOf(loader') \cup ToSet(loadedParts')
    PROVE  LInv'
<1>1. LoadShape'  BY DEF LInv, LoadShape
<1>2. Gone => Gone'  BY DEF Gone
<1>3. ASSUME ~Gone, ~Gone'  PROVE (SentOf(loader) /\ AllHeld)'
  <2>1. SentOf(loader) /\ AllHeld /\ SentOf(loader')  BY <1>3 DEF LInv
  <2> DEFINE H == HasOf(loader) \cup ToSet(loadedParts)
             G == HasOf(loader') \cup ToSet(loadedParts')
  <2>2. ASSUME NEW p \in mem'.loading.values  PROVE HeldBy(calls', G, p)
    <3>1. HeldBy(calls, H, p)  BY <2>1, <2>2 DEF AllHeld
    <3>2. p \in H => p \in G  OBVIOUS
    <3> HIDE DEF H, G
    <3> QED  BY <3>1, <3>2, HeldMore
  <2> QED  BY <2>1, <2>2 DEF AllHeld
<1> QED  BY <1>1, <1>2, <1>3 DEF LInv

LEMMA RunCallLoads ==
    ASSUME LInv, RunCall
    PROVE  LInv'
<1> DEFINE c == Head(calls)
<1>1. /\ calls \in Seq(Posted) /\ calls # <<>> /\ c \in Posted /\ LoaderShape(loader)
      /\ calls' = Tail(calls) /\ calls' \in Seq(Posted)
      /\ UNCHANGED <<pc, cur, mem, loadedParts>>
  BY DEF LInv, LoadShape, RunCall, thread
<1>2. /\ LoaderShape(loader') /\ (SentOf(loader) => SentOf(loader'))
      /\ \A p : c = LoadOf(p) => p \in HasOf(loader')
      /\ \A p : p \in HasOf(loader) /\ c # CancelOf(p) => p \in HasOf(loader')
  <2>1. c.op \in {"load", "cancel", "raise"} /\ c.part \in Parts
        /\ c = [op |-> c.op, part |-> c.part]
    BY <1>1 DEF Posted
  <2>2. CASE c.op = "load"
    <3>1. loader' = load(loader, c.part)  BY <2>2 DEF RunCall
    <3>2. /\ LoaderShape(loader') /\ HasOf(loader) \cup {c.part} \subseteq HasOf(loader')
          /\ SentOf(loader) => SentOf(loader')
      BY <1>1, <2>1, <3>1, LoadKeeps
    <3> QED  BY <2>1, <3>2 DEF LoadOf
  <2>3. CASE c.op = "cancel"
    <3>1. loader' = cancel(loader, c.part)  BY <2>3 DEF RunCall
    <3>2. /\ LoaderShape(loader') /\ HasOf(loader) \ {c.part} \subseteq HasOf(loader')
          /\ SentOf(loader) => SentOf(loader')
      BY <1>1, <2>1, <3>1, CancelKeeps
    <3> QED  BY <2>1, <2>3, <3>2 DEF LoadOf, CancelOf
  <2>4. CASE c.op = "raise"
    <3>1. loader' = [loader EXCEPT !.requested = IncreasePriority(@)]
      BY <2>4 DEF RunCall
    <3>2. /\ LoaderShape(loader') /\ HasOf(loader') = HasOf(loader)
          /\ SentOf(loader) => SentOf(loader')
      BY <1>1, <3>1, IncreasedKeeps
    <3> QED  BY <2>1, <2>4, <3>2 DEF LoadOf, CancelOf
  <2> QED  BY <2>1, <2>2, <2>3, <2>4
<1>3. LoadShape'  BY <1>1, <1>2 DEF LInv, LoadShape
<1>4. ASSUME ~Gone'  PROVE (SentOf(loader) /\ AllHeld)'
  <2>1. SentOf(loader) /\ AllHeld  BY <1>1, <1>4 DEF LInv, Gone
  <2> DEFINE H == HasOf(loader) \cup ToSet(loadedParts)
             G == HasOf(loader') \cup ToSet(loadedParts')
  <2>2. ASSUME NEW p \in mem'.loading.values  PROVE HeldBy(calls', G, p)
    <3>1. HeldBy(calls, H, p)  BY <1>1, <2>1, <2>2 DEF AllHeld
    <3>2. c = LoadOf(p) => p \in G  BY <1>2
    <3>3. p \in H /\ c # CancelOf(p) => p \in G  BY <1>1, <1>2
    <3> HIDE DEF H, G
    <3>4. HeldBy(Tail(calls), G, p)  BY <1>1, <3>1, <3>2, <3>3, HeldRun
    <3> QED  BY <1>1, <3>4
  <2> QED  BY <1>2, <2>1, <2>2 DEF AllHeld
<1> QED  BY <1>3, <1>4 DEF LInv

LEMMA ServerLoads ==
    ASSUME LInv, NEW p \in Parts, Server(p) \/ Refreshed(p)
    PROVE  LInv'
<1>1. /\ UNCHANGED <<pc, cur, mem, calls>> /\ LoaderShape(loader)
      /\ loadedParts \in Seq(Parts \cup {Failed})
  BY DEF LInv, LoadShape, Server, Refreshed, requestDone, requestFailed, referenceExpired,
         referenceUpdated, referenceNotUpdated, Environment, thread
<1>2. ASSUME NEW x \in Parts \cup {Failed}, fire(x)
      PROVE  /\ loadedParts' \in Seq(Parts \cup {Failed})
             /\ ToSet(loadedParts') = ToSet(loadedParts) \cup {x}
  <2>1. loadedParts' = Append(loadedParts, x)  BY <1>2 DEF fire
  <2> QED  BY <1>1, <2>1, Fired
<1>3. CASE requestDone(p)
  <2> DEFINE m == [loader EXCEPT !.requests = @ \ {p}, !.dead = @ \ {p}, !.flight[p] = @ - 1]
             b == loader.requests \ {p}
             c == loader.dead \ {p}
             f == [loader.flight EXCEPT ![p] = @ - 1]
  <2>1. loader' = sendNext(m) /\ fire(p) /\ loader.flight[p] > 0
    BY <1>3 DEF requestDone
  <2>2. m = LoaderOf(loader.requested, b, c, f, loader.refresh)
    <3>1. m = [loader EXCEPT !.requests = b, !.dead = c, !.flight = f]  OBVIOUS
    <3> HIDE DEF m, b, c, f
    <3>2. [loader EXCEPT !.requests = b, !.dead = c, !.flight = f]
          = [[[loader EXCEPT !.requests = b] EXCEPT !.dead = c] EXCEPT !.flight = f]
      BY Zenon, ThreeInTurn
    <3>3. [[[loader EXCEPT !.requests = b] EXCEPT !.dead = c] EXCEPT !.flight = f]
          = LoaderOf(loader.requested, b, c, f, loader.refresh)
      BY Zenon, <1>1, LoaderReplaced
    <3> QED  BY Zenon, <3>1, <3>2, <3>3
  <2>3. f \in [Parts -> Nat]
    <3>1. loader.flight \in [Parts -> Nat]  BY <1>1 DEF LoaderShape
    <3>2. loader.flight[p] - 1 \in Nat  BY <2>1, <3>1
    <3> QED  BY <3>1, <3>2
  <2>4. \A q \in Parts : q # p => f[q] = loader.flight[q]
    BY <1>1 DEF LoaderShape
  <2> HIDE DEF m, f
  <2>5. LoaderShape(m)  BY <1>1, <2>2, <2>3 DEF LoaderShape, LoaderOf
  <2>6. HasOf(loader) \ {p} \subseteq HasOf(m)  BY <2>2 DEF HasOf, LoaderOf
  <2>7. SentOf(loader) => SentOf(m)
    BY <1>1, <2>2, <2>4 DEF SentOf, LoaderOf, LoaderShape
  <2>8. /\ LoaderShape(loader') /\ HasOf(loader') = HasOf(m)
        /\ SentOf(m) => SentOf(loader')
    BY <2>1, <2>5, SendNextKeeps
  <2>9. /\ loadedParts' \in Seq(Parts \cup {Failed})
        /\ ToSet(loadedParts') = ToSet(loadedParts) \cup {p}
    BY <1>2, <2>1
  <2> QED  BY <1>1, <2>6, <2>7, <2>8, <2>9, LoaderStep
<1>4. CASE requestFailed(p)
  <2> DEFINE c == IF p \in loader.requests /\ loader.flight[p] = 1
                  THEN loader.dead \cup {p} ELSE loader.dead
             f == [loader.flight EXCEPT ![p] = @ - 1]
  <2>1. loader' = [loader EXCEPT !.flight = f, !.dead = c] /\ fire(Failed)
        /\ loader.flight[p] > 0
    BY <1>4 DEF requestFailed
  <2>2. f \in [Parts -> Nat]
    <3>1. loader.flight \in [Parts -> Nat]  BY <1>1 DEF LoaderShape
    <3>2. loader.flight[p] - 1 \in Nat  BY <2>1, <3>1
    <3> QED  BY <3>1, <3>2
  <2> HIDE DEF c, f
  <2>3. loader' = LoaderOf(loader.requested, loader.requests, c, f, loader.refresh)
    BY <1>1, <2>1 DEF LoaderShape, LoaderOf
  <2>4. LoaderShape(loader') /\ HasOf(loader') = HasOf(loader)
    BY <1>1, <2>2, <2>3 DEF LoaderShape, LoaderOf, HasOf
  <2>5. /\ loadedParts' \in Seq(Parts \cup {Failed})
        /\ ToSet(loadedParts') = ToSet(loadedParts) \cup {Failed}
    BY <1>2, <2>1
  <2>6. Gone'  BY <2>5 DEF Gone
  <2> QED  BY <1>1, <2>4, <2>5, <2>6, LoaderStep
<1>5. CASE referenceExpired(p)
  <2> DEFINE c == IF p \in loader.requests /\ loader.flight[p] = 1
                  THEN loader.dead \cup {p} ELSE loader.dead
             f == [loader.flight EXCEPT ![p] = @ - 1]
             r == loader.refresh \cup {p}
  <2>1. loader' = [loader EXCEPT !.flight = f, !.refresh = r, !.dead = c]
        /\ loadedParts' = loadedParts /\ loader.flight[p] > 0
    BY <1>5 DEF referenceExpired
  <2>2. f \in [Parts -> Nat]
    <3>1. loader.flight \in [Parts -> Nat]  BY <1>1 DEF LoaderShape
    <3>2. loader.flight[p] - 1 \in Nat  BY <2>1, <3>1
    <3> QED  BY <3>1, <3>2
  <2>3. \A q \in Parts : q # p => f[q] = loader.flight[q]
    BY <1>1 DEF LoaderShape
  <2>4. p \in r /\ loader.refresh \subseteq r  OBVIOUS
  <2> HIDE DEF c, f, r
  <2>5. loader' = LoaderOf(loader.requested, loader.requests, c, f, r)
    BY <1>1, <2>1 DEF LoaderShape, LoaderOf
  <2>6. LoaderShape(loader') /\ HasOf(loader') = HasOf(loader)
    BY <1>1, <2>2, <2>5 DEF LoaderShape, LoaderOf, HasOf
  <2>7. SentOf(loader) => SentOf(loader')
    BY <1>1, <2>3, <2>4, <2>5 DEF SentOf, LoaderOf, LoaderShape
  <2> QED  BY <1>1, <2>1, <2>6, <2>7, LoaderStep
<1>6. CASE referenceUpdated(p)
  <2> DEFINE r == loader.refresh \ {p}
             k == [loader EXCEPT !.refresh = r]
  <2>1. loadedParts' = loadedParts  BY <1>6 DEF referenceUpdated
  <2> HIDE DEF r
  <2>2. k = LoaderOf(loader.requested, loader.requests, loader.dead, loader.flight, r)
    BY <1>1 DEF LoaderShape, LoaderOf
  <2> HIDE DEF k
  <2>3. LoaderShape(k)  BY <1>1, <2>2 DEF LoaderShape, LoaderOf
  <2>4. CASE p \notin k.requests
    <3>1. loader' = k  BY <1>6, <2>4 DEF referenceUpdated, k, r
    <3>2. HasOf(loader') = HasOf(loader)  BY <2>2, <3>1 DEF HasOf, LoaderOf
    <3>3. SentOf(loader) => SentOf(loader')
      BY <2>2, <2>4, <3>1 DEF SentOf, LoaderOf, r
    <3> QED  BY <1>1, <2>1, <2>3, <3>1, <3>2, <3>3, LoaderStep
  <2>5. CASE p \in k.requests
    <3> DEFINE b == k.requests \ {p}
               c == k.dead \ {p}
               a == Added(k.requested, {p})
               m == [k EXCEPT !.requests = b, !.dead = c, !.requested = a]
    <3>1. loader' = sendNext(m)  BY <1>6, <2>5 DEF referenceUpdated, k, r
    <3>2. a.values = k.requested.values \cup {p} /\ QueueShape(a)
      BY <2>3, QueuesKeep DEF LoaderShape
    <3> HIDE DEF a, b, c
    <3>3. m = LoaderOf(a, b, c, k.flight, k.refresh)
      <4> DEFINE x == [k EXCEPT !.requests = b]
                 y == [x EXCEPT !.dead = c]
                 z == [y EXCEPT !.requested = a]
      <4>1. m = z  OBVIOUS
      <4>2. x = LoaderOf(k.requested, b, k.dead, k.flight, k.refresh)
        BY <2>3 DEF LoaderShape, LoaderOf
      <4>3. y = LoaderOf(k.requested, b, c, k.flight, k.refresh)
        <5> HIDE DEF x
        <5> QED  BY <4>2 DEF LoaderOf
      <4>4. z = LoaderOf(a, b, c, k.flight, k.refresh)
        <5> HIDE DEF y
        <5> QED  BY <4>3 DEF LoaderOf
      <4> HIDE DEF z, m
      <4> QED  BY <4>1, <4>4
    <3> HIDE DEF m
    <3>4. LoaderShape(m)  BY <2>3, <3>2, <3>3 DEF LoaderShape, LoaderOf, b
    <3>5. HasOf(loader) \subseteq HasOf(m)
      BY <2>2, <3>2, <3>3 DEF HasOf, LoaderOf, b
    <3>6. SentOf(loader) => SentOf(m)
      BY <2>2, <3>3 DEF SentOf, LoaderOf, b, r
    <3>7. /\ LoaderShape(loader') /\ HasOf(loader') = HasOf(m)
          /\ SentOf(m) => SentOf(loader')
      BY <3>1, <3>4, SendNextKeeps
    <3> QED  BY <1>1, <2>1, <3>5, <3>6, <3>7, LoaderStep
  <2> QED  BY <2>4, <2>5
<1>7. CASE referenceNotUpdated(p)
  <2> DEFINE r == loader.refresh \ {p}
  <2>1. loader' = [loader EXCEPT !.refresh = r] /\ fire(Failed)
    BY <1>7 DEF referenceNotUpdated
  <2> HIDE DEF r
  <2>2. loader' = LoaderOf(loader.requested, loader.requests, loader.dead, loader.flight, r)
    BY <1>1, <2>1 DEF LoaderShape, LoaderOf
  <2>3. LoaderShape(loader') /\ HasOf(loader') = HasOf(loader)
    BY <1>1, <2>2 DEF LoaderShape, LoaderOf, HasOf
  <2>4. /\ loadedParts' \in Seq(Parts \cup {Failed})
        /\ ToSet(loadedParts') = ToSet(loadedParts) \cup {Failed}
    BY <1>2, <2>1
  <2>5. Gone'  BY <2>4 DEF Gone
  <2> QED  BY <1>1, <2>3, <2>4, <2>5, LoaderStep
<1> QED  BY <1>3, <1>4, <1>5, <1>6, <1>7 DEF Server, Refreshed

-----------------------------------------------------------------------------
\* A step that leaves alone what the invariant speaks of.
LEMMA CalmStep ==
    ASSUME LInv, UNCHANGED <<calls, loader, loadedParts>>, MemShape(mem'),
           mem'.failed = mem.failed, mem'.loading = mem.loading,
           pc' # "idle" => cur' \in Parts
    PROVE  LInv'
BY DEF LInv, LoadShape, Gone, AllHeld

LEMMA CacheLoads ==
    ASSUME LInv, Cache
    PROVE  LInv'
<1>1. MemShape(mem) /\ (pc # "idle" => cur \in Parts)  BY DEF LInv, LoadShape
<1>2. CASE CacheWakes
  <2>1. UNCHANGED <<calls, loader, loadedParts, mem, pc, cur>>
    BY <1>2 DEF CacheWakes, thread
  <2> QED  BY <1>1, <2>1, CalmStep
<1>3. ASSUME NEW n \in Slices, NEW found \in SUBSET Parts, CacheResult(n, found)
      PROVE  LInv'
  <2>1. /\ mem' = [mem EXCEPT !.getting = @ \ {n}]
        /\ UNCHANGED <<calls, loader, loadedParts, pc, cur>>
    BY <1>3 DEF CacheResult, thread
  <2>2. mem' = MemOf(mem.have, mem.looked, mem.getting \ {n}, mem.loading, mem.failed)
    BY <1>1, <2>1 DEF MemShape, MemOf
  <2>3. MemShape(mem') /\ mem'.failed = mem.failed /\ mem'.loading = mem.loading
    BY <2>2 DEF MemShape, MemOf
  <2> QED  BY <1>1, <2>1, <2>3, CalmStep
<1> QED  BY <1>2, <1>3 DEF Cache

LEMMA ResultsLoad ==
    ASSUME LInv, NEW then, TakeResults(then), pc # "idle"
    PROVE  LInv'
<1>1. MemShape(mem) /\ (pc # "idle" => cur \in Parts)  BY DEF LInv, LoadShape
<1>2. /\ UNCHANGED <<calls, loader, loadedParts, cur>>
      /\ mem' = IF mem.failed THEN mem
                ELSE [mem EXCEPT !.looked = @ \cup {r[1] : r \in results},
                                 !.have = @ \cup UNION {r[2] : r \in results}]
  BY DEF TakeResults, Others
<1>3. CASE mem.failed  BY <1>1, <1>2, <1>3, CalmStep
<1>4. CASE ~mem.failed
  <2> DEFINE k == mem.looked \cup {r[1] : r \in results}
             h == mem.have \cup UNION {r[2] : r \in results}
  <2>1. mem' = [mem EXCEPT !.looked = k, !.have = h]  BY <1>2, <1>4
  <2> HIDE DEF k, h
  <2>2. mem' = MemOf(h, k, mem.getting, mem.loading, mem.failed)
    BY <1>1, <2>1 DEF MemShape, MemOf
  <2>3. MemShape(mem') /\ mem'.failed = mem.failed /\ mem'.loading = mem.loading
    BY <2>2 DEF MemShape, MemOf
  <2> QED  BY <1>1, <1>2, <2>3, CalmStep
<1> QED  BY <1>3, <1>4

\* The parts that are taken are not loading any more, so no part is held by
\* _loadedParts alone.
LEMMA PartsLoad ==
    ASSUME LInv, NEW then, TakeParts(then), pc # "idle"
    PROVE  LInv'
<1>1. LoadShape /\ MemShape(mem) /\ cur \in Parts /\ loadedParts \in Seq(Parts \cup {Failed})
  BY DEF LInv, LoadShape
<1>2. /\ UNCHANGED <<calls, loader, cur>>
      /\ loadedParts' = IF mem.failed THEN loadedParts ELSE <<>>
      /\ mem' = IF mem.failed THEN mem ELSE Taken
  BY DEF TakeParts, Others
<1>3. CASE mem.failed  BY <1>1, <1>2, <1>3, CalmStep
<1>4. CASE ~mem.failed
  <2> DEFINE before == {i \in DOMAIN loadedParts :
                           \A j \in 1 .. i : loadedParts[j] # Failed}
             got == {loadedParts[i] : i \in before} \cap mem.loading.values
             h == mem.have \cup got
             x == Failed \in ToSet(loadedParts)
             q == Removed(mem.loading, got)
  <2>1. mem' = [mem EXCEPT !.have = h, !.failed = x, !.loading = q]
    BY <1>2, <1>4 DEF Taken
  <2>2. q.values = mem.loading.values \ got  BY DEF Removed
  <2>3. ~x => \A p \in ToSet(loadedParts) \cap mem.loading.values : p \in got
    <3> SUFFICES ASSUME ~x, NEW p \in ToSet(loadedParts), p \in mem.loading.values
                 PROVE  p \in {loadedParts[i] : i \in before}
      OBVIOUS
    <3>1. PICK i \in DOMAIN loadedParts : loadedParts[i] = p  BY DEF ToSet
    <3>2. \A j \in DOMAIN loadedParts : loadedParts[j] # Failed  BY DEF ToSet
    <3>3. DOMAIN loadedParts = 1 .. Len(loadedParts) /\ Len(loadedParts) \in Nat
      BY <1>1
    <3>4. \A j \in 1 .. i : j \in DOMAIN loadedParts  BY <3>3
    <3> QED  BY <3>1, <3>2, <3>4
  <2> HIDE DEF before, got, h, x, q
  <2>4. mem' = MemOf(h, mem.looked, mem.getting, q, x)
    BY <1>1, <2>1 DEF MemShape, MemOf
  <2>5. MemShape(mem') /\ mem'.failed = x /\ mem'.loading = q
    BY <2>4 DEF MemShape, MemOf
  <2>6. loadedParts' = <<>>  BY <1>2, <1>4
  <2>7. loadedParts' \in Seq(Parts \cup {Failed})  BY <2>6
  <2>8. q.values \subseteq Parts  BY <1>1, <2>2 DEF LoadShape
  <2>9. LoadShape'  BY <1>1, <1>2, <2>5, <2>7, <2>8 DEF LoadShape
  <2>10. ASSUME ~Gone'  PROVE (SentOf(loader) /\ AllHeld)'
    <3>1. ~x /\ ~Gone  BY <1>4, <2>5, <2>10 DEF Gone, x
    <3>2. SentOf(loader) /\ AllHeld  BY <3>1 DEF LInv
    <3> DEFINE H == HasOf(loader) \cup ToSet(loadedParts)
               G == HasOf(loader') \cup ToSet(loadedParts')
    <3>3. ASSUME NEW p \in mem'.loading.values  PROVE HeldBy(calls', G, p)
      <4>1. p \in mem.loading.values /\ p \notin got  BY <2>2, <2>5, <3>3
      <4>2. HeldBy(calls, H, p)  BY <3>2, <4>1 DEF AllHeld
      <4>3. p \in H => p \in G  BY <1>2, <2>3, <3>1, <4>1
      <4> HIDE DEF H, G
      <4>4. HeldBy(calls, G, p)  BY <4>2, <4>3, HeldMore
      <4> QED  BY <1>2, <4>4
    <3> QED  BY <1>2, <3>2, <3>3 DEF AllHeld
  <2> QED  BY <2>9, <2>10 DEF LInv
<1> QED  BY <1>3, <1>4

\* A step that posts calls: a part that is loading after it was loading before
\* and is not cancelled, or is called for now.
LEMMA PostStep ==
    ASSUME LInv, UNCHANGED <<loader, loadedParts>>, MemShape(mem'),
           mem'.failed = mem.failed, mem'.loading.values \subseteq Parts,
           pc' # "idle" => cur' \in Parts,
           NEW new \in Seq(Posted), calls' = calls \o new,
           \A p \in mem'.loading.values :
              /\ Uncancelled(new, p)
              /\ p \in mem.loading.values \/ \E k \in 1 .. Len(new) : new[k] = LoadOf(p)
    PROVE  LInv'
<1>1. calls \in Seq(Posted)  BY DEF LInv, LoadShape
<1>2. calls' \in Seq(Posted)  BY <1>1
<1>3. LoadShape'  BY <1>2 DEF LInv, LoadShape
<1>4. Gone => Gone'  BY DEF Gone
<1>5. ASSUME ~Gone  PROVE (SentOf(loader) /\ AllHeld)'
  <2>1. SentOf(loader) /\ AllHeld  BY <1>5 DEF LInv
  <2> DEFINE H == HasOf(loader) \cup ToSet(loadedParts)
  <2>2. ASSUME NEW p \in mem'.loading.values  PROVE HeldBy(calls', H, p)
    <3>1. Uncancelled(new, p)  BY <2>2
    <3>2. CASE p \in mem.loading.values
      <4>1. HeldBy(calls, H, p)  BY <2>1, <3>2 DEF AllHeld
      <4> HIDE DEF H
      <4>2. HeldBy(calls \o new, H, p)  BY <1>1, <3>1, <4>1, HeldAppended
      <4> QED  BY <4>2
    <3>3. CASE p \notin mem.loading.values
      <4>1. PICK k \in 1 .. Len(new) : new[k] = LoadOf(p)  BY <2>2, <3>3
      <4> HIDE DEF H
      <4>2. HeldBy(calls \o new, H, p)  BY <1>1, <3>1, <4>1, HeldCalled
      <4> QED  BY <4>2
    <3> QED  BY <3>2, <3>3
  <2> QED  BY <2>1, <2>2 DEF AllHeld
<1> QED  BY <1>3, <1>4, <1>5 DEF LInv

LEMMA Widened ==
    ASSUME NEW S, NEW T, S \subseteq T, NEW q \in Seq(S)
    PROVE  q \in Seq(T) /\ Len(q) \in Nat /\ \A j \in 1 .. Len(q) : q[j] \in S
OBVIOUS

LEMMA FilledLoads ==
    ASSUME LInv, Filled
    PROVE  LInv'
<1>1. LoadShape /\ MemShape(mem) /\ cur \in Parts /\ pc = "try"
  BY DEF LInv, LoadShape, Filled
<1>2. UNCHANGED <<cur, loader, loadedParts>>  BY DEF Filled, Others
<1>3. CASE UNCHANGED <<mem, calls, drops>>
  BY <1>1, <1>2, <1>3, CalmStep
<1>4. ASSUME NEW n \in mem.looked \ {SliceOf(cur)}, NEW cancelled \in BOOLEAN,
             NEW under, under = IF cancelled THEN PartsOf(n) \cap mem.loading.values ELSE {},
             mem' = [mem EXCEPT !.have = @ \ PartsOf(n), !.looked = @ \ {n},
                                !.loading = Removed(@, under)],
             calls' = calls \o Calls("cancel", under)
      PROVE  LInv'
  <2> DEFINE new == Calls("cancel", under)
             h == mem.have \ PartsOf(n)
             k == mem.looked \ {n}
             q == Removed(mem.loading, under)
  <2>1. under \in SUBSET Parts  BY <1>4 DEF PartsOf
  <2>2. new \in Seq([op : {"cancel"}, part : under])  BY <2>1, CallsOf
  <2>3. q.values = mem.loading.values \ under  BY DEF Removed
  <2>4. mem' = [mem EXCEPT !.have = h, !.looked = k, !.loading = q]  BY <1>4
  <2>5. calls' = calls \o new  BY <1>4
  <2> HIDE DEF new, h, k, q
  <2>6. mem' = MemOf(h, k, mem.getting, q, mem.failed)
    BY <1>1, <2>4 DEF MemShape, MemOf
  <2>7. MemShape(mem') /\ mem'.failed = mem.failed /\ mem'.loading = q
    BY <2>6 DEF MemShape, MemOf
  <2> DEFINE X == [op : {"cancel"}, part : under]
  <2>9. X \subseteq Posted  BY <2>1 DEF Posted
  <2>8. new \in Seq(Posted) /\ \A j \in 1 .. Len(new) : new[j] \in X
    <3> HIDE DEF X
    <3> QED  BY Zenon, <2>2, <2>9, Widened DEF X
  <2>10. new \in Seq(Posted)  BY <2>8
  <2>11. ASSUME NEW p \in mem'.loading.values
         PROVE  Uncancelled(new, p) /\ p \in mem.loading.values
    <3>1. p \in mem.loading.values /\ p \notin under  BY <2>3, <2>7, <2>11
    <3>2. CancelOf(p).part = p  BY DEF CancelOf
    <3>3. \A j \in 1 .. Len(new) : new[j] # CancelOf(p)
      <4> SUFFICES ASSUME NEW j \in 1 .. Len(new), new[j] = CancelOf(p)  PROVE FALSE
        OBVIOUS
      <4>1. new[j].part \in under  BY <2>8
      <4> QED  BY <3>1, <3>2, <4>1
    <3> QED  BY <3>1, <3>3 DEF Uncancelled
  <2>12. mem'.loading.values \subseteq Parts  BY <1>1, <2>3, <2>7 DEF LoadShape
  <2> QED  BY <1>1, <1>2, <2>5, <2>7, <2>10, <2>11, <2>12, PostStep
<1>5. \/ UNCHANGED <<mem, calls, drops>>
      \/ \E n \in mem.looked \ {SliceOf(cur)}, cancelled \in BOOLEAN :
            LET under == IF cancelled THEN PartsOf(n) \cap mem.loading.values ELSE {}
            IN  /\ mem' = [mem EXCEPT !.have = @ \ PartsOf(n), !.looked = @ \ {n},
                                      !.loading = Removed(@, under)]
                /\ calls' = calls \o Calls("cancel", under)
  BY DEF Filled
<1> QED  BY <1>3, <1>4, <1>5

LEMMA AskLoaderLoads ==
    ASSUME LInv, AskLoader
    PROVE  LInv'
<1>1. LoadShape /\ MemShape(mem) /\ cur \in Parts /\ pc = "try"
  BY DEF LInv, LoadShape, AskLoader
<1>2. UNCHANGED <<cur, loader, loadedParts>>  BY DEF AskLoader, Others
<1> DEFINE ahead == {p \in PartsOf(SliceOf(cur)) : p > cur} \ mem.have
           raise == mem.loading.values # {} /\ FirstOf(mem.loading, 1) # {cur}
           queue == IF raise THEN IncreasePriority(mem.loading) ELSE mem.loading
           wanted == {p \in {cur} \cup ahead : Adds(queue, p)}
           first == IF raise THEN <<[op |-> "raise", part |-> cur]>> ELSE <<>>
           loads == Calls("load", wanted)
           q == Added(queue, wanted)
<1>3. mem' = [mem EXCEPT !.loading = q] /\ calls' = calls \o first \o loads
  BY DEF AskLoader
<1>4. wanted \in SUBSET Parts  BY <1>1 DEF PartsOf
<1>5. q.values = mem.loading.values \cup wanted
  <2>1. queue.values = mem.loading.values  BY DEF IncreasePriority
  <2>2. q.values = (queue.values \ wanted) \cup wanted  BY DEF Added, Removed
  <2> HIDE DEF queue, wanted, q
  <2> QED  BY <2>1, <2>2
<1>6. /\ first \in Seq(Posted)
      /\ \A j \in 1 .. Len(first) : first[j].op = "raise"
  <2>1. [op |-> "raise", part |-> cur] \in Posted  BY <1>1 DEF Posted
  <2>2. <<[op |-> "raise", part |-> cur]>> \in Seq(Posted)  BY <2>1
  <2>3. CASE raise  BY <2>2, <2>3
  <2>4. CASE ~raise  BY <2>4
  <2> QED  BY <2>3, <2>4
<1>7. /\ loads \in Seq([op : {"load"}, part : wanted])
      /\ \A p \in wanted : \E i \in 1 .. Len(loads) : loads[i] = LoadOf(p)
  <2> HIDE DEF wanted
  <2> QED  BY <1>4, CallsOf DEF LoadOf
<1> HIDE DEF first, loads, wanted, queue, q, raise, ahead
<1> DEFINE X == [op : {"load"}, part : wanted]
<1>8. X \subseteq Posted  BY <1>4 DEF Posted
<1>9. loads \in Seq(Posted) /\ \A j \in 1 .. Len(loads) : loads[j] \in X
  <2>1. loads \in Seq(X)  BY <1>7
  <2> HIDE DEF X
  <2> QED  BY Zenon, <2>1, <1>8, Widened
<1>10. \A j \in 1 .. Len(loads) : loads[j].op = "load"
  BY <1>9
<1> DEFINE new == first \o loads
<1>11. /\ new \in Seq(Posted) /\ calls' = calls \o new
  <2>1. calls \in Seq(Posted)  BY <1>1 DEF LoadShape
  <2>2. (calls \o first) \o loads = calls \o (first \o loads)  BY <1>6, <1>9, <2>1
  <2> QED  BY <1>3, <1>6, <1>9, <2>2
<1>12. /\ Len(first) \in Nat /\ Len(loads) \in Nat /\ Len(new) = Len(first) + Len(loads)
       /\ \A j \in 1 .. Len(first) : new[j] = first[j]
       /\ \A j \in 1 .. Len(loads) : new[Len(first) + j] = loads[j]
  BY <1>6, <1>9
<1>13. \A j \in 1 .. Len(new) : new[j].op # "cancel"
  <2> SUFFICES ASSUME NEW j \in 1 .. Len(new)  PROVE new[j].op # "cancel"  OBVIOUS
  <2> HIDE DEF new
  <2>1. CASE j <= Len(first)
    <3>1. j \in 1 .. Len(first)  BY <1>12, <2>1
    <3> QED  BY <1>6, <1>12, <3>1
  <2>2. CASE ~(j <= Len(first))
    <3> DEFINE i == j - Len(first)
    <3>1. i \in 1 .. Len(loads) /\ Len(first) + i = j  BY <1>12, <2>2
    <3> HIDE DEF i
    <3>2. new[j] = loads[i]  BY <1>12, <3>1
    <3> QED  BY <1>10, <3>1, <3>2
  <2> QED  BY <2>1, <2>2
<1> HIDE DEF new
<1>14. mem' = MemOf(mem.have, mem.looked, mem.getting, q, mem.failed)
  BY <1>1, <1>3 DEF MemShape, MemOf
<1>15. MemShape(mem') /\ mem'.failed = mem.failed /\ mem'.loading = q
  BY <1>14 DEF MemShape, MemOf
<1>16. mem'.loading.values \subseteq Parts  BY <1>1, <1>4, <1>5, <1>15 DEF LoadShape
<1>17. ASSUME NEW p \in mem'.loading.values
       PROVE  /\ Uncancelled(new, p)
              /\ p \in mem.loading.values \/ \E k \in 1 .. Len(new) : new[k] = LoadOf(p)
  <2>1. CancelOf(p).op = "cancel"  BY DEF CancelOf
  <2>2. Uncancelled(new, p)  BY <1>13, <2>1 DEF Uncancelled
  <2>3. ASSUME p \in wanted  PROVE \E k \in 1 .. Len(new) : new[k] = LoadOf(p)
    <3>1. PICK i \in 1 .. Len(loads) : loads[i] = LoadOf(p)  BY <1>7, <2>3
    <3>2. Len(first) + i \in 1 .. Len(new) /\ new[Len(first) + i] = LoadOf(p)
      BY <1>12, <3>1
    <3> QED  BY <3>2
  <2>4. p \in mem.loading.values \/ p \in wanted  BY <1>5, <1>15, <1>17
  <2> QED  BY <2>2, <2>3, <2>4
<1> QED  BY <1>1, <1>2, <1>11, <1>15, <1>16, <1>17, PostStep

LEMMA ThreadLoads ==
    ASSUME LInv, Thread
    PROVE  LInv'
<1>1. MemShape(mem) /\ (pc # "idle" => cur \in Parts)  BY DEF LInv, LoadShape
<1>2. CASE FillResults  BY <1>2, ResultsLoad DEF FillResults
<1>3. CASE FillParts  BY <1>3, PartsLoad DEF FillParts
<1>4. CASE AgainResults  BY <1>4, ResultsLoad DEF AgainResults
<1>5. CASE AgainParts  BY <1>5, PartsLoad DEF AgainParts
<1>6. CASE Filled  BY <1>6, FilledLoads
<1>7. CASE AskLoader  BY <1>7, AskLoaderLoads
<1>8. CASE AskCache
  <2> DEFINE g == mem.getting \cup {SliceOf(cur)}
  <2>1. /\ pc = "try" /\ UNCHANGED <<calls, loader, loadedParts, cur>>
        /\ mem' = mem \/ mem' = [mem EXCEPT !.getting = g]
    BY <1>8 DEF AskCache, Others
  <2> HIDE DEF g
  <2>2. mem' = mem \/ mem' = MemOf(mem.have, mem.looked, g, mem.loading, mem.failed)
    BY <1>1, <2>1 DEF MemShape, MemOf
  <2>3. MemShape(mem') /\ mem'.failed = mem.failed /\ mem'.loading = mem.loading
    BY <1>1, <2>2 DEF MemShape, MemOf
  <2> QED  BY <1>1, <2>1, <2>3, CalmStep
<1>9. CASE FillFailed \/ StartWaitingCache \/ StartWaitingParts \/ Acquire
  <2>1. pc # "idle" /\ UNCHANGED <<calls, loader, loadedParts, mem, cur>>
    BY <1>9 DEF FillFailed, StartWaitingCache, StartWaitingParts, Acquire, Others
  <2> QED  BY <1>1, <2>1, CalmStep
<1> QED
  BY <1>2, <1>3, <1>4, <1>5, <1>6, <1>7, <1>8, <1>9 DEF Thread

LEMMA LoadInit == Init => LInv
<1> SUFFICES ASSUME Init  PROVE LInv  OBVIOUS
<1> DEFINE z == [p \in Parts |-> 0]
<1>1. /\ mem = MemOf({}, {}, {}, EmptyQueue, FALSE) /\ pc = "idle" /\ calls = <<>>
      /\ loadedParts = <<>>
      /\ loader = LoaderOf(EmptyQueue, {}, {}, z, {})
  BY DEF Init, MemOf, LoaderOf
<1>2. z \in [Parts -> Nat]  OBVIOUS
<1> HIDE DEF z
<1>3. EmptyQueue.values = {} /\ QueueShape(EmptyQueue)  BY DEF EmptyQueue, QueueShape
<1>4. MemShape(mem) /\ mem.loading.values = {}
  BY <1>1, <1>3 DEF MemShape, MemOf
<1>5. LoaderShape(loader) /\ SentOf(loader)
  BY <1>1, <1>2, <1>3 DEF LoaderShape, LoaderOf, SentOf
<1>6. calls \in Seq(Posted) /\ loadedParts \in Seq(Parts \cup {Failed})  BY <1>1
<1> QED  BY <1>1, <1>4, <1>5, <1>6 DEF LInv, LoadShape, AllHeld

LEMMA LoadNext == LInv /\ [Next]_vars => LInv'
<1> SUFFICES ASSUME LInv, [Next]_vars  PROVE LInv'  OBVIOUS
<1>1. MemShape(mem) /\ (pc # "idle" => cur \in Parts)  BY DEF LInv, LoadShape
<1>2. ASSUME NEW p \in Parts, Read(p)  PROVE LInv'
  <2>1. cur' = p /\ UNCHANGED <<calls, loader, loadedParts, mem>>
    BY <1>2 DEF Read, Others
  <2> QED  BY <1>1, <2>1, CalmStep
<1>3. ASSUME NEW p \in Parts, Server(p) \/ Refreshed(p)  PROVE LInv'
  BY <1>3, ServerLoads
<1>4. CASE Thread  BY <1>4, ThreadLoads
<1>5. CASE RunCall  BY <1>5, RunCallLoads
<1>6. CASE PartFired \/ PartWakes \/ Stop \/ UNCHANGED vars
  <2>1. UNCHANGED <<calls, loader, loadedParts, mem, pc, cur>>
    BY <1>6 DEF PartFired, PartWakes, Stop, thread, vars
  <2> QED  BY <1>1, <2>1, CalmStep
<1>7. CASE Cache  BY <1>7, CacheLoads
<1> QED  BY <1>2, <1>3, <1>4, <1>5, <1>6, <1>7 DEF Next, MainThread

\* A part the reader waits for was asked of the loader and not forgotten by it,
\* whatever was cancelled, asked for again, answered late or had its file
\* reference expire; or the loader has told the reader that it failed.
THEOREM LoadingIsNeverForgotten == Spec => []LoadingIsOnItsWay
<1>1. Init => LInv  BY LoadInit
<1>2. LInv /\ [Next]_vars => LInv'  BY LoadNext
<1>3. LInv => LoadingIsOnItsWay
  <2> SUFFICES ASSUME LInv, ~Gone, NEW p \in mem.loading.values  PROVE OnItsWay(p)
    BY DEF LoadingIsOnItsWay, Gone
  <2>1. HeldBy(calls, HasOf(loader) \cup ToSet(loadedParts), p) /\ SentOf(loader)
    BY DEF LInv, AllHeld
  <2>2. CASE CalledIn(calls, p)  BY <2>2 DEF CalledIn, LoadOf, OnItsWay
  <2>3. CASE p \in HasOf(loader) \cup ToSet(loadedParts)
    BY <2>1, <2>3 DEF HasOf, SentOf, OnItsWay
  <2> QED  BY <2>1, <2>2, <2>3 DEF HeldBy
<1> QED  BY <1>1, <1>2, <1>3, PTL DEF Spec

-----------------------------------------------------------------------------
(* The slices: numbers. *)

LEMMA DivMod ==
    ASSUME NEW a \in Nat, NEW b \in Nat \ {0}
    PROVE  /\ a \div b \in Nat /\ a % b \in 0 .. b - 1
           /\ a = b * (a \div b) + (a % b)
OBVIOUS

LEMMA TimesMonotone ==
    ASSUME NEW k \in Nat, NEW a \in Nat, NEW b \in Nat, a <= b
    PROVE  k * a \in Nat /\ k * a <= k * b
<1>1. PICK d \in Nat : b = a + d  OBVIOUS
<1>2. k * d \in Nat /\ k * a \in Nat  OBVIOUS
<1>3. k * b = k * a + k * d  BY <1>1
<1> QED  BY <1>2, <1>3

\* What is assumed of a file.
LEMMA FileIs ==
    ASSUME file \in Files
    PROVE  /\ FileParts \in Nat \ {0} /\ LastSize \in Nat \ {0} /\ LastSize <= kPartSize
           /\ kPartSize \in Nat \ {0} /\ kPartsInSlice \in Nat \ {0}
           /\ kPartSize % 8 = 0
           /\ MaxOnlyInHeader \in Nat /\ MaxOnlyInHeader >= kPartsInSlice
           /\ MaxPartsInHeader \in Nat \ {0} /\ PreloadAhead \in Nat
           /\ \A r \in Reads :
                 /\ r[1] \in 0 .. FileParts - 1 /\ r[2] \in r[1] + 1 .. FileParts
BY SlicesAssumption
   DEF SlicesAssumption, FileParts, LastSize, MaxOnlyInHeader, MaxPartsInHeader,
       PreloadAhead, Reads

LEMMA NumbersAre ==
    ASSUME file \in Files
    PROVE  /\ LastSlice \in Nat /\ 0 \in Numbers /\ Numbers \subseteq Nat
           /\ ~isFullInHeader => /\ FileParts > kPartsInSlice
                                 /\ LastSlice >= 2 /\ 1 \in Numbers
<1> DEFINE F == FileParts
           K == kPartsInSlice
           L == (F + K - 1) \div K
<1>1. F \in Nat \ {0} /\ K \in Nat \ {0}
      /\ MaxOnlyInHeader \in Nat /\ MaxOnlyInHeader >= K
  BY FileIs
<1> HIDE DEF F, K
<1>2. L \in Nat /\ (F + K - 1) % K \in 0 .. K - 1
      /\ F + K - 1 = K * L + ((F + K - 1) % K)
  <2> DEFINE N == F + K - 1
  <2>1. N \in Nat  BY <1>1
  <2> HIDE DEF N
  <2>2. N \div K \in Nat /\ N % K \in 0 .. K - 1 /\ N = K * (N \div K) + (N % K)
    BY <1>1, <2>1, DivMod
  <2> QED  BY <2>2 DEF N
<1> HIDE DEF L
<1>3. ASSUME F > K PROVE L >= 2
  <2> SUFFICES ASSUME L <= 1 PROVE FALSE  BY <1>2
  <2>1. K * L <= K
    <3>1. L = 0 \/ L = 1  BY <1>2
    <3> QED  BY <1>1, <3>1
  <2>2. K * L \in Nat  BY <1>1, <1>2
  <2> QED  BY <1>1, <1>2, <1>3, <2>1, <2>2
<1>4. LastSlice = IF isFullInHeader THEN 0 ELSE L  BY DEF LastSlice, L, F, K
<1>5. ~isFullInHeader => F > K  BY <1>1 DEF isFullInHeader, F
<1> QED  BY <1>1, <1>2, <1>3, <1>4, <1>5 DEF Numbers, F, K

\* Where a part is kept in its slice.
Positions(n) ==
    IF n = 0 THEN 0 .. FileParts - 1
    ELSE {o \in 0 .. kPartsInSlice - 1 : SliceStart(n) + o < FileParts}

LEMMA SliceAtIs ==
    ASSUME file \in Files, ~isFullInHeader, NEW p \in 0 .. FileParts - 1
    PROVE  /\ SliceAt(p) \in Numbers /\ SliceAt(p) >= 1
           /\ SliceStart(SliceAt(p)) \in Nat
           /\ p - SliceStart(SliceAt(p)) \in 0 .. kPartsInSlice - 1
           /\ SliceAt(p) = 1 => p < kPartsInSlice
<1> DEFINE F == FileParts
           K == kPartsInSlice
           L == (F + K - 1) \div K
           q == p \div K
<1>1. F \in Nat \ {0} /\ K \in Nat \ {0}  BY FileIs
<1> HIDE DEF F, K
<1>2. L \in Nat /\ (F + K - 1) % K \in 0 .. K - 1
      /\ F + K - 1 = K * L + ((F + K - 1) % K)
  <2> DEFINE N == F + K - 1
  <2>1. N \in Nat  BY <1>1
  <2> HIDE DEF N
  <2>2. N \div K \in Nat /\ N % K \in 0 .. K - 1 /\ N = K * (N \div K) + (N % K)
    BY <1>1, <2>1, DivMod
  <2> QED  BY <2>2 DEF N
<1>3. q \in Nat /\ p % K \in 0 .. K - 1 /\ p = K * q + (p % K)
  <2>1. p \in Nat  OBVIOUS
  <2> QED  BY <1>1, <2>1, DivMod
<1>4. p <= F - 1 /\ p \in Nat  BY DEF F
<1> HIDE DEF L, q
<1>5. q < L
  <2> SUFFICES ASSUME L <= q PROVE FALSE  BY <1>2, <1>3
  <2>1. K * L <= K * q /\ K * L \in Nat  BY <1>1, <1>2, <1>3, TimesMonotone
  <2>2. K * q \in Nat  BY <1>1, <1>3
  <2> QED  BY <1>1, <1>2, <1>3, <1>4, <2>1, <2>2
<1>6. SliceAt(p) = q + 1  BY DEF SliceAt, q, K
<1>7. LastSlice = L  BY DEF LastSlice, L, F, K
<1>8. SliceStart(q + 1) = K * q
  <2>1. SliceStart(q + 1) = ((q + 1) - 1) * K  BY <1>3 DEF SliceStart, K
  <2> QED  BY <1>1, <1>3, <2>1
<1>9. K * q \in Nat /\ (q = 0 => K * q = 0)  BY <1>1, <1>3
<1> QED  BY <1>1, <1>2, <1>3, <1>4, <1>5, <1>6, <1>7, <1>8, <1>9 DEF Numbers, K

LEMMA SliceStartIs ==
    ASSUME file \in Files, NEW n \in Numbers
    PROVE  SliceStart(n) \in Nat
<1>1. kPartsInSlice \in Nat /\ n \in Nat  BY FileIs, NumbersAre
<1>2. CASE n = 0  BY <1>2 DEF SliceStart
<1>3. CASE n # 0
  <2>1. n - 1 \in Nat  BY <1>1, <1>3
  <2>2. (n - 1) * kPartsInSlice \in Nat  BY <1>1, <2>1
  <2> QED  BY <1>3, <2>2 DEF SliceStart
<1> QED  BY <1>2, <1>3

LEMMA MaxSliceSizeIs ==
    ASSUME file \in Files, ~isFullInHeader
    PROVE  maxSliceSize(1) = kPartsInSlice * kPartSize
<1>1. LastSlice >= 2 /\ LastSlice \in Nat  BY NumbersAre
<1> QED  BY <1>1 DEF maxSliceSize

-----------------------------------------------------------------------------
(* The slices: entries of the cache. *)

LEMMA SizesApart ==
    ASSUME file \in Files, NEW a \in Nat, NEW d \in {1, 2}, a % kPartSize = 0
    PROVE  (a + d) % kPartSize # 0
<1> DEFINE P == kPartSize
           q == a \div P
           r == (a + d) \div P
<1>1. P \in Nat \ {0} /\ P % 8 = 0  BY FileIs
<1> HIDE DEF P
<1>2. P >= 8  BY <1>1
<1>3. q \in Nat /\ a = P * q
  <2>1. q \in Nat /\ a = P * q + (a % P)  BY <1>1, DivMod
  <2>2. P * q \in Nat /\ a % P = 0  BY <1>1, <2>1 DEF P
  <2> HIDE DEF q
  <2> QED  BY <2>1, <2>2
<1> SUFFICES ASSUME (a + d) % P = 0 PROVE FALSE  BY DEF P
<1>4. r \in Nat /\ a + d = P * r
  <2> DEFINE N == a + d
  <2>1. N \in Nat  OBVIOUS
  <2> HIDE DEF N
  <2>2. N \div P \in Nat /\ N = P * (N \div P) + (N % P)  BY <1>1, <2>1, DivMod
  <2>3. N % P = 0  BY DEF N
  <2>4. P * (N \div P) \in Nat  BY <1>1, <2>2
  <2>5. N \div P = r  BY DEF N
  <2> HIDE DEF r
  <2> QED  BY <2>2, <2>3, <2>4, <2>5 DEF N
<1> HIDE DEF q, r
<1>5. P * q \in Nat /\ P * r \in Nat  BY <1>1, <1>3, <1>4
<1>6. q + 1 <= r
  <2> SUFFICES ASSUME r <= q PROVE FALSE  BY <1>3, <1>4
  <2>1. P * r <= P * q  BY <1>1, <1>3, <1>4, TimesMonotone
  <2> QED  BY <1>3, <1>4, <1>5, <2>1
<1>7. P * (q + 1) <= P * r  BY <1>1, <1>3, <1>4, <1>6, TimesMonotone
<1>8. P * (q + 1) = P * q + P  BY <1>1, <1>3
<1> QED  BY <1>1, <1>2, <1>3, <1>4, <1>5, <1>7, <1>8

\* An entry is padded by three bytes at most, and never taken for a contiguous one.
LEMMA PaddedIs ==
    ASSUME file \in Files, NEW size \in Nat, NEW max
    PROVE  /\ Padded(size, max) \in size .. size + 3
           /\ ~IsContiguousSerialization(Padded(size, max), max)
<1> DEFINE S == {k \in size .. size + 3 : ~IsContiguousSerialization(k, max)}
<1>1. S # {}
  <2> SUFFICES ASSUME \A k \in size .. size + 3 :
                          k % kPartSize = 0 \/ k = max
               PROVE FALSE
    BY DEF IsContiguousSerialization
  <2>1. /\ size \in size .. size + 3 /\ size + 1 \in size .. size + 3
        /\ size + 2 \in size .. size + 3
    OBVIOUS
  <2>2. size % kPartSize = 0 =>
           (size + 1) % kPartSize # 0 /\ (size + 2) % kPartSize # 0
    BY SizesApart
  <2>3. (size + 1) % kPartSize = 0 => ((size + 1) + 1) % kPartSize # 0
    <3>1. size + 1 \in Nat  OBVIOUS
    <3> QED  BY <3>1, SizesApart
  <2>4. (size + 1) + 1 = size + 2  OBVIOUS
  <2> QED  BY <2>1, <2>2, <2>3, <2>4
<1>2. S \subseteq Nat  OBVIOUS
<1>3. Min(S) \in S
  <2> HIDE DEF S
  <2> QED  BY <1>1, <1>2, NatMin
<1> QED  BY <1>3 DEF Padded

\* The parts of a slice or of an entry lie where they belong.
InPlace(parts, n) ==
    /\ DOMAIN parts \subseteq Positions(n)
    /\ \A o \in DOMAIN parts : parts[o] = SliceStart(n) + o

LEMMA PositionsFinite ==
    ASSUME file \in Files, NEW n, NEW S, S \subseteq Positions(n)
    PROVE  IsFiniteSet(S) /\ Cardinality(S) \in Nat /\ S \subseteq Nat
<1>1. FileParts \in Nat /\ kPartsInSlice \in Nat  BY FileIs
<1>2. IsFiniteSet(Positions(n)) /\ Positions(n) \subseteq Nat
  <2>1. IsFiniteSet(0 .. FileParts - 1)  BY <1>1, FS_Interval
  <2>2. IsFiniteSet(0 .. kPartsInSlice - 1)  BY <1>1, FS_Interval
  <2> DEFINE P == {o \in 0 .. kPartsInSlice - 1 : SliceStart(n) + o < FileParts}
  <2>3. P \subseteq 0 .. kPartsInSlice - 1  OBVIOUS
  <2> HIDE DEF P
  <2>4. IsFiniteSet(P)
    <3> DEFINE Q == 0 .. kPartsInSlice - 1
    <3> HIDE DEF Q
    <3> QED  BY <2>2, <2>3, FS_Subset DEF Q
  <2>5. Positions(n) = IF n = 0 THEN 0 .. FileParts - 1 ELSE P  BY DEF Positions, P
  <2> QED  BY <1>1, <2>1, <2>3, <2>4, <2>5
<1>3. IsFiniteSet(S)  BY <1>2, FS_Subset
<1> QED  BY <1>2, <1>3, FS_CardinalityType

LEMMA ComplexSizeIs ==
    ASSUME file \in Files, NEW parts, NEW n, DOMAIN parts \subseteq Positions(n)
    PROVE  ComplexSize(parts) \in Nat
<1> DEFINE last == {o \in DOMAIN parts : parts[o] = FileParts - 1}
           a == Cardinality(DOMAIN parts \ last)
           b == Cardinality(last)
<1>1. a \in Nat /\ b \in Nat /\ Cardinality(DOMAIN parts) \in Nat
  BY PositionsFinite
<1>2. kPartSize \in Nat /\ LastSize \in Nat  BY FileIs
<1>3. Bytes(parts) = kPartSize * a + LastSize * b  BY DEF Bytes
<1> HIDE DEF a, b
<1>4. kPartSize * a \in Nat /\ LastSize * b \in Nat  BY <1>1, <1>2
<1> QED  BY <1>1, <1>3, <1>4 DEF ComplexSize

\* What follows the header in a good entry has no size of whole parts.
LEMMA RestIsNotContiguous ==
    ASSUME file \in Files, ~isFullInHeader, NEW rest, InPlace(rest, 1),
           NEW pad \in 0 .. 3
    PROVE  ~IsContiguousSerialization(ComplexSize(rest) + pad, maxSliceSize(1))
<1> DEFINE P == kPartSize
           K == kPartsInSlice
           k == Cardinality(DOMAIN rest)
           last == {o \in DOMAIN rest : rest[o] = FileParts - 1}
           N == ComplexSize(rest) + pad
<1>1. /\ P \in Nat \ {0} /\ P % 8 = 0 /\ K \in Nat \ {0}
      /\ FileParts \in Nat /\ FileParts > K
  BY FileIs, NumbersAre
<1>2. DOMAIN rest \subseteq 0 .. K - 1 /\ \A o \in DOMAIN rest : rest[o] = o
  <2>1. Positions(1) \subseteq 0 .. K - 1 /\ SliceStart(1) = (1 - 1) * K
    BY DEF Positions, SliceStart
  <2>2. SliceStart(1) = 0  BY <1>1, <2>1
  <2> QED  BY <1>1, <2>1, <2>2 DEF InPlace
<1>3. last = {}  BY <1>1, <1>2
<1>4. k \in Nat  BY PositionsFinite DEF InPlace
<1>5. Bytes(rest) = P * k
  <2>1. Bytes(rest) = P * Cardinality(DOMAIN rest \ last) + LastSize * Cardinality(last)
    BY DEF Bytes
  <2>2. Cardinality(last) = 0 /\ DOMAIN rest \ last = DOMAIN rest
    BY <1>3, FS_EmptySet
  <2>3. Bytes(rest) = P * k + LastSize * 0  BY <2>1, <2>2
  <2>4. LastSize \in Nat  BY FileIs
  <2> HIDE DEF k, P
  <2>5. P * k \in Nat  BY <1>1, <1>4
  <2> QED  BY <2>3, <2>4, <2>5
<1>6. N = 4 + 8 * k + P * k + pad  BY <1>5 DEF ComplexSize
<1>7. PICK m \in Nat : P = 8 * m
  <2> DEFINE m == P \div 8
  <2>1. m \in Nat /\ P = 8 * m  BY <1>1
  <2> QED  BY <2>1
<1>8. maxSliceSize(1) = K * P  BY MaxSliceSizeIs
<1> HIDE DEF P, K, k, last
<1>9. ASSUME NEW q \in Nat, N = P * q PROVE FALSE
  <2>1. P * q = 8 * (m * q) /\ P * k = 8 * (m * k)  BY <1>4, <1>7, <1>9
  <2> DEFINE x == m * q
             y == m * k
  <2>2. x \in Nat /\ y \in Nat  BY <1>4, <1>7, <1>9
  <2> HIDE DEF x, y
  <2>3. 8 * x = 4 + 8 * k + 8 * y + pad  BY <1>6, <1>9, <2>1 DEF x, y
  <2> QED  BY <1>4, <2>2, <2>3
<1>10. N \in Nat
  <2>1. P * k \in Nat  BY <1>1, <1>4
  <2> HIDE DEF N
  <2> QED  BY <1>4, <1>6, <2>1
<1>11. N % P # 0
  <2> SUFFICES ASSUME N % P = 0 PROVE FALSE  OBVIOUS
  <2> DEFINE q == N \div P
  <2> HIDE DEF N
  <2>1. q \in Nat /\ N = P * q + (N % P)  BY <1>1, <1>10, DivMod
  <2> HIDE DEF q
  <2>2. P * q \in Nat  BY <1>1, <2>1
  <2>3. N = P * q  BY <2>1, <2>2
  <2> QED  BY <1>9, <2>1, <2>3 DEF N
<1>12. N # K * P
  <2> SUFFICES ASSUME N = K * P PROVE FALSE  OBVIOUS
  <2> HIDE DEF N
  <2>1. N = P * K  BY <1>1
  <2> QED  BY <1>1, <1>9, <2>1 DEF N
<1> QED  BY <1>8, <1>11, <1>12 DEF IsContiguousSerialization, P

-----------------------------------------------------------------------------
(* The slices: each operation leaves every part where it belongs. *)

\* The fields of the reader, and of each slice.
Shaped(x) ==
    /\ {"slices", "mode", "used", "loading", "failed", "opened", "broken"} \subseteq DOMAIN x
    /\ DOMAIN x.slices = Numbers
    /\ \A n \in Numbers : {"parts", "flags"} \subseteq DOMAIN x.slices[n]

\* What holds of a reader between its operations.
Placed(x) ==
    /\ Shaped(x)
    /\ x.used \in Seq(Numbers \ {0})
    /\ x.mode = "Good" => ~isFullInHeader
    /\ \A n \in Numbers : InPlace(x.slices[n].parts, n)

\* What was put into an entry is what will be found in it.
EntryInPlace(e, n) ==
    /\ {"size", "flat", "parts", "rest"} \subseteq DOMAIN e
    /\ InPlace(e.parts, n) /\ InPlace(e.rest, 1)
    /\ e.flat \in BOOLEAN
    /\ ~e.flat => ~IsContiguousSerialization(e.size, maxSliceSize(n))
    /\ ~e.flat /\ n = 0 /\ ~isFullInHeader =>
          \/ ~IsContiguousSerialization(e.size - ComplexSize(e.parts), maxSliceSize(1))
          \/ e.size = ComplexSize(e.parts)

LEMMA WithKeeps ==
    ASSUME NEW x, Placed(x), NEW n \in Numbers, NEW on, NEW off
    PROVE  /\ Placed(With(x, n, on, off))
           /\ With(x, n, on, off).mode = x.mode
           /\ \A k \in Numbers : With(x, n, on, off).slices[k].parts = x.slices[k].parts
<1> DEFINE y == With(x, n, on, off)
<1>1. /\ Shaped(y) /\ y.mode = x.mode /\ y.used = x.used
      /\ \A k \in Numbers : y.slices[k].parts = x.slices[k].parts
  BY DEF Placed, Shaped, With
<1> HIDE DEF y
<1>2. Placed(y)  BY <1>1 DEF Placed
<1> QED  BY <1>1, <1>2 DEF y

LEMMA ExpectsKeeps ==
    ASSUME NEW x, Placed(x), NEW name, NEW condition
    PROVE  /\ Placed(Expects(x, name, condition))
           /\ Expects(x, name, condition).mode = x.mode
           /\ Expects(x, name, condition).slices = x.slices
<1> DEFINE y == Expects(x, name, condition)
<1>1. /\ Shaped(y) /\ y.mode = x.mode /\ y.used = x.used /\ y.slices = x.slices
  BY DEF Placed, Shaped, Expects
<1> HIDE DEF y
<1>2. Placed(y)  BY <1>1 DEF Placed
<1> QED  BY <1>1, <1>2 DEF y

\* A slice is given other parts, each of them in place.
LEMMA PartsReplaced ==
    ASSUME NEW x, Placed(x), NEW n \in Numbers, NEW parts, InPlace(parts, n)
    PROVE  /\ Placed([x EXCEPT !.slices[n].parts = parts])
           /\ [x EXCEPT !.slices[n].parts = parts].mode = x.mode
<1> DEFINE y == [x EXCEPT !.slices[n].parts = parts]
<1>1. /\ Shaped(y) /\ y.mode = x.mode /\ y.used = x.used
      /\ \A k \in Numbers : y.slices[k].parts = IF k = n THEN parts ELSE x.slices[k].parts
  BY DEF Placed, Shaped
<1> HIDE DEF y
<1>2. Placed(y)  BY <1>1 DEF Placed
<1> QED  BY <1>1, <1>2 DEF y

LEMMA EmplacedInPlace ==
    ASSUME NEW n, NEW held, InPlace(held, n), NEW found, InPlace(found, n)
    PROVE  InPlace(Emplaced(held, found), n)
BY DEF InPlace, Emplaced

LEMMA AddPartKeeps ==
    ASSUME NEW x, Placed(x), NEW n \in Numbers, NEW o \in Positions(n),
           NEW bytes, bytes = SliceStart(n) + o
    PROVE  /\ Placed(addPart(x, n, o, bytes))
           /\ addPart(x, n, o, bytes).mode = x.mode
<1> DEFINE y == Expects(x, "addPart", o \notin Holds(x, n))
           added == Emplaced(y.slices[n].parts, [i \in {o} |-> bytes])
           z == [y EXCEPT !.slices[n].parts = added]
<1>1. Placed(y) /\ y.mode = x.mode /\ y.slices = x.slices  BY ExpectsKeeps
<1>2. InPlace(added, n)
  <2> DEFINE new == [i \in {o} |-> bytes]
  <2>1. InPlace(y.slices[n].parts, n)  BY <1>1 DEF Placed
  <2>2. InPlace(new, n)  BY DEF InPlace
  <2> HIDE DEF new
  <2>3. InPlace(Emplaced(y.slices[n].parts, new), n)  BY <2>1, <2>2, EmplacedInPlace
  <2> QED  BY <2>3 DEF new
<1> HIDE DEF y, added
<1>3. Placed(z) /\ z.mode = x.mode  BY <1>1, <1>2, PartsReplaced
<1>4. z = [y EXCEPT !.slices[n].parts = Emplaced(@, [i \in {o} |-> bytes])]  BY DEF added
<1> HIDE DEF z
<1>5. addPart(x, n, o, bytes) = IF Has(x, n, "loaded") THEN With(z, n, {"changed"}, {}) ELSE z
  BY <1>4 DEF addPart, y
<1>6. Placed(With(z, n, {"changed"}, {})) /\ With(z, n, {"changed"}, {}).mode = z.mode
  BY <1>3, WithKeeps
<1> QED  BY <1>3, <1>5, <1>6

LEMMA HeaderDoneKeeps ==
    ASSUME NEW x, Placed(x), NEW fromCache \in BOOLEAN
    PROVE  Placed(headerDone(x, fromCache))
<1> DEFINE mode == IF isFullInHeader THEN "Full"
                   ELSE IF computeIsGoodHeader(x) THEN "Good" ELSE "Small"
           y == [x EXCEPT !.mode = mode]
           condition == \A n \in Numbers \ {0} :
                            ~Has(x, n, "loading") /\ ~Has(x, n, "loaded")
           e == Expects(y, "headerDone", condition)
           z == [e EXCEPT !.slices = [n \in Numbers |->
                       IF n = 0 THEN @[0]
                       ELSE [x.slices[n] EXCEPT !.flags = @ \cup {"loaded"}]]]
<1>1. Shaped(y) /\ y.used = x.used /\ y.slices = x.slices /\ y.mode = mode
  BY DEF Placed, Shaped
<1>2. mode = "Good" => ~isFullInHeader  OBVIOUS
<1> HIDE DEF y, mode
<1>3. Placed(y)  BY <1>1, <1>2 DEF Placed
<1> HIDE DEF condition
<1>4. Placed(e) /\ e.slices = x.slices  BY <1>1, <1>3, ExpectsKeeps
<1> HIDE DEF e
<1>5. /\ Shaped(z) /\ z.used = e.used /\ z.mode = e.mode
      /\ \A n \in Numbers : z.slices[n].parts = e.slices[n].parts
  BY <1>4 DEF Placed, Shaped
<1> HIDE DEF z
<1>6. Placed(z)  BY <1>4, <1>5 DEF Placed
<1>7. headerDone(x, fromCache) = IF x.mode # "Unknown" THEN x
                                 ELSE IF fromCache THEN y ELSE z
  BY DEF headerDone, y, mode, z, e, condition
<1> QED  BY <1>3, <1>6, <1>7

\* The parts of the header are added to slices at their place.
LEMMA ApplyPartsKeeps ==
    ASSUME file \in Files, ~isFullInHeader, NEW x, Placed(x),
           NEW parts, parts \subseteq Holds(x, 0)
    PROVE  Placed(applyParts(x, parts)) /\ applyParts(x, parts).mode = x.mode
<1> DEFINE given(n) == {p - SliceStart(n) : p \in {q \in parts : SliceAt(q) = n}}
           condition == \A n \in Numbers : given(n) \cap Holds(x, n) = {}
           e == Expects(x, "addPart", condition)
           new(n) == [o \in given(n) |-> e.slices[0].parts[SliceStart(n) + o]]
           z == [e EXCEPT !.slices = [n \in Numbers |->
                    IF given(n) = {} THEN e.slices[n]
                    ELSE [parts |-> Emplaced(e.slices[n].parts, new(n)),
                          flags |-> IF Has(x, n, "loaded") THEN e.slices[n].flags \cup {"changed"}
                                    ELSE e.slices[n].flags]]]
<1>1. Placed(e) /\ e.mode = x.mode /\ e.slices = x.slices
  <2> HIDE DEF condition
  <2> QED  BY ExpectsKeeps
<1>2. applyParts(x, parts) = z  BY DEF applyParts
<1> HIDE DEF e
<1>3. parts \subseteq 0 .. FileParts - 1
      /\ \A p \in parts : e.slices[0].parts[p] = p
  <2>1. InPlace(e.slices[0].parts, 0) /\ parts \subseteq DOMAIN e.slices[0].parts
    BY <1>1, NumbersAre DEF Placed, Holds
  <2>2. Positions(0) = 0 .. FileParts - 1 /\ SliceStart(0) = 0
    BY DEF Positions, SliceStart
  <2>3. FileParts \in Nat  BY FileIs
  <2> QED  BY <2>1, <2>2, <2>3 DEF InPlace
<1>4. ASSUME NEW n \in Numbers, given(n) # {}
      PROVE  InPlace(Emplaced(e.slices[n].parts, new(n)), n)
  <2>1. InPlace(e.slices[n].parts, n)  BY <1>1 DEF Placed
  <2>2. ASSUME NEW o \in given(n)
        PROVE  o \in Positions(n) /\ e.slices[0].parts[SliceStart(n) + o] = SliceStart(n) + o
    <3>1. PICK p \in parts : SliceAt(p) = n /\ o = p - SliceStart(n)  OBVIOUS
    <3>2. p \in 0 .. FileParts - 1  BY <1>3
    <3>3. n >= 1 /\ SliceStart(n) \in Nat /\ o \in 0 .. kPartsInSlice - 1
      BY <3>1, <3>2, SliceAtIs
    <3>4. SliceStart(n) + o = p  BY <3>1, <3>2, <3>3
    <3>5. o \in Positions(n)
      <4>1. SliceStart(n) + o < FileParts  BY <3>2, <3>4, FileIs
      <4> QED  BY <3>3, <4>1 DEF Positions
    <3> QED  BY <1>3, <3>4, <3>5
  <2> HIDE DEF given
  <2>3. InPlace(new(n), n)  BY <2>2 DEF InPlace
  <2> HIDE DEF new
  <2> QED  BY <2>1, <2>3, EmplacedInPlace
<1> HIDE DEF given, new
<1>5. /\ Shaped(z) /\ z.used = e.used /\ z.mode = e.mode
      /\ \A n \in Numbers : z.slices[n].parts =
             IF given(n) = {} THEN e.slices[n].parts ELSE Emplaced(e.slices[n].parts, new(n))
  <2> DEFINE S == [n \in Numbers |->
                    IF given(n) = {} THEN e.slices[n]
                    ELSE [parts |-> Emplaced(e.slices[n].parts, new(n)),
                          flags |-> IF Has(x, n, "loaded") THEN e.slices[n].flags \cup {"changed"}
                                    ELSE e.slices[n].flags]]
  <2>1. Shaped(e)  BY <1>1 DEF Placed
  <2>2. DOMAIN S = Numbers  OBVIOUS
  <2>3. ASSUME NEW n \in Numbers
        PROVE  /\ {"parts", "flags"} \subseteq DOMAIN S[n]
               /\ S[n].parts = IF given(n) = {} THEN e.slices[n].parts
                               ELSE Emplaced(e.slices[n].parts, new(n))
    BY <2>1 DEF Shaped
  <2>4. z = [e EXCEPT !.slices = S]  OBVIOUS
  <2> HIDE DEF S, z
  <2>5. /\ z.slices = S /\ z.used = e.used /\ z.mode = e.mode
        /\ {"slices", "mode", "used", "loading", "failed", "opened", "broken"} \subseteq DOMAIN z
    BY <2>1, <2>4 DEF Shaped
  <2> QED  BY <2>2, <2>3, <2>5 DEF Shaped
<1> HIDE DEF z
<1>6. \A n \in Numbers : InPlace(z.slices[n].parts, n)
  BY <1>1, <1>4, <1>5 DEF Placed
<1> QED  BY <1>1, <1>2, <1>5, <1>6 DEF Placed

LEMMA ApplyHeaderKeeps ==
    ASSUME file \in Files, NEW x, Placed(x)
    PROVE  Placed(applyHeaderCacheData(x))
<1> DEFINE first == {p \in Holds(x, 0) : SliceAt(p) = 1}
<1>1. first \subseteq Holds(x, 0) /\ Holds(x, 0) \subseteq Holds(x, 0)  OBVIOUS
<1>2. applyHeaderCacheData(x) \in {x, applyParts(x, first), headerDone(x, TRUE),
                                   headerDone(applyParts(x, Holds(x, 0)), TRUE)}
  BY DEF applyHeaderCacheData
<1>3. CASE isFullInHeader
  <2>1. x.mode # "Good"  BY <1>3 DEF Placed
  <2>2. applyHeaderCacheData(x) \in {x, headerDone(x, TRUE)}
    BY <1>3, <2>1 DEF applyHeaderCacheData
  <2> QED  BY <2>2, HeaderDoneKeeps
<1>4. CASE ~isFullInHeader
  <2> HIDE DEF first
  <2>1. Placed(applyParts(x, first)) /\ Placed(applyParts(x, Holds(x, 0)))
    BY <1>1, <1>4, ApplyPartsKeeps
  <2>2. Placed(headerDone(x, TRUE)) /\ Placed(headerDone(applyParts(x, Holds(x, 0)), TRUE))
    BY <2>1, HeaderDoneKeeps
  <2> QED  BY <1>2, <2>1, <2>2
<1> QED  BY <1>3, <1>4

\* What is found in an entry lies in place.
LEMMA DecodedInPlace ==
    ASSUME NEW n, NEW e, EntryInPlace(e, n)
    PROVE  InPlace(Decoded(e.size, e.flat, e.parts, maxSliceSize(n)), n)
<1>1. InPlace(<<>>, n)  BY DEF InPlace
<1>2. Decoded(e.size, e.flat, e.parts, maxSliceSize(n)) \in {<<>>, e.parts}
  BY DEF EntryInPlace, Decoded
<1> QED  BY <1>1, <1>2 DEF EntryInPlace

LEMMA RestInPlace ==
    ASSUME file \in Files, ~isFullInHeader, NEW e, EntryInPlace(e, 0), ~e.flat
    PROVE  InPlace(Decoded(e.size - ComplexSize(e.parts), FALSE, e.rest, maxSliceSize(1)), 1)
<1> DEFINE size == e.size - ComplexSize(e.parts)
<1>1. InPlace(<<>>, 1)  BY DEF InPlace
<1>2. CASE ~IsContiguousSerialization(size, maxSliceSize(1))
  <2>1. Decoded(size, FALSE, e.rest, maxSliceSize(1)) = e.rest  BY <1>2 DEF Decoded
  <2> QED  BY <2>1 DEF EntryInPlace
<1>3. CASE IsContiguousSerialization(size, maxSliceSize(1))
  <2>1. e.size = ComplexSize(e.parts)  BY <1>3 DEF EntryInPlace
  <2>2. ComplexSize(e.parts) \in Nat  BY ComplexSizeIs DEF EntryInPlace, InPlace
  <2>3. size = 0  BY <2>1, <2>2
  <2> DEFINE P == kPartSize
             q == (P - 1) \div P
             none == [o \in 0 .. (size + P - 1) \div P - 1 |-> Junk]
  <2>4. P \in Nat \ {0}  BY FileIs
  <2> HIDE DEF P
  <2>5. q = 0
    <3> DEFINE N == P - 1
    <3>1. N \in Nat  BY <2>4
    <3> HIDE DEF N
    <3>2. N \div P \in Nat /\ N = P * (N \div P) + (N % P) /\ N % P \in Nat
      BY <2>4, <3>1, DivMod
    <3> DEFINE d == N \div P
    <3> HIDE DEF d
    <3>3. d \in Nat /\ N = P * d + (N % P)  BY <3>2 DEF d
    <3>4. d >= 1 => P * 1 <= P * d  BY <2>4, <3>3, TimesMonotone
    <3>5. P * d \in Nat  BY <2>4, <3>3
    <3>6. N < P /\ P * 1 = P  BY <2>4 DEF N
    <3>7. d = 0
      <4> DEFINE whole == P * d
                 part == N % P
      <4>1. whole \in Nat /\ part \in Nat /\ N = whole + part  BY <3>2, <3>3, <3>5
      <4>2. d >= 1 => P <= whole  BY <3>4, <3>6
      <4> HIDE DEF whole, part
      <4> QED  BY <2>4, <3>3, <3>6, <4>1, <4>2
    <3> QED  BY <3>7 DEF d, N
  <2> HIDE DEF q, size
  <2>6. size + P - 1 = P - 1  BY <2>3, <2>4
  <2>7. (size + P - 1) \div P = 0  BY <2>5, <2>6 DEF q
  <2>8. DOMAIN none = {}  BY <2>7
  <2>9. InPlace(none, 1)  BY <2>8 DEF InPlace
  <2>10. Decoded(size, FALSE, e.rest, maxSliceSize(1)) \in {<<>>, none}
    BY <1>3 DEF Decoded, P, size
  <2> HIDE DEF none
  <2> QED  BY <1>1, <2>9, <2>10 DEF size
<1> QED  BY <1>2, <1>3

LEMMA ProcessDataKeeps ==
    ASSUME NEW x, Placed(x), NEW n \in Numbers, NEW found, InPlace(found, n)
    PROVE  /\ Placed(processCacheData(x, n, found))
           /\ processCacheData(x, n, found).mode = x.mode
<1> DEFINE y == [x EXCEPT !.slices[n].parts = Emplaced(x.slices[n].parts, found)]
<1>1. InPlace(Emplaced(x.slices[n].parts, found), n)  BY EmplacedInPlace DEF Placed
<1>2. Placed(y) /\ y.mode = x.mode  BY <1>1, PartsReplaced
<1>3. processCacheData(x, n, found) = With(y, n, {"loaded"}, {"loading"})
  BY DEF processCacheData
<1> HIDE DEF y
<1> QED  BY <1>2, <1>3, WithKeeps

LEMMA ProcessSliceKeeps ==
    ASSUME NEW x, Placed(x), NEW n \in Numbers, NEW found, InPlace(found, n)
    PROVE  Placed(processSlice(x, n, found)) /\ processSlice(x, n, found).mode = x.mode
BY ProcessDataKeeps DEF processSlice

LEMMA ProcessHeaderKeeps ==
    ASSUME file \in Files, NEW x, Placed(x), NEW e, EntryInPlace(e, 0)
    PROVE  Placed(processHeader(x, e))
<1> DEFINE y == IF isGoodHeader(x) /\ Has(x, 1, "loading")
                THEN With(x, 0, {"loading"}, {"loaded"}) ELSE x
           found == Decoded(e.size, e.flat, e.parts, maxSliceSize(0))
           d == processCacheData(y, 0, found)
           z == applyHeaderCacheData(d)
           rest == Decoded(e.size - ComplexSize(e.parts), FALSE, e.rest, maxSliceSize(1))
           w == With(z, 1, {"loading"}, {})
           firstFound == IF e.flat THEN <<>> ELSE rest
           r == processSlice(w, 1, firstFound)
<1>1. 0 \in Numbers  BY NumbersAre
<1>2. Placed(y)  BY <1>1, WithKeeps
<1>3. InPlace(found, 0)  BY DecodedInPlace
<1> HIDE DEF y, found
<1>4. Placed(d)  BY <1>1, <1>2, <1>3, ProcessDataKeeps
<1> HIDE DEF d
<1>5. Placed(z)  BY <1>4, ApplyHeaderKeeps
<1> HIDE DEF z
<1>6. ASSUME isGoodHeader(z) PROVE Placed(r)
  <2>1. ~isFullInHeader  BY <1>5, <1>6 DEF Placed, isGoodHeader
  <2>2. 1 \in Numbers  BY <2>1, NumbersAre
  <2>3. Placed(w)  BY <1>5, <2>2, WithKeeps
  <2>4. InPlace(firstFound, 1)
    <3>1. InPlace(<<>>, 1)  BY DEF InPlace
    <3>2. ~e.flat => InPlace(rest, 1)  BY <2>1, RestInPlace
    <3> HIDE DEF rest
    <3> QED  BY <3>1, <3>2
  <2> HIDE DEF w, firstFound
  <2> QED  BY <2>2, <2>3, <2>4, ProcessSliceKeeps
<1>7. processHeader(x, e) \in {x, z} \cup IF isGoodHeader(z) THEN {r} ELSE {}
  <2> HIDE DEF r
  <2> QED  BY DEF processHeader, y, found, d, z, r, w, firstFound, rest
<1> HIDE DEF r
<1> QED  BY <1>5, <1>6, <1>7

\* The cache, or what was written of a reader.
Stored(c) == DOMAIN c = Numbers /\ \A n \in Numbers : EntryInPlace(c[n], n)

LEMMA CacheResultsKeep ==
    ASSUME file \in Files, Stored(cache), NEW x, Placed(x), NEW got
    PROVE  Placed(processCacheResults(x, got))
<1> DEFINE h == IF 0 \in got THEN processHeader(x, cache[0]) ELSE x
           found(n) == Decoded(cache[n].size, cache[n].flat, cache[n].parts, maxSliceSize(n))
           S == [n \in Numbers |->
                    IF n \in got \ {0} THEN processSlice(h, n, found(n)).slices[n]
                    ELSE h.slices[n]]
           z == [h EXCEPT !.slices = S]
<1>1. processCacheResults(x, got) = z  BY DEF processCacheResults
<1>2. Placed(h)
  <2>1. EntryInPlace(cache[0], 0)  BY NumbersAre DEF Stored
  <2> QED  BY <2>1, ProcessHeaderKeeps
<1>3. ASSUME NEW n \in Numbers PROVE Placed(processSlice(h, n, found(n)))
  <2>1. InPlace(found(n), n)  BY DecodedInPlace DEF Stored
  <2> HIDE DEF h, found
  <2> QED  BY <1>2, <2>1, ProcessSliceKeeps
<1> HIDE DEF h, found
<1>4. /\ DOMAIN S = Numbers
      /\ \A n \in Numbers : /\ {"parts", "flags"} \subseteq DOMAIN S[n]
                            /\ InPlace(S[n].parts, n)
  BY <1>2, <1>3 DEF Placed, Shaped
<1> HIDE DEF S
<1>5. /\ z.slices = S /\ z.used = h.used /\ z.mode = h.mode
      /\ {"slices", "mode", "used", "loading", "failed", "opened", "broken"} \subseteq DOMAIN z
  BY <1>2 DEF Placed, Shaped
<1> HIDE DEF z
<1>6. Placed(z)  BY <1>2, <1>4, <1>5 DEF Placed, Shaped
<1> QED  BY <1>1, <1>6

LEMMA ProcessPartKeeps ==
    ASSUME file \in Files, NEW x, Placed(x), NEW p \in 0 .. FileParts - 1
    PROVE  Placed(processPart(x, p))
<1> DEFINE n == SliceAt(p)
           y == IF x.mode = "Unknown" /\ Cardinality(Holds(x, 0)) < MaxPartsInHeader
                THEN addPart(x, 0, p, p) ELSE x
           z == addPart(y, n, p - SliceStart(n), p)
<1>1. 0 \in Numbers /\ p \in Positions(0) /\ SliceStart(0) = 0
  BY NumbersAre DEF Positions, SliceStart
<1>2. p = SliceStart(0) + p  BY <1>1
<1>3. Placed(addPart(x, 0, p, p))  BY <1>1, <1>2, AddPartKeeps
<1>4. Placed(y)  BY <1>3
<1> HIDE DEF y
<1>5. ~isFullInHeader => Placed(z)
  <2> SUFFICES ASSUME ~isFullInHeader PROVE Placed(z)  OBVIOUS
  <2>1. /\ n \in Numbers /\ n >= 1 /\ SliceStart(n) \in Nat
        /\ p - SliceStart(n) \in 0 .. kPartsInSlice - 1
    BY SliceAtIs
  <2>2. n # 0  BY <2>1, NumbersAre
  <2> HIDE DEF n
  <2>3. p = SliceStart(n) + (p - SliceStart(n))  BY <2>1
  <2>4. p - SliceStart(n) \in Positions(n)
    <3>1. SliceStart(n) + (p - SliceStart(n)) < FileParts  BY <2>3, FileIs
    <3> QED  BY <2>1, <2>2, <3>1 DEF Positions
  <2> QED  BY <1>4, <2>1, <2>3, <2>4, AddPartKeeps
<1> HIDE DEF z
<1>6. processPart(x, p) \in {addPart(x, 0, p, p), x} \cup IF isFullInHeader THEN {} ELSE {z}
  BY DEF processPart, y, z, n
<1> QED  BY <1>3, <1>5, <1>6

\* The parts one after the other.  upTo is a function that satisfies its recursive
\* definition, because such a function exists up to every number.
LEMMA ProcessPartsIs ==
    ASSUME file \in Files, NEW x, NEW parts
    PROVE  \E r : /\ processParts(x, parts) = r[FileParts] /\ r[0] = x
                  /\ \A i \in 1 .. FileParts :
                        r[i] = IF i - 1 \in parts THEN processPart(r[i - 1], i - 1) ELSE r[i - 1]
<1> DEFINE last == FileParts
           Step(y, i) == IF i \in parts THEN processPart(y, i) ELSE y
           Steps(n, g) == g = [i \in 0 .. n |-> IF i = 0 THEN x ELSE Step(g[i - 1], i - 1)]
           K == {n \in Nat : \E g : Steps(n, g)}
           upTo[i \in 0 .. last] == IF i = 0 THEN x ELSE Step(upTo[i - 1], i - 1)
<1>1. last \in Nat  BY FileIs
<1>2. 0 \in K
  <2> DEFINE g == [i \in 0 .. 0 |-> x]
  <2>1. Steps(0, g)  OBVIOUS
  <2> HIDE DEF Steps, g
  <2> QED  BY <2>1
<1>3. ASSUME NEW n \in Nat, n \in K PROVE n + 1 \in K
  <2>1. PICK g : Steps(n, g)  BY <1>3
  <2> DEFINE h == [i \in 0 .. (n + 1) |-> IF i = n + 1 THEN Step(g[n], n) ELSE g[i]]
             value(i) == IF i = 0 THEN x ELSE Step(h[i - 1], i - 1)
  <2> HIDE DEF Step
  <2>2. ASSUME NEW i \in 0 .. (n + 1) PROVE h[i] = value(i)
    <3>1. CASE i = n + 1
      <4>1. h[i] = Step(g[n], n)  BY <3>1
      <4>2. h[i - 1] = g[n] /\ i - 1 = n  BY <3>1
      <4>3. i # 0  BY <3>1
      <4> HIDE DEF h
      <4> QED  BY <4>1, <4>2, <4>3, Zenon
    <3>2. CASE i # n + 1
      <4>1. i \in 0 .. n  BY <3>2
      <4>2. g[i] = IF i = 0 THEN x ELSE Step(g[i - 1], i - 1)  BY <2>1, <4>1, Zenon
      <4>3. h[i] = g[i]  BY <3>2
      <4>4. i # 0 => h[i - 1] = g[i - 1]  BY <4>1
      <4> HIDE DEF h
      <4> QED  BY <4>2, <4>3, <4>4, Zenon
    <3> QED  BY <3>1, <3>2
  <2>3. h = [i \in 0 .. (n + 1) |-> value(i)]
    <3>1. h = [i \in 0 .. (n + 1) |-> h[i]]  OBVIOUS
    <3> HIDE DEF h, value
    <3> QED  BY <3>1, <2>2, Zenon
  <2>4. Steps(n + 1, h)  BY <2>3
  <2> HIDE DEF Steps, h
  <2> QED  BY <2>4
<1> HIDE DEF K
<1>4. Nat \subseteq K  BY <1>2, <1>3, NatSet
<1>5. PICK g : Steps(last, g)
  <2> HIDE DEF last, Steps
  <2>1. last \in K  BY <1>1, <1>4
  <2> QED  BY <2>1 DEF K
<1>6. upTo = CHOOSE f : Steps(last, f)
  <2> HIDE DEF Step, last
  <2> QED  OBVIOUS
<1>7. Steps(last, upTo)
  <2> HIDE DEF upTo, Steps
  <2> QED  BY <1>5, <1>6, Zenon
<1> HIDE DEF Step
<1>8. /\ upTo[0] = x
      /\ \A i \in 1 .. last : upTo[i] = Step(upTo[i - 1], i - 1)
  <2> HIDE DEF upTo
  <2> QED  BY <1>1, <1>7
<1>9. processParts(x, parts) = upTo[last]  BY DEF processParts, Step
<1> HIDE DEF upTo
<1> QED  BY <1>8, <1>9 DEF Step

LEMMA ProcessPartsKeeps ==
    ASSUME file \in Files, NEW x, Placed(x), NEW parts
    PROVE  Placed(processParts(x, parts))
<1>1. PICK r : /\ processParts(x, parts) = r[FileParts] /\ r[0] = x
               /\ \A i \in 1 .. FileParts :
                     r[i] = IF i - 1 \in parts THEN processPart(r[i - 1], i - 1) ELSE r[i - 1]
  BY ProcessPartsIs
<1> DEFINE K == {n \in Nat : n <= FileParts => Placed(r[n])}
<1>2. FileParts \in Nat  BY FileIs
<1>3. 0 \in K  BY <1>1
<1>4. ASSUME NEW n \in Nat, n \in K PROVE n + 1 \in K
  <2> SUFFICES ASSUME n + 1 <= FileParts PROVE Placed(r[n + 1])  OBVIOUS
  <2>1. n + 1 \in 1 .. FileParts /\ n \in 0 .. FileParts - 1 /\ (n + 1) - 1 = n  BY <1>2
  <2>2. r[n + 1] = IF n \in parts THEN processPart(r[n], n) ELSE r[n]
    BY <1>1, <2>1
  <2>3. Placed(r[n])  BY <1>2, <1>4, <2>1
  <2>4. Placed(processPart(r[n], n))  BY <2>1, <2>3, ProcessPartKeeps
  <2> QED  BY <2>2, <2>3, <2>4
<1> HIDE DEF K
<1>5. FileParts \in K  BY <1>2, <1>3, <1>4, NatSet
<1>6. Placed(r[FileParts])  BY <1>2, <1>5 DEF K
<1> QED  BY <1>1, <1>6

LEMMA LoadedPartsKeep ==
    ASSUME file \in Files, NEW x, Placed(x), NEW parts
    PROVE  Placed(processLoadedParts(x, parts))
<1> DEFINE y == processParts(x, Awaited(x, parts))
           z == [y EXCEPT !.loading = @ \ parts]
<1>1. Placed(y)  BY ProcessPartsKeeps
<1> HIDE DEF y
<1>2. Shaped(z) /\ z.slices = y.slices /\ z.mode = y.mode /\ z.used = y.used
  BY <1>1 DEF Placed, Shaped
<1> HIDE DEF z
<1>3. Placed(z)  BY <1>1, <1>2 DEF Placed
<1> QED  BY <1>3 DEF processLoadedParts, y, z

\* An entry that is written is read as it was meant.
LEMMA EntryIs ==
    ASSUME file \in Files, NEW n \in Numbers, NEW good \in BOOLEAN,
           NEW parts, InPlace(parts, n), NEW rest, InPlace(rest, 1),
           good => n = 0
    PROVE  EntryInPlace(Entry(n, good, parts, rest), n)
<1> DEFINE e == Entry(n, good, parts, rest)
           more == IF good THEN ComplexSize(rest) ELSE 0
           size == ComplexSize(parts) + more
<1>1. CASE ~good /\ Continuous(parts)
  <2>1. e = [size |-> Bytes(parts), flat |-> TRUE, rest |-> <<>>, parts |-> parts]
    BY <1>1 DEF Entry
  <2>2. InPlace(<<>>, 1)  BY DEF InPlace
  <2> HIDE DEF e
  <2> QED  BY <2>1, <2>2 DEF EntryInPlace, e
<1>2. CASE ~(~good /\ Continuous(parts))
  <2>1. e = [size |-> Padded(size, maxSliceSize(n)), flat |-> FALSE, rest |-> rest,
             parts |-> parts]
    BY <1>2 DEF Entry
  <2>2. ComplexSize(parts) \in Nat /\ ComplexSize(rest) \in Nat
    BY ComplexSizeIs DEF InPlace
  <2>3. more \in Nat  BY <2>2
  <2> HIDE DEF e, more
  <2>4. size \in Nat  BY <2>2, <2>3
  <2>5. /\ Padded(size, maxSliceSize(n)) \in size .. size + 3
        /\ ~IsContiguousSerialization(Padded(size, maxSliceSize(n)), maxSliceSize(n))
    BY <2>4, PaddedIs
  <2> DEFINE pad == e.size - size
  <2>6. pad \in 0 .. 3 /\ e.size - ComplexSize(parts) = more + pad
    <3>1. e.size \in size .. size + 3  BY <2>1, <2>5
    <3> QED  BY <2>2, <2>3, <3>1
  <2> HIDE DEF pad, size
  <2>7. ASSUME ~isFullInHeader, good
        PROVE  ~IsContiguousSerialization(e.size - ComplexSize(parts), maxSliceSize(1))
    BY <2>6, <2>7, RestIsNotContiguous DEF more
  <2>8. ASSUME ~isFullInHeader, ~good, pad # 0
        PROVE  ~IsContiguousSerialization(e.size - ComplexSize(parts), maxSliceSize(1))
    <3>1. e.size - ComplexSize(parts) = pad  BY <2>6, <2>8 DEF more
    <3>2. kPartSize \in Nat \ {0} /\ kPartSize % 8 = 0 /\ kPartsInSlice \in Nat \ {0}
      BY FileIs
    <3>3. kPartSize >= 8  BY <3>2
    <3>4. pad % kPartSize = pad
      <4>1. pad \in 0 .. kPartSize - 1  BY <2>6, <3>2, <3>3
      <4> QED  BY <3>2, <4>1
    <3>5. maxSliceSize(1) = kPartsInSlice * kPartSize  BY <2>8, MaxSliceSizeIs
    <3>6. kPartSize * 1 <= kPartSize * kPartsInSlice  BY <3>2, TimesMonotone
    <3>7. kPartSize * 1 = kPartSize /\ kPartSize * kPartsInSlice = kPartsInSlice * kPartSize
          /\ kPartsInSlice * kPartSize \in Nat
      BY <3>2
    <3>8. pad # maxSliceSize(1)  BY <2>6, <3>2, <3>3, <3>5, <3>6, <3>7
    <3> QED  BY <2>8, <3>1, <3>4, <3>8 DEF IsContiguousSerialization
  <2>9. ~good /\ pad = 0 => e.size = ComplexSize(parts)
    <3> SUFFICES ASSUME ~good, pad = 0 PROVE e.size = ComplexSize(parts)  OBVIOUS
    <3>1. e.size - ComplexSize(parts) = 0  BY <2>6 DEF more
    <3>2. e.size \in Nat  BY <2>1, <2>4, <2>5 DEF size
    <3> QED  BY <2>2, <3>1, <3>2
  <2>10. /\ {"size", "flat", "parts", "rest"} \subseteq DOMAIN e
         /\ e.parts = parts /\ e.rest = rest /\ e.flat = FALSE
         /\ ~IsContiguousSerialization(e.size, maxSliceSize(n))
    BY <2>1, <2>5
  <2> QED  BY <2>7, <2>8, <2>9, <2>10 DEF EntryInPlace, e
<1> QED  BY <1>1, <1>2

LEMMA UnloadedKeeps ==
    ASSUME NEW x, Placed(x), NEW n \in Numbers
    PROVE  Placed(Unloaded(x, n)) /\ Unloaded(x, n).mode = x.mode
<1> DEFINE y == Unloaded(x, n)
<1>1. Shaped(y) /\ y.mode = x.mode /\ y.used = x.used  BY DEF Placed, Shaped, Unloaded, Slice
<1>2. \A k \in Numbers : y.slices[k].parts = IF k = n THEN <<>> ELSE x.slices[k].parts
  BY DEF Placed, Shaped, Unloaded, Slice
<1>3. InPlace(<<>>, n)  BY DEF InPlace
<1> HIDE DEF y
<1>4. Placed(y)  BY <1>1, <1>2, <1>3 DEF Placed
<1> QED  BY <1>1, <1>4 DEF y

\* What is put in the cache, if anything is: an entry that lies in place.
WrittenOf(r) ==
    /\ Placed(r.x)
    /\ r.n \in Numbers \cup {-1}
    /\ r.n >= 0 => EntryInPlace(r.e, r.n)

LEMMA SerializeGoodKeeps ==
    ASSUME file \in Files, NEW x, Placed(x), x.mode = "Good"
    PROVE  WrittenOf(serializeGood(x)) /\ serializeGood(x).n = 0
<1> DEFINE y == Expects(Expects(x, "unloadFirst", Has(x, 1, "loaded")),
                        "empty", Holds(x, 0) # {})
           rest == [o \in Holds(x, 1) \ Holds(x, 0) |-> x.slices[1].parts[o]]
           e == Entry(0, TRUE, x.slices[0].parts, rest)
           z == With(Unloaded(y, 1), 0, {}, {"changed"})
<1>1. ~isFullInHeader /\ 0 \in Numbers /\ 1 \in Numbers  BY NumbersAre DEF Placed
<1>2. Placed(y)
  <2> DEFINE a == Has(x, 1, "loaded")
             b == Holds(x, 0) # {}
  <2> HIDE DEF a, b
  <2>1. Placed(Expects(x, "unloadFirst", a))  BY ExpectsKeeps
  <2>2. Placed(Expects(Expects(x, "unloadFirst", a), "empty", b))  BY <2>1, ExpectsKeeps
  <2> QED  BY <2>2 DEF a, b
<1> HIDE DEF y
<1>3. Placed(z)  BY <1>1, <1>2, UnloadedKeeps, WithKeeps
<1>4. InPlace(rest, 1)
  <2>1. InPlace(x.slices[1].parts, 1)  BY <1>1 DEF Placed
  <2> QED  BY <2>1 DEF InPlace, Holds
<1>5. InPlace(x.slices[0].parts, 0)  BY <1>1 DEF Placed
<1> HIDE DEF rest
<1>6. EntryInPlace(e, 0)  BY <1>1, <1>4, <1>5, EntryIs
<1>7. serializeGood(x) = [x |-> z, n |-> 0, e |-> e]  BY DEF serializeGood, y, rest
<1> HIDE DEF z, e
<1> QED  BY <1>1, <1>3, <1>6, <1>7 DEF WrittenOf

LEMMA SerializeKeeps ==
    ASSUME file \in Files, NEW x, Placed(x), NEW n \in Numbers
    PROVE  /\ WrittenOf(serializeAndUnloadSlice(x, n))
           /\ isGoodHeader(x) /\ n <= 1 => serializeAndUnloadSlice(x, n).n = 0
           /\ ~(isGoodHeader(x) /\ n <= 1) => serializeAndUnloadSlice(x, n).n = n
<1>1. CASE isGoodHeader(x) /\ n <= 1
  <2>1. serializeAndUnloadSlice(x, n) = serializeGood(x)  BY <1>1 DEF serializeAndUnloadSlice
  <2> QED  BY <1>1, <2>1, SerializeGoodKeeps DEF isGoodHeader
<1>2. CASE ~(isGoodHeader(x) /\ n <= 1)
  <2> DEFINE held == Holds(x, n) # {}
             y == Expects(x, "empty", held)
             z == IF n > 0 THEN Unloaded(y, n) ELSE With(y, 0, {}, {"changed"})
             e == Entry(n, FALSE, x.slices[n].parts, <<>>)
  <2>1. Placed(y)
    <3> HIDE DEF held
    <3> QED  BY ExpectsKeeps
  <2> HIDE DEF y
  <2>2. Placed(z)  BY <2>1, NumbersAre, UnloadedKeeps, WithKeeps
  <2>3. InPlace(<<>>, 1) /\ InPlace(x.slices[n].parts, n)  BY DEF InPlace, Placed
  <2>4. EntryInPlace(e, n)  BY <2>3, EntryIs
  <2>5. serializeAndUnloadSlice(x, n) = [x |-> z, n |-> n, e |-> e]
    BY <1>2 DEF serializeAndUnloadSlice, y
  <2> HIDE DEF z, e
  <2> QED  BY <1>2, <2>2, <2>4, <2>5 DEF WrittenOf
<1> QED  BY <1>1, <1>2

LEMMA NothingWritten ==
    ASSUME NEW x, Placed(x)
    PROVE  WrittenOf(Nothing(x))
BY DEF WrittenOf, Nothing

LEMMA UnloadUnusedKeeps ==
    ASSUME file \in Files, NEW x, Placed(x)
    PROVE  WrittenOf(serializeAndUnloadUnused(x))
<1>1. CASE x.mode = "Unknown" \/ Len(x.used) <= kSlicesInMemory
  <2>1. serializeAndUnloadUnused(x) = Nothing(x)  BY <1>1 DEF serializeAndUnloadUnused
  <2> QED  BY <2>1, NothingWritten
<1>2. CASE ~(x.mode = "Unknown" \/ Len(x.used) <= kSlicesInMemory)
  <2> DEFINE n == Head(x.used)
             y == [x EXCEPT !.used = Tail(@)]
  <2>1. x.used \in Seq(Numbers \ {0}) /\ Len(x.used) > 0
    BY <1>2, SlicesAssumption DEF Placed, SlicesAssumption
  <2>2. x.used # <<>>  BY <2>1
  <2>3. n \in Numbers \ {0} /\ Tail(x.used) \in Seq(Numbers \ {0})
    BY <2>1, <2>2, HeadTailProperties
  <2>4. /\ Shaped(y) /\ y.slices = x.slices /\ y.mode = x.mode /\ y.used = Tail(x.used)
    BY DEF Placed, Shaped
  <2> HIDE DEF n, y
  <2>5. Placed(y)  BY <2>3, <2>4 DEF Placed
  <2>6. /\ WrittenOf(Nothing(y)) /\ WrittenOf(Nothing(Unloaded(y, n)))
        /\ WrittenOf(serializeAndUnloadSlice(y, n))
    BY <2>3, <2>5, NothingWritten, UnloadedKeeps, SerializeKeeps
  <2>7. serializeAndUnloadUnused(x) \in
            {Nothing(y), Nothing(Unloaded(y, n)), serializeAndUnloadSlice(y, n)}
    BY <1>2 DEF serializeAndUnloadUnused, n, y
  <2> QED  BY <2>6, <2>7
<1> QED  BY <1>1, <1>2

LEMMA UnloadAllKeeps ==
    ASSUME file \in Files, NEW x, Placed(x), NEW c, Stored(c)
    PROVE  Stored(unloadAll(x, c).c)
<1> DEFINE shared == IF isGoodHeader(x) THEN {0, 1} ELSE {}
           changed == {n \in Numbers : Has(x, n, "changed")}
           written == IF x.mode \in {"Unknown", "NoCache"} THEN {}
                      ELSE (changed \ shared) \cup IF changed \cap shared # {} THEN {0} ELSE {}
           w(n) == serializeAndUnloadSlice(x, n)
           z == [n \in Numbers |-> IF n \in written THEN w(n).e ELSE c[n]]
<1>1. unloadAll(x, c).c = z  BY DEF unloadAll
<1>2. ASSUME NEW n \in Numbers, n \in written PROVE EntryInPlace(w(n).e, n)
  <2>1. WrittenOf(w(n)) /\ Numbers \subseteq Nat  BY SerializeKeeps, NumbersAre
  <2>2. w(n).n = n
    <3>1. CASE isGoodHeader(x) /\ n <= 1
      <4>1. n = 0
        <5>1. n # 1  BY <1>2, <3>1
        <5> QED  BY <2>1, <3>1, <5>1
      <4> QED  BY <3>1, <4>1, SerializeKeeps
    <3>2. CASE ~(isGoodHeader(x) /\ n <= 1)  BY <3>2, SerializeKeeps
    <3> QED  BY <3>1, <3>2
  <2> HIDE DEF w
  <2> QED  BY <2>1, <2>2 DEF WrittenOf
<1> HIDE DEF w, written
<1> QED  BY <1>1, <1>2 DEF Stored

LEMMA MarkUsedKeeps ==
    ASSUME NEW x, Placed(x), NEW n \in Numbers \ {0}
    PROVE  /\ Placed(markSliceUsed(x, n))
           /\ markSliceUsed(x, n).mode = x.mode
<1> DEFINE found == {i \in DOMAIN x.used : x.used[i] = n}
           i == Min(found)
           others == IF found = {} THEN x.used ELSE RemoveAt(x.used, i)
           y == [x EXCEPT !.used = Append(others, n)]
<1>1. x.used \in Seq(Numbers \ {0})  BY DEF Placed
<1>2. others \in Seq(Numbers \ {0})
  <2>1. CASE found = {}  BY <1>1, <2>1
  <2>2. CASE found # {}
    <3>1. found \subseteq 1 .. Len(x.used)  BY <1>1
    <3>2. i \in found
      <4> HIDE DEF found
      <4>1. Len(x.used) \in Nat  BY <1>1
      <4>2. found \subseteq Nat  BY <3>1, <4>1
      <4> QED  BY <2>2, <4>2, NatMin
    <3>3. i \in 1 .. Len(x.used) /\ Len(x.used) \in Nat  BY <1>1, <3>1, <3>2
    <3> HIDE DEF i, found
    <3>4. SubSeq(x.used, 1, i - 1) \in Seq(Numbers \ {0})
      <4>1. \A k \in 1 .. i - 1 : k \in 1 .. Len(x.used)  BY <3>3
      <4> QED  BY <1>1, <3>3, <4>1, SubSeqProperties
    <3>5. SubSeq(x.used, i + 1, Len(x.used)) \in Seq(Numbers \ {0})
      <4>1. \A k \in i + 1 .. Len(x.used) : k \in 1 .. Len(x.used)  BY <3>3
      <4> QED  BY <1>1, <3>3, <4>1, SubSeqProperties
    <3>6. RemoveAt(x.used, i) \in Seq(Numbers \ {0})
      BY <3>4, <3>5, ConcatProperties DEF RemoveAt
    <3> QED  BY <2>2, <3>6
  <2> QED  BY <2>1, <2>2
<1> HIDE DEF others
<1>3. Append(others, n) \in Seq(Numbers \ {0})  BY <1>2, AppendProperties
<1>4. /\ Shaped(y) /\ y.slices = x.slices /\ y.mode = x.mode
      /\ y.used = Append(others, n)
  BY DEF Placed, Shaped
<1>5. markSliceUsed(x, n) = y  BY DEF markSliceUsed, others, i, found
<1> HIDE DEF y
<1> QED  BY <1>3, <1>4, <1>5 DEF Placed

LEMMA FillKeeps ==
    ASSUME file \in Files, NEW x, Placed(x), NEW range \in Reads
    PROVE  WrittenOf(fill(x, range[1], range[2]))
<1> DEFINE from == range[1]
           till == range[2]
           pieces == Pieces(from, till)
           ready == \A i \in pieces : Missing(x, i[1], i[2], i[3]) = {}
           reads == {i[1] : i \in {i \in pieces : cacheNotLoaded(x, i[1]) /\ ~Has(x, i[1], "loading")}}
           loads == Offsets(x, from, till)
           used == markSliceUsed(markSliceUsed(x, SliceAt(from)), SliceAt(till - 1))
           y == [x EXCEPT !.slices = [n \in Numbers |->
                     IF n \in reads THEN With(x, n, {"loading"}, {}).slices[n]
                     ELSE x.slices[n]]]
           r == IF ~ready THEN Nothing(y)
                ELSE IF isFullInHeader THEN Nothing(x)
                ELSE serializeAndUnloadUnused(used)
           early == [x |-> x, n |-> -1, e |-> NoEntry, filled |-> FALSE, reads |-> {},
                     loads |-> {}]
           late == [x |-> r.x, n |-> r.n, e |-> r.e, filled |-> ready, loads |-> loads,
                    reads |-> IF ready \/ isFullInHeader THEN {} ELSE reads]
<1>1. from \in 0 .. FileParts - 1 /\ till - 1 \in 0 .. FileParts - 1
  <2>1. /\ FileParts \in Nat
        /\ from \in 0 .. FileParts - 1 /\ till \in from + 1 .. FileParts
    BY FileIs
  <2> QED  BY <2>1
<1> HIDE DEF from, till
<1>2. ~isFullInHeader => Placed(used)
  <2> SUFFICES ASSUME ~isFullInHeader PROVE Placed(used)  OBVIOUS
  <2>1. SliceAt(from) \in Numbers \ {0} /\ SliceAt(till - 1) \in Numbers \ {0}
    BY <1>1, SliceAtIs
  <2>2. Placed(markSliceUsed(x, SliceAt(from)))  BY <2>1, MarkUsedKeeps
  <2> QED  BY <2>1, <2>2, MarkUsedKeeps
<1> HIDE DEF used, reads, ready, loads
<1>3. Placed(y)
  <2> DEFINE S == [n \in Numbers |->
                     IF n \in reads THEN With(x, n, {"loading"}, {}).slices[n]
                     ELSE x.slices[n]]
  <2>1. /\ DOMAIN S = Numbers
        /\ \A n \in Numbers : /\ {"parts", "flags"} \subseteq DOMAIN S[n]
                              /\ S[n].parts = x.slices[n].parts
    <3>1. \A n \in Numbers : LET z == With(x, n, {"loading"}, {})
                             IN  Placed(z) /\ z.slices[n].parts = x.slices[n].parts
      BY WithKeeps
    <3> QED  BY <3>1 DEF Placed, Shaped
  <2>2. y = [x EXCEPT !.slices = S]  OBVIOUS
  <2> HIDE DEF S, y
  <2>3. /\ y.slices = S /\ y.used = x.used /\ y.mode = x.mode
        /\ {"slices", "mode", "used", "loading", "failed", "opened", "broken"} \subseteq DOMAIN y
    BY <2>2 DEF Placed, Shaped
  <2> QED  BY <2>1, <2>3 DEF Placed, Shaped
<1> HIDE DEF y
<1>4. WrittenOf(r)  BY <1>2, <1>3, NothingWritten, UnloadUnusedKeeps
<1> HIDE DEF r
<1>5. WrittenOf(early)  BY DEF WrittenOf
<1>6. WrittenOf(late)  BY <1>4 DEF WrittenOf
<1>7. fill(x, from, till) \in {early, late}
  <2> HIDE DEF early, late
  <2>1. fill(x, from, till) = IF x.mode # "NoCache" /\ ~Has(x, 0, "loaded")
                              THEN early ELSE late
    BY DEF fill, early, late, r, y, used, reads, ready, loads, pieces
  <2> QED  BY <2>1
<1> HIDE DEF early, late
<1> QED  BY <1>5, <1>6, <1>7 DEF from, till

-----------------------------------------------------------------------------
(* The slices: the steps. *)

SlicesInv ==
    /\ file \in Files
    /\ Placed(s)
    /\ Stored(cache)

\* A behaviour has one file.
LEMMA SameFile ==
    ASSUME file \in Files, file' = file, Placed(s'), Stored(cache')
    PROVE  SlicesInv'
<1>1. FileParts' = FileParts /\ LastSize' = LastSize /\ MaxOnlyInHeader' = MaxOnlyInHeader
  BY DEF FileParts, LastSize, MaxOnlyInHeader
<1>2. isFullInHeader' = isFullInHeader  BY <1>1 DEF isFullInHeader
<1>3. LastSlice' = LastSlice  BY <1>1, <1>2 DEF LastSlice
<1>4. Numbers' = Numbers  BY <1>3 DEF Numbers
<1>5. \A n : Positions(n)' = Positions(n)  BY <1>1 DEF Positions
<1>6. \A n : maxSliceSize(n)' = maxSliceSize(n)  BY <1>1, <1>3 DEF maxSliceSize
<1>7. \A parts : ComplexSize(parts)' = ComplexSize(parts)
  BY <1>1 DEF ComplexSize, Bytes
<1>8. Placed(s)'
  BY <1>2, <1>4, <1>5 DEF Placed, Shaped, InPlace
<1>9. Stored(cache)'
  BY <1>2, <1>4, <1>5, <1>6, <1>7 DEF Stored, EntryInPlace, InPlace
<1> QED  BY <1>8, <1>9 DEF SlicesInv

LEMMA EmptyEntry ==
    ASSUME NEW n
    PROVE  EntryInPlace(NoEntry, n)
<1>1. InPlace(<<>>, n) /\ InPlace(<<>>, 1)  BY DEF InPlace
<1> QED  BY <1>1 DEF EntryInPlace, NoEntry

LEMMA ReaderPlaced == Placed(Reader)
<1>1. Shaped(Reader)  BY DEF Shaped, Reader, Slice
<1>2. Reader.used \in Seq(Numbers \ {0}) /\ Reader.mode # "Good"  BY DEF Reader
<1>3. ASSUME NEW n \in Numbers PROVE InPlace(Reader.slices[n].parts, n)
  <2>1. Reader.slices[n].parts = <<>>  BY DEF Reader, Slice
  <2>2. InPlace(<<>>, n)  BY DEF InPlace
  <2> QED  BY <2>1, <2>2
<1> QED  BY <1>1, <1>2, <1>3 DEF Placed

LEMMA SlicesInvInit == SlicesInit => SlicesInv
<1> SUFFICES ASSUME SlicesInit PROVE SlicesInv  OBVIOUS
<1>1. file \in Files /\ s = Reader /\ cache = [n \in Numbers |-> NoEntry]
  BY DEF SlicesInit
<1>2. Stored(cache)
  <2> HIDE DEF NoEntry
  <2> QED  BY <1>1, EmptyEntry DEF Stored
<1> QED  BY <1>1, <1>2, ReaderPlaced DEF SlicesInv

\* What the other fields are does not matter.
LEMMA OtherFieldsKeep ==
    ASSUME NEW x, Placed(x), NEW y, Shaped(y),
           y.slices = x.slices, y.mode = x.mode, y.used = x.used
    PROVE  Placed(y)
BY DEF Placed

LEMMA FillStepKeeps ==
    ASSUME SlicesInv, NEW range \in Reads, Fill(range[1], range[2])
    PROVE  SlicesInv'
<1> DEFINE from == range[1]
           till == range[2]
<1>1. file \in Files /\ Placed(s) /\ Stored(cache)  BY DEF SlicesInv
<1>2. file' = file  BY DEF Fill
<1>3. PICK got \in SUBSET gets, seen \in {{}, arrived} :
        \E x \in {processLoadedParts(processCacheResults(s, got), seen)} :
        \E r \in {fill(x, from, till)} : fillFromSlices(x, r, got)
  BY DEF Fill
<1> DEFINE x == processLoadedParts(processCacheResults(s, got), seen)
           r == fill(x, from, till)
<1>4. Placed(x)
  <2>1. Placed(processCacheResults(s, got))  BY <1>1, CacheResultsKeep
  <2> QED  BY <1>1, <2>1, LoadedPartsKeep
<1>5. /\ s' = [r.x EXCEPT !.failed = TRUE]
         \/ \E loading : s' = [r.x EXCEPT !.loading = loading, !.opened = @ \/ r.filled]
      /\ cache' = cache \/ (cache' = [cache EXCEPT ![r.n] = r.e] /\ r.n >= 0)
  <2>1. fillFromSlices(x, r, got)  BY <1>3
  <2> HIDE DEF x, r
  <2> QED  BY <2>1 DEF fillFromSlices
<1> HIDE DEF x
<1>6. WrittenOf(r)  BY <1>1, <1>4, FillKeeps
<1> HIDE DEF r
<1>7. Placed(s')
  <2>1. Placed(r.x)  BY <1>6 DEF WrittenOf
  <2> DEFINE a == r.x
  <2>2. Shaped(s') /\ s'.slices = a.slices /\ s'.mode = a.mode /\ s'.used = a.used
    BY <1>5, <2>1 DEF Placed, Shaped
  <2> QED  BY <2>1, <2>2, OtherFieldsKeep
<1>8. Stored(cache')
  <2>1. CASE cache' = cache  BY <1>1, <2>1
  <2>2. CASE cache' = [cache EXCEPT ![r.n] = r.e] /\ r.n >= 0
    <3>1. r.n \in Numbers /\ EntryInPlace(r.e, r.n)  BY <1>6, <2>2 DEF WrittenOf
    <3> QED  BY <1>1, <2>2, <3>1 DEF Stored
  <2> QED  BY <1>5, <2>1, <2>2
<1> QED  BY <1>1, <1>2, <1>7, <1>8, SameFile

LEMMA HeaderDoneStepKeeps ==
    ASSUME SlicesInv, HeaderDone
    PROVE  SlicesInv'
<1>1. file \in Files /\ Placed(s) /\ Stored(cache)  BY DEF SlicesInv
<1>2. file' = file /\ cache' = cache /\ s' = headerDone(s, FALSE)  BY DEF HeaderDone
<1>3. Placed(s')  BY <1>1, <1>2, HeaderDoneKeeps
<1> QED  BY <1>1, <1>2, <1>3, SameFile

LEMMA ReopenKeeps ==
    ASSUME SlicesInv, Reopen
    PROVE  SlicesInv'
<1>1. file \in Files /\ Placed(s) /\ Stored(cache)  BY DEF SlicesInv
<1> DEFINE r == unloadAll(s, cache)
<1>2. file' = file /\ cache' = r.c /\ s' = [Reader EXCEPT !.broken = r.broken]
  BY DEF Reopen
<1>3. Stored(cache')  BY <1>1, <1>2, UnloadAllKeeps
<1> HIDE DEF r
<1>4. Placed(Reader)  BY ReaderPlaced
<1>5. /\ Shaped(s') /\ s'.slices = Reader.slices /\ s'.mode = Reader.mode
      /\ s'.used = Reader.used
  BY <1>2, <1>4 DEF Placed, Shaped
<1>6. Placed(s')  BY <1>4, <1>5, OtherFieldsKeep
<1> QED  BY <1>1, <1>2, <1>3, <1>6, SameFile

LEMMA SlicesInvNext == SlicesInv /\ [SlicesNext]_slicesVars => SlicesInv'
<1> SUFFICES ASSUME SlicesInv, [SlicesNext]_slicesVars PROVE SlicesInv'  OBVIOUS
<1>1. file \in Files /\ Placed(s) /\ Stored(cache)  BY DEF SlicesInv
<1>2. ASSUME NEW r \in Reads, Fill(r[1], r[2]) PROVE SlicesInv'
  BY <1>2, FillStepKeeps
<1>3. ASSUME NEW p \in 0 .. FileParts - 1, PartLoaded(p) PROVE SlicesInv'
  <2>1. file' = file /\ s' = s /\ cache' = cache  BY <1>3 DEF PartLoaded
  <2> QED  BY <1>1, <2>1, SameFile
<1>4. ASSUME NEW n \in Numbers, Evict(n) PROVE SlicesInv'
  <2>1. file' = file /\ s' = s /\ cache' = [cache EXCEPT ![n] = NoEntry]
    BY <1>4 DEF Evict
  <2>2. Stored(cache')
    <3> HIDE DEF NoEntry
    <3> QED  BY <1>1, <2>1, EmptyEntry DEF Stored
  <2> QED  BY <1>1, <2>1, <2>2, SameFile
<1>5. ASSUME UNCHANGED slicesVars PROVE SlicesInv'
  <2>1. file' = file /\ s' = s /\ cache' = cache  BY <1>5 DEF slicesVars
  <2> QED  BY <1>1, <2>1, SameFile
<1> QED
  BY <1>2, <1>3, <1>4, <1>5, HeaderDoneStepKeeps, ReopenKeeps DEF SlicesNext

\* A buffer is never filled with bytes of another place of the file, whatever the
\* sizes of the file and its parts, the reads, the bounds of the memory and what
\* the cache forgets: the parts lie at their own offsets, those that came from the
\* loader, those that entries of the cache gave, padded or not, and those that
\* were copied from the header to a slice.
THEOREM PartsAreInPlace == SlicesSpec => []PartsInPlace
<1>1. SlicesInv => PartsInPlace
  BY DEF SlicesInv, Placed, InPlace, PartsInPlace, Holds
<1> QED  BY <1>1, SlicesInvInit, SlicesInvNext, PTL DEF SlicesSpec

-----------------------------------------------------------------------------
(* The slices: an entry is read as it was written. *)

\* The last part of the file is in the last slice.
LEMMA LastSliceIs ==
    ASSUME file \in Files, NEW n \in Numbers, n > 0
    PROVE  /\ SliceStart(n) \in 0 .. FileParts - 1 /\ ~isFullInHeader
           /\ FileParts - 1 < SliceStart(n) + kPartsInSlice => n = LastSlice
<1> DEFINE F == FileParts
           K == kPartsInSlice
           N == F + K - 1
           L == N \div K
           r == N % K
           a == n - 1
<1>1. F \in Nat \ {0} /\ K \in Nat \ {0}  BY FileIs
<1> HIDE DEF F, K
<1>2. ~isFullInHeader /\ LastSlice = L /\ n \in 1 .. L /\ L \in Nat
  <2>1. LastSlice \in Nat /\ Numbers = 0 .. LastSlice  BY NumbersAre DEF Numbers
  <2>2. LastSlice = IF isFullInHeader THEN 0 ELSE L  BY DEF LastSlice, L, N, F, K
  <2> QED  BY <2>1, <2>2
<1>3. N \in Nat  BY <1>1
<1>4. r \in 0 .. K - 1 /\ N = K * L + r
  <2> HIDE DEF N
  <2> QED  BY <1>1, <1>3, DivMod
<1>5. N = F + K - 1  OBVIOUS
<1> HIDE DEF N, L, r
<1>6. a \in Nat /\ n = a + 1 /\ n \in Nat  BY <1>2
<1> HIDE DEF a
<1>7. SliceStart(n) = K * a
  <2>1. SliceStart(n) = (n - 1) * K  BY <1>2 DEF SliceStart, K
  <2>2. n - 1 = a  BY <1>6
  <2> QED  BY <1>1, <1>6, <2>1, <2>2
<1>8. K * n = K * a + K /\ K * a \in Nat /\ K * n \in Nat /\ K * L \in Nat
  BY <1>1, <1>2, <1>6
<1>9. K * n <= K * L  BY <1>1, <1>2, <1>6, TimesMonotone
<1>10. K * a <= F - 1  BY <1>1, <1>4, <1>5, <1>8, <1>9
<1>11. ASSUME F - 1 < K * a + K, n # L PROVE FALSE
  <2>1. n + 1 <= L /\ n + 1 \in Nat  BY <1>2, <1>11
  <2>2. K * (n + 1) <= K * L  BY <1>1, <1>2, <2>1, TimesMonotone
  <2>3. K * (n + 1) = K * n + K  BY <1>1, <1>6
  <2> QED  BY <1>1, <1>4, <1>5, <1>8, <1>11, <2>2, <2>3
<1> QED  BY <1>1, <1>2, <1>7, <1>8, <1>10, <1>11 DEF F, K

\* The parts of a slice one after the other have a size that says so.
LEMMA FlatSize ==
    ASSUME file \in Files, NEW n \in Numbers, NEW parts, InPlace(parts, n),
           Continuous(parts)
    PROVE  /\ IsContiguousSerialization(Bytes(parts), maxSliceSize(n))
           /\ Bytes(parts) <= maxSliceSize(n)
<1> DEFINE F == FileParts
           K == kPartsInSlice
           P == kPartSize
           k == Cardinality(DOMAIN parts)
           b == SliceStart(n)
           room == (F - 1) - b
           last == {o \in DOMAIN parts : parts[o] = F - 1}
<1>1. /\ F \in Nat \ {0} /\ K \in Nat \ {0} /\ P \in Nat \ {0}
      /\ LastSize \in Nat \ {0} /\ LastSize <= P
  BY FileIs
<1>2. k \in Nat /\ DOMAIN parts = 0 .. k - 1
  <2>1. k \in Nat  BY PositionsFinite DEF InPlace
  <2> QED  BY <2>1 DEF Continuous
<1>3. /\ b \in 0 .. F - 1 /\ (n = 0 => b = 0)
      /\ n > 0 /\ F - 1 < b + K => n = LastSlice
  <2>1. n \in Nat  BY NumbersAre
  <2>2. CASE n = 0  BY <1>1, <2>2 DEF SliceStart
  <2>3. CASE n > 0  BY <2>3, LastSliceIs
  <2> QED  BY <2>1, <2>2, <2>3
<1>4. /\ \A o \in 0 .. k - 1 : b + o < F /\ parts[o] = b + o
      /\ n > 0 => k <= K
  <2>1. \A o \in 0 .. k - 1 : o \in Positions(n) /\ parts[o] = b + o
    BY <1>2 DEF InPlace
  <2>2. \A o \in Positions(n) : b + o < F /\ (n > 0 => o <= K - 1)
    BY <1>1, <1>3 DEF Positions
  <2>3. n > 0 /\ k > 0 => k - 1 <= K - 1
    <3>1. k > 0 => k - 1 \in 0 .. k - 1  BY <1>2
    <3> QED  BY <2>1, <2>2, <3>1
  <2> QED  BY <1>1, <1>2, <2>1, <2>2, <2>3
<1>5. Bytes(parts) = P * Cardinality(DOMAIN parts \ last) + LastSize * Cardinality(last)
  BY DEF Bytes
<1>6. room \in Nat /\ b + room = F - 1  BY <1>1, <1>3
<1> DEFINE full == room * P + LastSize
<1>7. /\ n = 0 \/ n = LastSlice => maxSliceSize(n) = full
      /\ ~(n = 0 \/ n = LastSlice) => maxSliceSize(n) = K * P
  <2>1. CASE n = 0
    <3>1. maxSliceSize(n) = (F - 1) * P + LastSize  BY <2>1 DEF maxSliceSize
    <3>2. room = F - 1  BY <1>1, <1>3, <2>1
    <3> QED  BY <2>1, <3>1, <3>2
  <2>2. CASE n # 0
    <3>1. n > 0 /\ n # 0  BY <2>2, NumbersAre
    <3>2. CASE n = LastSlice
      <4>1. maxSliceSize(n) = (F - 1 - SliceStart(n)) * P + LastSize
        BY <3>1, <3>2 DEF maxSliceSize
      <4> QED  BY <3>2, <4>1
    <3>3. CASE n # LastSlice  BY <3>1, <3>3 DEF maxSliceSize
    <3> QED  BY <3>2, <3>3
  <2> QED  BY <2>1, <2>2
<1>8. k <= room + 1
  <2>1. k > 0 => k - 1 \in 0 .. k - 1  BY <1>2
  <2>2. k > 0 => b + (k - 1) < F  BY <1>4, <2>1
  <2> QED  BY <1>1, <1>2, <1>3, <1>6, <2>2
<1>9. last = IF k = room + 1 THEN {room} ELSE {}
  <2>1. last = {o \in 0 .. k - 1 : b + o = F - 1}  BY <1>2, <1>4
  <2>2. \A o \in 0 .. k - 1 : b + o = F - 1 <=> o = room
    BY <1>1, <1>2, <1>3, <1>6
  <2>3. last = {o \in 0 .. k - 1 : o = room}  BY <2>1, <2>2
  <2>4. room \in 0 .. k - 1 <=> k = room + 1  BY <1>2, <1>6, <1>8
  <2> HIDE DEF last
  <2> QED  BY <2>3, <2>4
<1> HIDE DEF last, room, b, k, F, K, P
<1>10. CASE k = room + 1
  <2>1. Cardinality(last) = 1 /\ Cardinality(DOMAIN parts \ last) = room
    <3>1. last = {room}  BY <1>9, <1>10
    <3>2. DOMAIN parts \ last = 0 .. room - 1  BY <1>2, <1>6, <1>10, <3>1
    <3>3. Cardinality(0 .. room - 1) = room
      <4>1. Cardinality(0 .. room - 1) = IF 0 > room - 1 THEN 0 ELSE (room - 1) - 0 + 1
        BY <1>6, FS_Interval
      <4> QED  BY <1>6, <4>1
    <3>4. Cardinality(last) = 1  BY <3>1, FS_Singleton
    <3> QED  BY <3>2, <3>3, <3>4
  <2>2. Bytes(parts) = P * room + LastSize * 1  BY <1>5, <2>1
  <2>3. P * room = room * P /\ P * room \in Nat  BY <1>1, <1>6
  <2>4. Bytes(parts) = full  BY <1>1, <2>2, <2>3
  <2>5. n = 0 \/ n = LastSlice
    <3>1. n > 0 => room + 1 <= K  BY <1>4, <1>10
    <3>2. n > 0 => F - 1 < b + K  BY <1>1, <1>3, <1>6, <3>1
    <3> QED  BY <1>3, <3>2, NumbersAre
  <2>6. full \in Nat  BY <1>1, <2>3
  <2> QED  BY <1>7, <2>4, <2>5, <2>6 DEF IsContiguousSerialization
<1>11. CASE k <= room
  <2>1. Bytes(parts) = P * k
    <3>1. last = {} /\ DOMAIN parts \ last = DOMAIN parts  BY <1>2, <1>6, <1>9, <1>11
    <3>2. Cardinality(last) = 0  BY <3>1, FS_EmptySet
    <3>3. Bytes(parts) = P * k + LastSize * 0  BY <1>5, <3>1, <3>2 DEF k
    <3>4. P * k \in Nat  BY <1>1, <1>2
    <3> QED  BY <1>1, <3>3, <3>4
  <2>2. P * k \in Nat /\ (P * k) % P = 0  BY <1>1, <1>2
  <2>3. P * k <= maxSliceSize(n)
    <3>1. CASE n = 0 \/ n = LastSlice
      <4>1. P * k <= P * room  BY <1>1, <1>2, <1>6, <1>11, TimesMonotone
      <4>2. P * room = room * P /\ P * room \in Nat  BY <1>1, <1>6
      <4>3. P * k <= full  BY <1>1, <2>2, <4>1, <4>2
      <4> QED  BY <1>7, <3>1, <4>3
    <3>2. CASE ~(n = 0 \/ n = LastSlice)
      <4>1. k <= K  BY <1>4, <3>2, NumbersAre
      <4>2. P * k <= P * K  BY <1>1, <1>2, <4>1, TimesMonotone
      <4>3. P * K = K * P  BY <1>1
      <4> QED  BY <1>7, <3>2, <4>2, <4>3
    <3> QED  BY <3>1, <3>2
  <2> QED  BY <2>1, <2>2, <2>3 DEF IsContiguousSerialization, P
<1> QED  BY <1>2, <1>6, <1>8, <1>10, <1>11

LEMMA NumbersInt ==
    ASSUME file \in Files, NEW n \in Numbers, NEW parts, InPlace(parts, n)
    PROVE  maxSliceSize(n) \in Nat /\ Bytes(parts) \in Nat
<1>1. /\ FileParts \in Nat \ {0} /\ kPartsInSlice \in Nat \ {0} /\ kPartSize \in Nat \ {0}
      /\ LastSize \in Nat \ {0} /\ LastSize <= kPartSize
  BY FileIs
<1>2. maxSliceSize(n) \in Nat
  <2>1. CASE n = 0
    <3>1. maxSliceSize(n) = (FileParts - 1) * kPartSize + LastSize  BY <2>1 DEF maxSliceSize
    <3>2. FileParts - 1 \in Nat  BY <1>1
    <3>3. (FileParts - 1) * kPartSize \in Nat  BY <1>1, <3>2
    <3> QED  BY <1>1, <3>1, <3>3
  <2>2. CASE n # 0
    <3> DEFINE room == FileParts - 1 - SliceStart(n)
    <3>1. n > 0 /\ n # 0  BY <2>2, NumbersAre
    <3>2. room \in Nat
      <4>1. SliceStart(n) \in 0 .. FileParts - 1  BY <3>1, LastSliceIs
      <4> QED  BY <1>1, <4>1
    <3>3. maxSliceSize(n) = room * kPartSize + LastSize \/ maxSliceSize(n) = kPartsInSlice * kPartSize
      BY <3>1 DEF maxSliceSize
    <3> HIDE DEF room
    <3>4. room * kPartSize \in Nat /\ kPartsInSlice * kPartSize \in Nat  BY <1>1, <3>2
    <3> QED  BY <1>1, <3>3, <3>4
  <2> QED  BY <2>1, <2>2
<1>3. Bytes(parts) \in Nat
  <2> DEFINE last == {o \in DOMAIN parts : parts[o] = FileParts - 1}
             a == Cardinality(DOMAIN parts \ last)
             b == Cardinality(last)
  <2>1. a \in Nat /\ b \in Nat  BY PositionsFinite DEF InPlace
  <2>2. Bytes(parts) = kPartSize * a + LastSize * b  BY DEF Bytes
  <2> HIDE DEF a, b
  <2>3. kPartSize * a \in Nat /\ LastSize * b \in Nat  BY <1>1, <2>1
  <2> QED  BY <2>2, <2>3
<1> QED  BY <1>2, <1>3

LEMMA PadIsNotContiguous ==
    ASSUME file \in Files, ~isFullInHeader, NEW pad \in 0 .. 3, pad # 0,
           NEW more, more = 0
    PROVE  ~IsContiguousSerialization(more + pad, maxSliceSize(1))
<1>1. kPartSize \in Nat \ {0} /\ kPartSize % 8 = 0 /\ kPartsInSlice \in Nat \ {0}
  BY FileIs
<1>2. kPartSize >= 8  BY <1>1
<1>3. pad % kPartSize = pad
  <2>1. pad \in 0 .. kPartSize - 1  BY <1>1, <1>2
  <2> QED  BY <1>1, <2>1
<1>4. maxSliceSize(1) = kPartsInSlice * kPartSize  BY MaxSliceSizeIs
<1>5. kPartSize * 1 <= kPartSize * kPartsInSlice  BY <1>1, TimesMonotone
<1>6. kPartSize * 1 = kPartSize /\ kPartSize * kPartsInSlice = kPartsInSlice * kPartSize
      /\ kPartsInSlice * kPartSize \in Nat
  BY <1>1
<1>7. pad # maxSliceSize(1)  BY <1>1, <1>2, <1>4, <1>5, <1>6
<1>8. more + pad = pad  OBVIOUS
<1> QED  BY <1>3, <1>7, <1>8 DEF IsContiguousSerialization

\* What follows the parts of an entry, as it is read for the first slice.
RestOf(e) ==
    IF e.flat THEN <<>>
    ELSE Decoded(e.size - ComplexSize(e.parts), FALSE, e.rest, maxSliceSize(1))

FoundIn(e, n) == Decoded(e.size, e.flat, e.parts, maxSliceSize(n))

\* All that was put into an entry is found in it.
Readable(e, n) ==
    /\ DOMAIN FoundIn(e, n) = DOMAIN e.parts
    /\ n = 0 /\ ~isFullInHeader => DOMAIN RestOf(e) = DOMAIN e.rest

LEMMA NoRest ==
    ASSUME file \in Files, NEW rest, NEW max
    PROVE  DOMAIN rest = {} => DOMAIN Decoded(0, FALSE, rest, max) = {}
<1> SUFFICES ASSUME DOMAIN rest = {}
             PROVE  DOMAIN Decoded(0, FALSE, rest, max) = {}
  OBVIOUS
<1> DEFINE P == kPartSize
           N == P - 1
           q == N \div P
           none == [o \in 0 .. (0 + P - 1) \div P - 1 |-> Junk]
<1>1. P \in Nat \ {0}  BY FileIs
<1> HIDE DEF P
<1>2. N \in Nat /\ N < P  BY <1>1
<1>3. 0 + P - 1 = N  BY <1>1
<1> HIDE DEF N
<1>4. q \in Nat /\ N = P * q + (N % P) /\ N % P \in Nat  BY <1>1, <1>2, DivMod
<1> DEFINE part == N % P
<1>5. q >= 1 => P * 1 <= P * q  BY <1>1, <1>4, TimesMonotone
<1>6. part \in Nat /\ N = P * q + part /\ P * 1 = P  BY <1>1, <1>4
<1> HIDE DEF q, part
<1> DEFINE whole == P * q
<1>7. whole \in Nat  BY <1>1, <1>4
<1>8. N = whole + part /\ (q >= 1 => P <= whole)  BY <1>5, <1>6
<1> HIDE DEF whole
<1>9. q = 0  BY <1>1, <1>2, <1>4, <1>6, <1>7, <1>8
<1>10. (0 + P - 1) \div P = 0  BY <1>3, <1>9 DEF q
<1>11. DOMAIN none = {}  BY <1>10
<1>12. Decoded(0, FALSE, rest, max) \in {<<>>, rest, none}
  <2>1. Decoded(0, FALSE, rest, max) \in {<<>>, rest, [o \in 0 .. (0 + kPartSize - 1) \div kPartSize - 1 |-> Junk]}
    BY DEF Decoded
  <2> QED  BY <2>1 DEF P
<1> DEFINE found == Decoded(0, FALSE, rest, max)
<1> HIDE DEF none, found
<1>13. DOMAIN <<>> = {}  OBVIOUS
<1>14. found = <<>> \/ found = rest \/ found = none  BY <1>12 DEF found
<1>15. DOMAIN found = {}  BY <1>11, <1>13, <1>14
<1> QED  BY <1>15 DEF found

LEMMA EntryReadable ==
    ASSUME file \in Files, NEW n \in Numbers, NEW good \in BOOLEAN,
           NEW parts, InPlace(parts, n), NEW rest, InPlace(rest, 1),
           good => n = 0 /\ ~isFullInHeader, ~good => DOMAIN rest = {}
    PROVE  Readable(Entry(n, good, parts, rest), n)
<1> DEFINE e == Entry(n, good, parts, rest)
           more == IF good THEN ComplexSize(rest) ELSE 0
           size == ComplexSize(parts) + more
<1>1. CASE ~good /\ Continuous(parts)
  <2>1. e = [size |-> Bytes(parts), flat |-> TRUE, rest |-> <<>>, parts |-> parts]
    BY <1>1 DEF Entry
  <2>2. FoundIn(e, n) = parts
    <3>1. /\ IsContiguousSerialization(Bytes(parts), maxSliceSize(n))
          /\ Bytes(parts) <= maxSliceSize(n)
      BY <1>1, FlatSize
    <3>2. maxSliceSize(n) \in Int /\ Bytes(parts) \in Int
      BY NumbersInt
    <3>3. ~(Bytes(parts) > maxSliceSize(n))  BY <3>1, <3>2
    <3>4. FoundIn(e, n) = Decoded(Bytes(parts), TRUE, parts, maxSliceSize(n))
      BY <2>1 DEF FoundIn
    <3> QED  BY <3>1, <3>3, <3>4 DEF Decoded
  <2>3. RestOf(e) = <<>>  BY <2>1 DEF RestOf
  <2> HIDE DEF e
  <2>4. e.parts = parts /\ e.rest = <<>>  BY <2>1
  <2> QED  BY <2>2, <2>3, <2>4 DEF Readable, e
<1>2. CASE ~(~good /\ Continuous(parts))
  <2>1. e = [size |-> Padded(size, maxSliceSize(n)), flat |-> FALSE, rest |-> rest,
             parts |-> parts]
    BY <1>2 DEF Entry
  <2>2. ComplexSize(parts) \in Nat /\ ComplexSize(rest) \in Nat
    BY ComplexSizeIs DEF InPlace
  <2>3. more \in Nat  BY <2>2
  <2>4. /\ Padded(size, maxSliceSize(n)) \in size .. size + 3
        /\ ~IsContiguousSerialization(Padded(size, maxSliceSize(n)), maxSliceSize(n))
    <3> HIDE DEF more
    <3>1. size \in Nat  BY <2>2, <2>3
    <3> HIDE DEF size
    <3> QED  BY <3>1, PaddedIs
  <2> HIDE DEF e, more
  <2>5. /\ e.parts = parts /\ e.rest = rest /\ e.flat = FALSE
        /\ e.size = Padded(size, maxSliceSize(n))
    BY <2>1
  <2>6. FoundIn(e, n) = parts
    BY <2>4, <2>5 DEF FoundIn, Decoded
  <2>7. ASSUME ~isFullInHeader PROVE DOMAIN RestOf(e) = DOMAIN rest
    <3> DEFINE pad == e.size - size
    <3>1. pad \in 0 .. 3 /\ e.size - ComplexSize(parts) = more + pad
      <4>1. e.size \in size .. size + 3  BY <2>4, <2>5
      <4> QED  BY <2>2, <2>3, <4>1
    <3>2. RestOf(e) = Decoded(more + pad, FALSE, rest, maxSliceSize(1))
      BY <2>5, <3>1 DEF RestOf
    <3> HIDE DEF pad
    <3>3. CASE ~IsContiguousSerialization(more + pad, maxSliceSize(1))
      BY <3>2, <3>3 DEF Decoded
    <3>4. CASE IsContiguousSerialization(more + pad, maxSliceSize(1))
      <4>1. ~good
        <5> SUFFICES ASSUME good PROVE FALSE  OBVIOUS
        <5>1. more = ComplexSize(rest)  BY DEF more
        <5> QED  BY <2>7, <3>1, <3>4, <5>1, RestIsNotContiguous
      <4>2. EntryInPlace(e, n)  BY EntryIs DEF e
      <4>3. n = 0 => e.size = ComplexSize(parts)
        <5>1. e.size - ComplexSize(parts) = more + pad  BY <3>1
        <5> QED  BY <2>5, <2>7, <3>4, <4>2, <5>1 DEF EntryInPlace
      <4>4. more = 0 /\ DOMAIN rest = {}  BY <4>1 DEF more
      <4>5. CASE pad = 0
        <5>1. RestOf(e) = Decoded(0, FALSE, rest, maxSliceSize(1))
          BY <3>2, <4>4, <4>5
        <5>2. DOMAIN Decoded(0, FALSE, rest, maxSliceSize(1)) = {}  BY <4>4, NoRest
        <5> QED  BY <4>4, <5>1, <5>2
      <4>6. CASE pad # 0
        <5>1. ~IsContiguousSerialization(more + pad, maxSliceSize(1))
          BY <2>7, <3>1, <4>4, <4>6, PadIsNotContiguous
        <5> QED  BY <3>4, <5>1
      <4> QED  BY <4>5, <4>6
    <3> QED  BY <3>3, <3>4
  <2> QED  BY <2>5, <2>6, <2>7 DEF Readable, e
<1> QED  BY <1>1, <1>2

LEMMA NothingReadable ==
    ASSUME file \in Files, NEW n \in Numbers
    PROVE  Readable(NoEntry, n)
<1>1. RestOf(NoEntry) = <<>> /\ NoEntry.parts = <<>> /\ NoEntry.rest = <<>>
  BY DEF RestOf, NoEntry
<1>2. FoundIn(NoEntry, n) = <<>>  BY DEF FoundIn, NoEntry, Decoded
<1> QED  BY <1>1, <1>2 DEF Readable

-----------------------------------------------------------------------------
(* The slices: what each operation does to what is held and to the flags. *)

Flags(x, n) == x.slices[n].flags

\* The fields that operations on slices leave alone.
Same(x, y) ==
    Shaped(y) /\ y.mode = x.mode /\ y.loading = x.loading /\ y.opened = x.opened

LEMMA WithIs ==
    ASSUME NEW x, Shaped(x), NEW n \in Numbers, NEW on, NEW off,
           NEW y, y = With(x, n, on, off)
    PROVE  /\ Same(x, y) /\ y.broken = x.broken
           /\ \A k \in Numbers : Holds(y, k) = Holds(x, k)
           /\ \A k \in Numbers :
                 Flags(y, k) = IF k = n THEN (Flags(x, n) \cup on) \ off ELSE Flags(x, k)
BY DEF Shaped, With, Same, Holds, Flags

\* Parts are added to a slice.
Given(x, n, found) ==
    [x EXCEPT !.slices[n].parts = Emplaced(x.slices[n].parts, found)]

LEMMA GivenIs ==
    ASSUME NEW x, Shaped(x), NEW n \in Numbers, NEW found,
           NEW y, y = Given(x, n, found)
    PROVE  /\ Same(x, y) /\ y.broken = x.broken
           /\ \A k \in Numbers :
                 Holds(y, k) = IF k = n THEN Holds(x, n) \cup DOMAIN found ELSE Holds(x, k)
           /\ \A k \in Numbers : Flags(y, k) = Flags(x, k)
<1> DEFINE given == Emplaced(x.slices[n].parts, found)
<1>1. DOMAIN given = Holds(x, n) \cup DOMAIN found  BY DEF Emplaced, Holds
<1>2. y = [x EXCEPT !.slices[n].parts = given]  BY DEF Given
<1> HIDE DEF given
<1>3. /\ Same(x, y) /\ y.broken = x.broken
      /\ \A k \in Numbers : y.slices[k].parts = IF k = n THEN given ELSE x.slices[k].parts
      /\ \A k \in Numbers : Flags(y, k) = Flags(x, k)
  BY <1>2 DEF Shaped, Same, Flags
<1> QED  BY <1>1, <1>3 DEF Holds

LEMMA AddPartIs ==
    ASSUME NEW x, Shaped(x), NEW n \in Numbers, NEW o, NEW bytes,
           NEW y, y = addPart(x, n, o, bytes)
    PROVE  /\ Same(x, y)
           /\ y.broken = IF o \in Holds(x, n) THEN x.broken \cup {"addPart"} ELSE x.broken
           /\ \A k \in Numbers :
                 Holds(y, k) = IF k = n THEN Holds(x, n) \cup {o} ELSE Holds(x, k)
           /\ \A k \in Numbers :
                 Flags(y, k) = IF k = n /\ Has(x, n, "loaded")
                               THEN Flags(x, n) \cup {"changed"} ELSE Flags(x, k)
<1> DEFINE free == o \notin Holds(x, n)
           a == Expects(x, "addPart", free)
           new == [i \in {o} |-> bytes]
           z == Given(a, n, new)
           on == {"changed"}
           off == {}
           w == With(z, n, on, off)
<1>1. free \in BOOLEAN /\ free = ~(o \in Holds(x, n)) /\ DOMAIN new = {o}  OBVIOUS
<1>2. y = IF Has(x, n, "loaded") THEN w ELSE z  BY DEF addPart, Given
<1> HIDE DEF free, new, on, off
<1>3. Same(x, a) /\ a.slices = x.slices
      /\ a.broken = IF free THEN x.broken ELSE x.broken \cup {"addPart"}
  BY <1>1 DEF Expects, Same, Shaped
<1> HIDE DEF a
<1>4. /\ Shaped(a)
      /\ \A k \in Numbers : Holds(a, k) = Holds(x, k) /\ Flags(a, k) = Flags(x, k)
  BY <1>3 DEF Holds, Flags, Same
<1>5. /\ Same(a, z) /\ z.broken = a.broken
      /\ \A k \in Numbers :
            Holds(z, k) = IF k = n THEN Holds(a, n) \cup DOMAIN new ELSE Holds(a, k)
      /\ \A k \in Numbers : Flags(z, k) = Flags(a, k)
  BY <1>4, GivenIs
<1> HIDE DEF z
<1>6. /\ Same(z, w) /\ w.broken = z.broken
      /\ \A k \in Numbers : Holds(w, k) = Holds(z, k)
      /\ \A k \in Numbers : Flags(w, k) = IF k = n THEN (Flags(z, n) \cup on) \ off
                                          ELSE Flags(z, k)
  <2>1. Shaped(z)  BY <1>5 DEF Same
  <2> QED  BY <2>1, WithIs
<1> HIDE DEF w
<1>7. CASE Has(x, n, "loaded")
  <2>1. y = w  BY <1>2, <1>7
  <2>2. (Flags(z, n) \cup on) \ off = Flags(z, n) \cup {"changed"}  BY DEF on, off
  <2> QED  BY <1>1, <1>3, <1>4, <1>5, <1>6, <1>7, <2>1, <2>2 DEF Same
<1>8. CASE ~Has(x, n, "loaded")
  <2>1. y = z  BY <1>2, <1>8
  <2> QED  BY <1>1, <1>3, <1>4, <1>5, <1>8, <2>1 DEF Same
<1> QED  BY <1>7, <1>8

LEMMA ProcessDataIs ==
    ASSUME NEW x, Shaped(x), NEW n \in Numbers, NEW found,
           NEW y, y = processCacheData(x, n, found)
    PROVE  /\ Same(x, y) /\ y.broken = x.broken
           /\ \A k \in Numbers :
                 Holds(y, k) = IF k = n THEN Holds(x, n) \cup DOMAIN found ELSE Holds(x, k)
           /\ \A k \in Numbers :
                 Flags(y, k) = IF k = n THEN (Flags(x, n) \cup {"loaded"}) \ {"loading"}
                               ELSE Flags(x, k)
<1> DEFINE z == Given(x, n, found)
           on == {"loaded"}
           off == {"loading"}
<1>1. y = With(z, n, on, off)  BY DEF processCacheData, Given
<1>2. /\ Same(x, z) /\ z.broken = x.broken
      /\ \A k \in Numbers :
            Holds(z, k) = IF k = n THEN Holds(x, n) \cup DOMAIN found ELSE Holds(x, k)
      /\ \A k \in Numbers : Flags(z, k) = Flags(x, k)
  BY GivenIs
<1> HIDE DEF z, on, off
<1>3. /\ Same(z, y) /\ y.broken = z.broken
      /\ \A k \in Numbers : Holds(y, k) = Holds(z, k)
      /\ \A k \in Numbers :
            Flags(y, k) = IF k = n THEN (Flags(z, n) \cup on) \ off
                          ELSE Flags(z, k)
  <2>1. Shaped(z)  BY <1>2 DEF Same
  <2> QED  BY <1>1, <2>1, WithIs
<1>4. (Flags(z, n) \cup on) \ off = (Flags(z, n) \cup {"loaded"}) \ {"loading"}
  BY DEF on, off
<1> QED  BY <1>2, <1>3, <1>4 DEF Same

\* headerDone, of a header that was not known: what the cache had of it, or all
\* that FFmpeg read before it was done.
LEMMA HeaderDoneFromCache ==
    ASSUME NEW x, Shaped(x), x.mode = "Unknown", NEW y, y = headerDone(x, TRUE)
    PROVE  /\ Shaped(y) /\ y.loading = x.loading /\ y.opened = x.opened
           /\ isFullInHeader => y.mode = "Full"
           /\ ~isFullInHeader => y.mode \in {"Good", "Small"}
           /\ y.broken = x.broken
           /\ \A k \in Numbers : Holds(y, k) = Holds(x, k) /\ Flags(y, k) = Flags(x, k)
<1> DEFINE mode == IF isFullInHeader THEN "Full"
                   ELSE IF computeIsGoodHeader(x) THEN "Good" ELSE "Small"
<1>1. /\ isFullInHeader => mode = "Full"
      /\ ~isFullInHeader => mode \in {"Good", "Small"}
  OBVIOUS
<1>2. y = [x EXCEPT !.mode = mode]  BY DEF headerDone
<1> HIDE DEF mode
<1>3. /\ Shaped(y) /\ y.loading = x.loading /\ y.opened = x.opened /\ y.mode = mode
      /\ y.broken = x.broken /\ y.slices = x.slices
  BY <1>2 DEF Shaped
<1> QED  BY <1>1, <1>3 DEF Holds, Flags

LEMMA HeaderDoneRead ==
    ASSUME NEW x, Shaped(x), x.mode = "Unknown", NEW y, y = headerDone(x, FALSE),
           \A n \in Numbers \ {0} : ~Has(x, n, "loading") /\ ~Has(x, n, "loaded")
    PROVE  /\ Shaped(y) /\ y.loading = x.loading /\ y.opened = x.opened
           /\ isFullInHeader => y.mode = "Full"
           /\ ~isFullInHeader => y.mode \in {"Good", "Small"}
           /\ y.broken = x.broken
           /\ \A k \in Numbers : Holds(y, k) = Holds(x, k)
           /\ \A k \in Numbers :
                 Flags(y, k) = IF k = 0 THEN Flags(x, k) ELSE Flags(x, k) \cup {"loaded"}
<1> DEFINE mode == IF isFullInHeader THEN "Full"
                   ELSE IF computeIsGoodHeader(x) THEN "Good" ELSE "Small"
           v == [x EXCEPT !.mode = mode]
           quiet == \A n \in Numbers \ {0} :
                        ~Has(x, n, "loading") /\ ~Has(x, n, "loaded")
           e == Expects(v, "headerDone", quiet)
           z == [e EXCEPT !.slices = [n \in Numbers |->
                       IF n = 0 THEN e.slices[0]
                       ELSE [x.slices[n] EXCEPT !.flags = x.slices[n].flags \cup {"loaded"}]]]
<1>1. /\ isFullInHeader => mode = "Full"
      /\ ~isFullInHeader => mode \in {"Good", "Small"}
  OBVIOUS
<1>2. y = z  BY DEF headerDone
<1> HIDE DEF mode
<1>3. /\ Shaped(v) /\ v.loading = x.loading /\ v.opened = x.opened /\ v.mode = mode
      /\ v.broken = x.broken /\ v.slices = x.slices
  BY DEF Shaped
<1> HIDE DEF v
<1>4. quiet  OBVIOUS
<1>5. e = v
  <2> HIDE DEF quiet
  <2> QED  BY <1>4 DEF Expects
<1> HIDE DEF e, quiet
<1>6. /\ Shaped(z) /\ z.loading = e.loading /\ z.opened = e.opened /\ z.mode = e.mode
      /\ z.broken = e.broken
      /\ \A k \in Numbers : z.slices[k].parts = x.slices[k].parts
      /\ \A k \in Numbers : Flags(z, k) = IF k = 0 THEN Flags(x, k)
                                          ELSE Flags(x, k) \cup {"loaded"}
  BY <1>3, <1>5 DEF Same, Shaped, Flags
<1> HIDE DEF z
<1> QED  BY <1>1, <1>2, <1>3, <1>5, <1>6 DEF Holds

\* A part belongs to one slice only.
LEMMA SliceAtUnique ==
    ASSUME file \in Files, NEW n \in Numbers, n > 0, NEW o \in 0 .. kPartsInSlice - 1
    PROVE  SliceAt(SliceStart(n) + o) = n /\ SliceStart(n) + o \in Nat
<1> DEFINE K == kPartsInSlice
           a == n - 1
           p == SliceStart(n) + o
           q == p \div K
<1>1. K \in Nat \ {0}  BY FileIs
<1>2. n \in Nat  BY NumbersAre
<1>3. a \in Nat /\ n = a + 1  BY <1>2
<1>4. o \in 0 .. K - 1  OBVIOUS
<1>5. SliceStart(n) = a * K  BY DEF SliceStart
<1> HIDE DEF K, a
<1>6. SliceStart(n) = K * a /\ K * a \in Nat  BY <1>1, <1>3, <1>5
<1>7. p = K * a + o /\ p \in Nat  BY <1>1, <1>4, <1>6
<1> HIDE DEF p
<1>8. q \in Nat /\ p % K \in 0 .. K - 1 /\ p = K * q + (p % K)  BY <1>1, <1>7, DivMod
<1> DEFINE r == p % K
<1>9. r \in 0 .. K - 1 /\ p = K * q + r  BY <1>8
<1> HIDE DEF q, r
<1>10. q \in Nat /\ K * q \in Nat  BY <1>1, <1>8
<1>11. ~(q < a)
  <2> SUFFICES ASSUME q < a PROVE FALSE  OBVIOUS
  <2>1. q + 1 <= a /\ q + 1 \in Nat  BY <1>3, <1>10
  <2>2. K * (q + 1) <= K * a /\ K * (q + 1) = K * q + K
    BY <1>1, <1>3, <1>10, <2>1, TimesMonotone
  <2> QED  BY <1>1, <1>4, <1>6, <1>7, <1>9, <1>10, <2>2
<1>12. ~(a < q)
  <2> SUFFICES ASSUME a < q PROVE FALSE  OBVIOUS
  <2>1. a + 1 <= q /\ a + 1 \in Nat  BY <1>3, <1>10
  <2>2. K * (a + 1) <= K * q /\ K * (a + 1) = K * a + K
    BY <1>1, <1>3, <1>10, <2>1, TimesMonotone
  <2> QED  BY <1>1, <1>4, <1>6, <1>7, <1>9, <1>10, <2>2
<1>13. q = a  BY <1>3, <1>10, <1>11, <1>12
<1>14. SliceAt(p) = q + 1  BY DEF SliceAt, q, K
<1> QED  BY <1>3, <1>7, <1>13, <1>14 DEF p

\* The parts of the header that a slice is given.
GivenTo(parts, n) == {p - SliceStart(n) : p \in {q \in parts : SliceAt(q) = n}}

LEMMA GivenToIs ==
    ASSUME file \in Files, ~isFullInHeader, NEW parts, parts \subseteq Positions(0)
    PROVE  /\ GivenTo(parts, 0) = {}
           /\ GivenTo(parts, 1) = parts \cap Positions(1)
           /\ LET first == {p \in parts : SliceAt(p) = 1}
              IN  \A n \in Numbers :
                     GivenTo(first, n) = IF n = 1 THEN parts \cap Positions(1) ELSE {}
<1>1. Positions(0) = 0 .. FileParts - 1 /\ FileParts \in Nat  BY FileIs DEF Positions
<1>2. \A p \in parts : SliceAt(p) >= 1 /\ SliceAt(p) # 0
  <2>1. \A p \in parts : SliceAt(p) \in Numbers /\ SliceAt(p) >= 1  BY <1>1, SliceAtIs
  <2> QED  BY <2>1, NumbersAre
<1>3. SliceStart(1) = 0
  <2>1. SliceStart(1) = (1 - 1) * kPartsInSlice  BY DEF SliceStart
  <2> QED  BY <2>1, FileIs
<1>4. \A p \in parts : SliceAt(p) = 1 <=> p \in Positions(1)
  <2> SUFFICES ASSUME NEW p \in parts PROVE SliceAt(p) = 1 <=> p \in Positions(1)
    OBVIOUS
  <2>1. p \in 0 .. FileParts - 1 /\ p < FileParts  BY <1>1
  <2>2. Positions(1) = {o \in 0 .. kPartsInSlice - 1 : SliceStart(1) + o < FileParts}
    BY DEF Positions
  <2>3. SliceAt(p) = 1 => p \in Positions(1)
    <3>1. SliceAt(p) = 1 => p < kPartsInSlice  BY <2>1, SliceAtIs
    <3>2. kPartsInSlice \in Nat  BY FileIs
    <3> QED  BY <1>3, <2>1, <2>2, <3>1, <3>2
  <2>4. p \in Positions(1) => SliceAt(p) = 1
    <3> SUFFICES ASSUME p \in Positions(1) PROVE SliceAt(p) = 1  OBVIOUS
    <3>1. p \in 0 .. kPartsInSlice - 1  BY <2>2
    <3>2. 1 \in Numbers /\ 1 > 0  BY NumbersAre
    <3>3. SliceAt(SliceStart(1) + p) = 1  BY <3>1, <3>2, SliceAtUnique
    <3>4. SliceStart(1) + p = p  BY <1>3, <2>1
    <3> QED  BY <3>3, <3>4
  <2> QED  BY <2>3, <2>4
<1>5. \A p \in parts : p - SliceStart(1) = p  BY <1>1, <1>3
<1>6. GivenTo(parts, 0) = {}  BY <1>2 DEF GivenTo
<1>7. GivenTo(parts, 1) = parts \cap Positions(1)  BY <1>4, <1>5 DEF GivenTo
<1> DEFINE first == {p \in parts : SliceAt(p) = 1}
<1>8. GivenTo(first, 1) = parts \cap Positions(1)  BY <1>4, <1>5 DEF GivenTo
<1>9. \A n \in Numbers : n # 1 => GivenTo(first, n) = {}  BY DEF GivenTo
<1> HIDE DEF first
<1>10. \A n \in Numbers :
           GivenTo(first, n) = IF n = 1 THEN parts \cap Positions(1) ELSE {}
  BY <1>8, <1>9
<1> QED  BY <1>6, <1>7, <1>10 DEF first

LEMMA ApplyPartsIs ==
    ASSUME file \in Files, NEW x, Shaped(x), NEW parts, NEW y, y = applyParts(x, parts)
    PROVE  /\ Same(x, y)
           /\ y.broken \subseteq x.broken \cup {"addPart"}
           /\ (\A n \in Numbers : GivenTo(parts, n) \cap Holds(x, n) = {}) => y.broken = x.broken
           /\ \A n \in Numbers : Holds(y, n) = Holds(x, n) \cup GivenTo(parts, n)
           /\ \A n \in Numbers :
                 Flags(y, n) = IF GivenTo(parts, n) # {} /\ Has(x, n, "loaded")
                               THEN Flags(x, n) \cup {"changed"} ELSE Flags(x, n)
<1> DEFINE free == \A n \in Numbers : GivenTo(parts, n) \cap Holds(x, n) = {}
           e == Expects(x, "addPart", free)
           new(n) == [o \in GivenTo(parts, n) |-> e.slices[0].parts[SliceStart(n) + o]]
           parted(n) == Emplaced(e.slices[n].parts, new(n))
           flagged(n) == IF Has(x, n, "loaded") THEN e.slices[n].flags \cup {"changed"}
                         ELSE e.slices[n].flags
           S == [n \in Numbers |->
                    IF GivenTo(parts, n) = {} THEN e.slices[n]
                    ELSE [parts |-> parted(n), flags |-> flagged(n)]]
           z == [e EXCEPT !.slices = S]
<1>1. y = z  BY DEF applyParts, GivenTo
<1>2. Same(x, e) /\ e.slices = x.slices
      /\ e.broken = IF free THEN x.broken ELSE x.broken \cup {"addPart"}
  <2>1. free \in BOOLEAN  OBVIOUS
  <2> HIDE DEF free
  <2> QED  BY <2>1 DEF Expects, Same, Shaped
<1> HIDE DEF e, free
<1>3. \A n \in Numbers : DOMAIN new(n) = GivenTo(parts, n)  OBVIOUS
<1> HIDE DEF new
<1>4. \A n \in Numbers : DOMAIN parted(n) = Holds(x, n) \cup GivenTo(parts, n)
  BY <1>2, <1>3 DEF Emplaced, Holds
<1>5. \A n \in Numbers :
          flagged(n) = IF Has(x, n, "loaded") THEN Flags(x, n) \cup {"changed"} ELSE Flags(x, n)
  BY <1>2 DEF Flags
<1> HIDE DEF parted, flagged
<1>6. /\ DOMAIN S = Numbers
      /\ \A n \in Numbers :
            /\ {"parts", "flags"} \subseteq DOMAIN S[n]
            /\ DOMAIN S[n].parts = Holds(x, n) \cup GivenTo(parts, n)
            /\ S[n].flags = IF GivenTo(parts, n) # {} /\ Has(x, n, "loaded")
                            THEN Flags(x, n) \cup {"changed"} ELSE Flags(x, n)
  <2>1. DOMAIN S = Numbers  OBVIOUS
  <2>2. ASSUME NEW n \in Numbers
        PROVE  /\ {"parts", "flags"} \subseteq DOMAIN S[n]
               /\ DOMAIN S[n].parts = Holds(x, n) \cup GivenTo(parts, n)
               /\ S[n].flags = IF GivenTo(parts, n) # {} /\ Has(x, n, "loaded")
                               THEN Flags(x, n) \cup {"changed"} ELSE Flags(x, n)
    <3>1. CASE GivenTo(parts, n) = {}
      <4>1. S[n] = x.slices[n]  BY <1>2, <3>1
      <4> HIDE DEF S
      <4> QED  BY <3>1, <4>1 DEF Shaped, Holds, Flags
    <3>2. CASE GivenTo(parts, n) # {}
      <4>1. S[n] = [parts |-> parted(n), flags |-> flagged(n)]  BY <3>2
      <4> HIDE DEF S
      <4> QED  BY <1>4, <1>5, <3>2, <4>1
    <3> QED  BY <3>1, <3>2
  <2> QED  BY <2>1, <2>2
<1> HIDE DEF S
<1>7. /\ z.slices = S /\ z.mode = e.mode /\ z.loading = e.loading /\ z.opened = e.opened
      /\ z.broken = e.broken
      /\ {"slices", "mode", "used", "loading", "failed", "opened", "broken"} \subseteq DOMAIN z
  BY <1>2 DEF Same, Shaped
<1> HIDE DEF z
<1>8. Same(x, z)  BY <1>2, <1>6, <1>7 DEF Same, Shaped
<1>9. /\ z.broken \subseteq x.broken \cup {"addPart"}
      /\ free => z.broken = x.broken
  BY <1>2, <1>7
<1>10. /\ \A n \in Numbers : Holds(z, n) = Holds(x, n) \cup GivenTo(parts, n)
       /\ \A n \in Numbers :
             Flags(z, n) = IF GivenTo(parts, n) # {} /\ Has(x, n, "loaded")
                           THEN Flags(x, n) \cup {"changed"} ELSE Flags(x, n)
  BY <1>6, <1>7 DEF Holds, Flags
<1> QED  BY <1>1, <1>8, <1>9, <1>10 DEF free

-----------------------------------------------------------------------------
(* The slices: the memory of a reader and the cache. *)

Known(x) == x.mode \in {"Full", "Good", "Small"}

\* Before the header is done: the slices are not looked up in the cache, and what
\* came before its end is in the header as well as in its slice.
Undecided(x) ==
    /\ \A n \in Numbers \ {0} : Flags(x, n) = {}
    /\ Holds(x, 0) # {} => Has(x, 0, "changed")
    /\ Holds(x, 0) = {} => ~x.opened /\ \A n \in Numbers : Holds(x, n) = {}
    /\ ~Has(x, 0, "loaded") => Holds(x, 0) = {} /\ x.loading = {}
    /\ ~isFullInHeader =>
          \A p \in Holds(x, 0) : p - SliceStart(SliceAt(p)) \in Holds(x, SliceAt(p))

\* The flags of the slices, and what the mode of the header says of them.
Memory(x) ==
    /\ x.mode \in {"Unknown", "NoCache", "Full", "Good", "Small"}
    /\ x.mode = "NoCache" <=> ~UseCache
    /\ x.mode = "Full" => isFullInHeader
    /\ x.mode \in {"Good", "Small"} => ~isFullInHeader
    /\ x.loading \subseteq 0 .. FileParts - 1
    /\ \A n \in Numbers :
          /\ Has(x, n, "loaded") => ~Has(x, n, "loading")
          /\ Has(x, n, "changed") => Has(x, n, "loaded") /\ Holds(x, n) # {}
    /\ x.mode = "NoCache" => \A n \in Numbers : Flags(x, n) = {}
    /\ x.mode = "Unknown" => Undecided(x)
    /\ Known(x) => Has(x, 0, "loaded") /\ Holds(x, 0) # {}

\* What the cache has of a slice; the first one shares the entry of a good header.
Kept(x, c, n) ==
    IF n = 1 /\ isGoodHeader(x)
    THEN (Holds(x, 0) \cap Positions(1)) \cup DOMAIN c[0].rest
    ELSE DOMAIN c[n].parts

Bare(c) == \A n \in Numbers : DOMAIN c[n].parts = {} /\ DOMAIN c[n].rest = {}

\* A reader whose header is done holds all that the cache has of what it looked up.
TakenIn(x, c) ==
    /\ DOMAIN c[0].parts \subseteq Holds(x, 0)
    /\ DOMAIN c[0].parts = {} => Has(x, 0, "changed")
    /\ x.mode # "Full" /\ Has(x, 0, "changed") => DOMAIN c[0].parts = {}
    /\ \A n \in Numbers \ {0} : Has(x, n, "loaded") => Kept(x, c, n) \subseteq Holds(x, n)
    /\ isGoodHeader(x) /\ ~Has(x, 1, "loaded") => Holds(x, 0) \cap Holds(x, 1) = {}

\* A reader and a cache that forgets nothing.
Agrees(x, c) ==
    /\ \A n \in Numbers : n > 0 \/ isFullInHeader => DOMAIN c[n].rest = {}
    /\ DOMAIN c[0].parts = {} => DOMAIN c[0].rest = {}
    /\ x.mode = "NoCache" => Bare(c)
    /\ x.mode = "Unknown" =>
          IF Has(x, 0, "loaded") THEN Bare(c) ELSE DOMAIN c[0].parts = {} => Bare(c)
    /\ Known(x) => TakenIn(x, c)

\* Parts that neither the memory nor the cache has.
Absent(x, c, parts) ==
    \A p \in parts : LET n == IF isFullInHeader THEN 0 ELSE SliceAt(p)
                     IN  p - SliceStart(n) \notin Holds(x, n) \cup Kept(x, c, n)

\* What was asked of the cache is not what the header's entry is for.
AskedOf(x, got) ==
    \A n \in got \ {0} : Known(x) /\ (isGoodHeader(x) => n # 1)

\* Which of the assertions may fail.
Admitted == {"unloadFirst"} \cup (IF Evicts THEN {"addPart"} ELSE {})

-----------------------------------------------------------------------------
(* The slices: a part comes from the loader. *)

LEMMA PlacedIs ==
    ASSUME NEW x, Placed(x), NEW n \in Numbers
    PROVE  Shaped(x) /\ Holds(x, n) \subseteq Positions(n)
BY DEF Placed, InPlace, Holds

LEMMA SliceWhere ==
    ASSUME file \in Files, ~isFullInHeader, NEW p \in 0 .. FileParts - 1
    PROVE  /\ SliceAt(p) \in Numbers \ {0}
           /\ p - SliceStart(SliceAt(p)) \in Positions(SliceAt(p))
           /\ p = SliceStart(SliceAt(p)) + (p - SliceStart(SliceAt(p)))
           /\ SliceAt(p) = 1 => p \in Positions(1) /\ p - SliceStart(SliceAt(p)) = p
<1> DEFINE n == SliceAt(p)
           b == SliceStart(n)
<1>1. /\ n \in Numbers /\ n >= 1 /\ b \in Nat /\ p - b \in 0 .. kPartsInSlice - 1
  BY SliceAtIs
<1>2. n # 0  BY <1>1, NumbersAre
<1>3. FileParts \in Nat  BY FileIs
<1>4. n = 1 => b = 0
  <2>1. SliceStart(1) = (1 - 1) * kPartsInSlice  BY DEF SliceStart
  <2> QED  BY <2>1, FileIs
<1>5. Positions(n) = {o \in 0 .. kPartsInSlice - 1 : b + o < FileParts}
  BY <1>2 DEF Positions
<1> HIDE DEF n, b
<1>6. p = b + (p - b) /\ b + (p - b) < FileParts  BY <1>1, <1>3
<1>7. p - b \in Positions(n)  BY <1>1, <1>5, <1>6
<1>8. n = 1 => p - b = p /\ p \in Positions(1)  BY <1>3, <1>4, <1>7
<1> QED  BY <1>1, <1>2, <1>6, <1>7, <1>8 DEF n, b

\* A part is added to its slice, before the header is done to the header too.
PartAdded(x, y, p, n, o, head) ==
    /\ head => x.mode = "Unknown"
    /\ ~head /\ x.mode = "Unknown" => Holds(x, 0) # {}
    /\ Same(x, y)
    /\ y.broken = IF o \in Holds(x, n) THEN x.broken \cup {"addPart"} ELSE x.broken
    /\ \A k \in Numbers :
          Holds(y, k) = IF k = n THEN Holds(x, n) \cup {o}
                        ELSE IF k = 0 /\ head THEN Holds(x, 0) \cup {p}
                        ELSE Holds(x, k)
    /\ \A k \in Numbers :
          Flags(y, k) = IF (k = n \/ (k = 0 /\ head)) /\ Has(x, k, "loaded")
                        THEN Flags(x, k) \cup {"changed"} ELSE Flags(x, k)

LEMMA ProcessPartIs ==
    ASSUME file \in Files, NEW x, Shaped(x), NEW p \in 0 .. FileParts - 1,
           NEW y, y = processPart(x, p)
    PROVE  /\ isFullInHeader => y = addPart(x, 0, p, p)
           /\ ~isFullInHeader /\ x.mode = "Unknown" /\ p \in Holds(x, 0) => y = x
           /\ ~isFullInHeader /\ ~(x.mode = "Unknown" /\ p \in Holds(x, 0)) =>
                 \E head \in BOOLEAN :
                     PartAdded(x, y, p, SliceAt(p), p - SliceStart(SliceAt(p)), head)
<1>1. isFullInHeader => y = addPart(x, 0, p, p)  BY DEF processPart
<1>2. ~isFullInHeader /\ x.mode = "Unknown" /\ p \in Holds(x, 0) => y = x
  BY DEF processPart
<1> DEFINE n == SliceAt(p)
           o == p - SliceStart(n)
           head == x.mode = "Unknown" /\ Cardinality(Holds(x, 0)) < MaxPartsInHeader
           a == IF head THEN addPart(x, 0, p, p) ELSE x
<1>3. ASSUME ~isFullInHeader, ~(x.mode = "Unknown" /\ p \in Holds(x, 0))
      PROVE  PartAdded(x, y, p, n, o, head)
  <2>1. y = addPart(a, n, o, p)  BY <1>3 DEF processPart
  <2>2. n \in Numbers \ {0} /\ 0 \in Numbers  BY <1>3, SliceWhere, NumbersAre
  <2>3. /\ head => x.mode = "Unknown"
        /\ ~head /\ x.mode = "Unknown" => Holds(x, 0) # {}
    <3>1. Cardinality({}) = 0 /\ MaxPartsInHeader > 0  BY FS_EmptySet, FileIs
    <3> QED  BY <3>1
  <2> HIDE DEF n, o
  <2>4. head => p \notin Holds(x, 0)  BY <1>3
  <2>5. /\ Same(x, a) /\ a.broken = x.broken
        /\ \A k \in Numbers :
              Holds(a, k) = IF k = 0 /\ head THEN Holds(x, 0) \cup {p} ELSE Holds(x, k)
        /\ \A k \in Numbers :
              Flags(a, k) = IF k = 0 /\ head /\ Has(x, 0, "loaded")
                            THEN Flags(x, k) \cup {"changed"} ELSE Flags(x, k)
    <3>1. CASE head
      <4>1. a = addPart(x, 0, p, p)  BY <3>1
      <4> HIDE DEF a, head
      <4>2. /\ Same(x, a)
            /\ a.broken = IF p \in Holds(x, 0) THEN x.broken \cup {"addPart"} ELSE x.broken
            /\ \A k \in Numbers :
                  Holds(a, k) = IF k = 0 THEN Holds(x, 0) \cup {p} ELSE Holds(x, k)
            /\ \A k \in Numbers :
                  Flags(a, k) = IF k = 0 /\ Has(x, 0, "loaded")
                                THEN Flags(x, 0) \cup {"changed"} ELSE Flags(x, k)
        <5>1. 0 \in Numbers  BY <2>2
        <5> QED  BY <4>1, <5>1, AddPartIs
      <4> QED  BY <2>4, <3>1, <4>2
    <3>2. CASE ~head
      <4>1. a = x  BY <3>2
      <4> HIDE DEF a, head
      <4> QED  BY <3>2, <4>1 DEF Same
    <3> QED  BY <3>1, <3>2
  <2> HIDE DEF a, head
  <2>6. Shaped(a)  BY <2>5 DEF Same
  <2>7. /\ Same(a, y)
        /\ y.broken = IF o \in Holds(a, n) THEN a.broken \cup {"addPart"} ELSE a.broken
        /\ \A k \in Numbers :
              Holds(y, k) = IF k = n THEN Holds(a, n) \cup {o} ELSE Holds(a, k)
        /\ \A k \in Numbers :
              Flags(y, k) = IF k = n /\ Has(a, n, "loaded")
                            THEN Flags(a, n) \cup {"changed"} ELSE Flags(a, k)
    BY <2>1, <2>2, <2>6, AddPartIs
  <2>8. Has(a, n, "loaded") = Has(x, n, "loaded")
    <3>1. Flags(a, n) = Flags(x, n)  BY <2>2, <2>5
    <3> QED  BY <3>1 DEF Has, Flags
  <2> QED  BY <2>2, <2>3, <2>5, <2>7, <2>8 DEF Same, PartAdded
<1>4. head \in BOOLEAN  OBVIOUS
<1> HIDE DEF n, o, head
<1> QED  BY <1>1, <1>2, <1>3, <1>4 DEF n, o

\* A part that is waited for is taken: what the flags say stays true, and of what
\* the cache has nothing is missing.
LEMMA FullPartTaken ==
    ASSUME file \in Files, isFullInHeader, NEW x, Placed(x), Memory(x),
           NEW p \in x.loading, NEW y, y = processPart(x, p)
    PROVE  /\ Memory(y) /\ Same(x, y)
           /\ y.broken \subseteq x.broken \cup {"addPart"}
           /\ \A c : Agrees(x, c) /\ Absent(x, c, {p}) =>
                        y.broken = x.broken /\ Agrees(y, c)
           /\ \A c, P : p \notin P /\ P \subseteq 0 .. FileParts - 1 /\ Absent(x, c, P)
                           => Absent(y, c, P)
<1>1. p \in 0 .. FileParts - 1 /\ 0 \in Numbers /\ Shaped(x)
  BY NumbersAre DEF Memory, Placed
<1>2. y = addPart(x, 0, p, p)  BY <1>1, ProcessPartIs
<1>3. /\ Same(x, y)
      /\ y.broken = IF p \in Holds(x, 0) THEN x.broken \cup {"addPart"} ELSE x.broken
      /\ \A k \in Numbers :
            Holds(y, k) = IF k = 0 THEN Holds(x, 0) \cup {p} ELSE Holds(x, k)
      /\ \A k \in Numbers :
            Flags(y, k) = IF k = 0 /\ Has(x, 0, "loaded")
                          THEN Flags(x, 0) \cup {"changed"} ELSE Flags(x, k)
  BY <1>1, <1>2, AddPartIs
<1>4. Numbers = {0}  BY DEF Numbers, LastSlice
<1>5. /\ x.mode \in {"Unknown", "NoCache", "Full"}
      /\ x.mode = "Unknown" => Has(x, 0, "loaded")
  BY DEF Memory, Undecided
<1>6. /\ Holds(y, 0) = Holds(x, 0) \cup {p}
      /\ Flags(y, 0) = IF Has(x, 0, "loaded") THEN Flags(x, 0) \cup {"changed"} ELSE Flags(x, 0)
      /\ y.mode = x.mode /\ y.loading = x.loading /\ y.opened = x.opened
  BY <1>1, <1>3 DEF Same
<1>7. Memory(y)
  BY <1>4, <1>5, <1>6 DEF Memory, Undecided, Known, Has, Flags
<1>8. \A c : Agrees(x, c) => Agrees(y, c)
  BY <1>4, <1>5, <1>6 DEF Agrees, TakenIn, Known, Has, Flags, Kept, isGoodHeader
<1>9. \A c : Absent(x, c, {p}) => p \notin Holds(x, 0)
  <2>1. SliceStart(0) = 0  BY DEF SliceStart
  <2>2. p - SliceStart(0) = p  BY <1>1, <2>1
  <2> QED  BY <2>2 DEF Absent
<1>10. ASSUME NEW c, NEW P, p \notin P, P \subseteq 0 .. FileParts - 1, Absent(x, c, P)
       PROVE  Absent(y, c, P)
  <2>1. SliceStart(0) = 0  BY DEF SliceStart
  <2>2. \A q \in P : q - SliceStart(0) = q /\ q # p  BY <1>10, <2>1
  <2>3. Kept(y, c, 0) = Kept(x, c, 0)  BY DEF Kept
  <2> QED  BY <1>6, <1>10, <2>2, <2>3 DEF Absent
<1> QED  BY <1>3, <1>7, <1>8, <1>9, <1>10

LEMMA SlicePartTaken ==
    ASSUME file \in Files, ~isFullInHeader, NEW x, Placed(x), Memory(x),
           NEW p \in x.loading, NEW y, y = processPart(x, p)
    PROVE  /\ Memory(y) /\ Same(x, y)
           /\ y.broken \subseteq x.broken \cup {"addPart"}
           /\ \A c : Agrees(x, c) /\ Absent(x, c, {p}) =>
                        y.broken = x.broken /\ Agrees(y, c)
           /\ \A c, P : p \notin P /\ P \subseteq 0 .. FileParts - 1 /\ Absent(x, c, P)
                           => Absent(y, c, P)
<1> DEFINE n == SliceAt(p)
           o == p - SliceStart(n)
<1>1. p \in 0 .. FileParts - 1 /\ Shaped(x)  BY DEF Memory, Placed
<1>2. CASE x.mode = "Unknown" /\ p \in Holds(x, 0)
  <2>1. y = x  BY <1>1, <1>2, ProcessPartIs
  <2> QED  BY <1>1, <2>1 DEF Same
<1>3. CASE ~(x.mode = "Unknown" /\ p \in Holds(x, 0))
  <2>0. PICK head \in BOOLEAN : PartAdded(x, y, p, n, o, head)
    <3>1. ~isFullInHeader  OBVIOUS
    <3> QED  BY <1>1, <1>3, <3>1, ProcessPartIs
  <2>1. /\ head => x.mode = "Unknown"
        /\ ~head /\ x.mode = "Unknown" => Holds(x, 0) # {}
        /\ Same(x, y)
        /\ y.broken = IF o \in Holds(x, n) THEN x.broken \cup {"addPart"} ELSE x.broken
        /\ \A k \in Numbers :
              Holds(y, k) = IF k = n THEN Holds(x, n) \cup {o}
                            ELSE IF k = 0 /\ head THEN Holds(x, 0) \cup {p}
                            ELSE Holds(x, k)
        /\ \A k \in Numbers :
              Flags(y, k) = IF (k = n \/ (k = 0 /\ head)) /\ Has(x, k, "loaded")
                            THEN Flags(x, k) \cup {"changed"} ELSE Flags(x, k)
    BY <2>0 DEF PartAdded
  <2>2. /\ n \in Numbers \ {0} /\ o \in Positions(n) /\ 0 \in Numbers
        /\ n = 1 => p \in Positions(1) /\ o = p
    BY <1>1, SliceWhere, NumbersAre
  <2>3. x.mode = "Unknown" => Undecided(x) /\ Has(x, 0, "loaded")
    BY DEF Memory, Undecided
  <2>4. y.mode = x.mode /\ y.loading = x.loading /\ y.opened = x.opened  BY <2>1 DEF Same
  <2>5. ASSUME NEW q \in 0 .. FileParts - 1, SliceAt(q) = n, q - SliceStart(n) = o
        PROVE  q = p
    <3>1. /\ p = SliceStart(n) + o /\ SliceStart(n) \in Nat
          /\ q = SliceStart(n) + (q - SliceStart(n))
      <4>1. SliceStart(SliceAt(p)) \in Nat  BY <1>1, SliceAtIs
      <4>2. p = SliceStart(SliceAt(p)) + (p - SliceStart(SliceAt(p)))  BY <1>1, SliceWhere
      <4>3. q = SliceStart(SliceAt(q)) + (q - SliceStart(SliceAt(q)))  BY SliceWhere
      <4> QED  BY <2>5, <4>1, <4>2, <4>3
    <3> QED  BY <2>5, <3>1
  <2> DEFINE Own(z, q) == q - SliceStart(SliceAt(q)) \in Holds(z, SliceAt(q))
  <2>6. ASSUME x.mode = "Unknown", NEW q \in Holds(y, 0) PROVE Own(y, q)
    <3>1. q \in Holds(x, 0) \/ q = p  BY <2>1, <2>2
    <3>2. CASE q = p  BY <2>1, <2>2, <3>2
    <3>3. CASE q \in Holds(x, 0)
      <4>1. Own(x, q)  BY <2>3, <2>6, <3>3 DEF Undecided
      <4>2. q \in Positions(0)  BY <2>2, <3>3, PlacedIs
      <4>3. SliceAt(q) \in Numbers \ {0}  BY <4>2, SliceWhere DEF Positions
      <4> QED  BY <2>1, <4>1, <4>3
    <3> QED  BY <3>1, <3>2, <3>3
  <2>7. x.mode = "Unknown" => \A q \in Holds(y, 0) : q - SliceStart(SliceAt(q)) \in Holds(y, SliceAt(q))
    BY <2>6
  <2> HIDE DEF n, o, Own
  <2>8. x.mode = "Unknown" => Undecided(y)
    <3> SUFFICES ASSUME x.mode = "Unknown" PROVE Undecided(y)  OBVIOUS
    <3>1. \A k \in Numbers \ {0} : Flags(y, k) = {}
      BY <2>1, <2>2, <2>3 DEF Undecided, Has, Flags
    <3>2. Has(y, 0, "loaded") /\ Has(y, 0, "changed") /\ Holds(y, 0) # {}
      BY <2>1, <2>2, <2>3 DEF Undecided, Has, Flags
    <3> QED  BY <2>7, <3>1, <3>2 DEF Undecided
  <2>9. \A k \in Numbers :
            /\ Has(y, k, "loaded") <=> Has(x, k, "loaded")
            /\ Has(y, k, "loading") <=> Has(x, k, "loading")
            /\ Has(y, k, "changed") => Has(x, k, "changed") \/ (Has(x, k, "loaded") /\ Holds(y, k) # {})
            /\ Holds(x, k) \subseteq Holds(y, k)
            /\ Flags(x, k) = {} => Flags(y, k) = {}
    <3> SUFFICES ASSUME NEW k \in Numbers
                 PROVE /\ Has(y, k, "loaded") <=> Has(x, k, "loaded")
                       /\ Has(y, k, "loading") <=> Has(x, k, "loading")
                       /\ Has(y, k, "changed") => Has(x, k, "changed") \/ (Has(x, k, "loaded") /\ Holds(y, k) # {})
                       /\ Holds(x, k) \subseteq Holds(y, k)
                       /\ Flags(x, k) = {} => Flags(y, k) = {}
      OBVIOUS
    <3>1. Holds(x, k) \subseteq Holds(y, k) /\ ((k = n \/ (k = 0 /\ head)) => Holds(y, k) # {})
      BY <2>1, <2>2
    <3>2. \/ Flags(y, k) = Flags(x, k)
          \/ /\ Flags(y, k) = Flags(x, k) \cup {"changed"} /\ Has(x, k, "loaded")
             /\ Holds(y, k) # {}
      BY <2>1, <3>1
    <3> QED  BY <3>1, <3>2 DEF Has, Flags
  <2>10. Memory(y)
    <3>1. /\ \A k \in Numbers :
                /\ Has(y, k, "loaded") => ~Has(y, k, "loading")
                /\ Has(y, k, "changed") => Has(y, k, "loaded") /\ Holds(y, k) # {}
      BY <2>9 DEF Memory
    <3>2. Known(y) => Has(y, 0, "loaded") /\ Holds(y, 0) # {}
      BY <2>2, <2>4, <2>9 DEF Memory, Known
    <3>3. y.mode = "NoCache" => \A k \in Numbers : Flags(y, k) = {}
      BY <2>4, <2>9 DEF Memory
    <3> QED  BY <2>4, <2>8, <3>1, <3>2, <3>3 DEF Memory
  <2>11. Known(x) => Holds(y, 0) = Holds(x, 0) /\ Flags(y, 0) = Flags(x, 0)
    BY <2>1, <2>2 DEF Known
  <2>12. \A c, k : k \in Numbers => Kept(y, c, k) = Kept(x, c, k)
    BY <2>4, <2>11 DEF Kept, isGoodHeader, Known
  <2>13. ASSUME NEW c, Absent(x, c, {p}) PROVE o \notin Holds(x, n) /\ o \notin Kept(x, c, n)
    BY <2>13 DEF Absent, o, n
  <2>14. ASSUME NEW c, Agrees(x, c), Absent(x, c, {p}) PROVE Agrees(y, c)
    <3>1. x.mode = "Unknown" => Has(y, 0, "loaded")  BY <2>2, <2>3, <2>9
    <3>2. Known(x) => TakenIn(y, c)
      <4> SUFFICES ASSUME Known(x) PROVE TakenIn(y, c)  OBVIOUS
      <4>1. TakenIn(x, c)  BY <2>14 DEF Agrees
      <4>2. \A f : Has(y, 0, f) <=> Has(x, 0, f)  BY <2>11 DEF Has, Flags
      <4>3. isGoodHeader(y) /\ ~Has(y, 1, "loaded") => Holds(y, 0) \cap Holds(y, 1) = {}
        <5> SUFFICES ASSUME isGoodHeader(y), ~Has(y, 1, "loaded")
                     PROVE  Holds(y, 0) \cap Holds(y, 1) = {}
          OBVIOUS
        <5>1. 1 \in Numbers /\ ~Has(x, 1, "loaded") /\ isGoodHeader(x)
          BY <2>4, <2>9, NumbersAre DEF isGoodHeader
        <5>2. Holds(x, 0) \cap Holds(x, 1) = {}  BY <4>1, <5>1 DEF TakenIn
        <5>3. Holds(y, 0) = Holds(x, 0)  BY <2>11
        <5>4. Holds(y, 1) = IF n = 1 THEN Holds(x, 1) \cup {o} ELSE Holds(x, 1)
          BY <2>1, <5>1 DEF isGoodHeader
        <5>5. n = 1 => o \notin Holds(x, 0)
          <6> SUFFICES ASSUME n = 1 PROVE o \notin Holds(x, 0)  OBVIOUS
          <6>1. o \notin Kept(x, c, 1)  BY <2>13, <2>14
          <6>2. o \in Positions(1)  BY <2>2
          <6> QED  BY <5>1, <6>1, <6>2 DEF Kept
        <5> QED  BY <5>2, <5>3, <5>4, <5>5
      <4>4. \A k \in Numbers \ {0} : Has(y, k, "loaded") => Kept(y, c, k) \subseteq Holds(y, k)
        BY <2>9, <2>12, <4>1 DEF TakenIn
      <4> QED  BY <2>4, <2>11, <4>1, <4>2, <4>3, <4>4 DEF TakenIn
    <3> QED  BY <2>3, <2>4, <2>14, <3>1, <3>2 DEF Agrees, Known
  <2>15. ASSUME NEW c, NEW P, p \notin P, P \subseteq 0 .. FileParts - 1, Absent(x, c, P)
         PROVE  Absent(y, c, P)
    <3> SUFFICES ASSUME NEW q \in P
                 PROVE  q - SliceStart(SliceAt(q)) \notin Holds(y, SliceAt(q)) \cup Kept(y, c, SliceAt(q))
      BY DEF Absent
    <3>1. q - SliceStart(SliceAt(q)) \notin Holds(x, SliceAt(q)) \cup Kept(x, c, SliceAt(q))
      BY <2>15 DEF Absent
    <3>2. SliceAt(q) \in Numbers \ {0} /\ q \in 0 .. FileParts - 1  BY <2>15, SliceWhere
    <3>3. SliceAt(q) = n => q - SliceStart(SliceAt(q)) # o  BY <2>5, <2>15, <3>2
    <3> QED  BY <2>1, <2>12, <3>1, <3>2, <3>3
  <2>16. \A c : Absent(x, c, {p}) => y.broken = x.broken  BY <2>1, <2>13
  <2> QED  BY <2>1, <2>10, <2>14, <2>15, <2>16
<1> QED  BY <1>2, <1>3

LEMMA AbsentFewer ==
    ASSUME NEW x, NEW c, NEW P, Absent(x, c, P), NEW Q, Q \subseteq P
    PROVE  Absent(x, c, Q)
BY DEF Absent

PartsTaken(x, y, c, parts) ==
    /\ Placed(y) /\ Memory(y) /\ Same(x, y)
    /\ y.broken \subseteq x.broken \cup {"addPart"}
    /\ Agrees(x, c) /\ Absent(x, c, x.loading) =>
          y.broken = x.broken /\ Agrees(y, c) /\ Absent(y, c, x.loading \ parts)

LEMMA PartTaken ==
    ASSUME file \in Files, NEW x, NEW y, NEW c, NEW parts, PartsTaken(x, y, c, parts),
           x.loading \subseteq 0 .. FileParts - 1,
           NEW p \in x.loading, p \notin parts
    PROVE  PartsTaken(x, processPart(y, p), c, parts \cup {p})
<1> DEFINE z == processPart(y, p)
           P == x.loading \ (parts \cup {p})
<1>1. Placed(y) /\ Memory(y) /\ p \in y.loading /\ p \in 0 .. FileParts - 1
  BY DEF PartsTaken, Same
<1>2. Placed(z)  BY <1>1, ProcessPartKeeps
<1>3. z = processPart(y, p)  OBVIOUS
<1> HIDE DEF z
<1>4. /\ Memory(z) /\ Same(y, z)
      /\ z.broken \subseteq y.broken \cup {"addPart"}
      /\ \A d : Agrees(y, d) /\ Absent(y, d, {p}) => z.broken = y.broken /\ Agrees(z, d)
      /\ \A d, Q : p \notin Q /\ Q \subseteq 0 .. FileParts - 1 /\ Absent(y, d, Q)
                      => Absent(z, d, Q)
  <2>1. CASE isFullInHeader  BY <1>1, <1>3, <2>1, FullPartTaken
  <2>2. CASE ~isFullInHeader  BY <1>1, <1>3, <2>2, SlicePartTaken
  <2> QED  BY <2>1, <2>2
<1>5. ASSUME Agrees(x, c), Absent(x, c, x.loading)
      PROVE  z.broken = x.broken /\ Agrees(z, c) /\ Absent(z, c, P)
  <2>1. y.broken = x.broken /\ Agrees(y, c) /\ Absent(y, c, x.loading \ parts)
    BY <1>5 DEF PartsTaken
  <2>2. {p} \subseteq x.loading \ parts /\ P \subseteq x.loading \ parts  OBVIOUS
  <2>3. p \notin P /\ P \subseteq 0 .. FileParts - 1  OBVIOUS
  <2> HIDE DEF P
  <2>4. Absent(y, c, {p}) /\ Absent(y, c, P)
    <3> DEFINE Q == x.loading \ parts
               one == {p}
    <3>1. Absent(y, c, Q) /\ one \subseteq Q /\ P \subseteq Q  BY <2>1, <2>2
    <3> HIDE DEF Q, one
    <3>2. Absent(y, c, one) /\ Absent(y, c, P)  BY <3>1, AbsentFewer
    <3> QED  BY <3>2 DEF one
  <2> QED  BY <1>4, <2>1, <2>3, <2>4
<1>6. Same(x, z) /\ z.broken \subseteq x.broken \cup {"addPart"}
  BY <1>4 DEF PartsTaken, Same
<1>7. Agrees(x, c) /\ Absent(x, c, x.loading) =>
          z.broken = x.broken /\ Agrees(z, c) /\ Absent(z, c, x.loading \ (parts \cup {p}))
  BY <1>5 DEF P
<1>8. PartsTaken(x, z, c, parts \cup {p})  BY <1>2, <1>4, <1>6, <1>7 DEF PartsTaken
<1> QED  BY <1>3, <1>8

LEMMA AllPartsTaken ==
    ASSUME file \in Files, NEW x, Placed(x), Memory(x), NEW c,
           NEW parts, parts \subseteq x.loading
    PROVE  PartsTaken(x, processParts(x, parts), c, parts)
<1>1. PICK r : /\ processParts(x, parts) = r[FileParts] /\ r[0] = x
               /\ \A i \in 1 .. FileParts :
                     r[i] = IF i - 1 \in parts THEN processPart(r[i - 1], i - 1) ELSE r[i - 1]
  BY ProcessPartsIs
<1> DEFINE upTo(n) == {p \in parts : p < n}
           K == {n \in Nat : n <= FileParts => PartsTaken(x, r[n], c, upTo(n))}
<1>2. FileParts \in Nat /\ x.loading \subseteq 0 .. FileParts - 1  BY FileIs DEF Memory
<1>3. 0 \in K
  <2>1. upTo(0) = {}  BY <1>2
  <2> DEFINE none == upTo(0)
  <2>2. x.loading \ none = x.loading  BY <2>1
  <2> HIDE DEF none
  <2>3. Same(x, x)  BY DEF Same, Placed
  <2>4. PartsTaken(x, x, c, none)  BY <2>2, <2>3 DEF PartsTaken
  <2> QED  BY <1>1, <2>4 DEF none
<1>4. ASSUME NEW n \in Nat, n \in K PROVE n + 1 \in K
  <2> SUFFICES ASSUME n + 1 <= FileParts PROVE PartsTaken(x, r[n + 1], c, upTo(n + 1))
    OBVIOUS
  <2>1. n + 1 \in 1 .. FileParts /\ (n + 1) - 1 = n  BY <1>2
  <2>2. r[n + 1] = IF n \in parts THEN processPart(r[n], n) ELSE r[n]  BY <1>1, <2>1
  <2>3. PartsTaken(x, r[n], c, upTo(n))  BY <1>2, <1>4, <2>1
  <2>4. CASE n \in parts
    <3>1. upTo(n + 1) = upTo(n) \cup {n} /\ n \notin upTo(n) /\ n \in x.loading
      <4>1. \A p \in parts : p \in Nat /\ (p < n + 1 <=> p < n \/ p = n)  BY <1>2
      <4>2. n \in x.loading /\ ~(n < n)  BY <2>4
      <4> QED  BY <2>4, <4>1, <4>2
    <3> DEFINE old == upTo(n)
               new == upTo(n + 1)
    <3>2. new = old \cup {n} /\ n \notin old /\ PartsTaken(x, r[n], c, old)
      BY <2>3, <3>1
    <3> HIDE DEF old, new
    <3>3. PartsTaken(x, processPart(r[n], n), c, old \cup {n})
      BY <1>2, <3>1, <3>2, PartTaken
    <3> QED  BY <2>2, <2>4, <3>2, <3>3 DEF new
  <2>5. CASE n \notin parts
    <3>1. upTo(n + 1) = upTo(n)  BY <1>2, <2>5
    <3> HIDE DEF upTo
    <3> QED  BY <2>2, <2>3, <2>5, <3>1
  <2> QED  BY <2>4, <2>5
<1> HIDE DEF K
<1>5. FileParts \in K  BY <1>2, <1>3, <1>4, NatSet
<1>6. PartsTaken(x, r[FileParts], c, upTo(FileParts))  BY <1>2, <1>5 DEF K
<1>7. upTo(FileParts) = parts  BY <1>2
<1> HIDE DEF upTo
<1> QED  BY <1>1, <1>6, <1>7

\* What holds of a reader and a cache.
Sound(x, c) ==
    /\ Placed(x) /\ Memory(x)
    /\ x.broken \subseteq Admitted
    /\ ~Evicts => Agrees(x, c) /\ Absent(x, c, x.loading)

LEMMA LoadedPartsSound ==
    ASSUME file \in Files, NEW x, NEW c, Sound(x, c), NEW parts
    PROVE  /\ Sound(processLoadedParts(x, parts), c)
           /\ processLoadedParts(x, parts).mode = x.mode
<1> DEFINE some == Awaited(x, parts)
           y == processParts(x, some)
           z == [y EXCEPT !.loading = y.loading \ parts]
<1>1. some = x.loading \cap parts  BY DEF Awaited
<1> HIDE DEF some
<1>2. PartsTaken(x, y, c, some)  BY <1>1, AllPartsTaken DEF Sound
<1> HIDE DEF y
<1>3. Placed(y) /\ Shaped(y) /\ Memory(y) /\ y.loading = x.loading /\ y.mode = x.mode
  BY <1>2 DEF PartsTaken, Same
<1>4. /\ Shaped(z) /\ z.slices = y.slices /\ z.mode = y.mode /\ z.used = y.used
      /\ z.opened = y.opened /\ z.broken = y.broken /\ z.loading = y.loading \ parts
  BY <1>3 DEF Shaped
<1> HIDE DEF z
<1>5. Placed(z)  BY <1>3, <1>4, OtherFieldsKeep
<1>6. /\ \A n : Holds(z, n) = Holds(y, n) /\ Flags(z, n) = Flags(y, n)
      /\ \A n, f : Has(z, n, f) = Has(y, n, f)
  BY <1>4 DEF Holds, Flags, Has
<1>7. Memory(z)
  BY <1>3, <1>4, <1>6 DEF Memory, Undecided, Known
<1>8. z.broken \subseteq Admitted /\ (~Evicts => Agrees(z, c) /\ Absent(z, c, z.loading))
  <2>1. CASE Evicts
    BY <1>2, <1>4, <2>1 DEF PartsTaken, Sound, Admitted
  <2>2. CASE ~Evicts
    <3>1. /\ y.broken = x.broken /\ Agrees(y, c) /\ Absent(y, c, x.loading \ some)
      BY <1>2, <2>2 DEF PartsTaken, Sound
    <3>2. x.loading \ some = z.loading  BY <1>1, <1>3, <1>4
    <3>3. \A n : Kept(z, c, n) = Kept(y, c, n)  BY <1>4, <1>6 DEF Kept, isGoodHeader
    <3>4. Agrees(z, c)
      BY <1>4, <1>6, <3>1, <3>3 DEF Agrees, TakenIn, Known, isGoodHeader
    <3>5. Absent(z, c, z.loading)  BY <1>6, <3>1, <3>2, <3>3 DEF Absent
    <3> QED  BY <1>4, <3>1, <3>4, <3>5 DEF Sound
  <2> QED  BY <2>1, <2>2
<1>9. processLoadedParts(x, parts) = z  BY DEF processLoadedParts, z, y, some
<1> QED  BY <1>3, <1>4, <1>5, <1>7, <1>8, <1>9 DEF Sound

-----------------------------------------------------------------------------
(* The slices: the cache answers. *)

\* The first slice is looked up in the entry of the header.
FirstTaken(z, found) == processSlice(With(z, 1, {"loading"}, {}), 1, found)

LEMMA FirstFound ==
    ASSUME NEW z, Shaped(z), 1 \in Numbers, NEW found, NEW r, r = FirstTaken(z, found)
    PROVE  /\ Same(z, r) /\ r.broken = z.broken
           /\ \A k \in Numbers :
                 Holds(r, k) = IF k = 1 THEN Holds(z, 1) \cup DOMAIN found ELSE Holds(z, k)
           /\ \A k \in Numbers : k # 1 => Flags(r, k) = Flags(z, k)
           /\ Has(r, 1, "loaded") /\ ~Has(r, 1, "loading")
           /\ Has(r, 1, "changed") <=> Has(z, 1, "changed")
<1> DEFINE on == {"loading"}
           off == {}
           n == 1
           w == With(z, n, on, off)
<1>1. r = processSlice(w, n, found) /\ n \in Numbers  BY DEF FirstTaken
<1>2. n = 1 /\ on = {"loading"} /\ off = {}  OBVIOUS
<1> HIDE DEF on, off, n
<1>3. /\ Same(z, w) /\ w.broken = z.broken
      /\ \A k \in Numbers : Holds(w, k) = Holds(z, k)
      /\ \A k \in Numbers :
            Flags(w, k) = IF k = n THEN (Flags(z, n) \cup on) \ off ELSE Flags(z, k)
  BY <1>1, WithIs
<1> HIDE DEF w
<1>4. Has(w, n, "loading")
  <2>1. Flags(w, n) = (Flags(z, n) \cup on) \ off  BY <1>1, <1>3
  <2> QED  BY <1>2, <2>1 DEF Has, Flags
<1>5. r = processCacheData(w, n, found)  BY <1>1, <1>4 DEF processSlice
<1>6. Shaped(w)  BY <1>3 DEF Same
<1>7. /\ Same(w, r) /\ r.broken = w.broken
      /\ \A k \in Numbers :
            Holds(r, k) = IF k = n THEN Holds(w, n) \cup DOMAIN found ELSE Holds(w, k)
      /\ \A k \in Numbers :
            Flags(r, k) = IF k = n THEN (Flags(w, n) \cup {"loaded"}) \ {"loading"}
                          ELSE Flags(w, k)
  BY <1>1, <1>5, <1>6, ProcessDataIs
<1>8. /\ Has(r, 1, "loaded") /\ ~Has(r, 1, "loading")
      /\ Has(r, 1, "changed") <=> Has(z, 1, "changed")
  <2>1. /\ Flags(r, 1) = (Flags(w, 1) \cup {"loaded"}) \ {"loading"}
        /\ Flags(w, 1) = (Flags(z, 1) \cup {"loading"}) \ {}
    BY <1>2, <1>3, <1>7
  <2> QED  BY <2>1 DEF Has, Flags
<1> QED  BY <1>2, <1>3, <1>7, <1>8 DEF Same

\* processHeader, of what was found in the entry.
LEMMA ProcessHeaderIs ==
    ASSUME file \in Files, NEW x, NEW e, NEW again,
           again = IF isGoodHeader(x) /\ Has(x, 1, "loading")
                   THEN With(x, 0, {"loading"}, {"loaded"}) ELSE x,
           NEW z, z = applyHeaderCacheData(processCacheData(again, 0, FoundIn(e, 0)))
    PROVE  processHeader(x, e) =
               IF (isGoodHeader(x) /\ ~Has(x, 1, "loading")) \/ ~Has(again, 0, "loading") THEN x
               ELSE IF ~isGoodHeader(z) THEN z
               ELSE FirstTaken(z, RestOf(e))
BY DEF processHeader, FoundIn, RestOf, FirstTaken

\* applyHeaderCacheData, when only the header was looked up.
LEMMA HeaderApplied ==
    ASSUME file \in Files, NEW d, Shaped(d), d.mode = "Unknown",
           Holds(d, 0) \subseteq Positions(0),
           \A n \in Numbers \ {0} : Holds(d, n) = {} /\ Flags(d, n) = {},
           NEW z, z = applyHeaderCacheData(d)
    PROVE  /\ Shaped(z) /\ z.loading = d.loading /\ z.opened = d.opened
           /\ z.broken = d.broken
           /\ \A n \in Numbers : Flags(z, n) = Flags(d, n)
           /\ Holds(z, 0) = Holds(d, 0)
           /\ Holds(d, 0) = {} => z = d
           /\ Holds(d, 0) # {} /\ isFullInHeader => z.mode = "Full"
           /\ Holds(d, 0) # {} /\ ~isFullInHeader =>
                 /\ z.mode \in {"Good", "Small"}
                 /\ \A n \in Numbers \ {0} : Holds(z, n) = GivenTo(Holds(d, 0), n)
<1>1. 0 \in Numbers  BY NumbersAre
<1>2. CASE Holds(d, 0) = {}
  <2>1. z = d  BY <1>2 DEF applyHeaderCacheData
  <2> QED  BY <1>2, <2>1
<1>3. CASE Holds(d, 0) # {} /\ isFullInHeader
  <2>1. z = headerDone(d, TRUE)  BY <1>3 DEF applyHeaderCacheData
  <2>2. /\ Shaped(z) /\ z.loading = d.loading /\ z.opened = d.opened
        /\ z.mode = "Full" /\ z.broken = d.broken
        /\ \A k \in Numbers : Holds(z, k) = Holds(d, k)
        /\ \A k \in Numbers : Flags(z, k) = Flags(d, k)
    BY <1>3, <2>1, HeaderDoneFromCache
  <2> QED  BY <1>1, <1>3, <2>2
<1>4. CASE Holds(d, 0) # {} /\ ~isFullInHeader
  <2> DEFINE all == Holds(d, 0)
             a == applyParts(d, all)
  <2>1. z = headerDone(a, TRUE)  BY <1>4 DEF applyHeaderCacheData
  <2>2. GivenTo(all, 0) = {}  BY <1>4, GivenToIs
  <2> HIDE DEF a, all
  <2>3. /\ Same(d, a)
        /\ (\A n \in Numbers : GivenTo(all, n) \cap Holds(d, n) = {}) => a.broken = d.broken
        /\ \A n \in Numbers : Holds(a, n) = Holds(d, n) \cup GivenTo(all, n)
        /\ \A n \in Numbers :
              Flags(a, n) = IF GivenTo(all, n) # {} /\ Has(d, n, "loaded")
                            THEN Flags(d, n) \cup {"changed"} ELSE Flags(d, n)
    <3>1. a = applyParts(d, all)  BY DEF a
    <3> QED  BY <3>1, ApplyPartsIs
  <2>4. \A n \in Numbers : GivenTo(all, n) \cap Holds(d, n) = {}  BY <2>2
  <2>5. \A n \in Numbers : GivenTo(all, n) # {} => ~Has(d, n, "loaded")
    BY <2>2 DEF Has, Flags
  <2>6. /\ a.broken = d.broken /\ Holds(a, 0) = Holds(d, 0)
        /\ \A n \in Numbers : Flags(a, n) = Flags(d, n)
        /\ \A n \in Numbers \ {0} : Holds(a, n) = GivenTo(all, n)
    BY <1>1, <2>2, <2>3, <2>4, <2>5
  <2>7. Shaped(a) /\ a.mode = "Unknown"  BY <2>3 DEF Same
  <2>8. /\ Shaped(z) /\ z.loading = a.loading /\ z.opened = a.opened
        /\ z.mode \in {"Good", "Small"} /\ z.broken = a.broken
        /\ \A k \in Numbers : Holds(z, k) = Holds(a, k)
        /\ \A k \in Numbers : Flags(z, k) = Flags(a, k)
    BY <1>4, <2>1, <2>7, HeaderDoneFromCache
  <2> QED  BY <1>1, <1>4, <2>3, <2>6, <2>8 DEF Same, all
<1> QED  BY <1>2, <1>3, <1>4

\* The header is looked up when nothing else was done with the file yet.
LEMMA HeaderFound ==
    ASSUME file \in Files, NEW x, NEW c, Sound(x, c), Readable(c[0], 0), Stored(c),
           Has(x, 0, "loading"), NEW y, y = processHeader(x, c[0]), Placed(y)
    PROVE  Sound(y, c) /\ x.mode = "Unknown"
<1> DEFINE e == c[0]
           found == FoundIn(e, 0)
           d == processCacheData(x, 0, found)
           z == applyHeaderCacheData(d)
<1>1. Placed(x) /\ Memory(x) /\ Shaped(x) /\ 0 \in Numbers /\ Shaped(y)
  BY NumbersAre DEF Sound, Placed
<1>2. ~Has(x, 0, "loaded") /\ x.mode = "Unknown" /\ ~Has(x, 0, "changed")
  BY <1>1 DEF Memory, Known, Has, Flags
<1>3. /\ \A n \in Numbers : Holds(x, n) = {}
      /\ x.loading = {} /\ ~x.opened
      /\ \A n \in Numbers \ {0} : Flags(x, n) = {}
  BY <1>1, <1>2 DEF Memory, Undecided
<1>4. DOMAIN found = DOMAIN e.parts /\ (~isFullInHeader => DOMAIN RestOf(e) = DOMAIN e.rest)
  BY DEF Readable
<1>5. y = IF ~isGoodHeader(z) THEN z
          ELSE FirstTaken(z, RestOf(e))
  <2> DEFINE z0 == z
  <2>1. ~isGoodHeader(x)  BY <1>2 DEF isGoodHeader
  <2>2. z0 = applyHeaderCacheData(processCacheData(x, 0, FoundIn(e, 0)))  OBVIOUS
  <2> HIDE DEF z0
  <2>3. x = IF isGoodHeader(x) /\ Has(x, 1, "loading")
            THEN With(x, 0, {"loading"}, {"loaded"}) ELSE x
    BY <2>1
  <2>4. processHeader(x, e) =
            IF (isGoodHeader(x) /\ ~Has(x, 1, "loading")) \/ ~Has(x, 0, "loading") THEN x
            ELSE IF ~isGoodHeader(z0) THEN z0
            ELSE FirstTaken(z0, RestOf(e))
    BY <2>2, <2>3, ProcessHeaderIs
  <2>5. y = IF ~isGoodHeader(z0) THEN z0
            ELSE FirstTaken(z0, RestOf(e))
    BY <2>1, <2>4
  <2> QED  BY <2>5 DEF z0
<1>6. DOMAIN e.parts \subseteq Positions(0)
  BY <1>1 DEF Stored, EntryInPlace, InPlace
<1> HIDE DEF found, e
<1>7. /\ Same(x, d) /\ d.broken = x.broken
      /\ \A k \in Numbers :
            Holds(d, k) = IF k = 0 THEN Holds(x, 0) \cup DOMAIN found ELSE Holds(x, k)
      /\ \A k \in Numbers :
            Flags(d, k) = IF k = 0 THEN (Flags(x, 0) \cup {"loaded"}) \ {"loading"}
                          ELSE Flags(x, k)
  BY <1>1, ProcessDataIs
<1> HIDE DEF d
<1>8. /\ Shaped(d) /\ d.mode = "Unknown" /\ d.loading = {} /\ ~d.opened
      /\ Holds(d, 0) = DOMAIN e.parts
      /\ \A n \in Numbers \ {0} : Holds(d, n) = {} /\ Flags(d, n) = {}
      /\ Has(d, 0, "loaded") /\ ~Has(d, 0, "loading") /\ ~Has(d, 0, "changed")
  <2>1. Flags(d, 0) = (Flags(x, 0) \cup {"loaded"}) \ {"loading"}  BY <1>1, <1>7
  <2>2. Has(d, 0, "loaded") /\ ~Has(d, 0, "loading") /\ ~Has(d, 0, "changed")
    BY <1>2, <2>1 DEF Has, Flags
  <2> QED  BY <1>1, <1>2, <1>3, <1>4, <1>7, <2>2 DEF Same
<1>9. /\ Shaped(z) /\ z.loading = {} /\ ~z.opened /\ z.broken = x.broken
      /\ \A n \in Numbers : Flags(z, n) = Flags(d, n)
      /\ Holds(z, 0) = DOMAIN e.parts
      /\ DOMAIN e.parts = {} => z = d
      /\ DOMAIN e.parts # {} /\ isFullInHeader => z.mode = "Full"
      /\ DOMAIN e.parts # {} /\ ~isFullInHeader =>
            /\ z.mode \in {"Good", "Small"}
            /\ \A n \in Numbers \ {0} : Holds(z, n) = GivenTo(DOMAIN e.parts, n)
  BY <1>6, <1>7, <1>8, HeaderApplied DEF Same
<1> HIDE DEF z
<1>10. /\ \A n \in Numbers \ {0} : ~Has(z, n, "loaded") /\ ~Has(z, n, "loading") /\ ~Has(z, n, "changed")
       /\ Has(z, 0, "loaded") /\ ~Has(z, 0, "loading") /\ ~Has(z, 0, "changed")
  BY <1>1, <1>8, <1>9 DEF Has, Flags
<1>11. UseCache  BY <1>1, <1>2 DEF Memory
<1>12. x.broken \subseteq Admitted /\ (~Evicts => Agrees(x, c))  BY DEF Sound
<1>13. CASE DOMAIN e.parts = {}
  <2>1. y = d  BY <1>5, <1>8, <1>9, <1>13 DEF isGoodHeader
  <2>2. \A n \in Numbers : Holds(d, n) = {}  BY <1>8, <1>13
  <2>3. Undecided(d)  BY <1>1, <1>8, <2>2 DEF Undecided
  <2>4. Memory(d)
    <3>1. \A n \in Numbers : /\ Has(d, n, "loaded") => ~Has(d, n, "loading")
                             /\ ~Has(d, n, "changed")
      BY <1>8 DEF Has, Flags
    <3> QED  BY <1>8, <1>11, <2>3, <3>1 DEF Memory, Known
  <2>5. ~Evicts => Agrees(d, c)
    <3> SUFFICES ASSUME ~Evicts PROVE Agrees(d, c)  OBVIOUS
    <3>1. Bare(c)  BY <1>2, <1>12, <1>13 DEF Agrees, e
    <3>2. /\ \A n \in Numbers : n > 0 \/ isFullInHeader => DOMAIN c[n].rest = {}
          /\ DOMAIN c[0].parts = {} => DOMAIN c[0].rest = {}
      BY <1>12 DEF Agrees
    <3> QED  BY <1>8, <3>1, <3>2 DEF Agrees, Known
  <2>6. Absent(d, c, d.loading)  BY <1>8 DEF Absent
  <2> QED  BY <1>2, <1>7, <1>12, <2>1, <2>4, <2>5, <2>6 DEF Sound
<1>14. CASE DOMAIN e.parts # {} /\ ~isGoodHeader(z)
  <2>1. y = z  BY <1>5, <1>14
  <2>2. z.mode \in {"Full", "Small"} /\ (z.mode = "Full" <=> isFullInHeader)
    BY <1>9, <1>14 DEF isGoodHeader
  <2>3. Memory(z)
    <3>1. \A n \in Numbers : /\ Has(z, n, "loaded") => ~Has(z, n, "loading")
                             /\ ~Has(z, n, "changed")
      BY <1>10
    <3> QED  BY <1>9, <1>10, <1>11, <1>14, <2>2, <3>1 DEF Memory, Known
  <2>4. ~Evicts => Agrees(z, c)
    <3> SUFFICES ASSUME ~Evicts PROVE Agrees(z, c)  OBVIOUS
    <3>1. /\ \A n \in Numbers : n > 0 \/ isFullInHeader => DOMAIN c[n].rest = {}
          /\ DOMAIN c[0].parts = {} => DOMAIN c[0].rest = {}
      BY <1>12 DEF Agrees
    <3>2. TakenIn(z, c)  BY <1>9, <1>10, <1>14 DEF TakenIn, e
    <3> QED  BY <2>2, <3>1, <3>2 DEF Agrees
  <2>5. Absent(z, c, z.loading)  BY <1>9 DEF Absent
  <2> QED  BY <1>2, <1>9, <1>12, <2>1, <2>3, <2>4, <2>5 DEF Sound
<1>15. CASE DOMAIN e.parts # {} /\ isGoodHeader(z)
  <2>1. y = FirstTaken(z, RestOf(e))  BY <1>5, <1>15
  <2>2. ~isFullInHeader /\ 1 \in Numbers /\ z.mode = "Good"
    BY <1>9, <1>15, NumbersAre DEF isGoodHeader
  <2>3. /\ Same(z, y) /\ y.broken = z.broken
        /\ \A k \in Numbers :
              Holds(y, k) = IF k = 1 THEN Holds(z, 1) \cup DOMAIN RestOf(e) ELSE Holds(z, k)
        /\ \A k \in Numbers : k # 1 => Flags(y, k) = Flags(z, k)
        /\ Has(y, 1, "loaded") /\ ~Has(y, 1, "loading")
        /\ Has(y, 1, "changed") <=> Has(z, 1, "changed")
    BY <1>9, <2>1, <2>2, FirstFound
  <2>4. /\ y.mode = "Good" /\ y.loading = {} /\ ~y.opened
        /\ Holds(y, 0) = DOMAIN e.parts
        /\ Holds(y, 1) = (DOMAIN e.parts \cap Positions(1)) \cup DOMAIN e.rest
    <3>1. GivenTo(DOMAIN e.parts, 1) = DOMAIN e.parts \cap Positions(1)
      BY <1>6, <2>2, GivenToIs
    <3> QED  BY <1>1, <1>4, <1>9, <1>15, <2>2, <2>3, <3>1 DEF Same
  <2>5. /\ \A n \in Numbers : /\ Has(y, n, "loaded") => ~Has(y, n, "loading")
                              /\ ~Has(y, n, "changed")
                              /\ n > 1 => ~Has(y, n, "loaded")
        /\ Has(y, 0, "loaded")
    <3>1. \A n \in Numbers : n # 1 => \A f : Has(y, n, f) <=> Has(z, n, f)
      BY <2>3 DEF Has, Flags
    <3> QED  BY <1>1, <1>10, <2>2, <2>3, <3>1, NumbersAre
  <2>6. Memory(y)
    BY <1>11, <1>15, <2>2, <2>4, <2>5 DEF Memory, Known
  <2>7. ~Evicts => Agrees(y, c)
    <3> SUFFICES ASSUME ~Evicts PROVE Agrees(y, c)  OBVIOUS
    <3>1. /\ \A n \in Numbers : n > 0 \/ isFullInHeader => DOMAIN c[n].rest = {}
          /\ DOMAIN c[0].parts = {} => DOMAIN c[0].rest = {}
      BY <1>12 DEF Agrees
    <3>2. Kept(y, c, 1) = Holds(y, 1)  BY <2>4 DEF Kept, isGoodHeader, e
    <3>3. \A n \in Numbers \ {0} : Has(y, n, "loaded") => Kept(y, c, n) \subseteq Holds(y, n)
      <4>1. \A n \in Numbers \ {0} : Has(y, n, "loaded") => n = 1  BY <2>5, NumbersAre
      <4> QED  BY <3>2, <4>1
    <3>4. TakenIn(y, c)  BY <1>1, <1>15, <2>3, <2>4, <2>5, <3>3 DEF TakenIn, e
    <3> QED  BY <2>4, <3>1, <3>4 DEF Agrees
  <2>8. Absent(y, c, y.loading)  BY <2>4 DEF Absent
  <2> QED  BY <1>2, <1>9, <1>12, <2>3, <2>6, <2>7, <2>8 DEF Sound
<1> QED  BY <1>13, <1>14, <1>15

\* The entry of a good header is read again for the first slice.
LEMMA HeaderFoundAgain ==
    ASSUME file \in Files, NEW x, NEW c, Sound(x, c), Readable(c[0], 0), Stored(c),
           isGoodHeader(x), Has(x, 1, "loading"),
           NEW y, y = processHeader(x, c[0]), Placed(y)
    PROVE  Sound(y, c) /\ y.mode = x.mode
<1> DEFINE e == c[0]
           found == FoundIn(e, 0)
           on == {"loading"}
           off == {"loaded"}
           again == With(x, 0, on, off)
           d == processCacheData(again, 0, found)
           first == {p \in Holds(d, 0) : SliceAt(p) = 1}
           z == applyParts(d, first)
<1>1. /\ Placed(x) /\ Memory(x) /\ Shaped(x) /\ Shaped(y) /\ x.mode = "Good"
      /\ ~isFullInHeader /\ 0 \in Numbers /\ 1 \in Numbers
  BY NumbersAre DEF Sound, Placed, isGoodHeader
<1>2. /\ Has(x, 0, "loaded") /\ ~Has(x, 0, "loading") /\ ~Has(x, 1, "loaded")
      /\ ~Has(x, 1, "changed") /\ Holds(x, 0) # {}
  BY <1>1 DEF Memory, Known
<1>3. /\ DOMAIN found = DOMAIN e.parts /\ DOMAIN RestOf(e) = DOMAIN e.rest
      /\ DOMAIN e.parts \subseteq Positions(0)
  BY <1>1 DEF Readable, Stored, EntryInPlace, InPlace
<1>4. on = {"loading"} /\ off = {"loaded"}  OBVIOUS
<1>5. again = IF isGoodHeader(x) /\ Has(x, 1, "loading")
              THEN With(x, 0, {"loading"}, {"loaded"}) ELSE x
  OBVIOUS
<1> HIDE DEF found, e, on, off
<1>6. /\ Same(x, again) /\ again.broken = x.broken
      /\ \A k \in Numbers : Holds(again, k) = Holds(x, k)
      /\ \A k \in Numbers :
            Flags(again, k) = IF k = 0 THEN (Flags(x, 0) \cup on) \ off ELSE Flags(x, k)
  BY <1>1, WithIs
<1> HIDE DEF again
<1>7. Shaped(again)  BY <1>6 DEF Same
<1>8. /\ Same(again, d) /\ d.broken = again.broken
      /\ \A k \in Numbers :
            Holds(d, k) = IF k = 0 THEN Holds(again, 0) \cup DOMAIN found ELSE Holds(again, k)
      /\ \A k \in Numbers :
            Flags(d, k) = IF k = 0 THEN (Flags(again, 0) \cup {"loaded"}) \ {"loading"}
                          ELSE Flags(again, k)
  BY <1>1, <1>7, ProcessDataIs
<1> HIDE DEF d
<1>9. Has(again, 0, "loading")
  <2>1. Flags(again, 0) = (Flags(x, 0) \cup on) \ off  BY <1>1, <1>6
  <2> QED  BY <1>4, <2>1 DEF Has, Flags
<1>10. /\ Shaped(d) /\ d.mode = "Good" /\ d.loading = x.loading /\ d.opened = x.opened
       /\ d.broken = x.broken
       /\ Holds(d, 0) = Holds(x, 0) \cup DOMAIN e.parts
       /\ \A k \in Numbers \ {0} : Holds(d, k) = Holds(x, k) /\ Flags(d, k) = Flags(x, k)
       /\ Has(d, 0, "loaded") /\ ~Has(d, 0, "loading")
       /\ Has(d, 0, "changed") <=> Has(x, 0, "changed")
  <2>1. Flags(d, 0) = (((Flags(x, 0) \cup on) \ off) \cup {"loaded"}) \ {"loading"}
    BY <1>1, <1>6, <1>8
  <2>2. /\ Has(d, 0, "loaded") /\ ~Has(d, 0, "loading")
        /\ Has(d, 0, "changed") <=> Has(x, 0, "changed")
    BY <1>4, <2>1 DEF Has, Flags
  <2> QED  BY <1>1, <1>3, <1>6, <1>8, <2>2 DEF Same
<1>11. applyHeaderCacheData(d) = z
  <2>1. Holds(d, 0) # {}  BY <1>2, <1>10
  <2> QED  BY <1>10, <2>1 DEF applyHeaderCacheData
<1> DEFINE early == Holds(d, 0) \cap Positions(1)
<1>12. \A n \in Numbers : GivenTo(first, n) = IF n = 1 THEN early ELSE {}
  <2>1. Holds(d, 0) \subseteq Positions(0)
    <3>1. Holds(x, 0) \subseteq Positions(0)  BY <1>1, PlacedIs
    <3> QED  BY <1>3, <1>10, <3>1
  <2> DEFINE P == Holds(d, 0)
  <2>2. first = {p \in P : SliceAt(p) = 1} /\ early = P \cap Positions(1) /\ P \subseteq Positions(0)
    BY <2>1
  <2> HIDE DEF P, first, early
  <2>3. \A n \in Numbers : GivenTo({p \in P : SliceAt(p) = 1}, n) =
                               IF n = 1 THEN P \cap Positions(1) ELSE {}
    BY <1>1, <2>2, GivenToIs
  <2> QED  BY <2>2, <2>3
<1> HIDE DEF first, early
<1>13. /\ Same(d, z)
       /\ z.broken \subseteq d.broken \cup {"addPart"}
       /\ (\A n \in Numbers : GivenTo(first, n) \cap Holds(d, n) = {}) => z.broken = d.broken
       /\ \A n \in Numbers : Holds(z, n) = Holds(d, n) \cup GivenTo(first, n)
       /\ \A n \in Numbers :
             Flags(z, n) = IF GivenTo(first, n) # {} /\ Has(d, n, "loaded")
                           THEN Flags(d, n) \cup {"changed"} ELSE Flags(d, n)
  BY <1>10, ApplyPartsIs
<1> HIDE DEF z
<1>14. Shaped(z) /\ isGoodHeader(z)  BY <1>10, <1>13 DEF Same, isGoodHeader
<1>15. y = FirstTaken(z, RestOf(e))
  <2>1. z = applyHeaderCacheData(processCacheData(again, 0, FoundIn(e, 0)))
    BY <1>11 DEF d, found
  <2>2. processHeader(x, e) =
            IF (isGoodHeader(x) /\ ~Has(x, 1, "loading")) \/ ~Has(again, 0, "loading") THEN x
            ELSE IF ~isGoodHeader(z) THEN z
            ELSE FirstTaken(z, RestOf(e))
    BY <1>5, <2>1, ProcessHeaderIs
  <2> QED  BY <1>9, <1>14, <2>2 DEF e
<1>16. /\ Same(z, y) /\ y.broken = z.broken
       /\ \A k \in Numbers :
             Holds(y, k) = IF k = 1 THEN Holds(z, 1) \cup DOMAIN RestOf(e) ELSE Holds(z, k)
       /\ \A k \in Numbers : k # 1 => Flags(y, k) = Flags(z, k)
       /\ Has(y, 1, "loaded") /\ ~Has(y, 1, "loading")
       /\ Has(y, 1, "changed") <=> Has(z, 1, "changed")
  BY <1>1, <1>14, <1>15, FirstFound
<1>17. /\ y.mode = "Good" /\ y.loading = x.loading /\ y.opened = x.opened
       /\ Holds(y, 0) = Holds(x, 0) \cup DOMAIN e.parts
       /\ Holds(y, 1) = Holds(x, 1) \cup (Holds(y, 0) \cap Positions(1)) \cup DOMAIN e.rest
       /\ \A k \in Numbers : k > 1 => Holds(y, k) = Holds(x, k)
  <2>1. Holds(z, 0) = Holds(d, 0) /\ Holds(z, 1) = Holds(x, 1) \cup early
    BY <1>1, <1>10, <1>12, <1>13
  <2>2. \A k \in Numbers : k > 1 => Holds(z, k) = Holds(x, k)
    BY <1>10, <1>12, <1>13, NumbersAre
  <2> QED  BY <1>1, <1>3, <1>10, <1>13, <1>16, <2>1, <2>2, NumbersAre DEF Same, early
<1>18. /\ Has(y, 0, "loaded") /\ ~Has(y, 0, "loading")
       /\ Has(y, 0, "changed") <=> Has(x, 0, "changed")
       /\ ~Has(y, 1, "changed")
       /\ \A k \in Numbers : k > 1 => \A f : Has(y, k, f) <=> Has(x, k, f)
  <2>1. Flags(y, 0) = Flags(d, 0)  BY <1>1, <1>12, <1>13, <1>16
  <2>2. ~Has(d, 1, "loaded") /\ ~Has(d, 1, "changed")
    BY <1>1, <1>2, <1>10 DEF Has, Flags
  <2>3. Flags(z, 1) = Flags(d, 1)  BY <1>1, <1>13, <2>2
  <2>4. \A k \in Numbers : k > 1 => Flags(y, k) = Flags(x, k)
    <3>1. \A k \in Numbers : k > 1 => k # 1 /\ k # 0 /\ GivenTo(first, k) = {}
      BY <1>12, NumbersAre
    <3> QED  BY <1>10, <1>13, <1>16, <3>1
  <2> QED  BY <1>10, <1>16, <2>1, <2>2, <2>3, <2>4 DEF Has, Flags
<1>19. \A k \in Numbers : k = 0 \/ k = 1 \/ k > 1  BY NumbersAre
<1>20. Memory(y)
  <2>1. \A k \in Numbers :
            /\ Has(y, k, "loaded") => ~Has(y, k, "loading")
            /\ Has(y, k, "changed") => Has(y, k, "loaded") /\ Holds(y, k) # {}
    <3>1. \A k \in Numbers :
              /\ Has(x, k, "loaded") => ~Has(x, k, "loading")
              /\ Has(x, k, "changed") => Has(x, k, "loaded") /\ Holds(x, k) # {}
      BY <1>1 DEF Memory
    <3> QED  BY <1>2, <1>16, <1>17, <1>18, <1>19, <3>1
  <2> QED  BY <1>1, <1>2, <1>17, <1>18, <2>1 DEF Memory, Known
<1>21. y.broken \subseteq Admitted /\ (~Evicts => Agrees(y, c) /\ Absent(y, c, y.loading))
  <2>1. CASE Evicts
    BY <1>10, <1>13, <1>16, <2>1 DEF Sound, Admitted
  <2>2. CASE ~Evicts
    <3>1. Agrees(x, c) /\ Absent(x, c, x.loading) /\ TakenIn(x, c)
      BY <1>1, <2>2 DEF Sound, Agrees, Known
    <3>2. DOMAIN e.parts \subseteq Holds(x, 0) /\ Holds(x, 0) \cap Holds(x, 1) = {}
      BY <1>1, <1>2, <3>1 DEF TakenIn, isGoodHeader, e
    <3>3. Holds(y, 0) = Holds(x, 0)  BY <1>17, <3>2
    <3>4. y.broken = x.broken
      <4>1. \A n \in Numbers : GivenTo(first, n) \cap Holds(d, n) = {}
        BY <1>1, <1>10, <1>12, <3>2 DEF early
      <4> QED  BY <1>10, <1>13, <1>16, <4>1
    <3>5. /\ \A k \in Numbers : Kept(y, c, k) = Kept(x, c, k)
          /\ Kept(y, c, 1) = (Holds(y, 0) \cap Positions(1)) \cup DOMAIN e.rest
      BY <1>1, <1>17, <3>3 DEF Kept, isGoodHeader, e
    <3>6. TakenIn(y, c)
      <4>1. \A k \in Numbers \ {0} : Has(y, k, "loaded") => Kept(y, c, k) \subseteq Holds(y, k)
        <5>1. Kept(y, c, 1) \subseteq Holds(y, 1)  BY <1>17, <3>5
        <5>2. \A k \in Numbers : k > 1 /\ Has(y, k, "loaded") => Kept(y, c, k) \subseteq Holds(y, k)
          BY <1>17, <1>18, <3>1, <3>5, NumbersAre DEF TakenIn
        <5> QED  BY <1>19, <5>1, <5>2
      <4> QED  BY <1>1, <1>16, <1>17, <1>18, <3>1, <3>3, <4>1 DEF TakenIn
    <3>7. Agrees(y, c)  BY <1>1, <1>17, <3>1, <3>6 DEF Agrees
    <3>8. Absent(y, c, y.loading)
      <4> SUFFICES ASSUME NEW p \in x.loading
                   PROVE  p - SliceStart(SliceAt(p)) \notin Holds(y, SliceAt(p)) \cup Kept(y, c, SliceAt(p))
        BY <1>1, <1>17 DEF Absent
      <4>1. p - SliceStart(SliceAt(p)) \notin Holds(x, SliceAt(p)) \cup Kept(x, c, SliceAt(p))
        BY <1>1, <3>1 DEF Absent
      <4>2. SliceAt(p) \in Numbers \ {0}
        <5>1. p \in 0 .. FileParts - 1  BY <1>1 DEF Memory
        <5> QED  BY <1>1, <5>1, SliceWhere
      <4> DEFINE n == SliceAt(p)
                 o == p - SliceStart(n)
      <4>3. Holds(y, n) \subseteq Holds(x, n) \cup Kept(y, c, n)
        BY <1>17, <1>19, <3>5, <4>2
      <4> QED  BY <3>5, <4>1, <4>2, <4>3
    <3> QED  BY <3>4, <3>7, <3>8 DEF Sound
  <2> QED  BY <2>1, <2>2
<1> QED  BY <1>1, <1>17, <1>20, <1>21 DEF Sound

LEMMA ProcessHeaderSound ==
    ASSUME file \in Files, NEW x, NEW c, Sound(x, c), Readable(c[0], 0), Stored(c),
           NEW y, y = processHeader(x, c[0])
    PROVE  Sound(y, c) /\ (y.mode = x.mode \/ x.mode = "Unknown")
<1>1. Placed(y)
  <2>1. EntryInPlace(c[0], 0)  BY NumbersAre DEF Stored
  <2> QED  BY <2>1, ProcessHeaderKeeps DEF Sound
<1>2. CASE isGoodHeader(x) /\ Has(x, 1, "loading")
  BY <1>1, <1>2, HeaderFoundAgain
<1>3. CASE ~(isGoodHeader(x) /\ Has(x, 1, "loading"))
  <2>1. CASE isGoodHeader(x) \/ ~Has(x, 0, "loading")
    <3>1. y = x  BY <1>3, <2>1 DEF processHeader
    <3> QED  BY <3>1
  <2>2. CASE ~isGoodHeader(x) /\ Has(x, 0, "loading")
    BY <1>1, <2>2, HeaderFound
  <2> QED  BY <2>1, <2>2
<1> QED  BY <1>2, <1>3

LEMMA SliceFound ==
    ASSUME NEW x, Shaped(x), NEW n \in Numbers, NEW found,
           NEW y, y = processSlice(x, n, found)
    PROVE  /\ Shaped(y)
           /\ Holds(y, n) = IF Has(x, n, "loading") THEN Holds(x, n) \cup DOMAIN found
                            ELSE Holds(x, n)
           /\ Flags(y, n) = IF Has(x, n, "loading")
                            THEN (Flags(x, n) \cup {"loaded"}) \ {"loading"} ELSE Flags(x, n)
<1>1. CASE Has(x, n, "loading")
  <2>1. y = processCacheData(x, n, found)  BY <1>1 DEF processSlice
  <2>2. /\ Same(x, y)
        /\ \A k \in Numbers :
              Holds(y, k) = IF k = n THEN Holds(x, n) \cup DOMAIN found ELSE Holds(x, k)
        /\ \A k \in Numbers :
              Flags(y, k) = IF k = n THEN (Flags(x, n) \cup {"loaded"}) \ {"loading"}
                            ELSE Flags(x, k)
    BY <2>1, ProcessDataIs
  <2> QED  BY <1>1, <2>2 DEF Same
<1>2. CASE ~Has(x, n, "loading")
  <2>1. y = x  BY <1>2 DEF processSlice
  <2> QED  BY <1>2, <2>1
<1> QED  BY <1>1, <1>2

\* The slices that were looked up are given what the cache has of them.
LEMMA SlicesFoundSound ==
    ASSUME file \in Files, NEW h, NEW c, Sound(h, c), NEW got,
           NEW asking, asking \subseteq got \cap Numbers, 0 \notin asking,
           AskedOf(h, got), NEW y, Same(h, y), y.broken = h.broken, Placed(y),
           \A n \in Numbers :
               Holds(y, n) = IF n \in asking THEN Holds(h, n) \cup DOMAIN c[n].parts
                             ELSE Holds(h, n),
           \A n \in Numbers :
               Flags(y, n) = IF n \in asking THEN (Flags(h, n) \cup {"loaded"}) \ {"loading"}
                             ELSE Flags(h, n)
    PROVE  Sound(y, c)
<1>1. Placed(h) /\ Memory(h) /\ 0 \in Numbers
  BY NumbersAre DEF Sound
<1>2. \A n \in asking : Known(h) /\ (isGoodHeader(h) => n # 1) /\ n \in Numbers \ {0}
  BY DEF AskedOf
<1>3. y.mode = h.mode /\ y.loading = h.loading /\ y.opened = h.opened  BY DEF Same
<1>4. Holds(y, 0) = Holds(h, 0) /\ Flags(y, 0) = Flags(h, 0)  BY <1>1
<1>5. \A n \in Numbers :
          /\ n \in asking => Has(y, n, "loaded") /\ ~Has(y, n, "loading")
          /\ n \notin asking => \A f : Has(y, n, f) <=> Has(h, n, f)
          /\ Has(y, n, "changed") <=> Has(h, n, "changed")
  <2> SUFFICES ASSUME NEW n \in Numbers
               PROVE  /\ n \in asking => Has(y, n, "loaded") /\ ~Has(y, n, "loading")
                      /\ n \notin asking => \A f : Has(y, n, f) <=> Has(h, n, f)
                      /\ Has(y, n, "changed") <=> Has(h, n, "changed")
    OBVIOUS
  <2>1. CASE n \in asking
    <3>1. Flags(y, n) = (Flags(h, n) \cup {"loaded"}) \ {"loading"}  BY <2>1
    <3> QED  BY <2>1, <3>1 DEF Has, Flags
  <2>2. CASE n \notin asking
    <3>1. Flags(y, n) = Flags(h, n)  BY <2>2
    <3> QED  BY <2>2, <3>1 DEF Has, Flags
  <2> QED  BY <2>1, <2>2
<1>6. Memory(y)
  <2>1. \A n \in Numbers :
            /\ Has(y, n, "loaded") => ~Has(y, n, "loading")
            /\ Has(y, n, "changed") => Has(y, n, "loaded") /\ Holds(y, n) # {}
    <3>1. \A n \in Numbers :
              /\ Has(h, n, "loaded") => ~Has(h, n, "loading")
              /\ Has(h, n, "changed") => Has(h, n, "loaded") /\ Holds(h, n) # {}
      BY <1>1 DEF Memory
    <3> QED  BY <1>5, <3>1
  <2>2. ~Known(h) => asking = {}  BY <1>2
  <2>3. y.mode = "NoCache" => \A n \in Numbers : Flags(y, n) = {}
    BY <1>1, <1>3, <2>2 DEF Memory, Known
  <2>4. y.mode = "Unknown" => Undecided(y)
    <3> SUFFICES ASSUME y.mode = "Unknown" PROVE Undecided(y)  OBVIOUS
    <3>1. Undecided(h) /\ asking = {}  BY <1>1, <1>3, <2>2 DEF Memory, Known
    <3>2. \A n \in Numbers : Holds(y, n) = Holds(h, n) /\ Flags(y, n) = Flags(h, n)
      BY <3>1
    <3>3. \A f : Has(y, 0, f) <=> Has(h, 0, f)  BY <1>1, <1>5
    <3>4. ~isFullInHeader =>
              \A p \in Holds(y, 0) : p - SliceStart(SliceAt(p)) \in Holds(y, SliceAt(p))
      <4> SUFFICES ASSUME ~isFullInHeader, NEW p \in Holds(h, 0)
                   PROVE  p - SliceStart(SliceAt(p)) \in Holds(y, SliceAt(p))
        BY <1>4
      <4>1. p \in Positions(0)  BY <1>1, PlacedIs
      <4>2. SliceAt(p) \in Numbers  BY <4>1, SliceWhere DEF Positions
      <4>3. p - SliceStart(SliceAt(p)) \in Holds(h, SliceAt(p))  BY <3>1 DEF Undecided
      <4> QED  BY <3>2, <4>2, <4>3
    <3> QED  BY <1>3, <1>4, <3>1, <3>2, <3>3, <3>4 DEF Undecided
  <2>5. Known(y) => Has(y, 0, "loaded") /\ Holds(y, 0) # {}
    BY <1>1, <1>3, <1>4, <1>5 DEF Memory, Known
  <2> QED  BY <1>1, <1>3, <2>1, <2>3, <2>4, <2>5 DEF Memory
<1>7. \A n \in Numbers : Kept(y, c, n) = Kept(h, c, n)
  BY <1>3, <1>4 DEF Kept, isGoodHeader
<1>8. \A n \in asking : Kept(h, c, n) = DOMAIN c[n].parts
  BY <1>2 DEF Kept
<1>9. ASSUME Agrees(h, c) PROVE Agrees(y, c)
  <2>1. Known(h) => TakenIn(y, c)
    <3> SUFFICES ASSUME Known(h) PROVE TakenIn(y, c)  OBVIOUS
    <3>1. TakenIn(h, c)  BY <1>9 DEF Agrees
    <3>2. \A f : Has(y, 0, f) <=> Has(h, 0, f)  BY <1>1, <1>5
    <3>3. \A n \in Numbers \ {0} : Has(y, n, "loaded") => Kept(y, c, n) \subseteq Holds(y, n)
      <4> SUFFICES ASSUME NEW n \in Numbers \ {0}, Has(y, n, "loaded")
                   PROVE  Kept(y, c, n) \subseteq Holds(y, n)
        OBVIOUS
      <4>1. CASE n \in asking  BY <1>7, <1>8, <4>1
      <4>2. CASE n \notin asking  BY <1>5, <1>7, <3>1, <4>2 DEF TakenIn
      <4> QED  BY <4>1, <4>2
    <3>4. isGoodHeader(y) /\ ~Has(y, 1, "loaded") => Holds(y, 0) \cap Holds(y, 1) = {}
      <4> SUFFICES ASSUME isGoodHeader(y), ~Has(y, 1, "loaded")
                   PROVE  Holds(y, 0) \cap Holds(y, 1) = {}
        OBVIOUS
      <4>1. isGoodHeader(h) /\ 1 \notin asking  BY <1>2, <1>3 DEF isGoodHeader
      <4>2. 1 \in Numbers
        <5>1. ~isFullInHeader  BY <1>1, <4>1 DEF Placed, isGoodHeader
        <5> QED  BY <5>1, NumbersAre
      <4> QED  BY <1>4, <1>5, <3>1, <4>1, <4>2 DEF TakenIn
    <3> QED  BY <1>3, <1>4, <3>1, <3>2, <3>3, <3>4 DEF TakenIn
  <2>2. \A f : Has(y, 0, f) <=> Has(h, 0, f)  BY <1>1, <1>5
  <2> QED  BY <1>3, <1>9, <2>1, <2>2 DEF Agrees, Known
<1>10. ASSUME Absent(h, c, h.loading) PROVE Absent(y, c, y.loading)
  <2> SUFFICES ASSUME NEW p \in h.loading,
                      NEW n, n = IF isFullInHeader THEN 0 ELSE SliceAt(p)
               PROVE  p - SliceStart(n) \notin Holds(y, n) \cup Kept(y, c, n)
    BY <1>3 DEF Absent
  <2>1. p - SliceStart(n) \notin Holds(h, n) \cup Kept(h, c, n)  BY <1>10 DEF Absent
  <2>2. n \in Numbers
    <3>1. p \in 0 .. FileParts - 1  BY <1>1 DEF Memory
    <3> QED  BY <1>1, <3>1, SliceWhere
  <2>3. Holds(y, n) \subseteq Holds(h, n) \cup Kept(h, c, n)  BY <1>8, <2>2
  <2> QED  BY <1>7, <2>1, <2>2, <2>3
<1> QED  BY <1>6, <1>9, <1>10 DEF Sound

LEMMA CacheResultsSound ==
    ASSUME file \in Files, Stored(cache), \A n \in Numbers : Readable(cache[n], n),
           NEW x, Sound(x, cache), NEW got, AskedOf(x, got),
           NEW y, y = processCacheResults(x, got)
    PROVE  Sound(y, cache) /\ (y.mode = x.mode \/ x.mode = "Unknown")
<1> DEFINE h == IF 0 \in got THEN processHeader(x, cache[0]) ELSE x
           found(n) == FoundIn(cache[n], n)
           asking == {n \in Numbers : n \in got \ {0} /\ Has(h, n, "loading")}
           S == [n \in Numbers |->
                    IF n \in got \ {0} THEN processSlice(h, n, found(n)).slices[n]
                    ELSE h.slices[n]]
<1>1. y = [h EXCEPT !.slices = S]  BY DEF processCacheResults, FoundIn
<1>2. Sound(h, cache) /\ (h.mode = x.mode \/ x.mode = "Unknown")
  <2>1. Readable(cache[0], 0)  BY NumbersAre
  <2> QED  BY <2>1, ProcessHeaderSound
<1>3. AskedOf(h, got)  BY <1>2 DEF AskedOf, Known, isGoodHeader
<1>4. Placed(y)
  <2>1. Placed(x)  BY DEF Sound
  <2> QED  BY <2>1, CacheResultsKeep
<1> HIDE DEF h
<1>5. Placed(h) /\ Shaped(h)  BY <1>2 DEF Sound, Placed
<1>6. \A n \in Numbers : DOMAIN found(n) = DOMAIN cache[n].parts  BY DEF Readable
<1> HIDE DEF found
<1>7. ASSUME NEW n \in Numbers
      PROVE  /\ {"parts", "flags"} \subseteq DOMAIN S[n]
             /\ DOMAIN S[n].parts = IF n \in asking THEN Holds(h, n) \cup DOMAIN cache[n].parts
                                    ELSE Holds(h, n)
             /\ S[n].flags = IF n \in asking THEN (Flags(h, n) \cup {"loaded"}) \ {"loading"}
                             ELSE Flags(h, n)
  <2> DEFINE v == processSlice(h, n, found(n))
  <2>1. /\ Shaped(v)
        /\ Holds(v, n) = IF Has(h, n, "loading") THEN Holds(h, n) \cup DOMAIN found(n)
                         ELSE Holds(h, n)
        /\ Flags(v, n) = IF Has(h, n, "loading")
                         THEN (Flags(h, n) \cup {"loaded"}) \ {"loading"} ELSE Flags(h, n)
    BY <1>5, SliceFound
  <2>2. S[n] = IF n \in got \ {0} THEN v.slices[n] ELSE h.slices[n]  OBVIOUS
  <2>3. n \in asking <=> n \in got \ {0} /\ Has(h, n, "loading")  OBVIOUS
  <2> HIDE DEF v, S, asking
  <2>4. CASE n \in got \ {0}
    <3>1. S[n] = v.slices[n]  BY <2>2, <2>4
    <3> QED  BY <1>6, <2>1, <2>3, <2>4, <3>1 DEF Shaped, Holds, Flags
  <2>5. CASE n \notin got \ {0}
    <3>1. S[n] = h.slices[n]  BY <2>2, <2>5
    <3> QED  BY <1>5, <2>3, <2>5, <3>1 DEF Shaped, Holds, Flags
  <2> QED  BY <2>4, <2>5
<1>8. asking \subseteq got \cap Numbers /\ 0 \notin asking  OBVIOUS
<1> HIDE DEF S, asking
<1>9. /\ y.slices = S /\ y.mode = h.mode /\ y.loading = h.loading /\ y.opened = h.opened
      /\ y.broken = h.broken
  BY <1>1, <1>5 DEF Shaped
<1>10. Same(h, y)  BY <1>4, <1>9 DEF Same, Placed
<1>11. /\ \A n \in Numbers :
              Holds(y, n) = IF n \in asking THEN Holds(h, n) \cup DOMAIN cache[n].parts
                            ELSE Holds(h, n)
       /\ \A n \in Numbers :
              Flags(y, n) = IF n \in asking THEN (Flags(h, n) \cup {"loaded"}) \ {"loading"}
                            ELSE Flags(h, n)
  BY <1>7, <1>9 DEF Holds, Flags
<1>12. Sound(y, cache)
  BY <1>2, <1>3, <1>4, <1>8, <1>9, <1>10, <1>11, SlicesFoundSound
<1> QED  BY <1>2, <1>9, <1>12

-----------------------------------------------------------------------------
(* The slices: what is unloaded is in the cache. *)

\* What is loaded and whether a buffer was filled may change otherwise.
LEMMA OtherFieldsSound ==
    ASSUME NEW x, NEW c, Sound(x, c), NEW y, Placed(y),
           y.slices = x.slices, y.mode = x.mode, y.broken = x.broken,
           y.loading \subseteq 0 .. FileParts - 1,
           x.mode = "Unknown" /\ ~Has(x, 0, "loaded") => y.loading = {},
           x.mode = "Unknown" /\ Holds(x, 0) = {} => ~y.opened,
           ~Evicts => Absent(x, c, y.loading)
    PROVE  Sound(y, c)
<1>1. Memory(x) /\ x.broken \subseteq Admitted /\ (~Evicts => Agrees(x, c))  BY DEF Sound
<1>2. /\ \A n : Holds(y, n) = Holds(x, n) /\ Flags(y, n) = Flags(x, n)
      /\ \A n, f : Has(y, n, f) <=> Has(x, n, f)
  BY DEF Holds, Flags, Has
<1>3. Memory(y)
  BY <1>1, <1>2 DEF Memory, Undecided, Known
<1>4. \A n : Kept(y, c, n) = Kept(x, c, n)  BY <1>2 DEF Kept, isGoodHeader
<1>5. Agrees(x, c) => Agrees(y, c)
  BY <1>2, <1>4 DEF Agrees, TakenIn, Known, isGoodHeader
<1>6. Absent(x, c, y.loading) => Absent(y, c, y.loading)  BY <1>2, <1>4 DEF Absent
<1> QED  BY <1>1, <1>3, <1>5, <1>6 DEF Sound

LEMMA UnloadedIs ==
    ASSUME NEW x, Shaped(x), NEW n \in Numbers, NEW y, y = Unloaded(x, n)
    PROVE  /\ Same(x, y) /\ y.broken = x.broken
           /\ \A k \in Numbers : Holds(y, k) = IF k = n THEN {} ELSE Holds(x, k)
           /\ \A k \in Numbers : Flags(y, k) = IF k = n THEN {} ELSE Flags(x, k)
<1>1. /\ Shaped(y) /\ y.mode = x.mode /\ y.loading = x.loading /\ y.opened = x.opened
      /\ y.broken = x.broken
      /\ y.slices = [x.slices EXCEPT ![n] = Slice]
  BY DEF Unloaded, Shaped, Slice
<1>2. \A k \in Numbers : y.slices[k] = IF k = n THEN Slice ELSE x.slices[k]
  BY <1>1 DEF Shaped
<1>3. DOMAIN Slice.parts = {} /\ Slice.flags = {}  BY DEF Slice
<1> QED  BY <1>1, <1>2, <1>3 DEF Same, Holds, Flags

\* What was in an entry is still in it.
KeptSaved(c, d) ==
    \A n \in Numbers :
        DOMAIN c[n].parts \cup DOMAIN c[n].rest \subseteq DOMAIN d[n].parts \cup DOMAIN d[n].rest

\* A reader that let one slice go: nothing that is waited for came with it.
Released(x, c, y, d) ==
    /\ Memory(y) /\ Same(x, y) /\ (Has(x, 0, "loaded") => Has(y, 0, "loaded"))
    /\ Agrees(x, c) => /\ Agrees(y, d) /\ KeptSaved(c, d)
                       /\ \A P : P \subseteq 0 .. FileParts - 1 /\ Absent(x, c, P) => Absent(y, d, P)

\* A slice is dropped because all of it is in the cache.
LEMMA SliceDropped ==
    ASSUME file \in Files, NEW x, Placed(x), Memory(x), Known(x), NEW c,
           NEW n \in Numbers \ {0}, Has(x, n, "loaded"), NEW y, y = Unloaded(x, n)
    PROVE  Released(x, c, y, c)
<1>1. /\ Same(x, y) /\ y.broken = x.broken
      /\ \A k \in Numbers : Holds(y, k) = IF k = n THEN {} ELSE Holds(x, k)
      /\ \A k \in Numbers : Flags(y, k) = IF k = n THEN {} ELSE Flags(x, k)
  BY UnloadedIs DEF Placed
<1>2. y.mode = x.mode /\ y.loading = x.loading /\ y.opened = x.opened /\ 0 \in Numbers
  BY <1>1, NumbersAre DEF Same
<1>3. /\ Holds(y, 0) = Holds(x, 0) /\ \A f : Has(y, 0, f) <=> Has(x, 0, f)
      /\ \A k \in Numbers : IF k = n THEN \A f : ~Has(y, k, f)
                            ELSE \A f : Has(y, k, f) <=> Has(x, k, f)
  BY <1>1, <1>2 DEF Has, Flags
<1>4. Memory(y)
  <2>1. \A k \in Numbers :
            /\ Has(y, k, "loaded") => ~Has(y, k, "loading")
            /\ Has(y, k, "changed") => Has(y, k, "loaded") /\ Holds(y, k) # {}
    BY <1>1, <1>3 DEF Memory
  <2> QED  BY <1>2, <1>3, <2>1 DEF Memory, Known
<1>5. \A k : Kept(y, c, k) = Kept(x, c, k)  BY <1>2, <1>3 DEF Kept, isGoodHeader
<1>6. ASSUME Agrees(x, c) PROVE Agrees(y, c)
  <2>1. TakenIn(x, c)  BY <1>6 DEF Agrees
  <2>2. \A k \in Numbers \ {0} : Has(y, k, "loaded") => Kept(y, c, k) \subseteq Holds(y, k)
    BY <1>1, <1>3, <1>5, <2>1 DEF TakenIn
  <2>3. isGoodHeader(y) /\ ~Has(y, 1, "loaded") => Holds(y, 0) \cap Holds(y, 1) = {}
    <3> SUFFICES ASSUME isGoodHeader(y), ~Has(y, 1, "loaded")
                 PROVE  Holds(y, 0) \cap Holds(y, 1) = {}
      OBVIOUS
    <3>1. 1 \in Numbers
      <4>1. ~isFullInHeader  BY <1>2, <2>3 DEF Placed, isGoodHeader
      <4> QED  BY <4>1, NumbersAre
    <3>2. CASE n = 1  BY <1>1, <3>1, <3>2
    <3>3. CASE n # 1
      <4>1. Holds(y, 1) = Holds(x, 1) /\ ~Has(x, 1, "loaded") /\ isGoodHeader(x)
        BY <1>1, <1>2, <1>3, <3>1, <3>3 DEF isGoodHeader
      <4> QED  BY <1>3, <2>1, <4>1 DEF TakenIn
    <3> QED  BY <3>2, <3>3
  <2>4. TakenIn(y, c)  BY <1>2, <1>3, <2>1, <2>2, <2>3 DEF TakenIn
  <2> QED  BY <1>2, <1>6, <2>4 DEF Agrees, Known
<1>7. KeptSaved(c, c)  BY DEF KeptSaved
<1>8. ASSUME NEW P, P \subseteq 0 .. FileParts - 1, Absent(x, c, P) PROVE Absent(y, c, P)
  <2> SUFFICES ASSUME NEW p \in P, NEW k, k = IF isFullInHeader THEN 0 ELSE SliceAt(p)
               PROVE  p - SliceStart(k) \notin Holds(y, k) \cup Kept(y, c, k)
    BY DEF Absent
  <2>1. p - SliceStart(k) \notin Holds(x, k) \cup Kept(x, c, k)  BY <1>8 DEF Absent
  <2>2. k \in Numbers  BY <1>2, <1>8, SliceWhere
  <2> QED  BY <1>1, <1>5, <2>1, <2>2
<1> QED  BY <1>1, <1>3, <1>4, <1>6, <1>7, <1>8 DEF Released

\* A slice that changed is put in an entry of its own.
LEMMA SliceWritten ==
    ASSUME file \in Files, NEW x, Placed(x), Memory(x), Known(x), NEW c, DOMAIN c = Numbers,
           NEW n \in Numbers \ {0}, Has(x, n, "loaded"), ~(isGoodHeader(x) /\ n = 1),
           NEW e, DOMAIN e.parts = Holds(x, n), DOMAIN e.rest = {},
           NEW y, y = Unloaded(x, n), NEW d, d = [c EXCEPT ![n] = e]
    PROVE  Released(x, c, y, d)
<1>1. Released(x, c, y, c)  BY SliceDropped
<1>2. /\ Memory(y) /\ Same(x, y) /\ y.mode = x.mode
      /\ \A k \in Numbers : Holds(y, k) = IF k = n THEN {} ELSE Holds(x, k)
      /\ \A k \in Numbers : Flags(y, k) = IF k = n THEN {} ELSE Flags(x, k)
  BY <1>1, UnloadedIs DEF Placed, Released, Same
<1>3. /\ \A k \in Numbers : d[k] = IF k = n THEN e ELSE c[k]
      /\ d[0] = c[0] /\ 0 \in Numbers
  BY NumbersAre
<1>4. Holds(y, 0) = Holds(x, 0)  BY <1>2, <1>3
<1>5. /\ \A k \in Numbers : k # n => Kept(y, d, k) = Kept(x, c, k)
      /\ Kept(y, d, n) = Holds(x, n)
      /\ Kept(x, c, n) = DOMAIN c[n].parts
  BY <1>2, <1>3, <1>4 DEF Kept, isGoodHeader
<1>6. ~Has(y, n, "loaded")  BY <1>2 DEF Has, Flags
<1>7. ASSUME Agrees(x, c) PROVE Agrees(y, d) /\ KeptSaved(c, d)
  <2>1. Agrees(y, c) /\ TakenIn(y, c) /\ TakenIn(x, c)
    BY <1>1, <1>2, <1>7 DEF Released, Agrees, Known
  <2>2. \A k \in Numbers \ {0} : Has(y, k, "loaded") => Kept(y, d, k) \subseteq Holds(y, k)
    <3> SUFFICES ASSUME NEW k \in Numbers \ {0}, Has(y, k, "loaded")
                 PROVE  Kept(y, d, k) \subseteq Holds(y, k)
      OBVIOUS
    <3>1. k # n  BY <1>6
    <3>2. Kept(y, d, k) = Kept(y, c, k)  BY <1>3, <3>1 DEF Kept
    <3> QED  BY <2>1, <3>2 DEF TakenIn
  <2>3. TakenIn(y, d)  BY <1>3, <2>1, <2>2 DEF TakenIn
  <2>4. \A k \in Numbers : k > 0 \/ isFullInHeader => DOMAIN d[k].rest = {}
    BY <1>3, <2>1 DEF Agrees
  <2>5. Agrees(y, d)  BY <1>2, <1>3, <2>1, <2>3, <2>4 DEF Agrees, Known
  <2>6. DOMAIN c[n].parts \subseteq Holds(x, n) /\ DOMAIN c[n].rest = {}
    <3>1. n > 0  BY NumbersAre
    <3> QED  BY <1>5, <1>7, <2>1, <3>1 DEF TakenIn, Agrees
  <2>7. KeptSaved(c, d)  BY <1>3, <2>6 DEF KeptSaved
  <2> QED  BY <2>5, <2>7
<1>8. ASSUME NEW P, P \subseteq 0 .. FileParts - 1, Absent(x, c, P) PROVE Absent(y, d, P)
  <2> SUFFICES ASSUME NEW p \in P, NEW k, k = IF isFullInHeader THEN 0 ELSE SliceAt(p)
               PROVE  p - SliceStart(k) \notin Holds(y, k) \cup Kept(y, d, k)
    BY DEF Absent
  <2>1. p - SliceStart(k) \notin Holds(x, k) \cup Kept(x, c, k)  BY <1>8 DEF Absent
  <2>2. k \in Numbers  BY <1>3, <1>8, SliceWhere
  <2> QED  BY <1>2, <1>5, <2>1, <2>2
<1> QED  BY <1>1, <1>2, <1>7, <1>8 DEF Released

\* What is written of a good header: it, and what the first slice has beside it.
LEMMA GoodEntry ==
    ASSUME file \in Files, NEW x, Placed(x), isGoodHeader(x), Holds(x, 0) # {},
           NEW r, r = serializeGood(x)
    PROVE  /\ DOMAIN r.e.parts = Holds(x, 0) /\ DOMAIN r.e.rest = Holds(x, 1) \ Holds(x, 0)
           /\ Readable(r.e, 0)
           /\ r.x.broken \subseteq x.broken \cup {"unloadFirst"}
<1> DEFINE rest == [o \in Holds(x, 1) \ Holds(x, 0) |-> x.slices[1].parts[o]]
           e == Entry(0, TRUE, x.slices[0].parts, rest)
           loaded == Has(x, 1, "loaded")
           y == Expects(x, "unloadFirst", loaded)
           u == Unloaded(y, 1)
           z == With(u, 0, {}, {"changed"})
<1>1. ~isFullInHeader /\ 0 \in Numbers /\ 1 \in Numbers /\ Shaped(x)
  BY NumbersAre DEF Placed, isGoodHeader
<1>2. r = [x |-> z, n |-> 0, e |-> e]  BY DEF serializeGood, Expects
<1>3. /\ InPlace(x.slices[0].parts, 0) /\ InPlace(x.slices[1].parts, 1)
      /\ DOMAIN rest = Holds(x, 1) \ Holds(x, 0)
  BY <1>1 DEF Placed
<1>4. InPlace(rest, 1)  BY <1>3 DEF InPlace, Holds
<1>5. /\ DOMAIN e.parts = Holds(x, 0) /\ DOMAIN e.rest = Holds(x, 1) \ Holds(x, 0)
  BY <1>3 DEF Entry, Holds
<1> HIDE DEF rest
<1>6. Readable(e, 0)
  <2> DEFINE good == TRUE
             head == x.slices[0].parts
             zero == 0
  <2>1. /\ good \in BOOLEAN /\ good /\ InPlace(head, zero) /\ zero \in Numbers
        /\ good => zero = 0 /\ ~isFullInHeader
    BY <1>1, <1>3
  <2>2. e = Entry(zero, good, head, rest)  OBVIOUS
  <2> HIDE DEF good, head, zero, e
  <2>3. Readable(e, zero)  BY <1>4, <2>1, <2>2, EntryReadable
  <2> QED  BY <2>3 DEF zero
<1>7. Shaped(y) /\ y.broken \subseteq x.broken \cup {"unloadFirst"}
  BY <1>1 DEF Expects, Shaped
<1> HIDE DEF y, e
<1>8. Shaped(u) /\ u.broken = y.broken  BY <1>7 DEF Unloaded, Shaped, Slice
<1> HIDE DEF u
<1>9. z.broken = u.broken  BY <1>8 DEF With, Shaped
<1> HIDE DEF z
<1>10. r.x = z /\ r.e = e  BY <1>2
<1> QED  BY <1>5, <1>6, <1>7, <1>8, <1>9, <1>10

LEMMA SliceEntry ==
    ASSUME file \in Files, NEW x, Placed(x), NEW n \in Numbers, Holds(x, n) # {},
           ~(isGoodHeader(x) /\ n <= 1), NEW r, r = serializeAndUnloadSlice(x, n)
    PROVE  /\ DOMAIN r.e.parts = Holds(x, n) /\ DOMAIN r.e.rest = {}
           /\ Readable(r.e, n) /\ r.x.broken = x.broken
<1> DEFINE parts == x.slices[n].parts
           none == <<>>
           good == FALSE
           e == Entry(n, good, parts, none)
           y == IF n > 0 THEN Unloaded(x, n) ELSE With(x, 0, {}, {"changed"})
<1>1. r = [x |-> y, n |-> n, e |-> e]  BY DEF serializeAndUnloadSlice, Expects
<1>2. InPlace(parts, n) /\ InPlace(none, 1) /\ DOMAIN none = {} /\ good \in BOOLEAN /\ ~good
  BY DEF Placed, InPlace
<1>3. DOMAIN e.parts = Holds(x, n) /\ DOMAIN e.rest = {}  BY DEF Entry, Holds
<1> HIDE DEF parts, none, good
<1>4. Readable(e, n)  BY <1>2, EntryReadable
<1> HIDE DEF e
<1>5. y.broken = x.broken  BY DEF Placed, Shaped, Unloaded, With
<1> HIDE DEF y
<1>6. r.x = y /\ r.e = e  BY <1>1
<1> QED  BY <1>3, <1>4, <1>5, <1>6

EntryAfter(c, r) == IF r.n >= 0 THEN [c EXCEPT ![r.n] = r.e] ELSE c

\* What putting a slice in the cache leads to.
Serialized(x, c, r) ==
    /\ r.n \in Numbers
    /\ r.x.broken = x.broken /\ Readable(r.e, r.n)
    /\ Released(x, c, r.x, [c EXCEPT ![r.n] = r.e])

\* The first slice goes where the good header is.
LEMMA GoodSerialized ==
    ASSUME file \in Files, NEW x, Placed(x), Memory(x), isGoodHeader(x),
           Has(x, 1, "loaded"), NEW c, DOMAIN c = Numbers,
           NEW r, r = serializeGood(x)
    PROVE  Serialized(x, c, r)
<1> DEFINE rest == [o \in Holds(x, 1) \ Holds(x, 0) |-> x.slices[1].parts[o]]
           e == Entry(0, TRUE, x.slices[0].parts, rest)
           u == Unloaded(x, 1)
           none == {}
           off == {"changed"}
           y == With(u, 0, none, off)
           d == [c EXCEPT ![0] = e]
<1>1. ~isFullInHeader /\ 0 \in Numbers /\ 1 \in Numbers /\ Shaped(x) /\ Known(x) /\ x.mode = "Good"
  BY NumbersAre DEF Placed, isGoodHeader, Known
<1>2. Holds(x, 0) # {} /\ Has(x, 0, "loaded")  BY <1>1 DEF Memory
<1>3. r = [x |-> y, n |-> 0, e |-> e]
  BY <1>2 DEF serializeGood, Expects
<1>4. /\ DOMAIN e.parts = Holds(x, 0) /\ DOMAIN e.rest = Holds(x, 1) \ Holds(x, 0)
      /\ Readable(e, 0)
  <2>1. r.e = e  BY <1>3
  <2> HIDE DEF e
  <2> QED  BY <1>1, <1>2, <2>1, GoodEntry
<1> HIDE DEF e
<1>5. /\ Same(x, u) /\ u.broken = x.broken
      /\ \A k \in Numbers : Holds(u, k) = IF k = 1 THEN {} ELSE Holds(x, k)
      /\ \A k \in Numbers : Flags(u, k) = IF k = 1 THEN {} ELSE Flags(x, k)
  <2> DEFINE one == 1
  <2>1. one \in Numbers /\ u = Unloaded(x, one)  BY <1>1
  <2> HIDE DEF one, u
  <2>2. /\ Same(x, u) /\ u.broken = x.broken
        /\ \A k \in Numbers : Holds(u, k) = IF k = one THEN {} ELSE Holds(x, k)
        /\ \A k \in Numbers : Flags(u, k) = IF k = one THEN {} ELSE Flags(x, k)
    BY <1>1, <2>1, UnloadedIs
  <2> QED  BY <2>2 DEF one
<1> HIDE DEF u
<1>6. /\ Same(u, y) /\ y.broken = u.broken
      /\ \A k \in Numbers : Holds(y, k) = Holds(u, k)
      /\ \A k \in Numbers : Flags(y, k) = IF k = 0 THEN Flags(u, 0) \ off ELSE Flags(u, k)
  <2> DEFINE zero == 0
  <2>1. zero \in Numbers /\ Shaped(u) /\ y = With(u, zero, none, off)  BY <1>1, <1>5 DEF Same
  <2> HIDE DEF zero, y, none, off
  <2>2. /\ Same(u, y) /\ y.broken = u.broken
        /\ \A k \in Numbers : Holds(y, k) = Holds(u, k)
        /\ \A k \in Numbers :
              Flags(y, k) = IF k = zero THEN (Flags(u, zero) \cup none) \ off ELSE Flags(u, k)
    BY <2>1, WithIs
  <2>3. none = {}  BY DEF none
  <2> QED  BY <2>2, <2>3 DEF zero
<1> HIDE DEF y
<1>7. /\ Same(x, y) /\ y.broken = x.broken /\ y.mode = "Good"
      /\ \A k \in Numbers : Holds(y, k) = IF k = 1 THEN {} ELSE Holds(x, k)
      /\ \A k \in Numbers : k \notin {0, 1} => Flags(y, k) = Flags(x, k)
      /\ Flags(y, 1) = {} /\ Flags(y, 0) = Flags(x, 0) \ {"changed"}
  BY <1>1, <1>5, <1>6 DEF Same
<1>8. /\ \A k \in Numbers \ {0, 1} : \A f : Has(y, k, f) <=> Has(x, k, f)
      /\ \A f : ~Has(y, 1, f)
      /\ ~Has(y, 0, "changed")
      /\ Has(y, 0, "loaded") /\ (Has(y, 0, "loading") <=> Has(x, 0, "loading"))
  <2>1. /\ \A k \in Numbers \ {0, 1} : \A f : Has(y, k, f) <=> Has(x, k, f)
        /\ \A f : ~Has(y, 1, f)
    BY <1>1, <1>7 DEF Has, Flags
  <2>2. /\ ~Has(y, 0, "changed")
        /\ Has(y, 0, "loaded") /\ (Has(y, 0, "loading") <=> Has(x, 0, "loading"))
    BY <1>2, <1>7 DEF Has, Flags
  <2> QED  BY <2>1, <2>2
<1>9. Memory(y)
  <2>1. \A k \in Numbers :
            /\ Has(y, k, "loaded") => ~Has(y, k, "loading")
            /\ Has(y, k, "changed") => Has(y, k, "loaded") /\ Holds(y, k) # {}
    <3>1. \A k \in Numbers :
              /\ Has(x, k, "loaded") => ~Has(x, k, "loading")
              /\ Has(x, k, "changed") => Has(x, k, "loaded") /\ Holds(x, k) # {}
      BY DEF Memory
    <3> SUFFICES ASSUME NEW k \in Numbers
                 PROVE /\ Has(y, k, "loaded") => ~Has(y, k, "loading")
                       /\ Has(y, k, "changed") => Has(y, k, "loaded") /\ Holds(y, k) # {}
      OBVIOUS
    <3>2. CASE k = 0  BY <1>1, <1>2, <1>8, <3>1, <3>2
    <3>3. CASE k = 1  BY <1>8, <3>3
    <3>4. CASE k \notin {0, 1}  BY <1>7, <1>8, <3>1, <3>4
    <3> QED  BY <3>2, <3>3, <3>4
  <2>2. y.loading = x.loading  BY <1>7 DEF Same
  <2>3. Holds(y, 0) # {}  BY <1>1, <1>2, <1>7
  <2> QED  BY <1>1, <1>7, <1>8, <2>1, <2>2, <2>3 DEF Memory
<1>10. /\ \A k \in Numbers : d[k] = IF k = 0 THEN e ELSE c[k]
       /\ \A k \in Numbers \ {0, 1} : Kept(y, d, k) = Kept(x, c, k)
       /\ Kept(y, d, 1) = (Holds(x, 0) \cap Positions(1)) \cup (Holds(x, 1) \ Holds(x, 0))
       /\ Kept(x, c, 1) = (Holds(x, 0) \cap Positions(1)) \cup DOMAIN c[0].rest
  BY <1>1, <1>4, <1>7 DEF Kept, isGoodHeader
<1>11. ASSUME Agrees(x, c) PROVE Agrees(y, d) /\ KeptSaved(c, d)
  <2>1. TakenIn(x, c)  BY <1>1, <1>11 DEF Agrees
  <2>2. \A k \in Numbers \ {0} : Has(y, k, "loaded") => Kept(y, d, k) \subseteq Holds(y, k)
    <3> SUFFICES ASSUME NEW k \in Numbers \ {0}, Has(y, k, "loaded")
                 PROVE  Kept(y, d, k) \subseteq Holds(y, k)
      OBVIOUS
    <3>1. k \notin {0, 1}  BY <1>8
    <3> QED  BY <1>7, <1>8, <1>10, <2>1, <3>1 DEF TakenIn
  <2>3. d[0] = e /\ Holds(y, 0) = Holds(x, 0) /\ Holds(y, 1) = {}  BY <1>1, <1>7, <1>10
  <2>4. TakenIn(y, d)
    BY <1>2, <1>4, <1>7, <1>8, <2>2, <2>3 DEF TakenIn
  <2>5. \A k \in Numbers : k > 0 \/ isFullInHeader => DOMAIN d[k].rest = {}
    <3> SUFFICES ASSUME NEW k \in Numbers, k > 0 PROVE DOMAIN d[k].rest = {}
      BY <1>1
    <3>1. k # 0  OBVIOUS
    <3> QED  BY <1>10, <1>11, <3>1 DEF Agrees
  <2>6. Agrees(y, d)
    BY <1>2, <1>4, <1>7, <2>3, <2>4, <2>5 DEF Agrees
  <2>7. DOMAIN c[0].parts \subseteq Holds(x, 0) /\ DOMAIN c[0].rest \subseteq Holds(x, 1)
    BY <1>1, <1>10, <2>1 DEF TakenIn
  <2>8. KeptSaved(c, d)
    <3> SUFFICES ASSUME NEW k \in Numbers
                 PROVE  DOMAIN c[k].parts \cup DOMAIN c[k].rest
                        \subseteq DOMAIN d[k].parts \cup DOMAIN d[k].rest
      BY DEF KeptSaved
    <3>1. CASE k = 0
      <4>1. d[k] = e  BY <1>10, <3>1
      <4> QED  BY <1>4, <2>7, <3>1, <4>1
    <3>2. CASE k # 0  BY <1>10, <3>2
    <3> QED  BY <3>1, <3>2
  <2> QED  BY <2>6, <2>8
<1>12. ASSUME NEW P, P \subseteq 0 .. FileParts - 1, Absent(x, c, P) PROVE Absent(y, d, P)
  <2> SUFFICES ASSUME NEW p \in P
               PROVE  p - SliceStart(SliceAt(p)) \notin
                          Holds(y, SliceAt(p)) \cup Kept(y, d, SliceAt(p))
    BY <1>1 DEF Absent
  <2> DEFINE k == SliceAt(p)
             o == p - SliceStart(k)
  <2>1. o \notin Holds(x, k) \cup Kept(x, c, k)  BY <1>1, <1>12 DEF Absent
  <2>2. k \in Numbers \ {0}  BY <1>1, <1>12, SliceWhere
  <2> HIDE DEF k, o
  <2>3. k = 1 => o \notin Holds(y, k) \cup Kept(y, d, k)  BY <1>1, <1>7, <1>10, <2>1
  <2>4. k # 1 => o \notin Holds(y, k) \cup Kept(y, d, k)  BY <1>7, <1>10, <2>1, <2>2
  <2>5. o \notin Holds(y, k) \cup Kept(y, d, k)  BY <2>3, <2>4
  <2> QED  BY <2>5 DEF o, k
<1>13. Released(x, c, y, d)  BY <1>7, <1>8, <1>9, <1>11, <1>12 DEF Released
<1>14. r.x = y /\ r.n = 0 /\ r.e = e  BY <1>3
<1> HIDE DEF d
<1>15. Released(x, c, y, [c EXCEPT ![0] = e])  BY <1>13 DEF d
<1> QED  BY <1>1, <1>4, <1>7, <1>14, <1>15 DEF Serialized

LEMMA SliceSerialized ==
    ASSUME file \in Files, NEW x, Placed(x), Memory(x), Known(x), NEW c, DOMAIN c = Numbers,
           NEW n \in Numbers \ {0}, Has(x, n, "loaded"), Has(x, n, "changed"),
           NEW r, r = serializeAndUnloadSlice(x, n)
    PROVE  Serialized(x, c, r)
<1>1. CASE isGoodHeader(x) /\ n <= 1
  <2>1. n = 1 /\ r = serializeGood(x)
    <3>1. n \in Nat /\ n # 0  BY NumbersAre
    <3> QED  BY <1>1, <3>1 DEF serializeAndUnloadSlice
  <2> QED  BY <1>1, <2>1, GoodSerialized
<1>2. CASE ~(isGoodHeader(x) /\ n <= 1)
  <2> DEFINE y == Unloaded(x, n)
             e == Entry(n, FALSE, x.slices[n].parts, <<>>)
  <2>1. Holds(x, n) # {} /\ n > 0  BY NumbersAre DEF Memory
  <2>2. r = [x |-> y, n |-> n, e |-> e]
    BY <1>2, <2>1 DEF serializeAndUnloadSlice, Expects
  <2> HIDE DEF y, e
  <2>3. r.x = y /\ r.n = n /\ r.e = e  BY <2>2
  <2>4. /\ DOMAIN e.parts = Holds(x, n) /\ DOMAIN e.rest = {}
        /\ Readable(e, n) /\ y.broken = x.broken
    BY <1>2, <2>1, <2>3, SliceEntry
  <2>5. ~(isGoodHeader(x) /\ n = 1)  BY <1>2
  <2>6. Released(x, c, y, [c EXCEPT ![n] = e])
    BY <2>4, <2>5, SliceWritten DEF y
  <2> QED  BY <2>3, <2>4, <2>6 DEF Serialized
<1> QED  BY <1>1, <1>2

\* What a part of the state does not depend on.
LEMMA MemorySame ==
    ASSUME NEW x, Memory(x), NEW y, Shaped(y), y.slices = x.slices, y.mode = x.mode,
           y.loading = x.loading, y.opened = x.opened
    PROVE  /\ Memory(y) /\ Same(x, y)
           /\ \A n : Holds(y, n) = Holds(x, n) /\ Flags(y, n) = Flags(x, n)
           /\ \A n, f : Has(y, n, f) <=> Has(x, n, f)
           /\ \A c : Agrees(y, c) <=> Agrees(x, c)
           /\ \A c, P : Absent(y, c, P) <=> Absent(x, c, P)
<1>1. /\ \A n : Holds(y, n) = Holds(x, n) /\ Flags(y, n) = Flags(x, n)
      /\ \A n, f : Has(y, n, f) <=> Has(x, n, f)
  BY DEF Holds, Flags, Has
<1>2. Memory(y)  BY <1>1 DEF Memory, Undecided, Known
<1>3. \A c, n : Kept(y, c, n) = Kept(x, c, n)  BY <1>1 DEF Kept, isGoodHeader
<1>4. \A c : Agrees(y, c) <=> Agrees(x, c)
  BY <1>1, <1>3 DEF Agrees, TakenIn, Known, isGoodHeader
<1>5. \A c, P : Absent(y, c, P) <=> Absent(x, c, P)  BY <1>1, <1>3 DEF Absent
<1>6. Same(x, y)  BY DEF Same
<1> QED  BY <1>1, <1>2, <1>4, <1>5, <1>6

\* A slice that went, to the cache if it changed, or nothing.
Saved(x, c, r) ==
    /\ r.x.broken = x.broken
    /\ r.n >= 0 => r.n \in Numbers /\ Known(x) /\ Readable(r.e, r.n)
    /\ Released(x, c, r.x, EntryAfter(c, r))

LEMMA NothingSaved ==
    ASSUME NEW x, NEW c, NEW y, Released(x, c, y, c), y.broken = x.broken
    PROVE  Saved(x, c, Nothing(y))
<1> DEFINE r == Nothing(y)
<1>1. r.x = y /\ r.n = -1 /\ ~(r.n >= 0)  BY DEF Nothing
<1> HIDE DEF r
<1>2. EntryAfter(c, r) = c  BY <1>1 DEF EntryAfter
<1>3. Saved(x, c, r)  BY <1>1, <1>2 DEF Saved
<1> QED  BY <1>3 DEF r

LEMMA UnusedUnloaded ==
    ASSUME file \in Files, NEW x, Placed(x), Memory(x), NEW c, DOMAIN c = Numbers,
           NEW r, r = serializeAndUnloadUnused(x)
    PROVE  Saved(x, c, r)
<1>1. CASE x.mode = "Unknown" \/ Len(x.used) <= kSlicesInMemory
  <2>1. r = Nothing(x)  BY <1>1 DEF serializeAndUnloadUnused
  <2>2. Released(x, c, x, c)  BY DEF Released, KeptSaved, Same, Placed
  <2> QED  BY <2>1, <2>2, NothingSaved
<1>2. CASE ~(x.mode = "Unknown" \/ Len(x.used) <= kSlicesInMemory)
  <2> DEFINE n == Head(x.used)
             y == [x EXCEPT !.used = Tail(@)]
  <2>1. x.used \in Seq(Numbers \ {0}) /\ Len(x.used) > 0
    BY <1>2, SlicesAssumption DEF Placed, SlicesAssumption
  <2>2. x.used # <<>>  BY <2>1
  <2>3. n \in Numbers \ {0} /\ Tail(x.used) \in Seq(Numbers \ {0})
    BY <2>1, <2>2, HeadTailProperties
  <2>4. /\ Shaped(y) /\ y.slices = x.slices /\ y.mode = x.mode /\ y.used = Tail(x.used)
        /\ y.loading = x.loading /\ y.opened = x.opened /\ y.broken = x.broken
    BY DEF Placed, Shaped
  <2>5. r = CASE ~Has(x, n, "loaded") -> Nothing(y)
              [] Has(x, n, "loaded") /\ (x.mode = "NoCache" \/ ~Has(x, n, "changed")) ->
                     Nothing(Unloaded(y, n))
              [] OTHER -> serializeAndUnloadSlice(y, n)
    BY <1>2 DEF serializeAndUnloadUnused
  <2> HIDE DEF n, y
  <2>6. Placed(y)  BY <2>3, <2>4 DEF Placed
  <2>7. /\ Memory(y) /\ Same(x, y)
        /\ \A k, f : Has(y, k, f) <=> Has(x, k, f)
        /\ \A d : Agrees(y, d) <=> Agrees(x, d)
        /\ \A d, P : Absent(y, d, P) <=> Absent(x, d, P)
    BY <2>4, MemorySame
  <2>8. Has(x, n, "loaded") => Known(x) /\ Known(y)
    BY <1>2, <2>3, <2>4 DEF Memory, Known, Has, Flags
  <2>9. ASSUME NEW z, NEW d, Released(y, c, z, d) PROVE Released(x, c, z, d)
    BY <2>7, <2>9 DEF Released, Same
  <2>10. CASE ~Has(x, n, "loaded")
    <3>1. r = Nothing(y)  BY <2>5, <2>10
    <3>2. Released(y, c, y, c)  BY <2>6, <2>7 DEF Released, KeptSaved, Same, Placed
    <3>3. Released(x, c, y, c)  BY <2>9, <3>2
    <3> QED  BY <2>4, <3>1, <3>3, NothingSaved
  <2>11. CASE Has(x, n, "loaded") /\ ~Has(x, n, "changed")
    <3>1. r = Nothing(Unloaded(y, n))  BY <2>5, <2>11
    <3> DEFINE z == Unloaded(y, n)
    <3>2. Released(y, c, z, c)  BY <2>3, <2>6, <2>7, <2>8, <2>11, SliceDropped
    <3>3. z.broken = y.broken  BY <2>3, <2>6, UnloadedIs DEF Placed
    <3> HIDE DEF z
    <3>4. Released(x, c, z, c) /\ z.broken = x.broken  BY <2>4, <2>9, <3>2, <3>3
    <3> QED  BY <3>1, <3>4, NothingSaved DEF z
  <2>12. CASE Has(x, n, "loaded") /\ Has(x, n, "changed")
    <3>1. x.mode # "NoCache"  BY <2>8, <2>12 DEF Known
    <3>2. r = serializeAndUnloadSlice(y, n)  BY <2>5, <2>12, <3>1
    <3>3. Serialized(y, c, r)
      BY <2>3, <2>6, <2>7, <2>8, <2>12, <3>2, SliceSerialized
    <3>4. r.n \in Numbers /\ r.n >= 0  BY <3>3, NumbersAre DEF Serialized
    <3>5. EntryAfter(c, r) = [c EXCEPT ![r.n] = r.e]  BY <3>4 DEF EntryAfter
    <3>6. Released(x, c, r.x, EntryAfter(c, r))  BY <2>9, <3>3, <3>5 DEF Serialized
    <3> QED  BY <2>4, <2>8, <2>12, <3>3, <3>4, <3>6 DEF Saved, Serialized
  <2> QED  BY <2>10, <2>11, <2>12
<1> QED  BY <1>1, <1>2

-----------------------------------------------------------------------------
(* The slices: a buffer is filled, or what misses is asked for. *)

LEMMA MaxOfTwo ==
    ASSUME NEW a \in Int, NEW b \in Int
    PROVE  /\ Max({a, b}) = IF a >= b THEN a ELSE b
           /\ Min({a, b}) = IF a <= b THEN a ELSE b
<1> DEFINE S == {a, b}
           m == IF a >= b THEN a ELSE b
           l == IF a <= b THEN a ELSE b
<1>1. m \in S /\ \A y \in S : m >= y  OBVIOUS
<1>2. l \in S /\ \A y \in S : l <= y  OBVIOUS
<1>3. S \subseteq Int  OBVIOUS
<1> HIDE DEF S, m, l
<1>4. Max(S) \in S /\ \A y \in S : Max(S) >= y  BY <1>1 DEF Max
<1>5. Min(S) \in S /\ \A y \in S : Min(S) <= y  BY <1>2 DEF Min
<1>6. Max(S) = m
  <2>1. Max(S) >= m /\ m >= Max(S) /\ m \in Int /\ Max(S) \in Int  BY <1>1, <1>3, <1>4
  <2> QED  BY <2>1
<1>7. Min(S) = l
  <2>1. Min(S) <= l /\ l <= Min(S) /\ l \in Int /\ Min(S) \in Int  BY <1>2, <1>3, <1>5
  <2> QED  BY <2>1
<1> QED  BY <1>6, <1>7 DEF S, m, l

\* The pieces of a range are ranges of the slices it touches.
LEMMA PiecesAre ==
    ASSUME file \in Files, NEW range \in Reads
    PROVE  /\ \A i \in Pieces(range[1], range[2]) :
                 /\ i[1] \in Numbers /\ i[2] \in Nat /\ i[3] \in Nat
                 /\ i[1] = 0 <=> isFullInHeader
           /\ \E i \in Pieces(range[1], range[2]) : i[2] < i[3]
<1> DEFINE from == range[1]
           till == range[2]
<1>1. /\ FileParts \in Nat /\ kPartsInSlice \in Nat \ {0}
      /\ from \in 0 .. FileParts - 1 /\ till \in from + 1 .. FileParts
      /\ 0 \in Numbers
  BY FileIs, NumbersAre
<1>2. CASE isFullInHeader
  <2>1. Pieces(from, till) = {<<0, from, till>>}  BY <1>2 DEF Pieces
  <2> HIDE DEF from, till
  <2> QED  BY <1>1, <1>2, <2>1 DEF from, till
<1>3. CASE ~isFullInHeader
  <2> DEFINE piece(n) == <<n, Max({from - SliceStart(n), 0}),
                           Min({till - SliceStart(n), kPartsInSlice})>>
             first == SliceAt(from)
  <2>1. Pieces(from, till) = {piece(n) : n \in first .. SliceAt(till - 1)}
    BY <1>3 DEF Pieces
  <2> HIDE DEF from, till
  <2>2. till - 1 \in 0 .. FileParts - 1 /\ from <= till - 1 /\ from \in Nat /\ till \in Nat
    BY <1>1
  <2>3. /\ first \in Numbers /\ first >= 1 /\ SliceStart(first) \in Nat
        /\ from - SliceStart(first) \in 0 .. kPartsInSlice - 1
        /\ SliceAt(till - 1) \in Numbers
    BY <1>1, <1>3, <2>2, SliceAtIs
  <2>4. first <= SliceAt(till - 1)
    <3>1. SliceAt(from) = from \div kPartsInSlice + 1
          /\ SliceAt(till - 1) = (till - 1) \div kPartsInSlice + 1
      BY DEF SliceAt
    <3>2. from \div kPartsInSlice <= (till - 1) \div kPartsInSlice
      <4> DEFINE a == from \div kPartsInSlice
                 b == (till - 1) \div kPartsInSlice
      <4>1. /\ a \in Nat /\ from % kPartsInSlice \in 0 .. kPartsInSlice - 1
            /\ from = kPartsInSlice * a + (from % kPartsInSlice)
        BY <1>1, <2>2, DivMod
      <4> DEFINE t == till - 1
      <4>2. t \in Nat /\ from <= t  BY <1>1, <2>2
      <4> HIDE DEF t
      <4>3. /\ t \div kPartsInSlice \in Nat /\ t % kPartsInSlice \in 0 .. kPartsInSlice - 1
            /\ t = kPartsInSlice * (t \div kPartsInSlice) + (t % kPartsInSlice)
        BY <1>1, <4>2, DivMod
      <4> DEFINE q == t \div kPartsInSlice
      <4> HIDE DEF a, q
      <4>4. SUFFICES ASSUME q + 1 <= a PROVE FALSE
        <5>1. a \in Nat /\ q \in Nat  BY <4>1, <4>3 DEF q
        <5>2. ~(q + 1 <= a) => a <= q  BY <5>1
        <5> QED  BY <5>2 DEF a, q, t
      <4>5. kPartsInSlice * (q + 1) <= kPartsInSlice * a
        <5> DEFINE q1 == q + 1
        <5>1. q1 \in Nat /\ q1 <= a /\ a \in Nat /\ kPartsInSlice \in Nat
          BY <1>1, <4>1, <4>3, <4>4 DEF q
        <5> HIDE DEF q1
        <5>2. kPartsInSlice * q1 <= kPartsInSlice * a  BY <5>1, TimesMonotone
        <5> QED  BY <5>2 DEF q1
      <4>6. kPartsInSlice * (q + 1) = kPartsInSlice * q + kPartsInSlice
        BY <1>1, <4>3 DEF q
      <4>7. t = kPartsInSlice * q + (t % kPartsInSlice) /\ q \in Nat /\ kPartsInSlice * q \in Nat
        BY <1>1, <4>3 DEF q
      <4>8. kPartsInSlice * a \in Nat  BY <1>1, <4>1
      <4> DEFINE A == kPartsInSlice * a
                 Q == kPartsInSlice * q
                 u == t % kPartsInSlice
                 v == from % kPartsInSlice
      <4>9. /\ t = Q + u /\ from = A + v /\ Q + kPartsInSlice <= A
            /\ u \in 0 .. kPartsInSlice - 1 /\ v \in 0 .. kPartsInSlice - 1
            /\ A \in Nat /\ Q \in Nat
        BY <4>1, <4>3, <4>5, <4>6, <4>7, <4>8
      <4> HIDE DEF A, Q, u, v
      <4> QED  BY <1>1, <2>2, <4>2, <4>9
    <3>3. from \div kPartsInSlice \in Nat /\ (till - 1) \div kPartsInSlice \in Nat
      <4> DEFINE t == till - 1
      <4>1. t \in Nat  BY <1>1, <2>2
      <4> HIDE DEF t
      <4>2. t \div kPartsInSlice \in Nat /\ from \div kPartsInSlice \in Nat
        BY <1>1, <2>2, <4>1, DivMod
      <4> QED  BY <4>2 DEF t
    <3> QED  BY <3>1, <3>2, <3>3
  <2> HIDE DEF first
  <2>5. ASSUME NEW n \in first .. SliceAt(till - 1)
        PROVE  /\ piece(n)[1] \in Numbers /\ piece(n)[1] # 0
               /\ piece(n)[2] \in Nat /\ piece(n)[3] \in Nat
    <3>1. n \in Numbers /\ n # 0 /\ n \in Int
      <4>1. SliceAt(till - 1) \in 0 .. LastSlice /\ first \in Nat /\ LastSlice \in Nat
        BY <2>3, NumbersAre DEF Numbers
      <4>2. n \in 0 .. LastSlice /\ n # 0 /\ n \in Int  BY <2>3, <4>1
      <4> QED  BY <4>2 DEF Numbers
    <3>2. SliceStart(n) \in Nat  BY <3>1, SliceStartIs
    <3> DEFINE m == SliceAt(till - 1)
    <3>8. SliceStart(n) <= SliceStart(m)
      <4>1. n - 1 \in Nat /\ m - 1 \in Nat /\ n - 1 <= m - 1 /\ m # 0
        <5>1. m \in Nat /\ first \in Nat  BY <2>3, NumbersAre
        <5> HIDE DEF m
        <5>2. n \in first .. m /\ first >= 1  BY <2>3 DEF m
        <5> QED  BY <5>1, <5>2
      <4> DEFINE n1 == n - 1
                 m1 == m - 1
      <4>2. SliceStart(n) = n1 * kPartsInSlice /\ SliceStart(m) = m1 * kPartsInSlice
        BY <3>1, <4>1 DEF SliceStart
      <4>3. n1 \in Nat /\ m1 \in Nat /\ n1 <= m1 /\ kPartsInSlice \in Nat  BY <1>1, <4>1
      <4> HIDE DEF n1, m1, m
      <4>4. kPartsInSlice * n1 <= kPartsInSlice * m1  BY <4>3, TimesMonotone
      <4>5. n1 * kPartsInSlice = kPartsInSlice * n1 /\ m1 * kPartsInSlice = kPartsInSlice * m1
        BY <4>3
      <4> QED  BY <4>2, <4>4, <4>5
    <3>9. SliceStart(m) \in Nat /\ (till - 1) - SliceStart(m) \in 0 .. kPartsInSlice - 1
      BY <1>3, <2>2, SliceAtIs
    <3> DEFINE a == from - SliceStart(n)
               b == till - SliceStart(n)
               zero == 0
    <3>10. b >= 0
      <4> HIDE DEF m
      <4> QED  BY <1>1, <2>2, <3>2, <3>8, <3>9
    <3>3. a \in Int /\ b \in Int /\ zero \in Int /\ kPartsInSlice \in Int
      BY <1>1, <2>2, <3>2
    <3> HIDE DEF a, b, zero
    <3>4. /\ Max({a, zero}) = IF a >= zero THEN a ELSE zero
          /\ Min({b, kPartsInSlice}) = IF b <= kPartsInSlice THEN b ELSE kPartsInSlice
      BY <3>3, MaxOfTwo
    <3>5. Max({a, zero}) \in Nat /\ Min({b, kPartsInSlice}) \in Nat
      BY <1>1, <3>10, <3>3, <3>4 DEF zero
    <3> QED  BY <3>1, <3>5 DEF a, b, zero
  <2>6. first \in first .. SliceAt(till - 1) /\ piece(first)[2] < piece(first)[3]
    <3>1. first \in first .. SliceAt(till - 1)
      BY <2>3, <2>4, NumbersAre
    <3> DEFINE a == from - SliceStart(first)
               b == till - SliceStart(first)
               zero == 0
    <3>2. /\ a \in Int /\ b \in Int /\ zero \in Int /\ kPartsInSlice \in Int
          /\ a >= 0 /\ a < kPartsInSlice /\ a < b
      BY <1>1, <2>2, <2>3
    <3> HIDE DEF a, b, zero
    <3>3. /\ Max({a, zero}) = IF a >= zero THEN a ELSE zero
          /\ Min({b, kPartsInSlice}) = IF b <= kPartsInSlice THEN b ELSE kPartsInSlice
      BY <3>2, MaxOfTwo
    <3>4. Max({a, zero}) < Min({b, kPartsInSlice})  BY <3>2, <3>3 DEF zero
    <3> QED  BY <3>1, <3>4 DEF a, b, zero
  <2> HIDE DEF piece
  <2>7. \A i \in Pieces(from, till) :
            /\ i[1] \in Numbers /\ i[2] \in Nat /\ i[3] \in Nat /\ i[1] # 0
    BY <2>1, <2>5
  <2>8. \E i \in Pieces(from, till) : i[2] < i[3]  BY <2>1, <2>6
  <2> QED  BY <1>3, <2>7, <2>8 DEF from, till
<1> QED  BY <1>2, <1>3

\* What is asked of the loader is a part that neither the memory nor the cache has.
LEMMA LoadsAre ==
    ASSUME file \in Files, NEW x, Placed(x), Memory(x), NEW range \in Reads,
           x.mode = "NoCache" \/ Has(x, 0, "loaded"),
           NEW loads, loads = Offsets(x, range[1], range[2])
    PROVE  /\ loads \subseteq 0 .. FileParts - 1
           /\ \A c : Agrees(x, c) => Absent(x, c, loads)
<1> DEFINE from == range[1]
           till == range[2]
           wanted(i) == {o \in offsetsFromLoader(x, i[1], i[2], i[3]) :
                            /\ isFullInHeader \/ o < kPartsInSlice
                            /\ o + SliceStart(i[1]) < FileParts}
<1>1. ASSUME NEW p \in loads
      PROVE  \E i \in Pieces(from, till) :
                /\ i[1] = 0 \/ ~cacheNotLoaded(x, i[1])
                /\ \E o \in wanted(i) : p = o + SliceStart(i[1])
  <2> HIDE DEF wanted
  <2>1. Offsets(x, from, till) \subseteq
            UNION {{o + SliceStart(i[1]) : o \in wanted(i)} :
                   i \in {i \in Pieces(from, till) : i[1] = 0 \/ ~cacheNotLoaded(x, i[1])}}
    BY DEF Offsets, FirstParts, wanted
  <2>2. p \in UNION {{o + SliceStart(i[1]) : o \in wanted(i)} :
                   i \in {i \in Pieces(from, till) : i[1] = 0 \/ ~cacheNotLoaded(x, i[1])}}
    BY <2>1
  <2> QED  BY <2>2
<1>2. \A i \in Pieces(from, till) : /\ i[1] \in Numbers /\ i[2] \in Nat /\ i[3] \in Nat
                                    /\ i[1] = 0 <=> isFullInHeader
  BY PiecesAre
<1>3. ASSUME NEW i \in Pieces(from, till), NEW o \in wanted(i)
      PROVE  o \in Nat /\ o \notin Holds(x, i[1])
  <2> DEFINE missing == Missing(x, i[1], i[2], i[3])
             start == IF missing = {} THEN i[3] ELSE Min(missing)
  <2>1. o \in (start .. i[3] + PreloadAhead - 1) \ Holds(x, i[1])
    BY DEF offsetsFromLoader, FirstParts
  <2>2. start \in Nat
    <3>1. missing \subseteq Nat  BY <1>2 DEF Missing
    <3> HIDE DEF missing
    <3>2. missing # {} => Min(missing) \in Nat  BY <3>1, NatMin
    <3> QED  BY <1>2, <3>2
  <2>3. i[3] \in Nat /\ PreloadAhead \in Nat  BY <1>2, FileIs
  <2> HIDE DEF start
  <2> QED  BY <2>1, <2>2, <2>3
<1>4. ASSUME NEW i \in Pieces(from, till), NEW o \in wanted(i)
      PROVE  /\ isFullInHeader \/ o < kPartsInSlice
             /\ o + SliceStart(i[1]) < FileParts
  OBVIOUS
<1>5. FileParts \in Nat /\ kPartsInSlice \in Nat  BY FileIs
<1> HIDE DEF from, till, wanted
<1>6. ASSUME NEW p \in loads PROVE p \in 0 .. FileParts - 1
  <2>1. PICK i \in Pieces(from, till) :
          /\ i[1] = 0 \/ ~cacheNotLoaded(x, i[1])
          /\ \E o \in wanted(i) : p = o + SliceStart(i[1])
    BY <1>1
  <2>2. PICK o \in wanted(i) : p = o + SliceStart(i[1])  BY <2>1
  <2>3. o \in Nat /\ SliceStart(i[1]) \in Nat /\ o + SliceStart(i[1]) < FileParts
    BY <1>2, <1>3, <1>4, SliceStartIs
  <2> QED  BY <1>5, <2>2, <2>3
<1>7. ASSUME NEW c, Agrees(x, c), NEW p \in loads
      PROVE  LET n == IF isFullInHeader THEN 0 ELSE SliceAt(p)
             IN  p - SliceStart(n) \notin Holds(x, n) \cup Kept(x, c, n)
  <2>1. PICK i \in Pieces(from, till) :
          /\ i[1] = 0 \/ ~cacheNotLoaded(x, i[1])
          /\ \E o \in wanted(i) : p = o + SliceStart(i[1])
    BY <1>1
  <2>2. PICK o \in wanted(i) : p = o + SliceStart(i[1])  BY <2>1
  <2> DEFINE n == i[1]
  <2>3. /\ o \in Nat /\ SliceStart(n) \in Nat /\ o + SliceStart(n) < FileParts
        /\ o \notin Holds(x, n) /\ n \in Numbers /\ n \in Nat
        /\ isFullInHeader \/ o < kPartsInSlice
        /\ n = 0 <=> isFullInHeader
    BY <1>2, <1>3, <1>4, SliceStartIs, NumbersAre
  <2>4. p - SliceStart(n) = o  BY <2>2, <2>3
  <2>5. n = IF isFullInHeader THEN 0 ELSE SliceAt(p)
    <3>1. CASE isFullInHeader  BY <2>3, <3>1
    <3>2. CASE ~isFullInHeader
      <4>1. n \in Numbers /\ n > 0 /\ o \in 0 .. kPartsInSlice - 1  BY <1>5, <2>3, <3>2
      <4> HIDE DEF n
      <4>2. SliceAt(SliceStart(n) + o) = n  BY <4>1, SliceAtUnique
      <4>3. p = SliceStart(n) + o  BY <2>2, <2>3 DEF n
      <4> QED  BY <3>2, <4>2, <4>3
    <3> QED  BY <3>1, <3>2
  <2>6. n = 0 \/ ~cacheNotLoaded(x, n)  BY <2>1
  <2> HIDE DEF n
  <2>7. Kept(x, c, n) \subseteq Holds(x, n)
    <3>1. CASE Known(x)
      <4>1. TakenIn(x, c)  BY <1>7, <3>1 DEF Agrees
      <4>2. CASE n = 0  BY <4>1, <4>2 DEF TakenIn, Kept
      <4>3. CASE n # 0
        <5>1. Has(x, n, "loaded")  BY <2>6, <3>1, <4>3 DEF cacheNotLoaded, Known
        <5> QED  BY <2>3, <4>1, <4>3, <5>1 DEF TakenIn
      <4> QED  BY <4>2, <4>3
    <3>2. CASE ~Known(x)
      <4>1. x.mode \in {"NoCache", "Unknown"}  BY <3>2 DEF Memory, Known
      <4>2. Bare(c)  BY <1>7, <4>1 DEF Agrees
      <4> QED  BY <2>3, <4>1, <4>2 DEF Bare, Kept, isGoodHeader
    <3> QED  BY <3>1, <3>2
  <2> QED  BY <2>3, <2>4, <2>5, <2>7
<1> QED  BY <1>6, <1>7 DEF Absent

\* Slices are looked up in the cache.
Marked(x, reads) ==
    [x EXCEPT !.slices = [n \in Numbers |-> IF n \in reads THEN With(x, n, {"loading"}, {}).slices[n]
                                            ELSE x.slices[n]]]

LEMMA ReadsMarked ==
    ASSUME file \in Files, NEW x, Placed(x), Memory(x), NEW c,
           NEW reads, reads \subseteq Numbers,
           \A n \in reads : n # 0 /\ Known(x) /\ ~Has(x, n, "loaded"),
           NEW y, y = Marked(x, reads)
    PROVE  /\ Released(x, c, y, c) /\ y.broken = x.broken
<1> DEFINE S == [n \in Numbers |-> IF n \in reads THEN With(x, n, {"loading"}, {}).slices[n]
                                            ELSE x.slices[n]]
<1>1. ASSUME NEW n \in Numbers
      PROVE  /\ {"parts", "flags"} \subseteq DOMAIN S[n]
             /\ DOMAIN S[n].parts = Holds(x, n)
             /\ S[n].flags = IF n \in reads THEN Flags(x, n) \cup {"loading"} ELSE Flags(x, n)
  <2> DEFINE on == {"loading"}
             off == {}
             v == With(x, n, on, off)
  <2>1. S[n] = IF n \in reads THEN v.slices[n] ELSE x.slices[n]  OBVIOUS
  <2>2. /\ Shaped(v) /\ Holds(v, n) = Holds(x, n)
        /\ Flags(v, n) = Flags(x, n) \cup on
    <3> HIDE DEF v, on, off
    <3>1. v = With(x, n, on, off) /\ Shaped(x)  BY DEF v, Placed
    <3>2. Shaped(v) /\ Holds(v, n) = Holds(x, n) /\ Flags(v, n) = (Flags(x, n) \cup on) \ off
      BY <3>1, WithIs DEF Same
    <3>3. off = {}  BY DEF off
    <3> QED  BY <3>2, <3>3
  <2>3. Shaped(x)  BY DEF Placed
  <2> HIDE DEF v, S
  <2> QED  BY <2>1, <2>2, <2>3 DEF Shaped, Holds, Flags
<1>2. y = [x EXCEPT !.slices = S]  BY DEF Marked
<1> HIDE DEF S
<1>3. /\ y.slices = S /\ DOMAIN y.slices = Numbers /\ y.broken = x.broken
      /\ y.mode = x.mode /\ y.loading = x.loading /\ y.opened = x.opened /\ Shaped(y)
  <2>1. DOMAIN S = Numbers  BY DEF S
  <2> QED  BY <1>1, <1>2, <2>1 DEF Placed, Shaped
<1>4. \A n \in Numbers : /\ Holds(y, n) = Holds(x, n)
                         /\ Flags(y, n) = IF n \in reads THEN Flags(x, n) \cup {"loading"}
                                          ELSE Flags(x, n)
  BY <1>1, <1>3 DEF Holds, Flags
<1>5. ASSUME NEW n \in Numbers
      PROVE  /\ Has(y, n, "loaded") <=> Has(x, n, "loaded")
             /\ Has(y, n, "changed") <=> Has(x, n, "changed")
             /\ Has(y, n, "loading") <=> Has(x, n, "loading") \/ n \in reads
  <2>1. CASE n \in reads
    <3>1. Flags(y, n) = Flags(x, n) \cup {"loading"}  BY <1>4, <2>1
    <3> QED  BY <2>1, <3>1 DEF Has, Flags
  <2>2. CASE n \notin reads
    <3>1. Flags(y, n) = Flags(x, n)  BY <1>4, <2>2
    <3> QED  BY <2>2, <3>1 DEF Has, Flags
  <2> QED  BY <2>1, <2>2
<1>6. 0 \in Numbers /\ 0 \notin reads /\ (~Known(x) => reads = {})  BY NumbersAre
<1>7. Memory(y)
  <2>1. \A n \in Numbers :
            /\ Has(y, n, "loaded") => ~Has(y, n, "loading")
            /\ Has(y, n, "changed") => Has(y, n, "loaded") /\ Holds(y, n) # {}
    BY <1>4, <1>5 DEF Memory
  <2>2. CASE Known(x)
    <3>1. Known(y) /\ Has(y, 0, "loaded") /\ Holds(y, 0) # {}
      BY <1>3, <1>4, <1>5, <1>6, <2>2 DEF Memory, Known
    <3>2. y.mode \notin {"NoCache", "Unknown"}  BY <3>1 DEF Known
    <3> QED  BY <1>3, <2>1, <3>1, <3>2 DEF Memory
  <2>3. CASE ~Known(x)
    <3>1. \A n \in Numbers : Holds(y, n) = Holds(x, n) /\ Flags(y, n) = Flags(x, n)
      BY <1>4, <1>6, <2>3
    <3>2. y.mode = "NoCache" => \A n \in Numbers : Flags(y, n) = {}
      BY <1>3, <3>1 DEF Memory
    <3>3. y.mode = "Unknown" => Undecided(y)
      <4> SUFFICES ASSUME y.mode = "Unknown" PROVE Undecided(y)  OBVIOUS
      <4>1. Undecided(x)  BY <1>3 DEF Memory
      <4>2. ~isFullInHeader =>
                \A p \in Holds(y, 0) : p - SliceStart(SliceAt(p)) \in Holds(y, SliceAt(p))
        <5> SUFFICES ASSUME ~isFullInHeader, NEW p \in Holds(x, 0)
                     PROVE  p - SliceStart(SliceAt(p)) \in Holds(y, SliceAt(p))
          BY <1>6, <3>1
        <5>1. p \in Positions(0)  BY <1>6, PlacedIs
        <5>2. SliceAt(p) \in Numbers  BY <5>1, SliceWhere DEF Positions
        <5> QED  BY <3>1, <4>1, <5>2 DEF Undecided
      <4> QED  BY <1>3, <1>5, <1>6, <3>1, <4>1, <4>2 DEF Undecided
    <3>4. ~Known(y)  BY <1>3, <2>3 DEF Known
    <3> QED  BY <1>3, <2>1, <3>2, <3>3, <3>4 DEF Memory
  <2> QED  BY <2>2, <2>3
<1>8. \A n : n \in Numbers => Kept(y, c, n) = Kept(x, c, n)
  BY <1>3, <1>4, <1>6 DEF Kept, isGoodHeader
<1>9. ASSUME Agrees(x, c) PROVE Agrees(y, c)
  <2>1. isGoodHeader(x) => 1 \in Numbers
    BY NumbersAre DEF Placed, isGoodHeader
  <2>2. Known(x) => TakenIn(y, c)
    <3> SUFFICES ASSUME Known(x) PROVE TakenIn(y, c)  OBVIOUS
    <3>1. TakenIn(x, c)  BY <1>9 DEF Agrees
    <3>2. isGoodHeader(y) /\ ~Has(y, 1, "loaded") => Holds(y, 0) \cap Holds(y, 1) = {}
      BY <1>3, <1>4, <1>5, <1>6, <2>1, <3>1 DEF TakenIn, isGoodHeader
    <3>3. \A n \in Numbers \ {0} : Has(y, n, "loaded") => Kept(y, c, n) \subseteq Holds(y, n)
      BY <1>4, <1>5, <1>8, <3>1 DEF TakenIn
    <3> QED  BY <1>3, <1>4, <1>5, <1>6, <3>1, <3>2, <3>3 DEF TakenIn
  <2> QED  BY <1>3, <1>5, <1>6, <1>9, <2>2 DEF Agrees, Known
<1>10. ASSUME NEW P, P \subseteq 0 .. FileParts - 1, Absent(x, c, P) PROVE Absent(y, c, P)
  <2> SUFFICES ASSUME NEW p \in P, NEW k, k = IF isFullInHeader THEN 0 ELSE SliceAt(p)
               PROVE  p - SliceStart(k) \notin Holds(y, k) \cup Kept(y, c, k)
    BY DEF Absent
  <2>1. p - SliceStart(k) \notin Holds(x, k) \cup Kept(x, c, k)  BY <1>10 DEF Absent
  <2>2. k \in Numbers  BY <1>6, <1>10, SliceWhere
  <2> QED  BY <1>4, <1>8, <2>1, <2>2
<1>11. KeptSaved(c, c) /\ Same(x, y)  BY <1>3 DEF KeptSaved, Same
<1> QED  BY <1>3, <1>5, <1>6, <1>7, <1>9, <1>10, <1>11 DEF Released

LEMMA MarkUsedIs ==
    ASSUME NEW x, Placed(x), NEW n \in Numbers \ {0}, NEW y, y = markSliceUsed(x, n)
    PROVE  /\ Placed(y) /\ y.slices = x.slices /\ y.mode = x.mode
           /\ y.loading = x.loading /\ y.opened = x.opened /\ y.broken = x.broken
<1> DEFINE found == {i \in DOMAIN x.used : x.used[i] = n}
           others == IF found = {} THEN x.used ELSE RemoveAt(x.used, Min(found))
           z == [x EXCEPT !.used = Append(others, n)]
<1>1. y = z  BY DEF markSliceUsed
<1>2. /\ z.slices = x.slices /\ z.mode = x.mode /\ z.loading = x.loading
      /\ z.opened = x.opened /\ z.broken = x.broken
  <2> HIDE DEF others
  <2> QED  BY DEF Placed, Shaped
<1> HIDE DEF z
<1> QED  BY <1>1, <1>2, MarkUsedKeeps

\* A buffer is filled only with what is held, so the header is not empty then.
LEMMA FilledHeader ==
    ASSUME file \in Files, NEW x, Memory(x), x.mode = "Unknown", NEW range \in Reads,
           \A i \in Pieces(range[1], range[2]) : Missing(x, i[1], i[2], i[3]) = {}
    PROVE  Holds(x, 0) # {}
<1>1. PICK i \in Pieces(range[1], range[2]) : i[2] < i[3]  BY PiecesAre
<1>2. i[1] \in Numbers /\ i[2] \in Nat /\ i[3] \in Nat  BY PiecesAre
<1>3. i[2] \in Holds(x, i[1])  BY <1>1, <1>2 DEF Missing
<1> QED  BY <1>2, <1>3 DEF Memory, Undecided

\* What a round of filling a buffer leaves, and asks for.
LEMMA FillSound ==
    ASSUME file \in Files, NEW x, Placed(x), Memory(x), NEW c, DOMAIN c = Numbers,
           NEW range \in Reads, NEW r, r = fill(x, range[1], range[2])
    PROVE  /\ Saved(x, c, r)
           /\ r.loads \subseteq 0 .. FileParts - 1
           /\ Agrees(x, c) => Absent(x, c, r.loads)
           /\ x.mode = "Unknown" /\ ~Has(x, 0, "loaded") => r.loads = {}
           /\ x.mode = "Unknown" /\ r.filled => Holds(r.x, 0) # {}
           /\ AskedOf(r.x, {Key(r.x, n) : n \in r.reads})
           /\ ~r.filled => r.n = -1
<1> DEFINE from == range[1]
           till == range[2]
           pieces == Pieces(from, till)
           ready == \A i \in pieces : Missing(x, i[1], i[2], i[3]) = {}
           reads == {i[1] : i \in {i \in pieces : cacheNotLoaded(x, i[1]) /\ ~Has(x, i[1], "loading")}}
           loads == Offsets(x, from, till)
           used == markSliceUsed(markSliceUsed(x, SliceAt(from)), SliceAt(till - 1))
           y == Marked(x, reads)
           w == IF ~ready THEN Nothing(y)
                ELSE IF isFullInHeader THEN Nothing(x)
                ELSE serializeAndUnloadUnused(used)
           early == [x |-> x, n |-> -1, e |-> NoEntry, filled |-> FALSE, reads |-> {},
                     loads |-> {}]
           late == [x |-> w.x, n |-> w.n, e |-> w.e, filled |-> ready, loads |-> loads,
                    reads |-> IF ready \/ isFullInHeader THEN {} ELSE reads]
<1>1. from \in 0 .. FileParts - 1 /\ till - 1 \in 0 .. FileParts - 1
  <2>1. /\ FileParts \in Nat
        /\ from \in 0 .. FileParts - 1 /\ till \in from + 1 .. FileParts
    BY FileIs
  <2> QED  BY <2>1
<1>2. r = IF x.mode # "NoCache" /\ ~Has(x, 0, "loaded") THEN early ELSE late
  BY DEF fill, Marked
<1>3. CASE x.mode # "NoCache" /\ ~Has(x, 0, "loaded")
  <2>1. /\ r.x = x /\ r.n = -1 /\ r.loads = {} /\ r.reads = {} /\ r.filled = FALSE
    BY <1>2, <1>3
  <2>2. Released(x, c, x, c)  BY DEF Released, KeptSaved, Same, Placed
  <2>3. ~(r.n >= 0)  BY <2>1
  <2>4. EntryAfter(c, r) = c  BY <2>3 DEF EntryAfter
  <2>5. Saved(x, c, r)  BY <2>1, <2>2, <2>3, <2>4 DEF Saved
  <2> QED  BY <2>1, <2>5 DEF Absent, AskedOf
<1>4. CASE x.mode = "NoCache" \/ Has(x, 0, "loaded")
  <2>1. /\ r.x = w.x /\ r.n = w.n /\ r.e = w.e /\ r.filled = ready /\ r.loads = loads
        /\ r.reads = IF ready \/ isFullInHeader THEN {} ELSE reads
    <3>1. r = late  BY <1>2, <1>4
    <3> HIDE DEF w, ready, loads, reads
    <3> QED  BY <3>1
  <2>2. /\ loads \subseteq 0 .. FileParts - 1
        /\ Agrees(x, c) => Absent(x, c, loads)
    BY <1>4, LoadsAre
  <2> HIDE DEF loads
  <2>3. /\ reads \subseteq Numbers
        /\ \A n \in reads : n # 0 /\ Known(x) /\ ~Has(x, n, "loaded")
    <3>1. \A i \in pieces : i[1] \in Numbers  BY PiecesAre
    <3>2. \A n \in reads : n \in Numbers /\ cacheNotLoaded(x, n)  BY <3>1
    <3> HIDE DEF reads
    <3> QED  BY <1>4, <3>2 DEF cacheNotLoaded, Memory, Known
  <2> HIDE DEF reads
  <2>4. Released(x, c, y, c) /\ y.broken = x.broken  BY <2>3, ReadsMarked
  <2> HIDE DEF y
  <2>5. \/ isFullInHeader
        \/ SliceAt(from) \in Numbers \ {0} /\ SliceAt(till - 1) \in Numbers \ {0}
    BY <1>1, SliceWhere
  <2>6. ~isFullInHeader =>
            /\ Placed(used) /\ used.slices = x.slices /\ used.mode = x.mode
            /\ used.loading = x.loading /\ used.opened = x.opened /\ used.broken = x.broken
    <3> SUFFICES ASSUME ~isFullInHeader
                 PROVE  /\ Placed(used) /\ used.slices = x.slices /\ used.mode = x.mode
                        /\ used.loading = x.loading /\ used.opened = x.opened
                        /\ used.broken = x.broken
      OBVIOUS
    <3> DEFINE once == markSliceUsed(x, SliceAt(from))
    <3>1. /\ Placed(once) /\ once.slices = x.slices /\ once.mode = x.mode
          /\ once.loading = x.loading /\ once.opened = x.opened /\ once.broken = x.broken
      BY <2>5, MarkUsedIs
    <3>2. used = markSliceUsed(once, SliceAt(till - 1))  OBVIOUS
    <3> HIDE DEF once, used
    <3>3. /\ Placed(used) /\ used.slices = once.slices /\ used.mode = once.mode
          /\ used.loading = once.loading /\ used.opened = once.opened
          /\ used.broken = once.broken
      BY <2>5, <3>1, <3>2, MarkUsedIs
    <3> QED  BY <3>1, <3>3
  <2> HIDE DEF used
  <2>7. Saved(x, c, w)
    <3>1. CASE ~ready
      <4>1. w = Nothing(y)  BY <3>1
      <4> QED  BY <2>4, <4>1, NothingSaved
    <3>2. CASE ready /\ isFullInHeader
      <4>1. w = Nothing(x)  BY <3>2
      <4>2. Released(x, c, x, c)  BY DEF Released, KeptSaved, Same, Placed
      <4> QED  BY <4>1, <4>2, NothingSaved
    <3>3. CASE ready /\ ~isFullInHeader
      <4>1. w = serializeAndUnloadUnused(used)  BY <3>3
      <4>2. Placed(used) /\ Shaped(used)  BY <2>6, <3>3 DEF Placed
      <4>3. /\ Memory(used) /\ Same(x, used) /\ used.broken = x.broken
            /\ \A k, f : Has(used, k, f) <=> Has(x, k, f)
            /\ Agrees(used, c) <=> Agrees(x, c)
            /\ \A P : Absent(used, c, P) <=> Absent(x, c, P)
        BY <2>6, <3>3, <4>2, MemorySame
      <4> HIDE DEF w
      <4>4. Saved(used, c, w)  BY <4>1, <4>2, <4>3, UnusedUnloaded
      <4>5. Released(x, c, w.x, EntryAfter(c, w))
        BY <4>3, <4>4 DEF Saved, Released, Same
      <4>6. Known(used) <=> Known(x)  BY <2>6, <3>3 DEF Known
      <4> QED  BY <4>3, <4>4, <4>5, <4>6 DEF Saved
    <3> QED  BY <3>1, <3>2, <3>3
  <2>8. ~ready => w.n = -1  BY DEF Nothing
  <2>9. x.mode = "Unknown" /\ ready => Holds(w.x, 0) # {}
    <3> SUFFICES ASSUME x.mode = "Unknown", ready PROVE Holds(w.x, 0) # {}  OBVIOUS
    <3>1. Holds(x, 0) # {}  BY FilledHeader
    <3>2. CASE isFullInHeader
      <4>1. w.x = x  BY <3>2 DEF Nothing
      <4> QED  BY <3>1, <4>1
    <3>3. CASE ~isFullInHeader
      <4>1. w = Nothing(used)  BY <2>6, <3>3 DEF serializeAndUnloadUnused
      <4>2. w.x.slices = x.slices  BY <2>6, <3>3, <4>1 DEF Nothing
      <4> QED  BY <3>1, <4>2 DEF Holds
    <3> QED  BY <3>2, <3>3
  <2> HIDE DEF w, ready
  <2>10. AskedOf(r.x, {Key(r.x, n) : n \in r.reads})
    <3>1. r.x.mode = x.mode  BY <2>1, <2>7 DEF Saved, Released, Same
    <3>2. \A n \in r.reads : Known(x)  BY <2>1, <2>3
    <3>3. \A n : Key(r.x, n) = IF n = 1 /\ isGoodHeader(r.x) THEN 0 ELSE n  BY DEF Key
    <3> QED  BY <3>1, <3>2, <3>3 DEF AskedOf, Known
  <2>11. EntryAfter(c, r) = EntryAfter(c, w)  BY <2>1 DEF EntryAfter
  <2>12. Saved(x, c, r)  BY <2>1, <2>7, <2>11 DEF Saved
  <2> QED  BY <1>4, <2>1, <2>2, <2>8, <2>9, <2>10, <2>12
<1> QED  BY <1>3, <1>4

-----------------------------------------------------------------------------
(* The slices: the steps keep what memory and cache have of each other. *)

MemoryInv ==
    /\ Sound(s, cache)
    /\ AskedOf(s, gets)
    /\ \A n \in Numbers : Readable(cache[n], n)

LEMMA SameFileMemory ==
    ASSUME file \in Files, file' = file, Sound(s', cache'), AskedOf(s', gets'),
           \A n \in Numbers : Readable(cache'[n], n)
    PROVE  MemoryInv'
<1>1. /\ FileParts' = FileParts /\ LastSize' = LastSize /\ MaxOnlyInHeader' = MaxOnlyInHeader
      /\ UseCache' = UseCache /\ Evicts' = Evicts
  BY DEF FileParts, LastSize, MaxOnlyInHeader, UseCache, Evicts
<1>2. isFullInHeader' = isFullInHeader  BY <1>1 DEF isFullInHeader
<1>3. LastSlice' = LastSlice  BY <1>1, <1>2 DEF LastSlice
<1>4. Numbers' = Numbers  BY <1>3 DEF Numbers
<1>5. \A n : Positions(n)' = Positions(n)  BY <1>1 DEF Positions
<1>6. Placed(s)'
  BY <1>2, <1>4, <1>5 DEF Sound, Placed, Shaped, InPlace
<1>7. Memory(s)'
  BY <1>1, <1>2, <1>4 DEF Sound, Memory, Undecided, Known, Has, Holds, Flags, SliceAt, SliceStart
<1>8. (s.broken \subseteq Admitted)'  BY <1>1 DEF Sound, Admitted
<1>9. (~Evicts => Agrees(s, cache) /\ Absent(s, cache, s.loading))'
  <2> SUFFICES ASSUME ~Evicts PROVE Agrees(s, cache)' /\ Absent(s, cache, s.loading)'
    BY <1>1
  <2>1. Agrees(s', cache') /\ Absent(s', cache', s'.loading)  BY DEF Sound
  <2>2. Agrees(s, cache)'
    BY <1>2, <1>4, <1>5, <2>1
    DEF Agrees, TakenIn, Known, Bare, Kept, isGoodHeader, Has, Holds
  <2>3. Absent(s, cache, s.loading)'
    BY <1>2, <1>5, <2>1 DEF Absent, Kept, isGoodHeader, Holds, SliceAt, SliceStart
  <2> QED  BY <2>2, <2>3
<1>10. AskedOf(s, gets)'  BY DEF AskedOf, Known, isGoodHeader
<1>11. (\A n \in Numbers : Readable(cache[n], n))'
  <2>1. \A n : maxSliceSize(n)' = maxSliceSize(n)
    BY <1>1, <1>3 DEF maxSliceSize, SliceStart
  <2>2. ASSUME NEW n \in Numbers PROVE Readable(cache[n], n)'
    <3> DEFINE e == cache'[n]
    <3>1. Readable(e, n)  OBVIOUS
    <3>2. ComplexSize(cache[n].parts)' = ComplexSize(e.parts)
      BY <1>1 DEF ComplexSize, Bytes
    <3>3. FoundIn(cache[n], n)' = FoundIn(e, n)
      BY <2>1 DEF FoundIn, Decoded, IsContiguousSerialization
    <3>4. RestOf(cache[n])' = RestOf(e)
      BY <2>1, <3>2 DEF RestOf, Decoded, IsContiguousSerialization
    <3>5. Readable(cache[n], n)' <=> Readable(e, n)
      BY <1>2, <3>3, <3>4 DEF Readable
    <3> QED  BY <3>1, <3>5
  <2> QED  BY <1>4, <2>2
<1>12. Sound(s, cache)'  BY <1>6, <1>7, <1>8, <1>9 DEF Sound
<1> QED  BY <1>10, <1>11, <1>12 DEF MemoryInv

\* After a round of filling a buffer.
LEMMA RoundSound ==
    ASSUME file \in Files, NEW x, NEW c, Sound(x, c), Stored(c), NEW range \in Reads,
           NEW r, r = fill(x, range[1], range[2]),
           NEW y, Placed(y), y.slices = r.x.slices, y.mode = r.x.mode, y.broken = r.x.broken,
           y.loading \subseteq x.loading \cup r.loads, y.opened => x.opened \/ r.filled
    PROVE  Sound(y, EntryAfter(c, r))
<1> DEFINE z == r.x
           d == EntryAfter(c, r)
<1>1. /\ Placed(x) /\ Memory(x) /\ DOMAIN c = Numbers /\ x.loading \subseteq 0 .. FileParts - 1
  BY DEF Sound, Stored, Memory
<1>2. /\ Saved(x, c, r)
      /\ r.loads \subseteq 0 .. FileParts - 1
      /\ Agrees(x, c) => Absent(x, c, r.loads)
      /\ x.mode = "Unknown" /\ ~Has(x, 0, "loaded") => r.loads = {}
      /\ x.mode = "Unknown" /\ r.filled => Holds(z, 0) # {}
  BY <1>1, FillSound
<1>3. Placed(z)
  <2>1. WrittenOf(r)  BY <1>1, FillKeeps
  <2> QED  BY <2>1 DEF WrittenOf
<1> HIDE DEF z, d
<1>4. /\ Memory(z) /\ Same(x, z) /\ (Has(x, 0, "loaded") => Has(z, 0, "loaded"))
      /\ z.broken = x.broken
      /\ z.mode = x.mode /\ z.loading = x.loading /\ z.opened = x.opened
      /\ Agrees(x, c) => /\ Agrees(z, d)
                         /\ \A P : P \subseteq 0 .. FileParts - 1 /\ Absent(x, c, P) => Absent(z, d, P)
  BY <1>2 DEF Saved, Released, Same, z, d
<1>5. Sound(z, d)
  BY <1>1, <1>3, <1>4 DEF Sound
<1>6. ~Evicts => Absent(z, d, y.loading)
  <2> SUFFICES ASSUME ~Evicts PROVE Absent(z, d, y.loading)  OBVIOUS
  <2>1. Agrees(x, c) /\ Absent(x, c, x.loading) /\ Absent(x, c, r.loads)
    BY <1>2 DEF Sound
  <2>2. Absent(x, c, y.loading)  BY <2>1 DEF Absent
  <2> QED  BY <1>1, <1>2, <1>4, <2>1, <2>2
<1>7. z.mode = "Unknown" /\ ~Has(z, 0, "loaded") => y.loading = {}
  BY <1>2, <1>4 DEF Memory, Undecided
<1>8. z.mode = "Unknown" /\ Holds(z, 0) = {} => ~y.opened
  BY <1>2, <1>4 DEF Memory, Undecided
<1>9. y.slices = z.slices /\ y.mode = z.mode /\ y.broken = z.broken
      /\ y.loading \subseteq 0 .. FileParts - 1
  BY <1>1, <1>2 DEF z
<1>10. Sound(y, d)  BY <1>5, <1>6, <1>7, <1>8, <1>9, OtherFieldsSound
<1> QED  BY <1>10 DEF d

\* What a step does to the cache.
CacheKept == Evicts \/ KeptSaved(cache, cache')

LEMMA FillStepSound ==
    ASSUME SlicesInv, MemoryInv, NEW range \in Reads, Fill(range[1], range[2])
    PROVE  MemoryInv' /\ CacheKept
<1>1. file \in Files /\ Placed(s) /\ Stored(cache)  BY DEF SlicesInv
<1>2. /\ Sound(s, cache) /\ AskedOf(s, gets)
      /\ \A n \in Numbers : Readable(cache[n], n)
  BY DEF MemoryInv
<1>3. file' = file  BY DEF Fill
<1> DEFINE from == range[1]
           till == range[2]
<1>4. PICK got \in SUBSET gets, seen \in {{}, arrived} :
        \E x \in {processLoadedParts(processCacheResults(s, got), seen)} :
        \E r \in {fill(x, from, till)} : fillFromSlices(x, r, got)
  BY DEF Fill
<1> DEFINE h == processCacheResults(s, got)
           x == processLoadedParts(h, seen)
           r == fill(x, from, till)
           d == EntryAfter(cache, r)
<1>5. Sound(x, cache) /\ AskedOf(x, gets)
  <2>1. AskedOf(s, got)  BY <1>2 DEF AskedOf
  <2>2. h = processCacheResults(s, got)  OBVIOUS
  <2> HIDE DEF h
  <2>3. Sound(h, cache) /\ (h.mode = s.mode \/ s.mode = "Unknown")
    BY <1>1, <1>2, <2>1, <2>2, CacheResultsSound
  <2>4. Sound(x, cache) /\ x.mode = h.mode  BY <1>1, <2>3, LoadedPartsSound
  <2> HIDE DEF x
  <2> QED  BY <1>2, <2>3, <2>4 DEF AskedOf, Known, isGoodHeader
<1>6. fillFromSlices(x, r, got)  BY <1>4
<1> HIDE DEF h, x
<1>7. Placed(x) /\ Memory(x) /\ DOMAIN cache = Numbers  BY <1>1, <1>5 DEF Sound, Stored
<1>8. r = fill(x, range[1], range[2])  OBVIOUS
<1> HIDE DEF r
<1>9. /\ Saved(x, cache, r)
      /\ AskedOf(r.x, {Key(r.x, n) : n \in r.reads})
      /\ ~r.filled => r.n = -1
  BY <1>1, <1>7, <1>8, FillSound
<1>10. WrittenOf(r)  BY <1>1, <1>7, <1>8, FillKeeps
<1>11. Placed(r.x) /\ Shaped(r.x) /\ r.x.opened = x.opened /\ r.x.mode = x.mode /\ r.x.loading = x.loading
  BY <1>9, <1>10 DEF WrittenOf, Saved, Released, Same, Placed
<1>12. /\ s'.slices = r.x.slices /\ s'.mode = r.x.mode /\ s'.broken = r.x.broken
       /\ s'.used = r.x.used /\ Shaped(s')
       /\ s'.loading \subseteq x.loading \cup r.loads /\ (s'.opened => x.opened \/ r.filled)
       /\ cache' = d
       /\ gets' \subseteq gets \cup {Key(r.x, n) : n \in r.reads}
  <2> DEFINE z == r.x
             u == [z EXCEPT !.failed = TRUE]
  <2>1. CASE ~r.filled /\ headerWontBeFilled(r.x)
    <3>1. s' = u /\ gets' = gets \ got /\ cache' = cache
      BY <1>6, <2>1 DEF fillFromSlices
    <3>2. d = cache
      <4>1. ~(r.n >= 0)  BY <1>9, <2>1
      <4> QED  BY <4>1 DEF EntryAfter
    <3>3. /\ u.slices = z.slices /\ u.mode = z.mode /\ u.broken = z.broken /\ u.used = z.used
          /\ Shaped(u) /\ u.loading = z.loading /\ u.opened = z.opened
      BY <1>11 DEF Shaped
    <3> HIDE DEF u, z, d
    <3> QED  BY <1>11, <3>1, <3>2, <3>3 DEF z
  <2>2. CASE ~(~r.filled /\ headerWontBeFilled(r.x))
    <3> DEFINE cancelled == IF r.n >= 0 THEN RangeOf(r.n) \cap x.loading ELSE {}
               loading == (x.loading \ cancelled) \cup r.loads
               v == [z EXCEPT !.loading = loading, !.opened = @ \/ r.filled]
    <3>1. /\ s' = v /\ gets' = (gets \ got) \cup {Key(r.x, n) : n \in r.reads}
          /\ cache' = IF UseCache /\ r.n >= 0 THEN [cache EXCEPT ![r.n] = r.e] ELSE cache
      BY <1>6, <2>2 DEF fillFromSlices
    <3>2. loading \subseteq x.loading \cup r.loads  OBVIOUS
    <3> HIDE DEF loading
    <3>3. /\ v.slices = z.slices /\ v.mode = z.mode /\ v.broken = z.broken /\ v.used = z.used
          /\ Shaped(v) /\ v.loading = loading /\ v.opened = (z.opened \/ r.filled)
      BY <1>11 DEF Shaped
    <3> HIDE DEF v, z
    <3>4. r.n >= 0 => UseCache
      BY <1>7, <1>9 DEF Saved, Known, Memory
    <3>5. cache' = d  BY <3>1, <3>4 DEF EntryAfter
    <3> HIDE DEF d
    <3> QED  BY <1>11, <3>1, <3>2, <3>3, <3>5 DEF z
  <2> QED  BY <2>1, <2>2
<1>13. Placed(s')  BY <1>11, <1>12, OtherFieldsKeep
<1>14. Sound(s', d)
  BY <1>1, <1>5, <1>8, <1>12, <1>13, RoundSound
<1>15. AskedOf(s', gets')
  <2>1. s'.mode = x.mode /\ s'.mode = r.x.mode  BY <1>11, <1>12
  <2>2. AskedOf(s', gets)  BY <1>5, <2>1 DEF AskedOf, Known, isGoodHeader
  <2>3. AskedOf(s', {Key(r.x, n) : n \in r.reads})
    BY <1>9, <2>1 DEF AskedOf, Known, isGoodHeader
  <2> QED  BY <1>12, <2>2, <2>3 DEF AskedOf
<1>16. \A n \in Numbers : Readable(d[n], n)
  <2>1. CASE r.n >= 0
    <3>1. d = [cache EXCEPT ![r.n] = r.e]  BY <2>1 DEF EntryAfter
    <3>2. r.n \in Numbers /\ Readable(r.e, r.n)  BY <1>9, <2>1 DEF Saved
    <3>3. \A n \in Numbers : d[n] = IF n = r.n THEN r.e ELSE cache[n]
      BY <1>7, <3>1
    <3> QED  BY <1>2, <3>2, <3>3
  <2>2. CASE ~(r.n >= 0)
    <3>1. d = cache  BY <2>2 DEF EntryAfter
    <3> QED  BY <1>2, <3>1
  <2> QED  BY <2>1, <2>2
<1>17. CacheKept
  <2>1. ~Evicts => Agrees(x, cache)  BY <1>5 DEF Sound
  <2>2. ~Evicts => KeptSaved(cache, d)  BY <1>9, <2>1 DEF Saved, Released
  <2> QED  BY <1>12, <2>2 DEF CacheKept
<1>18. cache' = d  BY <1>12
<1> HIDE DEF d
<1>19. MemoryInv'  BY <1>1, <1>3, <1>14, <1>15, <1>16, <1>18, SameFileMemory
<1> QED  BY <1>17, <1>19

LEMMA HeaderDoneStepSound ==
    ASSUME SlicesInv, MemoryInv, HeaderDone
    PROVE  MemoryInv' /\ CacheKept
<1>1. file \in Files /\ Placed(s) /\ Shaped(s) /\ Stored(cache) /\ 0 \in Numbers
  BY NumbersAre DEF SlicesInv, Placed
<1>2. /\ Sound(s, cache) /\ Memory(s) /\ AskedOf(s, gets)
      /\ \A n \in Numbers : Readable(cache[n], n)
  BY DEF MemoryInv, Sound
<1>3. /\ file' = file /\ cache' = cache /\ gets' = gets /\ s.opened /\ s.mode = "Unknown"
  BY DEF HeaderDone
<1> DEFINE y == s'
           read == FALSE
<1>4. y = headerDone(s, read)  BY DEF HeaderDone
<1> HIDE DEF y, read
<1>5. Undecided(s)  BY <1>2, <1>3 DEF Memory
<1>6. Holds(s, 0) # {} /\ Has(s, 0, "changed") /\ Has(s, 0, "loaded")
  BY <1>1, <1>2, <1>3, <1>5 DEF Undecided, Memory
<1>7. \A n \in Numbers \ {0} : ~Has(s, n, "loading") /\ ~Has(s, n, "loaded")
  BY <1>5 DEF Undecided, Has, Flags
<1>8. /\ Shaped(y) /\ y.loading = s.loading /\ y.opened = s.opened
      /\ isFullInHeader => y.mode = "Full"
      /\ ~isFullInHeader => y.mode \in {"Good", "Small"}
      /\ y.broken = s.broken
      /\ \A k \in Numbers : Holds(y, k) = Holds(s, k)
      /\ \A k \in Numbers :
            Flags(y, k) = IF k = 0 THEN Flags(s, k) ELSE Flags(s, k) \cup {"loaded"}
  BY <1>1, <1>3, <1>4, <1>7, HeaderDoneRead DEF read
<1>9. Placed(y)
  <2>1. read \in BOOLEAN  BY DEF read
  <2> QED  BY <1>1, <1>4, <2>1, HeaderDoneKeeps
<1>10. /\ Has(y, 0, "changed") /\ Has(y, 0, "loaded") /\ ~Has(y, 0, "loading")
       /\ \A n \in Numbers \ {0} : Has(y, n, "loaded") /\ ~Has(y, n, "loading")
                                   /\ ~Has(y, n, "changed")
       /\ Known(y) /\ Holds(y, 0) # {} /\ UseCache /\ y.mode \notin {"NoCache", "Unknown"}
  <2>1. Flags(y, 0) = Flags(s, 0)  BY <1>1, <1>8
  <2>2. \A n \in Numbers \ {0} : Flags(y, n) = {"loaded"}  BY <1>5, <1>8 DEF Undecided
  <2>3. ~Has(s, 0, "loading")  BY <1>1, <1>2, <1>6 DEF Memory
  <2>4. Known(y) /\ Holds(y, 0) # {} /\ y.mode \notin {"NoCache", "Unknown"}
    BY <1>1, <1>6, <1>8 DEF Known
  <2>5. UseCache  BY <1>2, <1>3 DEF Memory
  <2>6. Has(y, 0, "changed") /\ Has(y, 0, "loaded") /\ ~Has(y, 0, "loading")
    BY <1>6, <2>1, <2>3 DEF Has, Flags
  <2>7. \A n \in Numbers \ {0} : Has(y, n, "loaded") /\ ~Has(y, n, "loading")
                                   /\ ~Has(y, n, "changed")
    BY <2>2 DEF Has, Flags
  <2> QED  BY <2>4, <2>5, <2>6, <2>7
<1>11. Memory(y)
  <2>1. \A n \in Numbers :
            /\ Has(y, n, "loaded") => ~Has(y, n, "loading")
            /\ Has(y, n, "changed") => Has(y, n, "loaded") /\ Holds(y, n) # {}
    BY <1>10
  <2>2. y.loading \subseteq 0 .. FileParts - 1  BY <1>2, <1>8 DEF Memory
  <2> QED  BY <1>8, <1>10, <2>1, <2>2 DEF Memory
<1>12. isGoodHeader(y) => /\ 1 \in Numbers \ {0} /\ ~isFullInHeader
                          /\ Holds(s, 0) \cap Positions(1) \subseteq Holds(s, 1)
  <2> SUFFICES ASSUME isGoodHeader(y)
               PROVE  /\ 1 \in Numbers \ {0} /\ ~isFullInHeader
                      /\ Holds(s, 0) \cap Positions(1) \subseteq Holds(s, 1)
    OBVIOUS
  <2>1. ~isFullInHeader /\ 1 \in Numbers  BY <1>1, <1>8, NumbersAre DEF isGoodHeader
  <2>2. ASSUME NEW p \in Holds(s, 0) \cap Positions(1) PROVE p \in Holds(s, 1)
    <3>1. p \in 0 .. kPartsInSlice - 1 /\ p \in Nat  BY <1>1, FileIs DEF Positions
    <3>2. SliceStart(1) = 0  BY FileIs, <1>1 DEF SliceStart
    <3> DEFINE one == 1
    <3>3. one \in Numbers /\ one > 0  BY <2>1
    <3> HIDE DEF one
    <3>4. SliceAt(SliceStart(one) + p) = one  BY <1>1, <3>1, <3>3, SliceAtUnique
    <3>5. SliceStart(1) + p = p /\ p - SliceStart(1) = p  BY <3>1, <3>2
    <3>6. SliceAt(p) = 1  BY <3>4, <3>5 DEF one
    <3> QED  BY <1>5, <2>1, <3>5, <3>6 DEF Undecided
  <2> QED  BY <2>1, <2>2
<1>13. ASSUME ~Evicts PROVE Agrees(y, cache) /\ Absent(y, cache, y.loading)
  <2>1. Agrees(s, cache) /\ Absent(s, cache, s.loading)  BY <1>2, <1>13 DEF Sound
  <2>2. Bare(cache)  BY <1>3, <1>6, <2>1 DEF Agrees
  <2>3. \A n \in Numbers : Kept(y, cache, n) \subseteq Holds(y, n)
    <3> SUFFICES ASSUME NEW n \in Numbers PROVE Kept(y, cache, n) \subseteq Holds(y, n)
      OBVIOUS
    <3>1. CASE n = 1 /\ isGoodHeader(y)
      <4>1. Kept(y, cache, n) = Holds(y, 0) \cap Positions(1)
        BY <1>1, <2>2, <3>1 DEF Kept, Bare
      <4> QED  BY <1>1, <1>8, <1>12, <3>1, <4>1
    <3>2. CASE ~(n = 1 /\ isGoodHeader(y))  BY <2>2, <3>2 DEF Kept, Bare
    <3> QED  BY <3>1, <3>2
  <2>4. TakenIn(y, cache)
    BY <1>1, <1>10, <1>12, <2>2, <2>3 DEF TakenIn, Bare
  <2>5. Agrees(y, cache)
    BY <1>1, <1>10, <2>2, <2>4 DEF Agrees, Bare
  <2>6. Absent(y, cache, y.loading)
    <3> SUFFICES ASSUME NEW p \in s.loading,
                        NEW n, n = IF isFullInHeader THEN 0 ELSE SliceAt(p)
                 PROVE  p - SliceStart(n) \notin Holds(y, n) \cup Kept(y, cache, n)
      BY <1>8 DEF Absent
    <3>1. p - SliceStart(n) \notin Holds(s, n)  BY <2>1 DEF Absent
    <3>2. n \in Numbers
      <4>1. p \in 0 .. FileParts - 1  BY <1>2 DEF Memory
      <4> QED  BY <1>1, <4>1, SliceWhere
    <3> QED  BY <1>8, <2>3, <3>1, <3>2
  <2> QED  BY <2>5, <2>6
<1>14. Sound(y, cache)  BY <1>2, <1>8, <1>9, <1>11, <1>13 DEF Sound
<1>15. AskedOf(y, gets)  BY <1>2, <1>3 DEF AskedOf, Known
<1>16. MemoryInv'  BY <1>1, <1>2, <1>3, <1>14, <1>15, SameFileMemory DEF y
<1> QED  BY <1>3, <1>16 DEF CacheKept, KeptSaved

\* A reader that has done nothing yet.
LEMMA FreshSound ==
    ASSUME file \in Files, NEW y, Placed(y), y.slices = Reader.slices, y.mode = Reader.mode,
           y.loading = {}, ~y.opened, y.broken \subseteq Admitted,
           NEW c,
           ~Evicts => /\ \A n \in Numbers : n > 0 \/ isFullInHeader => DOMAIN c[n].rest = {}
                      /\ DOMAIN c[0].parts = {} => DOMAIN c[0].rest = {}
                      /\ ~UseCache \/ DOMAIN c[0].parts = {} => Bare(c),
           NEW got, got \subseteq {0}
    PROVE  Sound(y, c) /\ AskedOf(y, got)
<1>1. 0 \in Numbers  BY NumbersAre
<1>2. /\ y.mode = IF UseCache THEN "Unknown" ELSE "NoCache"
      /\ \A n \in Numbers : y.slices[n] = IF n = 0 /\ UseCache
                                          THEN [Slice EXCEPT !.flags = {"loading"}] ELSE Slice
  BY DEF Reader
<1>3. /\ DOMAIN Slice.parts = {} /\ Slice.flags = {}
      /\ [Slice EXCEPT !.flags = {"loading"}].flags = {"loading"}
      /\ [Slice EXCEPT !.flags = {"loading"}].parts = Slice.parts
  BY DEF Slice
<1>4. \A n \in Numbers : /\ Holds(y, n) = {}
                         /\ Flags(y, n) = IF n = 0 /\ UseCache THEN {"loading"} ELSE {}
  BY <1>2, <1>3 DEF Holds, Flags
<1>5. \A n \in Numbers : ~Has(y, n, "loaded") /\ ~Has(y, n, "changed")
  <2> SUFFICES ASSUME NEW n \in Numbers PROVE ~Has(y, n, "loaded") /\ ~Has(y, n, "changed")
    OBVIOUS
  <2>1. Flags(y, n) = {"loading"} \/ Flags(y, n) = {}  BY <1>4
  <2> QED  BY <2>1 DEF Has, Flags
<1>6. UseCache \in BOOLEAN /\ ~Known(y)
  <2>1. UseCache \in BOOLEAN  BY SlicesAssumption DEF SlicesAssumption, UseCache
  <2> QED  BY <1>2, <2>1 DEF Known
<1>7. Memory(y)
  <2>1. y.mode = "Unknown" => Undecided(y)  BY <1>1, <1>4, <1>5 DEF Undecided
  <2>2. y.mode = "NoCache" => \A n \in Numbers : Flags(y, n) = {}  BY <1>2, <1>4, <1>6
  <2> QED  BY <1>2, <1>5, <1>6, <2>1, <2>2 DEF Memory
<1>8. ~Evicts => Agrees(y, c) /\ Absent(y, c, y.loading)
  <2>1. ~Evicts => Agrees(y, c)  BY <1>1, <1>2, <1>5, <1>6 DEF Agrees, Known
  <2> QED  BY <2>1 DEF Absent
<1>9. AskedOf(y, got)  BY DEF AskedOf
<1> QED  BY <1>7, <1>8, <1>9 DEF Sound

LEMMA MemoryInvInit == SlicesInit => MemoryInv
<1> SUFFICES ASSUME SlicesInit PROVE MemoryInv  OBVIOUS
<1>1. /\ file \in Files /\ s = Reader /\ gets \subseteq {0}
      /\ cache = [n \in Numbers |-> NoEntry] /\ 0 \in Numbers
  BY NumbersAre DEF SlicesInit
<1>2. Placed(s)  BY <1>1, ReaderPlaced
<1>3. s.loading = {} /\ ~s.opened /\ s.broken = {}  BY <1>1 DEF Reader
<1>4. \A n \in Numbers : DOMAIN cache[n].parts = {} /\ DOMAIN cache[n].rest = {}
  <2>1. DOMAIN NoEntry.parts = {} /\ DOMAIN NoEntry.rest = {}  BY DEF NoEntry
  <2> HIDE DEF NoEntry
  <2> QED  BY <1>1, <2>1
<1>5. Sound(s, cache) /\ AskedOf(s, gets)
  BY <1>1, <1>2, <1>3, <1>4, FreshSound DEF Bare
<1>6. \A n \in Numbers : Readable(cache[n], n)
  <2> HIDE DEF NoEntry
  <2> QED  BY <1>1, NothingReadable
<1> QED  BY <1>5, <1>6 DEF MemoryInv

\* What a reader leaves in the cache.
LEMMA AllSaved ==
    ASSUME file \in Files, NEW x, NEW c, Sound(x, c), Stored(c),
           \A n \in Numbers : Readable(c[n], n), NEW r, r = unloadAll(x, c)
    PROVE  /\ r.broken \subseteq x.broken \cup {"unloadFirst"}
           /\ \A n \in Numbers : Readable(r.c[n], n)
           /\ ~Evicts => /\ KeptSaved(c, r.c)
                         /\ \A n \in Numbers : n > 0 \/ isFullInHeader => DOMAIN r.c[n].rest = {}
                         /\ DOMAIN r.c[0].parts = {} => DOMAIN r.c[0].rest = {}
                         /\ ~UseCache \/ DOMAIN r.c[0].parts = {} => Bare(r.c)
<1> DEFINE shared == IF isGoodHeader(x) THEN {0, 1} ELSE {}
           changed == {n \in Numbers : Has(x, n, "changed")}
           written == IF x.mode \in {"Unknown", "NoCache"} THEN {}
                      ELSE (changed \ shared) \cup IF changed \cap shared # {} THEN {0} ELSE {}
           w(n) == serializeAndUnloadSlice(x, n)
           d == [n \in Numbers |-> IF n \in written THEN w(n).e ELSE c[n]]
           broken == x.broken \cup UNION {w(n).x.broken : n \in written}
<1>1. r = [c |-> d, broken |-> broken]  BY DEF unloadAll
<1>2. /\ Placed(x) /\ Memory(x) /\ 0 \in Numbers /\ Numbers \subseteq Nat
      /\ x.mode \in {"Unknown", "NoCache", "Full", "Good", "Small"}
      /\ isGoodHeader(x) => 1 \in Numbers /\ ~isFullInHeader
  BY NumbersAre DEF Sound, Placed, Memory, isGoodHeader
<1>3. /\ ~Known(x) => written = {}
      /\ Known(x) => x.mode \notin {"Unknown", "NoCache"}
  BY <1>2 DEF Known
<1>4. ASSUME NEW n \in written
      PROVE  /\ n \in Numbers /\ Known(x) /\ Holds(x, n) # {}
             /\ n = 0 /\ isGoodHeader(x) => Has(x, 0, "changed") \/ Has(x, 1, "changed")
             /\ ~(n = 0 /\ isGoodHeader(x)) => /\ Has(x, n, "changed")
                                               /\ ~(isGoodHeader(x) /\ n <= 1)
  <2>1. Known(x) /\ x.mode \notin {"Unknown", "NoCache"}  BY <1>3, <1>4
  <2>2. n \in (changed \ shared) \cup IF changed \cap shared # {} THEN {0} ELSE {}
    BY <1>4, <2>1
  <2>3. CASE n \in changed \ shared
    <3>1. n \in Numbers /\ Has(x, n, "changed") /\ (isGoodHeader(x) => n \notin {0, 1})
      BY <2>3
    <3>2. Holds(x, n) # {}  BY <1>2, <3>1 DEF Memory
    <3>3. isGoodHeader(x) => ~(n <= 1)
      <4>1. n \in Nat  BY <1>2, <3>1
      <4> QED  BY <3>1, <4>1
    <3> QED  BY <2>1, <3>1, <3>2, <3>3
  <2>4. CASE n \notin changed \ shared
    <3>1. n = 0 /\ changed \cap shared # {}  BY <2>2, <2>4
    <3>2. isGoodHeader(x) /\ (Has(x, 0, "changed") \/ Has(x, 1, "changed"))  BY <3>1
    <3>3. Holds(x, 0) # {}  BY <1>2, <2>1 DEF Memory
    <3> QED  BY <1>2, <2>1, <3>1, <3>2, <3>3
  <2> QED  BY <2>3, <2>4
<1>5. ASSUME Known(x), Has(x, 0, "changed") PROVE 0 \in written
  <2>1. x.mode \notin {"Unknown", "NoCache"} /\ 0 \in changed  BY <1>2, <1>3, <1>5
  <2> HIDE DEF changed
  <2> QED  BY <2>1
<1>6. ASSUME NEW n \in written, n = 0 /\ isGoodHeader(x)
      PROVE  /\ DOMAIN w(n).e.parts = Holds(x, 0)
             /\ DOMAIN w(n).e.rest = Holds(x, 1) \ Holds(x, 0)
             /\ Readable(w(n).e, n) /\ w(n).x.broken \subseteq x.broken \cup {"unloadFirst"}
  <2> DEFINE v == w(n)
  <2>1. v = serializeGood(x)  BY <1>6 DEF serializeAndUnloadSlice
  <2>2. Holds(x, 0) # {}  BY <1>4, <1>6
  <2> HIDE DEF v, written
  <2>3. /\ DOMAIN v.e.parts = Holds(x, 0) /\ DOMAIN v.e.rest = Holds(x, 1) \ Holds(x, 0)
        /\ Readable(v.e, 0)
        /\ v.x.broken \subseteq x.broken \cup {"unloadFirst"}
    BY <1>2, <1>6, <2>1, <2>2, GoodEntry
  <2> QED  BY <1>6, <2>3 DEF v
<1>7. ASSUME NEW n \in written, ~(n = 0 /\ isGoodHeader(x))
      PROVE  /\ DOMAIN w(n).e.parts = Holds(x, n) /\ DOMAIN w(n).e.rest = {}
             /\ Readable(w(n).e, n) /\ w(n).x.broken = x.broken
  <2>1. n \in Numbers /\ Holds(x, n) # {} /\ ~(isGoodHeader(x) /\ n <= 1)  BY <1>4, <1>7
  <2> HIDE DEF written
  <2> QED  BY <1>2, <2>1, SliceEntry
<1> HIDE DEF written, w, changed, shared
<1>8. broken \subseteq x.broken \cup {"unloadFirst"}  BY <1>6, <1>7
<1>9. \A n \in Numbers : Readable(d[n], n)
  <2> SUFFICES ASSUME NEW n \in Numbers PROVE Readable(d[n], n)  OBVIOUS
  <2>1. d[n] = IF n \in written THEN w(n).e ELSE c[n]  OBVIOUS
  <2> HIDE DEF d
  <2> QED  BY <1>6, <1>7, <2>1
<1>10. \A n \in Numbers : d[n] = IF n \in written THEN w(n).e ELSE c[n]  OBVIOUS
<1> HIDE DEF d
<1>11. ASSUME ~Evicts
       PROVE  /\ KeptSaved(c, d)
              /\ \A n \in Numbers : n > 0 \/ isFullInHeader => DOMAIN d[n].rest = {}
              /\ DOMAIN d[0].parts = {} => DOMAIN d[0].rest = {}
              /\ ~UseCache \/ DOMAIN d[0].parts = {} => Bare(d)
  <2>1. Agrees(x, c)  BY <1>11 DEF Sound
  <2>2. KeptSaved(c, d)
    <3> SUFFICES ASSUME NEW n \in Numbers
                 PROVE  DOMAIN c[n].parts \cup DOMAIN c[n].rest
                        \subseteq DOMAIN d[n].parts \cup DOMAIN d[n].rest
      BY DEF KeptSaved
    <3>1. CASE n \notin written  BY <1>10, <3>1
    <3>2. CASE n \in written
      <4>1. TakenIn(x, c) /\ d[n] = w(n).e  BY <1>4, <1>10, <2>1, <3>2 DEF Agrees
      <4>2. CASE n = 0 /\ isGoodHeader(x)
        <5>1. DOMAIN c[0].parts \subseteq Holds(x, 0)  BY <4>1 DEF TakenIn
        <5>2. DOMAIN c[0].rest \subseteq Holds(x, 1)
          <6>1. CASE Has(x, 1, "loaded")
            <7>1. Kept(x, c, 1) \subseteq Holds(x, 1)  BY <1>2, <4>1, <4>2, <6>1 DEF TakenIn
            <7> QED  BY <4>2, <7>1 DEF Kept
          <6>2. CASE ~Has(x, 1, "loaded")
            <7>1. ~Has(x, 1, "changed")  BY <1>2, <4>2, <6>2 DEF Memory
            <7>2. Has(x, 0, "changed")  BY <1>4, <3>2, <4>2, <7>1
            <7>3. DOMAIN c[0].parts = {}  BY <4>1, <4>2, <7>2 DEF TakenIn, isGoodHeader
            <7> QED  BY <2>1, <7>3 DEF Agrees
          <6> QED  BY <6>1, <6>2
        <5> QED  BY <1>6, <3>2, <4>1, <4>2, <5>1, <5>2
      <4>3. CASE n = 0 /\ ~isGoodHeader(x)
        <5>1. DOMAIN c[0].parts \subseteq Holds(x, 0)  BY <4>1 DEF TakenIn
        <5>2. DOMAIN c[0].rest = {}
          <6>1. Has(x, 0, "changed")  BY <1>4, <3>2, <4>3
          <6>2. x.mode # "Full" => DOMAIN c[0].parts = {}  BY <4>1, <6>1 DEF TakenIn
          <6>3. x.mode = "Full" => isFullInHeader  BY <1>2 DEF Memory
          <6> QED  BY <1>2, <2>1, <6>2, <6>3 DEF Agrees
        <5> QED  BY <1>7, <3>2, <4>1, <4>3, <5>1, <5>2
      <4>4. CASE n # 0
        <5>1. Has(x, n, "loaded") /\ ~(n = 1 /\ isGoodHeader(x))
          BY <1>2, <1>4, <3>2, <4>4 DEF Memory
        <5>2. DOMAIN c[n].parts \subseteq Holds(x, n)
          BY <4>1, <4>4, <5>1 DEF TakenIn, Kept
        <5>3. DOMAIN c[n].rest = {}
          <6>1. n > 0  BY <1>2, <4>4
          <6> QED  BY <2>1, <6>1 DEF Agrees
        <5> QED  BY <1>7, <3>2, <4>1, <4>4, <5>2, <5>3
      <4> QED  BY <4>2, <4>3, <4>4
    <3> QED  BY <3>1, <3>2
  <2>3. ASSUME NEW n \in Numbers, n > 0 \/ isFullInHeader PROVE DOMAIN d[n].rest = {}
    <3>1. CASE n \notin written  BY <1>10, <2>1, <2>3, <3>1 DEF Agrees
    <3>2. CASE n \in written
      <4>1. ~(n = 0 /\ isGoodHeader(x))  BY <1>2, <2>3
      <4> QED  BY <1>7, <1>10, <3>2, <4>1
    <3> QED  BY <3>1, <3>2
  <2>4. 0 \in written => DOMAIN d[0].parts # {}
    <3> SUFFICES ASSUME 0 \in written PROVE DOMAIN d[0].parts # {}  OBVIOUS
    <3>1. Holds(x, 0) # {}  BY <1>4
    <3>2. DOMAIN w(0).e.parts = Holds(x, 0)  BY <1>6, <1>7
    <3> QED  BY <1>2, <1>10, <3>1, <3>2
  <2>5. 0 \notin written => d[0] = c[0]  BY <1>2, <1>10
  <2>6. DOMAIN d[0].parts = {} => DOMAIN d[0].rest = {}
    BY <2>1, <2>4, <2>5 DEF Agrees
  <2>7. ASSUME ~UseCache \/ DOMAIN d[0].parts = {} PROVE Bare(d)
    <3>1. CASE Known(x)
      <4>1. UseCache  BY <1>2, <1>3, <3>1 DEF Memory
      <4>2. 0 \notin written /\ DOMAIN c[0].parts = {}  BY <2>4, <2>5, <2>7, <4>1
      <4>3. Has(x, 0, "changed")  BY <2>1, <3>1, <4>2 DEF Agrees, TakenIn
      <4> QED  BY <1>5, <3>1, <4>2, <4>3
    <3>2. CASE ~Known(x)
      <4>1. \A n \in Numbers : d[n] = c[n]  BY <1>3, <1>10, <3>2
      <4>2. Bare(c)
        <5>1. CASE x.mode = "NoCache"  BY <2>1, <5>1 DEF Agrees
        <5>2. CASE x.mode = "Unknown"
          <6>1. UseCache  BY <1>2, <5>2 DEF Memory
          <6>2. DOMAIN c[0].parts = {}  BY <1>2, <2>7, <4>1, <6>1
          <6> QED  BY <2>1, <5>2, <6>2 DEF Agrees
        <5> QED  BY <1>2, <3>2, <5>1, <5>2 DEF Known
      <4> QED  BY <4>1, <4>2 DEF Bare
    <3> QED  BY <3>1, <3>2
  <2> QED  BY <2>2, <2>3, <2>6, <2>7
<1> HIDE DEF broken
<1>12. r.c = d /\ r.broken = broken  BY <1>1
<1> QED  BY <1>8, <1>9, <1>11, <1>12

LEMMA ReopenSound ==
    ASSUME SlicesInv, MemoryInv, Reopen
    PROVE  MemoryInv' /\ CacheKept
<1>1. file \in Files /\ Placed(s) /\ Stored(cache)  BY DEF SlicesInv
<1>2. Sound(s, cache) /\ \A n \in Numbers : Readable(cache[n], n)
  BY DEF MemoryInv
<1> DEFINE r == unloadAll(s, cache)
           y == [Reader EXCEPT !.broken = r.broken]
           d == r.c
<1>3. /\ file' = file /\ cache' = d /\ s' = y /\ gets' \subseteq {0} /\ s.broken = {}
  BY DEF Reopen
<1>4. /\ r.broken \subseteq s.broken \cup {"unloadFirst"}
      /\ \A n \in Numbers : Readable(d[n], n)
      /\ ~Evicts => /\ KeptSaved(cache, d)
                    /\ \A n \in Numbers : n > 0 \/ isFullInHeader => DOMAIN d[n].rest = {}
                    /\ DOMAIN d[0].parts = {} => DOMAIN d[0].rest = {}
                    /\ ~UseCache \/ DOMAIN d[0].parts = {} => Bare(d)
  <2> DEFINE q == r
  <2>1. q = unloadAll(s, cache)  OBVIOUS
  <2> HIDE DEF q
  <2>2. /\ q.broken \subseteq s.broken \cup {"unloadFirst"}
        /\ \A n \in Numbers : Readable(q.c[n], n)
        /\ ~Evicts => /\ KeptSaved(cache, q.c)
                      /\ \A n \in Numbers : n > 0 \/ isFullInHeader => DOMAIN q.c[n].rest = {}
                      /\ DOMAIN q.c[0].parts = {} => DOMAIN q.c[0].rest = {}
                      /\ ~UseCache \/ DOMAIN q.c[0].parts = {} => Bare(q.c)
    BY <1>1, <1>2, <2>1, AllSaved
  <2> QED  BY <2>2 DEF q
<1> HIDE DEF r, d
<1>5. Placed(Reader)  BY ReaderPlaced
<1>6. Reader.loading = {} /\ ~Reader.opened  BY DEF Reader
<1>7. /\ y.slices = Reader.slices /\ y.mode = Reader.mode /\ y.used = Reader.used
      /\ y.loading = {} /\ ~y.opened /\ y.broken = r.broken /\ Shaped(y)
  BY <1>5, <1>6 DEF Placed, Shaped
<1>8. Placed(y)  BY <1>5, <1>7, OtherFieldsKeep
<1>9. y.broken \subseteq Admitted  BY <1>3, <1>4, <1>7 DEF Admitted
<1> HIDE DEF y
<1>10. Sound(y, d) /\ AskedOf(y, gets')
  BY <1>1, <1>3, <1>4, <1>7, <1>8, <1>9, FreshSound
<1>11. MemoryInv'  BY <1>1, <1>3, <1>4, <1>10, SameFileMemory
<1> QED  BY <1>3, <1>4, <1>11 DEF CacheKept

LEMMA MemoryInvNext ==
    ASSUME SlicesInv, MemoryInv, [SlicesNext]_slicesVars
    PROVE  MemoryInv' /\ CacheKept
<1>1. file \in Files /\ Stored(cache)  BY DEF SlicesInv
<1>2. /\ Sound(s, cache) /\ AskedOf(s, gets)
      /\ \A n \in Numbers : Readable(cache[n], n)
  BY DEF MemoryInv
<1>3. KeptSaved(cache, cache)  BY DEF KeptSaved
<1>4. ASSUME NEW r \in Reads, Fill(r[1], r[2]) PROVE MemoryInv' /\ CacheKept
  BY <1>4, FillStepSound
<1>5. ASSUME NEW p \in 0 .. FileParts - 1, PartLoaded(p) PROVE MemoryInv' /\ CacheKept
  <2>1. file' = file /\ s' = s /\ gets' = gets /\ cache' = cache
    BY <1>5 DEF PartLoaded
  <2>2. MemoryInv'  BY <1>1, <1>2, <2>1, SameFileMemory
  <2> QED  BY <1>3, <2>1, <2>2 DEF CacheKept
<1>6. ASSUME NEW n \in Numbers, Evict(n) PROVE MemoryInv' /\ CacheKept
  <2>1. /\ file' = file /\ s' = s /\ gets' = gets /\ Evicts
        /\ cache' = [cache EXCEPT ![n] = NoEntry]
    BY <1>6 DEF Evict
  <2> HIDE DEF NoEntry
  <2>2. \A k \in Numbers : cache'[k] = IF k = n THEN NoEntry ELSE cache[k]
    BY <1>1, <2>1 DEF Stored
  <2>3. \A k \in Numbers : Readable(cache'[k], k)  BY <1>1, <1>2, <2>2, NothingReadable
  <2>4. Sound(s', cache')  BY <1>2, <2>1 DEF Sound
  <2>5. MemoryInv'  BY <1>1, <1>2, <2>1, <2>3, <2>4, SameFileMemory
  <2> QED  BY <2>1, <2>5 DEF CacheKept
<1>7. ASSUME UNCHANGED slicesVars PROVE MemoryInv' /\ CacheKept
  <2>1. file' = file /\ s' = s /\ gets' = gets /\ cache' = cache  BY <1>7 DEF slicesVars
  <2>2. MemoryInv'  BY <1>1, <1>2, <2>1, SameFileMemory
  <2> QED  BY <1>3, <2>1, <2>2 DEF CacheKept
<1> QED
  BY <1>4, <1>5, <1>6, <1>7, HeaderDoneStepSound, ReopenSound DEF SlicesNext

\* The assertions on slices hold, whatever the file and the reads: no part is added
\* twice while the cache forgets nothing, the header is done before a slice was
\* looked up, and no empty slice is written.  That the first slice is there when a
\* good header is written (serializeAndUnloadSlice) is excluded: it may fail.
THEOREM AssertionsOfSlicesHold == SlicesSpec => []AssertionsHold
<1>1. MemoryInv => AssertionsHold
  BY DEF MemoryInv, Sound, Admitted, AssertionsHold
<1>2. SlicesInv /\ MemoryInv /\ [SlicesNext]_slicesVars => MemoryInv'
  BY MemoryInvNext
<1> QED  BY <1>1, <1>2, SlicesInvInit, SlicesInvNext, MemoryInvInit, PTL DEF SlicesSpec

\* A part that is waited for is in no slice, and the cache cannot bring it either:
\* it was asked for when all that the cache has of its slice was known.
THEOREM LoadingPartsAreMissing == SlicesSpec => []LoadingIsMissing
<1>1. ASSUME SlicesInv, MemoryInv PROVE LoadingIsMissing
  <2> SUFFICES ASSUME ~Evicts, NEW p \in s.loading
               PROVE  IF isFullInHeader THEN p \notin Holds(s, 0)
                      ELSE p - SliceStart(SliceAt(p)) \notin Holds(s, SliceAt(p))
    BY DEF LoadingIsMissing
  <2>1. Absent(s, cache, s.loading) /\ Memory(s)  BY <1>1 DEF MemoryInv, Sound
  <2>2. CASE isFullInHeader
    <3>1. p \in 0 .. FileParts - 1 /\ SliceStart(0) = 0
      BY <2>1 DEF Memory, SliceStart
    <3>2. p - SliceStart(0) = p  BY <3>1
    <3>3. p - SliceStart(0) \notin Holds(s, 0)  BY <2>1, <2>2 DEF Absent
    <3> QED  BY <2>2, <3>2, <3>3
  <2>3. CASE ~isFullInHeader  BY <2>1, <2>3 DEF Absent
  <2> QED  BY <2>2, <2>3
<1>2. SlicesInv /\ MemoryInv /\ [SlicesNext]_slicesVars => MemoryInv'
  BY MemoryInvNext
<1>3. SlicesInv /\ MemoryInv => LoadingIsMissing  BY <1>1
<1> QED  BY <1>2, <1>3, SlicesInvInit, SlicesInvNext, MemoryInvInit, PTL DEF SlicesSpec

\* Nothing that was saved in an entry is lost when it is written again, because a
\* slice is written only after what its entry has was taken in: of a good header,
\* the first slice and the header share one.
THEOREM SavedPartsAreKept == SlicesSpec => SavedIsKept
<1>1. SlicesInv /\ MemoryInv /\ [SlicesNext]_slicesVars =>
          MemoryInv' /\ (Evicts \/ \A n \in Numbers :
                            DOMAIN cache[n].parts \cup DOMAIN cache[n].rest
                            \subseteq DOMAIN cache'[n].parts \cup DOMAIN cache'[n].rest)
  BY MemoryInvNext DEF CacheKept, KeptSaved
<1> QED  BY <1>1, SlicesInvInit, SlicesInvNext, MemoryInvInit, PTL DEF SlicesSpec, SavedIsKept
=============================================================================
