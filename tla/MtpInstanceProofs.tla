-------------------------- MODULE MtpInstanceProofs --------------------------
(***************************************************************************)
(* Proofs about MTP::Instance, for every set of requests and datacenters.  *)
(* A request moves between the sessions, the queue of the delayed ones and *)
(* the queues of those that wait for an authorization; the queues also     *)
(* keep requests that were cancelled.  The inductive invariant IInv says   *)
(* of a request that is still one in which of them it is, and that an      *)
(* authorization is under way wherever somebody waits for it, unless it    *)
(* was refused.                                                            *)
(***************************************************************************)
EXTENDS MtpInstance, FiniteSetTheorems, WellFoundedInduction, TLAPS

Pairs == Reqs \X Nat

Ids(q) == {q[i][1] : i \in DOMAIN q}

\* The queue of the delayed: in the order of the times, and no request that
\* is still one is in it twice.
Ordered(q) == \A i, j \in DOMAIN q : i < j => q[i][2] <= q[j][2]
Once(q, live) ==
    \A i, j \in DOMAIN q : q[i][1] = q[j][1] /\ q[i][1] \in live => i = j

Types ==
    /\ parser = requests /\ requests \subseteq hist.sent
    /\ hist \in [sent : SUBSET Reqs, refused : SUBSET Dcs, late : SUBSET Reqs]
    /\ flight \subseteq hist.sent
    /\ delayed \in Seq(Pairs) /\ Ids(delayed) \subseteq hist.sent
    /\ dc \in [Reqs -> Dcs] /\ delays \in [Reqs -> Nat] /\ now \in Nat
    /\ waiters \in [Dcs -> Seq(Reqs)]
    /\ \A c \in Dcs : ToSet(waiters[c]) \subseteq hist.sent
    /\ auth \in [Dcs -> {"none", "export", "import"}]

\* A request waits for the datacenter it goes to.
WaitsThere ==
    \A r \in requests, c \in Dcs : r \in ToSet(waiters[c]) => dc[r] = c

\* Who waits first starts the export.
Exports ==
    \A c \in Dcs : waiters[c] # <<>> => auth[c] # "none" \/ c \in hist.refused

InTime ==
    /\ Ordered(delayed)
    /\ timer = IF delayed = <<>> THEN 0 ELSE delayed[1][2]

Waiting(r) == \E c \in Dcs : r \in ToSet(waiters[c])

\* What is still a request is in one place ...
Placed ==
    \A r \in requests :
        /\ r \in flight => r \notin Ids(delayed) /\ ~Waiting(r)
        /\ r \in Ids(delayed) => ~Waiting(r)

\* ... unless an authorization was refused or its predecessor was faster.
Kept ==
    \A r \in requests :
        \/ r \in flight \/ r \in Ids(delayed)
        \/ \E c \in Dcs : r \in ToSet(waiters[c]) /\ auth[c] # "none"
        \/ dc[r] \in hist.refused
        \/ r \in hist.late

IInv ==
    /\ Types
    /\ InTime /\ Once(delayed, requests)
    /\ Placed
    /\ WaitsThere /\ Exports
    /\ Kept
-----------------------------------------------------------------------------
(* Sequences and minima. *)

LEMMA MinOf ==
    ASSUME NEW S \in SUBSET Nat, S # {}
    PROVE  Min(S) \in S /\ \A y \in S : Min(S) <= y
<1> DEFINE R == {p \in Nat \X Nat : p[1] < p[2]}
<1>1. OpToRel(<, Nat) = R  BY Zenon DEF OpToRel
<1>2. IsWellFoundedOn(R, Nat)  BY <1>1, NatLessThanWellFounded
<1>3. \A y, z \in Nat : y < z => <<y, z>> \in R  OBVIOUS
<1> HIDE DEF R
<1>4. PICK x \in S : \A y \in S : ~(<<y, x>> \in R)  BY <1>2, WFMin
<1>5. ASSUME NEW y \in S  PROVE x <= y
  <2>1. x \in Nat /\ y \in Nat  OBVIOUS
  <2>2. ~(y < x)  BY <1>3, <1>4, <2>1
  <2> QED  BY <2>1, <2>2
<1> QED  BY <1>5 DEF Min

\* An element inserted into a sequence moves the ones behind it.
IsInserted(t, s, i, e) ==
    /\ Len(t) = Len(s) + 1
    /\ \A k \in 1 .. i - 1 : t[k] = s[k]
    /\ t[i] = e
    /\ \A k \in i + 1 .. Len(s) + 1 : t[k] = s[k - 1]

LEMMA Inserted ==
    ASSUME NEW S, NEW s \in Seq(S), NEW i \in 1 .. Len(s) + 1, NEW e \in S,
           NEW t, t = InsertAt(s, i, e)
    PROVE  t \in Seq(S) /\ IsInserted(t, s, i, e)
<1> DEFINE a == SubSeq(s, 1, i - 1)
           b == SubSeq(s, i, Len(s))
<1>1. a \in Seq(S) /\ Len(a) = i - 1 /\ \A k \in 1 .. i - 1 : a[k] = s[k]
  OBVIOUS
<1>2. b \in Seq(S) /\ Len(b) = Len(s) - i + 1
      /\ \A k \in 1 .. Len(s) - i + 1 : b[k] = s[k + i - 1]
  OBVIOUS
<1>3. t = a \o <<e>> \o b  BY DEF InsertAt
<1>4. <<e>> \in Seq(S) /\ Len(<<e>>) = 1 /\ <<e>>[1] = e  OBVIOUS
<1> DEFINE c == a \o <<e>>
<1> HIDE DEF a, b
<1>5. c \in Seq(S) /\ Len(c) = i /\ c[i] = e /\ \A k \in 1 .. i - 1 : c[k] = s[k]
  BY <1>1, <1>4
<1>6. t = c \o b  BY <1>3
<1> HIDE DEF c
<1>7. t \in Seq(S) /\ Len(t) = Len(s) + 1  BY <1>2, <1>5, <1>6
<1>8. \A k \in 1 .. i : t[k] = c[k]  BY <1>2, <1>5, <1>6
<1>9. ASSUME NEW k \in i + 1 .. Len(s) + 1  PROVE t[k] = s[k - 1]
  <2>1. t[k] = b[k - i]  BY <1>2, <1>5, <1>6
  <2>2. k - i \in 1 .. Len(s) - i + 1 /\ k - i + i - 1 = k - 1  OBVIOUS
  <2>3. b[k - i] = s[k - i + i - 1]  BY <1>2, <2>2
  <2> QED  BY <2>1, <2>2, <2>3
<1> QED  BY <1>5, <1>7, <1>8, <1>9 DEF IsInserted

\* A set of positions that contains all before each of its members is the
\* beginning of the sequence.
LEMMA Beginning ==
    ASSUME NEW n \in Nat, NEW D \in SUBSET (1 .. n),
           \A i \in D : 1 .. i \subseteq D
    PROVE  Cardinality(D) \in 0 .. n /\ D = 1 .. Cardinality(D)
<1> DEFINE k == Cardinality(D)
<1>1. \A m \in Nat : IsFiniteSet(1 .. m) /\ Cardinality(1 .. m) = m
  <2> TAKE m \in Nat
  <2>1. 1 \in Int /\ m \in Int  OBVIOUS
  <2>2. /\ IsFiniteSet(1 .. m)
        /\ Cardinality(1 .. m) = IF 1 > m THEN 0 ELSE m - 1 + 1
    BY <2>1, FS_Interval
  <2> QED  BY <2>2
<1>2. IsFiniteSet(D) /\ k \in Nat /\ k <= n
  <2>1. IsFiniteSet(1 .. n) /\ Cardinality(1 .. n) = n  BY <1>1
  <2>2. IsFiniteSet(D) /\ Cardinality(D) <= Cardinality(1 .. n)
    BY <2>1, FS_Subset
  <2> QED  BY <2>1, <2>2, FS_CardinalityType
<1>3. ASSUME NEW i \in D  PROVE i <= k
  <2>1. i \in Nat /\ 1 .. i \in SUBSET D  OBVIOUS
  <2>2. Cardinality(1 .. i) <= k  BY <1>2, <2>1, FS_Subset
  <2> QED  BY <1>1, <2>1, <2>2
<1>4. D \in SUBSET (1 .. k)
  <2> HIDE DEF k
  <2> QED  BY <1>2, <1>3
<1>5. IsFiniteSet(1 .. k) /\ Cardinality(1 .. k) = k  BY <1>1, <1>2
<1>6. D = 1 .. k  BY <1>4, <1>5, FS_Subset
<1> QED  BY <1>2, <1>6
-----------------------------------------------------------------------------
(* The queue of the delayed requests. *)

\* A request joins the queue where it does not break the order of the times.
LEMMA InsertKeeps ==
    ASSUME NEW q \in Seq(Pairs), Ordered(q), NEW live, Once(q, live),
           NEW i \in 1 .. Len(q) + 1, NEW e \in Pairs, e[1] \notin Ids(q),
           \A k \in 1 .. i - 1 : q[k][2] <= e[2],
           \A k \in i .. Len(q) : e[2] <= q[k][2],
           NEW t, t = InsertAt(q, i, e)
    PROVE  /\ t \in Seq(Pairs) /\ Ordered(t) /\ Once(t, live)
           /\ Ids(t) = Ids(q) \cup {e[1]}
<1>1. /\ t \in Seq(Pairs) /\ Len(t) = Len(q) + 1
      /\ \A k \in 1 .. i - 1 : t[k] = q[k]
      /\ t[i] = e
      /\ \A k \in i + 1 .. Len(q) + 1 : t[k] = q[k - 1]
  <2>1. t \in Seq(Pairs) /\ IsInserted(t, q, i, e)  BY Inserted
  <2> QED  BY <2>1 DEF IsInserted
<1>2. DOMAIN q = 1 .. Len(q) /\ DOMAIN t = 1 .. Len(q) + 1 /\ Len(q) \in Nat
  BY <1>1
<1>3. \A k \in 1 .. Len(q) : q[k][2] \in Nat  BY DEF Pairs
<1>4. e[2] \in Nat  BY DEF Pairs
<1>5. Ordered(t)
  <2> SUFFICES ASSUME NEW j \in 1 .. Len(q) + 1, NEW k \in 1 .. Len(q) + 1, j < k
               PROVE  t[j][2] <= t[k][2]
    BY <1>2 DEF Ordered
  <2>1. CASE k < i
    <3>1. j \in 1 .. i - 1 /\ k \in 1 .. i - 1 /\ j \in DOMAIN q /\ k \in DOMAIN q
      BY <1>2, <2>1
    <3> QED  BY <1>1, <3>1 DEF Ordered
  <2>2. CASE k = i
    <3>1. j \in 1 .. i - 1  BY <2>2
    <3> QED  BY <1>1, <2>2, <3>1
  <2>3. CASE k > i /\ j < i
    <3>1. j \in 1 .. i - 1 /\ k \in i + 1 .. Len(q) + 1
          /\ k - 1 \in DOMAIN q /\ j \in DOMAIN q /\ j < k - 1
      BY <1>2, <2>3
    <3> QED  BY <1>1, <3>1 DEF Ordered
  <2>4. CASE k > i /\ j = i
    <3>1. k \in i + 1 .. Len(q) + 1 /\ k - 1 \in i .. Len(q)  BY <2>4
    <3> QED  BY <1>1, <2>4, <3>1
  <2>5. CASE j > i
    <3>1. /\ j \in i + 1 .. Len(q) + 1 /\ k \in i + 1 .. Len(q) + 1
          /\ j - 1 \in DOMAIN q /\ k - 1 \in DOMAIN q /\ j - 1 < k - 1
      BY <1>2, <2>5
    <3> QED  BY <1>1, <3>1 DEF Ordered
  <2> QED  BY <2>1, <2>2, <2>3, <2>4, <2>5
<1> DEFINE at(k) == IF k < i THEN k ELSE k - 1
<1>6. ASSUME NEW k \in DOMAIN t, k # i
      PROVE  at(k) \in DOMAIN q /\ t[k] = q[at(k)]
  <2>1. CASE k < i  BY <1>1, <1>2, <2>1
  <2>2. CASE ~(k < i)
    <3>1. k \in i + 1 .. Len(q) + 1  BY <1>2, <1>6, <2>2
    <3> QED  BY <1>1, <1>2, <2>2, <3>1
  <2> QED  BY <2>1, <2>2
<1>7. ASSUME NEW j \in DOMAIN t, NEW k \in DOMAIN t, j # i, k # i, at(j) = at(k)
      PROVE  j = k
  BY <1>2, <1>7
<1> HIDE DEF at
<1>8. Once(t, live)
  <2> SUFFICES ASSUME NEW j \in DOMAIN t, NEW k \in DOMAIN t,
                      t[j][1] = t[k][1], t[j][1] \in live
               PROVE  j = k
    BY DEF Once
  <2>1. CASE j # i /\ k # i
    <3>1. at(j) = at(k)  BY <1>6, <2>1 DEF Once
    <3> QED  BY <1>7, <2>1, <3>1
  <2>2. CASE j = i /\ k # i  BY <1>1, <1>6, <2>2 DEF Ids
  <2>3. CASE j # i /\ k = i  BY <1>1, <1>6, <2>3 DEF Ids
  <2> QED  BY <2>1, <2>2, <2>3
<1>9. Ids(t) = Ids(q) \cup {e[1]}
  <2>1. ASSUME NEW k \in DOMAIN t  PROVE t[k][1] \in Ids(q) \cup {e[1]}
    <3>1. CASE k = i  BY <1>1, <3>1
    <3>2. CASE k # i  BY <1>6, <3>2 DEF Ids
    <3> QED  BY <3>1, <3>2
  <2>2. ASSUME NEW k \in DOMAIN q  PROVE q[k][1] \in Ids(t)
    <3>1. CASE k < i
      <4>1. k \in DOMAIN t /\ t[k] = q[k]  BY <1>1, <1>2, <3>1
      <4> QED  BY <4>1 DEF Ids
    <3>2. CASE ~(k < i)
      <4>1. k + 1 \in i + 1 .. Len(q) + 1 /\ k + 1 \in DOMAIN t /\ k + 1 - 1 = k
        BY <1>2, <3>2
      <4>2. t[k + 1] = q[k]  BY <1>1, <4>1
      <4> QED  BY <4>1, <4>2 DEF Ids
    <3> QED  BY <3>1, <3>2
  <2>3. e[1] \in Ids(t)  BY <1>1, <1>2 DEF Ids
  <2> QED  BY <2>1, <2>2, <2>3 DEF Ids
<1> QED  BY <1>1, <1>5, <1>8, <1>9

\* What is due is a beginning of the queue, and the rest follows it.
LEMMA DueAndRest ==
    ASSUME NEW q \in Seq(Pairs)
    PROVE  \E k \in 0 .. Len(q) :
              /\ Due(q) = 1 .. k
              /\ Rest(q) \in Seq(Pairs) /\ Len(Rest(q)) = Len(q) - k
              /\ \A j \in 1 .. Len(q) - k : Rest(q)[j] = q[j + k]
<1> DEFINE D == Due(q)
           k == Cardinality(D)
<1>1. D \in SUBSET (1 .. Len(q)) /\ Len(q) \in Nat  BY DEF Due
<1>2. \A i \in D : 1 .. i \subseteq D  BY DEF Due
<1> HIDE DEF D
<1>3. k \in 0 .. Len(q) /\ D = 1 .. k  BY <1>1, <1>2, Beginning
<1>4. Rest(q) = SubSeq(q, k + 1, Len(q))  BY DEF Rest, D
<1> HIDE DEF k
<1>5. /\ Rest(q) \in Seq(Pairs) /\ Len(Rest(q)) = Len(q) - k
      /\ \A j \in 1 .. Len(q) - k : Rest(q)[j] = q[j + k]
  <2>1. k + 1 \in 1 .. Len(q) + 1  BY <1>1, <1>3
  <2> QED  BY <1>3, <1>4, <2>1
<1> QED  BY <1>3, <1>5 DEF D

\* checkDelayedRequests: who is due is sent if it still is a request, the
\* others stay, and the timer is set for the first of them.
LEMMA CheckDelayed ==
    ASSUME NEW q \in Seq(Pairs), Ordered(q), Once(q, requests),
           NEW others, checkDelayed(q, others)
    PROVE  /\ delayed' \in Seq(Pairs) /\ Ordered(delayed')
           /\ Once(delayed', requests) /\ Ids(delayed') \subseteq Ids(q)
           /\ timer' = IF delayed' = <<>> THEN 0 ELSE delayed'[1][2]
           /\ \E due \in SUBSET (Ids(q) \cap requests) :
                 /\ flight' = others \cup due
                 /\ due \cap Ids(delayed') = {}
                 /\ Ids(q) \cap requests \subseteq due \cup Ids(delayed')
<1> DEFINE d == delayed'
           due == {q[i][1] : i \in Due(q)} \cap requests
<1>1. d = Rest(q) /\ flight' = others \cup due
      /\ timer' = IF d = <<>> THEN 0 ELSE d[1][2]
  BY DEF checkDelayed
<1>2. PICK k \in 0 .. Len(q) :
        /\ Due(q) = 1 .. k
        /\ Rest(q) \in Seq(Pairs) /\ Len(Rest(q)) = Len(q) - k
        /\ \A j \in 1 .. Len(q) - k : Rest(q)[j] = q[j + k]
  BY DueAndRest
<1>3. /\ d \in Seq(Pairs) /\ Len(d) = Len(q) - k /\ Len(q) \in Nat
      /\ \A j \in 1 .. Len(q) - k : d[j] = q[j + k]
      /\ DOMAIN q = 1 .. Len(q)
  BY <1>1, <1>2
<1>4. DOMAIN d = 1 .. Len(q) - k  BY <1>3
<1>5. ASSUME NEW j \in DOMAIN d  PROVE j + k \in DOMAIN q /\ d[j] = q[j + k]
  BY <1>3, <1>4
<1> HIDE DEF d
<1>6. Ordered(d)
  <2> SUFFICES ASSUME NEW i \in DOMAIN d, NEW j \in DOMAIN d, i < j
               PROVE  d[i][2] <= d[j][2]
    BY DEF Ordered
  <2>1. i + k < j + k  BY <1>4
  <2> QED  BY <1>5, <2>1 DEF Ordered
<1>7. Once(d, requests)
  <2> SUFFICES ASSUME NEW i \in DOMAIN d, NEW j \in DOMAIN d,
                      d[i][1] = d[j][1], d[i][1] \in requests
               PROVE  i = j
    BY DEF Once
  <2>1. i + k = j + k  BY <1>5 DEF Once
  <2> QED  BY <1>4, <2>1
<1>8. Ids(d) \subseteq Ids(q)  BY <1>5 DEF Ids
<1>9. due \subseteq Ids(q) \cap requests  BY <1>2, <1>3 DEF Ids
<1>10. due \cap Ids(d) = {}
  <2> SUFFICES ASSUME NEW i \in Due(q), NEW j \in DOMAIN d,
                      q[i][1] \in requests, q[i][1] = d[j][1]
               PROVE  FALSE
    BY DEF Ids
  <2>1. i \in DOMAIN q /\ i <= k /\ i \in Nat  BY <1>2, <1>3
  <2>2. i = j + k  BY <1>5, <2>1 DEF Once
  <2> QED  BY <1>4, <2>1, <2>2
<1>11. Ids(q) \cap requests \subseteq due \cup Ids(d)
  <2> SUFFICES ASSUME NEW i \in DOMAIN q, q[i][1] \in requests
               PROVE  q[i][1] \in due \cup Ids(d)
    BY DEF Ids
  <2>1. CASE i <= k
    <3>1. i \in Due(q)  BY <1>2, <1>3, <2>1
    <3> QED  BY <3>1
  <2>2. CASE ~(i <= k)
    <3>1. i - k \in 1 .. Len(q) - k /\ i - k + k = i  BY <1>3, <2>2
    <3>2. d[i - k] = q[i]  BY <1>3, <3>1
    <3> QED  BY <1>4, <3>1, <3>2 DEF Ids
  <2> QED  BY <2>1, <2>2
<1> HIDE DEF due
<1> QED  BY <1>1, <1>3, <1>6, <1>7, <1>8, <1>9, <1>10, <1>11 DEF d
-----------------------------------------------------------------------------
LEMMA InitEstablishes == Init => IInv
<1> SUFFICES ASSUME Init  PROVE IInv  OBVIOUS
<1> USE ConstantsAssumption DEF ConstantsAssumption
<1>1. /\ parser = {} /\ requests = {} /\ flight = {} /\ delayed = <<>>
      /\ dc = [r \in Reqs |-> Main] /\ delays = [r \in Reqs |-> 0] /\ timer = 0
      /\ waiters = [c \in Dcs |-> <<>>] /\ auth = [c \in Dcs |-> "none"]
      /\ now = 1 /\ hist = [sent |-> {}, refused |-> {}, late |-> {}]
  BY DEF Init
<1>2. Ids(delayed) = {} /\ delayed \in Seq(Pairs)  BY <1>1 DEF Ids
<1>3. \A c \in Dcs : waiters[c] = <<>> /\ ToSet(waiters[c]) = {}
  BY <1>1 DEF ToSet
<1>4. Types
  <2>1. hist \in [sent : SUBSET Reqs, refused : SUBSET Dcs, late : SUBSET Reqs]
        /\ hist.sent = {}
    BY <1>1
  <2>2. dc \in [Reqs -> Dcs] /\ delays \in [Reqs -> Nat]  BY <1>1
  <2>3. waiters \in [Dcs -> Seq(Reqs)]  BY <1>1
  <2>4. auth \in [Dcs -> {"none", "export", "import"}]  BY <1>1
  <2> QED  BY <1>1, <1>2, <1>3, <2>1, <2>2, <2>3, <2>4 DEF Types
<1>5. InTime /\ Once(delayed, requests)  BY <1>1 DEF InTime, Ordered, Once
<1>6. Placed /\ WaitsThere /\ Kept  BY <1>1 DEF Placed, WaitsThere, Kept
<1>7. Exports  BY <1>3 DEF Exports
<1> QED  BY <1>4, <1>5, <1>6, <1>7 DEF IInv

\* A request is answered or cancelled, or nothing changes that matters.
LEMMA DonePreserves ==
    ASSUME IInv, requests' \subseteq requests, parser' = requests',
           flight' \subseteq flight, flight \cap requests' \subseteq flight',
           delays' \in [Reqs -> Nat], now' \in Nat,
           UNCHANGED <<dc, delayed, timer, waiters, auth, hist>>
    PROVE  IInv'
<1>1. /\ dc' = dc /\ delayed' = delayed /\ timer' = timer
      /\ waiters' = waiters /\ auth' = auth /\ hist' = hist
  OBVIOUS
<1>2. Types'  BY <1>1 DEF IInv, Types
<1>3. InTime' /\ Exports'  BY <1>1 DEF IInv, InTime, Exports
<1>4. Once(delayed', requests')
  BY <1>1 DEF IInv, Once
<1>5. Placed'  BY <1>1 DEF IInv, Placed, Waiting
<1>6. WaitsThere'  BY <1>1 DEF IInv, WaitsThere
<1>7. Kept'  BY <1>1 DEF IInv, Kept
<1> QED  BY <1>2, <1>3, <1>4, <1>5, <1>6, <1>7 DEF IInv

\* A new request is nowhere yet.
LEMMA SendPreserves ==
    ASSUME IInv, NEW r \in Reqs, NEW c \in Dcs, sendRequest(r, c)
    PROVE  IInv'
<1>1. /\ r \notin hist.sent /\ hist' = [hist EXCEPT !.sent = @ \cup {r}]
      /\ parser' = parser \cup {r} /\ requests' = requests \cup {r}
      /\ dc' = [dc EXCEPT ![r] = c] /\ flight' = flight \cup {r}
      /\ delayed' = delayed /\ delays' = delays /\ timer' = timer
      /\ waiters' = waiters /\ auth' = auth /\ now' = now
  BY DEF sendRequest
<1>2. Types  BY DEF IInv
<1>3. /\ hist' \in [sent : SUBSET Reqs, refused : SUBSET Dcs, late : SUBSET Reqs]
      /\ hist'.sent = hist.sent \cup {r}
      /\ hist'.refused = hist.refused /\ hist'.late = hist.late
  BY <1>1, <1>2 DEF Types
<1>4. /\ dc' \in [Reqs -> Dcs] /\ \A x \in Reqs \ {r} : dc'[x] = dc[x]
      /\ requests \subseteq Reqs \ {r}
  BY <1>1, <1>2, <1>3 DEF Types
<1>5. r \notin Ids(delayed) /\ ~Waiting(r)
  BY <1>1, <1>2 DEF Types, Waiting
<1>6. Types'  BY <1>1, <1>2, <1>3, <1>4 DEF Types
<1>7. InTime' /\ Exports'  BY <1>1, <1>3 DEF IInv, InTime, Exports
<1>8. Once(delayed', requests')
  BY <1>1, <1>5 DEF IInv, Once, Ids
<1>9. Placed'
  <2> SUFFICES ASSUME NEW x \in requests'
               PROVE  /\ x \in flight' => x \notin Ids(delayed) /\ ~Waiting(x)
                      /\ x \in Ids(delayed) => ~Waiting(x)
    BY <1>1 DEF Placed, Waiting
  <2>1. CASE x = r  BY <1>5, <2>1
  <2>2. CASE x # r  BY <1>1, <2>2 DEF IInv, Placed
  <2> QED  BY <2>1, <2>2
<1>10. WaitsThere'
  BY <1>1, <1>4, <1>5 DEF IInv, WaitsThere, Waiting
<1>11. Kept'
  <2> SUFFICES ASSUME NEW x \in requests', x # r
               PROVE  \/ x \in flight' \/ x \in Ids(delayed)
                      \/ \E d \in Dcs : x \in ToSet(waiters[d]) /\ auth[d] # "none"
                      \/ dc'[x] \in hist'.refused
                      \/ x \in hist'.late
    BY <1>1 DEF Kept
  <2>1. x \in requests /\ dc'[x] = dc[x]  BY <1>1, <1>4
  <2> QED  BY <1>1, <1>3, <2>1 DEF IInv, Kept
<1> QED  BY <1>6, <1>7, <1>8, <1>9, <1>10, <1>11 DEF IInv

\* A request in flight goes to another datacenter.
LEMMA MigratePreserves ==
    ASSUME IInv, NEW r \in Reqs, NEW c \in Dcs, migrate(r, c)
    PROVE  IInv'
<1>1. /\ r \in flight /\ dc' = [dc EXCEPT ![r] = c]
      /\ parser' = parser /\ requests' = requests /\ flight' = flight
      /\ delayed' = delayed /\ delays' = delays /\ timer' = timer
      /\ waiters' = waiters /\ auth' = auth /\ now' = now /\ hist' = hist
  BY DEF migrate, Error
<1>2. Types  BY DEF IInv
<1>3. dc' \in [Reqs -> Dcs] /\ \A x \in Reqs \ {r} : dc'[x] = dc[x]
  BY <1>1, <1>2 DEF Types
<1>4. requests \subseteq Reqs  BY <1>2 DEF Types
<1>5. Types'  BY <1>1, <1>2, <1>3 DEF Types
<1>6. InTime' /\ Exports' /\ Once(delayed', requests') /\ Placed'
  BY <1>1 DEF IInv, InTime, Exports, Placed, Waiting
<1>7. WaitsThere'
  <2> SUFFICES ASSUME NEW x \in requests, NEW d \in Dcs, x \in ToSet(waiters[d])
               PROVE  dc'[x] = d
    BY <1>1 DEF WaitsThere
  <2>1. x # r  BY <1>1 DEF IInv, Placed, Waiting
  <2> QED  BY <1>3, <1>4, <2>1 DEF IInv, WaitsThere
<1>8. Kept'
  <2> SUFFICES ASSUME NEW x \in requests, x # r
               PROVE  \/ x \in flight \/ x \in Ids(delayed)
                      \/ \E d \in Dcs : x \in ToSet(waiters[d]) /\ auth[d] # "none"
                      \/ dc'[x] \in hist.refused
                      \/ x \in hist.late
    BY <1>1 DEF Kept
  <2> QED  BY <1>3, <1>4 DEF IInv, Kept
<1> QED  BY <1>5, <1>6, <1>7, <1>8 DEF IInv

\* Some of the requests in flight leave it, for the queue or because their
\* predecessor was faster, and what is due is sent.
LEMMA DelayKeeps ==
    ASSUME IInv, NEW q \in Seq(Pairs), Ordered(q), Once(q, requests),
           NEW out \in SUBSET (flight \cap requests),
           NEW joined \in SUBSET out, Ids(q) = Ids(delayed) \cup joined,
           checkDelayed(q, flight \ out),
           hist' \in [sent : SUBSET Reqs, refused : SUBSET Dcs, late : SUBSET Reqs],
           hist'.sent = hist.sent, hist'.refused = hist.refused,
           hist.late \subseteq hist'.late, out \subseteq joined \cup hist'.late,
           delays' \in [Reqs -> Nat],
           UNCHANGED <<parser, requests, dc, waiters, auth, now>>
    PROVE  IInv'
<1>1. /\ parser' = parser /\ requests' = requests /\ dc' = dc
      /\ waiters' = waiters /\ auth' = auth /\ now' = now
  OBVIOUS
<1>2. /\ delayed' \in Seq(Pairs) /\ Ordered(delayed')
      /\ Once(delayed', requests) /\ Ids(delayed') \subseteq Ids(q)
      /\ timer' = IF delayed' = <<>> THEN 0 ELSE delayed'[1][2]
      /\ \E due \in SUBSET (Ids(q) \cap requests) :
            /\ flight' = (flight \ out) \cup due
            /\ due \cap Ids(delayed') = {}
            /\ Ids(q) \cap requests \subseteq due \cup Ids(delayed')
  BY CheckDelayed
<1>3. PICK due \in SUBSET (Ids(q) \cap requests) :
            /\ flight' = (flight \ out) \cup due
            /\ due \cap Ids(delayed') = {}
            /\ Ids(q) \cap requests \subseteq due \cup Ids(delayed')
  BY <1>2
<1>4. Types  BY DEF IInv
<1>5. Types'
  <2>1. flight' \subseteq hist'.sent /\ Ids(delayed') \subseteq hist'.sent
    BY <1>2, <1>3, <1>4 DEF Types
  <2>2. /\ parser' = requests' /\ requests' \subseteq hist'.sent
        /\ dc' \in [Reqs -> Dcs] /\ now' \in Nat
        /\ waiters' \in [Dcs -> Seq(Reqs)]
        /\ \A c \in Dcs : ToSet(waiters'[c]) \subseteq hist'.sent
        /\ auth' \in [Dcs -> {"none", "export", "import"}]
    BY <1>1, <1>4 DEF Types
  <2> QED  BY <1>2, <2>1, <2>2 DEF Types
<1>6. InTime' /\ Once(delayed', requests')  BY <1>1, <1>2 DEF InTime
<1>7. WaitsThere' /\ Exports'
  BY <1>1 DEF IInv, WaitsThere, Exports
<1>8. \A r \in requests : r \in Ids(q) => ~Waiting(r)  BY DEF IInv, Placed
<1>9. Placed'
  <2> SUFFICES ASSUME NEW r \in requests
               PROVE  /\ r \in flight' => r \notin Ids(delayed') /\ ~Waiting(r)
                      /\ r \in Ids(delayed') => ~Waiting(r)
    BY <1>1 DEF Placed, Waiting
  <2>1. r \in flight \ out => r \notin Ids(q) /\ ~Waiting(r)  BY DEF IInv, Placed
  <2> QED  BY <1>2, <1>3, <1>8, <2>1
<1>10. Kept'
  <2> SUFFICES ASSUME NEW r \in requests,
                      r \notin flight', r \notin Ids(delayed'), r \notin hist'.late
               PROVE  \/ \E c \in Dcs : r \in ToSet(waiters[c]) /\ auth[c] # "none"
                      \/ dc[r] \in hist.refused
    BY <1>1 DEF Kept
  <2>1. r \notin flight /\ r \notin Ids(delayed) /\ r \notin hist.late
    BY <1>3
  <2> QED  BY <2>1 DEF IInv, Kept
<1> QED  BY <1>5, <1>6, <1>7, <1>9, <1>10 DEF IInv

\* A request in flight joins the queue behind what goes before it.
LEMMA JoinPreserves ==
    ASSUME IInv, NEW r \in flight \cap requests, NEW i \in 1 .. Len(delayed) + 1,
           NEW at \in Nat,
           \A k \in 1 .. i - 1 : delayed[k][2] <= at,
           \A k \in i .. Len(delayed) : at <= delayed[k][2],
           checkDelayed(InsertAt(delayed, i, <<r, at>>), flight \ {r}),
           delays' \in [Reqs -> Nat],
           UNCHANGED <<parser, requests, dc, waiters, auth, now, hist>>
    PROVE  IInv'
<1>1. Types /\ Ordered(delayed) /\ Once(delayed, requests)  BY DEF IInv, InTime
<1>2. delayed \in Seq(Pairs) /\ r \in Reqs /\ r \notin Ids(delayed)
  BY <1>1 DEF Types, IInv, Placed
<1> DEFINE e == <<r, at>>
           q == InsertAt(delayed, i, e)
<1>3. e \in Pairs /\ e[1] = r /\ e[2] = at  BY <1>2 DEF Pairs
<1>4. checkDelayed(q, flight \ {r})  OBVIOUS
<1> HIDE DEF e
<1>5. /\ q \in Seq(Pairs) /\ Ordered(q) /\ Once(q, requests)
      /\ Ids(q) = Ids(delayed) \cup {e[1]}
  BY <1>1, <1>2, <1>3, InsertKeeps
<1> HIDE DEF q
<1>6. /\ hist' \in [sent : SUBSET Reqs, refused : SUBSET Dcs, late : SUBSET Reqs]
      /\ hist'.sent = hist.sent /\ hist'.refused = hist.refused
      /\ hist.late \subseteq hist'.late
  BY <1>1 DEF Types
<1> DEFINE out == {r}
<1>7. out \in SUBSET (flight \cap requests) /\ out \in SUBSET out
      /\ out \subseteq out \cup hist'.late
  OBVIOUS
<1>8. Ids(q) = Ids(delayed) \cup out /\ checkDelayed(q, flight \ out)
  BY <1>3, <1>4, <1>5
<1> HIDE DEF out
<1> QED  BY <1>5, <1>6, <1>7, <1>8, DelayKeeps

\* The place before the first that goes later.
LEMMA PlaceByTime ==
    ASSUME delayed \in Seq(Pairs), Ordered(delayed), NEW at \in Nat
    PROVE  /\ InsertPos(at) \in 1 .. Len(delayed) + 1
           /\ \A k \in 1 .. InsertPos(at) - 1 : delayed[k][2] <= at
           /\ \A k \in InsertPos(at) .. Len(delayed) : at <= delayed[k][2]
<1> DEFINE later == {k \in DOMAIN delayed : delayed[k][2] > at}
           pos == InsertPos(at)
<1>1. DOMAIN delayed = 1 .. Len(delayed) /\ Len(delayed) \in Nat  OBVIOUS
<1>2. \A k \in DOMAIN delayed : delayed[k][2] \in Nat  BY DEF Pairs
<1>3. CASE later = {}
  <2>1. pos = Len(delayed) + 1  BY <1>3 DEF InsertPos
  <2>2. \A k \in DOMAIN delayed : delayed[k][2] <= at  BY <1>2, <1>3
  <2> HIDE DEF pos
  <2>3. \A k \in 1 .. pos - 1 : k \in DOMAIN delayed  BY <1>1, <2>1
  <2>4. pos .. Len(delayed) = {} /\ pos \in 1 .. Len(delayed) + 1
    BY <1>1, <2>1
  <2> QED  BY <2>2, <2>3, <2>4 DEF pos
<1>4. CASE later # {}
  <2>1. pos = Min(later)  BY <1>4 DEF InsertPos
  <2>2. later \in SUBSET Nat  BY <1>1
  <2>3. Min(later) \in later /\ \A y \in later : Min(later) <= y
    BY <1>4, <2>2, MinOf
  <2>4. pos \in DOMAIN delayed /\ delayed[pos][2] > at
        /\ \A y \in later : pos <= y
    BY <2>1, <2>3
  <2> HIDE DEF pos
  <2>5. ASSUME NEW k \in 1 .. pos - 1  PROVE delayed[k][2] <= at
    <3>1. k \in DOMAIN delayed /\ ~(pos <= k)  BY <1>1, <2>4
    <3>2. k \notin later  BY <2>4, <3>1
    <3> QED  BY <1>2, <3>1, <3>2
  <2>6. ASSUME NEW k \in pos .. Len(delayed)  PROVE at <= delayed[k][2]
    <3>1. k \in DOMAIN delayed /\ (k = pos \/ pos < k)  BY <1>1, <2>4
    <3>2. delayed[pos][2] <= delayed[k][2]
      BY <1>2, <2>4, <3>1 DEF Ordered
    <3> QED  BY <1>2, <2>4, <3>1, <3>2
  <2>7. pos \in 1 .. Len(delayed) + 1  BY <1>1, <2>4
  <2> QED  BY <2>5, <2>6, <2>7 DEF pos
<1> QED  BY <1>3, <1>4

LEMMA ServerErrorPreserves ==
    ASSUME IInv, NEW r \in Reqs, serverError(r)
    PROVE  IInv'
<1> DEFINE secs == IF delays[r] = 0 THEN 1
                   ELSE IF delays[r] > MaxDelay THEN delays[r] ELSE 2 * delays[r]
           at == now + secs
<1>1. Types /\ Ordered(delayed)  BY DEF IInv, InTime
<1>2. /\ r \in flight \cap requests
      /\ delays' = [delays EXCEPT ![r] = secs]
      /\ checkDelayed(InsertAt(delayed, InsertPos(at), <<r, at>>), flight \ {r})
      /\ UNCHANGED <<parser, requests, dc, waiters, auth, now, hist>>
  BY <1>1 DEF serverError, Error, Types
<1>3. secs \in Nat /\ at \in Nat
  <2>1. delays[r] \in Nat /\ now \in Nat /\ MaxDelay \in Nat
    BY <1>1, ConstantsAssumption DEF Types, ConstantsAssumption
  <2> QED  BY <2>1
<1> HIDE DEF at, secs
<1>4. delays' \in [Reqs -> Nat] /\ delayed \in Seq(Pairs)
  BY <1>1, <1>2, <1>3 DEF Types
<1>5. /\ InsertPos(at) \in 1 .. Len(delayed) + 1
      /\ \A k \in 1 .. InsertPos(at) - 1 : delayed[k][2] <= at
      /\ \A k \in InsertPos(at) .. Len(delayed) : at <= delayed[k][2]
  BY <1>1, <1>3, <1>4, PlaceByTime
<1> QED  BY <1>2, <1>3, <1>4, <1>5, JoinPreserves

LEMMA FloodWaitPreserves ==
    ASSUME IInv, NEW r \in Reqs, NEW secs \in 1 .. 2, floodWait(r, secs)
    PROVE  IInv'
<1> DEFINE at == now + secs
<1>1. Types /\ Ordered(delayed)  BY DEF IInv, InTime
<1>2. /\ r \in flight \cap requests
      /\ checkDelayed(InsertAt(delayed, InsertPos(at), <<r, at>>), flight \ {r})
      /\ UNCHANGED <<parser, requests, dc, delays, waiters, auth, now, hist>>
  BY <1>1 DEF floodWait, Error, Types
<1>3. at \in Nat  BY <1>1 DEF Types
<1> HIDE DEF at
<1>4. delays' \in [Reqs -> Nat] /\ delayed \in Seq(Pairs)
  BY <1>1, <1>2 DEF Types
<1>5. /\ InsertPos(at) \in 1 .. Len(delayed) + 1
      /\ \A k \in 1 .. InsertPos(at) - 1 : delayed[k][2] <= at
      /\ \A k \in InsertPos(at) .. Len(delayed) : at <= delayed[k][2]
  BY <1>1, <1>3, <1>4, PlaceByTime
<1> QED  BY <1>2, <1>3, <1>4, <1>5, JoinPreserves

\* The request goes before the one it depends on, to the same time.
LEMMA WaitFailedDelayedPreserves ==
    ASSUME IInv, NEW r \in Reqs, waitFailedDelayed(r)
    PROVE  IInv'
<1> DEFINE places == {k \in DOMAIN delayed : delayed[k][1] = after[r]}
           i == Min(places)
           at == delayed[i][2]
<1>1. Types /\ Ordered(delayed) /\ Once(delayed, requests)  BY DEF IInv, InTime
<1>2. /\ r \in flight \cap requests
      /\ UNCHANGED <<parser, requests, dc, delays, waiters, auth, now>>
      /\ delays' \in [Reqs -> Nat] /\ delayed \in Seq(Pairs)
  BY <1>1 DEF waitFailedDelayed, Error, Types
<1>3. CASE places = {}
  <2>1. /\ hist' = [hist EXCEPT !.late = @ \cup {r}]
        /\ checkDelayed(delayed, flight \ {r})
    BY <1>3 DEF waitFailedDelayed
  <2>2. /\ hist' \in [sent : SUBSET Reqs, refused : SUBSET Dcs, late : SUBSET Reqs]
        /\ hist'.sent = hist.sent /\ hist'.refused = hist.refused
        /\ hist'.late = hist.late \cup {r}
    <3>1. hist \in [sent : SUBSET Reqs, refused : SUBSET Dcs, late : SUBSET Reqs]
      BY <1>1 DEF Types
    <3> QED  BY <2>1, <3>1
  <2> DEFINE out == {r}
             none == {}
  <2>3. /\ out \in SUBSET (flight \cap requests) /\ none \in SUBSET out
        /\ Ids(delayed) = Ids(delayed) \cup none
        /\ out \subseteq none \cup hist'.late /\ hist.late \subseteq hist'.late
    BY <1>2, <2>2
  <2>4. checkDelayed(delayed, flight \ out)  BY <2>1
  <2> HIDE DEF out, none
  <2> QED  BY <1>1, <1>2, <2>2, <2>3, <2>4, DelayKeeps
<1>4. CASE places # {}
  <2>1. /\ checkDelayed(InsertAt(delayed, i, <<r, at>>), flight \ {r})
        /\ UNCHANGED hist
    BY <1>4 DEF waitFailedDelayed
  <2>2. places \in SUBSET Nat  BY <1>2
  <2>3. i \in DOMAIN delayed  BY <1>4, <2>2, MinOf
  <2> HIDE DEF i, places
  <2>4. i \in 1 .. Len(delayed) + 1 /\ DOMAIN delayed = 1 .. Len(delayed)
        /\ Len(delayed) \in Nat
    BY <1>2, <2>3
  <2>5. at \in Nat /\ \A k \in DOMAIN delayed : delayed[k][2] \in Nat
    BY <1>2, <2>3 DEF Pairs
  <2>6. ASSUME NEW k \in 1 .. i - 1  PROVE delayed[k][2] <= at
    <3>1. k \in DOMAIN delayed /\ k < i  BY <2>3, <2>4
    <3> QED  BY <1>1, <2>3, <3>1 DEF Ordered
  <2>7. ASSUME NEW k \in i .. Len(delayed)  PROVE at <= delayed[k][2]
    <3>1. k \in DOMAIN delayed /\ (k = i \/ i < k)  BY <2>3, <2>4
    <3> QED  BY <1>1, <2>3, <2>5, <3>1 DEF Ordered
  <2> HIDE DEF at
  <2> QED  BY <1>2, <2>1, <2>4, <2>5, <2>6, <2>7, JoinPreserves
<1> QED  BY <1>3, <1>4

LEMMA CheckPreserves ==
    ASSUME IInv, checkDelayedRequests
    PROVE  IInv'
<1> DEFINE none == {}
<1>1. Types /\ Ordered(delayed) /\ Once(delayed, requests)  BY DEF IInv, InTime
<1>2. /\ checkDelayed(delayed, flight) /\ flight = flight \ none
      /\ UNCHANGED <<parser, requests, dc, delays, waiters, auth, now, hist>>
  BY DEF checkDelayedRequests
<1>3. /\ hist' \in [sent : SUBSET Reqs, refused : SUBSET Dcs, late : SUBSET Reqs]
      /\ hist'.sent = hist.sent /\ hist'.refused = hist.refused
      /\ hist.late \subseteq hist'.late
      /\ delays' \in [Reqs -> Nat] /\ delayed \in Seq(Pairs)
  BY <1>1, <1>2 DEF Types
<1>4. /\ none \in SUBSET (flight \cap requests) /\ none \in SUBSET none
      /\ Ids(delayed) = Ids(delayed) \cup none
      /\ none \subseteq none \cup hist'.late
  OBVIOUS
<1>5. checkDelayed(delayed, flight \ none)  BY <1>2
<1> HIDE DEF none
<1> QED  BY <1>1, <1>2, <1>3, <1>4, <1>5, DelayKeeps
-----------------------------------------------------------------------------
(* The queues of those that wait for an authorization. *)

LEMMA AppendSet ==
    ASSUME NEW S, NEW s \in Seq(S), NEW e \in S
    PROVE  /\ Append(s, e) \in Seq(S) /\ Append(s, e) # <<>>
           /\ ToSet(Append(s, e)) = ToSet(s) \cup {e}
<1> DEFINE t == Append(s, e)
<1>1. /\ t \in Seq(S) /\ Len(t) = Len(s) + 1 /\ t[Len(s) + 1] = e
      /\ \A k \in 1 .. Len(s) : t[k] = s[k]
      /\ Len(s) \in Nat
  OBVIOUS
<1>2. DOMAIN s = 1 .. Len(s) /\ DOMAIN t = 1 .. Len(s) + 1  BY <1>1
<1> HIDE DEF t
<1>3. t # <<>>  BY <1>1
<1>4. ToSet(t) = ToSet(s) \cup {e}
  <2>1. ASSUME NEW k \in DOMAIN t  PROVE t[k] \in ToSet(s) \cup {e}
    <3>1. k = Len(s) + 1 \/ k \in DOMAIN s  BY <1>1, <1>2
    <3> QED  BY <1>1, <1>2, <3>1 DEF ToSet
  <2>2. ASSUME NEW k \in DOMAIN s  PROVE s[k] \in ToSet(t)
    <3>1. k \in DOMAIN t /\ t[k] = s[k]  BY <1>1, <1>2
    <3> QED  BY <3>1 DEF ToSet
  <2>3. e \in ToSet(t)
    <3>1. Len(s) + 1 \in DOMAIN t  BY <1>1, <1>2
    <3> QED  BY <1>1, <3>1 DEF ToSet
  <2> QED  BY <2>1, <2>2, <2>3 DEF ToSet
<1> QED  BY <1>1, <1>3, <1>4 DEF t

\* A request in flight waits from now on where it goes, and an authorization
\* is under way there or was refused.
LEMMA WaitKeeps ==
    ASSUME IInv, NEW r \in flight \cap requests,
           waiters' = [waiters EXCEPT ![dc[r]] = Append(@, r)],
           flight' = flight \ {r},
           auth' = auth \/ auth' = [auth EXCEPT ![dc[r]] = "export"],
           auth'[dc[r]] # "none" \/ dc[r] \in hist.refused,
           UNCHANGED <<parser, requests, dc, delayed, delays, timer, now, hist>>
    PROVE  IInv'
<1> DEFINE c == dc[r]
<1>1. Types  BY DEF IInv
<1>2. r \in Reqs /\ c \in Dcs  BY <1>1 DEF Types
<1>3. /\ parser' = parser /\ requests' = requests /\ dc' = dc
      /\ delayed' = delayed /\ delays' = delays /\ timer' = timer
      /\ now' = now /\ hist' = hist
  OBVIOUS
<1> DEFINE t == Append(waiters[c], r)
<1>4. waiters' = [waiters EXCEPT ![c] = t]  OBVIOUS
<1>5. /\ t \in Seq(Reqs) /\ t # <<>> /\ ToSet(t) = ToSet(waiters[c]) \cup {r}
  <2>1. waiters[c] \in Seq(Reqs)  BY <1>1, <1>2 DEF Types
  <2> QED  BY <1>2, <2>1, AppendSet
<1>6. auth'[c] # "none" \/ c \in hist.refused  OBVIOUS
<1>7. auth' = auth \/ auth' = [auth EXCEPT ![c] = "export"]  OBVIOUS
<1>8. dc[r] = c  OBVIOUS
<1> HIDE DEF t, c
<1>9. /\ waiters' \in [Dcs -> Seq(Reqs)]
      /\ waiters'[c] = t /\ \A d \in Dcs \ {c} : waiters'[d] = waiters[d]
  <2>1. waiters \in [Dcs -> Seq(Reqs)]  BY <1>1 DEF Types
  <2>2. t \in Seq(Reqs)  BY <1>5
  <2> DEFINE Q == Seq(Reqs)
  <2>3. waiters \in [Dcs -> Q] /\ t \in Q  BY <2>1, <2>2
  <2> HIDE DEF Q
  <2>4. waiters' \in [Dcs -> Q]  BY <1>4, <2>3
  <2>5. waiters'[c] = t /\ \A d \in Dcs \ {c} : waiters'[d] = waiters[d]
    BY <1>2, <1>4, <2>3
  <2> QED  BY <2>4, <2>5 DEF Q
<1>10. /\ auth' \in [Dcs -> {"none", "export", "import"}]
       /\ \A d \in Dcs : auth[d] # "none" => auth'[d] # "none"
  BY <1>1, <1>2, <1>7 DEF Types
<1>11. \A d \in Dcs : /\ ToSet(waiters[d]) \subseteq ToSet(waiters'[d])
                      /\ ToSet(waiters'[d]) \subseteq ToSet(waiters[d]) \cup {r}
                      /\ d # c => ToSet(waiters'[d]) = ToSet(waiters[d])
  BY <1>5, <1>9
<1>12. \A x \in requests : x # r => (Waiting(x)' <=> Waiting(x))
  BY <1>11 DEF Waiting
<1>13. r \notin Ids(delayed)  BY DEF IInv, Placed
<1>14. Types'
  <2>1. \A d \in Dcs : ToSet(waiters'[d]) \subseteq hist'.sent
    BY <1>1, <1>3, <1>11 DEF Types
  <2> QED  BY <1>1, <1>3, <1>9, <1>10, <2>1 DEF Types
<1>15. InTime' /\ Once(delayed', requests')  BY <1>3 DEF IInv, InTime
<1>16. Placed'
  <2> SUFFICES ASSUME NEW x \in requests
               PROVE  /\ x \in flight' => x \notin Ids(delayed) /\ ~Waiting(x)'
                      /\ x \in Ids(delayed) => ~Waiting(x)'
    BY <1>3 DEF Placed
  <2>1. CASE x = r  BY <1>13, <2>1
  <2>2. CASE x # r  BY <1>12, <2>2 DEF IInv, Placed
  <2> QED  BY <2>1, <2>2
<1>17. WaitsThere'
  <2> SUFFICES ASSUME NEW x \in requests, NEW d \in Dcs, x \in ToSet(waiters'[d])
               PROVE  dc[x] = d
    BY <1>3 DEF WaitsThere
  <2>1. CASE x \in ToSet(waiters[d])  BY <2>1 DEF IInv, WaitsThere
  <2>2. CASE x \notin ToSet(waiters[d])  BY <1>8, <1>11, <2>2
  <2> QED  BY <2>1, <2>2
<1>18. Exports'
  <2> SUFFICES ASSUME NEW d \in Dcs, waiters'[d] # <<>>
               PROVE  auth'[d] # "none" \/ d \in hist.refused
    BY <1>3 DEF Exports
  <2>1. CASE d = c  BY <1>6, <2>1
  <2>2. CASE d # c  BY <1>9, <1>10, <2>2 DEF IInv, Exports
  <2> QED  BY <2>1, <2>2
<1>19. Kept'
  <2> SUFFICES ASSUME NEW x \in requests
               PROVE  \/ x \in flight' \/ x \in Ids(delayed)
                      \/ \E d \in Dcs : x \in ToSet(waiters'[d]) /\ auth'[d] # "none"
                      \/ dc[x] \in hist.refused
                      \/ x \in hist.late
    BY <1>3 DEF Kept
  <2>1. CASE x = r
    <3>1. r \in ToSet(waiters'[c])  BY <1>5, <1>9
    <3> QED  BY <1>2, <1>6, <1>8, <2>1, <3>1
  <2>2. CASE x # r
    <3>1. \/ x \in flight \/ x \in Ids(delayed)
          \/ \E d \in Dcs : x \in ToSet(waiters[d]) /\ auth[d] # "none"
          \/ dc[x] \in hist.refused
          \/ x \in hist.late
      BY DEF IInv, Kept
    <3> QED  BY <1>10, <1>11, <2>2, <3>1
  <2> QED  BY <2>1, <2>2
<1> QED  BY <1>14, <1>15, <1>16, <1>17, <1>18, <1>19 DEF IInv

LEMMA UnauthorizedPreserves ==
    ASSUME IInv, NEW r \in Reqs, NEW bad \in BOOLEAN, unauthorized(r, bad)
    PROVE  IInv'
<1> DEFINE c == dc[r]
<1>1. Types  BY DEF IInv
<1>2. /\ r \in flight \cap requests /\ flight' = flight \ {r}
      /\ auth' = IF waiters[c] = <<>> THEN [auth EXCEPT ![c] = "export"] ELSE auth
      /\ waiters' = [waiters EXCEPT ![c] = Append(@, r)]
      /\ UNCHANGED <<parser, requests, dc, delayed, delays, timer, now, hist>>
  BY <1>1 DEF unauthorized, Error, StartsExport, Types
<1>3. c \in Dcs /\ auth \in [Dcs -> {"none", "export", "import"}]
  BY <1>1 DEF Types
<1>4. auth' = auth \/ auth' = [auth EXCEPT ![c] = "export"]  BY <1>2
<1>5. auth'[c] # "none" \/ c \in hist.refused
  <2>1. CASE waiters[c] = <<>>  BY <1>2, <1>3, <2>1
  <2>2. CASE waiters[c] # <<>>  BY <1>2, <1>3, <2>2 DEF IInv, Exports
  <2> QED  BY <2>1, <2>2
<1> QED  BY <1>2, <1>4, <1>5, WaitKeeps

LEMMA WaitFailedWaitsPreserves ==
    ASSUME IInv, NEW r \in Reqs, waitFailedWaits(r)
    PROVE  IInv'
<1> DEFINE c == dc[r]
<1>1. Types  BY DEF IInv
<1>2. /\ r \in flight \cap requests /\ flight' = flight \ {r}
      /\ Contains(waiters[c], after[r])
      /\ waiters' = [waiters EXCEPT ![c] = IF Contains(@, r) THEN @ ELSE Append(@, r)]
      /\ auth' = auth
      /\ UNCHANGED <<parser, requests, dc, delayed, delays, timer, now, hist>>
  BY <1>1 DEF waitFailedWaits, Error, Types
<1>3. c \in Dcs /\ waiters[c] \in Seq(Reqs)  BY <1>1 DEF Types
<1>4. ~Contains(waiters[c], r)
  <2>1. r \notin ToSet(waiters[c])  BY <1>2, <1>3 DEF IInv, Placed, Waiting
  <2> QED  BY <1>3, <2>1 DEF Contains, ToSet
<1>5. waiters' = [waiters EXCEPT ![c] = Append(@, r)]  BY <1>2, <1>4
<1>6. waiters[c] # <<>>  BY <1>2, <1>3 DEF Contains
<1>7. auth'[c] # "none" \/ c \in hist.refused
  BY <1>2, <1>3, <1>6 DEF IInv, Exports
<1> QED  BY <1>2, <1>5, <1>7, WaitKeeps

\* The import follows the export.
LEMMA ExportDonePreserves ==
    ASSUME IInv, NEW c \in Dcs, exportDone(c)
    PROVE  IInv'
<1>1. /\ auth' = [auth EXCEPT ![c] = "import"]
      /\ parser' = parser /\ requests' = requests /\ dc' = dc /\ flight' = flight
      /\ delayed' = delayed /\ delays' = delays /\ timer' = timer
      /\ waiters' = waiters /\ now' = now /\ hist' = hist
  BY DEF exportDone
<1>2. Types  BY DEF IInv
<1>3. /\ auth' \in [Dcs -> {"none", "export", "import"}]
      /\ \A d \in Dcs : auth[d] # "none" => auth'[d] # "none"
  BY <1>1, <1>2 DEF Types
<1>4. Types'  BY <1>1, <1>2, <1>3 DEF Types
<1>5. InTime' /\ Once(delayed', requests')  BY <1>1 DEF IInv, InTime
<1>6. Placed'  BY <1>1 DEF IInv, Placed, Waiting
<1>7. WaitsThere'  BY <1>1 DEF IInv, WaitsThere
<1>8. Exports'  BY <1>1, <1>3 DEF IInv, Exports
<1>9. Kept'  BY <1>1, <1>3 DEF IInv, Kept
<1> QED  BY <1>4, <1>5, <1>6, <1>7, <1>8, <1>9 DEF IInv

\* The authorization is refused; its waiters are forgotten or stay.
LEMMA RefusedPreserves ==
    ASSUME IInv, NEW c \in Dcs, exportFail(c) \/ importFail(c)
    PROVE  IInv'
<1>1. /\ auth' = [auth EXCEPT ![c] = "none"]
      /\ waiters' = waiters \/ waiters' = [waiters EXCEPT ![c] = <<>>]
      /\ hist' = [hist EXCEPT !.refused = @ \cup {c}]
      /\ parser' = parser /\ requests' = requests /\ dc' = dc /\ flight' = flight
      /\ delayed' = delayed /\ delays' = delays /\ timer' = timer /\ now' = now
  BY DEF exportFail, importFail
<1>2. Types  BY DEF IInv
<1>3. /\ hist' \in [sent : SUBSET Reqs, refused : SUBSET Dcs, late : SUBSET Reqs]
      /\ hist'.sent = hist.sent /\ hist'.late = hist.late
      /\ hist'.refused = hist.refused \cup {c}
  <2>1. hist \in [sent : SUBSET Reqs, refused : SUBSET Dcs, late : SUBSET Reqs]
    BY <1>2 DEF Types
  <2> QED  BY <1>1, <2>1
<1>4. /\ auth' \in [Dcs -> {"none", "export", "import"}]
      /\ \A d \in Dcs \ {c} : auth'[d] = auth[d]
  BY <1>1, <1>2 DEF Types
<1>5. /\ waiters' \in [Dcs -> Seq(Reqs)]
      /\ \A d \in Dcs \ {c} : waiters'[d] = waiters[d]
      /\ \A d \in Dcs : ToSet(waiters'[d]) \subseteq ToSet(waiters[d])
  <2> DEFINE Q == Seq(Reqs)
  <2>1. waiters \in [Dcs -> Q] /\ <<>> \in Q  BY <1>2 DEF Types
  <2>2. ToSet(<<>>) = {}  BY DEF ToSet
  <2> HIDE DEF Q
  <2>3. CASE waiters' = waiters  BY <2>1, <2>3 DEF Q
  <2>4. CASE waiters' = [waiters EXCEPT ![c] = <<>>]
    <3>1. waiters' \in [Dcs -> Q]  BY <2>1, <2>4
    <3>2. waiters'[c] = <<>> /\ \A d \in Dcs \ {c} : waiters'[d] = waiters[d]
      BY <2>1, <2>4
    <3> QED  BY <2>2, <3>1, <3>2 DEF Q
  <2> QED  BY <1>1, <2>3, <2>4
<1>6. Types'
  <2>1. \A d \in Dcs : ToSet(waiters'[d]) \subseteq hist'.sent
    BY <1>2, <1>3, <1>5 DEF Types
  <2> QED  BY <1>1, <1>2, <1>3, <1>4, <1>5, <2>1 DEF Types
<1>7. InTime' /\ Once(delayed', requests')  BY <1>1 DEF IInv, InTime
<1>8. Placed'  BY <1>1, <1>5 DEF IInv, Placed, Waiting
<1>9. WaitsThere'  BY <1>1, <1>5 DEF IInv, WaitsThere
<1>10. Exports'
  <2> SUFFICES ASSUME NEW d \in Dcs, waiters'[d] # <<>>, d # c
               PROVE  auth'[d] # "none" \/ d \in hist'.refused
    BY <1>3 DEF Exports
  <2> QED  BY <1>3, <1>4, <1>5 DEF IInv, Exports
<1>11. Kept'
  <2> SUFFICES ASSUME NEW x \in requests
               PROVE  \/ x \in flight \/ x \in Ids(delayed)
                      \/ \E d \in Dcs : x \in ToSet(waiters'[d]) /\ auth'[d] # "none"
                      \/ dc[x] \in hist'.refused
                      \/ x \in hist'.late
    BY <1>1 DEF Kept
  <2>1. ASSUME NEW d \in Dcs, x \in ToSet(waiters[d]), auth[d] # "none"
        PROVE  \/ x \in ToSet(waiters'[d]) /\ auth'[d] # "none"
               \/ dc[x] \in hist'.refused
    <3>1. CASE d = c  BY <1>3, <2>1, <3>1 DEF IInv, WaitsThere
    <3>2. CASE d # c  BY <1>4, <1>5, <2>1, <3>2
    <3> QED  BY <3>1, <3>2
  <2> QED  BY <1>3, <2>1 DEF IInv, Kept
<1> QED  BY <1>6, <1>7, <1>8, <1>9, <1>10, <1>11 DEF IInv

\* Who waited, and still is a request, is sent.
LEMMA ImportDonePreserves ==
    ASSUME IInv, NEW c \in Dcs, importDone(c)
    PROVE  IInv'
<1>1. /\ auth' = [auth EXCEPT ![c] = "none"]
      /\ waiters' = [waiters EXCEPT ![c] = <<>>]
      /\ flight' = flight \cup Released(c)
      /\ dc' = [r \in Reqs |-> IF r \in Released(c) THEN c ELSE dc[r]]
      /\ parser' = parser /\ requests' = requests /\ hist' = hist
      /\ delayed' = delayed /\ delays' = delays /\ timer' = timer /\ now' = now
  BY DEF importDone
<1>2. Types  BY DEF IInv
<1>3. Released(c) = ToSet(waiters[c]) \cap requests  BY DEF Released
<1>4. dc' = dc
  <2>1. \A r \in Released(c) : dc[r] = c  BY <1>3 DEF IInv, WaitsThere
  <2>2. dc \in [Reqs -> Dcs]  BY <1>2 DEF Types
  <2> QED  BY <1>1, <2>1, <2>2
<1>5. /\ auth' \in [Dcs -> {"none", "export", "import"}]
      /\ \A d \in Dcs \ {c} : auth'[d] = auth[d]
  BY <1>1, <1>2 DEF Types
<1>6. /\ waiters' \in [Dcs -> Seq(Reqs)]
      /\ waiters'[c] = <<>> /\ ToSet(waiters'[c]) = {}
      /\ \A d \in Dcs \ {c} : waiters'[d] = waiters[d]
  <2> DEFINE Q == Seq(Reqs)
  <2>1. waiters \in [Dcs -> Q] /\ <<>> \in Q  BY <1>2 DEF Types
  <2>2. ToSet(<<>>) = {}  BY DEF ToSet
  <2> HIDE DEF Q
  <2>3. waiters' \in [Dcs -> Q]  BY <1>1, <2>1
  <2>4. waiters'[c] = <<>> /\ \A d \in Dcs \ {c} : waiters'[d] = waiters[d]
    BY <1>1, <2>1
  <2> QED  BY <2>2, <2>3, <2>4 DEF Q
<1>7. \A d \in Dcs : ToSet(waiters'[d]) \subseteq ToSet(waiters[d])  BY <1>6
<1>8. Types'
  <2>1. flight' \subseteq hist'.sent  BY <1>1, <1>2, <1>3 DEF Types
  <2>2. \A d \in Dcs : ToSet(waiters'[d]) \subseteq hist'.sent
    BY <1>1, <1>2, <1>7 DEF Types
  <2> QED  BY <1>1, <1>2, <1>4, <1>5, <1>6, <2>1, <2>2 DEF Types
<1>9. InTime' /\ Once(delayed', requests')  BY <1>1 DEF IInv, InTime
<1>10. Placed'
  <2> SUFFICES ASSUME NEW x \in requests
               PROVE  /\ x \in flight' => x \notin Ids(delayed) /\ ~Waiting(x)'
                      /\ x \in Ids(delayed) => ~Waiting(x)'
    BY <1>1 DEF Placed
  <2>1. Waiting(x)' => Waiting(x)  BY <1>7 DEF Waiting
  <2>2. CASE x \in Released(c)
    <3>1. Waiting(x)  BY <1>3, <2>2 DEF Waiting
    <3>2. x \notin Ids(delayed)  BY <3>1 DEF IInv, Placed
    <3>3. \A d \in Dcs : x \notin ToSet(waiters'[d])
      BY <1>3, <1>6, <1>7, <2>2 DEF IInv, WaitsThere
    <3> QED  BY <3>2, <3>3 DEF Waiting
  <2>3. CASE x \notin Released(c)  BY <1>1, <2>1, <2>3 DEF IInv, Placed
  <2> QED  BY <2>2, <2>3
<1>11. WaitsThere'  BY <1>1, <1>4, <1>7 DEF IInv, WaitsThere
<1>12. Exports'
  <2> SUFFICES ASSUME NEW d \in Dcs, waiters'[d] # <<>>
               PROVE  auth'[d] # "none" \/ d \in hist.refused
    BY <1>1 DEF Exports
  <2>1. d # c  BY <1>6
  <2> QED  BY <1>5, <1>6, <2>1 DEF IInv, Exports
<1>13. Kept'
  <2> SUFFICES ASSUME NEW x \in requests, x \notin flight'
               PROVE  \/ x \in Ids(delayed)
                      \/ \E d \in Dcs : x \in ToSet(waiters'[d]) /\ auth'[d] # "none"
                      \/ dc[x] \in hist.refused
                      \/ x \in hist.late
    BY <1>1, <1>4 DEF Kept
  <2>1. x \notin flight /\ x \notin ToSet(waiters[c])  BY <1>1, <1>3
  <2>2. \A d \in Dcs : x \in ToSet(waiters[d]) /\ auth[d] # "none" =>
                       x \in ToSet(waiters'[d]) /\ auth'[d] # "none"
    BY <1>5, <1>6, <2>1
  <2> QED  BY <2>1, <2>2 DEF IInv, Kept
<1> QED  BY <1>8, <1>9, <1>10, <1>11, <1>12, <1>13 DEF IInv
-----------------------------------------------------------------------------
\* An answer to a request in flight.
LEMMA ErrorPreserves ==
    ASSUME IInv, NEW r \in Reqs, onErrorDefault(r)
    PROVE  IInv'
<1>1. Types  BY DEF IInv
<1>2. CASE otherError(r) \/ fileIdInvalid(r) \/ waitFailedAlone(r)
  <2>1. /\ Called(r) /\ now' = now
        /\ UNCHANGED <<dc, delayed, timer, waiters, auth>>
    BY <1>2 DEF otherError, fileIdInvalid, waitFailedAlone
  <2>2. delays' \in [Reqs -> Nat] /\ now' \in Nat
    BY <1>1, <2>1 DEF Called, Types
  <2>3. /\ requests' = requests \ {r} /\ flight' = flight \ {r}
        /\ parser' = requests' /\ hist' = hist
    BY <1>1, <2>1 DEF Called, Types
  <2>4. /\ requests' \subseteq requests /\ flight' \subseteq flight
        /\ flight \cap requests' \subseteq flight'
    BY <2>3
  <2> QED  BY <2>1, <2>2, <2>3, <2>4, DonePreserves
<1>3. CASE notInited(r) \/ waitFailedElsewhere(r)
  <2>1. UNCHANGED <<parser, requests, dc, flight, delayed, delays, timer,
                    waiters, auth, now, hist>>
    BY <1>3 DEF notInited, waitFailedElsewhere
  <2>2. delays' \in [Reqs -> Nat] /\ now' \in Nat /\ parser' = requests'
    BY <1>1, <2>1 DEF Types
  <2> QED  BY <2>1, <2>2, DonePreserves
<1>4. CASE serverError(r)  BY <1>4, ServerErrorPreserves
<1>5. ASSUME NEW c \in Dcs, migrate(r, c)  PROVE IInv'
  BY <1>5, MigratePreserves
<1>6. ASSUME NEW secs \in 1 .. 2, floodWait(r, secs)  PROVE IInv'
  BY <1>6, FloodWaitPreserves
<1>7. ASSUME NEW bad \in BOOLEAN, unauthorized(r, bad)  PROVE IInv'
  BY <1>7, UnauthorizedPreserves
<1>8. CASE waitFailedWaits(r)  BY <1>8, WaitFailedWaitsPreserves
<1>9. CASE waitFailedDelayed(r)  BY <1>9, WaitFailedDelayedPreserves
<1> QED  BY <1>2, <1>3, <1>4, <1>5, <1>6, <1>7, <1>8, <1>9 DEF onErrorDefault

LEMMA NextPreserves == IInv /\ [Next]_vars => IInv'
<1> SUFFICES ASSUME IInv, [Next]_vars  PROVE IInv'  OBVIOUS
<1>1. Types  BY DEF IInv
<1>2. ASSUME NEW r \in Reqs, NEW c \in Dcs, sendRequest(r, c)  PROVE IInv'
  BY <1>2, SendPreserves
<1>3. ASSUME NEW r \in Reqs, cancel(r)  PROVE IInv'
  <2>1. /\ requests' = requests \ {r} /\ parser' = requests'
        /\ flight' \in {flight, flight \ {r}}
        /\ delays' = [delays EXCEPT ![r] = 0]
        /\ UNCHANGED <<dc, delayed, timer, waiters, auth, now, hist>>
    BY <1>1, <1>3 DEF cancel, Types
  <2>2. /\ requests' \subseteq requests /\ flight' \subseteq flight
        /\ flight \cap requests' \subseteq flight'
    BY <2>1
  <2>3. delays' \in [Reqs -> Nat] /\ now' \in Nat  BY <1>1, <2>1 DEF Types
  <2> QED  BY <2>1, <2>2, <2>3, DonePreserves
<1>4. ASSUME NEW r \in Reqs, execCallback(r)  PROVE IInv'
  <2>1. /\ requests' = requests \ {r} /\ parser' = requests'
        /\ flight' = flight \ {r}
        /\ delays' = [delays EXCEPT ![r] = 0]
        /\ UNCHANGED <<dc, delayed, timer, waiters, auth, now, hist>>
    BY <1>1, <1>4 DEF execCallback, Called, Types
  <2>2. /\ requests' \subseteq requests /\ flight' \subseteq flight
        /\ flight \cap requests' \subseteq flight'
    BY <2>1
  <2>3. delays' \in [Reqs -> Nat] /\ now' \in Nat  BY <1>1, <2>1 DEF Types
  <2> QED  BY <2>1, <2>2, <2>3, DonePreserves
<1>5. ASSUME NEW r \in Reqs, onErrorDefault(r)  PROVE IInv'
  BY <1>5, ErrorPreserves
<1>6. CASE checkDelayedRequests  BY <1>6, CheckPreserves
<1>7. CASE tick
  <2>1. UNCHANGED <<parser, requests, dc, flight, delayed, delays, timer,
                    waiters, auth, hist>>
    BY <1>7 DEF tick
  <2>2. delays' \in [Reqs -> Nat] /\ now' \in Nat /\ parser' = requests'
    BY <1>1, <1>7, <2>1 DEF Types, tick
  <2> QED  BY <2>1, <2>2, DonePreserves
<1>8. ASSUME NEW c \in Dcs, authStep(c)  PROVE IInv'
  <2>1. CASE exportDone(c)  BY <2>1, ExportDonePreserves
  <2>2. CASE exportFail(c) \/ importFail(c)  BY <2>2, RefusedPreserves
  <2>3. CASE importDone(c)  BY <2>3, ImportDonePreserves
  <2> QED  BY <1>8, <2>1, <2>2, <2>3 DEF authStep
<1>9. CASE UNCHANGED vars
  <2>1. UNCHANGED <<parser, requests, dc, flight, delayed, delays, timer,
                    waiters, auth, now, hist>>
    BY <1>9 DEF vars
  <2>2. delays' \in [Reqs -> Nat] /\ now' \in Nat /\ parser' = requests'
    BY <1>1, <2>1 DEF Types
  <2> QED  BY <2>1, <2>2, DonePreserves
<1> QED  BY <1>2, <1>3, <1>4, <1>5, <1>6, <1>7, <1>8, <1>9 DEF Next, Answers

LEMMA WaitsIsWaiting ==
    ASSUME Types
    PROVE  /\ \A r, c : c \in Dcs => (Contains(waiters[c], r) <=> r \in ToSet(waiters[c]))
           /\ \A r : Waits(r) <=> Waiting(r)
           /\ \A r : IsDelayed(r) <=> r \in Ids(delayed)
<1>1. ASSUME NEW c \in Dcs, NEW r
      PROVE  Contains(waiters[c], r) <=> r \in ToSet(waiters[c])
  <2>1. waiters[c] \in Seq(Reqs)  BY DEF Types
  <2>2. DOMAIN waiters[c] = 1 .. Len(waiters[c])  BY <2>1
  <2> QED  BY <2>2 DEF Contains, ToSet
<1>2. \A r : IsDelayed(r) <=> r \in Ids(delayed)  BY DEF IsDelayed, Ids
<1> QED  BY <1>1, <1>2 DEF Waits, Waiting

\* What is known of the queues and of the requests in every state of
\* MTP::Instance.
THEOREM InstanceInductiveInvariant == Spec => []IInv
<1>1. Init => IInv  BY InitEstablishes
<1>2. IInv /\ [Next]_vars => IInv'  BY NextPreserves
<1> QED  BY <1>1, <1>2, PTL DEF Spec

\* A request whose handler waits is in flight, among the delayed or among
\* those that wait for an authorization, and never in two of these places:
\* no error makes it be sent twice.
THEOREM InstanceSendsOnce == Spec => []InOnePlace
<1>1. IInv => InOnePlace
  BY WaitsIsWaiting DEF IInv, Placed, InOnePlace
<1> QED  BY <1>1, InstanceInductiveInvariant, PTL

\* A request is stranded only by an authorization that was refused and by a
\* failed dependency that is answered late.
THEOREM InstanceStrandsNone == Spec => []NoneStranded
<1>1. IInv => NoneStranded
  <2> SUFFICES ASSUME IInv  PROVE NoneStranded  OBVIOUS
  <2>1. Types /\ parser = requests  BY DEF IInv, Types
  <2> QED  BY <2>1, WaitsIsWaiting DEF IInv, Kept, NoneStranded
<1> QED  BY <1>1, InstanceInductiveInvariant, PTL

\* The delayed requests are in the order of their times, and the timer of
\* checkDelayedRequests is set for the first of them.
THEOREM InstanceNeverOversleeps == Spec => []DelayedInTime
<1>1. IInv => DelayedInTime  BY DEF IInv, InTime, Ordered, DelayedInTime
<1> QED  BY <1>1, InstanceInductiveInvariant, PTL
=============================================================================
