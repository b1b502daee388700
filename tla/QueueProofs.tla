---------------------------- MODULE QueueProofs ----------------------------
(***************************************************************************)
(* Proofs about two components whose handlers work off a queue one element *)
(* at a time: the uploader (its sendNext calls itself until a part is sent *)
(* or it has to wait) and the sequence layer of the updates (a container   *)
(* that is fed feeds the next one that is stored).  Both loops are         *)
(* functions on 0 .. n, so that what every step keeps, the whole keeps by  *)
(* induction on n.                                                         *)
(*                                                                         *)
(* They hold for every set of files, every size of their parts, every      *)
(* number of sessions and every limit of the uploader; for the three       *)
(* servers of SeqUpdates, every order of containers and messages; and for  *)
(* all bounds of a behaviour.                                              *)
(***************************************************************************)
EXTENDS Uploader, SeqUpdates, FiniteSetTheorems, WellFoundedInduction, TLAPS

-----------------------------------------------------------------------------
(* Induction: a set of numbers with 0 that holds the successor of each of    *)
(* its elements has all of them.                                           *)

LEMMA NatSet ==
    ASSUME NEW S, 0 \in S, \A n \in Nat : n \in S => n + 1 \in S
    PROVE  Nat \subseteq S
<1> SUFFICES ASSUME NEW k \in Nat, k \notin S PROVE FALSE  OBVIOUS
<1> DEFINE T == {i \in 0 .. k : i \notin S}
           F == {0 .. i : i \in T}
           R == StrictSubsetOrdering(0 .. k)
<1>1. IsFiniteSet(0 .. k)  BY FS_Interval
<1>2. IsWellFoundedOn(R, SUBSET (0 .. k))
  BY <1>1, FS_StrictSubsetOrderingWellFounded, FS_FiniteSubsetsOfFinite
<1>3. F \subseteq SUBSET (0 .. k) /\ F # {}  OBVIOUS
<1> HIDE DEF R
<1>4. PICK x \in F : \A y \in F : ~ (<<y, x>> \in R)
  <2> HIDE DEF F, T
  <2> QED  BY <1>2, <1>3, WFMin, Zenon
<1>5. PICK i \in T : x = 0 .. i  BY <1>4
<1>6. i # 0 /\ i - 1 \in Nat /\ i - 1 \in 0 .. k  BY <1>5
<1>7. i - 1 \notin S
  <2> SUFFICES ASSUME i - 1 \in S PROVE FALSE  OBVIOUS
  <2>1. (i - 1) + 1 \in S  BY <1>6
  <2>2. (i - 1) + 1 = i  BY <1>5
  <2> QED  BY <2>1, <2>2, <1>5
<1>8. 0 .. (i - 1) \in F  BY <1>6, <1>7
<1>9. /\ 0 .. (i - 1) \subseteq 0 .. i /\ i \in 0 .. i /\ i \notin 0 .. (i - 1)
      /\ 0 .. (i - 1) # 0 .. i
  BY <1>5
<1>10. <<0 .. (i - 1), 0 .. i>> \in R
  BY <1>9, <1>8, <1>3, <1>5, <1>4 DEF R, StrictSubsetOrdering
<1> QED  BY <1>10, <1>8, <1>5, <1>4

\* A set of numbers that is not empty has a smallest element.
LEMMA NatMin ==
    ASSUME NEW S, S \subseteq Nat, S # {}
    PROVE  Min(S) \in S /\ \A y \in S : Min(S) <= y
<1>1. \E m \in S : \A y \in S : m <= y
  <2> SUFFICES ASSUME \A m \in S : \E y \in S : ~(m <= y) PROVE FALSE  OBVIOUS
  <2> DEFINE Below == {n \in Nat : \A m \in S : m > n}
  <2>1. 0 \in Below  OBVIOUS
  <2>2. ASSUME NEW n \in Nat, n \in Below PROVE n + 1 \in Below
    <3> SUFFICES ASSUME NEW m \in S, ~(m > n + 1) PROVE FALSE  OBVIOUS
    <3>1. m = n + 1  BY <2>2
    <3>2. PICK y \in S : ~(m <= y)  OBVIOUS
    <3> QED  BY <3>1, <3>2, <2>2
  <2> HIDE DEF Below
  <2>3. Nat \subseteq Below  BY <2>1, <2>2, NatSet
  <2>4. PICK m \in S : TRUE  OBVIOUS
  <2> QED  BY <2>3, <2>4 DEF Below
<1> QED  BY <1>1 DEF Min

-----------------------------------------------------------------------------
(* The uploader: its invariant. *)

\* The fields of Uploader.
Shape(u) ==
    {"queue", "small", "doc", "current", "sent", "sentSize", "sentSizes", "paused",
     "nextTimer", "stopTimer", "out", "reports", "gone", "cut"} \subseteq DOMAIN u

\* The parts of a file that were sent.
PartsSent(u, f) == {Part(f, "small", i) : i \in 1 .. u.small[f]}
                   \cup {Part(f, "doc", i) : i \in 1 .. u.doc[f]}

Typed(u) ==
    /\ Shape(u) /\ u.queue \subseteq Files
    /\ u.small \in [Files -> Nat] /\ u.doc \in [Files -> Nat]
    /\ \A p \in DOMAIN u.sent : u.sent[p] \in Sessions
    /\ IsFiniteSet(Bytes(DOMAIN u.sent))
    /\ u.sentSizes = [s \in Sessions |-> u.sentSizes[s]]

\* No more parts than the file has.
Counted(u) == \A f \in Files : u.small[f] <= Small[f] /\ u.doc[f] <= docPartsCount(f)

\* What is waited for was sent, is of the current file, and is on its way (n is
\* what was on its way before).
Waited(u, n) ==
    \A p \in DOMAIN u.sent : /\ p \in PartsSent(u, u.current)
                             /\ u.current \in u.queue /\ p \in n \cup u.out

Sized(u) ==
    /\ u.sentSize = SizeSum(DOMAIN u.sent)
    /\ \A s \in Sessions : u.sentSizes[s] = SizeSum({p \in DOMAIN u.sent : u.sent[p] = s})

\* What was sent of a file in the queue is waited for or accepted.
Sent(u, a) == \A f \in u.queue : PartsSent(u, f) \subseteq DOMAIN u.sent \cup a

\* Of a file that is neither queued nor reported nothing was sent.
Unknown(u, t, f) ==
    f \notin u.queue /\ \A what \in Outcomes : <<f, what>> \notin t \cup u.reports
Begun(u, t) == \A f \in Files : Unknown(u, t, f) => u.small[f] = 0 /\ u.doc[f] = 0

Whole(u, a, t) == \A f \in Files : <<f, "ready">> \in t \cup u.reports => AllParts(f) \subseteq a

\* The state u of the uploader, in the middle of sendNext or after it.
Good(u, n, a, t) ==
    /\ Typed(u) /\ Counted(u) /\ Waited(u, n) /\ Sized(u) /\ Sent(u, a)
    /\ Begun(u, t) /\ Whole(u, a, t)

IInv == Good(up, net, acked, told) /\ up.out = {} /\ up.reports = {}

-----------------------------------------------------------------------------
(* Parts and their sizes. *)

\* setDocSize finds a size, whatever the length of the file.
LEMMA PartSizeType ==
    ASSUME NEW f \in Files
    PROVE  docPartSize(f) \in Nat \ {0} /\ docPartsCount(f) \in Nat
<1> DEFINE allowed(i) == CASE i = 1 -> DocSize[f] < SizeLimits[1]
                            [] i = 2 -> DocSize[f] <= SizeLimits[2]
                            [] OTHER -> TRUE
           fits == {i \in DOMAIN PartSizes : allowed(i) /\ FitsIn(DocSize[f], PartSizes[i])}
           S == fits \cup {Len(PartSizes)}
<1>1. /\ PartSizes \in Seq(Nat \ {0}) /\ Len(PartSizes) >= 2 /\ DocSize[f] \in Nat
      /\ Len(PartSizes) \in Nat /\ DOMAIN PartSizes = 1 .. Len(PartSizes)
  BY ConstantsAssumption DEF ConstantsAssumption
<1>2. S \subseteq 1 .. Len(PartSizes) /\ S # {}  BY <1>1
<1>3. docPartSize(f) = PartSizes[Min(S)]  BY Zenon DEF docPartSize
<1> HIDE DEF S
<1>4. Min(S) \in 1 .. Len(PartSizes)
  <2>1. S \subseteq Nat  BY <1>1, <1>2
  <2> QED  BY <2>1, <1>2, NatMin
<1>5. docPartSize(f) \in Nat \ {0}  BY <1>1, <1>3, <1>4
<1>6. Ceil(DocSize[f], docPartSize(f)) \in Nat
  <2> SUFFICES ASSUME NEW a \in Nat, NEW b \in Nat \ {0} PROVE Ceil(a, b) \in Nat
    BY <1>1, <1>5
  <2>1. a \div b \in Nat  BY SMT
  <2> QED  BY <2>1 DEF Ceil
<1> QED  BY <1>5, <1>6 DEF docPartsCount

LEMMA PartIs ==
    ASSUME NEW f, NEW k, NEW i
    PROVE  /\ Part(f, k, i).file = f /\ Part(f, k, i).kind = k /\ Part(f, k, i).index = i
           /\ k = "small" => SizeOf(Part(f, k, i)) = SmallSize
           /\ k # "small" => SizeOf(Part(f, k, i)) = docPartSize(f)
BY DEF Part, SizeOf

LEMMA SizeType ==
    ASSUME NEW u, Typed(u), NEW f \in Files, NEW p \in PartsSent(u, f)
    PROVE  SizeOf(p) \in Nat /\ p.file = f
BY PartIs, PartSizeType DEF PartsSent, SmallSize

LEMMA SumOf ==
    ASSUME NEW S, IsFiniteSet(Bytes(S)), NEW T \in SUBSET S
    PROVE  IsFiniteSet(Bytes(T)) /\ SizeSum(T) \in Nat
<1>1. Bytes(T) \subseteq Bytes(S)  BY DEF Bytes
<1> QED  BY <1>1, FS_Subset, FS_CardinalityType DEF SizeSum

\* A part more adds its size.
LEMMA SumMore ==
    ASSUME NEW S, IsFiniteSet(Bytes(S)), NEW p, p \notin S, SizeOf(p) \in Nat
    PROVE  IsFiniteSet(Bytes(S \cup {p})) /\ SizeSum(S \cup {p}) = SizeSum(S) + SizeOf(p)
<1> DEFINE B == {p} \X (1 .. SizeOf(p))
<1>1. Bytes(S \cup {p}) = Bytes(S) \cup B  BY DEF Bytes
<1>2. Bytes(S) \cap B = {}  BY DEF Bytes
<1>3. IsFiniteSet(1 .. SizeOf(p)) /\ Cardinality(1 .. SizeOf(p)) = SizeOf(p)
  BY FS_Interval
<1>4. IsFiniteSet({p}) /\ Cardinality({p}) = 1  BY FS_Singleton
<1>5. IsFiniteSet(B) /\ Cardinality(B) = 1 * SizeOf(p)  BY <1>3, <1>4, FS_Product
<1>6. Cardinality(Bytes(S)) \in Nat  BY FS_CardinalityType
<1>7. Cardinality({}) = 0  BY FS_EmptySet
<1> HIDE DEF B
<1>8. /\ IsFiniteSet(Bytes(S) \cup B)
      /\ Cardinality(Bytes(S) \cup B)
             = Cardinality(Bytes(S)) + Cardinality(B) - Cardinality(Bytes(S) \cap B)
  BY <1>5, FS_Union
<1>9. Cardinality(Bytes(S) \cap B) = 0  BY Zenon, <1>2, <1>7
<1>10. Cardinality(B) = SizeOf(p)  BY <1>5
<1>11. SizeSum(S \cup {p}) = Cardinality(Bytes(S) \cup B)  BY Zenon, <1>1 DEF SizeSum
<1>12. IsFiniteSet(Bytes(S \cup {p}))  BY Zenon, <1>1, <1>8
<1> QED  BY <1>6, <1>8, <1>9, <1>10, <1>11, <1>12 DEF SizeSum

LEMMA SumLess ==
    ASSUME NEW S, IsFiniteSet(Bytes(S)), NEW p \in S, SizeOf(p) \in Nat
    PROVE  SizeSum(S \ {p}) = SizeSum(S) - SizeOf(p)
<1>1. IsFiniteSet(Bytes(S \ {p})) /\ SizeSum(S \ {p}) \in Nat  BY SumOf
<1>2. (S \ {p}) \cup {p} = S /\ p \notin S \ {p}  OBVIOUS
<1>3. SizeSum(S) = SizeSum(S \ {p}) + SizeOf(p)  BY <1>1, <1>2, SumMore
<1> QED  BY <1>1, <1>3

LEMMA SumNone == IsFiniteSet(Bytes({})) /\ SizeSum({}) = 0
<1>1. Bytes({}) = {}  BY DEF Bytes
<1> QED  BY <1>1, FS_EmptySet DEF SizeSum

\* There is a session with the fewest bytes under way.
LEMMA SessionChosen ==
    ASSUME NEW u, Typed(u), Sized(u)
    PROVE  todc(u) \in Sessions
<1> DEFINE sizes == {u.sentSizes[s] : s \in Sessions}
           S == {s \in Sessions : \A t \in Sessions : u.sentSizes[s] <= u.sentSizes[t]}
<1>1. Sessions \subseteq Nat /\ 0 \in Sessions
  BY ConstantsAssumption DEF ConstantsAssumption
<1>2. ASSUME NEW s \in Sessions PROVE u.sentSizes[s] \in Nat
  <2>1. SizeSum({p \in DOMAIN u.sent : u.sent[p] = s}) \in Nat  BY SumOf DEF Typed
  <2> QED  BY <2>1 DEF Sized
<1>3. sizes \subseteq Nat /\ sizes # {}  BY <1>1, <1>2
<1>4. PICK s \in Sessions : u.sentSizes[s] = Min(sizes)  BY <1>3, NatMin
<1>5. s \in S
  <2>1. \A y \in sizes : Min(sizes) <= y  BY <1>3, NatMin
  <2> QED  BY <2>1, <1>4
<1>6. Min(S) \in S
  <2>1. S \subseteq Nat /\ S # {}  BY <1>1, <1>5
  <2> HIDE DEF S
  <2> QED  BY <2>1, NatMin
<1> QED  BY <1>6 DEF todc

-----------------------------------------------------------------------------
(* What sendNext is made of keeps Good. *)

\* Two states of the uploader with the same parts sent and waited for.
Same(u, v) ==
    /\ v.small = u.small /\ v.doc = u.doc /\ v.sent = u.sent
    /\ v.sentSize = u.sentSize /\ v.sentSizes = u.sentSizes

LEMMA SamePartsSent ==
    ASSUME NEW u, NEW v, v.small = u.small, v.doc = u.doc, NEW f
    PROVE  PartsSent(v, f) = PartsSent(u, f)
BY DEF PartsSent

LEMMA SameKept ==
    ASSUME NEW u, NEW v, NEW n, NEW a, NEW t, Good(u, n, a, t), Shape(v), Same(u, v),
           v.queue \subseteq u.queue
    PROVE  Typed(v) /\ Counted(v) /\ Sized(v) /\ Sent(v, a)
<1>1. \A f : PartsSent(v, f) = PartsSent(u, f)  BY SamePartsSent DEF Same
<1>2. Typed(v)  BY DEF Good, Typed, Same
<1>3. Counted(v) /\ Sized(v)  BY DEF Good, Counted, Sized, Same
<1>4. Sent(v, a)  BY <1>1 DEF Good, Sent, Same
<1> QED  BY <1>2, <1>3, <1>4

\* What is waited for is of no other file.
LEMMA WaitedIs ==
    ASSUME NEW u, NEW n, NEW a, NEW t, Good(u, n, a, t), NEW p \in DOMAIN u.sent
    PROVE  /\ p \in PartsSent(u, u.current) /\ u.current \in u.queue /\ u.current \in Files
           /\ p.file = u.current /\ SizeOf(p) \in Nat /\ p \in n \cup u.out
<1>1. p \in PartsSent(u, u.current) /\ u.current \in u.queue /\ p \in n \cup u.out
  BY DEF Good, Waited
<1>2. u.current \in Files /\ Typed(u)  BY <1>1 DEF Good, Typed
<1> QED  BY <1>1, <1>2, SizeType

LEMMA PickKeeps ==
    ASSUME NEW u, NEW n, NEW a, NEW t, Good(u, n, a, t),
           NEW f \in u.queue, u.current \in u.queue => f = u.current
    PROVE  /\ Good(Pick(u, f), n, a, t) /\ Pick(u, f).current = f
           /\ Pick(u, f).queue = u.queue
<1> DEFINE v == Pick(u, f)
<1>1. Shape(u)  BY DEF Good, Typed
<1>2. /\ Shape(v) /\ Same(u, v) /\ v.current = f /\ v.queue = u.queue
      /\ v.out = u.out /\ v.reports = u.reports
  BY <1>1 DEF Pick, Shape, Same
<1> HIDE DEF v
<1>3. Typed(v) /\ Counted(v) /\ Sized(v) /\ Sent(v, a)  BY <1>2, SameKept
<1>4. Waited(v, n)
  <2> SUFFICES ASSUME NEW p \in DOMAIN v.sent
               PROVE  p \in PartsSent(v, f) /\ f \in v.queue /\ p \in n \cup v.out
    BY <1>2 DEF Waited
  <2>1. p \in DOMAIN u.sent  BY <1>2 DEF Same
  <2>2. f = u.current /\ p \in PartsSent(u, f) /\ p \in n \cup u.out  BY <2>1, WaitedIs
  <2>3. PartsSent(v, f) = PartsSent(u, f)  BY <1>2, SamePartsSent DEF Same
  <2> QED  BY <2>2, <2>3, <1>2
<1>5. Begun(v, t) /\ Whole(v, a, t)  BY <1>2 DEF Good, Begun, Whole, Unknown, Same
<1> QED  BY <1>2, <1>3, <1>4, <1>5 DEF Good, v

\* Another part p of the current file is sent; w is u with p counted.
LEMMA SendKeeps ==
    ASSUME NEW u, NEW n, NEW a, NEW t, Good(u, n, a, t), u.current \in u.queue,
           NEW w, Shape(w), NEW p,
           /\ w.queue = u.queue /\ w.current = u.current /\ w.sent = u.sent
           /\ w.sentSize = u.sentSize /\ w.sentSizes = u.sentSizes
           /\ w.out = u.out /\ w.reports = u.reports,
           w.small \in [Files -> Nat], w.doc \in [Files -> Nat], Counted(w),
           \A f \in Files \ {u.current} : w.small[f] = u.small[f] /\ w.doc[f] = u.doc[f],
           PartsSent(w, u.current) = PartsSent(u, u.current) \cup {p},
           p \notin PartsSent(u, u.current)
    PROVE  Good(SendPart(w, p), n, a, t)
<1> DEFINE v == SendPart(w, p)
           dc == todc(w)
           c == u.current
<1>1. Typed(u) /\ Sized(u) /\ c \in Files  BY DEF Good, Typed
<1>2. Typed(w) /\ Sized(w)  BY <1>1 DEF Typed, Sized
<1>3. dc \in Sessions  BY <1>2, SessionChosen
<1>4. SizeOf(p) \in Nat  BY <1>2, <1>1, SizeType
<1>5. p \notin DOMAIN u.sent  BY DEF Good, Waited
<1>6. /\ Shape(v) /\ v.queue = u.queue /\ v.small = w.small /\ v.doc = w.doc
      /\ v.current = c
      /\ v.sent = [q \in DOMAIN u.sent \cup {p} |-> IF q = p THEN dc ELSE u.sent[q]]
      /\ v.sentSize = u.sentSize + SizeOf(p)
      /\ v.sentSizes = [u.sentSizes EXCEPT ![dc] = @ + SizeOf(p)]
      /\ v.out = u.out \cup {p} /\ v.reports = u.reports
  BY DEF SendPart, Shape
<1> HIDE DEF v, dc
<1>7. DOMAIN v.sent = DOMAIN u.sent \cup {p}  BY <1>6
<1>8. \A q \in DOMAIN u.sent : v.sent[q] = u.sent[q]  BY <1>5, <1>6
<1>9. v.sent[p] = dc  BY <1>6
<1>10. /\ IsFiniteSet(Bytes(DOMAIN v.sent))
       /\ SizeSum(DOMAIN v.sent) = SizeSum(DOMAIN u.sent) + SizeOf(p)
  BY <1>1, <1>4, <1>5, <1>7, SumMore DEF Typed
<1>11. Typed(v)
  <2>1. v.sentSizes = [s \in Sessions |-> v.sentSizes[s]]  BY <1>1, <1>6 DEF Typed
  <2>2. \A q \in DOMAIN v.sent : v.sent[q] \in Sessions
    BY <1>1, <1>3, <1>7, <1>8, <1>9 DEF Typed
  <2> QED  BY <1>1, <1>6, <1>10, <2>1, <2>2 DEF Typed
<1>12. Counted(v)  BY <1>6 DEF Counted
<1>13. \A f : PartsSent(v, f) = PartsSent(w, f)  BY <1>6, SamePartsSent
<1>14. Waited(v, n)
  <2> SUFFICES ASSUME NEW q \in DOMAIN v.sent
               PROVE  q \in PartsSent(v, c) /\ q \in n \cup v.out
    BY <1>6 DEF Waited
  <2>1. CASE q = p  BY <2>1, <1>6, <1>13
  <2>2. CASE q \in DOMAIN u.sent
    BY <2>2, <1>6, <1>13 DEF Good, Waited
  <2> QED  BY <2>1, <2>2, <1>7
<1>15. Sized(v)
  <2>1. v.sentSize = SizeSum(DOMAIN v.sent)  BY <1>1, <1>6, <1>10 DEF Sized
  <2> SUFFICES ASSUME NEW s \in Sessions
               PROVE  v.sentSizes[s] = SizeSum({q \in DOMAIN v.sent : v.sent[q] = s})
    BY <2>1 DEF Sized
  <2> DEFINE S == {q \in DOMAIN u.sent : u.sent[q] = s}
  <2>2. u.sentSizes[s] = SizeSum(S)  BY <1>1 DEF Sized
  <2>3. IsFiniteSet(Bytes(S))  BY <1>1, SumOf DEF Typed
  <2>4. CASE s = dc
    <3>1. {q \in DOMAIN v.sent : v.sent[q] = s} = S \cup {p}
      BY <2>4, <1>7, <1>8, <1>9
    <3>2. v.sentSizes[s] = u.sentSizes[s] + SizeOf(p)  BY <2>4, <1>1, <1>3, <1>6 DEF Typed
    <3>3. p \notin S  BY <1>5
    <3> HIDE DEF S
    <3> QED  BY <3>1, <3>2, <3>3, <2>2, <2>3, <1>4, SumMore
  <2>5. CASE s # dc
    <3>1. {q \in DOMAIN v.sent : v.sent[q] = s} = S
      BY <2>5, <1>7, <1>8, <1>9
    <3>2. v.sentSizes[s] = u.sentSizes[s]  BY <2>5, <1>1, <1>6 DEF Typed
    <3> QED  BY <3>1, <3>2, <2>2
  <2> QED  BY <2>4, <2>5
<1>16. Sent(v, a)
  <2> SUFFICES ASSUME NEW f \in u.queue PROVE PartsSent(v, f) \subseteq DOMAIN v.sent \cup a
    BY <1>6 DEF Sent
  <2>1. PartsSent(u, f) \subseteq DOMAIN u.sent \cup a  BY DEF Good, Sent
  <2>2. CASE f = c  BY <2>1, <2>2, <1>7, <1>13
  <2>3. CASE f # c
    <3>1. f \in Files  BY <1>1 DEF Typed
    <3>2. PartsSent(w, f) = PartsSent(u, f)  BY <2>3, <3>1 DEF PartsSent
    <3> QED  BY <3>2, <2>1, <1>7, <1>13
  <2> QED  BY <2>2, <2>3
<1>17. Begun(v, t)
  <2> SUFFICES ASSUME NEW f \in Files, Unknown(v, t, f)
               PROVE  v.small[f] = 0 /\ v.doc[f] = 0
    BY DEF Begun
  <2>1. Unknown(u, t, f) /\ f # c  BY <1>6 DEF Unknown
  <2> QED  BY <2>1, <1>6 DEF Good, Begun
<1>18. Whole(v, a, t)  BY <1>6 DEF Good, Whole
<1> QED  BY <1>11, <1>12, <1>14, <1>15, <1>16, <1>17, <1>18 DEF Good, v

\* currentFailed, before it calls sendNext.
LEMMA FailKeeps ==
    ASSUME NEW u, NEW n, NEW a, NEW t, Good(u, n, a, t)
    PROVE  Good(Fail(u), n, a, t)
<1> DEFINE v == Fail(u)
           c == u.current
<1>1. Typed(u) /\ Shape(u)  BY DEF Good, Typed
<1>2. /\ Shape(v) /\ v.queue = u.queue \ {c} /\ v.small = u.small /\ v.doc = u.doc
      /\ v.sent = <<>> /\ v.sentSize = 0 /\ v.sentSizes = [s \in Sessions |-> 0]
      /\ v.out = u.out
      /\ v.reports = IF c \in u.queue THEN u.reports \cup {<<c, "failed">>} ELSE u.reports
  BY <1>1 DEF Fail, Forget, Report, Shape
<1> HIDE DEF v
<1>3. DOMAIN v.sent = {}  BY <1>2
<1>4. Typed(v)  BY <1>1, <1>2, <1>3, SumNone DEF Typed
<1>5. Counted(v)  BY <1>2 DEF Good, Counted
<1>6. Waited(v, n)  BY <1>3 DEF Waited
<1>7. Sized(v)
  <2>1. \A s \in Sessions : {p \in DOMAIN v.sent : v.sent[p] = s} = {}  BY <1>3
  <2> QED  BY <2>1, <1>2, <1>3, SumNone DEF Sized
<1>8. Sent(v, a)
  <2> SUFFICES ASSUME NEW f \in u.queue, f # c, NEW p \in PartsSent(v, f) PROVE p \in a
    BY <1>2 DEF Sent
  <2>1. p \in PartsSent(u, f)  BY <1>2, SamePartsSent
  <2>2. p \in DOMAIN u.sent \cup a  BY <2>1 DEF Good, Sent
  <2>3. f \in Files  BY <1>1 DEF Typed
  <2>4. p.file = f  BY <2>1, <2>3, <1>1, SizeType
  <2>5. p \notin DOMAIN u.sent  BY <2>4, WaitedIs
  <2> QED  BY <2>2, <2>5
<1>9. Begun(v, t)
  <2> SUFFICES ASSUME NEW f \in Files, Unknown(v, t, f)
               PROVE  v.small[f] = 0 /\ v.doc[f] = 0
    BY DEF Begun
  <2>1. f = c => c \notin u.queue  BY <1>2 DEF Unknown, Outcomes
  <2>2. Unknown(u, t, f)  BY <2>1, <1>2 DEF Unknown
  <2> QED  BY <2>2, <1>2 DEF Good, Begun
<1>10. Whole(v, a, t)  BY <1>2 DEF Good, Whole
<1> QED  BY <1>4, <1>5, <1>6, <1>7, <1>8, <1>9, <1>10 DEF Good, v

\* A file is ready once all its parts are accepted.
LEMMA ReadyKeeps ==
    ASSUME NEW u, NEW n, NEW a, NEW t, Good(u, n, a, t), NEW f \in u.queue,
           u.small[f] = Small[f], u.doc[f] = docPartsCount(f), AllAnswered(u)
    PROVE  Good(Ready(u, f), n, a, t)
<1> DEFINE v == Ready(u, f)
<1>1. Typed(u) /\ Shape(u) /\ f \in Files  BY DEF Good, Typed
<1>2. /\ Shape(v) /\ Same(u, v) /\ v.queue = u.queue \ {f} /\ v.out = u.out
      /\ v.reports = u.reports \cup {<<f, "ready">>}
  BY <1>1 DEF Ready, Report, Shape, Same
<1> HIDE DEF v
<1>3. DOMAIN u.sent = {} /\ DOMAIN v.sent = {}  BY <1>2 DEF AllAnswered, Same
<1>4. Typed(v) /\ Counted(v) /\ Sized(v) /\ Sent(v, a)  BY <1>2, SameKept
<1>5. Waited(v, n)  BY <1>3 DEF Waited
<1>6. Begun(v, t)
  <2> SUFFICES ASSUME NEW g \in Files, Unknown(v, t, g)
               PROVE  v.small[g] = 0 /\ v.doc[g] = 0
    BY DEF Begun
  <2>1. g # f  BY <1>2 DEF Unknown, Outcomes
  <2>2. Unknown(u, t, g)  BY <2>1, <1>2 DEF Unknown
  <2> QED  BY <2>2, <1>2 DEF Good, Begun, Same
<1>7. Whole(v, a, t)
  <2>1. AllParts(f) = PartsSent(u, f)  BY DEF AllParts, PartsSent
  <2>2. AllParts(f) \subseteq a  BY <2>1, <1>3 DEF Good, Sent
  <2> QED  BY <2>2, <1>2 DEF Good, Whole
<1> QED  BY <1>4, <1>5, <1>6, <1>7 DEF Good, v

\* The next small part, or the next of the body, of the current file.
LEMMA NextSmallKeeps ==
    ASSUME NEW u, NEW n, NEW a, NEW t, Good(u, n, a, t), NEW f \in u.queue,
           u.current = f, u.small[f] < Small[f]
    PROVE  Good(SendPart([u EXCEPT !.small[f] = @ + 1], Part(f, "small", u.small[f] + 1)),
                n, a, t)
<1> DEFINE w == [u EXCEPT !.small[f] = @ + 1]
           p == Part(f, "small", u.small[f] + 1)
<1>1. Typed(u) /\ Shape(u) /\ f \in Files /\ Counted(u)  BY DEF Good, Typed
<1>2. /\ Shape(w) /\ w.queue = u.queue /\ w.current = u.current /\ w.sent = u.sent
      /\ w.sentSize = u.sentSize /\ w.sentSizes = u.sentSizes
      /\ w.out = u.out /\ w.reports = u.reports /\ w.doc = u.doc
      /\ w.small = [u.small EXCEPT ![f] = @ + 1]
  BY <1>1 DEF Shape
<1> HIDE DEF w
<1>3. u.small \in [Files -> Nat] /\ Small \in [Files -> Nat] /\ u.doc \in [Files -> Nat]
  BY <1>1, ConstantsAssumption DEF Typed, ConstantsAssumption
<1>4. /\ w.small \in [Files -> Nat] /\ w.doc \in [Files -> Nat]
      /\ w.small[f] = u.small[f] + 1
      /\ \A g \in Files \ {f} : w.small[g] = u.small[g] /\ w.doc[g] = u.doc[g]
  BY <1>1, <1>2, <1>3
<1>5. Counted(w)  BY <1>1, <1>2, <1>3, <1>4 DEF Counted
<1>6. PartsSent(w, f) = PartsSent(u, f) \cup {p}
  <2>1. u.small[f] \in Nat  BY <1>1, <1>3
  <2>2. 1 .. (u.small[f] + 1) = (1 .. u.small[f]) \cup {u.small[f] + 1}  BY <2>1
  <2> QED  BY <2>2, <1>2, <1>4 DEF PartsSent
<1>7. p \notin PartsSent(u, f)
  <2>1. u.small[f] \in Nat  BY <1>1, <1>3
  <2> QED  BY <2>1, PartIs DEF PartsSent
<1> HIDE DEF p
<1> QED  BY <1>1, <1>2, <1>4, <1>5, <1>6, <1>7, SendKeeps DEF w, p

LEMMA NextDocKeeps ==
    ASSUME NEW u, NEW n, NEW a, NEW t, Good(u, n, a, t), NEW f \in u.queue,
           u.current = f, u.doc[f] < docPartsCount(f)
    PROVE  Good(SendPart([u EXCEPT !.doc[f] = @ + 1], Part(f, "doc", u.doc[f] + 1)),
                n, a, t)
<1> DEFINE w == [u EXCEPT !.doc[f] = @ + 1]
           p == Part(f, "doc", u.doc[f] + 1)
<1>1. Typed(u) /\ Shape(u) /\ f \in Files /\ Counted(u)  BY DEF Good, Typed
<1>2. /\ Shape(w) /\ w.queue = u.queue /\ w.current = u.current /\ w.sent = u.sent
      /\ w.sentSize = u.sentSize /\ w.sentSizes = u.sentSizes
      /\ w.out = u.out /\ w.reports = u.reports /\ w.small = u.small
      /\ w.doc = [u.doc EXCEPT ![f] = @ + 1]
  BY <1>1 DEF Shape
<1> HIDE DEF w
<1>3. u.small \in [Files -> Nat] /\ u.doc \in [Files -> Nat]
  BY <1>1 DEF Typed
<1>4. /\ w.small \in [Files -> Nat] /\ w.doc \in [Files -> Nat]
      /\ w.doc[f] = u.doc[f] + 1
      /\ \A g \in Files \ {f} : w.small[g] = u.small[g] /\ w.doc[g] = u.doc[g]
  BY <1>1, <1>2, <1>3
<1>5. Counted(w)
  <2>1. docPartsCount(f) \in Nat  BY <1>1, PartSizeType
  <2> QED  BY <2>1, <1>1, <1>2, <1>3, <1>4 DEF Counted
<1>6. PartsSent(w, f) = PartsSent(u, f) \cup {p}
  <2>1. u.doc[f] \in Nat  BY <1>1, <1>3
  <2>2. 1 .. (u.doc[f] + 1) = (1 .. u.doc[f]) \cup {u.doc[f] + 1}  BY <2>1
  <2> QED  BY <2>2, <1>2, <1>4 DEF PartsSent
<1>7. p \notin PartsSent(u, f)
  <2>1. u.doc[f] \in Nat  BY <1>1, <1>3
  <2> QED  BY <2>1, PartIs DEF PartsSent
<1> HIDE DEF p
<1> QED  BY <1>1, <1>2, <1>4, <1>5, <1>6, <1>7, SendKeeps DEF w, p

\* sendNext for one file.
LEMMA SendOfKeeps ==
    ASSUME NEW u, NEW n, NEW a, NEW t, Good(u, n, a, t), NEW f \in u.queue,
           u.current = f
    PROVE  Good(SendOf(u, f).u, n, a, t)
<1>1. f \in Files /\ Counted(u)  BY DEF Good, Typed
<1>2. Small[f] \in Nat /\ u.small[f] \in Nat /\ u.doc[f] \in Nat /\ docPartsCount(f) \in Nat
  BY <1>1, PartSizeType, ConstantsAssumption DEF ConstantsAssumption, Good, Typed
<1>3. u.small[f] <= Small[f] /\ u.doc[f] <= docPartsCount(f)  BY <1>1 DEF Counted
<1>4. CASE u.small[f] < Small[f]
  <2>1. SendOf(u, f).u
            = SendPart([u EXCEPT !.small[f] = @ + 1], Part(f, "small", u.small[f] + 1))
    BY <1>2, <1>4 DEF SendOf
  <2> QED  BY <2>1, <1>4, NextSmallKeeps
<1>5. CASE u.small[f] = Small[f] /\ u.doc[f] < docPartsCount(f)
  <2>1. SendOf(u, f).u = Fail(u)
        \/ SendOf(u, f).u = SendPart([u EXCEPT !.doc[f] = @ + 1], Part(f, "doc", u.doc[f] + 1))
    BY <1>2, <1>5 DEF SendOf
  <2> QED  BY <2>1, <1>5, FailKeeps, NextDocKeeps
<1>6. CASE u.small[f] = Small[f] /\ u.doc[f] = docPartsCount(f)
  <2>1. SendOf(u, f).u = IF AllAnswered(u) THEN Ready(u, f) ELSE u
    BY <1>2, <1>6 DEF SendOf
  <2> QED  BY <2>1, <1>6, ReadyKeeps
<1> QED  BY <1>2, <1>3, <1>4, <1>5, <1>6

LEMMA SendStepKeeps ==
    ASSUME NEW b, NEW n, NEW a, NEW t, Good(b.u, n, a, t)
    PROVE  Good(SendStep(b).u, n, a, t)
<1> DEFINE u == b.u
           f == IF u.current \in u.queue THEN u.current ELSE Min(u.queue)
<1>1. CASE ~b.more \/ Holds(u)
  BY <1>1 DEF SendStep
<1>2. CASE ~(~b.more \/ Holds(u)) /\ u.queue = {}
  <2> DEFINE v == [u EXCEPT !.stopTimer = TRUE]
  <2>1. SendStep(b).u = v  BY <1>2 DEF SendStep
  <2>2. /\ Shape(v) /\ Same(u, v) /\ v.queue = u.queue /\ v.current = u.current
        /\ v.out = u.out /\ v.reports = u.reports
    BY DEF Good, Typed, Shape, Same
  <2> HIDE DEF v, u
  <2>3. Typed(v) /\ Counted(v) /\ Sized(v) /\ Sent(v, a)  BY <2>2, SameKept DEF u
  <2>4. Waited(v, n) /\ Begun(v, t) /\ Whole(v, a, t)
    <3>1. \A g : PartsSent(v, g) = PartsSent(u, g)  BY <2>2, SamePartsSent DEF Same
    <3> QED  BY <2>2, <3>1 DEF u, Good, Waited, Begun, Whole, Unknown, Same
  <2> QED  BY <2>1, <2>3, <2>4 DEF Good
<1>3. CASE ~(~b.more \/ Holds(u)) /\ u.queue # {}
  <2>1. SendStep(b) = SendOf(Pick(u, f), f)  BY <1>3 DEF SendStep
  <2>2. f \in u.queue
    <3>1. u.queue \subseteq Nat
      BY ConstantsAssumption DEF ConstantsAssumption, Good, Typed
    <3> QED  BY <3>1, <1>3, NatMin
  <2>3. u.current \in u.queue => f = u.current  OBVIOUS
  <2> HIDE DEF f
  <2>4. /\ Good(Pick(u, f), n, a, t) /\ Pick(u, f).current = f
        /\ Pick(u, f).queue = u.queue
    BY <2>2, <2>3, PickKeeps
  <2> QED  BY <2>1, <2>2, <2>4, SendOfKeeps
<1> QED  BY <1>1, <1>2, <1>3


LEMMA SendNextIs ==
    ASSUME NEW u, Cardinality(u.queue) \in Nat
    PROVE  \E r : /\ sendNext(u) = r[Cardinality(u.queue) + 1].u
                  /\ r[0] = [u |-> u, more |-> TRUE]
                  /\ \A i \in 1 .. Cardinality(u.queue) + 1 : r[i] = SendStep(r[i - 1])
<1> DEFINE last == Cardinality(u.queue) + 1
           Steps(r, k) == r = [i \in 0 .. k |-> IF i = 0 THEN [u |-> u, more |-> TRUE]
                                                ELSE SendStep(r[i - 1])]
           K == {k \in Nat : \E r : Steps(r, k)}
<1>0. ASSUME NEW r, NEW k \in Nat, Steps(r, k), NEW i \in 0 .. k
      PROVE  r[i] = IF i = 0 THEN [u |-> u, more |-> TRUE] ELSE SendStep(r[i - 1])
  <2> DEFINE value(j) == IF j = 0 THEN [u |-> u, more |-> TRUE] ELSE SendStep(r[j - 1])
             g == [j \in 0 .. k |-> value(j)]
  <2>1. r = g  BY <1>0
  <2>2. g[i] = value(i)
    <3> HIDE DEF value
    <3> QED  OBVIOUS
  <2> HIDE DEF g
  <2>3. r[i] = value(i)  BY Zenon, <2>1, <2>2
  <2> QED  BY <2>3
<1>1. 0 \in K
  <2> DEFINE r == [i \in 0 .. 0 |-> [u |-> u, more |-> TRUE]]
  <2>1. Steps(r, 0)  OBVIOUS
  <2> QED  BY <2>1
<1>2. ASSUME NEW k \in Nat, k \in K PROVE k + 1 \in K
  <2>1. PICK r : Steps(r, k)  BY <1>2
  <2> DEFINE q == [i \in 0 .. k + 1 |-> IF i <= k THEN r[i] ELSE SendStep(r[k])]
  <2>2. Steps(q, k + 1)
    <3>1. ASSUME NEW i \in 0 .. k + 1
          PROVE  q[i] = IF i = 0 THEN [u |-> u, more |-> TRUE] ELSE SendStep(q[i - 1])
      <4>1. CASE i = 0  BY <4>1, <2>1
      <4>2. CASE i # 0 /\ i <= k
        <5>1. q[i] = r[i] /\ q[i - 1] = r[i - 1]  BY <4>2
        <5>2. r[i] = SendStep(r[i - 1])
          <6>1. i \in 0 .. k  BY <4>2
          <6> HIDE DEF Steps
          <6> QED  BY <6>1, <2>1, <1>0, <4>2
        <5> QED  BY <5>1, <5>2, <4>2
      <4>3. CASE i = k + 1
        <5>1. q[i] = SendStep(r[k]) /\ q[i - 1] = r[k]  BY <4>3
        <5> QED  BY <5>1, <4>3
      <4> QED  BY <4>1, <4>2, <4>3
    <3> QED  BY <3>1
  <2> HIDE DEF q, Steps
  <2> QED  BY <2>2
<1> HIDE DEF K
<1>3. Nat \subseteq K  BY <1>1, <1>2, NatSet
<1>4. last \in Nat  OBVIOUS
<1>5. PICK g : Steps(g, last)  BY <1>3, <1>4 DEF K
<1> DEFINE after == CHOOSE r : Steps(r, last)
<1>6. Steps(after, last)  BY <1>5, Zenon
<1>7. sendNext(u) = after[last].u  BY DEF sendNext
<1> HIDE DEF after, Steps
<1>8. after[0] = [u |-> u, more |-> TRUE]
  <2>1. 0 \in 0 .. last  BY <1>4
  <2> QED  BY <2>1, <1>0, <1>4, <1>6
<1>9. \A i \in 1 .. last : after[i] = SendStep(after[i - 1])
  <2> SUFFICES ASSUME NEW i \in 1 .. last PROVE after[i] = SendStep(after[i - 1])
    OBVIOUS
  <2>1. i \in 0 .. last /\ i # 0  BY <1>4
  <2> QED  BY <2>1, <1>0, <1>4, <1>6
<1> QED  BY <1>7, <1>8, <1>9

\* What each step keeps, sendNext keeps.
LEMMA SendNextKeeps ==
    ASSUME NEW u, NEW n, NEW a, NEW t, Good(u, n, a, t)
    PROVE  Good(sendNext(u), n, a, t)
<1> DEFINE last == Cardinality(u.queue) + 1
<1>1. Cardinality(u.queue) \in Nat
  <2>1. IsFiniteSet(Files) /\ u.queue \subseteq Files
    BY ConstantsAssumption DEF ConstantsAssumption, Good, Typed
  <2> QED  BY <2>1, FS_Subset, FS_CardinalityType
<1>2. PICK r : /\ sendNext(u) = r[last].u /\ r[0] = [u |-> u, more |-> TRUE]
               /\ \A i \in 1 .. last : r[i] = SendStep(r[i - 1])
  BY <1>1, SendNextIs
<1> DEFINE K == {k \in Nat : k <= last => Good(r[k].u, n, a, t)}
<1>3. 0 \in K  BY <1>2
<1>4. ASSUME NEW k \in Nat, k \in K PROVE k + 1 \in K
  <2> SUFFICES ASSUME k + 1 <= last PROVE Good(r[k + 1].u, n, a, t)  OBVIOUS
  <2>1. k + 1 \in 1 .. last /\ k <= last  BY <1>1
  <2>2. r[k + 1] = SendStep(r[k])
    <3>1. r[k + 1] = SendStep(r[(k + 1) - 1])  BY <1>2, <2>1
    <3>2. (k + 1) - 1 = k  OBVIOUS
    <3> QED  BY <3>1, <3>2
  <2>3. Good(r[k].u, n, a, t)  BY <1>4, <2>1
  <2> QED  BY <2>2, <2>3, SendStepKeeps
<1> HIDE DEF K
<1>5. last \in Nat /\ last \in K  BY <1>1, <1>3, <1>4, NatSet
<1>6. Good(r[last].u, n, a, t)  BY <1>5 DEF K
<1> QED  BY <1>2, <1>6

-----------------------------------------------------------------------------
(* The actions. *)

\* What was on its way may become more, what is accepted too.
LEMMA MoreAccepted ==
    ASSUME NEW u, NEW n, NEW a, NEW t, Good(u, n, a, t),
           NEW m, DOMAIN u.sent \subseteq m \cup u.out, NEW b, a \subseteq b
    PROVE  Good(u, m, b, t)
BY DEF Good, Waited, Sent, Whole

LEMMA BecomesKeeps ==
    ASSUME NEW u, NEW n, NEW a, Good(u, n, a, told), Becomes(u, n), acked' = a
    PROVE  IInv'
<1>1. Shape(u)  BY DEF Good, Typed
<1>2. /\ Shape(up') /\ Same(u, up') /\ up'.queue = u.queue /\ up'.current = u.current
      /\ up'.out = {} /\ up'.reports = {}
      /\ net' = n \cup u.out /\ told' = told \cup u.reports
  BY <1>1 DEF Becomes, Shape, Same
<1>3. Typed(up') /\ Counted(up') /\ Sized(up') /\ Sent(up', a)  BY <1>2, SameKept
<1>4. Waited(up', net')
  <2>1. \A f : PartsSent(up', f) = PartsSent(u, f)  BY <1>2, SamePartsSent DEF Same
  <2> QED  BY <1>2, <2>1 DEF Good, Waited, Same
<1>5. Begun(up', told')  BY <1>2 DEF Good, Begun, Unknown, Same
<1>6. Whole(up', a, told')  BY <1>2 DEF Good, Whole
<1> QED  BY <1>2, <1>3, <1>4, <1>5, <1>6 DEF IInv, Good

\* A change of nothing the invariant speaks of.
LEMMA CalmKeeps ==
    ASSUME NEW u, NEW n, NEW a, NEW t, Good(u, n, a, t), NEW v, Shape(v), Same(u, v),
           v.queue = u.queue, v.current = u.current, v.out = u.out,
           v.reports = u.reports
    PROVE  Good(v, n, a, t)
<1>1. Typed(v) /\ Counted(v) /\ Sized(v) /\ Sent(v, a)  BY SameKept
<1>2. \A f : PartsSent(v, f) = PartsSent(u, f)  BY SamePartsSent DEF Same
<1>3. Waited(v, n) /\ Begun(v, t) /\ Whole(v, a, t)
  BY <1>2 DEF Good, Waited, Begun, Whole, Unknown, Same
<1> QED  BY <1>1, <1>3 DEF Good

LEMMA UploadInit == Init => IInv
<1> SUFFICES ASSUME Init PROVE IInv  OBVIOUS
<1>1. up = Start /\ net = {} /\ acked = {} /\ told = {}  BY DEF Init
<1>2. /\ Shape(up) /\ up.queue = {} /\ up.small = [f \in Files |-> 0]
      /\ up.doc = [f \in Files |-> 0] /\ up.sent = <<>> /\ up.sentSize = 0
      /\ up.sentSizes = [s \in Sessions |-> 0] /\ up.out = {} /\ up.reports = {}
  BY <1>1 DEF Start, Shape
<1>3. DOMAIN up.sent = {}  BY <1>2
<1>4. Typed(up)  BY <1>2, <1>3, SumNone DEF Typed
<1>5. Counted(up)
  <2> SUFFICES ASSUME NEW f \in Files PROVE 0 <= Small[f] /\ 0 <= docPartsCount(f)
    BY <1>2 DEF Counted
  <2> QED  BY PartSizeType, ConstantsAssumption DEF ConstantsAssumption
<1>6. Sized(up)
  <2>1. \A s \in Sessions : {p \in DOMAIN up.sent : up.sent[p] = s} = {}  BY <1>3
  <2> QED  BY <2>1, <1>2, <1>3, SumNone DEF Sized
<1>7. Waited(up, net) /\ Sent(up, acked) /\ Begun(up, told) /\ Whole(up, acked, told)
  BY <1>1, <1>2, <1>3 DEF Waited, Sent, Begun, Whole
<1> QED  BY <1>2, <1>4, <1>5, <1>6, <1>7 DEF IInv, Good

\* A new file: nothing was sent of it.
LEMMA UploadKeeps ==
    ASSUME IInv, NEW f \in Files, upload(f)
    PROVE  IInv'
<1> DEFINE v == [up EXCEPT !.queue = @ \cup {f}]
<1>1. Good(up, net, acked, told) /\ up.reports = {} /\ Shape(up)  BY DEF IInv, Good, Typed
<1>2. /\ Shape(v) /\ Same(up, v) /\ v.queue = up.queue \cup {f}
      /\ v.current = up.current /\ v.out = up.out /\ v.reports = up.reports
  BY <1>1 DEF Shape, Same
<1>3. Becomes(sendNext(v), net) /\ acked' = acked /\ Fresh(f)  BY DEF upload
<1> HIDE DEF v
<1>4. up.small[f] = 0 /\ up.doc[f] = 0
  BY <1>1, <1>3 DEF Fresh, Good, Begun, Unknown
<1>5. \A g : PartsSent(v, g) = PartsSent(up, g)  BY <1>2, SamePartsSent DEF Same
<1>6. PartsSent(up, f) = {}  BY <1>4 DEF PartsSent
<1>7. Typed(v) /\ Counted(v) /\ Sized(v)  BY <1>1, <1>2 DEF Good, Typed, Counted, Sized, Same
<1>8. Waited(v, net) /\ Sent(v, acked)
  BY <1>1, <1>2, <1>5, <1>6 DEF Good, Waited, Sent, Same
<1>9. Begun(v, told) /\ Whole(v, acked, told)
  BY <1>1, <1>2 DEF Good, Begun, Whole, Unknown, Same
<1>10. Good(v, net, acked, told)  BY <1>7, <1>8, <1>9 DEF Good
<1> QED  BY <1>3, <1>10, SendNextKeeps, BecomesKeeps

LEMMA CurrentFailedKeeps ==
    ASSUME NEW u, NEW n, NEW a, NEW t, Good(u, n, a, t)
    PROVE  Good(currentFailed(u), n, a, t)
BY FailKeeps, SendNextKeeps DEF currentFailed

LEMMA CancelKeeps ==
    ASSUME IInv, NEW f \in Files, cancel(f)
    PROVE  IInv'
<1>1. Good(up, net, acked, told) /\ Shape(up)  BY DEF IInv, Good, Typed
<1>2. CASE up.current = f
  BY <1>1, <1>2, CurrentFailedKeeps, BecomesKeeps DEF cancel
<1>3. CASE up.current # f
  <2> DEFINE v == Report([up EXCEPT !.queue = @ \ {f}], f, "dropped")
  <2>1. /\ Shape(v) /\ Same(up, v) /\ v.queue = up.queue \ {f}
        /\ v.current = up.current /\ v.out = up.out
        /\ v.reports = up.reports \cup {<<f, "dropped">>}
    BY <1>1 DEF Report, Shape, Same
  <2>2. Becomes(v, net) /\ acked' = acked  BY <1>3 DEF cancel
  <2> HIDE DEF v
  <2>3. Typed(v) /\ Counted(v) /\ Sized(v) /\ Sent(v, acked)  BY <1>1, <2>1, SameKept
  <2>4. \A g : PartsSent(v, g) = PartsSent(up, g)  BY <2>1, SamePartsSent DEF Same
  <2>5. Waited(v, net)  BY <1>1, <1>3, <2>1, <2>4 DEF Good, Waited, Same
  <2>6. Begun(v, told)
    <3> SUFFICES ASSUME NEW g \in Files, Unknown(v, told, g)
                 PROVE  v.small[g] = 0 /\ v.doc[g] = 0
      BY DEF Begun
    <3>1. g # f  BY <2>1 DEF Unknown, Outcomes
    <3>2. Unknown(up, told, g)  BY <3>1, <2>1 DEF Unknown
    <3> QED  BY <3>2, <1>1, <2>1 DEF Good, Begun, Same
  <2>7. Whole(v, acked, told)  BY <1>1, <2>1 DEF Good, Whole
  <2>8. Good(v, net, acked, told)  BY <2>3, <2>5, <2>6, <2>7 DEF Good
  <2> QED  BY <2>2, <2>8, BecomesKeeps
<1> QED  BY <1>2, <1>3

\* A step that changes nothing the invariant speaks of.
LEMMA QuietKeeps ==
    ASSUME IInv, NEW v, Shape(v), Same(up, v), v.queue = up.queue, v.current = up.current,
           v.out = up.out, v.reports = up.reports,
           UNCHANGED <<net, acked, told>>, up' = v
    PROVE  IInv'
<1>1. Good(v, net, acked, told)  BY CalmKeeps DEF IInv
<1> QED  BY <1>1 DEF IInv

LEMMA PauseKeeps ==
    ASSUME IInv, NEW f \in Files, pause(f) \/ fileLost(f)
    PROVE  IInv'
<1> DEFINE v == [up EXCEPT !.paused = f]
           w == [up EXCEPT !.gone = @ \cup {f}]
           x == [up EXCEPT !.cut = @ \cup {f}]
<1>1. Shape(up)  BY DEF IInv, Good, Typed
<1>2. up' \in {v, w, x} /\ UNCHANGED <<net, acked, told>>
  BY DEF pause, fileLost
<1>3. ASSUME NEW y \in {v, w, x}
      PROVE  /\ Shape(y) /\ Same(up, y) /\ y.queue = up.queue /\ y.current = up.current
             /\ y.out = up.out /\ y.reports = up.reports
  BY <1>1, <1>3 DEF Shape, Same
<1> HIDE DEF v, w, x
<1> QED  BY <1>2, <1>3, QuietKeeps

LEMMA GoOnKeeps ==
    ASSUME IInv, unpause \/ nextTimer
    PROVE  IInv'
<1> DEFINE v == [up EXCEPT !.paused = NoFile]
           w == [up EXCEPT !.nextTimer = FALSE]
<1>1. Good(up, net, acked, told) /\ Shape(up)  BY DEF IInv, Good, Typed
<1>2. PICK y \in {v, w} : Becomes(sendNext(y), net) /\ acked' = acked
  BY DEF unpause, nextTimer
<1>3. /\ Shape(y) /\ Same(up, y) /\ y.queue = up.queue /\ y.current = up.current
      /\ y.out = up.out /\ y.reports = up.reports
  BY <1>1, <1>2 DEF Shape, Same
<1> HIDE DEF v, w
<1>4. Good(y, net, acked, told)  BY <1>1, <1>3, CalmKeeps
<1> QED  BY <1>2, <1>4, SendNextKeeps, BecomesKeeps

\* An answer that is waited for: the part is of the current file, so its size
\* is the one that was counted.
LEMMA LoadedKeeps ==
    ASSUME NEW u, NEW n, NEW a, NEW t, Good(u, n, a, t), NEW p \in DOMAIN u.sent
    PROVE  Good(Loaded(u, p), (n \cup u.out) \ {p}, a \cup {p}, t)
<1> DEFINE v == Loaded(u, p)
           dc == u.sent[p]
           size == sentPartSize(u, p)
<1>1. Typed(u) /\ Sized(u) /\ Shape(u) /\ dc \in Sessions  BY DEF Good, Typed
<1>2. p \in PartsSent(u, u.current) /\ u.current \in Files /\ SizeOf(p) \in Nat
  BY WaitedIs
<1>3. size = SizeOf(p)
  <2>1. p.file = u.current  BY WaitedIs
  <2> QED  BY <2>1 DEF sentPartSize, SizeOf
<1>4. /\ Shape(v) /\ v.queue = u.queue /\ v.small = u.small /\ v.doc = u.doc
      /\ v.current = u.current
      /\ v.sent = [q \in DOMAIN u.sent \ {p} |-> u.sent[q]]
      /\ v.sentSize = u.sentSize - size
      /\ v.sentSizes = [u.sentSizes EXCEPT ![dc] = @ - size]
      /\ v.out = u.out /\ v.reports = u.reports
  BY <1>1 DEF Loaded, Shape
<1> HIDE DEF v, dc, size
<1>5. /\ DOMAIN v.sent = DOMAIN u.sent \ {p}
      /\ \A q \in DOMAIN v.sent : v.sent[q] = u.sent[q]
  BY <1>4
<1>6. \A f : PartsSent(v, f) = PartsSent(u, f)  BY <1>4, SamePartsSent
<1>7. Typed(v)
  <2>1. IsFiniteSet(Bytes(DOMAIN v.sent))  BY <1>1, <1>5, SumOf DEF Typed
  <2>2. v.sentSizes = [s \in Sessions |-> v.sentSizes[s]]  BY <1>1, <1>4 DEF Typed
  <2> QED  BY <2>1, <2>2, <1>1, <1>4, <1>5 DEF Typed
<1>8. Counted(v)  BY <1>4 DEF Good, Counted
<1>9. Waited(v, (n \cup u.out) \ {p})  BY <1>4, <1>5, <1>6 DEF Good, Waited
<1>10. Sized(v)
  <2>1. v.sentSize = SizeSum(DOMAIN v.sent)
    BY <1>1, <1>2, <1>3, <1>4, <1>5, SumLess DEF Sized, Typed
  <2> SUFFICES ASSUME NEW s \in Sessions
               PROVE  v.sentSizes[s] = SizeSum({q \in DOMAIN v.sent : v.sent[q] = s})
    BY <2>1 DEF Sized
  <2> DEFINE S == {q \in DOMAIN u.sent : u.sent[q] = s}
  <2>2. u.sentSizes[s] = SizeSum(S)  BY <1>1 DEF Sized
  <2>3. IsFiniteSet(Bytes(S))  BY <1>1, SumOf DEF Typed
  <2>4. CASE s = dc
    <3>1. {q \in DOMAIN v.sent : v.sent[q] = s} = S \ {p}  BY <1>5
    <3>2. v.sentSizes[s] = u.sentSizes[s] - SizeOf(p)
      BY <2>4, <1>1, <1>3, <1>4 DEF Typed
    <3>3. p \in S  BY <2>4 DEF dc
    <3> HIDE DEF S
    <3> QED  BY <3>1, <3>2, <3>3, <2>2, <2>3, <1>2, SumLess
  <2>5. CASE s # dc
    <3>1. {q \in DOMAIN v.sent : v.sent[q] = s} = S  BY <2>5, <1>5 DEF dc
    <3>2. v.sentSizes[s] = u.sentSizes[s]  BY <2>5, <1>1, <1>4 DEF Typed
    <3> QED  BY <3>1, <3>2, <2>2
  <2> QED  BY <2>4, <2>5
<1>11. Sent(v, a \cup {p})  BY <1>4, <1>5, <1>6 DEF Good, Sent
<1>12. Begun(v, t) /\ Whole(v, a \cup {p}, t)
  BY <1>4 DEF Good, Begun, Whole, Unknown
<1> QED  BY <1>7, <1>8, <1>9, <1>10, <1>11, <1>12 DEF Good, v

LEMMA PartLoadedKeeps ==
    ASSUME IInv, NEW p \in net, partLoaded(p)
    PROVE  IInv'
<1> DEFINE u == IF p \in DOMAIN up.sent THEN Loaded(up, p) ELSE up
<1>1. Good(up, net, acked, told)  BY DEF IInv
<1>2. Becomes(sendNext(u), net \ {p}) /\ acked' = acked \cup {p}  BY DEF partLoaded
<1>3. Good(u, net \ {p}, acked \cup {p}, told)
  <2>1. CASE p \in DOMAIN up.sent
    <3>1. Good(u, (net \cup up.out) \ {p}, acked \cup {p}, told)
      BY <1>1, <2>1, LoadedKeeps
    <3>2. u.out = up.out
      <4>1. Shape(up)  BY <1>1 DEF Good, Typed
      <4> QED  BY <4>1, <2>1 DEF Loaded, Shape
    <3> HIDE DEF u
    <3>3. DOMAIN u.sent \subseteq (net \ {p}) \cup u.out
      BY <3>1, <3>2 DEF Good, Waited
    <3> QED  BY <3>1, <3>3, MoreAccepted
  <2>2. CASE p \notin DOMAIN up.sent
    <3>1. DOMAIN up.sent \subseteq (net \ {p}) \cup up.out
      BY <1>1, <2>2 DEF Good, Waited
    <3> QED  BY <3>1, <1>1, <2>2, MoreAccepted
  <2> QED  BY <2>1, <2>2
<1> HIDE DEF u
<1> QED  BY <1>2, <1>3, SendNextKeeps, BecomesKeeps

\* An answer that makes the current file fail, or is not waited for.
LEMMA PartFailedKeeps ==
    ASSUME IInv, NEW p \in net, partRefused(p) \/ partFailed(p)
    PROVE  IInv'
<1>1. Good(up, net, acked, told)  BY DEF IInv
<1> DEFINE u == currentFailed(up)
<1>2. /\ acked' = acked
      /\ \/ p \in DOMAIN up.sent /\ (Becomes(u, net \ {p}) \/ Becomes(sendNext(u), net \ {p}))
         \/ p \notin DOMAIN up.sent /\ Becomes(sendNext(up), net \ {p})
  BY DEF partRefused, partFailed
<1>3. CASE p \notin DOMAIN up.sent
  <2>1. DOMAIN up.sent \subseteq (net \ {p}) \cup up.out
    BY <1>1, <1>3 DEF Good, Waited
  <2>2. Good(up, net \ {p}, acked, told)  BY <2>1, <1>1, MoreAccepted
  <2> QED  BY <1>2, <1>3, <2>2, SendNextKeeps, BecomesKeeps
<1>4. CASE p \in DOMAIN up.sent
  <2>1. Good(Fail(up), net, acked, told)  BY <1>1, FailKeeps
  <2>2. DOMAIN Fail(up).sent = {}
    <3>1. Shape(up)  BY <1>1 DEF Good, Typed
    <3>2. Fail(up).sent = <<>>  BY <3>1 DEF Fail, Forget, Report, Shape
    <3> QED  BY <3>2
  <2>3. Good(Fail(up), net \ {p}, acked, told)  BY <2>1, <2>2, MoreAccepted
  <2>4. Good(u, net \ {p}, acked, told)  BY <2>3, SendNextKeeps DEF currentFailed
  <2> HIDE DEF u
  <2> QED  BY <1>2, <1>4, <2>4, SendNextKeeps, BecomesKeeps
<1> QED  BY <1>3, <1>4

LEMMA UploaderNext == IInv /\ [Next]_vars => IInv'
<1> SUFFICES ASSUME IInv, [Next]_vars PROVE IInv'  OBVIOUS
<1>1. CASE UNCHANGED vars
  BY <1>1 DEF vars, IInv
<1>2. ASSUME NEW f \in Files, upload(f) PROVE IInv'  BY <1>2, UploadKeeps
<1>3. ASSUME NEW f \in Files, cancel(f) PROVE IInv'  BY <1>3, CancelKeeps
<1>4. ASSUME NEW f \in Files, pause(f) \/ fileLost(f) PROVE IInv'  BY <1>4, PauseKeeps
<1>5. CASE unpause \/ nextTimer  BY <1>5, GoOnKeeps
<1>6. CASE stopSessions
  <2> DEFINE v == [up EXCEPT !.stopTimer = FALSE]
  <2>1. Shape(up)  BY DEF IInv, Good, Typed
  <2>2. /\ Shape(v) /\ Same(up, v) /\ v.queue = up.queue /\ v.current = up.current
        /\ v.out = up.out /\ v.reports = up.reports
    BY <2>1 DEF Shape, Same
  <2>3. up' = v /\ UNCHANGED <<net, acked, told>>  BY <1>6 DEF stopSessions
  <2> HIDE DEF v
  <2> QED  BY <2>2, <2>3, QuietKeeps
<1>7. CASE Answer
  BY <1>7, PartLoadedKeeps, PartFailedKeeps DEF Answer
<1> QED  BY <1>1, <1>2, <1>3, <1>4, <1>5, <1>6, <1>7 DEF Next

-----------------------------------------------------------------------------
LEMMA UploaderHolds == Spec => []IInv
<1> QED  BY UploadInit, UploaderNext, PTL DEF Spec

\* The bytes counted as under way, in all and per session, are those of the
\* requests that are waited for, in whatever order answers come and files fail:
\* what partLoaded takes off is what sendNext put on, because all requests that
\* are waited for are of the current file.
THEOREM SizesAlwaysAgree == Spec => []SizesAgree
<1>1. IInv => SizesAgree  BY DEF IInv, Good, Sized, SizesAgree
<1> QED  BY <1>1, UploaderHolds, PTL

\* The assertion of partLoaded that the current file is in the queue: currentFailed
\* and the end of a file forget what was sent.
THEOREM AnswersAreOfTheCurrent == Spec => []SentIsCurrent
<1>1. IInv => SentIsCurrent
  <2> SUFFICES ASSUME IInv, NEW p \in DOMAIN up.sent
               PROVE  p.file = up.current /\ up.current \in up.queue /\ p \in net
    BY DEF SentIsCurrent
  <2> QED  BY WaitedIs DEF IInv
<1> QED  BY <1>1, UploaderHolds, PTL

\* A file reported as ready lies on the server with all its parts: what was sent
\* of a queued file is waited for or accepted, also when another file is given
\* up and its answers still come.
THEOREM ReadyFilesAreWhole == Spec => []ReadyIsWhole
<1>1. IInv => ReadyIsWhole  BY DEF IInv, Good, Whole, ReadyIsWhole
<1> QED  BY <1>1, UploaderHolds, PTL

-----------------------------------------------------------------------------
(* The sequence layer: its invariant. *)

\* The numbers of a container and when it was published.
IsContainer(c) ==
    /\ c.start \in Nat /\ c.seq \in Nat /\ c.date \in Nat /\ c.data \in Data
    /\ c.start <= c.seq /\ (c.start = 0 => c.seq = 0)

\* The server numbers containers one after the other, as it publishes them.
Published ==
    /\ now \in Nat /\ topSeq \in Nat /\ IsFiniteSet(log)
    /\ \A c \in log : IsContainer(c) /\ c.date <= now /\ c.seq <= topSeq
    /\ \A c, d \in log : c.seq # 0 /\ d.seq # 0 /\ c.date < d.date => c.seq < d.start
    /\ \A c, d \in log : c.date = d.date => c = d
    /\ \A m \in wire : m.container \in log
    /\ server # "channels" => \A c \in log : c.data # "minChannel"

\* The fields of MainWidget and of the request.
Fields(s) ==
    /\ {"cl", "rpc", "applied", "skipped"} \subseteq DOMAIN s
    /\ {"seq", "date", "stored", "seqTimer", "minTimer", "failTimer", "requesting"}
           \subseteq DOMAIN s.cl
    /\ {"st", "asked", "date", "seq"} \subseteq DOMAIN s.rpc

Kinds(s) ==
    /\ s.cl.seq \in 0 .. topSeq /\ s.cl.date \in Nat
    /\ s.cl.stored \subseteq {c \in log : c.start # 0} /\ s.skipped \subseteq log
    /\ {s.cl.minTimer, s.cl.failTimer, s.cl.requesting} \subseteq BOOLEAN

Full(s) == s.rpc.st \in {"state", "difference"}

\* A request starts from a date the client had; its answer brings every
\* container up to the number it names.
Asked(s) ==
    /\ s.rpc.asked \in 0 .. s.cl.date
    /\ s.rpc.st # "none" => s.cl.requesting
    /\ Full(s) \/ s.rpc.st = "slice" =>
           /\ s.rpc.date \in Nat /\ s.rpc.seq \in 0 .. topSeq
           /\ \A c \in log : c.seq # 0 /\ c.seq <= s.rpc.seq => c.date <= s.rpc.date
    /\ s.rpc.st = "slice" => server # "channels"
    /\ s.rpc.st = "error" \/ s.cl.failTimer => server = "faults"

\* What the client has passed: by its number, or because of a channel.
Owed(s, c) ==
    \/ c.data # "minChannel" /\ c.seq # 0 /\ c.seq <= s.cl.seq
    \/ c \in s.skipped

\* A difference brings it, or the timer that asks for one runs; an answer that
\* is already there brings it as well.
Coming(s, c) ==
    /\ Full(s) => c.date <= s.rpc.date
    /\ \/ s.cl.requesting /\ (c.data = "minChannel" => s.rpc.asked < c.date)
       \/ c.data = "minChannel" /\ s.cl.minTimer /\ s.cl.date < c.date

\* x: what is coming counts.  In the handler of the last answer it does not.
Has(s, x, c) == c \in s.applied \/ (x /\ Coming(s, c))

Keeps(s, x) ==
    /\ Fields(s) /\ Kinds(s) /\ Asked(s)
    /\ x \/ (s.cl.requesting /\ s.rpc.st = "none")
    /\ \A c \in log : Owed(s, c) => Has(s, x, c)

SeqInv == Published /\ Keeps(State, TRUE)

-----------------------------------------------------------------------------
(* What updSetState and feedUpdates are made of keeps the invariant. *)

\* Asking for the difference: all that is passed, unless it is of a channel whose
\* date has gone by, will be brought.
LEMMA GetDifferenceIs ==
    ASSUME NEW s, Fields(s), s.cl.requesting = FALSE, NEW v, v = GetDifference(s)
    PROVE  /\ Fields(v) /\ v.applied = s.applied /\ v.skipped = s.skipped
           /\ v.cl.seq = s.cl.seq /\ v.cl.date = s.cl.date
           /\ v.cl.minTimer = s.cl.minTimer /\ v.cl.stored = {}
           /\ v.cl.failTimer = FALSE /\ v.cl.requesting = TRUE
           /\ v.rpc.st = "getDifference" /\ v.rpc.asked = s.cl.date
BY DEF GetDifference, Fields, NoRpc

LEMMA AskKeeps ==
    ASSUME Published, NEW s, Fields(s), Kinds(s), s.cl.requesting = FALSE,
           \A c \in log : Owed(s, c) /\ c.data = "minChannel"
                              => c \in s.applied \/ s.cl.date < c.date
    PROVE  Keeps(GetDifference(s), TRUE)
<1> DEFINE v == GetDifference(s)
<1>1. /\ Fields(v) /\ v.applied = s.applied /\ v.skipped = s.skipped
      /\ v.cl.seq = s.cl.seq /\ v.cl.date = s.cl.date
      /\ v.cl.minTimer = s.cl.minTimer /\ v.cl.stored = {}
      /\ v.cl.failTimer = FALSE /\ v.cl.requesting = TRUE
      /\ v.rpc.st = "getDifference" /\ v.rpc.asked = s.cl.date
  BY GetDifferenceIs
<1> HIDE DEF v
<1>2. Kinds(v)  BY <1>1 DEF Kinds
<1>3. ~Full(v) /\ Asked(v)  BY <1>1 DEF Asked, Full, Kinds
<1>4. ASSUME NEW c \in log, Owed(v, c) PROVE Has(v, TRUE, c)
  <2>1. Owed(s, c)  BY <1>1, <1>4 DEF Owed
  <2>2. c.data = "minChannel" => c \in v.applied \/ v.rpc.asked < c.date
    BY <2>1, <1>1
  <2> QED  BY <2>2, <1>1, <1>3 DEF Has, Coming
<1> QED  BY <1>1, <1>2, <1>3, <1>4 DEF Keeps, v

\* States that differ in what is stored and the timer for it.
SameButStored(s, v) ==
    /\ v.applied = s.applied /\ v.skipped = s.skipped /\ v.rpc = s.rpc
    /\ v.cl.seq = s.cl.seq /\ v.cl.date = s.cl.date /\ v.cl.minTimer = s.cl.minTimer
    /\ v.cl.failTimer = s.cl.failTimer /\ v.cl.requesting = s.cl.requesting

LEMMA StoredKeeps ==
    ASSUME NEW s, NEW x, Keeps(s, x), NEW v, Fields(v), SameButStored(s, v),
           v.cl.stored \subseteq {c \in log : c.start # 0}
    PROVE  Keeps(v, x) /\ \A c : Has(v, x, c) <=> Has(s, x, c)
<1>1. Kinds(v)  BY DEF Keeps, Kinds, SameButStored
<1>2. Full(v) <=> Full(s)  BY DEF SameButStored, Full
<1>3. Asked(v)  BY <1>2 DEF Keeps, Asked, SameButStored
<1>4. \A c : Coming(v, c) <=> Coming(s, c)  BY <1>2 DEF Coming, SameButStored
<1>5. \A c : Has(v, x, c) <=> Has(s, x, c)  BY <1>4 DEF Has, SameButStored
<1>6. \A c : Owed(v, c) <=> Owed(s, c)  BY DEF Owed, SameButStored
<1> QED  BY <1>1, <1>3, <1>5, <1>6 DEF Keeps, SameButStored

\* feedUpdateVector: the container is applied, asked for, or left to the timer.
LEMMA VectorKeeps ==
    ASSUME Published, NEW s, NEW x \in BOOLEAN, Keeps(s, x), NEW c \in log
    PROVE  LET v == FeedUpdateVector(s, c)
           IN  /\ Keeps(v, x) /\ v.cl.seq = s.cl.seq /\ v.cl.date = s.cl.date
               /\ v.cl.stored \subseteq s.cl.stored
               /\ v.cl.requesting = FALSE => s.cl.requesting = FALSE
               /\ c.data # "minChannel" => Has(v, x, c)
<1> DEFINE v == FeedUpdateVector(s, c)
<1>1. /\ Fields(s) /\ Kinds(s) /\ Asked(s) /\ s.cl.requesting \in BOOLEAN /\ IsContainer(c)
      /\ s.rpc.asked \in Nat /\ s.cl.date \in Nat /\ c.date \in Nat
  BY DEF Keeps, Kinds, Asked, Published, IsContainer
<1>2. CASE c.data = "loaded" \/ s.cl.requesting
  <2>1. /\ Fields(v) /\ v.applied = s.applied \cup {c} /\ v.skipped = s.skipped
        /\ v.cl = s.cl /\ v.rpc = s.rpc
    BY <1>1, <1>2 DEF FeedUpdateVector, Fields
  <2> HIDE DEF v
  <2>2. Kinds(v) /\ (Full(v) <=> Full(s))  BY <1>1, <2>1 DEF Kinds, Full
  <2>3. Asked(v)  BY <1>1, <2>1, <2>2 DEF Asked
  <2>4. \A d : Coming(v, d) <=> Coming(s, d)  BY <2>1, <2>2 DEF Coming
  <2>5. Has(v, x, c) /\ \A d : Has(s, x, d) => Has(v, x, d)  BY <2>1, <2>4 DEF Has
  <2>6. \A d : Owed(v, d) <=> Owed(s, d)  BY <2>1 DEF Owed
  <2>7. Keeps(v, x)  BY <2>1, <2>2, <2>3, <2>5, <2>6 DEF Keeps
  <2> QED  BY <2>1, <2>5, <2>7 DEF v
<1>3. CASE ~(c.data = "loaded" \/ s.cl.requesting) /\ c.data = "unloaded"
  <2>1. v = GetDifference(s)  BY <1>3 DEF FeedUpdateVector
  <2>2. s.cl.requesting = FALSE /\ x = TRUE  BY <1>1, <1>3 DEF Keeps
  <2>3. /\ Fields(v) /\ v.applied = s.applied /\ v.skipped = s.skipped
        /\ v.cl.seq = s.cl.seq /\ v.cl.date = s.cl.date
        /\ v.cl.stored = {} /\ v.cl.requesting = TRUE
        /\ v.rpc.st = "getDifference" /\ v.rpc.asked = s.cl.date
    BY <1>1, <2>1, <2>2, GetDifferenceIs
  <2>4. \A d \in log : Owed(s, d) /\ d.data = "minChannel"
                          => d \in s.applied \/ s.cl.date < d.date
    BY <2>2 DEF Keeps, Has, Coming
  <2>5. Keeps(v, TRUE)  BY <1>1, <2>1, <2>2, <2>4, AskKeeps
  <2> HIDE DEF v
  <2>6. Has(v, x, c)  BY <2>2, <2>3, <1>3 DEF Has, Coming, Full
  <2> QED  BY <2>2, <2>3, <2>5, <2>6 DEF v
<1>4. CASE ~(c.data = "loaded" \/ s.cl.requesting) /\ c.data # "unloaded"
  <2>1. s.cl.requesting = FALSE /\ x = TRUE /\ s.rpc.st = "none" /\ ~Full(s)
    BY <1>1, <1>4 DEF Keeps, Asked, Full
  <2>2. c.data = "minChannel"  BY <1>1, <1>4 DEF IsContainer, Data
  <2>3. /\ Fields(v) /\ v.applied = s.applied /\ v.rpc = s.rpc
        /\ v.skipped = IF s.cl.date < c.date THEN s.skipped \cup {c} ELSE s.skipped
        /\ v.cl.seq = s.cl.seq /\ v.cl.date = s.cl.date
        /\ v.cl.stored = s.cl.stored /\ v.cl.minTimer = TRUE
        /\ v.cl.failTimer = s.cl.failTimer /\ v.cl.requesting = FALSE
    BY <1>1, <1>4, <2>1 DEF FeedUpdateVector, Fields
  <2> HIDE DEF v
  <2>4. Kinds(v) /\ ~Full(v)  BY <1>1, <2>1, <2>3 DEF Kinds, Full
  <2>5. Asked(v)  BY <1>1, <2>1, <2>3, <2>4 DEF Asked
  <2>6. ASSUME NEW d \in log, Has(s, x, d) PROVE Has(v, x, d)
    BY <2>6, <2>1, <2>3, <2>4 DEF Has, Coming
  <2>7. ASSUME NEW d \in log, Owed(v, d) PROVE Has(v, x, d)
    <3>1. CASE Owed(s, d)  BY <3>1, <2>6 DEF Keeps
    <3>2. CASE ~Owed(s, d)
      <4>1. d = c /\ s.cl.date < c.date  BY <3>2, <2>3, <2>7 DEF Owed
      <4> QED  BY <4>1, <2>1, <2>2, <2>3, <2>4 DEF Has, Coming
    <3> QED  BY <3>1, <3>2
  <2>8. Keeps(v, x)  BY <2>1, <2>3, <2>4, <2>5, <2>7 DEF Keeps
  <2> QED  BY <2>1, <2>2, <2>3, <2>8 DEF v
<1> QED  BY <1>2, <1>3, <1>4 DEF v

\* The date moves on unless a channel's message waits for it.
LEMMA DateKeeps ==
    ASSUME NEW s, NEW x, Keeps(s, x), NEW date \in Nat
    PROVE  LET v == SetDate(s, date)
           IN  /\ Keeps(v, x) /\ v.cl.seq = s.cl.seq /\ v.cl.stored = s.cl.stored
               /\ v.cl.requesting = s.cl.requesting /\ v.rpc = s.rpc
               /\ \A c : c.data # "minChannel" => (Has(v, x, c) <=> Has(s, x, c))
<1> DEFINE v == SetDate(s, date)
<1>1. Fields(s) /\ s.cl.date \in Nat /\ s.rpc.asked \in 0 .. s.cl.date
  BY DEF Keeps, Kinds, Asked
<1>2. /\ Fields(v) /\ v.applied = s.applied /\ v.skipped = s.skipped /\ v.rpc = s.rpc
      /\ v.cl.seq = s.cl.seq /\ v.cl.minTimer = s.cl.minTimer
      /\ v.cl.stored = s.cl.stored /\ v.cl.failTimer = s.cl.failTimer
      /\ v.cl.requesting = s.cl.requesting
      /\ v.cl.date \in Nat /\ s.cl.date <= v.cl.date
      /\ s.cl.minTimer => v.cl.date = s.cl.date
  BY <1>1 DEF SetDate, Fields
<1> HIDE DEF v
<1>3. Kinds(v) /\ (Full(v) <=> Full(s))  BY <1>2 DEF Keeps, Kinds, Full
<1>4. v.rpc.asked \in 0 .. v.cl.date  BY <1>1, <1>2
<1>5. Asked(v)  BY <1>2, <1>3, <1>4 DEF Keeps, Asked
<1>6. \A c : Coming(v, c) <=> Coming(s, c)
  BY <1>2, <1>3 DEF Coming, Keeps, Kinds
<1>7. \A c : (Has(v, x, c) <=> Has(s, x, c)) /\ (Owed(v, c) <=> Owed(s, c))
  BY <1>2, <1>6 DEF Has, Owed
<1>8. Keeps(v, x)  BY <1>2, <1>3, <1>5, <1>7 DEF Keeps
<1> QED  BY <1>2, <1>7, <1>8 DEF v

\* The number may change to n when all containers up to n are there or coming.
Reaches(s, x, n) ==
    \A c \in log : c.data # "minChannel" /\ c.seq # 0 /\ c.seq <= n => Has(s, x, c)

LEMMA SeqKeeps ==
    ASSUME NEW s, NEW x, Keeps(s, x), NEW n \in 0 .. topSeq, Reaches(s, x, n),
           NEW v, Fields(v), v.cl.seq = n,
           v.applied = s.applied, v.skipped = s.skipped, v.rpc = s.rpc,
           v.cl.date = s.cl.date, v.cl.minTimer = s.cl.minTimer,
           v.cl.failTimer = s.cl.failTimer, v.cl.requesting = s.cl.requesting,
           v.cl.stored = s.cl.stored
    PROVE  Keeps(v, x)
<1>1. Kinds(v) /\ (Full(v) <=> Full(s))  BY DEF Keeps, Kinds, Full
<1>2. Asked(v)  BY <1>1 DEF Keeps, Asked
<1>3. \A c : Coming(v, c) <=> Coming(s, c)  BY <1>1 DEF Coming
<1>4. \A c : Has(v, x, c) <=> Has(s, x, c)  BY <1>3 DEF Has
<1>5. ASSUME NEW c \in log, Owed(v, c) PROVE Has(v, x, c)
  BY <1>4, <1>5 DEF Owed, Reaches, Keeps
<1> QED  BY <1>1, <1>2, <1>5 DEF Keeps

\* A container that continues the numbers is passed.
LEMMA NextIsReached ==
    ASSUME Published, NEW s, NEW x, Keeps(s, x), NEW c \in log, c.start = s.cl.seq + 1,
           c.data # "minChannel" => Has(s, x, c)
    PROVE  Reaches(s, x, c.seq) /\ c.seq \in 0 .. topSeq
<1>1. IsContainer(c) /\ c.seq <= topSeq /\ topSeq \in Nat /\ s.cl.seq \in Nat
  BY DEF Published, Keeps, Kinds
<1>2. ASSUME NEW d \in log, d.data # "minChannel", d.seq # 0, d.seq <= c.seq
      PROVE  Has(s, x, d)
  <2>1. IsContainer(d)  BY DEF Published
  <2>2. CASE d.seq <= s.cl.seq  BY <1>2, <2>2 DEF Owed, Keeps
  <2>3. CASE d.seq > s.cl.seq
    <3>1. ~(c.seq < d.start) /\ ~(d.seq < c.start) /\ c.seq # 0
      BY <1>1, <1>2, <2>1, <2>3 DEF IsContainer
    <3>2. d.date = c.date
      <4>1. d.date \in Nat /\ c.date \in Nat  BY <1>1, <2>1 DEF IsContainer
      <4> QED  BY <3>1, <4>1, <1>2 DEF Published
    <3>3. d = c  BY <3>2 DEF Published
    <3> QED  BY <3>3, <1>2
  <2> QED  BY <2>1, <2>2, <2>3, <1>1 DEF IsContainer
<1> QED  BY <1>1, <1>2 DEF Reaches, IsContainer

LEMMA FirstIs ==
    ASSUME Published, NEW s, Kinds(s), s.cl.stored # {}
    PROVE  FirstStored(s) \in s.cl.stored
<1> DEFINE S == {c.start : c \in s.cl.stored}
<1>1. S \subseteq Nat /\ S # {}  BY DEF Published, Kinds, IsContainer
<1>2. PICK c \in s.cl.stored : c.start = Min(S)  BY <1>1, NatMin
<1>3. \A d \in s.cl.stored : c.start <= d.start
  <2>1. \A y \in S : Min(S) <= y  BY <1>1, NatMin
  <2> QED  BY <1>2, <2>1
<1> QED  BY <1>3 DEF FirstStored

LEMMA FeedStoredKeeps ==
    ASSUME Published, NEW s, NEW x \in BOOLEAN, Keeps(s, x)
    PROVE  /\ Keeps(FeedStored(s), x)
           /\ FeedStored(s).cl.requesting = FALSE => s.cl.requesting = FALSE
<1> DEFINE c == FirstStored(s)
           taken == [s EXCEPT !.cl.stored = @ \ {c}]
           fed == FeedUpdateVector(taken, c)
           dated == SetDate(fed, c.date)
           passed == [dated EXCEPT !.cl.seq = c.seq]
<1>1. /\ s.cl.stored # {} => c \in s.cl.stored
      /\ s.cl.stored \subseteq {d \in log : d.start # 0} /\ s.cl.seq \in Nat
      /\ Fields(s)
  BY FirstIs DEF Keeps, Kinds
<1>9. s.cl.stored # {} => c \in log /\ IsContainer(c) /\ c.start # 0 /\ c.date \in Nat
  BY <1>1 DEF Published, IsContainer
<1>2. CASE s.cl.stored = {} \/ c.start > s.cl.seq + 1
  <2>1. FeedStored(s) = s  BY <1>1, <1>9, <1>2 DEF FeedStored, IsContainer
  <2> QED  BY <2>1
<1>3. CASE ~(s.cl.stored = {} \/ c.start > s.cl.seq + 1)
  <2>1. c \in log /\ IsContainer(c) /\ c.start # 0 /\ c.date \in Nat
    BY <1>9, <1>3
  <2> HIDE DEF c
  <2>2. /\ Fields(taken) /\ SameButStored(s, taken)
        /\ taken.cl.stored = s.cl.stored \ {c}
    BY <1>1 DEF Fields, SameButStored
  <2> HIDE DEF taken
  <2>3. Keeps(taken, x)  BY <1>1, <2>2, StoredKeeps
  <2>4. /\ Keeps(fed, x) /\ fed.cl.seq = s.cl.seq
        /\ fed.cl.requesting = FALSE => s.cl.requesting = FALSE
        /\ c.data # "minChannel" => Has(fed, x, c)
    <3>1. taken.cl.seq = s.cl.seq /\ taken.cl.requesting = s.cl.requesting
      BY <2>2 DEF SameButStored
    <3> QED  BY <2>1, <2>3, <3>1, VectorKeeps
  <2> HIDE DEF fed
  <2>5. /\ Keeps(dated, x) /\ dated.cl.seq = s.cl.seq
        /\ dated.cl.requesting = fed.cl.requesting
        /\ c.data # "minChannel" => Has(dated, x, c)
    BY <2>1, <2>4, DateKeeps
  <2> HIDE DEF dated
  <2>6. CASE c.start <= s.cl.seq
    <3>1. FeedStored(s) = taken
      BY <1>1, <1>3, <2>1, <2>6 DEF FeedStored, taken, c, IsContainer
    <3> QED  BY <3>1, <2>2, <2>3 DEF SameButStored
  <2>7. CASE c.start = s.cl.seq + 1
    <3>1. FeedStored(s) = passed
      BY <1>1, <1>3, <2>1, <2>7 DEF FeedStored, taken, fed, dated, c, IsContainer
    <3>2. Fields(dated)  BY <2>5 DEF Keeps
    <3>3. /\ Fields(passed) /\ passed.cl.seq = c.seq
          /\ passed.applied = dated.applied /\ passed.skipped = dated.skipped
          /\ passed.rpc = dated.rpc /\ passed.cl.date = dated.cl.date
          /\ passed.cl.minTimer = dated.cl.minTimer
          /\ passed.cl.failTimer = dated.cl.failTimer
          /\ passed.cl.requesting = dated.cl.requesting
          /\ passed.cl.stored = dated.cl.stored
      BY <3>2 DEF Fields
    <3>4. Reaches(dated, x, c.seq) /\ c.seq \in 0 .. topSeq
      BY <2>1, <2>5, <2>7, NextIsReached
    <3> HIDE DEF passed
    <3>5. Keeps(passed, x)  BY <2>5, <3>3, <3>4, SeqKeeps
    <3> QED  BY <3>1, <3>3, <3>5, <2>4, <2>5
  <2>8. c.start <= s.cl.seq \/ c.start = s.cl.seq + 1
    BY <1>1, <1>3, <2>1 DEF IsContainer
  <2> QED  BY <2>6, <2>7, <2>8
<1> QED  BY <1>2, <1>3

\* The stored containers one after the other.  after is a function that satisfies
\* its recursive definition, because such a function exists up to every number.
LEMMA FeedAllIs ==
    ASSUME NEW s, IsFiniteSet(s.cl.stored)
    PROVE  \E r : /\ FeedAll(s) = r[Cardinality(s.cl.stored)] /\ r[0] = s
                  /\ \A i \in 1 .. Cardinality(s.cl.stored) : r[i] = FeedStored(r[i - 1])
<1> DEFINE last == Cardinality(s.cl.stored)
           Steps(n, g) == g = [i \in 0 .. n |-> IF i = 0 THEN s ELSE FeedStored(g[i - 1])]
           K == {n \in Nat : \E g : Steps(n, g)}
           after[i \in 0 .. last] == IF i = 0 THEN s ELSE FeedStored(after[i - 1])
<1>1. last \in Nat  BY FS_CardinalityType
<1>2. 0 \in K
  <2> DEFINE g == [i \in 0 .. 0 |-> s]
  <2>1. Steps(0, g)  OBVIOUS
  <2> HIDE DEF Steps, g
  <2> QED  BY <2>1
<1>3. ASSUME NEW n \in Nat, n \in K PROVE n + 1 \in K
  <2>1. PICK g : Steps(n, g)  BY <1>3
  <2> DEFINE h == [i \in 0 .. (n + 1) |-> IF i = n + 1 THEN FeedStored(g[n]) ELSE g[i]]
             value(i) == IF i = 0 THEN s ELSE FeedStored(h[i - 1])
  <2>2. ASSUME NEW i \in 0 .. (n + 1) PROVE h[i] = value(i)
    <3>1. CASE i = n + 1
      <4>1. h[i] = FeedStored(g[n])  BY <3>1
      <4>2. h[i - 1] = g[n]  BY <3>1
      <4>3. i # 0  BY <3>1
      <4> HIDE DEF h
      <4> QED  BY <4>1, <4>2, <4>3, Zenon
    <3>2. CASE i # n + 1
      <4>1. i \in 0 .. n  BY <3>2
      <4>2. g[i] = IF i = 0 THEN s ELSE FeedStored(g[i - 1])  BY <2>1, <4>1, Zenon
      <4>3. h[i] = g[i]  BY <3>2
      <4>4. i # 0 => h[i - 1] = g[i - 1]  BY <4>1
      <4> HIDE DEF h
      <4> QED  BY <4>2, <4>3, <4>4, Zenon
    <3> QED  BY <3>1, <3>2
  <2>3. h = [i \in 0 .. (n + 1) |-> value(i)]
    <3>1. h = [i \in 0 .. (n + 1) |-> h[i]]  OBVIOUS
    <3> HIDE DEF h, value
    <3> QED  BY <3>1, <2>2, Zenon
  <2>4. Steps(n + 1, h)  BY <2>3
  <2> HIDE DEF Steps, h
  <2> QED  BY <2>4
<1> HIDE DEF K
<1>4. Nat \subseteq K  BY <1>2, <1>3, NatSet
<1>5. PICK g : Steps(last, g)
  <2> HIDE DEF last, Steps
  <2>1. last \in K  BY <1>1, <1>4
  <2> QED  BY <2>1 DEF K
<1>6. after = [i \in 0 .. last |-> IF i = 0 THEN s ELSE FeedStored(after[i - 1])]
  <2>1. after = CHOOSE q : Steps(last, q)  BY Zenon DEF after
  <2>2. Steps(last, after)
    <3> HIDE DEF Steps, after
    <3> QED  BY <1>5, <2>1, Zenon
  <2> QED  BY <2>2, Zenon DEF Steps
<1>7. FeedAll(s) = after[last]  BY Zenon DEF FeedAll
<1> HIDE DEF after
<1>8. after[0] = s
  <2> HIDE DEF last
  <2>1. 0 \in 0 .. last  BY <1>1
  <2> QED  BY <2>1, <1>6
<1>9. ASSUME NEW i \in 1 .. last PROVE after[i] = FeedStored(after[i - 1])
  <2> HIDE DEF last
  <2>1. i \in 0 .. last /\ i # 0  BY <1>1
  <2>2. after[i] = IF i = 0 THEN s ELSE FeedStored(after[i - 1])  BY <2>1, <1>6, Zenon
  <2> QED  BY <2>1, <2>2
<1> QED  BY <1>7, <1>8, <1>9

LEMMA FeedAllKeeps ==
    ASSUME Published, NEW s, NEW x \in BOOLEAN, Keeps(s, x)
    PROVE  /\ Keeps(FeedAll(s), x)
           /\ FeedAll(s).cl.requesting = FALSE => s.cl.requesting = FALSE
<1> DEFINE last == Cardinality(s.cl.stored)
           Fine(u) == Keeps(u, x) /\ (u.cl.requesting = FALSE => s.cl.requesting = FALSE)
<1>1. IsFiniteSet(s.cl.stored)
  <2>1. s.cl.stored \subseteq log /\ IsFiniteSet(log)  BY DEF Published, Keeps, Kinds
  <2> QED  BY <2>1, FS_Subset
<1>2. last \in Nat  BY <1>1, FS_CardinalityType
<1>3. PICK r : /\ FeedAll(s) = r[last] /\ r[0] = s
               /\ \A i \in 1 .. last : r[i] = FeedStored(r[i - 1])
  BY <1>1, FeedAllIs
<1> DEFINE K == {n \in Nat : n <= last => Fine(r[n])}
<1>4. 0 \in K  BY <1>3
<1>5. ASSUME NEW n \in Nat, n \in K PROVE n + 1 \in K
  <2> HIDE DEF Fine
  <2> SUFFICES ASSUME n + 1 <= last PROVE Fine(r[n + 1])  OBVIOUS
  <2>1. n + 1 \in 1 .. last /\ n <= last  BY <1>2
  <2>2. r[n + 1] = FeedStored(r[n])
    <3>1. r[n + 1] = FeedStored(r[(n + 1) - 1])  BY <1>3, <2>1
    <3>2. (n + 1) - 1 = n  OBVIOUS
    <3> QED  BY <3>1, <3>2
  <2>3. Fine(r[n])  BY <1>5, <2>1
  <2> QED  BY <2>2, <2>3, FeedStoredKeeps DEF Fine
<1> HIDE DEF K
<1>6. last \in K  BY <1>2, <1>4, <1>5, NatSet
<1>7. Fine(r[last])  BY <1>2, <1>6 DEF K
<1> QED  BY <1>3, <1>7

\* updSetState: the number and the date it is given, then what is stored.
LEMMA UpdSetStateKeeps ==
    ASSUME Published, NEW s, NEW x \in BOOLEAN, Keeps(s, x),
           NEW date \in Nat, NEW n \in 0 .. topSeq, n # 0 => Reaches(s, x, n)
    PROVE  /\ Keeps(UpdSetState(s, date, n), x)
           /\ UpdSetState(s, date, n).cl.requesting = FALSE => s.cl.requesting = FALSE
<1> DEFINE dated == SetDate(s, date)
           moved == [dated EXCEPT !.cl.seq = n, !.cl.seqTimer = FALSE]
           all == FeedAll(moved)
           watched == WatchStored(all)
<1>1. /\ Keeps(dated, x) /\ dated.cl.requesting = s.cl.requesting
      /\ \A c : c.data # "minChannel" => (Has(dated, x, c) <=> Has(s, x, c))
  BY DateKeeps
<1>2. CASE ~SeqChanges(s, n)
  <2>1. UpdSetState(s, date, n) = dated  BY <1>2 DEF UpdSetState
  <2> HIDE DEF dated
  <2> QED  BY <1>1, <2>1
<1>3. CASE SeqChanges(s, n)
  <2>1. UpdSetState(s, date, n) = watched  BY <1>3 DEF UpdSetState
  <2> HIDE DEF dated
  <2>2. Reaches(dated, x, n)  BY <1>1, <1>3 DEF SeqChanges, Reaches
  <2>3. Fields(dated)  BY <1>1 DEF Keeps
  <2>4. /\ Fields(moved) /\ moved.cl.seq = n
        /\ moved.applied = dated.applied /\ moved.skipped = dated.skipped
        /\ moved.rpc = dated.rpc /\ moved.cl.date = dated.cl.date
        /\ moved.cl.minTimer = dated.cl.minTimer
        /\ moved.cl.failTimer = dated.cl.failTimer
        /\ moved.cl.requesting = dated.cl.requesting
        /\ moved.cl.stored = dated.cl.stored
    BY <2>3 DEF Fields
  <2> HIDE DEF moved
  <2>5. Keeps(moved, x)  BY <1>1, <2>2, <2>4, SeqKeeps
  <2>6. Keeps(all, x) /\ (all.cl.requesting = FALSE => moved.cl.requesting = FALSE)
    BY <2>5, FeedAllKeeps
  <2> HIDE DEF all
  <2>7. Fields(all) /\ all.cl.stored \subseteq {c \in log : c.start # 0}
    BY <2>6 DEF Keeps, Kinds
  <2>8. /\ Fields(watched) /\ SameButStored(all, watched)
        /\ watched.cl.stored = all.cl.stored
    BY <2>7 DEF WatchStored, Fields, SameButStored
  <2> HIDE DEF watched
  <2>9. Keeps(watched, x)  BY <2>6, <2>7, <2>8, StoredKeeps
  <2> QED  BY <1>1, <2>1, <2>4, <2>6, <2>8, <2>9 DEF SameButStored
<1> QED  BY <1>2, <1>3

\* feedUpdates: dropped as old, stored as early, or fed.
LEMMA FeedUpdatesKeeps ==
    ASSUME Published, NEW s, Keeps(s, TRUE), NEW c \in log
    PROVE  Keeps(FeedUpdates(s, c), TRUE)
<1> DEFINE early == [s EXCEPT !.cl.stored = @ \cup {c}, !.cl.seqTimer = TRUE]
           fed == FeedUpdateVector(s, c)
<1>1. Fields(s) /\ Kinds(s) /\ IsContainer(c) /\ c.seq \in 0 .. topSeq /\ s.cl.seq \in Nat
  BY DEF Keeps, Kinds, Published, IsContainer
<1>2. CASE c.start # 0 /\ c.start <= s.cl.seq
  <2>1. FeedUpdates(s, c) = s  BY <1>2 DEF FeedUpdates
  <2> QED  BY <2>1
<1>3. CASE ~(c.start # 0 /\ c.start <= s.cl.seq) /\ ComesEarly(s, c)
  <2>1. FeedUpdates(s, c) = early  BY <1>3 DEF FeedUpdates
  <2>2. /\ Fields(early) /\ SameButStored(s, early)
        /\ early.cl.stored = s.cl.stored \cup {c}
    BY <1>1 DEF Fields, SameButStored
  <2> HIDE DEF early
  <2>3. early.cl.stored \subseteq {d \in log : d.start # 0}
    BY <1>1, <1>3, <2>2 DEF Kinds, ComesEarly
  <2> QED  BY <2>1, <2>2, <2>3, StoredKeeps
<1>4. CASE ~(c.start # 0 /\ c.start <= s.cl.seq) /\ ~ComesEarly(s, c)
  <2>1. FeedUpdates(s, c) = UpdSetState(fed, c.date, c.seq)  BY <1>4 DEF FeedUpdates
  <2>2. /\ Keeps(fed, TRUE) /\ fed.cl.seq = s.cl.seq
        /\ c.data # "minChannel" => Has(fed, TRUE, c)
    BY VectorKeeps
  <2> HIDE DEF fed
  <2>3. c.seq # 0 => Reaches(fed, TRUE, c.seq)
    <3> SUFFICES ASSUME c.seq # 0 PROVE Reaches(fed, TRUE, c.seq)  OBVIOUS
    <3>1. c.start = fed.cl.seq + 1  BY <1>1, <1>4, <2>2 DEF ComesEarly, IsContainer
    <3> QED  BY <2>2, <3>1, NextIsReached
  <2>4. c.date \in Nat  BY <1>1 DEF IsContainer
  <2> QED  BY <1>1, <2>1, <2>2, <2>3, <2>4, UpdSetStateKeeps
<1> QED  BY <1>2, <1>3, <1>4

-----------------------------------------------------------------------------
(* The actions of the sequence layer. *)

LEMMA SeqStarts == SeqInit => SeqInv
<1> SUFFICES ASSUME SeqInit PROVE SeqInv  OBVIOUS
<1>1. /\ log = {} /\ now = 1 /\ topSeq = 0 /\ wire = {} /\ applied = {} /\ skipped = {}
      /\ cl = [seq |-> 0, date |-> 0, stored |-> {}, seqTimer |-> FALSE,
               minTimer |-> FALSE, failTimer |-> FALSE, requesting |-> TRUE]
      /\ rpc = [st |-> "getState", asked |-> 0, date |-> 0, seq |-> 0]
  BY DEF SeqInit, NoRpc
<1>2. Published  BY <1>1, FS_EmptySet DEF Published
<1>3. Fields(State) /\ Kinds(State) /\ Asked(State)
  <2>1. /\ {"cl", "rpc", "applied", "skipped"} \subseteq DOMAIN State
        /\ State.cl = cl /\ State.rpc = rpc /\ State.skipped = {}
    BY <1>1 DEF State
  <2>2. /\ cl.seq = 0 /\ cl.date = 0 /\ cl.stored = {} /\ cl.minTimer = FALSE
        /\ cl.failTimer = FALSE /\ cl.requesting = TRUE
        /\ rpc.st = "getState" /\ rpc.asked = 0
    BY <1>1
  <2>3. Fields(State)  BY <2>1, <1>1 DEF Fields
  <2>4. Kinds(State)  BY <2>1, <2>2, <1>1 DEF Kinds
  <2>5. Asked(State)  BY <2>1, <2>2 DEF Asked, Full
  <2> QED  BY <2>3, <2>4, <2>5
<1>4. \A c \in log : Owed(State, c) => Has(State, TRUE, c)  BY <1>1
<1> QED  BY <1>2, <1>3, <1>4 DEF SeqInv, Keeps

\* A step of the client, to a state that keeps the invariant.
LEMMA ClientKeeps ==
    ASSUME Published, NEW s, Keeps(s, TRUE), Become(s),
           UNCHANGED serverVars, wire' \subseteq wire
    PROVE  SeqInv'
<1>1. /\ log' = log /\ topSeq' = topSeq /\ now' = now /\ server' = server
      /\ \A m \in wire' : m \in wire
      /\ cl' = s.cl /\ rpc' = s.rpc /\ applied' = s.applied /\ skipped' = s.skipped
  BY DEF Become, serverVars
<1>2. Published'  BY <1>1 DEF Published
<1>3. /\ State'.cl = s.cl /\ State'.rpc = s.rpc /\ State'.applied = s.applied
      /\ State'.skipped = s.skipped /\ {"cl", "rpc", "applied", "skipped"} \subseteq DOMAIN State'
  BY <1>1 DEF State
<1>4. Fields(State)' /\ Kinds(State)' /\ (Full(State)' <=> Full(s))
  BY <1>1, <1>3 DEF Keeps, Fields, Kinds, Full
<1>5. Asked(State)'  BY <1>1, <1>3, <1>4 DEF Keeps, Asked
<1>6. \A c : /\ Owed(State, c)' <=> Owed(s, c)
             /\ Has(State, TRUE, c)' <=> Has(s, TRUE, c)
  BY <1>1, <1>3, <1>4 DEF Owed, Has, Coming
<1> QED  BY <1>1, <1>2, <1>4, <1>5, <1>6 DEF SeqInv, Keeps

\* What is published is neither passed nor promised by an answer.
LEMMA PublishKeeps ==
    ASSUME SeqInv, NEW n \in 0 .. 2, NEW data \in Data, NEW via, Publish(n, data, via)
    PROVE  SeqInv'
<1> DEFINE c == [start |-> IF n = 0 THEN 0 ELSE topSeq + 1,
                 seq |-> IF n = 0 THEN 0 ELSE topSeq + n,
                 date |-> now + 1, data |-> data]
<1>1. /\ log' = log \cup {c} /\ now' = now + 1 /\ topSeq' = topSeq + n
      /\ wire' = wire \cup {[via |-> via, container |-> c]}
      /\ data = "minChannel" => server = "channels"
      /\ UNCHANGED <<server, cl, rpc, applied, skipped>>
  BY DEF Publish, clientVars
<1>2. /\ c.start = IF n = 0 THEN 0 ELSE topSeq + 1
      /\ c.seq = IF n = 0 THEN 0 ELSE topSeq + n
      /\ c.date = now + 1 /\ c.data = data
  OBVIOUS
<1>3. Published /\ Keeps(State, TRUE) /\ now \in Nat /\ topSeq \in Nat
  BY DEF SeqInv, Published
<1> HIDE DEF c
<1>4. \A d \in log : /\ IsContainer(d) /\ d.start \in Nat /\ d.seq \in Nat /\ d.date \in Nat
                     /\ d.date <= now /\ d.seq <= topSeq
  BY <1>3 DEF Published, IsContainer
<1>5. Published'
  <2>1. now' \in Nat /\ topSeq' \in Nat /\ IsFiniteSet(log')
    BY <1>1, <1>3, FS_AddElement DEF Published
  <2>2. \A d \in log' : IsContainer(d) /\ d.date <= now' /\ d.seq <= topSeq'
    <3>1. IsContainer(c) /\ c.date <= now' /\ c.seq <= topSeq'
      BY <1>1, <1>2, <1>3 DEF IsContainer
    <3> QED  BY <3>1, <1>1, <1>3, <1>4
  <2>3. \A d, e \in log' : d.seq # 0 /\ e.seq # 0 /\ d.date < e.date => d.seq < e.start
    <3> SUFFICES ASSUME NEW d \in log', NEW e \in log', d.seq # 0, e.seq # 0,
                        d.date < e.date
                 PROVE  d.seq < e.start
      OBVIOUS
    <3>1. CASE d \in log /\ e \in log  BY <3>1, <1>3 DEF Published
    <3>2. CASE d \in log /\ e = c  BY <3>2, <1>2, <1>3, <1>4
    <3>3. CASE d = c  BY <3>3, <1>1, <1>2, <1>3, <1>4
    <3> QED  BY <3>1, <3>2, <3>3, <1>1
  <2>4. \A d, e \in log' : d.date = e.date => d = e
    <3>1. \A d \in log : d.date # c.date  BY <1>2, <1>3, <1>4
    <3> QED  BY <3>1, <1>1, <1>3 DEF Published
  <2>5. \A m \in wire' : m.container \in log'  BY <1>1, <1>3 DEF Published
  <2>6. server' # "channels" => \A d \in log' : d.data # "minChannel"
    BY <1>1, <1>2, <1>3 DEF Published
  <2> QED  BY <2>1, <2>2, <2>3, <2>4, <2>5, <2>6 DEF Published
<1>6. State' = State  BY <1>1 DEF State
<1>7. Fields(State)' /\ Kinds(State)'
  BY <1>1, <1>3, <1>6 DEF Keeps, Fields, Kinds
<1>8. Full(State)' <=> Full(State)  BY <1>6 DEF Full
<1>9. Asked(State)'
  <2> DEFINE s == State
  <2>1. Asked(s)  BY <1>3 DEF Keeps
  <2>2. ASSUME NEW k \in 0 .. topSeq, NEW date, NEW d \in log', d.seq # 0, d.seq <= k,
               \A e \in log : e.seq # 0 /\ e.seq <= k => e.date <= date
        PROVE  d.date <= date
    <3>1. d # c  BY <2>2, <1>2, <1>3
    <3> QED  BY <3>1, <2>2, <1>1
  <2>3. s.rpc.seq \in 0 .. topSeq => s.rpc.seq \in 0 .. topSeq'  BY <1>1, <1>3
  <2> HIDE DEF s
  <2>4. Asked(s)'
    <3>1. s' = s  BY <1>6 DEF s
    <3> QED  BY <2>1, <2>2, <2>3, <3>1, <1>1 DEF Asked, Full
  <2> QED  BY <2>4 DEF s
<1>10. ASSUME NEW d \in log', Owed(State, d)' PROVE Has(State, TRUE, d)'
  <2>1. State.skipped \subseteq log /\ State.cl.seq \in 0 .. topSeq  BY <1>3 DEF Keeps, Kinds
  <2>2. Owed(State, d)  BY <1>6, <1>10 DEF Owed
  <2>3. d \in log
    <3> SUFFICES ASSUME d = c, c \notin log PROVE FALSE  BY <1>1
    <3>1. c.seq # 0 /\ c.seq <= State.cl.seq  BY <2>1, <2>2 DEF Owed
    <3> QED  BY <3>1, <2>1, <1>2, <1>3
  <2>4. Has(State, TRUE, d)  BY <2>2, <2>3, <1>3 DEF Keeps
  <2> QED  BY <2>4, <1>6, <1>8 DEF Has, Coming
<1> QED  BY <1>5, <1>6, <1>7, <1>9, <1>10 DEF SeqInv, Keeps

LEMMA SeqAtIs ==
    ASSUME Published, NEW date \in Nat
    PROVE  /\ SeqAt(date) \in 0 .. topSeq
           /\ \A c \in log : c.seq # 0 /\ c.seq <= SeqAt(date) => c.date <= date
<1> DEFINE S == {0} \cup {c.seq : c \in {d \in log : d.date <= date}}
           below == {topSeq - n : n \in S}
<1>1. topSeq \in Nat /\ \A c \in log : IsContainer(c) /\ c.seq <= topSeq
  BY DEF Published
<1>2. S \subseteq 0 .. topSeq  BY <1>1 DEF IsContainer
<1>3. \E m \in S : \A n \in S : m >= n
  <2>1. below \subseteq Nat /\ below # {}  BY <1>1, <1>2
  <2>2. Min(below) \in below /\ \A y \in below : Min(below) <= y  BY <2>1, NatMin
  <2>3. PICK m \in S : Min(below) = topSeq - m  BY <2>2
  <2>4. ASSUME NEW n \in S PROVE m >= n
    <3>1. topSeq - n \in below  OBVIOUS
    <3>2. topSeq - m <= topSeq - n  BY <2>2, <2>3, <3>1
    <3>3. m \in Int /\ n \in Int  BY <1>2
    <3> HIDE DEF S
    <3> QED  BY <3>2, <3>3, <1>1
  <2> QED  BY <2>4
<1>4. SeqAt(date) \in S /\ \A n \in S : SeqAt(date) >= n
  <2>1. SeqAt(date) = Max(S)  BY DEF SeqAt
  <2> HIDE DEF S
  <2> QED  BY <1>3, <2>1 DEF Max
<1>5. ASSUME NEW c \in log, c.seq # 0, c.seq <= SeqAt(date) PROVE c.date <= date
  <2>1. PICK d \in log : d.date <= date /\ SeqAt(date) = d.seq
    <3>1. SeqAt(date) # 0  BY <1>1, <1>5 DEF IsContainer
    <3> QED  BY <3>1, <1>4
  <2>2. /\ c.date \in Nat /\ d.date \in Nat /\ c.seq \in Nat /\ d.seq \in Nat
        /\ c.start \in Nat /\ c.start <= c.seq
    BY <1>1 DEF IsContainer
  <2>3. ~(d.date < c.date)
    <3> SUFFICES ASSUME d.date < c.date PROVE FALSE  OBVIOUS
    <3>1. d.seq < c.start  BY <1>5, <2>1, <2>2 DEF Published
    <3> QED  BY <3>1, <2>1, <2>2, <1>5
  <2> QED  BY <2>1, <2>2, <2>3
<1> QED  BY <1>2, <1>4, <1>5

\* An answer brings all that was published and passed when it was made.
LEMMA AnswersKeep ==
    ASSUME SeqInv, ServerAnswers \/ ServerAnswersError
    PROVE  SeqInv'
<1>1. /\ UNCHANGED <<server, log, now, topSeq, wire, cl, applied, skipped>>
      /\ rpc.st \in {"getState", "getDifference"}
  BY DEF ServerAnswers, ServerAnswersError, serverVars, clientVars
<1>2. PICK st, date, seq :
          /\ rpc' = [rpc EXCEPT !.st = st, !.date = date, !.seq = seq]
          /\ \/ st \in {"state", "difference"} /\ date = now /\ seq = topSeq
             \/ /\ st = "slice" /\ server # "channels" /\ seq = SeqAt(date)
                /\ \E c \in log : date = c.date
             \/ st = "error" /\ server = "faults"
  BY DEF ServerAnswers, ServerAnswersError, Reply
<1>3. Published /\ Keeps(State, TRUE)  BY DEF SeqInv
<1>4. /\ State.cl = cl /\ State.rpc = rpc /\ State.applied = applied
      /\ State.skipped = skipped
      /\ State'.cl = cl /\ State'.rpc = rpc' /\ State'.applied = applied
      /\ State'.skipped = skipped /\ DOMAIN State' = DOMAIN State
  BY <1>1 DEF State
<1>5. Fields(State)  BY <1>3 DEF Keeps
<1>6. /\ rpc'.st = st /\ rpc'.date = date /\ rpc'.seq = seq /\ rpc'.asked = rpc.asked
      /\ DOMAIN rpc' = DOMAIN rpc
  BY <1>2, <1>4, <1>5 DEF Fields
<1>7. /\ now \in Nat /\ topSeq \in Nat
      /\ \A c \in log : c.date <= now /\ c.date \in Nat /\ c.seq <= topSeq
  BY <1>3 DEF Published, IsContainer
<1>8. Published'  BY <1>1, <1>3 DEF Published
<1>9. Fields(State)' /\ Kinds(State)'
  BY <1>1, <1>3, <1>4, <1>5, <1>6 DEF Keeps, Fields, Kinds
<1>10. Full(State)' <=> st \in {"state", "difference"}  BY <1>4, <1>6 DEF Full
<1>11. Full(State)' => date = now /\ seq = topSeq  BY <1>2, <1>10
<1>12. Asked(State)'
  <2>1. Asked(State) /\ cl.requesting = TRUE /\ (cl.failTimer => server = "faults")
    BY <1>1, <1>3, <1>4 DEF Keeps, Asked, Kinds
  <2>2. st \in {"state", "difference", "slice"} =>
          /\ date \in Nat /\ seq \in 0 .. topSeq
          /\ \A c \in log : c.seq # 0 /\ c.seq <= seq => c.date <= date
    <3>1. CASE st = "slice"
      <4>1. date \in Nat /\ seq = SeqAt(date)  BY <1>2, <1>7, <3>1
      <4> QED  BY <4>1, <1>3, SeqAtIs
    <3>2. CASE st # "slice"  BY <3>2, <1>2, <1>7
    <3> QED  BY <3>1, <3>2
  <2>3. st = "slice" => server # "channels"  BY <1>2
  <2>4. st = "error" => server = "faults"  BY <1>2
  <2> QED  BY <2>1, <2>2, <2>3, <2>4, <1>1, <1>4, <1>6, <1>10 DEF Asked
<1>13. ASSUME NEW c \in log, Owed(State, c)' PROVE Has(State, TRUE, c)'
  <2>1. Owed(State, c)  BY <1>4, <1>13 DEF Owed
  <2>2. Has(State, TRUE, c)  BY <1>3, <2>1 DEF Keeps
  <2>3. ~Full(State)  BY <1>1, <1>4 DEF Full
  <2>4. Full(State)' => c.date <= date  BY <1>7, <1>11
  <2> QED  BY <2>2, <2>3, <2>4, <1>1, <1>4, <1>6 DEF Has, Coming
<1> QED  BY <1>1, <1>8, <1>9, <1>12, <1>13 DEF SeqInv, Keeps

\* What the answer brings, with what was there, is all that is passed.
LEMMA ReceivedIs ==
    ASSUME SeqInv, Full(State) \/ rpc.st = "slice"
    PROVE  /\ Keeps(Received, rpc.st = "slice") /\ Received.cl.requesting = TRUE
           /\ Keeps(Received, TRUE)
<1> DEFINE s == [State EXCEPT !.applied = @ \cup Brought, !.rpc = NoRpc]
           x == rpc.st = "slice"
<1>1. Published /\ Keeps(State, TRUE)  BY DEF SeqInv
<1>2. /\ State.cl = cl /\ State.rpc = rpc /\ State.applied = applied
      /\ State.skipped = skipped
      /\ {"cl", "rpc", "applied", "skipped"} \subseteq DOMAIN State
  BY DEF State
<1>3. /\ s.cl = cl /\ s.rpc = NoRpc /\ s.applied = applied \cup Brought
      /\ s.skipped = skipped
      /\ {"cl", "rpc", "applied", "skipped"} \subseteq DOMAIN s
  BY <1>2
<1>4. /\ NoRpc.st = "none" /\ NoRpc.asked = 0
      /\ {"st", "asked", "date", "seq"} \subseteq DOMAIN NoRpc
  BY DEF NoRpc
<1>5. Received = UpdSetState(s, rpc.date, rpc.seq)  BY DEF Received
<1> HIDE DEF s
<1>6. /\ cl.requesting = TRUE /\ cl.date \in Nat /\ rpc.asked \in 0 .. cl.date
      /\ rpc.date \in Nat /\ rpc.seq \in 0 .. topSeq
      /\ \A c \in log : c.seq # 0 /\ c.seq <= rpc.seq => c.date <= rpc.date
      /\ rpc.st = "slice" => server # "channels"
      /\ cl.failTimer => server = "faults"
  BY <1>1, <1>2 DEF Keeps, Asked, Kinds, Full
<1>7. Fields(s) /\ Kinds(s) /\ ~Full(s) /\ s.rpc.st = "none"
  BY <1>1, <1>2, <1>3, <1>4 DEF Keeps, Fields, Kinds, Full
<1>8. Asked(s)  BY <1>3, <1>4, <1>6, <1>7 DEF Asked
<1>9. \A c \in log : IsContainer(c) /\ c.date \in Nat  BY <1>1 DEF Published, IsContainer
<1>10. ASSUME NEW c \in log, c.data # "minChannel", c.date <= rpc.date
       PROVE  c \in s.applied
  BY <1>3, <1>10 DEF Brought
<1>11. ASSUME NEW c \in log, Owed(s, c) PROVE Has(s, x, c)
  <2>1. Owed(State, c)  BY <1>2, <1>3, <1>11 DEF Owed
  <2>2. Has(State, TRUE, c)  BY <1>1, <2>1 DEF Keeps
  <2>3. CASE x
    <3>1. c.data # "minChannel"  BY <2>3, <1>1, <1>6 DEF Published
    <3> QED  BY <2>3, <3>1, <1>3, <1>6, <1>7 DEF Has, Coming
  <2>4. CASE ~x
    <3>1. Full(State)  BY <2>4
    <3>2. CASE c \in applied  BY <3>2, <1>3 DEF Has
    <3>3. CASE Coming(State, c)
      <4>1. c.date <= rpc.date  BY <3>1, <3>3, <1>2 DEF Coming
      <4>2. c.data = "minChannel" => c.date > rpc.asked
        BY <3>3, <1>2, <1>6, <1>9 DEF Coming
      <4> QED  BY <4>1, <4>2, <1>3 DEF Has, Brought
    <3> QED  BY <2>2, <3>2, <3>3, <1>2 DEF Has
  <2> QED  BY <2>3, <2>4
<1>12. Keeps(s, x)  BY <1>3, <1>6, <1>7, <1>8, <1>11 DEF Keeps
<1>13. Reaches(s, x, rpc.seq)  BY <1>6, <1>10 DEF Reaches, Has
<1>14. Keeps(Received, x) /\ (Received.cl.requesting = FALSE => s.cl.requesting = FALSE)
  <2>1. x \in BOOLEAN  OBVIOUS
  <2> HIDE DEF x
  <2> QED  BY <1>1, <1>5, <1>6, <1>12, <1>13, <2>1, UpdSetStateKeeps
<1>15. Received.cl.requesting = TRUE
  BY <1>3, <1>6, <1>14 DEF Keeps, Kinds
<1>16. Keeps(Received, TRUE)  BY <1>14 DEF Keeps, Has
<1> QED  BY <1>14, <1>15, <1>16

LEMMA GetDifferenceKeeps ==
    ASSUME Published, NEW s, Keeps(s, TRUE)
    PROVE  Keeps(GetDifference(s), TRUE)
<1>1. CASE s.cl.requesting = TRUE
  <2>1. GetDifference(s) = s  BY <1>1 DEF GetDifference
  <2> QED  BY <2>1
<1>2. CASE s.cl.requesting = FALSE
  <2>1. \A c \in log : Owed(s, c) /\ c.data = "minChannel"
                          => c \in s.applied \/ s.cl.date < c.date
    BY <1>2 DEF Keeps, Has, Coming
  <2>2. Fields(s) /\ Kinds(s)  BY DEF Keeps
  <2> QED  BY <1>2, <2>1, <2>2, AskKeeps
<1> QED  BY <1>1, <1>2 DEF Keeps, Kinds

\* A new session: the numbers start again, and the difference is asked for.
LEMMA NewSessionKeeps ==
    ASSUME SeqInv, NewSessionCreated
    PROVE  SeqInv'
<1> DEFINE s == [State EXCEPT !.cl.seq = 0]
<1>1. Published /\ Keeps(State, TRUE)  BY DEF SeqInv
<1>2. /\ Fields(s) /\ s.cl.seq = 0
      /\ s.applied = State.applied /\ s.skipped = State.skipped /\ s.rpc = State.rpc
      /\ s.cl.date = State.cl.date /\ s.cl.minTimer = State.cl.minTimer
      /\ s.cl.failTimer = State.cl.failTimer
      /\ s.cl.requesting = State.cl.requesting /\ s.cl.stored = State.cl.stored
  <2>1. Fields(State)  BY <1>1 DEF Keeps
  <2> QED  BY <2>1 DEF Fields
<1>3. Become(GetDifference(s)) /\ UNCHANGED <<serverVars, wire>>
  BY DEF NewSessionCreated
<1> HIDE DEF s
<1>4. 0 \in 0 .. topSeq /\ Reaches(State, TRUE, 0)
  <2>1. topSeq \in Nat /\ \A c \in log : c.seq \in Nat
    BY <1>1 DEF Published, IsContainer
  <2>2. \A c \in log : ~(c.seq # 0 /\ c.seq <= 0)  BY <2>1
  <2>3. 0 \in 0 .. topSeq  BY <2>1
  <2>4. Reaches(State, TRUE, 0)  BY <2>2, Zenon DEF Reaches
  <2> QED  BY <2>3, <2>4
<1>5. Keeps(s, TRUE)  BY <1>1, <1>2, <1>4, SeqKeeps
<1> QED  BY <1>1, <1>3, <1>5, GetDifferenceKeeps, ClientKeeps

LEMMA BySeqTimerKeeps ==
    ASSUME SeqInv, BySeqTimer
    PROVE  SeqInv'
<1> DEFINE s == [State EXCEPT !.cl.seqTimer = FALSE]
<1>1. Published /\ Keeps(State, TRUE)  BY DEF SeqInv
<1>2. Fields(State) /\ Kinds(State)  BY <1>1 DEF Keeps
<1>3. Fields(s) /\ SameButStored(State, s) /\ s.cl.stored = State.cl.stored
  BY <1>2 DEF Fields, SameButStored
<1>4. Become(GetDifference(s)) /\ UNCHANGED <<serverVars, wire>>  BY DEF BySeqTimer
<1> HIDE DEF s
<1>5. Keeps(s, TRUE)  BY <1>1, <1>2, <1>3, StoredKeeps DEF Kinds
<1> QED  BY <1>1, <1>4, <1>5, GetDifferenceKeeps, ClientKeeps

\* The timer of a channel: the difference it asks for, or the one already asked
\* for, is from before what the timer waited for.
LEMMA ByMinChannelTimerKeeps ==
    ASSUME SeqInv, ByMinChannelTimer
    PROVE  SeqInv'
<1> DEFINE s == [State EXCEPT !.cl.minTimer = FALSE]
<1>1. Published /\ Keeps(State, TRUE)  BY DEF SeqInv
<1>2. Fields(State) /\ Kinds(State) /\ Asked(State)  BY <1>1 DEF Keeps
<1>3. /\ Fields(s) /\ s.cl.seq = State.cl.seq
      /\ s.applied = State.applied /\ s.skipped = State.skipped /\ s.rpc = State.rpc
      /\ s.cl.date = State.cl.date /\ s.cl.minTimer = FALSE
      /\ s.cl.failTimer = State.cl.failTimer
      /\ s.cl.requesting = State.cl.requesting /\ s.cl.stored = State.cl.stored
  BY <1>2 DEF Fields
<1>4. Become(GetDifference(s)) /\ UNCHANGED <<serverVars, wire>>
  BY DEF ByMinChannelTimer
<1> HIDE DEF s
<1>5. Kinds(s) /\ (Full(s) <=> Full(State))  BY <1>2, <1>3 DEF Kinds, Full
<1>6. Asked(s)  BY <1>2, <1>3, <1>5 DEF Asked
<1>7. ASSUME NEW c \in log, Owed(s, c)
      PROVE  /\ Has(State, TRUE, c) /\ c.date \in Nat
             /\ s.cl.date \in Nat /\ s.rpc.asked \in 0 .. s.cl.date
  <2>1. Owed(State, c)  BY <1>3, <1>7 DEF Owed
  <2> QED  BY <2>1, <1>1, <1>5, <1>6 DEF Keeps, Published, IsContainer, Kinds, Asked
<1>8. CASE s.cl.requesting = TRUE
  <2>1. ASSUME NEW c \in log, Owed(s, c) PROVE Has(s, TRUE, c)
    BY <2>1, <1>3, <1>5, <1>7, <1>8 DEF Has, Coming
  <2>2. Keeps(s, TRUE)  BY <1>3, <1>5, <1>6, <2>1 DEF Keeps
  <2> QED  BY <1>1, <1>4, <2>2, GetDifferenceKeeps, ClientKeeps
<1>9. CASE s.cl.requesting = FALSE
  <2>1. \A c \in log : Owed(s, c) /\ c.data = "minChannel"
                          => c \in s.applied \/ s.cl.date < c.date
    BY <1>3, <1>7, <1>9 DEF Has, Coming
  <2>2. Keeps(GetDifference(s), TRUE)  BY <1>1, <1>3, <1>5, <1>9, <2>1, AskKeeps
  <2> QED  BY <1>1, <1>4, <2>2, ClientKeeps
<1> QED  BY <1>5, <1>8, <1>9 DEF Kinds

\* A request that failed: this server publishes nothing of unknown channels.
LEMMA AfterFailKeeps ==
    ASSUME SeqInv, GetDifferenceAfterFail
    PROVE  SeqInv'
<1> DEFINE s == [State EXCEPT !.cl.requesting = FALSE]
<1>1. Published /\ Keeps(State, TRUE)  BY DEF SeqInv
<1>2. Fields(State) /\ Kinds(State) /\ Asked(State)  BY <1>1 DEF Keeps
<1>3. /\ Fields(s) /\ s.cl.seq = State.cl.seq /\ s.skipped = State.skipped
      /\ s.cl.date = State.cl.date /\ s.cl.minTimer = State.cl.minTimer
      /\ s.cl.failTimer = State.cl.failTimer
      /\ s.cl.requesting = FALSE /\ s.cl.stored = State.cl.stored
  BY <1>2 DEF Fields
<1>4. Become(GetDifference(s)) /\ UNCHANGED <<serverVars, wire>> /\ State.cl.failTimer
  BY DEF GetDifferenceAfterFail, State
<1> HIDE DEF s
<1>5. Kinds(s)  BY <1>2, <1>3 DEF Kinds
<1>6. server = "faults"  BY <1>2, <1>4 DEF Asked
<1>7. \A c \in log : c.data # "minChannel"  BY <1>1, <1>6 DEF Published
<1>8. Keeps(GetDifference(s), TRUE)  BY <1>1, <1>3, <1>5, <1>7, AskKeeps
<1> QED  BY <1>1, <1>4, <1>8, ClientKeeps

LEMMA FailDifferenceKeeps ==
    ASSUME SeqInv, FailDifference
    PROVE  SeqInv'
<1> DEFINE s == [State EXCEPT !.cl.failTimer = TRUE, !.rpc = NoRpc]
<1>1. Published /\ Keeps(State, TRUE)  BY DEF SeqInv
<1>2. Fields(State) /\ Kinds(State) /\ Asked(State)  BY <1>1 DEF Keeps
<1>3. /\ NoRpc.st = "none" /\ NoRpc.asked = 0
      /\ {"st", "asked", "date", "seq"} \subseteq DOMAIN NoRpc
  BY DEF NoRpc
<1>4. /\ s.rpc = NoRpc /\ s.cl.seq = State.cl.seq /\ s.skipped = State.skipped
      /\ s.applied = State.applied
      /\ s.cl.date = State.cl.date /\ s.cl.minTimer = State.cl.minTimer
      /\ s.cl.failTimer = TRUE
      /\ s.cl.requesting = State.cl.requesting /\ s.cl.stored = State.cl.stored
      /\ DOMAIN s = DOMAIN State /\ DOMAIN s.cl = DOMAIN State.cl
  BY <1>2 DEF Fields
<1>5. Become(s) /\ UNCHANGED <<serverVars, wire>> /\ State.rpc.st = "error"
  BY DEF FailDifference, State
<1> HIDE DEF s
<1>6. Fields(s) /\ Kinds(s) /\ ~Full(s)
  BY <1>2, <1>3, <1>4 DEF Fields, Kinds, Full
<1>7. server = "faults" /\ s.cl.requesting = TRUE /\ s.cl.date \in Nat
  BY <1>2, <1>4, <1>5 DEF Asked, Kinds
<1>8. Asked(s)  BY <1>3, <1>4, <1>6, <1>7 DEF Asked
<1>9. \A c \in log : c.data # "minChannel"  BY <1>1, <1>7 DEF Published
<1>10. \A c \in log : Has(s, TRUE, c)  BY <1>6, <1>7, <1>9 DEF Has, Coming
<1>11. Keeps(s, TRUE)  BY <1>6, <1>8, <1>10 DEF Keeps
<1> QED  BY <1>1, <1>5, <1>11, ClientKeeps

LEMMA GotStateKeeps ==
    ASSUME SeqInv, GotState
    PROVE  SeqInv'
<1> DEFINE s == [Received EXCEPT !.cl.requesting = FALSE]
<1>1. rpc.st \in {"state", "difference"}  BY DEF GotState
<1>2. Full(State) /\ (rpc.st = "slice") = FALSE  BY <1>1 DEF Full, State
<1>3. Keeps(Received, FALSE)  BY <1>2, ReceivedIs
<1>4. Published /\ Fields(Received) /\ Kinds(Received) /\ Asked(Received)
  BY <1>3 DEF SeqInv, Keeps
<1>5. /\ Fields(s) /\ s.rpc = Received.rpc /\ s.cl.seq = Received.cl.seq
      /\ s.applied = Received.applied /\ s.skipped = Received.skipped
      /\ s.cl.date = Received.cl.date /\ s.cl.minTimer = Received.cl.minTimer
      /\ s.cl.failTimer = Received.cl.failTimer /\ s.cl.requesting = FALSE
      /\ s.cl.stored = Received.cl.stored
  BY <1>4 DEF Fields
<1>6. Become(s) /\ UNCHANGED <<serverVars, wire>>  BY DEF GotState
<1> HIDE DEF s
<1>7. Kinds(s) /\ s.rpc.st = "none" /\ ~Full(s)
  BY <1>3, <1>4, <1>5 DEF Keeps, Kinds, Full
<1>8. Asked(s)  BY <1>4, <1>5, <1>7 DEF Asked
<1>9. ASSUME NEW c \in log, Owed(s, c) PROVE Has(s, TRUE, c)
  BY <1>3, <1>5, <1>9 DEF Keeps, Owed, Has
<1>10. Keeps(s, TRUE)  BY <1>5, <1>7, <1>8, <1>9 DEF Keeps
<1> QED  BY <1>4, <1>6, <1>10, ClientKeeps

LEMMA SliceKeeps ==
    ASSUME SeqInv, GotDifferenceSlice
    PROVE  SeqInv'
<1> DEFINE s == [Received EXCEPT !.cl.requesting = FALSE]
<1>1. rpc.st = "slice"  BY DEF GotDifferenceSlice
<1>2. Keeps(Received, TRUE)  BY <1>1, ReceivedIs
<1>3. Published /\ Fields(Received) /\ Kinds(Received)  BY <1>2 DEF SeqInv, Keeps
<1>4. /\ Fields(s) /\ s.cl.seq = Received.cl.seq /\ s.skipped = Received.skipped
      /\ s.cl.date = Received.cl.date /\ s.cl.minTimer = Received.cl.minTimer
      /\ s.cl.failTimer = Received.cl.failTimer /\ s.cl.requesting = FALSE
      /\ s.cl.stored = Received.cl.stored
  BY <1>3 DEF Fields
<1>5. Become(GetDifference(s)) /\ UNCHANGED <<serverVars, wire>>
  BY DEF GotDifferenceSlice
<1> HIDE DEF s
<1>6. Kinds(s)  BY <1>3, <1>4 DEF Kinds
<1>7. server # "channels"  BY <1>1 DEF SeqInv, Keeps, Asked, State
<1>8. \A c \in log : c.data # "minChannel"  BY <1>3, <1>7 DEF Published
<1>9. Keeps(GetDifference(s), TRUE)  BY <1>3, <1>4, <1>6, <1>8, AskKeeps
<1> QED  BY <1>3, <1>5, <1>9, ClientKeeps

\* A push that is ignored or lost leaves the client as it is.
LEMMA MessageKeeps ==
    ASSUME SeqInv, NEW m \in wire, LosePush(m) \/ Deliver(m)
    PROVE  SeqInv'
<1>1. Published /\ Keeps(State, TRUE)  BY DEF SeqInv
<1>2. UNCHANGED serverVars /\ wire' \subseteq wire  BY DEF LosePush, Deliver
<1>3. Become(State) \/ Become(FeedUpdates(State, m.container))
  BY DEF LosePush, Deliver, Become, State, clientVars
<1>4. Keeps(FeedUpdates(State, m.container), TRUE)
  <2>1. m.container \in log  BY <1>1 DEF Published
  <2> QED  BY <1>1, <2>1, FeedUpdatesKeeps
<1> QED  BY <1>1, <1>2, <1>3, <1>4, ClientKeeps

LEMMA SeqSteps == SeqInv /\ [SeqNext]_seqVars => SeqInv'
<1> SUFFICES ASSUME SeqInv, [SeqNext]_seqVars PROVE SeqInv'  OBVIOUS
<1>1. CASE UNCHANGED seqVars
  <2>1. Become(State) /\ UNCHANGED <<serverVars, wire>>
    BY <1>1 DEF seqVars, Become, State, serverVars
  <2> QED  BY <2>1, ClientKeeps DEF SeqInv
<1>2. ASSUME NEW n \in 0 .. 2, NEW data \in Data, NEW via, Publish(n, data, via)
      PROVE  SeqInv'
  BY <1>2, PublishKeeps
<1>3. ASSUME NEW m \in wire, LosePush(m) \/ Deliver(m) PROVE SeqInv'
  BY <1>3, MessageKeeps
<1>4. CASE ServerAnswers \/ ServerAnswersError  BY <1>4, AnswersKeep
<1>5. CASE GotAnswer
  BY <1>5, GotStateKeeps, SliceKeeps, FailDifferenceKeeps DEF GotAnswer
<1>6. CASE Timers
  BY <1>6, BySeqTimerKeeps, ByMinChannelTimerKeeps, AfterFailKeeps DEF Timers
<1>7. CASE NewSessionCreated  BY <1>7, NewSessionKeeps
<1> QED  BY <1>1, <1>2, <1>3, <1>4, <1>5, <1>6, <1>7 DEF SeqNext

-----------------------------------------------------------------------------
LEMMA SeqInvHolds == SeqSpec => []SeqInv
<1> QED  BY SeqStarts, SeqSteps, PTL DEF SeqSpec

\* Every container up to updSeq, and every one passed over because of a channel
\* that is not loaded, is applied or comes with a difference, whatever order
\* containers come in and are stored and fed in, whatever is lost or dropped
\* while requesting, and for every answer of the three servers.
THEOREM NothingIsForgotten == SeqSpec => []NothingForgotten
<1>1. SeqInv => NothingForgotten
  <2> SUFFICES ASSUME SeqInv, NEW c \in log,
                      \/ c.data # "minChannel" /\ c.seq # 0 /\ c.seq <= cl.seq
                      \/ c \in skipped
               PROVE  c \in applied \/ OnItsWay(c)
    BY DEF NothingForgotten
  <2>1. Owed(State, c)  BY DEF Owed, State
  <2>2. Has(State, TRUE, c)  BY <2>1 DEF SeqInv, Keeps
  <2>3. Coming(State, c) => OnItsWay(c)  BY DEF Coming, OnItsWay, State
  <2> QED  BY <2>2, <2>3 DEF Has, State
<1> QED  BY <1>1, SeqInvHolds, PTL
=============================================================================
