--------------------------- MODULE PtsWaiterProofs ---------------------------
(***************************************************************************)
(* What one call of updateAndApply preserves, for any update box: lemmas   *)
(* on the operators of PtsWaiter that the proofs of the boxes cite.        *)
(*                                                                         *)
(* The argument is by counting.  The updates of the box tile its points,   *)
(* so the points counted since the last init are pairwise different, and   *)
(* _count - _good is their number.  They all lie between _good and _last:  *)
(* when their number is _last - _good they are all the points in between,  *)
(* and every update up to _last has been received.                         *)
(***************************************************************************)
EXTENDS PtsWaiter, FiniteSetTheorems, TLAPS

Updates == [pts : Nat, count : Nat]
Waiters ==
    [good : Nat, last : Nat, count : Nat,
     requesting : BOOLEAN, waiting : BOOLEAN, poll : BOOLEAN,
     armed : BOOLEAN, queue : SUBSET Updates]

\* The updates of a box tile its points from 2 on up to top.
Tiled(log, top) ==
    /\ log \subseteq Updates /\ top \in Nat
    /\ \A u \in log : u.count >= 1 /\ u.count < u.pts /\ u.pts <= top
    /\ \A u, v \in log : \/ u = v
                         \/ u.pts <= v.pts - v.count
                         \/ v.pts <= u.pts - u.count

\* A pts at which no update is cut in two.
Boundary(log, top, p) ==
    p <= top /\ \A u \in log : u.pts <= p \/ p <= u.pts - u.count

\* An update the client may be told of.
Genuine(log, top, u) ==
    \/ u \in log
    \/ u \in Updates /\ u.count = 0 /\ u.pts >= 1 /\ Boundary(log, top, u.pts)

\* Everything up to the confirmed pts is applied.
Complete(w, log, top, applied) ==
    /\ Boundary(log, top, w.good)
    /\ \A u \in log : u.pts <= w.good => u \in applied

\* The points counted lie between good and last, and count - good is their
\* number.
CountsTo(good, last, count, counted) ==
    /\ good \in Nat /\ last \in Nat /\ count \in Nat /\ good <= last
    /\ counted \subseteq (good + 1) .. last
    /\ count = good + Cardinality(counted)

\* Every point above good and up to last was counted.
Covers(counted, good, last) == counted = (good + 1) .. last

\* The points of u are above good, and none of them was counted before.
Fresh(u, good, counted) ==
    /\ u \in Updates /\ u.count <= u.pts
    /\ u.count > 0 => good <= u.pts - u.count
    /\ Points(u) \cap counted = {}

\* The counters of a waiter that is not waiting for a difference.
Counting(w, log, top, applied, counted) ==
    /\ w.good >= 1
    /\ CountsTo(w.good, w.last, w.count, counted)
    /\ Boundary(log, top, w.last)
    /\ \A u \in log : u.pts \in counted => u \in applied \cup w.queue
    /\ w.queue # {} => w.waiting /\ w.armed
    /\ \A u \in w.queue : u \in log /\ u.pts > w.good

\* The points counted above good once the waiter, now v, has looked at u.
Recount(v, counted, u) == {p \in counted \cup Points(u) : p > v.good}

-----------------------------------------------------------------------------
\* Sets of points between two bounds: how many there can be, and what it
\* means when there are as many as fit.
LEMMA PointsFit ==
    ASSUME NEW a \in Nat, NEW b \in Nat, a <= b,
           NEW S \in SUBSET ((a + 1) .. b)
    PROVE  /\ IsFiniteSet(S) /\ Cardinality(S) \in Nat
           /\ Cardinality(S) <= b - a
           /\ Cardinality(S) = b - a => S = (a + 1) .. b
<1>1. IsFiniteSet((a + 1) .. b) /\ Cardinality((a + 1) .. b) = b - a
  <2>1. (a + 1) \in Int /\ b \in Int  OBVIOUS
  <2>2. CASE a + 1 > b
    <3>1. a = b  BY <2>2
    <3> QED  BY <3>1, <2>1, <2>2, FS_Interval
  <2>3. CASE ~(a + 1 > b)
    <3>1. Cardinality((a + 1) .. b) = b - (a + 1) + 1
      BY <2>1, <2>3, FS_Interval
    <3>2. IsFiniteSet((a + 1) .. b)  BY <2>1, FS_Interval
    <3> QED  BY <3>1, <3>2
  <2> QED  BY <2>2, <2>3
<1>2. /\ IsFiniteSet(S) /\ Cardinality(S) <= Cardinality((a + 1) .. b)
      /\ Cardinality((a + 1) .. b) = Cardinality(S) => (a + 1) .. b = S
  BY <1>1, FS_Subset
<1>3. Cardinality(S) \in Nat  BY <1>2, FS_CardinalityType
<1> QED  BY <1>1, <1>2, <1>3

\* An update accounts for as many points as its count says.
LEMMA PointsOfUpdate ==
    ASSUME NEW u \in Updates, u.count <= u.pts
    PROVE  /\ IsFiniteSet(Points(u))
           /\ Cardinality(Points(u)) = u.count
<1> DEFINE a == u.pts - u.count
<1>1. a \in Nat /\ u.pts \in Nat /\ a <= u.pts  BY DEF Updates
<1>2. Points(u) = (a + 1) .. u.pts  BY <1>1 DEF Points, Updates
<1>3. /\ IsFiniteSet((a + 1) .. u.pts)
      /\ Cardinality((a + 1) .. u.pts) =
            IF a + 1 > u.pts THEN 0 ELSE u.pts - (a + 1) + 1
  <2> HIDE DEF a
  <2>1. a + 1 \in Int /\ u.pts \in Int  BY <1>1
  <2> QED  BY <2>1, FS_Interval
<1>4. u.count = u.pts - a  BY DEF Updates
<1> QED  BY <1>1, <1>2, <1>3, <1>4

\* Counting the points of an update that were not counted before.
LEMMA CountFreshPoints ==
    ASSUME NEW S, IsFiniteSet(S), NEW u \in Updates, u.count <= u.pts,
           Points(u) \cap S = {}
    PROVE  /\ IsFiniteSet(S \cup Points(u))
           /\ Cardinality(S \cup Points(u)) = Cardinality(S) + u.count
<1>1. IsFiniteSet(Points(u)) /\ Cardinality(Points(u)) = u.count
  BY PointsOfUpdate
<1>2. S \cap Points(u) = {}  OBVIOUS
<1>3. /\ IsFiniteSet(S \cup Points(u))
      /\ Cardinality(S \cup Points(u)) =
            Cardinality(S) + Cardinality(Points(u)) - Cardinality(S \cap Points(u))
  BY <1>1, FS_Union
<1>4. Cardinality(S \cap Points(u)) = 0  BY <1>2, FS_EmptySet
<1>5. Cardinality(S) \in Nat  BY FS_CardinalityType
<1>6. u.count \in Nat  BY DEF Updates
<1> QED  BY <1>1, <1>3, <1>4, <1>5, <1>6
-----------------------------------------------------------------------------
\* The counters when an update u that was not counted before is counted:
\* the number of points counted stays count - good, and if it reaches the
\* latest pts heard of, every point up to there has been counted.
LEMMA CountUpdate ==
    ASSUME NEW good, NEW last, NEW count, NEW counted, NEW u,
           CountsTo(good, last, count, counted), Fresh(u, good, counted)
    PROVE  /\ CountsTo(good, Larger(last, u.pts), count + u.count,
                       counted \cup Points(u))
           /\ last <= Larger(last, u.pts) /\ u.pts <= Larger(last, u.pts)
           /\ Larger(last, u.pts) = count + u.count
                => Covers(counted \cup Points(u), good, Larger(last, u.pts))
<1> DEFINE m == Larger(last, u.pts)
           S == counted \cup Points(u)
<1>0. /\ good \in Nat /\ last \in Nat /\ count \in Nat /\ good <= last
      /\ counted \in SUBSET ((good + 1) .. last)
      /\ count = good + Cardinality(counted)
  BY DEF CountsTo
<1>1. /\ u \in Updates /\ u.pts \in Nat /\ u.count \in Nat /\ u.count <= u.pts
      /\ u.count > 0 => good <= u.pts - u.count
      /\ Points(u) \cap counted = {}
  BY DEF Fresh, Updates
<1>2. m \in Nat /\ last <= m /\ u.pts <= m  BY <1>0, <1>1 DEF Larger
<1>3. Points(u) \subseteq (good + 1) .. u.pts  BY <1>0, <1>1 DEF Points
<1>4. S \subseteq (good + 1) .. m
  <2> HIDE DEF m
  <2>1. counted \subseteq (good + 1) .. m  BY <1>0, <1>2
  <2>2. Points(u) \subseteq (good + 1) .. m  BY <1>0, <1>1, <1>2, <1>3
  <2> QED  BY <2>1, <2>2
<1>5. IsFiniteSet(counted) /\ Cardinality(counted) \in Nat  BY <1>0, PointsFit
<1>6. Cardinality(S) = Cardinality(counted) + u.count
  BY <1>1, <1>5, CountFreshPoints
<1>7. count + u.count \in Nat /\ count + u.count = good + Cardinality(S)
  <2> HIDE DEF S
  <2> QED  BY <1>0, <1>1, <1>5, <1>6
<1>8. m = count + u.count => S = (good + 1) .. m
  <2> HIDE DEF m, S
  <2>1. Cardinality(S) \in Nat  BY <1>0, <1>1, <1>5, <1>6
  <2>2. good <= m  BY <1>0, <1>2
  <2>3. m = count + u.count => Cardinality(S) = m - good
    BY <1>0, <1>2, <1>7, <2>1
  <2> QED  BY <1>0, <1>2, <1>4, <2>2, <2>3, PointsFit
<1> QED
  <2> HIDE DEF m, S
  <2>1. CountsTo(good, m, count + u.count, S)
    BY <1>0, <1>2, <1>4, <1>7 DEF CountsTo
  <2> QED  BY <1>2, <1>8, <2>1 DEF m, S, Covers

-----------------------------------------------------------------------------
\* A waiter that looks at u: it has a pts, expects no difference, and u is
\* not an old update.
Looked(w, u) == ~w.requesting /\ w.good > 0 /\ ~IsOld(w, u)

\* The waiter that updated() leaves, when the gap is closed and when not.
LEMMA FeedCloses ==
    ASSUME NEW w \in Waiters, NEW u \in Updates, Looked(w, u), Closes(w, u)
    PROVE  Updated(w, u) =
             [w EXCEPT !.last = Larger(w.last, u.pts),
                       !.count = w.count + u.count,
                       !.good = Larger(w.last, u.pts)]
BY DEF Looked, Updated, Check, Inited, Waiters

LEMMA FeedWaits ==
    ASSUME NEW w \in Waiters, NEW u \in Updates, Looked(w, u), ~Closes(w, u)
    PROVE  Updated(w, u) =
             [w EXCEPT !.last = Larger(w.last, u.pts),
                       !.count = w.count + u.count,
                       !.waiting = TRUE, !.armed = TRUE]
BY DEF Looked, Updated, Check, Inited, Waiters, WaitForSkipped, StartTimer

\* The fields of that waiter.
LEMMA UpdatedFields ==
    ASSUME NEW w \in Waiters, NEW u \in Updates, Looked(w, u),
           NEW v, v = Updated(w, u),
           Larger(w.last, u.pts) \in Nat, w.count + u.count \in Nat
    PROVE  /\ v \in Waiters
           /\ v.last = Larger(w.last, u.pts) /\ v.count = w.count + u.count
           /\ v.good = IF Closes(w, u) THEN Larger(w.last, u.pts) ELSE w.good
           /\ v.queue = w.queue /\ ~v.requesting
           /\ Closes(w, u) => (v.waiting <=> w.waiting)
           /\ ~Closes(w, u) => v.waiting /\ v.armed
<1> DEFINE m == Larger(w.last, u.pts)
           n == w.count + u.count
<1>0. ~w.requesting  BY DEF Looked
<1>1. CASE Closes(w, u)
  <2>1. v = [w EXCEPT !.last = m, !.count = n, !.good = m]
    BY <1>1, FeedCloses
  <2>2. m \in Nat /\ n \in Nat  OBVIOUS
  <2> HIDE DEF m, n
  <2>3. v \in Waiters  BY <2>1, <2>2 DEF Waiters
  <2>4. v.last = m /\ v.count = n /\ v.good = m /\ v.queue = w.queue
    BY <2>1 DEF Waiters
  <2>5. (v.waiting <=> w.waiting) /\ ~v.requesting  BY <1>0, <2>1 DEF Waiters
  <2> QED  BY <1>1, <2>3, <2>4, <2>5 DEF m, n
<1>2. CASE ~Closes(w, u)
  <2>1. v = [w EXCEPT !.last = m, !.count = n, !.waiting = TRUE, !.armed = TRUE]
    BY <1>2, FeedWaits
  <2>2. m \in Nat /\ n \in Nat  OBVIOUS
  <2> HIDE DEF m, n
  <2>3. v \in Waiters  BY <2>1, <2>2 DEF Waiters
  <2>4. v.last = m /\ v.count = n /\ v.good = w.good /\ v.queue = w.queue
    BY <2>1 DEF Waiters
  <2>5. v.waiting /\ v.armed /\ ~v.requesting  BY <1>0, <2>1 DEF Waiters
  <2> QED  BY <1>2, <2>3, <2>4, <2>5 DEF m, n
<1> QED  BY <1>1, <1>2

\* applySkippedUpdates empties the queue and applies all of it.
LEMMA SkippedFields ==
    ASSUME NEW v \in Waiters, v.queue # {} => v.waiting,
           NEW x, x = ApplySkippedUpdates(v)
    PROVE  /\ x \in Waiters /\ x.queue = {} /\ Skipped(v) = v.queue
           /\ x.good = v.good /\ x.last = v.last /\ x.count = v.count
           /\ x.requesting <=> v.requesting
<1>1. CASE v.waiting
  <2>1. x = [v EXCEPT !.waiting = FALSE, !.armed = v.armed /\ (FALSE \/ v.poll),
                      !.queue = {}]
    BY <1>1 DEF ApplySkippedUpdates, StopWaitingForSkipped, CheckForWaiting, Waiters
  <2>2. (v.armed /\ (FALSE \/ v.poll)) \in BOOLEAN  OBVIOUS
  <2>3. x \in Waiters  BY <2>1, <2>2 DEF Waiters
  <2>4. /\ x.queue = {} /\ x.good = v.good /\ x.last = v.last
        /\ x.count = v.count
    BY <2>1 DEF Waiters
  <2>5. x.requesting <=> v.requesting  BY <2>1 DEF Waiters
  <2>6. Skipped(v) = v.queue  BY <1>1 DEF Skipped
  <2> QED  BY <2>3, <2>4, <2>5, <2>6
<1>2. CASE ~v.waiting
  <2>1. x = v /\ v.queue = {}  BY <1>2 DEF ApplySkippedUpdates
  <2>2. Skipped(v) = {}  BY <1>2 DEF Skipped
  <2> QED  BY <2>1, <2>2
<1> QED  BY <1>1, <1>2

\* updateAndApply with the update itself: it is applied with all that was
\* held back, or it is held back, and then the waiter waits.
LEMMA FeedResult ==
    ASSUME NEW w \in Waiters, NEW u \in Updates, Looked(w, u),
           w.queue # {} => w.waiting,
           Larger(w.last, u.pts) \in Nat, w.count + u.count \in Nat,
           NEW x, x = UpdateAndApply(w, u)
    PROVE  /\ x \in Waiters
           /\ x.last = Larger(w.last, u.pts) /\ x.count = w.count + u.count
           /\ x.good = IF Closes(w, u) THEN Larger(w.last, u.pts) ELSE w.good
           /\ ~x.requesting
           /\ Closes(w, u) \/ u.count = 0
                => x.queue = {} /\ Applied(w, u) = w.queue \cup {u}
           /\ ~(Closes(w, u) \/ u.count = 0)
                => /\ x.queue = w.queue \cup {u} /\ Applied(w, u) = {}
                   /\ x.waiting /\ x.armed
<1> DEFINE v == Updated(w, u)
<1>1. /\ v \in Waiters
      /\ v.last = Larger(w.last, u.pts) /\ v.count = w.count + u.count
      /\ v.good = IF Closes(w, u) THEN Larger(w.last, u.pts) ELSE w.good
      /\ v.queue = w.queue /\ ~v.requesting
      /\ Closes(w, u) => (v.waiting <=> w.waiting)
      /\ ~Closes(w, u) => v.waiting /\ v.armed
  BY UpdatedFields
<1>2. Passes(w, u) <=> Closes(w, u) \/ u.count = 0
  BY DEF Looked, Passes, CheckPasses, Inited, Waiters
<1>3. AppliesDirectly(w, u) <=> ~v.waiting \/ v.queue = {}
  BY DEF AppliesDirectly
<1>4. ~IsOld(w, u)  BY DEF Looked
<1>5. CASE (Closes(w, u) \/ u.count = 0) /\ w.queue = {}
  <2>1. x = v  BY <1>1, <1>2, <1>3, <1>5 DEF UpdateAndApply
  <2>2. Applied(w, u) = {u}  BY <1>1, <1>2, <1>3, <1>5 DEF Applied
  <2> HIDE DEF v
  <2> QED  BY <1>1, <1>5, <2>1, <2>2
<1>6. CASE (Closes(w, u) \/ u.count = 0) /\ w.queue # {}
  <2> DEFINE y == Enqueue(v, u)
  <2>1. v.waiting  BY <1>1, <1>6
  <2>2. x = ApplySkippedUpdates(y)
    BY <1>1, <1>2, <1>3, <1>6, <2>1 DEF UpdateAndApply
  <2>3. Applied(w, u) = Skipped(y)
    BY <1>1, <1>2, <1>3, <1>6, <2>1 DEF Applied
  <2> HIDE DEF v
  <2>4. y = [v EXCEPT !.queue = v.queue \cup {u}]
    BY <1>1 DEF Enqueue, Waiters
  <2> HIDE DEF y
  <2>5. y \in Waiters  BY <1>1, <2>4 DEF Waiters
  <2>6. /\ y.queue = w.queue \cup {u} /\ y.good = v.good /\ y.last = v.last
        /\ y.count = v.count
    BY <1>1, <2>4 DEF Waiters
  <2>7. y.waiting /\ ~y.requesting  BY <1>1, <2>1, <2>4 DEF Waiters
  <2>8. /\ x \in Waiters /\ x.queue = {} /\ Skipped(y) = y.queue
        /\ x.good = y.good /\ x.last = y.last /\ x.count = y.count
        /\ x.requesting <=> y.requesting
    BY <2>2, <2>5, <2>7, SkippedFields
  <2> QED  BY <1>1, <1>6, <2>3, <2>6, <2>7, <2>8
<1>7. CASE ~(Closes(w, u) \/ u.count = 0)
  <2>1. x = Enqueue(v, u)  BY <1>2, <1>4, <1>7 DEF UpdateAndApply
  <2>2. Applied(w, u) = {}  BY <1>2, <1>7 DEF Applied
  <2> HIDE DEF v
  <2>3. x = [v EXCEPT !.queue = v.queue \cup {u}]
    BY <1>1, <2>1 DEF Enqueue, Waiters
  <2>4. x \in Waiters  BY <1>1, <2>3 DEF Waiters
  <2>5. /\ x.queue = w.queue \cup {u} /\ x.good = v.good /\ x.last = v.last
        /\ x.count = v.count
    BY <1>1, <2>3 DEF Waiters
  <2>6. x.waiting /\ x.armed /\ ~x.requesting  BY <1>1, <1>7, <2>3 DEF Waiters
  <2> QED  BY <1>1, <1>7, <2>2, <2>4, <2>5, <2>6
<1> QED  BY <1>5, <1>6, <1>7

\* updateAndApply with pts and count only: what was held back is applied, or
\* the waiter waits.
LEMMA CountResult ==
    ASSUME NEW w \in Waiters, NEW u \in Updates, Looked(w, u),
           w.queue # {} => w.waiting,
           Larger(w.last, u.pts) \in Nat, w.count + u.count \in Nat,
           NEW x, x = UpdateAndApplyCount(w, u)
    PROVE  /\ x \in Waiters
           /\ x.last = Larger(w.last, u.pts) /\ x.count = w.count + u.count
           /\ x.good = IF Closes(w, u) THEN Larger(w.last, u.pts) ELSE w.good
           /\ ~x.requesting
           /\ Closes(w, u) \/ u.count = 0
                => x.queue = {} /\ AppliedByCount(w, u) = w.queue
           /\ ~(Closes(w, u) \/ u.count = 0)
                => /\ x.queue = w.queue /\ AppliedByCount(w, u) = {}
                   /\ x.waiting /\ x.armed
<1> DEFINE v == Updated(w, u)
<1>1. /\ v \in Waiters
      /\ v.last = Larger(w.last, u.pts) /\ v.count = w.count + u.count
      /\ v.good = IF Closes(w, u) THEN Larger(w.last, u.pts) ELSE w.good
      /\ v.queue = w.queue /\ ~v.requesting
      /\ Closes(w, u) => (v.waiting <=> w.waiting)
      /\ ~Closes(w, u) => v.waiting /\ v.armed
  BY UpdatedFields
<1>2. Passes(w, u) <=> Closes(w, u) \/ u.count = 0
  BY DEF Looked, Passes, CheckPasses, Inited, Waiters
<1>3. CASE Closes(w, u) \/ u.count = 0
  <2>1. x = ApplySkippedUpdates(v) /\ AppliedByCount(w, u) = Skipped(v)
    BY <1>2, <1>3 DEF UpdateAndApplyCount, AppliedByCount
  <2> HIDE DEF v
  <2>2. v.queue # {} => v.waiting  BY <1>1
  <2>3. /\ x \in Waiters /\ x.queue = {} /\ Skipped(v) = v.queue
        /\ x.good = v.good /\ x.last = v.last /\ x.count = v.count
        /\ x.requesting <=> v.requesting
    BY <1>1, <2>1, <2>2, SkippedFields
  <2> QED  BY <1>1, <1>3, <2>1, <2>3
<1>4. CASE ~(Closes(w, u) \/ u.count = 0)
  <2>1. x = v /\ AppliedByCount(w, u) = {}
    BY <1>2, <1>4 DEF UpdateAndApplyCount, AppliedByCount
  <2> HIDE DEF v
  <2> QED  BY <1>1, <1>4, <2>1
<1> QED  BY <1>3, <1>4

-----------------------------------------------------------------------------
\* Whichever of the two it was: the counters still count, and nothing up to
\* the confirmed pts is missing.
LEMMA LookPreserves ==
    ASSUME NEW log, NEW top, Tiled(log, top),
           NEW w \in Waiters, NEW applied, NEW counted,
           Complete(w, log, top, applied),
           Counting(w, log, top, applied, counted),
           NEW u, Genuine(log, top, u), Looked(w, u),
           Points(u) \cap counted = {},
           NEW x \in Waiters, NEW a, applied \subseteq a,
           x.last = Larger(w.last, u.pts), x.count = w.count + u.count,
           x.good = IF Closes(w, u) THEN Larger(w.last, u.pts) ELSE w.good,
           u \in log => u \in a \cup x.queue,
           Closes(w, u) \/ u.count = 0
             => x.queue = {} /\ (w.queue \cap log) \subseteq a,
           ~(Closes(w, u) \/ u.count = 0)
             => /\ w.queue \subseteq x.queue /\ x.queue \subseteq w.queue \cup {u}
                /\ x.waiting /\ x.armed
    PROVE  /\ Complete(x, log, top, a)
           /\ Counting(x, log, top, a, Recount(x, counted, u))
           /\ Recount(x, counted, u) \subseteq counted \cup Points(u)
           /\ w.good <= x.good
<1> DEFINE S == counted \cup Points(u)
           m == Larger(w.last, u.pts)
           c == Recount(x, counted, u)
<1>1. u \in Updates /\ u.count <= u.pts /\ Boundary(log, top, u.pts)
  BY DEF Genuine, Tiled, Boundary, Updates
<1>2. /\ w.good \in Nat /\ w.last \in Nat /\ w.count \in Nat
      /\ w.good >= 1 /\ w.good <= w.last
      /\ CountsTo(w.good, w.last, w.count, counted)
  BY DEF Counting, CountsTo
<1>3. u.pts \in Nat /\ u.count \in Nat  BY <1>1 DEF Updates
<1>4. u.count > 0 => u \in log /\ u.pts > w.good
  BY <1>2, <1>3 DEF Genuine, Looked, IsOld
<1>5. u.count > 0 => w.good <= u.pts - u.count
  BY <1>2, <1>3, <1>4 DEF Complete, Boundary
<1>6. /\ CountsTo(w.good, m, w.count + u.count, S)
      /\ m \in Nat /\ w.last <= m /\ u.pts <= m
      /\ S \subseteq (w.good + 1) .. m
      /\ w.count + u.count = w.good + Cardinality(S)
      /\ m = w.count + u.count => S = (w.good + 1) .. m
  <2>1. Fresh(u, w.good, counted)  BY <1>1, <1>5 DEF Fresh
  <2>2. /\ CountsTo(w.good, m, w.count + u.count, S)
        /\ w.last <= m /\ u.pts <= m
        /\ m = w.count + u.count => Covers(S, w.good, m)
    BY <1>2, <2>1, CountUpdate
  <2> QED  BY <2>2 DEF CountsTo, Covers
<1>7. Boundary(log, top, m)
  <2>1. m = w.last \/ m = u.pts  BY DEF Larger
  <2>2. Boundary(log, top, w.last)  BY DEF Counting
  <2> QED  BY <1>1, <2>1, <2>2
<1>8. Closes(w, u) <=> m = w.count + u.count  BY DEF Closes
<1>9. \A y \in log : y.pts \in S => y \in a \cup x.queue
  <2> SUFFICES ASSUME NEW y \in log, y.pts \in S
               PROVE  y \in a \cup x.queue
    OBVIOUS
  <2>1. CASE y.pts \in counted
    <3>1. y \in applied \cup w.queue  BY <2>1 DEF Counting
    <3> QED  BY <3>1
  <2>2. CASE y.pts \in Points(u)
    <3>1. u.count > 0 /\ u.pts - u.count < y.pts /\ y.pts <= u.pts
      BY <2>2, <1>3 DEF Points, Tiled, Updates
    <3>2. u \in log  BY <3>1, <1>4
    <3>3. y \in Updates /\ u \in Updates /\ y.count >= 1  BY <3>2 DEF Tiled
    <3>4. y = u \/ y.pts <= u.pts - u.count \/ u.pts <= y.pts - y.count
      BY <3>2 DEF Tiled
    <3>5. y = u  BY <3>1, <3>3, <3>4 DEF Updates
    <3> QED  BY <3>2, <3>5
  <2> QED  BY <2>1, <2>2
<1> HIDE DEF S, m
<1>10. CASE Closes(w, u)
  <2>1. x.good = m /\ x.last = m /\ x.queue = {} /\ S = (w.good + 1) .. m
    BY <1>6, <1>8, <1>10 DEF m
  <2>2. c = {}
    BY <2>1, <1>6 DEF Recount, S
  <2>3. Complete(x, log, top, a)
    <3> SUFFICES ASSUME NEW y \in log, y.pts <= m  PROVE y \in a
      BY <1>7, <2>1 DEF Complete
    <3>1. y.pts \in Nat  BY DEF Tiled, Updates
    <3>2. CASE y.pts <= w.good  BY <3>2 DEF Complete
    <3>3. CASE y.pts > w.good
      <4>1. y.pts \in S  BY <1>2, <1>6, <2>1, <3>1, <3>3
      <4> QED  BY <4>1, <1>9, <2>1
    <3> QED  BY <1>2, <3>1, <3>2, <3>3
  <2>4. x.count = m /\ Cardinality(c) = 0
    BY <1>8, <1>10, <2>2, FS_EmptySet
  <2>5. Counting(x, log, top, a, c)
    BY <1>2, <1>6, <1>7, <2>1, <2>2, <2>4 DEF Counting, CountsTo
  <2>6. w.good <= x.good  BY <1>2, <1>6, <2>1
  <2> QED  BY <2>2, <2>3, <2>5, <2>6
<1>11. CASE ~Closes(w, u)
  <2>1. x.good = w.good /\ x.last = m  BY <1>11 DEF m
  <2>2. c = S
    BY <2>1, <1>2, <1>6 DEF Recount, S
  <2>3. Complete(x, log, top, a)
    BY <2>1 DEF Complete
  <2>4. CountsTo(x.good, x.last, x.count, c)  BY <1>6, <2>1, <2>2
  <2>5. \A y \in x.queue : y \in log /\ y.pts > w.good
    <3>1. \A y \in w.queue : y \in log /\ y.pts > w.good  BY DEF Counting
    <3>2. u.count = 0 \/ u.count > 0  BY <1>3
    <3> QED  BY <3>1, <3>2, <1>4, <1>11
  <2>6. x.queue # {} => x.waiting /\ x.armed  BY <1>11
  <2>7. x.good >= 1  BY <1>2, <2>1
  <2>8. Counting(x, log, top, a, c)
    BY <1>7, <1>9, <2>1, <2>2, <2>4, <2>5, <2>6, <2>7 DEF Counting
  <2>9. w.good <= x.good  BY <1>2, <2>1
  <2> QED  BY <2>2, <2>3, <2>8, <2>9 DEF S
<1> QED  BY <1>10, <1>11

\* An update reaches a waiter whose counters count.
Ready(w, log, top, applied, counted, u) ==
    /\ Tiled(log, top) /\ w \in Waiters
    /\ Complete(w, log, top, applied)
    /\ Counting(w, log, top, applied, counted)
    /\ Genuine(log, top, u) /\ Looked(w, u)
    /\ Points(u) \cap counted = {}

\* What is left of it: the same, with more applied and more counted.
Preserved(w, log, top, counted, u, x, a) ==
    /\ x \in Waiters /\ ~x.requesting
    /\ Complete(x, log, top, a)
    /\ Counting(x, log, top, a, Recount(x, counted, u))
    /\ Recount(x, counted, u) \subseteq counted \cup Points(u)
    /\ w.good <= x.good

LEMMA ReadyNumbers ==
    ASSUME NEW w, NEW log, NEW top, NEW applied, NEW counted, NEW u,
           Ready(w, log, top, applied, counted, u)
    PROVE  /\ u \in Updates
           /\ Larger(w.last, u.pts) \in Nat /\ w.count + u.count \in Nat
           /\ w.queue # {} => w.waiting
<1>1. u \in Updates  BY DEF Ready, Genuine, Tiled
<1>2. w.last \in Nat /\ w.count \in Nat  BY DEF Ready, Waiters
<1>3. u.pts \in Nat /\ u.count \in Nat  BY <1>1 DEF Updates
<1>4. w.queue # {} => w.waiting  BY DEF Ready, Counting
<1> QED  BY <1>1, <1>2, <1>3, <1>4 DEF Larger

\* updateAndApply with the update keeps the waiter counting and complete.
LEMMA FeedPreserves ==
    ASSUME NEW w, NEW log, NEW top, NEW applied, NEW counted, NEW u,
           Ready(w, log, top, applied, counted, u),
           NEW x, x = UpdateAndApply(w, u),
           NEW a, a = applied \cup (Applied(w, u) \cap log)
    PROVE  Preserved(w, log, top, counted, u, x, a)
<1>1. /\ u \in Updates
      /\ Larger(w.last, u.pts) \in Nat /\ w.count + u.count \in Nat
      /\ w.queue # {} => w.waiting
  BY ReadyNumbers
<1>2. w \in Waiters /\ Looked(w, u)  BY DEF Ready
<1>3. /\ x \in Waiters
      /\ x.last = Larger(w.last, u.pts) /\ x.count = w.count + u.count
      /\ x.good = IF Closes(w, u) THEN Larger(w.last, u.pts) ELSE w.good
      /\ ~x.requesting
      /\ Closes(w, u) \/ u.count = 0
           => x.queue = {} /\ Applied(w, u) = w.queue \cup {u}
      /\ ~(Closes(w, u) \/ u.count = 0)
           => /\ x.queue = w.queue \cup {u} /\ Applied(w, u) = {}
              /\ x.waiting /\ x.armed
  BY <1>1, <1>2, FeedResult
<1>4. applied \subseteq a  OBVIOUS
<1>5. u \in log => u \in a \cup x.queue  BY <1>3
<1>6. Closes(w, u) \/ u.count = 0
        => x.queue = {} /\ (w.queue \cap log) \subseteq a
  BY <1>3
<1>7. ~(Closes(w, u) \/ u.count = 0)
        => /\ w.queue \subseteq x.queue /\ x.queue \subseteq w.queue \cup {u}
           /\ x.waiting /\ x.armed
  BY <1>3
<1>8. /\ Complete(x, log, top, a)
      /\ Counting(x, log, top, a, Recount(x, counted, u))
      /\ Recount(x, counted, u) \subseteq counted \cup Points(u)
      /\ w.good <= x.good
  BY <1>3, <1>4, <1>5, <1>6, <1>7, LookPreserves DEF Ready
<1> QED  BY <1>3, <1>8 DEF Preserved

\* So does updateAndApply with pts and count, when the caller applies u.
LEMMA CountPreserves ==
    ASSUME NEW w, NEW log, NEW top, NEW applied, NEW counted, NEW u,
           Ready(w, log, top, applied, counted, u),
           NEW x, x = UpdateAndApplyCount(w, u),
           NEW a, a = applied \cup (({u} \cup AppliedByCount(w, u)) \cap log)
    PROVE  Preserved(w, log, top, counted, u, x, a)
<1>1. /\ u \in Updates
      /\ Larger(w.last, u.pts) \in Nat /\ w.count + u.count \in Nat
      /\ w.queue # {} => w.waiting
  BY ReadyNumbers
<1>2. w \in Waiters /\ Looked(w, u)  BY DEF Ready
<1>3. /\ x \in Waiters
      /\ x.last = Larger(w.last, u.pts) /\ x.count = w.count + u.count
      /\ x.good = IF Closes(w, u) THEN Larger(w.last, u.pts) ELSE w.good
      /\ ~x.requesting
      /\ Closes(w, u) \/ u.count = 0
           => x.queue = {} /\ AppliedByCount(w, u) = w.queue
      /\ ~(Closes(w, u) \/ u.count = 0)
           => /\ x.queue = w.queue /\ AppliedByCount(w, u) = {}
              /\ x.waiting /\ x.armed
  BY <1>1, <1>2, CountResult
<1>4. applied \subseteq a  OBVIOUS
<1>5. u \in log => u \in a \cup x.queue  OBVIOUS
<1>6. Closes(w, u) \/ u.count = 0
        => x.queue = {} /\ (w.queue \cap log) \subseteq a
  BY <1>3
<1>7. ~(Closes(w, u) \/ u.count = 0)
        => /\ w.queue \subseteq x.queue /\ x.queue \subseteq w.queue \cup {u}
           /\ x.waiting /\ x.armed
  BY <1>3
<1>8. /\ Complete(x, log, top, a)
      /\ Counting(x, log, top, a, Recount(x, counted, u))
      /\ Recount(x, counted, u) \subseteq counted \cup Points(u)
      /\ w.good <= x.good
  BY <1>3, <1>4, <1>5, <1>6, <1>7, LookPreserves DEF Ready
<1> QED  BY <1>3, <1>8 DEF Preserved
-----------------------------------------------------------------------------
\* A waiter that was just given a pts counts from there.
LEMMA CountingFromPts ==
    ASSUME NEW x, NEW log, NEW top, NEW pts \in Nat, pts >= 1,
           Boundary(log, top, pts),
           x.good = pts, x.last = pts, x.count = pts, x.queue = {}, NEW a
    PROVE  Counting(x, log, top, a, {})
<1>1. Cardinality({}) = 0  BY FS_EmptySet
<1>2. CountsTo(pts, pts, pts, {})  BY <1>1 DEF CountsTo
<1> QED  BY <1>2 DEF Counting

\* What holds when a new update is published.
LEMMA PublishGrows ==
    ASSUME NEW log, NEW top, Tiled(log, top), top >= 1, NEW c \in Nat \ {0},
           NEW u, u = [pts |-> top + c, count |-> c],
           NEW log2, log2 = log \cup {u}, NEW top2, top2 = top + c
    PROVE  /\ Tiled(log2, top2)
           /\ \A p \in Nat : Boundary(log, top, p) => Boundary(log2, top2, p)
<1>1. top \in Nat /\ log \subseteq Updates  BY DEF Tiled
<1>2. /\ u \in Updates /\ u.pts = top + c /\ u.count = c
      /\ u.pts - u.count = top
  BY <1>1 DEF Updates
<1>3. log2 \subseteq Updates /\ top2 \in Nat /\ top <= top2  BY <1>1, <1>2
<1>4. \A y \in log2 : y.count >= 1 /\ y.count < y.pts /\ y.pts <= top2
  BY <1>1, <1>2, <1>3 DEF Tiled, Updates
<1>5. \A y \in log : y.pts <= u.pts - u.count  BY <1>2 DEF Tiled
<1>6. \A y, z \in log2 : \/ y = z
                         \/ y.pts <= z.pts - z.count
                         \/ z.pts <= y.pts - y.count
  BY <1>5 DEF Tiled
<1>7. ASSUME NEW p \in Nat, Boundary(log, top, p)
      PROVE  Boundary(log2, top2, p)
  BY <1>1, <1>2, <1>3, <1>7 DEF Boundary
<1> QED  BY <1>3, <1>4, <1>6, <1>7 DEF Tiled

LEMMA GenuineGrows ==
    ASSUME NEW log, NEW top, NEW log2, NEW top2, NEW u,
           log \subseteq log2, Genuine(log, top, u),
           \A p \in Nat : Boundary(log, top, p) => Boundary(log2, top2, p)
    PROVE  Genuine(log2, top2, u)
BY DEF Genuine, Updates

\* Different updates have no point in common, and neither has an update
\* without points with any other.
LEMMA DisjointPoints ==
    ASSUME NEW log, NEW top, Tiled(log, top),
           NEW u, NEW y, Genuine(log, top, u), Genuine(log, top, y),
           u # y \/ u.count = 0
    PROVE  Points(u) \cap Points(y) = {}
<1>1. /\ u \in Updates /\ y \in Updates
      /\ u.count > 0 => u \in log
      /\ y.count > 0 => y \in log
  BY DEF Tiled, Genuine
<1>2. u.pts \in Nat /\ u.count \in Nat /\ y.pts \in Nat /\ y.count \in Nat
  BY <1>1 DEF Updates
<1>3. CASE u.count = 0 \/ y.count = 0  BY <1>2, <1>3 DEF Points
<1>4. CASE u.count > 0 /\ y.count > 0
  <2>1. u.pts <= y.pts - y.count \/ y.pts <= u.pts - u.count
    BY <1>1, <1>2, <1>4 DEF Tiled
  <2> QED  BY <1>2, <2>1 DEF Points
<1> QED  BY <1>2, <1>3, <1>4
=============================================================================
