------------------------- MODULE CommonUpdatesProofs -------------------------
(***************************************************************************)
(* Proofs about the common update box, for every bound and every set of    *)
(* counts.  NoGap is not inductive: the inductive invariant IInv adds that *)
(* the counters count (Counting, in PtsWaiterProofs), that every message   *)
(* on its way brings an update of the log whose points were not counted    *)
(* yet, at most once, and that an outstanding request starts at the        *)
(* confirmed pts, which cannot move while it is awaited.                   *)
(***************************************************************************)
EXTENDS CommonUpdates, PtsWaiterProofs

NetInv ==
    /\ \A m \in net : /\ Genuine(log, top, m.update)
                      /\ Points(m.update) \cap counted = {}
    /\ \A m, n \in net : m.update = n.update /\ m.update.count > 0 => m = n

RpcInv ==
    /\ rpc.st # "none" => w.requesting /\ rpc.from = w.good /\ ~failArmed
    /\ rpc.st \notin {"none", "getState", "state"} => w.good >= 1
    /\ rpc.st \in {"state", "difference", "slice"} =>
          /\ rpc.pts >= 1 /\ w.good <= rpc.pts
          /\ Boundary(log, top, rpc.pts)
    /\ failArmed => w.requesting /\ w.good >= 1

BoxInv ==
    /\ Complete(w, log, top, applied)
    /\ ~w.requesting => Counting(w, log, top, applied, counted)
    /\ w.requesting => w.queue = {}

IInv ==
    /\ TypeOK
    /\ Tiled(log, top)
    /\ BoxInv
    /\ \A p \in counted : p <= top
    /\ NetInv
    /\ RpcInv
-----------------------------------------------------------------------------
\* The waiter's type, with the bounds apart.
LEMMA WaiterBounds ==
    ASSUME NEW x
    PROVE  x \in Waiter <=> /\ x \in Waiters
                            /\ x.good \in 0 .. MaxPts /\ x.last \in 0 .. MaxPts
                            /\ x.queue \subseteq Update
<1> USE ConstantsAssumption DEF ConstantsAssumption
<1>1. Update \subseteq Updates  BY DEF Update, Updates
<1>2. x \in Waiter => /\ x \in Waiters
                      /\ x.good \in 0 .. MaxPts /\ x.last \in 0 .. MaxPts
                      /\ x.queue \subseteq Update
  BY <1>1 DEF Waiter, Waiters
<1>3. ASSUME x \in Waiters, x.good \in 0 .. MaxPts, x.last \in 0 .. MaxPts,
             x.queue \subseteq Update
      PROVE  x \in Waiter
  BY <1>3 DEF Waiter, Waiters
<1> QED  BY <1>2, <1>3

\* The waiter when its deadline is cleared, when a difference is requested,
\* and when an answer has been applied.
LEMMA DisarmFields ==
    ASSUME NEW v \in Waiter, NEW x, x = [v EXCEPT !.armed = FALSE]
    PROVE  /\ x \in Waiter /\ x.good = v.good /\ x.queue = v.queue
           /\ x.requesting <=> v.requesting
<1>1. x \in Waiter  BY DEF Waiter
<1>2. x.good = v.good /\ x.queue = v.queue  BY DEF Waiter
<1>3. x.requesting <=> v.requesting  BY DEF Waiter
<1> QED  BY <1>1, <1>2, <1>3

LEMMA AskFields ==
    ASSUME NEW v \in Waiter,
           NEW x, x = SetRequesting([v EXCEPT !.armed = FALSE], TRUE)
    PROVE  x \in Waiter /\ x.good = v.good /\ x.queue = {} /\ x.requesting
<1>1. x = [v EXCEPT !.armed = FALSE, !.requesting = TRUE, !.queue = {}]
  BY DEF SetRequesting, Waiter
<1>2. x \in Waiter  BY <1>1 DEF Waiter
<1>3. x.good = v.good /\ x.queue = {}  BY <1>1 DEF Waiter
<1>4. x.requesting  BY <1>1 DEF Waiter
<1> QED  BY <1>2, <1>3, <1>4

LEMMA SetStateFields ==
    ASSUME w \in Waiter, NEW pts \in Nat, pts <= MaxPts,
           NEW x, x = SetState(pts)
    PROVE  /\ x \in Waiter /\ x.good = pts /\ x.last = pts /\ x.count = pts
           /\ x.queue = {} /\ ~x.requesting
<1> USE ConstantsAssumption DEF ConstantsAssumption
<1>1. x = [w EXCEPT !.good = pts, !.last = pts, !.count = pts, !.queue = {},
                    !.requesting = FALSE]
  BY DEF SetState, SetRequesting, InitAt, Waiter
<1>2. x \in Waiter
  <2>1. pts \in 0 .. MaxPts  OBVIOUS
  <2>2. w.queue \subseteq Update /\ {} \subseteq Update  BY DEF Waiter
  <2> QED  BY <1>1, <2>1, <2>2 DEF Waiter
<1>3. x.good = pts /\ x.last = pts /\ x.count = pts /\ x.queue = {}
  BY <1>1 DEF Waiter
<1>4. ~x.requesting  BY <1>1 DEF Waiter
<1> QED  BY <1>2, <1>3, <1>4

-----------------------------------------------------------------------------
\* The first state: getState is requested, nothing is known.
LEMMA InitEstablishes == Init => IInv
<1> SUFFICES ASSUME Init  PROVE IInv  OBVIOUS
<1> USE ConstantsAssumption DEF ConstantsAssumption
<1>1. w = [good |-> 0, last |-> 0, count |-> 0, requesting |-> TRUE,
           waiting |-> FALSE, poll |-> FALSE, armed |-> FALSE, queue |-> {}]
  BY DEF Init, NewWaiter, SetRequesting
<1>2. w \in Waiter  BY <1>1 DEF Waiter
<1>3. w.good = 0 /\ w.queue = {} /\ w.requesting  BY <1>1
<1>4. rpc \in Rpc /\ rpc.st = "getState" /\ rpc.from = 0  BY DEF Init, Rpc
<1>5. log = {} /\ top = 1 /\ net = {} /\ applied = {} /\ counted = {}
  BY DEF Init
<1>6. TypeOK
  <2>1. top \in 1 .. MaxPts /\ zeros \in 0 .. MaxZeros /\ fails \in 0 .. MaxFails
    BY DEF Init
  <2>2. failArmed \in BOOLEAN  BY DEF Init
  <2> QED  BY <1>2, <1>4, <1>5, <2>1, <2>2 DEF TypeOK
<1>7. Tiled(log, top)  BY <1>5 DEF Tiled
<1>8. BoxInv  BY <1>3, <1>5 DEF BoxInv, Complete, Boundary
<1>9. NetInv  BY <1>5 DEF NetInv
<1>10. RpcInv  BY <1>3, <1>4 DEF Init, RpcInv
<1> QED  BY <1>5, <1>6, <1>7, <1>8, <1>9, <1>10 DEF IInv

\* A new update lies beyond everything counted, queued or on its way.
LEMMA PublishPreserves ==
    ASSUME IInv, NEW c \in Counts, NEW via \in Carriers, Publish(c, via)
    PROVE  IInv'
<1> USE ConstantsAssumption DEF ConstantsAssumption
<1> DEFINE u == [pts |-> top + c, count |-> c]
           m == [via |-> via, update |-> u]
<1>1. /\ TypeOK /\ Tiled(log, top) /\ BoxInv /\ NetInv /\ RpcInv
      /\ top \in 1 .. MaxPts /\ c \in Nat \ {0} /\ top + c <= MaxPts
      /\ \A p \in counted : p <= top
  BY DEF IInv, TypeOK, Publish
<1>2. /\ log' = log \cup {u} /\ top' = top + c /\ net' = net \cup {m}
      /\ w' = w /\ failArmed' = failArmed /\ applied' = applied
      /\ counted' = counted /\ rpc' = rpc /\ fails' = fails /\ zeros' = zeros
  BY DEF Publish, clientVars
<1>3. /\ Tiled(log', top')
      /\ \A p \in Nat : Boundary(log, top, p) => Boundary(log', top', p)
  <2>1. u = [pts |-> top + c, count |-> c] /\ top >= 1  BY <1>1
  <2> HIDE DEF u
  <2> QED  BY <1>1, <1>2, <2>1, PublishGrows
<1>4. u \in Update /\ u.pts = top + c /\ u.count = c  BY <1>1 DEF Update
<1>5. m \in [via : Carriers, update : Update] /\ m.update = u  BY <1>4
<1>6. w.good \in Nat /\ w.last \in Nat /\ rpc.pts \in Nat
  BY <1>1 DEF TypeOK, Waiter, Rpc
<1> HIDE DEF u, m
<1>7. TypeOK'
  BY <1>1, <1>2, <1>4, <1>5 DEF TypeOK
<1>8. Complete(w', log', top', applied')
  <2>1. Boundary(log, top, w.good)  BY <1>1 DEF BoxInv, Complete
  <2>2. w.good <= top  BY <2>1 DEF Boundary
  <2>3. ~(u.pts <= w.good)  BY <1>1, <1>4, <1>6, <2>2
  <2> QED  BY <1>1, <1>2, <1>3, <1>6, <2>1, <2>3 DEF BoxInv, Complete
<1>9. ~w'.requesting => Counting(w', log', top', applied', counted')
  <2> SUFFICES ASSUME ~w.requesting
               PROVE  Counting(w, log', top', applied, counted)
    BY <1>2
  <2>1. Counting(w, log, top, applied, counted)  BY <1>1 DEF BoxInv
  <2>2. Boundary(log', top', w.last)  BY <1>3, <1>6, <2>1 DEF Counting
  <2>3. u.pts \notin counted  BY <1>1, <1>4
  <2> QED  BY <1>2, <2>1, <2>2, <2>3 DEF Counting
<1>10. BoxInv'  BY <1>1, <1>2, <1>8, <1>9 DEF BoxInv
<1>11. \A p \in counted' : p <= top'
  <2>1. counted \subseteq 1 .. MaxPts  BY <1>1 DEF TypeOK
  <2> QED  BY <1>1, <1>2, <2>1
<1>12. NetInv'
  <2>1. ASSUME NEW n \in net  PROVE Genuine(log', top', n.update)
    BY <1>1, <1>2, <1>3, <2>1, GenuineGrows DEF NetInv
  <2>2. Genuine(log', top', u)  BY <1>2 DEF Genuine
  <2>3. Points(u) \cap counted = {}
    <3>1. counted \subseteq 1 .. MaxPts  BY <1>1 DEF TypeOK
    <3> QED  BY <1>1, <1>4, <3>1 DEF Points
  <2>4. ASSUME NEW n \in net, n.update = u  PROVE u.count = 0
    <3>1. u \in log \/ u.count = 0  BY <1>1, <2>4 DEF NetInv, Genuine
    <3>2. u \notin log  BY <1>1, <1>4 DEF Tiled
    <3> QED  BY <3>1, <3>2
  <2>5. u.count # 0 /\ u.count > 0  BY <1>1, <1>4
  <2>6. ASSUME NEW n \in net'
        PROVE  Genuine(log', top', n.update) /\ Points(n.update) \cap counted' = {}
    BY <1>1, <1>2, <1>5, <2>1, <2>2, <2>3 DEF NetInv
  <2>7. ASSUME NEW k \in net', NEW n \in net', k.update = n.update, k.update.count > 0
        PROVE  k = n
    BY <1>1, <1>2, <1>5, <2>4, <2>5, <2>7 DEF NetInv
  <2> QED  BY <2>6, <2>7 DEF NetInv
<1>13. RpcInv'
  BY <1>1, <1>2, <1>3, <1>6 DEF RpcInv
<1> QED  BY <1>3, <1>7, <1>10, <1>11, <1>12, <1>13 DEF IInv

\* An update with no points can be counted any number of times.
LEMMA PublishZeroPreserves ==
    ASSUME IInv, NEW via \in {"push", "affected"}, PublishZero(via)
    PROVE  IInv'
<1> USE ConstantsAssumption DEF ConstantsAssumption
<1> DEFINE u == [pts |-> top, count |-> 0]
           m == [via |-> via, update |-> u]
<1>1. /\ TypeOK /\ Tiled(log, top) /\ BoxInv /\ NetInv /\ RpcInv
      /\ top \in 1 .. MaxPts /\ \A p \in counted : p <= top
  BY DEF IInv, TypeOK
<1>2. /\ log' = log /\ top' = top /\ net' = net \cup {m}
      /\ w' = w /\ failArmed' = failArmed /\ applied' = applied
      /\ counted' = counted /\ rpc' = rpc /\ fails' = fails
      /\ zeros < MaxZeros /\ zeros' = zeros + 1
  BY DEF PublishZero, clientVars
<1>3. u \in Update /\ u.pts = top /\ u.count = 0  BY <1>1 DEF Update
<1>4. m \in [via : Carriers, update : Update] /\ m.update = u
  BY <1>3 DEF Carriers
<1> HIDE DEF u, m
<1>5. TypeOK'  BY <1>1, <1>2, <1>4 DEF TypeOK
<1>6. BoxInv'  BY <1>1, <1>2 DEF BoxInv
<1>7. NetInv'
  <2>1. Boundary(log, top, u.pts)
    BY <1>1, <1>3 DEF Boundary, Tiled
  <2>2. Genuine(log, top, u)
    BY <1>1, <1>3, <2>1 DEF Genuine, Update, Updates
  <2>3. Points(u) = {}  BY <1>1, <1>3 DEF Points
  <2> QED  BY <1>1, <1>2, <1>3, <1>4, <2>2, <2>3 DEF NetInv
<1>8. RpcInv'  BY <1>1, <1>2 DEF RpcInv
<1> QED  BY <1>1, <1>2, <1>5, <1>6, <1>7, <1>8 DEF IInv
-----------------------------------------------------------------------------
\* The parts of the invariant put together, for a step of the client or of
\* the connection: no update is published, and none of what is on its way
\* is counted.
LEMMA StepPreserves ==
    ASSUME IInv, log' = log, top' = top, zeros' = zeros,
           net' \subseteq net, counted' \subseteq counted,
           applied' \subseteq log, fails' \in 0 .. MaxFails,
           w' \in Waiter, rpc' \in Rpc, failArmed' \in BOOLEAN, BoxInv', RpcInv'
    PROVE  IInv'
<1>1. TypeOK /\ Tiled(log, top) /\ NetInv /\ \A p \in counted : p <= top
  BY DEF IInv
<1>2. TypeOK'  BY <1>1 DEF TypeOK
<1>3. NetInv'
  <2>1. ASSUME NEW n \in net'
        PROVE  Genuine(log', top', n.update) /\ Points(n.update) \cap counted' = {}
    BY <1>1 DEF NetInv
  <2>2. ASSUME NEW k \in net', NEW n \in net', k.update = n.update, k.update.count > 0
        PROVE  k = n
    BY <1>1, <2>2 DEF NetInv
  <2> QED  BY <2>1, <2>2 DEF NetInv
<1> QED  BY <1>1, <1>2, <1>3 DEF IInv

\* The box while an answer is awaited, with the same confirmed pts.
LEMMA BoxRequesting ==
    ASSUME IInv, log' = log, top' = top, applied \subseteq applied',
           w'.good = w.good, w'.requesting, w'.queue = {}
    PROVE  BoxInv'
BY DEF IInv, BoxInv, Complete

\* The same box.
LEMMA BoxSame ==
    ASSUME IInv, log' = log, top' = top, applied \subseteq applied',
           counted' = counted, w' = w
    PROVE  BoxInv'
<1>1. Complete(w', log', top', applied')  BY DEF IInv, BoxInv, Complete
<1>2. ~w'.requesting => Counting(w', log', top', applied', counted')
  <2> SUFFICES ASSUME ~w.requesting
               PROVE  Counting(w, log, top, applied', counted)
    OBVIOUS
  <2>1. Counting(w, log, top, applied, counted)  BY DEF IInv, BoxInv
  <2> QED  BY <2>1 DEF Counting
<1>3. w'.requesting => w'.queue = {}  BY DEF IInv, BoxInv
<1> QED  BY <1>1, <1>2, <1>3 DEF BoxInv

\* What the typing of the state says of the numbers and of the waiter.
LEMMA Numbers ==
    ASSUME TypeOK
    PROVE  /\ w \in Waiter /\ w.good \in Nat /\ w.good \in 0 .. MaxPts
           /\ rpc \in Rpc /\ rpc.pts \in 0 .. MaxPts /\ rpc.from \in 0 .. MaxPts
           /\ top \in Nat /\ top <= MaxPts /\ top \in 0 .. MaxPts
           /\ fails \in 0 .. MaxFails /\ failArmed \in BOOLEAN
           /\ applied \subseteq log /\ log \subseteq Update
           /\ counted \subseteq Nat
<1> USE ConstantsAssumption DEF ConstantsAssumption
<1>1. w \in Waiter /\ w.good \in 0 .. MaxPts  BY DEF TypeOK, Waiter
<1>2. rpc \in Rpc /\ rpc.pts \in 0 .. MaxPts /\ rpc.from \in 0 .. MaxPts
  BY DEF TypeOK, Rpc
<1>3. counted \subseteq Nat  BY DEF TypeOK
<1> QED  BY <1>1, <1>2, <1>3 DEF TypeOK

LEMMA LosePushPreserves ==
    ASSUME IInv, NEW m \in net, LosePush(m)  PROVE IInv' /\ w'.good >= w.good
<1>1. TypeOK /\ RpcInv  BY DEF IInv
<1>2. /\ log' = log /\ top' = top /\ zeros' = zeros /\ net' \subseteq net
      /\ w' = w /\ failArmed' = failArmed /\ applied' = applied
      /\ counted' = counted /\ rpc' = rpc /\ fails' = fails
  BY DEF LosePush, serverVars, clientVars
<1>3. RpcInv'  BY <1>1, <1>2 DEF RpcInv
<1>4. BoxInv'  BY <1>2, BoxSame
<1> QED  BY <1>1, <1>2, <1>3, <1>4, Numbers, StepPreserves

-----------------------------------------------------------------------------
\* What the server may answer.
LEMMA AnswerIs ==
    ASSUME ServerAnswers
    PROVE
      \E st, pts :
        /\ rpc' = [rpc EXCEPT !.st = st, !.pts = pts]
        /\ \/ rpc.st = "getState" /\ st = "state" /\ pts = top
           \/ /\ rpc.st = "getDifference"
              /\ \/ st \in {"empty", "difference", "tooLong"} /\ pts = top
                 \/ st = "error" /\ pts = 0
                 \/ st = "slice" /\ \E u \in log : rpc.from < u.pts /\ pts = u.pts
BY DEF ServerAnswers, ServerAnswersState, ServerAnswersDifference,
       ServerAnswersError, Answer

\* The server's answers: what it says it has is on a boundary of the log.
LEMMA AnswerPreserves ==
    ASSUME IInv, ServerAnswers  PROVE IInv' /\ w'.good >= w.good
<1> USE ConstantsAssumption DEF ConstantsAssumption
<1>1. TypeOK /\ RpcInv /\ Tiled(log, top)  BY DEF IInv
<1>2. /\ log' = log /\ top' = top /\ zeros' = zeros /\ net' = net
      /\ w' = w /\ failArmed' = failArmed /\ applied' = applied
      /\ counted' = counted /\ fails' \in 0 .. MaxFails
  <2>1. fails \in 0 .. MaxFails  BY <1>1, Numbers
  <2> QED
    BY <2>1 DEF ServerAnswers, ServerAnswersState, ServerAnswersDifference,
                ServerAnswersError, serverVars, clientVars
<1>3. PICK st, pts :
        /\ rpc' = [rpc EXCEPT !.st = st, !.pts = pts]
        /\ \/ rpc.st = "getState" /\ st = "state" /\ pts = top
           \/ /\ rpc.st = "getDifference"
              /\ \/ st \in {"empty", "difference", "tooLong"} /\ pts = top
                 \/ st = "error" /\ pts = 0
                 \/ st = "slice" /\ \E u \in log : rpc.from < u.pts /\ pts = u.pts
  BY AnswerIs
<1>4. top \in 1 .. MaxPts /\ log \subseteq Update  BY <1>1 DEF TypeOK
<1>5. /\ pts \in 0 .. MaxPts
      /\ st \in {"state", "empty", "difference", "tooLong", "error", "slice"}
  BY <1>3, <1>4 DEF Update
<1>6. /\ rpc' \in Rpc /\ rpc'.st = st /\ rpc'.pts = pts /\ rpc'.from = rpc.from
  <2>1. rpc \in Rpc  BY <1>1 DEF TypeOK
  <2> QED  BY <1>3, <1>5, <2>1 DEF Rpc
<1>7. /\ w.requesting /\ rpc.from = w.good /\ ~failArmed
      /\ rpc.st = "getDifference" => w.good >= 1
  BY <1>1, <1>3 DEF RpcInv
<1>8. Boundary(log, top, top) /\ Boundary(log, top, w.good) /\ w.good <= top
  BY <1>1, <1>4 DEF Tiled, Boundary, IInv, BoxInv, Complete
<1>9. st \in {"state", "difference", "slice"} =>
         pts >= 1 /\ w.good <= pts /\ Boundary(log, top, pts)
  <2>1. CASE st \in {"state", "difference"}
    BY <1>3, <1>4, <1>8, <2>1
  <2>2. CASE st = "slice"
    <3>1. PICK u \in log : rpc.from < u.pts /\ pts = u.pts  BY <1>3, <2>2
    <3>2. u.pts \in Nat /\ u.pts >= 1 /\ w.good \in Nat
      BY <1>1, <1>4, Numbers DEF Update
    <3>3. Boundary(log, top, u.pts)
      BY <1>1, <1>4 DEF Boundary, Tiled, Updates
    <3> QED  BY <1>7, <3>1, <3>2, <3>3
  <2> QED  BY <2>1, <2>2
<1>10. RpcInv'
  BY <1>1, <1>2, <1>3, <1>6, <1>7, <1>9 DEF RpcInv
<1>11. BoxInv'  BY <1>2, BoxSame
<1> QED  BY <1>1, <1>2, <1>6, <1>10, <1>11, Numbers, StepPreserves

-----------------------------------------------------------------------------
\* What getDifference() leaves.
LEMMA GetDifferenceResult ==
    ASSUME NEW v \in Waiter, NEW r, v.requesting => v.queue = {},
           GetDifference(v, r)
    PROVE  /\ w' \in Waiter /\ w'.good = v.good /\ w'.requesting /\ w'.queue = {}
           /\ v.requesting => rpc' = r /\ failArmed' = failArmed
           /\ ~v.requesting =>
                /\ rpc' = [st |-> "getDifference", from |-> v.good, pts |-> 0]
                /\ failArmed' = FALSE
<1>1. CASE v.requesting
  <2>1. w' = [v EXCEPT !.armed = FALSE] /\ rpc' = r /\ failArmed' = failArmed
    BY <1>1 DEF GetDifference
  <2> QED  BY <1>1, <2>1, DisarmFields
<1>2. CASE ~v.requesting
  <2>1. /\ w' = SetRequesting([v EXCEPT !.armed = FALSE], TRUE)
        /\ rpc' = [st |-> "getDifference", from |-> v.good, pts |-> 0]
        /\ failArmed' = FALSE
    BY <1>2 DEF GetDifference
  <2> QED  BY <1>2, <2>1, AskFields
<1> QED  BY <1>1, <1>2

\* A request that starts at the confirmed pts.
LEMMA AskedRpc ==
    ASSUME w'.requesting, w'.good \in 1 .. MaxPts,
           rpc' = [st |-> "getDifference", from |-> w'.good, pts |-> 0],
           failArmed' = FALSE
    PROVE  rpc' \in Rpc /\ RpcInv'
<1> USE ConstantsAssumption DEF ConstantsAssumption
<1>1. rpc' \in Rpc  BY DEF Rpc
<1>2. rpc'.st = "getDifference" /\ rpc'.from = w'.good  OBVIOUS
<1>3. RpcInv'  BY <1>2 DEF RpcInv
<1> QED  BY <1>1, <1>3

\* getDifference() called with the waiter as it is.
LEMMA AskPreserves ==
    ASSUME IInv, GetDifference(w, rpc), net' \subseteq net,
           UNCHANGED <<serverVars, fails, applied, counted>>
    PROVE  IInv' /\ w'.good >= w.good
<1>1. TypeOK /\ RpcInv /\ BoxInv  BY DEF IInv
<1>2. /\ log' = log /\ top' = top /\ zeros' = zeros /\ fails' = fails
      /\ applied' = applied /\ counted' = counted
  BY DEF serverVars
<1>3. w \in Waiter /\ w.good \in Nat /\ w.good \in 0 .. MaxPts  BY <1>1, Numbers
<1>4. w.requesting => w.queue = {}  BY <1>1 DEF BoxInv
<1>5. /\ w' \in Waiter /\ w'.good = w.good /\ w'.requesting /\ w'.queue = {}
      /\ w.requesting => rpc' = rpc /\ failArmed' = failArmed
      /\ ~w.requesting =>
           /\ rpc' = [st |-> "getDifference", from |-> w.good, pts |-> 0]
           /\ failArmed' = FALSE
  BY <1>3, <1>4, GetDifferenceResult
<1>6. BoxInv'  BY <1>2, <1>5, BoxRequesting
<1>7. rpc' \in Rpc /\ failArmed' \in BOOLEAN /\ RpcInv'
  <2>1. CASE w.requesting
    <3>1. RpcInv'  BY <1>1, <1>2, <1>5, <2>1 DEF RpcInv
    <3> QED  BY <1>1, <1>5, <2>1, <3>1, Numbers
  <2>2. CASE ~w.requesting
    <3>1. w.good >= 1  BY <1>1, <2>2 DEF BoxInv, Counting
    <3>2. w'.good \in 1 .. MaxPts  BY <1>3, <1>5, <3>1
    <3> QED  BY <1>5, <2>2, <3>2, AskedRpc
  <2> QED  BY <2>1, <2>2
<1> QED  BY <1>1, <1>2, <1>3, <1>5, <1>6, <1>7, Numbers, StepPreserves

\* A failed request is ended and made again.
LEMMA AfterFailPreserves ==
    ASSUME IInv, GetDifferenceAfterFail  PROVE IInv' /\ w'.good >= w.good
<1> DEFINE v == SetRequesting(w, FALSE)
<1>1. TypeOK /\ RpcInv /\ BoxInv  BY DEF IInv
<1>2. /\ log' = log /\ top' = top /\ zeros' = zeros /\ fails' = fails
      /\ applied' = applied /\ counted' = counted /\ net' = net /\ failArmed
      /\ GetDifference(v, rpc)
  BY DEF GetDifferenceAfterFail, serverVars
<1>3. w \in Waiter /\ w.good \in Nat /\ w.good \in 0 .. MaxPts  BY <1>1, Numbers
<1>4. v = [w EXCEPT !.requesting = FALSE]  BY <1>3 DEF SetRequesting, Waiter
<1>5. v \in Waiter /\ v.good = w.good  BY <1>3, <1>4 DEF Waiter
<1>6. ~v.requesting  BY <1>3, <1>4 DEF Waiter
<1> HIDE DEF v
<1>7. /\ w' \in Waiter /\ w'.good = w.good /\ w'.requesting /\ w'.queue = {}
      /\ rpc' = [st |-> "getDifference", from |-> w'.good, pts |-> 0]
      /\ failArmed' = FALSE
  BY <1>2, <1>5, <1>6, GetDifferenceResult
<1>8. w.good >= 1  BY <1>1, <1>2 DEF RpcInv
<1>9. w'.good \in 1 .. MaxPts  BY <1>3, <1>7, <1>8
<1>10. rpc' \in Rpc /\ RpcInv'  BY <1>7, <1>9, AskedRpc
<1>11. BoxInv'  BY <1>2, <1>7, BoxRequesting
<1>12. /\ net' \subseteq net /\ counted' \subseteq counted /\ applied' \subseteq log
       /\ fails' \in 0 .. MaxFails /\ failArmed' \in BOOLEAN
  BY <1>1, <1>2, <1>7, Numbers
<1>13. w'.good >= w.good  BY <1>3, <1>7
<1> QED  BY <1>2, <1>7, <1>10, <1>11, <1>12, <1>13, StepPreserves

-----------------------------------------------------------------------------
\* An error is followed by a retry; differenceTooLong by nothing.
LEMMA EndPreserves ==
    ASSUME IInv, FailDifference \/ GotDifferenceTooLong
    PROVE  IInv' /\ w'.good >= w.good
<1>1. TypeOK /\ RpcInv /\ rpc \in Rpc  BY DEF IInv, TypeOK
<1>2. /\ log' = log /\ top' = top /\ zeros' = zeros /\ net' = net
      /\ w' = w /\ applied' = applied /\ counted' = counted /\ fails' = fails
      /\ \/ rpc' = NoRpc /\ failArmed' = TRUE
         \/ rpc' = [rpc EXCEPT !.st = "logged"] /\ failArmed' = failArmed
      /\ rpc.st \in {"error", "tooLong"}
  BY DEF FailDifference, GotDifferenceTooLong, serverVars, clientVars
<1>3. /\ rpc' \in Rpc
      /\ \/ rpc'.st = "none"
         \/ rpc'.st = "logged" /\ rpc'.from = rpc.from /\ failArmed' = failArmed
  <2>1. CASE rpc' = NoRpc
    BY <2>1, ConstantsAssumption DEF NoRpc, Rpc, ConstantsAssumption
  <2>2. CASE rpc' = [rpc EXCEPT !.st = "logged"] /\ failArmed' = failArmed
    BY <1>1, <2>2 DEF Rpc
  <2> QED  BY <1>2, <2>1, <2>2
<1>4. w.requesting /\ w.good >= 1 /\ rpc.from = w.good /\ ~failArmed
  BY <1>1, <1>2 DEF RpcInv
<1>5. RpcInv'  BY <1>2, <1>3, <1>4 DEF RpcInv
<1>6. BoxInv'  BY <1>2, BoxSame
<1>7. failArmed' \in BOOLEAN  BY <1>1, <1>2, Numbers
<1>8. w'.good >= w.good  BY <1>1, <1>2, Numbers
<1>9. /\ net' \subseteq net /\ counted' \subseteq counted /\ applied' \subseteq log
      /\ fails' \in 0 .. MaxFails /\ w' \in Waiter
  BY <1>1, <1>2, Numbers
<1> QED  BY <1>2, <1>3, <1>5, <1>6, <1>7, <1>8, <1>9, StepPreserves

\* An answer that brings the box from the confirmed pts to pts leaves
\* nothing up to pts behind.
LEMMA CatchUp ==
    ASSUME IInv, NEW pts \in Nat, Boundary(log, top, pts),
           NEW a, NEW from, from = w.good \/ from = 0,
           a = applied \cup Between(from, pts),
           NEW x, x.good = pts
    PROVE  Complete(x, log, top, a) /\ a \subseteq log
<1>1. TypeOK /\ BoxInv  BY DEF IInv
<1>2. w.good \in Nat /\ applied \subseteq log  BY <1>1, Numbers
<1>3. a \subseteq log  BY <1>2 DEF Between
<1>4. ASSUME NEW u \in log, u.pts <= pts  PROVE u \in a
  <2>1. u.pts \in Nat /\ u.pts >= 1  BY <1>1, Numbers DEF Update
  <2>2. CASE u.pts <= w.good
    BY <1>1, <2>2 DEF BoxInv, Complete
  <2>3. CASE ~(u.pts <= w.good)
    BY <1>2, <1>4, <2>1, <2>3 DEF Between
  <2> QED  BY <2>2, <2>3
<1> QED  BY <1>3, <1>4 DEF Complete

\* The last answer of a series: the request ends, the counters start anew.
LEMMA CaughtUpPreserves ==
    ASSUME IInv, NEW pts \in 0 .. MaxPts, pts >= 1, w.good <= pts,
           Boundary(log, top, pts), rpc.st # "none",
           w' = SetState(pts), rpc' = NoRpc, counted' = {},
           NEW from, from = w.good \/ from = 0,
           applied' = applied \cup Between(from, pts),
           UNCHANGED <<serverVars, net, failArmed, fails>>
    PROVE  IInv' /\ w'.good >= w.good
<1> USE ConstantsAssumption DEF ConstantsAssumption
<1>1. TypeOK /\ RpcInv  BY DEF IInv
<1>2. /\ log' = log /\ top' = top /\ zeros' = zeros /\ net' = net
      /\ failArmed' = failArmed /\ fails' = fails
  BY DEF serverVars
<1>3. w \in Waiter /\ w.good \in Nat /\ pts \in Nat  BY <1>1, Numbers
<1>4. /\ w' \in Waiter /\ w'.good = pts /\ w'.last = pts /\ w'.count = pts
      /\ w'.queue = {} /\ ~w'.requesting
  BY <1>3, SetStateFields
<1>5. Complete(w', log, top, applied') /\ applied' \subseteq log
  BY <1>3, <1>4, CatchUp
<1>6. Counting(w', log, top, applied', {})
  BY <1>3, <1>4, CountingFromPts
<1>7. BoxInv'  BY <1>2, <1>4, <1>5, <1>6 DEF BoxInv
<1>8. rpc' \in Rpc /\ rpc'.st = "none"  BY DEF NoRpc, Rpc
<1>9. ~failArmed  BY <1>1 DEF RpcInv
<1>10. RpcInv'  BY <1>2, <1>8, <1>9 DEF RpcInv
<1>11. w'.good >= w.good  BY <1>3, <1>4
<1>12. /\ net' \subseteq net /\ counted' \subseteq counted
       /\ fails' \in 0 .. MaxFails /\ failArmed' \in BOOLEAN
  BY <1>1, <1>2, Numbers
<1> QED
  BY <1>2, <1>4, <1>5, <1>7, <1>8, <1>10, <1>11, <1>12, StepPreserves

LEMMA GotStatePreserves ==
    ASSUME IInv, GotState  PROVE IInv' /\ w'.good >= w.good
<1>1. TypeOK /\ RpcInv  BY DEF IInv
<1>2. rpc.st = "state"  BY DEF GotState
<1>3. rpc.pts >= 1 /\ w.good <= rpc.pts /\ Boundary(log, top, rpc.pts)
  BY <1>1, <1>2 DEF RpcInv
<1>4. rpc.pts \in 0 .. MaxPts  BY <1>1, Numbers
<1>5. /\ w' = SetState(rpc.pts) /\ rpc' = NoRpc /\ counted' = {}
      /\ applied' = applied \cup Between(0, rpc.pts)
      /\ UNCHANGED <<serverVars, net, failArmed, fails>>
  BY DEF GotState
<1> QED  BY <1>2, <1>3, <1>4, <1>5, CaughtUpPreserves

LEMMA GotFinalPreserves ==
    ASSUME IInv, GotDifferenceFinal  PROVE IInv' /\ w'.good >= w.good
<1>1. TypeOK /\ RpcInv  BY DEF IInv
<1>2. rpc.st = "difference"  BY DEF GotDifferenceFinal
<1>3. /\ rpc.pts >= 1 /\ w.good <= rpc.pts /\ Boundary(log, top, rpc.pts)
      /\ rpc.from = w.good
  BY <1>1, <1>2 DEF RpcInv
<1>4. rpc.pts \in 0 .. MaxPts  BY <1>1, Numbers
<1>5. /\ w' = SetState(rpc.pts) /\ rpc' = NoRpc /\ counted' = {}
      /\ applied' = applied \cup Between(rpc.from, rpc.pts)
      /\ UNCHANGED <<serverVars, net, failArmed, fails>>
  BY DEF GotDifferenceFinal
<1> QED  BY <1>2, <1>3, <1>4, <1>5, CaughtUpPreserves

LEMMA GotEmptyPreserves ==
    ASSUME IInv, GotDifferenceEmpty  PROVE IInv' /\ w'.good >= w.good
<1>1. TypeOK /\ RpcInv /\ BoxInv  BY DEF IInv
<1>2. rpc.st = "empty"  BY DEF GotDifferenceEmpty
<1>3. w.good >= 1 /\ Boundary(log, top, w.good)
  BY <1>1, <1>2 DEF RpcInv, BoxInv, Complete
<1>4. w.good \in 0 .. MaxPts /\ w.good \in Nat  BY <1>1, Numbers
<1>5. /\ w' = SetState(w.good) /\ rpc' = NoRpc /\ counted' = {}
      /\ UNCHANGED <<serverVars, net, failArmed, fails>>
      /\ applied' = applied
  BY DEF GotDifferenceEmpty
<1>6. Between(w.good, w.good) = {}
  <2>1. log \subseteq Update  BY <1>1, Numbers
  <2> QED  BY <1>4, <2>1 DEF Between, Update
<1>7. applied' = applied \cup Between(w.good, w.good)  BY <1>5, <1>6
<1>8. w.good <= w.good  BY <1>4
<1> QED  BY <1>2, <1>3, <1>4, <1>5, <1>7, <1>8, CaughtUpPreserves

\* A part of the difference: the next one is requested from where it ends.
LEMMA GotSlicePreserves ==
    ASSUME IInv, GotDifferenceSlice  PROVE IInv' /\ w'.good >= w.good
<1> DEFINE v == SetState(rpc.pts)
<1>1. TypeOK /\ RpcInv  BY DEF IInv
<1>2. /\ rpc.st = "slice" /\ GetDifference(v, NoRpc) /\ counted' = {}
      /\ applied' = applied \cup Between(rpc.from, rpc.pts)
      /\ log' = log /\ top' = top /\ zeros' = zeros /\ net' = net
      /\ fails' = fails
  BY DEF GotDifferenceSlice, serverVars
<1>3. /\ rpc.pts >= 1 /\ w.good <= rpc.pts /\ Boundary(log, top, rpc.pts)
      /\ rpc.from = w.good
  BY <1>1, <1>2 DEF RpcInv
<1>4. /\ w \in Waiter /\ w.good \in Nat /\ rpc.pts \in 0 .. MaxPts
      /\ rpc.pts \in Nat
  BY <1>1, Numbers
<1>5. v \in Waiter /\ v.good = rpc.pts /\ ~v.requesting
  BY <1>4, SetStateFields
<1> HIDE DEF v
<1>6. /\ w' \in Waiter /\ w'.good = rpc.pts /\ w'.requesting /\ w'.queue = {}
      /\ rpc' = [st |-> "getDifference", from |-> w'.good, pts |-> 0]
      /\ failArmed' = FALSE
  BY <1>2, <1>5, GetDifferenceResult
<1>7. Complete(w', log, top, applied') /\ applied' \subseteq log
  BY <1>2, <1>3, <1>4, <1>6, CatchUp
<1>8. BoxInv'  BY <1>2, <1>6, <1>7 DEF BoxInv
<1>9. w'.good \in 1 .. MaxPts  BY <1>3, <1>4, <1>6
<1>10. rpc' \in Rpc /\ RpcInv'  BY <1>6, <1>9, AskedRpc
<1>11. w'.good >= w.good  BY <1>3, <1>4, <1>6
<1>12. /\ net' \subseteq net /\ counted' \subseteq counted
       /\ fails' \in 0 .. MaxFails /\ failArmed' \in BOOLEAN
  BY <1>1, <1>2, <1>6, Numbers
<1> QED  BY <1>2, <1>6, <1>7, <1>8, <1>10, <1>11, <1>12, StepPreserves
-----------------------------------------------------------------------------
\* An update is delivered to a waiter that looks at it.
LEMMA LookedPreserves ==
    ASSUME IInv, NEW m \in net, Looked(w, m.update), net' = net \ {m},
           Preserved(w, log, top, counted, m.update, w', applied'),
           counted' = Recount(w', counted, m.update), applied' \subseteq log,
           UNCHANGED <<serverVars, rpc, failArmed, fails>>
    PROVE  IInv' /\ w'.good >= w.good
<1> USE ConstantsAssumption DEF ConstantsAssumption
<1> DEFINE u == m.update
<1>1. /\ TypeOK /\ RpcInv /\ NetInv /\ Tiled(log, top)
      /\ \A p \in counted : p <= top
  BY DEF IInv
<1>2. /\ log' = log /\ top' = top /\ zeros' = zeros
      /\ rpc' = rpc /\ failArmed' = failArmed /\ fails' = fails
  BY DEF serverVars
<1>3. /\ w' \in Waiters /\ ~w'.requesting
      /\ Complete(w', log, top, applied')
      /\ Counting(w', log, top, applied', counted')
      /\ counted' \subseteq counted \cup Points(u) /\ w.good <= w'.good
  BY DEF Preserved
<1>4. Genuine(log, top, u) /\ Points(u) \cap counted = {}  BY <1>1 DEF NetInv
<1>5. /\ w.good \in Nat /\ top \in Nat /\ top <= MaxPts /\ log \subseteq Update
      /\ failArmed \in BOOLEAN /\ rpc \in Rpc /\ fails \in 0 .. MaxFails
      /\ counted \subseteq Nat
  BY <1>1, Numbers
<1>6. w'.good >= w.good  BY <1>3, <1>5 DEF Waiters
<1>7. w' \in Waiter
  <2>1. /\ w'.good \in Nat /\ w'.last \in Nat /\ w'.good <= w'.last
        /\ w'.last <= top
    BY <1>3 DEF Counting, CountsTo, Boundary
  <2>2. w'.good \in 0 .. MaxPts /\ w'.last \in 0 .. MaxPts  BY <1>5, <2>1
  <2>3. w'.queue \subseteq Update  BY <1>3, <1>5 DEF Counting
  <2> QED  BY <1>3, <2>2, <2>3, WaiterBounds
<1>8. counted' \subseteq 1 .. MaxPts /\ \A p \in counted' : p <= top'
  <2>1. /\ counted' \subseteq (w'.good + 1) .. w'.last
        /\ w'.good \in Nat /\ w'.last \in Nat /\ w'.last <= top
    BY <1>3 DEF Counting, CountsTo, Boundary
  <2> QED  BY <1>2, <1>5, <2>1
<1>9. TypeOK'  BY <1>1, <1>2, <1>7, <1>8 DEF TypeOK
<1>10. BoxInv'  BY <1>2, <1>3 DEF BoxInv
<1>11. RpcInv'
  <2>1. ~w.requesting  BY DEF Looked
  <2>2. rpc.st = "none" /\ ~failArmed  BY <1>1, <2>1 DEF RpcInv
  <2> QED  BY <1>2, <2>2 DEF RpcInv
<1>12. NetInv'
  <2>1. ASSUME NEW n \in net'
        PROVE  Genuine(log', top', n.update) /\ Points(n.update) \cap counted' = {}
    <3>1. /\ n \in net /\ n # m /\ Genuine(log, top, n.update)
          /\ Points(n.update) \cap counted = {}
      BY <1>1 DEF NetInv
    <3>2. n.update # u \/ n.update.count = 0
      <4>1. n.update \in Updates  BY <1>1, <3>1 DEF Genuine, Tiled
      <4>2. n.update.count \in Nat  BY <4>1 DEF Updates
      <4>3. n.update = u /\ n.update.count > 0 => n = m
        BY <1>1, <3>1 DEF NetInv
      <4> QED  BY <3>1, <4>2, <4>3
    <3>3. Points(n.update) \cap Points(u) = {}
      BY <1>1, <1>4, <3>1, <3>2, DisjointPoints
    <3> QED  BY <1>2, <1>3, <3>1, <3>3
  <2>2. ASSUME NEW k \in net', NEW n \in net', k.update = n.update, k.update.count > 0
        PROVE  k = n
    BY <1>1, <2>2 DEF NetInv
  <2> QED  BY <2>1, <2>2 DEF NetInv
<1>13. Tiled(log', top')  BY <1>1, <1>2
<1> QED  BY <1>6, <1>8, <1>9, <1>10, <1>11, <1>12, <1>13 DEF IInv

\* An update is delivered to a waiter that awaits an answer, or is old: the
\* counters do not change.
LEMMA UncountedPreserves ==
    ASSUME IInv, net' \subseteq net, counted' = counted,
           applied \subseteq applied', applied' \subseteq log,
           \/ w' = w
           \/ /\ w.requesting /\ w' \in Waiter /\ w'.good = w.good
              /\ w'.queue = {} /\ w'.requesting,
           UNCHANGED <<serverVars, rpc, failArmed, fails>>
    PROVE  IInv' /\ w'.good >= w.good
<1>1. TypeOK /\ RpcInv  BY DEF IInv
<1>2. /\ log' = log /\ top' = top /\ zeros' = zeros
      /\ rpc' = rpc /\ failArmed' = failArmed /\ fails' = fails
  BY DEF serverVars
<1>3. /\ w \in Waiter /\ w.good \in Nat /\ rpc \in Rpc
      /\ failArmed \in BOOLEAN /\ fails \in 0 .. MaxFails
  BY <1>1, Numbers
<1>4. BoxInv'  BY <1>2, BoxSame, BoxRequesting
<1>5. RpcInv'  BY <1>1, <1>2 DEF RpcInv
<1>6. w' \in Waiter /\ w'.good >= w.good  BY <1>3
<1> QED  BY <1>2, <1>3, <1>4, <1>5, <1>6, StepPreserves

\* The waiter of the box as PtsWaiterProofs sees it.
LEMMA BoxReady ==
    ASSUME IInv, NEW m \in net, ~w.requesting, ~IsOld(w, m.update)
    PROVE  /\ Ready(w, log, top, applied, counted, m.update)
           /\ Looked(w, m.update)
<1>1. /\ TypeOK /\ NetInv /\ BoxInv /\ Tiled(log, top)  BY DEF IInv
<1>2. w \in Waiters  BY <1>1, WaiterBounds DEF TypeOK
<1>3. Counting(w, log, top, applied, counted)  BY <1>1 DEF BoxInv
<1>4. Complete(w, log, top, applied)  BY <1>1 DEF BoxInv
<1>5. w.good > 0  BY <1>2, <1>3 DEF Counting, Waiters
<1>6. Looked(w, m.update)  BY <1>5 DEF Looked
<1>7. Genuine(log, top, m.update) /\ Points(m.update) \cap counted = {}
  BY <1>1 DEF NetInv
<1> QED  BY <1>1, <1>2, <1>3, <1>4, <1>6, <1>7 DEF Ready

LEMMA FeedStepPreserves ==
    ASSUME IInv, NEW m \in net, FeedUpdate(m.update), net' = net \ {m},
           UNCHANGED <<serverVars, rpc, failArmed, fails>>
    PROVE  IInv' /\ w'.good >= w.good
<1> DEFINE u == m.update
<1>1. TypeOK /\ BoxInv  BY DEF IInv
<1>2. /\ w' = UpdateAndApply(w, u)
      /\ applied' = applied \cup (Applied(w, u) \cap log)
      /\ CountPoints(u)
  BY DEF FeedUpdate
<1>3. applied' \subseteq log /\ applied \subseteq applied'
  BY <1>1, <1>2, Numbers
<1>4. CASE w.requesting
  <2>1. w.queue = {}  BY <1>1, <1>4 DEF BoxInv
  <2>2. w' = w
    BY <1>2, <1>4, <2>1 DEF UpdateAndApply, Passes, Updated, AppliesDirectly
  <2>3. counted' = counted  BY <1>2, <1>4 DEF CountPoints
  <2> QED  BY <1>3, <2>2, <2>3, UncountedPreserves
<1>5. CASE ~w.requesting /\ IsOld(w, u)
  <2>1. w' = w
    BY <1>2, <1>5 DEF UpdateAndApply, Passes, Updated
  <2>2. counted' = counted  BY <1>2, <1>5 DEF CountPoints
  <2> QED  BY <1>3, <2>1, <2>2, UncountedPreserves
<1>6. CASE ~w.requesting /\ ~IsOld(w, u)
  <2>1. Ready(w, log, top, applied, counted, u) /\ Looked(w, u)
    BY <1>6, BoxReady
  <2>2. counted' = Recount(w', counted, u)
    BY <1>2, <1>6 DEF CountPoints, Recount
  <2>3. Preserved(w, log, top, counted, u, w', applied')
    BY <1>2, <2>1, FeedPreserves
  <2> QED  BY <1>3, <2>1, <2>2, <2>3, LookedPreserves
<1> QED  BY <1>4, <1>5, <1>6

LEMMA AffectedPreserves ==
    ASSUME IInv, NEW m \in net, AffectedResult(m)
    PROVE  IInv' /\ w'.good >= w.good
<1> DEFINE u == m.update
<1>1. TypeOK /\ BoxInv  BY DEF IInv
<1>2. /\ w' = UpdateAndApplyCount(w, u)
      /\ applied' = applied \cup (({u} \cup AppliedByCount(w, u)) \cap log)
      /\ CountPoints(u) /\ net' = net \ {m}
      /\ UNCHANGED <<serverVars, rpc, failArmed, fails>>
  BY DEF AffectedResult
<1>3. applied' \subseteq log /\ applied \subseteq applied'
  BY <1>1, <1>2, Numbers
<1>4. CASE w.requesting
  <2>1. w.queue = {} /\ w \in Waiter  BY <1>1, <1>4, Numbers DEF BoxInv
  <2>2. w' = ApplySkippedUpdates(w)
    BY <1>2, <1>4 DEF UpdateAndApplyCount, Passes, Updated
  <2>3. /\ w' \in Waiters /\ w'.queue = {} /\ w'.good = w.good
        /\ w'.last = w.last /\ (w'.requesting <=> w.requesting)
    BY <2>1, <2>2, WaiterBounds, SkippedFields
  <2>4. w' \in Waiter  BY <2>1, <2>3, WaiterBounds
  <2>5. counted' = counted  BY <1>2, <1>4 DEF CountPoints
  <2> QED  BY <1>2, <1>3, <1>4, <2>3, <2>4, <2>5, UncountedPreserves
<1>5. CASE ~w.requesting /\ IsOld(w, u)
  <2>1. w' = w
    BY <1>2, <1>5 DEF UpdateAndApplyCount, Passes, Updated
  <2>2. counted' = counted  BY <1>2, <1>5 DEF CountPoints
  <2> QED  BY <1>2, <1>3, <2>1, <2>2, UncountedPreserves
<1>6. CASE ~w.requesting /\ ~IsOld(w, u)
  <2>1. Ready(w, log, top, applied, counted, u) /\ Looked(w, u)
    BY <1>6, BoxReady
  <2>2. counted' = Recount(w', counted, u)
    BY <1>2, <1>6 DEF CountPoints, Recount
  <2>3. Preserved(w, log, top, counted, u, w', applied')
    BY <1>2, <2>1, CountPreserves
  <2> QED  BY <1>2, <1>3, <2>1, <2>2, <2>3, LookedPreserves
<1> QED  BY <1>4, <1>5, <1>6

LEMMA DeliverPreserves ==
    ASSUME IInv, NEW m \in net, Deliver(m)  PROVE IInv' /\ w'.good >= w.good
<1>1. CASE UpdateReceived(m) \/ SentResult(m)
  BY <1>1, FeedStepPreserves DEF UpdateReceived, SentResult
<1>2. CASE UpdateIgnored(m)
  <2>1. applied \subseteq log  BY Numbers DEF IInv
  <2> QED  BY <1>2, <2>1, UncountedPreserves DEF UpdateIgnored, clientVars
<1>3. CASE UpdateDataNotLoaded(m)
  BY <1>3, AskPreserves DEF UpdateDataNotLoaded
<1>4. CASE AffectedResult(m)  BY <1>4, AffectedPreserves
<1> QED  BY <1>1, <1>2, <1>3, <1>4 DEF Deliver

-----------------------------------------------------------------------------
LEMMA NextPreserves ==
    ASSUME IInv, [Next]_vars  PROVE IInv' /\ w'.good >= w.good
<1>0. w.good \in Nat  BY Numbers DEF IInv
<1>1. CASE \E c \in Counts, via \in Carriers : Publish(c, via)
  <2>1. w' = w  BY <1>1 DEF Publish, clientVars
  <2> QED  BY <1>0, <1>1, <2>1, PublishPreserves
<1>2. CASE \E via \in {"push", "affected"} : PublishZero(via)
  <2>1. w' = w  BY <1>2 DEF PublishZero, clientVars
  <2> QED  BY <1>0, <1>2, <2>1, PublishZeroPreserves
<1>3. CASE \E m \in net : LosePush(m)  BY <1>3, LosePushPreserves
<1>4. CASE \E m \in net : Deliver(m)  BY <1>4, DeliverPreserves
<1>5. CASE ServerAnswers  BY <1>5, AnswerPreserves
<1>6. CASE GotAnswer
  BY <1>6, GotStatePreserves, GotEmptyPreserves, GotFinalPreserves,
     GotSlicePreserves, EndPreserves DEF GotAnswer
<1>7. CASE NewSessionCreated \/ GetDifferenceByPts
  BY <1>7, AskPreserves DEF NewSessionCreated, GetDifferenceByPts
<1>8. CASE GetDifferenceAfterFail  BY <1>8, AfterFailPreserves
<1>9. CASE UNCHANGED vars
  <2>1. /\ log' = log /\ top' = top /\ zeros' = zeros /\ net' = net /\ w' = w
        /\ rpc' = rpc /\ failArmed' = failArmed /\ fails' = fails
        /\ applied' = applied /\ counted' = counted
    BY <1>9 DEF vars
  <2>2. applied \subseteq log  BY Numbers DEF IInv
  <2> QED  BY <2>1, <2>2, UncountedPreserves DEF serverVars
<1> QED  BY <1>1, <1>2, <1>3, <1>4, <1>5, <1>6, <1>7, <1>8, <1>9 DEF Next

\* The inductive invariant holds in every reachable state of the box, for
\* every bound, every set of counts and every choice of answers.
THEOREM InductiveInvariant == Spec => []IInv
<1>1. IInv /\ [Next]_vars => IInv'  BY NextPreserves
<1> QED  BY <1>1, InitEstablishes, PTL DEF Spec

\* Every variable of the box, of its request and of the server keeps its type.
THEOREM TypeCorrect == Spec => []TypeOK
<1>1. IInv => TypeOK  BY DEF IInv
<1> QED  BY <1>1, InductiveInvariant, PTL

\* Counting points (PtsWaiter::check) is enough: the confirmed pts leaves no
\* update behind, in whatever order updates arrive and whichever are lost,
\* held back, ignored while a difference is requested, or only counted.
THEOREM NothingSkipped == Spec => []NoGap
<1>1. IInv => NoGap  BY DEF IInv, BoxInv, Complete, NoGap
<1> QED  BY <1>1, InductiveInvariant, PTL

\* What updateAndApply holds back is ahead of the confirmed pts and has a
\* deadline pending; nothing is held back while a difference is requested.
THEOREM QueueWatched == Spec => []HeldBackIsWatched
<1>1. IInv => HeldBackIsWatched
  BY DEF IInv, BoxInv, Counting, HeldBackIsWatched
<1> QED  BY <1>1, InductiveInvariant, PTL

\* No handler of MainWidget moves the confirmed pts back.
THEOREM NeverBack == Spec => ConfirmedNeverMovesBack
<1>1. IInv /\ [Next]_vars => [w'.good >= w.good]_vars
  BY NextPreserves
<1> QED  BY <1>1, InductiveInvariant, PTL DEF Spec, ConfirmedNeverMovesBack
-----------------------------------------------------------------------------
\* Whoever set _requesting left an answer or a retry to come.
Awaited == w.requesting => rpc.st # "none" \/ failArmed

\* A delivered update neither starts nor ends a request.
LEMMA FedAwaited ==
    ASSUME IInv, Awaited, NEW m \in net,
           \/ FeedUpdate(m.update)
           \/ w' = UpdateAndApplyCount(w, m.update) /\ AffectedResult(m),
           rpc' = rpc, failArmed' = failArmed
    PROVE  Awaited'
<1> DEFINE u == m.update
<1>1. CASE w.requesting
  BY <1>1 DEF Awaited
<1>2. CASE ~w.requesting /\ IsOld(w, u)
  <2>1. w' = w
    BY <1>2 DEF FeedUpdate, UpdateAndApply, UpdateAndApplyCount, Passes, Updated
  <2> QED  BY <1>2, <2>1 DEF Awaited
<1>3. CASE ~w.requesting /\ ~IsOld(w, u)
  <2>1. Ready(w, log, top, applied, counted, u) /\ Looked(w, u)
    BY <1>3, BoxReady
  <2>2. CASE FeedUpdate(u)
    <3>1. /\ w' = UpdateAndApply(w, u)
          /\ applied' = applied \cup (Applied(w, u) \cap log)
      BY <2>2 DEF FeedUpdate
    <3>2. Preserved(w, log, top, counted, u, w', applied')
      BY <2>1, <3>1, FeedPreserves
    <3> QED  BY <3>2 DEF Preserved, Awaited
  <2>3. CASE AffectedResult(m)
    <3>1. /\ w' = UpdateAndApplyCount(w, u)
          /\ applied' = applied \cup (({u} \cup AppliedByCount(w, u)) \cap log)
      BY <2>3 DEF AffectedResult
    <3>2. Preserved(w, log, top, counted, u, w', applied')
      BY <2>1, <3>1, CountPreserves
    <3> QED  BY <3>2 DEF Preserved, Awaited
  <2> QED  BY <2>2, <2>3
<1> QED  BY <1>1, <1>2, <1>3

\* getDifference() leaves a request that is awaited, unless one was.
LEMMA AskedAwaited ==
    ASSUME IInv, Awaited, NEW v \in Waiter, NEW r, GetDifference(v, r),
           v.requesting => v.queue = {} /\ v = w /\ r = rpc
    PROVE  Awaited'
<1>1. CASE v.requesting
  <2>1. rpc' = rpc /\ failArmed' = failArmed  BY <1>1, GetDifferenceResult
  <2> QED  BY <1>1, <2>1 DEF Awaited
<1>2. CASE ~v.requesting
  <2>1. rpc' = [st |-> "getDifference", from |-> v.good, pts |-> 0]
    BY <1>2, GetDifferenceResult
  <2>2. rpc'.st # "none"  BY <2>1
  <2> QED  BY <2>2 DEF Awaited
<1> QED  BY <1>1, <1>2

LEMMA AwaitedPreserved ==
    ASSUME IInv, Awaited, [Next]_vars  PROVE Awaited'
<1>1. /\ TypeOK /\ w \in Waiter /\ rpc \in Rpc
      /\ w.requesting => w.queue = {}
  BY Numbers DEF IInv, TypeOK, BoxInv
<1>2. CASE w' = w /\ rpc' = rpc /\ failArmed' = failArmed
  BY <1>2 DEF Awaited
<1>3. CASE \E c \in Counts, via \in Carriers : Publish(c, via)
  BY <1>2, <1>3 DEF Publish, clientVars
<1>4. CASE \E via \in {"push", "affected"} : PublishZero(via)
  BY <1>2, <1>4 DEF PublishZero, clientVars
<1>5. CASE \E m \in net : LosePush(m)
  BY <1>2, <1>5 DEF LosePush, clientVars
<1>6. CASE GetDifference(w, rpc)
  BY <1>1, <1>6, AskedAwaited
<1>7. ASSUME NEW m \in net, Deliver(m)  PROVE Awaited'
  <2>1. CASE UpdateReceived(m) \/ SentResult(m)
    BY <2>1, FedAwaited DEF UpdateReceived, SentResult
  <2>2. CASE UpdateIgnored(m)
    BY <1>2, <2>2 DEF UpdateIgnored, clientVars
  <2>3. CASE UpdateDataNotLoaded(m)
    BY <1>6, <2>3 DEF UpdateDataNotLoaded
  <2>4. CASE AffectedResult(m)
    <3>1. /\ w' = UpdateAndApplyCount(w, m.update)
          /\ rpc' = rpc /\ failArmed' = failArmed
      BY <2>4 DEF AffectedResult
    <3> QED  BY <2>4, <3>1, FedAwaited
  <2> QED  BY <1>7, <2>1, <2>2, <2>3, <2>4 DEF Deliver
<1>8. CASE ServerAnswers
  <2>1. PICK st, pts :
        /\ rpc' = [rpc EXCEPT !.st = st, !.pts = pts]
        /\ \/ rpc.st = "getState" /\ st = "state" /\ pts = top
           \/ /\ rpc.st = "getDifference"
              /\ \/ st \in {"empty", "difference", "tooLong"} /\ pts = top
                 \/ st = "error" /\ pts = 0
                 \/ st = "slice" /\ \E u \in log : rpc.from < u.pts /\ pts = u.pts
    BY <1>8, AnswerIs
  <2>2. rpc'.st = st /\ st # "none"  BY <1>1, <2>1 DEF Rpc
  <2> QED  BY <2>2 DEF Awaited
<1>9. CASE GotState \/ GotDifferenceEmpty \/ GotDifferenceFinal
  <2>1. PICK pts \in 0 .. MaxPts : w' = SetState(pts)
    BY <1>1, <1>9, Numbers
    DEF GotState, GotDifferenceEmpty, GotDifferenceFinal
  <2>2. pts \in Nat /\ pts <= MaxPts  OBVIOUS
  <2>3. ~w'.requesting  BY <1>1, <2>1, <2>2, SetStateFields
  <2> QED  BY <2>3 DEF Awaited
<1>10. CASE GotDifferenceSlice
  <2> DEFINE v == SetState(rpc.pts)
  <2>1. GetDifference(v, NoRpc)  BY <1>10 DEF GotDifferenceSlice
  <2>2. rpc.pts \in Nat /\ rpc.pts <= MaxPts  BY <1>1, Numbers
  <2>3. v \in Waiter /\ ~v.requesting  BY <1>1, <2>2, SetStateFields
  <2> HIDE DEF v
  <2> QED  BY <2>1, <2>3, AskedAwaited
<1>11. CASE GotDifferenceTooLong
  <2>1. rpc'.st = "logged"  BY <1>1, <1>11 DEF GotDifferenceTooLong, Rpc
  <2>2. rpc'.st # "none"  BY <2>1
  <2> QED  BY <2>2 DEF Awaited
<1>12. CASE FailDifference
  BY <1>12 DEF FailDifference, Awaited
<1>13. CASE NewSessionCreated \/ GetDifferenceByPts
  BY <1>6, <1>13 DEF NewSessionCreated, GetDifferenceByPts
<1>14. CASE GetDifferenceAfterFail
  <2> DEFINE v == SetRequesting(w, FALSE)
  <2>1. GetDifference(v, rpc)  BY <1>14 DEF GetDifferenceAfterFail
  <2>2. v = [w EXCEPT !.requesting = FALSE]  BY <1>1 DEF SetRequesting, Waiter
  <2>3. v \in Waiter  BY <1>1, <2>2 DEF Waiter
  <2>4. ~v.requesting  BY <1>1, <2>2 DEF Waiter
  <2> HIDE DEF v
  <2> QED  BY <2>1, <2>3, <2>4, AskedAwaited
<1>15. CASE UNCHANGED vars  BY <1>2, <1>15 DEF vars
<1> QED
  BY <1>3, <1>4, <1>5, <1>7, <1>8, <1>9, <1>10, <1>11, <1>12, <1>13, <1>14, <1>15
  DEF Next, GotAnswer

\* _requesting is set exactly while an answer is awaited or a retry is
\* scheduled, so pushes are never ignored for nothing.
THEOREM AlwaysAnswered == Spec => []RequestingIsAnswered
<1>1. Init => Awaited
  <2>1. ASSUME Init  PROVE rpc.st # "none"  BY <2>1 DEF Init
  <2> QED  BY <2>1 DEF Awaited
<1>2. IInv /\ Awaited /\ [Next]_vars => Awaited'  BY AwaitedPreserved
<1>3. IInv /\ Awaited => RequestingIsAnswered
  BY DEF IInv, RpcInv, Awaited, RequestingIsAnswered
<1> QED  BY <1>1, <1>2, <1>3, InductiveInvariant, PTL DEF Spec
=============================================================================
