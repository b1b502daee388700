------------------------ MODULE ChannelUpdatesProofs ------------------------
(***************************************************************************)
(* Proofs about the update box of a channel, for every bound, every set of *)
(* counts and whether or not the channel's pts is known at the start.  The *)
(* lemmas on one call of updateAndApply are those the common box uses; to  *)
(* cite them, what lies at or below the first pts the channel was given    *)
(* counts as reflected in the client's data, since it came with the        *)
(* channel itself.  A box that has heard of no pts yet counts nothing.     *)
(***************************************************************************)
EXTENDS ChannelUpdates, PtsWaiterProofs

Reflected == applied \cup {u \in log : u.pts <= base}

\* A box that was not given a pts yet.
Unheard == w.good = 0 => ~w.requesting /\ w.queue = {} /\ counted = {}

BoxInv ==
    /\ base = 0 <=> w.good = 0
    /\ Unheard
    /\ Complete(w, log, top, Reflected)
    /\ w.good # 0 /\ ~w.requesting => Counting(w, log, top, Reflected, counted)
    /\ w.requesting => w.queue = {}

NetInv ==
    /\ \A m \in net : /\ Genuine(log, top, m.update)
                      /\ Points(m.update) \cap counted = {}
    /\ \A m, n \in net : m.update = n.update /\ m.update.count > 0 => m = n

RpcInv ==
    /\ rpc.st # "none" => w.requesting /\ rpc.from = w.good
    /\ rpc.st \in {"empty", "difference", "tooLong"} =>
          /\ rpc.pts >= 1 /\ w.good <= rpc.pts
          /\ Boundary(log, top, rpc.pts)

IInv ==
    /\ TypeOK
    /\ Tiled(log, top)
    /\ BoxInv
    /\ \A p \in counted : p <= top
    /\ NetInv
    /\ RpcInv
-----------------------------------------------------------------------------
\* The waiter's type, with the bounds apart.
LEMMA WaiterBounds ==
    ASSUME NEW x
    PROVE  x \in Waiter <=> /\ x \in Waiters
                            /\ x.good \in 0 .. MaxPts /\ x.last \in 0 .. MaxPts
                            /\ x.queue \subseteq Update
<1> USE ConstantsAssumption DEF ConstantsAssumption
<1>1. Update \subseteq Updates  BY DEF Update, Updates
<1>2. x \in Waiter => /\ x \in Waiters
                      /\ x.good \in 0 .. MaxPts /\ x.last \in 0 .. MaxPts
                      /\ x.queue \subseteq Update
  BY <1>1 DEF Waiter, Waiters
<1>3. ASSUME x \in Waiters, x.good \in 0 .. MaxPts, x.last \in 0 .. MaxPts,
             x.queue \subseteq Update
      PROVE  x \in Waiter
  BY <1>3 DEF Waiter, Waiters
<1> QED  BY <1>2, <1>3

\* What the typing of the state says of the numbers and of the waiter.
LEMMA Numbers ==
    ASSUME TypeOK
    PROVE  /\ w \in Waiter /\ w.good \in Nat /\ w.good \in 0 .. MaxPts
           /\ rpc \in Rpc /\ rpc.pts \in 0 .. MaxPts /\ rpc.from \in 0 .. MaxPts
           /\ top \in Nat /\ top \in 1 .. MaxPts /\ zeros \in 0 .. MaxZeros
           /\ fails \in 0 .. MaxFails
           /\ failArmed \in BOOLEAN /\ active \in BOOLEAN /\ known \in BOOLEAN
           /\ base \in Nat /\ base \in 0 .. MaxPts
           /\ applied \subseteq log /\ log \subseteq Update
           /\ counted \subseteq Nat
<1> USE ConstantsAssumption DEF ConstantsAssumption
<1>1. w \in Waiter /\ w.good \in 0 .. MaxPts  BY DEF TypeOK, Waiter
<1>2. rpc \in Rpc /\ rpc.pts \in 0 .. MaxPts /\ rpc.from \in 0 .. MaxPts
  BY DEF TypeOK, Rpc
<1>3. counted \subseteq Nat  BY DEF TypeOK
<1> QED  BY <1>1, <1>2, <1>3 DEF TypeOK

\* Complete and Counting keep holding when more is applied.
LEMMA MoreApplied ==
    ASSUME NEW x, NEW a, NEW b, a \subseteq b, NEW c
    PROVE  /\ Complete(x, log, top, a) => Complete(x, log, top, b)
           /\ Counting(x, log, top, a, c) => Counting(x, log, top, b, c)
<1>1. Complete(x, log, top, a) => Complete(x, log, top, b)  BY DEF Complete
<1>2. ASSUME Counting(x, log, top, a, c)  PROVE Counting(x, log, top, b, c)
  BY <1>2 DEF Counting
<1> QED  BY <1>1, <1>2
-----------------------------------------------------------------------------
\* The first state: a channel whose pts is known is at pts 1, one whose pts
\* is not known has a new waiter.
LEMMA InitEstablishes == Init => IInv
<1> SUFFICES ASSUME Init  PROVE IInv  OBVIOUS
<1> USE ConstantsAssumption DEF ConstantsAssumption
<1>1. /\ log = {} /\ top = 1 /\ zeros = 0 /\ net = {} /\ fails = 0
      /\ applied = {} /\ counted = {} /\ base = w.good
      /\ failArmed = FALSE /\ active = FALSE /\ known \in BOOLEAN
      /\ rpc = NoRpc
  BY DEF Init
<1>2. PICK g \in {0, 1} :
        w = [good |-> g, last |-> g, count |-> g, requesting |-> FALSE,
             waiting |-> FALSE, poll |-> FALSE, armed |-> FALSE, queue |-> {}]
  BY DEF Init, NewWaiter, InitAt
<1>3. w \in Waiter
  <2>1. g \in 0 .. MaxPts /\ g \in Nat /\ {} \in SUBSET Update  OBVIOUS
  <2> QED  BY <1>2, <2>1 DEF Waiter
<1>4. w.queue = {} /\ w.last = w.good /\ w.count = w.good /\ w.good \in {0, 1}
  BY <1>2
<1>5. ~w.requesting  BY <1>2
<1>6. rpc \in Rpc /\ rpc.st = "none"  BY <1>1 DEF NoRpc, Rpc
<1>7. TypeOK
  <2>1. top \in 1 .. MaxPts /\ zeros \in 0 .. MaxZeros /\ fails \in 0 .. MaxFails
        /\ base \in 0 .. MaxPts
    BY <1>1, <1>4
  <2>2. {failArmed, active, known} \subseteq BOOLEAN  BY <1>1
  <2> QED  BY <1>1, <1>3, <1>6, <2>1, <2>2 DEF TypeOK
<1>8. Tiled(log, top)  BY <1>1 DEF Tiled
<1>9. Boundary(log, top, w.good)  BY <1>1, <1>4 DEF Boundary
<1>10. w.good # 0 => Counting(w, log, top, Reflected, counted)
  <2>1. w.good \in Nat /\ (w.good # 0 => w.good >= 1)  BY <1>4
  <2> QED  BY <1>1, <1>4, <1>9, <2>1, CountingFromPts
<1>11. BoxInv
  BY <1>1, <1>4, <1>5, <1>9, <1>10 DEF BoxInv, Unheard, Complete
<1>12. NetInv  BY <1>1 DEF NetInv
<1>13. RpcInv  BY <1>6 DEF RpcInv
<1> QED  BY <1>1, <1>7, <1>8, <1>11, <1>12, <1>13 DEF IInv

\* A new update lies beyond everything counted, queued or on its way.
LEMMA PublishPreserves ==
    ASSUME IInv, NEW c \in Counts, NEW via \in {"push", "result"}, Publish(c, via)
    PROVE  IInv'
<1> USE ConstantsAssumption DEF ConstantsAssumption
<1> DEFINE u == [pts |-> top + c, count |-> c]
           m == [via |-> via, update |-> u]
<1>1. /\ TypeOK /\ Tiled(log, top) /\ BoxInv /\ NetInv /\ RpcInv
      /\ top \in 1 .. MaxPts /\ c \in Nat \ {0} /\ top + c <= MaxPts
      /\ \A p \in counted : p <= top
  BY DEF IInv, TypeOK, Publish
<1>2. /\ log' = log \cup {u} /\ top' = top + c /\ net' = net \cup {m}
      /\ w' = w /\ failArmed' = failArmed /\ applied' = applied
      /\ counted' = counted /\ rpc' = rpc /\ fails' = fails /\ zeros' = zeros
      /\ active' = active /\ known' = known /\ base' = base
  BY DEF Publish, clientVars
<1>3. /\ Tiled(log', top')
      /\ \A p \in Nat : Boundary(log, top, p) => Boundary(log', top', p)
  <2>1. u = [pts |-> top + c, count |-> c] /\ top >= 1  BY <1>1
  <2> HIDE DEF u
  <2> QED  BY <1>1, <1>2, <2>1, PublishGrows
<1>4. u \in Update /\ u.pts = top + c /\ u.count = c  BY <1>1 DEF Update
<1>5. m \in [via : {"push", "result"}, update : Update] /\ m.update = u  BY <1>4
<1>6. w.good \in Nat /\ w.last \in Nat /\ rpc.pts \in Nat
  BY <1>1 DEF TypeOK, Waiter, Rpc
<1> HIDE DEF u, m
<1>7. TypeOK'
  BY <1>1, <1>2, <1>4, <1>5 DEF TypeOK
<1>8. Reflected \subseteq Reflected'  BY <1>2 DEF Reflected
<1>9. Complete(w', log', top', Reflected')
  <2>1. Boundary(log, top, w.good)  BY <1>1 DEF BoxInv, Complete
  <2>2. w.good <= top  BY <2>1 DEF Boundary
  <2>3. ~(u.pts <= w.good)  BY <1>1, <1>4, <1>6, <2>2
  <2> QED  BY <1>1, <1>2, <1>3, <1>6, <1>8, <2>1, <2>3 DEF BoxInv, Complete
<1>10. w'.good # 0 /\ ~w'.requesting
          => Counting(w', log', top', Reflected', counted')
  <2> SUFFICES ASSUME w.good # 0, ~w.requesting
               PROVE  Counting(w, log', top', Reflected', counted)
    BY <1>2
  <2>1. Counting(w, log, top, Reflected, counted)  BY <1>1 DEF BoxInv
  <2>2. Boundary(log', top', w.last)  BY <1>3, <1>6, <2>1 DEF Counting
  <2>3. u.pts \notin counted  BY <1>1, <1>4
  <2> QED  BY <1>2, <1>8, <2>1, <2>2, <2>3 DEF Counting
<1>11. BoxInv'  BY <1>1, <1>2, <1>9, <1>10 DEF BoxInv, Unheard
<1>12. \A p \in counted' : p <= top'
  <2>1. counted \subseteq 1 .. MaxPts  BY <1>1 DEF TypeOK
  <2> QED  BY <1>1, <1>2, <2>1
<1>13. NetInv'
  <2>1. ASSUME NEW n \in net  PROVE Genuine(log', top', n.update)
    <3>1. log \subseteq log' /\ Genuine(log, top, n.update)
      BY <1>1, <1>2, <2>1 DEF NetInv
    <3> QED  BY <1>3, <3>1, GenuineGrows
  <2>2. Genuine(log', top', u)  BY <1>2 DEF Genuine
  <2>3. Points(u) \cap counted = {}
    <3>1. counted \subseteq 1 .. MaxPts  BY <1>1 DEF TypeOK
    <3> QED  BY <1>1, <1>4, <3>1 DEF Points
  <2>4. ASSUME NEW n \in net, n.update = u  PROVE u.count = 0
    <3>1. u \in log \/ u.count = 0  BY <1>1, <2>4 DEF NetInv, Genuine
    <3>2. u \notin log  BY <1>1, <1>4 DEF Tiled
    <3> QED  BY <3>1, <3>2
  <2>5. u.count # 0 /\ u.count > 0  BY <1>1, <1>4
  <2>6. ASSUME NEW n \in net'
        PROVE  Genuine(log', top', n.update) /\ Points(n.update) \cap counted' = {}
    BY <1>1, <1>2, <1>5, <2>1, <2>2, <2>3 DEF NetInv
  <2>7. ASSUME NEW k \in net', NEW n \in net', k.update = n.update, k.update.count > 0
        PROVE  k = n
    BY <1>1, <1>2, <1>5, <2>4, <2>5, <2>7 DEF NetInv
  <2> QED  BY <2>6, <2>7 DEF NetInv
<1>14. RpcInv'
  BY <1>1, <1>2, <1>3, <1>6 DEF RpcInv
<1> QED  BY <1>3, <1>7, <1>11, <1>12, <1>13, <1>14 DEF IInv

\* A result with the channel's pts brings no points.
LEMMA PublishPtsPreserves ==
    ASSUME IInv, PublishPts
    PROVE  IInv'
<1> USE ConstantsAssumption DEF ConstantsAssumption
<1> DEFINE u == [pts |-> top, count |-> 0]
           m == [via |-> "result", update |-> u]
<1>1. /\ TypeOK /\ Tiled(log, top) /\ BoxInv /\ NetInv /\ RpcInv
      /\ top \in 1 .. MaxPts /\ \A p \in counted : p <= top
  BY DEF IInv, TypeOK
<1>2. /\ log' = log /\ top' = top /\ net' = net \cup {m}
      /\ w' = w /\ failArmed' = failArmed /\ applied' = applied
      /\ counted' = counted /\ rpc' = rpc /\ fails' = fails
      /\ active' = active /\ known' = known /\ base' = base
      /\ zeros < MaxZeros /\ zeros' = zeros + 1
  BY DEF PublishPts, clientVars
<1>3. u \in Update /\ u.pts = top /\ u.count = 0  BY <1>1 DEF Update
<1>4. m \in [via : {"push", "result"}, update : Update] /\ m.update = u
  BY <1>3
<1> HIDE DEF u, m
<1>5. TypeOK'
  <2>1. zeros' \in 0 .. MaxZeros  BY <1>1, <1>2, Numbers
  <2> QED  BY <1>1, <1>2, <1>4, <2>1 DEF TypeOK
<1>6. BoxInv'  BY <1>1, <1>2 DEF BoxInv, Unheard, Reflected
<1>7. NetInv'
  <2>1. Boundary(log, top, u.pts)
    BY <1>1, <1>3 DEF Boundary, Tiled
  <2>2. Genuine(log, top, u)
    BY <1>1, <1>3, <2>1 DEF Genuine, Update, Updates
  <2>3. Points(u) = {}  BY <1>1, <1>3 DEF Points
  <2> QED  BY <1>1, <1>2, <1>3, <1>4, <2>2, <2>3 DEF NetInv
<1>8. RpcInv'  BY <1>1, <1>2 DEF RpcInv
<1> QED  BY <1>1, <1>2, <1>5, <1>6, <1>7, <1>8 DEF IInv
-----------------------------------------------------------------------------
\* The parts of the invariant put together, for a step of the client or of
\* the connection: no update is published, and none of what is on its way
\* is counted.
LEMMA StepPreserves ==
    ASSUME IInv, log' = log, top' = top, zeros' = zeros,
           net' \subseteq net, counted' \subseteq counted,
           applied' \subseteq log, fails' \in 0 .. MaxFails,
           w' \in Waiter, rpc' \in Rpc, failArmed' \in BOOLEAN,
           active' \in BOOLEAN, known' = known, base' = base, BoxInv', RpcInv'
    PROVE  IInv'
<1>1. TypeOK /\ Tiled(log, top) /\ NetInv /\ \A p \in counted : p <= top
  BY DEF IInv
<1>2. TypeOK'
  <2>1. counted' \subseteq 1 .. MaxPts  BY <1>1 DEF TypeOK
  <2> QED  BY <1>1, <2>1 DEF TypeOK
<1>3. NetInv'
  <2>1. ASSUME NEW n \in net'
        PROVE  Genuine(log', top', n.update) /\ Points(n.update) \cap counted' = {}
    BY <1>1 DEF NetInv
  <2>2. ASSUME NEW k \in net', NEW n \in net', k.update = n.update, k.update.count > 0
        PROVE  k = n
    BY <1>1, <2>2 DEF NetInv
  <2> QED  BY <2>1, <2>2 DEF NetInv
<1> QED  BY <1>1, <1>2, <1>3 DEF IInv

\* The box while an answer is awaited, with the same confirmed pts.
LEMMA BoxRequesting ==
    ASSUME IInv, log' = log, top' = top, applied \subseteq applied', base' = base,
           w'.good = w.good, w.good # 0, w'.requesting, w'.queue = {}
    PROVE  BoxInv'
<1>1. BoxInv  BY DEF IInv
<1>2. Reflected \subseteq Reflected'  BY DEF Reflected
<1>3. Complete(w', log', top', Reflected')
  BY <1>1, <1>2 DEF BoxInv, Complete
<1> QED  BY <1>1, <1>3 DEF BoxInv, Unheard

\* The same counters; the deadline may be set, and cleared if nothing is
\* held back.
LEMMA BoxSame ==
    ASSUME IInv, log' = log, top' = top, applied \subseteq applied', base' = base,
           counted' = counted, w'.good = w.good, w'.last = w.last,
           w'.count = w.count, w'.queue = w.queue,
           w'.requesting <=> w.requesting,
           w.queue # {} /\ w.waiting /\ w.armed => w'.waiting /\ w'.armed
    PROVE  BoxInv'
<1>1. BoxInv  BY DEF IInv
<1>2. Reflected \subseteq Reflected'  BY DEF Reflected
<1>3. Complete(w', log', top', Reflected')
  BY <1>1, <1>2 DEF BoxInv, Complete
<1>4. w'.good # 0 /\ ~w'.requesting
        => Counting(w', log', top', Reflected', counted')
  <2> SUFFICES ASSUME w.good # 0, ~w.requesting
               PROVE  Counting(w', log, top, Reflected', counted)
    OBVIOUS
  <2>1. Counting(w, log, top, Reflected, counted)  BY <1>1 DEF BoxInv
  <2>2. CountsTo(w'.good, w'.last, w'.count, counted)  BY <2>1 DEF Counting
  <2> QED  BY <1>2, <2>1, <2>2 DEF Counting
<1> QED  BY <1>1, <1>3, <1>4 DEF BoxInv, Unheard

\* A step that leaves the waiter, the request and its answer alone.
LEMMA IdlePreserves ==
    ASSUME IInv, net' \subseteq net, active' \in BOOLEAN,
           UNCHANGED <<serverVars, w, rpc, failArmed, fails, known, base,
                       applied, counted>>
    PROVE  IInv'
<1>1. TypeOK /\ RpcInv  BY DEF IInv
<1>2. /\ log' = log /\ top' = top /\ zeros' = zeros /\ w' = w /\ rpc' = rpc
      /\ failArmed' = failArmed /\ fails' = fails /\ known' = known
      /\ base' = base /\ applied' = applied /\ counted' = counted
  BY DEF serverVars
<1>3. BoxInv'  BY <1>2, BoxSame
<1>4. RpcInv'  BY <1>1, <1>2 DEF RpcInv
<1> QED  BY <1>1, <1>2, <1>3, <1>4, Numbers, StepPreserves

\* The chat is shown, hidden or left: the deadline that the poll and the gap
\* share is cleared only if nothing is held back.
LEMMA PollPreserves ==
    ASSUME IInv, active' \in BOOLEAN,
           w' = WaitForShortPoll(w) \/ w' = StopWaitingForShortPoll(w),
           UNCHANGED <<serverVars, net, rpc, failArmed, fails, known, base,
                       applied, counted>>
    PROVE  IInv'
<1>1. TypeOK /\ RpcInv /\ w \in Waiter /\ rpc \in Rpc  BY DEF IInv, TypeOK
<1>2. /\ log' = log /\ top' = top /\ zeros' = zeros /\ net' = net /\ rpc' = rpc
      /\ failArmed' = failArmed /\ fails' = fails /\ known' = known
      /\ base' = base /\ applied' = applied /\ counted' = counted
  BY DEF serverVars
<1>3. \/ w' = [w EXCEPT !.poll = TRUE, !.armed = TRUE]
      \/ w' = [w EXCEPT !.poll = FALSE, !.armed = w.armed /\ w.waiting]
  BY <1>1 DEF WaitForShortPoll, StopWaitingForShortPoll, StartTimer,
              CheckForWaiting, Waiter
<1>4. w' \in Waiter
  <2>1. (w.armed /\ w.waiting) \in BOOLEAN  BY <1>1 DEF Waiter
  <2> QED  BY <1>1, <1>3, <2>1 DEF Waiter
<1>5. /\ w'.good = w.good /\ w'.last = w.last /\ w'.count = w.count
      /\ w'.queue = w.queue
  BY <1>1, <1>3 DEF Waiter
<1>6. w'.requesting <=> w.requesting  BY <1>1, <1>3 DEF Waiter
<1>7. w.waiting /\ w.armed => w'.waiting /\ w'.armed  BY <1>1, <1>3 DEF Waiter
<1>8. BoxInv'  BY <1>2, <1>5, <1>6, <1>7, BoxSame
<1>9. RpcInv'  BY <1>1, <1>2, <1>5, <1>6 DEF RpcInv
<1> QED  BY <1>1, <1>2, <1>4, <1>8, <1>9, Numbers, StepPreserves

-----------------------------------------------------------------------------
\* What the server may answer.
LEMMA AnswerIs ==
    ASSUME ServerAnswers \/ ServerAnswersError
    PROVE
      \E st, pts, final :
        /\ rpc' = [rpc EXCEPT !.st = st, !.pts = pts, !.final = final]
        /\ final \in BOOLEAN
        /\ \/ st \in {"empty", "difference", "tooLong"} /\ pts = top
           \/ st = "error" /\ pts = 0
           \/ st = "difference" /\ \E u \in log : rpc.from < u.pts /\ pts = u.pts
<1>1. TRUE \in BOOLEAN /\ FALSE \in BOOLEAN  OBVIOUS
<1> QED  BY <1>1 DEF ServerAnswers, ServerAnswersError, Answer

\* The server's answers: what it says it has is on a boundary of the log.
LEMMA AnswerPreserves ==
    ASSUME IInv, ServerAnswers \/ ServerAnswersError  PROVE IInv'
<1> USE ConstantsAssumption DEF ConstantsAssumption
<1>1. TypeOK /\ RpcInv /\ Tiled(log, top) /\ rpc \in Rpc
  BY DEF IInv, TypeOK
<1>2. /\ log' = log /\ top' = top /\ zeros' = zeros /\ net' = net
      /\ w' = w /\ failArmed' = failArmed /\ applied' = applied
      /\ counted' = counted /\ fails' \in 0 .. MaxFails
      /\ active' = active /\ known' = known /\ base' = base
      /\ rpc.st = "asked"
  <2>1. fails \in 0 .. MaxFails  BY <1>1, Numbers
  <2>2. CASE ServerAnswers
    BY <2>1, <2>2 DEF ServerAnswers, serverVars, clientVars
  <2>3. CASE ServerAnswersError
    <3>1. fails' \in 0 .. MaxFails
      BY <2>1, <2>3 DEF ServerAnswersError
    <3> QED  BY <2>3, <3>1 DEF ServerAnswersError, serverVars, clientVars
  <2> QED  BY <2>2, <2>3
<1>3. PICK st, pts, final :
        /\ rpc' = [rpc EXCEPT !.st = st, !.pts = pts, !.final = final]
        /\ final \in BOOLEAN
        /\ \/ st \in {"empty", "difference", "tooLong"} /\ pts = top
           \/ st = "error" /\ pts = 0
           \/ st = "difference" /\ \E u \in log : rpc.from < u.pts /\ pts = u.pts
  BY AnswerIs
<1>4. top \in 1 .. MaxPts /\ log \subseteq Update  BY <1>1, Numbers
<1>5. /\ pts \in 0 .. MaxPts
      /\ st \in {"empty", "difference", "tooLong", "error"}
  BY <1>3, <1>4 DEF Update
<1>6. rpc' \in Rpc /\ rpc'.st = st /\ rpc'.pts = pts /\ rpc'.from = rpc.from
  BY <1>1, <1>3, <1>5 DEF Rpc
<1>7. w.requesting /\ rpc.from = w.good  BY <1>1, <1>2 DEF RpcInv
<1>8. Boundary(log, top, top) /\ Boundary(log, top, w.good) /\ w.good <= top
  BY <1>1, <1>4 DEF Tiled, Boundary, IInv, BoxInv, Complete
<1>9. st # "error" => pts >= 1 /\ w.good <= pts /\ Boundary(log, top, pts)
  <2>1. CASE pts = top  BY <1>4, <1>8, <2>1
  <2>2. CASE st # "error" /\ pts # top
    <3>1. PICK u \in log : rpc.from < u.pts /\ pts = u.pts  BY <1>3, <2>2
    <3>2. u.pts \in Nat /\ u.pts >= 1 /\ w.good \in Nat
      BY <1>1, <1>4, Numbers DEF Update
    <3>3. Boundary(log, top, u.pts)
      BY <1>1, <1>4 DEF Boundary, Tiled, Updates
    <3> QED  BY <1>7, <3>1, <3>2, <3>3
  <2> QED  BY <2>1, <2>2
<1>10. RpcInv'
  BY <1>2, <1>6, <1>7, <1>9 DEF RpcInv
<1>11. BoxInv'  BY <1>2, BoxSame
<1>12. /\ w' \in Waiter /\ failArmed' \in BOOLEAN /\ active' \in BOOLEAN
       /\ applied' \subseteq log /\ net' \subseteq net /\ counted' \subseteq counted
  BY <1>1, <1>2, Numbers
<1> QED  BY <1>2, <1>6, <1>10, <1>11, <1>12, StepPreserves

\* An error ends the request, and nothing else: the channel stays requesting.
LEMMA FailPreserves ==
    ASSUME IInv, FailChannelDifference  PROVE IInv'
<1>1. TypeOK  BY DEF IInv
<1>2. /\ log' = log /\ top' = top /\ zeros' = zeros /\ net' = net
      /\ w' = w /\ applied' = applied /\ counted' = counted /\ fails' = fails
      /\ active' = active /\ known' = known /\ base' = base
      /\ rpc' = NoRpc /\ failArmed' = TRUE
  BY DEF FailChannelDifference, serverVars
<1>3. rpc' \in Rpc /\ rpc'.st = "none"
  BY <1>2, ConstantsAssumption DEF NoRpc, Rpc, ConstantsAssumption
<1>4. RpcInv'  BY <1>3 DEF RpcInv
<1>5. BoxInv'  BY <1>2, BoxSame
<1>6. /\ w' \in Waiter /\ failArmed' \in BOOLEAN /\ active' \in BOOLEAN
      /\ applied' \subseteq log /\ net' \subseteq net /\ counted' \subseteq counted
      /\ fails' \in 0 .. MaxFails
  BY <1>1, <1>2, Numbers
<1> QED  BY <1>2, <1>3, <1>4, <1>5, <1>6, StepPreserves
-----------------------------------------------------------------------------
\* What getChannelDifference() leaves: nothing but a cleared deadline when it
\* returns early, and a request from the confirmed pts otherwise.
LEMMA NotAsked ==
    ASSUME NEW v \in Waiter, NEW r, NEW from, failArmed \in BOOLEAN,
           v.good = 0 \/ v.requesting, GetChannelDifference(v, r, from)
    PROVE  /\ w' \in Waiter /\ w'.good = v.good /\ w'.last = v.last
           /\ w'.count = v.count /\ w'.queue = v.queue
           /\ w'.requesting <=> v.requesting
           /\ rpc' = r /\ failArmed' \in BOOLEAN
<1>1. ~Inited(v) \/ v.requesting  BY DEF Inited
<1>2. /\ w' = [v EXCEPT !.armed = FALSE] /\ rpc' = r
      /\ failArmed' = (failArmed /\ from # "afterFail")
  BY <1>1 DEF GetChannelDifference
<1>3. w' \in Waiter  BY <1>2 DEF Waiter
<1>4. /\ w'.good = v.good /\ w'.last = v.last /\ w'.count = v.count
      /\ w'.queue = v.queue
  BY <1>2 DEF Waiter
<1>5. w'.requesting <=> v.requesting  BY <1>2 DEF Waiter
<1>6. failArmed' \in BOOLEAN  BY <1>2
<1> QED  BY <1>2, <1>3, <1>4, <1>5, <1>6

LEMMA Asked ==
    ASSUME NEW v \in Waiter, NEW r, NEW from, v.good \in 1 .. MaxPts,
           ~v.requesting, GetChannelDifference(v, r, from)
    PROVE  /\ w' \in Waiter /\ w'.good = v.good /\ w'.requesting /\ w'.queue = {}
           /\ rpc' \in Rpc /\ failArmed' \in BOOLEAN /\ RpcInv'
<1> USE ConstantsAssumption DEF ConstantsAssumption
<1>1. Inited(v)  BY DEF Inited
<1>2. /\ w' = SetRequesting([v EXCEPT !.armed = FALSE], TRUE)
      /\ rpc' = [st |-> "asked", from |-> v.good, pts |-> 0, final |-> TRUE]
      /\ failArmed' = FALSE
  BY <1>1 DEF GetChannelDifference
<1>3. w' = [v EXCEPT !.armed = FALSE, !.requesting = TRUE, !.queue = {}]
  BY <1>2 DEF SetRequesting, Waiter
<1>4. w' \in Waiter  BY <1>3 DEF Waiter
<1>5. w'.good = v.good /\ w'.queue = {}  BY <1>3 DEF Waiter
<1>6. w'.requesting  BY <1>3 DEF Waiter
<1>7. rpc' \in Rpc /\ rpc'.st = "asked" /\ rpc'.from = v.good
  <2>1. v.good \in 0 .. MaxPts /\ 0 \in 0 .. MaxPts  OBVIOUS
  <2> QED  BY <1>2, <2>1 DEF Rpc
<1>8. RpcInv'  BY <1>5, <1>6, <1>7 DEF RpcInv
<1> QED  BY <1>2, <1>4, <1>5, <1>6, <1>7, <1>8

\* getChannelDifference() called with the waiter as it is.
LEMMA AskPreserves ==
    ASSUME IInv, NEW from, GetChannelDifference(w, rpc, from),
           UNCHANGED <<serverVars, net, fails, active, known, base, applied, counted>>
    PROVE  IInv'
<1>1. TypeOK /\ RpcInv /\ BoxInv  BY DEF IInv
<1>2. /\ log' = log /\ top' = top /\ zeros' = zeros /\ net' = net
      /\ fails' = fails /\ active' = active /\ known' = known /\ base' = base
      /\ applied' = applied /\ counted' = counted
  BY DEF serverVars
<1>3. w \in Waiter /\ w.good \in 0 .. MaxPts /\ failArmed \in BOOLEAN
  BY <1>1, Numbers
<1>4. CASE w.good = 0 \/ w.requesting
  <2>1. w.queue = {}  BY <1>1, <1>4 DEF BoxInv, Unheard
  <2>2. /\ w' \in Waiter /\ w'.good = w.good /\ w'.last = w.last
        /\ w'.count = w.count /\ w'.queue = w.queue
        /\ w'.requesting <=> w.requesting
        /\ rpc' = rpc /\ failArmed' \in BOOLEAN
    BY <1>3, <1>4, NotAsked
  <2>3. BoxInv'  BY <1>2, <2>1, <2>2, BoxSame
  <2>4. RpcInv'  BY <1>1, <1>2, <2>2 DEF RpcInv
  <2> QED  BY <1>1, <1>2, <2>2, <2>3, <2>4, Numbers, StepPreserves
<1>5. CASE ~(w.good = 0 \/ w.requesting)
  <2>1. w.good \in 1 .. MaxPts  BY <1>3, <1>5
  <2>2. /\ w' \in Waiter /\ w'.good = w.good /\ w'.requesting /\ w'.queue = {}
        /\ rpc' \in Rpc /\ failArmed' \in BOOLEAN /\ RpcInv'
    BY <1>3, <1>5, <2>1, Asked
  <2>3. BoxInv'  BY <1>2, <1>5, <2>2, BoxRequesting
  <2> QED  BY <1>1, <1>2, <2>2, <2>3, Numbers, StepPreserves
<1> QED  BY <1>4, <1>5
-----------------------------------------------------------------------------
\* The waiter that an answer was received by.
LEMMA ReceivedFields ==
    ASSUME w \in Waiter, NEW pts \in Nat, pts <= MaxPts,
           NEW x, x = Received(pts)
    PROVE  /\ x \in Waiter /\ x.good = pts /\ x.last = pts /\ x.count = pts
           /\ x.queue = {} /\ ~x.requesting
<1>1. x = [w EXCEPT !.good = pts, !.last = pts, !.count = pts, !.queue = {},
                    !.requesting = FALSE]
  BY DEF Received, SetRequesting, InitAt, Waiter
<1>2. x \in Waiter
  <2> DEFINE I == 0 .. MaxPts
  <2>1. pts \in I  BY ConstantsAssumption DEF ConstantsAssumption
  <2>2. FALSE \in BOOLEAN /\ {} \in SUBSET Update  OBVIOUS
  <2>3. Waiter = [good : I, last : I, count : Nat,
                  requesting : BOOLEAN, waiting : BOOLEAN, poll : BOOLEAN,
                  armed : BOOLEAN, queue : SUBSET Update]
    BY DEF Waiter
  <2> HIDE DEF I
  <2> QED  BY <1>1, <2>1, <2>2, <2>3
<1>3. x.good = pts /\ x.last = pts /\ x.count = pts /\ x.queue = {}
  BY <1>1 DEF Waiter
<1>4. ~x.requesting  BY <1>1 DEF Waiter
<1> QED  BY <1>2, <1>3, <1>4

LEMMA PolledFields ==
    ASSUME NEW v \in Waiter, NEW x, x = WaitForShortPoll(v)
    PROVE  /\ x \in Waiter /\ x.good = v.good /\ x.last = v.last
           /\ x.count = v.count /\ x.queue = v.queue
           /\ x.requesting <=> v.requesting
<1>1. x = [v EXCEPT !.poll = TRUE, !.armed = TRUE]
  BY DEF WaitForShortPoll, StartTimer, Waiter
<1>2. x \in Waiter  BY <1>1 DEF Waiter
<1>3. /\ x.good = v.good /\ x.last = v.last /\ x.count = v.count
      /\ x.queue = v.queue
  BY <1>1 DEF Waiter
<1>4. x.requesting <=> v.requesting  BY <1>1 DEF Waiter
<1> QED  BY <1>2, <1>3, <1>4

\* An answer leaves nothing up to its pts behind: what it starts from is
\* confirmed, and what it brings is applied.
LEMMA GotPreserves ==
    ASSUME IInv, GotChannelDifference  PROVE IInv'
<1> USE ConstantsAssumption DEF ConstantsAssumption
<1> DEFINE pts == rpc.pts
           v == Received(rpc.pts)
<1>1. TypeOK /\ RpcInv /\ BoxInv  BY DEF IInv
<1>2. /\ log' = log /\ top' = top /\ zeros' = zeros /\ net' = net
      /\ fails' = fails /\ active' = active /\ known' = known /\ base' = base
      /\ applied' = applied \cup Between(rpc.from, pts) /\ counted' = {}
      /\ rpc.st \in {"empty", "difference", "tooLong"}
  BY DEF GotChannelDifference, serverVars
<1>3. /\ pts >= 1 /\ w.good <= pts /\ Boundary(log, top, pts)
      /\ w.requesting /\ rpc.from = w.good
  BY <1>1, <1>2 DEF RpcInv
<1>4. /\ w \in Waiter /\ w.good \in Nat /\ pts \in 0 .. MaxPts /\ pts \in Nat
      /\ log \subseteq Update /\ applied \subseteq log
      /\ failArmed \in BOOLEAN /\ fails \in 0 .. MaxFails /\ active \in BOOLEAN
  BY <1>1, Numbers
<1>5. w.good # 0 /\ base # 0  BY <1>1, <1>3 DEF BoxInv, Unheard
<1>6. /\ v \in Waiter /\ v.good = pts /\ v.last = pts /\ v.count = pts
      /\ v.queue = {} /\ ~v.requesting
  BY <1>4, ReceivedFields
<1>7. applied' \subseteq log  BY <1>2, <1>4 DEF Between
<1>8. ASSUME NEW x, x.good = pts  PROVE Complete(x, log, top, Reflected')
  <2>1. ASSUME NEW u \in log, u.pts <= pts  PROVE u \in Reflected'
    <3>1. u.pts \in Nat  BY <1>4 DEF Update
    <3>2. CASE u.pts <= w.good
      <4>1. u \in Reflected  BY <1>1, <3>2 DEF BoxInv, Complete
      <4> QED  BY <1>2, <4>1 DEF Reflected
    <3>3. CASE ~(u.pts <= w.good)
      <4>1. u \in Between(rpc.from, pts)
        BY <1>3, <1>4, <2>1, <3>1, <3>3 DEF Between
      <4> QED  BY <1>2, <4>1 DEF Reflected
    <3> QED  BY <3>2, <3>3
  <2> QED  BY <1>3, <1>8, <2>1 DEF Complete
<1> HIDE DEF v, pts
<1>9. CASE rpc.final
  <2>1. /\ w' = (IF active THEN WaitForShortPoll(v) ELSE v)
        /\ rpc' = NoRpc /\ failArmed' = failArmed
    BY <1>9 DEF GotChannelDifference, v
  <2>2. /\ w' \in Waiter /\ w'.good = pts /\ w'.last = pts /\ w'.count = pts
        /\ w'.queue = {} /\ ~w'.requesting
    <3>1. CASE active
      <4>1. w' = WaitForShortPoll(v)  BY <2>1, <3>1
      <4> QED  BY <1>6, <4>1, PolledFields
    <3>2. CASE ~active  BY <1>6, <2>1, <3>2
    <3> QED  BY <3>1, <3>2
  <2>3. Counting(w', log, top, Reflected', {})
    BY <1>3, <1>4, <2>2, CountingFromPts
  <2>4. Complete(w', log, top, Reflected')  BY <1>8, <2>2
  <2>5. w'.good # 0  BY <1>3, <1>4, <2>2
  <2>6. BoxInv'  BY <1>2, <1>5, <2>2, <2>3, <2>4, <2>5 DEF BoxInv, Unheard
  <2>7. rpc' \in Rpc /\ rpc'.st = "none"  BY <2>1 DEF NoRpc, Rpc
  <2>8. RpcInv'  BY <2>7 DEF RpcInv
  <2> QED  BY <1>2, <1>4, <1>7, <2>1, <2>2, <2>6, <2>7, <2>8, StepPreserves
<1>10. CASE ~rpc.final
  <2>1. GetChannelDifference(v, NoRpc, "unknown")
    BY <1>10 DEF GotChannelDifference, v
  <2>2. v.good \in 1 .. MaxPts  BY <1>3, <1>4, <1>6
  <2>3. /\ w' \in Waiter /\ w'.good = pts /\ w'.requesting /\ w'.queue = {}
        /\ rpc' \in Rpc /\ failArmed' \in BOOLEAN /\ RpcInv'
    BY <1>6, <2>1, <2>2, Asked
  <2>4. Complete(w', log, top, Reflected')  BY <1>8, <2>3
  <2>5. w'.good # 0  BY <1>3, <1>4, <2>3
  <2>6. BoxInv'  BY <1>2, <1>5, <2>3, <2>4, <2>5 DEF BoxInv, Unheard
  <2> QED  BY <1>2, <1>4, <1>7, <2>3, <2>6, StepPreserves
<1> QED  BY <1>9, <1>10
-----------------------------------------------------------------------------
\* The first pts the channel is given: the box starts there.
LEMMA FirstPtsPreserves ==
    ASSUME IInv, NEW m \in net, w.good = 0, net' = net \ {m},
           w' = UpdateAndApply(w, m.update) \/ w' = UpdateAndApplyCount(w, m.update),
           applied \subseteq applied', applied' \subseteq log,
           CountPoints(m.update), FirstPts,
           UNCHANGED <<serverVars, rpc, failArmed, fails, active, known>>
    PROVE  IInv'
<1> USE ConstantsAssumption DEF ConstantsAssumption
<1> DEFINE u == m.update
<1>1. TypeOK /\ RpcInv /\ BoxInv /\ NetInv /\ Tiled(log, top)  BY DEF IInv
<1>2. /\ log' = log /\ top' = top /\ zeros' = zeros /\ net' \subseteq net
      /\ rpc' = rpc /\ failArmed' = failArmed /\ fails' = fails
      /\ active' = active /\ known' = known
  BY DEF serverVars
<1>3. /\ ~w.requesting /\ w.queue = {} /\ counted = {} /\ base = 0
      /\ w \in Waiter /\ rpc \in Rpc /\ log \subseteq Update
      /\ failArmed \in BOOLEAN /\ active \in BOOLEAN /\ fails \in 0 .. MaxFails
  BY <1>1, Numbers DEF BoxInv, Unheard
<1>4. u \in Update /\ Genuine(log, top, u)  BY <1>1 DEF TypeOK, NetInv
<1>5. u.pts \in 1 .. MaxPts /\ u.pts \in Nat /\ u.pts >= 1 /\ u.count \in Nat
  BY <1>4 DEF Update
<1>6. Boundary(log, top, u.pts)
  <2>1. CASE u \in log
    BY <1>1, <1>3, <2>1 DEF Tiled, Boundary, Updates
  <2>2. CASE u \notin log  BY <1>4, <2>2 DEF Genuine
  <2> QED  BY <2>1, <2>2
<1>7. ~IsOld(w, u) /\ ~Inited(w)  BY <1>5 DEF IsOld, Inited
<1> HIDE DEF u
<1>8. Updated(w, u) = InitAt(w, u.pts) /\ Passes(w, u)
  BY <1>3, <1>7 DEF Updated, Check, Passes, CheckPasses
<1> DEFINE v == InitAt(w, u.pts)
<1>9. /\ v \in Waiter /\ v.good = u.pts /\ v.last = u.pts /\ v.count = u.pts
      /\ v.queue = {} /\ ~v.requesting
  <2>1. v = [w EXCEPT !.good = u.pts, !.last = u.pts, !.count = u.pts,
                      !.queue = {}]
    BY DEF InitAt
  <2> DEFINE I == 0 .. MaxPts
  <2>2. u.pts \in I  BY <1>5
  <2>3. {} \in SUBSET Update  OBVIOUS
  <2>4. Waiter = [good : I, last : I, count : Nat,
                  requesting : BOOLEAN, waiting : BOOLEAN, poll : BOOLEAN,
                  armed : BOOLEAN, queue : SUBSET Update]
    BY DEF Waiter
  <2> HIDE DEF I, v
  <2>5. v \in Waiter  BY <1>3, <1>5, <2>1, <2>2, <2>3, <2>4
  <2>6. v.good = u.pts /\ v.last = u.pts /\ v.count = u.pts /\ v.queue = {}
    BY <1>3, <2>1, <2>4
  <2>7. ~v.requesting  BY <1>3, <2>1, <2>4
  <2> QED  BY <2>5, <2>6, <2>7
<1> HIDE DEF v
<1>10. w' = v \/ w' = ApplySkippedUpdates(v)
  <2>1. AppliesDirectly(w, u)  BY <1>8, <1>9 DEF AppliesDirectly, v
  <2> QED
    BY <1>8, <2>1 DEF UpdateAndApply, UpdateAndApplyCount, v, u
<1>11. /\ w' \in Waiter /\ w'.good = u.pts /\ w'.last = u.pts /\ w'.count = u.pts
       /\ w'.queue = {} /\ ~w'.requesting
  <2>1. CASE w' = v  BY <1>9, <2>1
  <2>2. CASE w' = ApplySkippedUpdates(v)
    <3>1. /\ w' \in Waiters /\ w'.queue = {} /\ w'.good = v.good
          /\ w'.last = v.last /\ w'.count = v.count
          /\ (w'.requesting <=> v.requesting)
      BY <1>9, <2>2, WaiterBounds, SkippedFields
    <3>2. w' \in Waiter  BY <1>9, <3>1, WaiterBounds
    <3> QED  BY <1>9, <3>1, <3>2
  <2> QED  BY <1>10, <2>1, <2>2
<1>12. base' = u.pts  BY <1>3, <1>11 DEF FirstPts
<1>13. counted' = {}
  <2>1. counted' = {p \in counted \cup Points(u) : p > w'.good}
    BY <1>3, <1>7 DEF CountPoints, u
  <2> QED  BY <1>3, <1>5, <1>11, <2>1 DEF Points
<1>14. Complete(w', log, top, Reflected')
  BY <1>2, <1>6, <1>11, <1>12 DEF Complete, Reflected
<1>15. Counting(w', log, top, Reflected', {})
  BY <1>5, <1>6, <1>11, CountingFromPts
<1>16. BoxInv'
  <2>1. w'.good # 0 /\ base' # 0  BY <1>5, <1>11, <1>12
  <2> QED  BY <1>2, <1>11, <1>13, <1>14, <1>15, <2>1 DEF BoxInv, Unheard
<1>17. RpcInv'
  <2>1. rpc.st = "none"  BY <1>1, <1>3 DEF RpcInv
  <2> QED  BY <1>2, <2>1 DEF RpcInv
<1>18. TypeOK'
  <2>1. base' \in 0 .. MaxPts  BY <1>5, <1>12
  <2>2. counted' \subseteq 1 .. MaxPts  BY <1>13
  <2>3. {failArmed', active', known'} \subseteq BOOLEAN  BY <1>1, <1>2 DEF TypeOK
  <2> QED  BY <1>1, <1>2, <1>11, <2>1, <2>2, <2>3 DEF TypeOK
<1>19. NetInv'
  <2>1. ASSUME NEW n \in net'
        PROVE  Genuine(log', top', n.update) /\ Points(n.update) \cap counted' = {}
    BY <1>1, <1>2, <1>13 DEF NetInv
  <2>2. ASSUME NEW k \in net', NEW n \in net', k.update = n.update, k.update.count > 0
        PROVE  k = n
    BY <1>1, <1>2, <2>2 DEF NetInv
  <2> QED  BY <2>1, <2>2 DEF NetInv
<1> QED  BY <1>1, <1>2, <1>13, <1>16, <1>17, <1>18, <1>19 DEF IInv

\* An update is delivered to a waiter that looks at it.
LEMMA LookedPreserves ==
    ASSUME IInv, NEW m \in net, Looked(w, m.update), net' = net \ {m},
           Preserved(w, log, top, counted, m.update, w', Reflected'),
           counted' = Recount(w', counted, m.update), applied' \subseteq log,
           UNCHANGED <<serverVars, rpc, failArmed, fails, active, known, base>>
    PROVE  IInv'
<1> USE ConstantsAssumption DEF ConstantsAssumption
<1> DEFINE u == m.update
<1>1. /\ TypeOK /\ RpcInv /\ NetInv /\ Tiled(log, top) /\ BoxInv
      /\ \A p \in counted : p <= top
  BY DEF IInv
<1>2. /\ log' = log /\ top' = top /\ zeros' = zeros
      /\ rpc' = rpc /\ failArmed' = failArmed /\ fails' = fails
      /\ active' = active /\ known' = known /\ base' = base
  BY DEF serverVars
<1>3. /\ w' \in Waiters /\ ~w'.requesting
      /\ Complete(w', log, top, Reflected')
      /\ Counting(w', log, top, Reflected', counted')
      /\ counted' \subseteq counted \cup Points(u)
  BY DEF Preserved
<1>4. Genuine(log, top, u) /\ Points(u) \cap counted = {}  BY <1>1 DEF NetInv
<1>5. /\ top \in Nat /\ top <= MaxPts /\ log \subseteq Update
      /\ counted \subseteq Nat
  BY <1>1, Numbers
<1>6. w' \in Waiter
  <2>1. /\ w'.good \in Nat /\ w'.last \in Nat /\ w'.good <= w'.last
        /\ w'.last <= top
    BY <1>3 DEF Counting, CountsTo, Boundary
  <2>2. w'.good \in 0 .. MaxPts /\ w'.last \in 0 .. MaxPts  BY <1>5, <2>1
  <2>3. w'.queue \subseteq Update  BY <1>3, <1>5 DEF Counting
  <2> QED  BY <1>3, <2>2, <2>3, WaiterBounds
<1>7. counted' \subseteq 1 .. MaxPts /\ \A p \in counted' : p <= top'
  <2>1. /\ counted' \subseteq (w'.good + 1) .. w'.last
        /\ w'.good \in Nat /\ w'.last \in Nat /\ w'.last <= top
    BY <1>3 DEF Counting, CountsTo, Boundary
  <2> QED  BY <1>2, <1>5, <2>1
<1>8. TypeOK'
  <2>1. {failArmed', active', known'} \subseteq BOOLEAN  BY <1>1, <1>2 DEF TypeOK
  <2> QED  BY <1>1, <1>2, <1>6, <1>7, <2>1 DEF TypeOK
<1>9. BoxInv'
  <2>1. w.good # 0 /\ base # 0  BY <1>1 DEF Looked, BoxInv
  <2>2. w'.good # 0  BY <1>3 DEF Counting
  <2> QED  BY <1>2, <1>3, <2>1, <2>2 DEF BoxInv, Unheard
<1>10. RpcInv'
  <2>1. ~w.requesting  BY DEF Looked
  <2>2. rpc.st = "none"  BY <1>1, <2>1 DEF RpcInv
  <2> QED  BY <1>2, <2>2 DEF RpcInv
<1>11. NetInv'
  <2>1. ASSUME NEW n \in net'
        PROVE  Genuine(log', top', n.update) /\ Points(n.update) \cap counted' = {}
    <3>1. /\ n \in net /\ n # m /\ Genuine(log, top, n.update)
          /\ Points(n.update) \cap counted = {}
      BY <1>1 DEF NetInv
    <3>2. n.update # u \/ n.update.count = 0
      <4>1. n.update \in Updates  BY <1>1, <3>1 DEF Genuine, Tiled
      <4>2. n.update.count \in Nat  BY <4>1 DEF Updates
      <4>3. n.update = u /\ n.update.count > 0 => n = m
        BY <1>1, <3>1 DEF NetInv
      <4> QED  BY <3>1, <4>2, <4>3
    <3>3. Points(n.update) \cap Points(u) = {}
      BY <1>1, <1>4, <3>1, <3>2, DisjointPoints
    <3> QED  BY <1>2, <1>3, <3>1, <3>3
  <2>2. ASSUME NEW k \in net', NEW n \in net', k.update = n.update, k.update.count > 0
        PROVE  k = n
    BY <1>1, <2>2 DEF NetInv
  <2> QED  BY <2>1, <2>2 DEF NetInv
<1>12. Tiled(log', top')  BY <1>1, <1>2
<1> QED  BY <1>7, <1>8, <1>9, <1>10, <1>11, <1>12 DEF IInv

\* The waiter of the channel as PtsWaiterProofs sees it.
LEMMA BoxReady ==
    ASSUME IInv, NEW m \in net, ~w.requesting, w.good # 0, ~IsOld(w, m.update)
    PROVE  /\ Ready(w, log, top, Reflected, counted, m.update)
           /\ Looked(w, m.update)
<1>1. /\ TypeOK /\ NetInv /\ BoxInv /\ Tiled(log, top)  BY DEF IInv
<1>2. w \in Waiters  BY <1>1, WaiterBounds DEF TypeOK
<1>3. /\ Counting(w, log, top, Reflected, counted)
      /\ Complete(w, log, top, Reflected)
  BY <1>1 DEF BoxInv
<1>4. w.good > 0  BY <1>2, <1>3 DEF Counting, Waiters
<1>5. Looked(w, m.update)  BY <1>4 DEF Looked
<1>6. Genuine(log, top, m.update) /\ Points(m.update) \cap counted = {}
  BY <1>1 DEF NetInv
<1> QED  BY <1>1, <1>2, <1>3, <1>5, <1>6 DEF Ready

\* An update is delivered that the waiter does not count: it awaits an
\* answer, or has confirmed the update already.
LEMMA UncountedPreserves ==
    ASSUME IInv, net' \subseteq net, counted' = counted, w.good # 0, FirstPts,
           applied \subseteq applied', applied' \subseteq log,
           \/ w' = w
           \/ w.requesting /\ w' = ApplySkippedUpdates(w),
           UNCHANGED <<serverVars, rpc, failArmed, fails, active, known>>
    PROVE  IInv'
<1>1. TypeOK /\ RpcInv /\ BoxInv  BY DEF IInv
<1>2. /\ log' = log /\ top' = top /\ zeros' = zeros /\ rpc' = rpc
      /\ failArmed' = failArmed /\ fails' = fails /\ active' = active
      /\ known' = known
  BY DEF serverVars
<1>3. /\ w \in Waiter /\ rpc \in Rpc /\ failArmed \in BOOLEAN
      /\ active \in BOOLEAN /\ fails \in 0 .. MaxFails
  BY <1>1, Numbers
<1>4. base' = base  BY <1>1 DEF FirstPts, BoxInv
<1>5. CASE w' = w
  <2>1. BoxInv'  BY <1>2, <1>4, <1>5, BoxSame
  <2>2. RpcInv'  BY <1>1, <1>2, <1>5 DEF RpcInv
  <2> QED  BY <1>2, <1>3, <1>4, <1>5, <2>1, <2>2, StepPreserves
<1>6. CASE w.requesting /\ w' = ApplySkippedUpdates(w)
  <2>1. w.queue = {}  BY <1>1, <1>6 DEF BoxInv
  <2>2. /\ w' \in Waiters /\ w'.queue = {} /\ w'.good = w.good
        /\ w'.last = w.last /\ w'.requesting
    BY <1>3, <1>6, <2>1, WaiterBounds, SkippedFields
  <2>3. w' \in Waiter  BY <1>3, <2>2, WaiterBounds
  <2>4. BoxInv'  BY <1>2, <1>4, <2>2, BoxRequesting
  <2>5. RpcInv'  BY <1>1, <1>2, <2>2 DEF RpcInv
  <2> QED  BY <1>2, <1>3, <1>4, <2>3, <2>4, <2>5, StepPreserves
<1> QED  BY <1>5, <1>6

\* What is applied on top of what was reflected.
LEMMA ReflectedGrows ==
    ASSUME log' = log, base' = base, NEW a, applied' = applied \cup (a \cap log)
    PROVE  Reflected' = Reflected \cup (a \cap log)
BY DEF Reflected

LEMMA FeedPreservesBox ==
    ASSUME IInv, NEW m \in net, FeedUpdate(m)  PROVE IInv'
<1> DEFINE u == m.update
<1>1. TypeOK /\ BoxInv  BY DEF IInv
<1>2. /\ w' = UpdateAndApply(w, u) /\ ~w.requesting
      /\ applied' = applied \cup (Applied(w, u) \cap log)
      /\ CountPoints(u) /\ FirstPts /\ net' = net \ {m} /\ log' = log
      /\ UNCHANGED <<serverVars, rpc, failArmed, fails, active, known>>
  BY DEF FeedUpdate, serverVars
<1>3. applied' \subseteq log /\ applied \subseteq applied'
  BY <1>1, <1>2, Numbers
<1>4. CASE w.good = 0
  BY <1>2, <1>3, <1>4, FirstPtsPreserves
<1>5. CASE w.good # 0 /\ IsOld(w, u)
  <2>1. w' = w
    BY <1>2, <1>5 DEF UpdateAndApply, Passes, Updated
  <2>2. counted' = counted  BY <1>2, <1>5 DEF CountPoints
  <2> QED  BY <1>2, <1>3, <1>5, <2>1, <2>2, UncountedPreserves
<1>6. CASE w.good # 0 /\ ~IsOld(w, u)
  <2>1. Ready(w, log, top, Reflected, counted, u) /\ Looked(w, u)
    BY <1>2, <1>6, BoxReady
  <2>2. counted' = Recount(w', counted, u)
    BY <1>2, <1>6 DEF CountPoints, Recount
  <2>3. base' = base  BY <1>1, <1>2, <1>6 DEF FirstPts, BoxInv
  <2>4. Reflected' = Reflected \cup (Applied(w, u) \cap log)
    BY <1>2, <2>3, ReflectedGrows
  <2>5. Preserved(w, log, top, counted, u, w', Reflected')
    BY <1>2, <2>1, <2>4, FeedPreserves
  <2> QED  BY <1>2, <1>3, <2>1, <2>2, <2>3, <2>5, LookedPreserves
<1> QED  BY <1>4, <1>5, <1>6

LEMMA ResultPreserves ==
    ASSUME IInv, NEW m \in net, ResultReceived(m)  PROVE IInv'
<1> DEFINE u == m.update
<1>1. TypeOK /\ BoxInv  BY DEF IInv
<1>2. /\ w' = UpdateAndApplyCount(w, u)
      /\ applied' = applied \cup (({u} \cup AppliedByCount(w, u)) \cap log)
      /\ CountPoints(u) /\ FirstPts /\ net' = net \ {m} /\ log' = log
      /\ UNCHANGED <<serverVars, rpc, failArmed, fails, active, known>>
  BY DEF ResultReceived, serverVars
<1>3. applied' \subseteq log /\ applied \subseteq applied'
  BY <1>1, <1>2, Numbers
<1>4. CASE w.good = 0
  BY <1>2, <1>3, <1>4, FirstPtsPreserves
<1>5. CASE w.good # 0 /\ w.requesting
  <2>1. w' = ApplySkippedUpdates(w)
    BY <1>2, <1>5 DEF UpdateAndApplyCount, Passes, Updated
  <2>2. counted' = counted  BY <1>2, <1>5 DEF CountPoints
  <2> QED  BY <1>2, <1>3, <1>5, <2>1, <2>2, UncountedPreserves
<1>6. CASE w.good # 0 /\ ~w.requesting /\ IsOld(w, u)
  <2>1. w' = w
    BY <1>2, <1>6 DEF UpdateAndApplyCount, Passes, Updated
  <2>2. counted' = counted  BY <1>2, <1>6 DEF CountPoints
  <2> QED  BY <1>2, <1>3, <1>6, <2>1, <2>2, UncountedPreserves
<1>7. CASE w.good # 0 /\ ~w.requesting /\ ~IsOld(w, u)
  <2>1. Ready(w, log, top, Reflected, counted, u) /\ Looked(w, u)
    BY <1>7, BoxReady
  <2>2. counted' = Recount(w', counted, u)
    BY <1>2, <1>7 DEF CountPoints, Recount
  <2>3. base' = base  BY <1>1, <1>2, <1>7 DEF FirstPts, BoxInv
  <2>4. Reflected' = Reflected \cup (({u} \cup AppliedByCount(w, u)) \cap log)
    BY <1>2, <2>3, ReflectedGrows
  <2>5. Preserved(w, log, top, counted, u, w', Reflected')
    BY <1>2, <2>1, <2>4, CountPreserves
  <2> QED  BY <1>2, <1>3, <2>1, <2>2, <2>3, <2>5, LookedPreserves
<1> QED  BY <1>4, <1>5, <1>6, <1>7
-----------------------------------------------------------------------------
LEMMA NextPreserves ==
    ASSUME IInv, [Next]_vars  PROVE IInv'
<1>0. active \in BOOLEAN  BY Numbers DEF IInv
<1>1. CASE \E c \in Counts, via \in {"push", "result"} : Publish(c, via)
  BY <1>1, PublishPreserves
<1>2. CASE PublishPts  BY <1>2, PublishPtsPreserves
<1>3. ASSUME NEW m \in net, LosePush(m) \/ UpdateSkipped(m)  PROVE IInv'
  BY <1>0, <1>3, IdlePreserves
  DEF LosePush, UpdateSkipped, clientVars, serverVars
<1>4. ASSUME NEW m \in net, FeedUpdate(m) \/ ResultReceived(m)  PROVE IInv'
  BY <1>4, FeedPreservesBox, ResultPreserves
<1>5. CASE ServerAnswers \/ ServerAnswersError  BY <1>5, AnswerPreserves
<1>6. CASE GotAnswer
  BY <1>6, GotPreserves, FailPreserves DEF GotAnswer
<1>7. CASE ChannelTooLong \/ GetDifferenceByPts \/ GetDifferenceAfterFail
  BY <1>7, AskPreserves
  DEF ChannelTooLong, GetDifferenceByPts, GetDifferenceAfterFail
<1>8. CASE ShowChannel \/ LeaveChannel
  <2>1. active' \in BOOLEAN  BY <1>8 DEF ShowChannel, LeaveChannel
  <2> QED  BY <1>8, <2>1, PollPreserves DEF ShowChannel, LeaveChannel
<1>9. CASE HideChannel
  <2>1. active' \in BOOLEAN  BY <1>9 DEF HideChannel
  <2> QED  BY <1>9, <2>1, IdlePreserves DEF HideChannel
<1>10. CASE UNCHANGED vars
  BY <1>0, <1>10, IdlePreserves DEF vars, serverVars
<1> QED
  BY <1>1, <1>2, <1>3, <1>4, <1>5, <1>6, <1>7, <1>8, <1>9, <1>10
  DEF Next, Deliver

\* The inductive invariant holds in every reachable state of a channel's box.
THEOREM ChannelInductiveInvariant == Spec => []IInv
<1>1. IInv /\ [Next]_vars => IInv'  BY NextPreserves
<1> QED  BY <1>1, InitEstablishes, PTL DEF Spec

\* Every variable of the channel's box, of its request and of the server
\* keeps its type.
THEOREM ChannelTypeCorrect == Spec => []TypeOK
<1>1. IInv => TypeOK  BY DEF IInv
<1> QED  BY <1>1, ChannelInductiveInvariant, PTL

\* No update of a channel is left behind between the first pts it was given
\* and the confirmed one, in whatever order pushes, results and the parts of
\* a difference arrive and whichever of them are lost or skipped.
THEOREM ChannelNothingSkipped == Spec => []NoGap
<1>1. IInv => NoGap
  <2> SUFFICES ASSUME IInv, NEW u \in log, base < u.pts, u.pts <= w.good
               PROVE  u \in applied
    BY DEF NoGap
  <2>1. TypeOK /\ BoxInv  BY DEF IInv
  <2>2. u \in Reflected  BY <2>1 DEF BoxInv, Complete
  <2>3. u.pts \in Nat /\ base \in Nat  BY <2>1, Numbers DEF Update
  <2>4. ~(u.pts <= base)  BY <2>3
  <2> QED  BY <2>2, <2>4 DEF Reflected
<1> QED  BY <1>1, ChannelInductiveInvariant, PTL

\* The short poll of the chat on screen shares its deadline with the gap:
\* starting or stopping it never leaves an update held back without one.
THEOREM ChannelQueueWatched == Spec => []HeldBackIsWatched
<1>1. IInv => HeldBackIsWatched
  BY DEF IInv, BoxInv, Unheard, Counting, HeldBackIsWatched
<1> QED  BY <1>1, ChannelInductiveInvariant, PTL
=============================================================================
