-------------------------- MODULE MtpSessionProofs --------------------------
(***************************************************************************)
(* Proofs about one MTProto session, for every set of requests, every size *)
(* of _wereAcked and all bounds of a behaviour.                            *)
(*                                                                         *)
(* Three invariants follow from four.  Shape says of which fields the      *)
(* variables are made.  Handling is about the handler of a request and the *)
(* main thread.  Naming is about message ids: whatever the two threads,    *)
(* the network and the server hold under the id of a request is of the     *)
(* request that keeps this id.  Keeping is about where a request is whose  *)
(* handler waits; between the two steps of rpc_result it may be nowhere    *)
(* but in _wereAcked or _toResend.                                         *)
(*                                                                         *)
(* The ids of the messages of the server, by which a repeated one is       *)
(* recognised, come last; they share no state with the requests.           *)
(***************************************************************************)
EXTENDS MtpSession, ReceivedIds, FiniteSetTheorems, TLAPS

\* The fields of the records the variables hold.
DataShape(x) ==
    x = [toSend |-> x.toSend, haveSent |-> x.haveSent, toResend |-> x.toResend,
         wereAcked |-> x.wereAcked, responses |-> x.responses,
         stateRequest |-> x.stateRequest]

MainShape ==
    main = [pc |-> main.pc, stack |-> main.stack, id |-> main.id, r |-> main.r,
            force |-> main.force]

ConnShape ==
    conn = [up |-> conn.up, restarted |-> conn.restarted, pc |-> conn.pc,
            id |-> conn.id, r |-> conn.r, acks |-> conn.acks]

ServerShape ==
    server = [seen |-> server.seen, taken |-> server.taken,
              answers |-> server.answers, due |-> server.due]

CountShape ==
    count = [breaks |-> count.breaks, rejects |-> count.rejects,
             forgets |-> count.forgets, timers |-> count.timers]

HistShape ==
    hist = [started |-> hist.started, cancelled |-> hist.cancelled,
            failed |-> hist.failed, handled |-> hist.handled,
            executed |-> hist.executed, lost |-> hist.lost]

Shape ==
    /\ DataShape(d) /\ MainShape /\ ConnShape /\ ServerShape /\ CountShape
    /\ HistShape

-----------------------------------------------------------------------------
(* The handlers. *)

\* What the handler of one request was called with, if it was.
HandlerOf(r) ==
    /\ r \in parser => r \in hist.started /\ hist.handled[r] = 0 /\ r \notin hist.failed
    /\ hist.handled[r] <= 1
    /\ r \in hist.failed => r \in hist.started /\ hist.handled[r] = 0
    /\ r \notin hist.started => hist.handled[r] = 0
    /\ r \in hist.cancelled => r \in hist.started
    /\ r \in hist.cancelled /\ r \in parser => main.pc = "cancel" /\ main.r = r

Handling ==
    /\ parser \subseteq Reqs
    /\ hist.handled \in [Reqs -> Nat]
    /\ \A r \in Reqs : HandlerOf(r)

-----------------------------------------------------------------------------
(* The message ids. *)

\* The id i is the one that request r got and keeps.
Named(i, r) == /\ r \in Reqs /\ r \in hist.started
               /\ i = mid[r] /\ i # 0

\* A message of a request, or what a map says of its id.
NamedPair(p) == p = <<p[1], p[2]>> /\ Named(p[1], p[2])
AllNamed(S) == \A p \in S : NamedPair(p)

\* An id that was given to a container or a state request.
Other(i) == i \in Nat /\ i < nextId /\ i # 0 /\ \A r \in Reqs : mid[r] # i

NamedEntry(e) ==
    \/ e.kind = "request" /\ Named(e.id, e.r)
    \/ e.kind \in {"container", "state"} /\ Other(e.id)

\* The ids that requests have: given out before, and no two the same.
Ids ==
    /\ nextId \in Nat /\ nextId # 0
    /\ mid \in [Reqs -> Nat]
    /\ \A r \in Reqs : mid[r] < nextId
    /\ \A r, q \in Reqs : mid[r] = mid[q] /\ mid[r] # 0 => r = q

NamedData(x) ==
    /\ x.toSend \subseteq Reqs /\ x.toSend \subseteq hist.started
    /\ \A e \in x.haveSent : NamedEntry(e)
    /\ AllNamed(x.toResend) /\ AllNamed(x.wereAcked)

\* What the main thread holds between the locks of resend and of cancel.
NamedMain ==
    /\ main.pc \in {"taken", "queued"} => Named(main.id, main.r)
    /\ main.pc = "cancel" => main.r \in Reqs /\ main.r \in hist.started
                             /\ main.id \in {0, mid[main.r]}

\* What the connection thread holds between its locks.
NamedConn ==
    /\ conn.pc = "single" => conn.r \in Reqs /\ conn.r \in hist.started
    /\ conn.pc = "result" => Named(conn.id, conn.r)

NamedServer ==
    /\ \A p \in c2s : AllNamed(p.msgs)
    /\ AllNamed(server.answers) /\ AllNamed(server.due)

Naming ==
    /\ Ids /\ hist.started \subseteq Reqs
    /\ NamedData(d) /\ NamedMain /\ NamedConn /\ NamedServer

-----------------------------------------------------------------------------
(* What the server executed. *)

\* Until somebody forgets the session the server knows the id of everything
\* it executed.
ExecutedKnown(r) ==
    \/ hist.executed[r] = 0
    \/ hist.executed[r] = 1 /\ r \in hist.started /\ mid[r] # 0 /\ mid[r] \in server.seen

Executing ==
    /\ hist.executed \in [Reqs -> Nat]
    /\ count.forgets \in Nat
    /\ count.forgets = 0 => \A r \in Reqs : ExecutedKnown(r)

-----------------------------------------------------------------------------
(* Where a request is whose handler waits. *)

\* Without what the connection thread holds.
Held(r) ==
    \/ r \in d.toSend \/ r \in d.responses \/ r \in clears
    \/ \E e \in d.haveSent : e.kind = "request" /\ e.r = r
    \/ main.pc \in {"taken", "cancel"} /\ main.r = r

\* Between the two steps of rpc_result: known to wasSent, or held.
ResultKnown ==
    conn.pc = "result" /\ conn.r \in parser =>
        \/ Held(conn.r)
        \/ <<conn.id, conn.r>> \in d.wereAcked
        \/ <<conn.id, conn.r>> \in d.toResend

Keeping == NoneForgotten /\ ResultKnown

IInv == Shape /\ Handling /\ Naming /\ Executing /\ Keeping
-----------------------------------------------------------------------------
(* Shape. *)

\* What acknowledgements put into _wereAcked.
AckedPairs(x, ids, by) ==
    {<<e.id, e.r>> : e \in {s \in AckedSent(x, ids, by) : IsRequest(s)}}
        \cup {p \in AckedAgain(x, ids, by) : p[2] \in x.toSend}

AckedToSend(x, ids, by) == {p[2] : p \in AckedAgain(x, ids, by)}

Fields(t, h, s, w, p, q) ==
    [toSend |-> t, haveSent |-> h, toResend |-> s, wereAcked |-> w,
     responses |-> p, stateRequest |-> q]

LEMMA ReplacedInTurn ==
    ASSUME NEW f, NEW a, NEW b, NEW c, NEW e
    PROVE  [f EXCEPT !.haveSent = a, !.toResend = b, !.toSend = c, !.wereAcked = e]
           = [[[[f EXCEPT !.haveSent = a] EXCEPT !.toResend = b]
                 EXCEPT !.toSend = c] EXCEPT !.wereAcked = e]
OBVIOUS

\* The loop, field by field.
LEMMA AckAllIs ==
    ASSUME NEW x, DataShape(x), NEW ids, NEW by
    PROVE  AckAll(x, ids, by) =
               [toSend |-> x.toSend \ AckedToSend(x, ids, by),
                haveSent |-> x.haveSent \ AckedSent(x, ids, by),
                toResend |-> x.toResend \ AckedAgain(x, ids, by),
                wereAcked |-> x.wereAcked \cup AckedPairs(x, ids, by),
                responses |-> x.responses, stateRequest |-> x.stateRequest]
<1> DEFINE sent == AckedSent(x, ids, by)
           again == AckedAgain(x, ids, by)
           a == x.haveSent \ sent
           b == x.toResend \ again
           c == x.toSend \ AckedToSend(x, ids, by)
           w == x.wereAcked \cup AckedPairs(x, ids, by)
           w1 == x.wereAcked \cup {<<e.id, e.r>> : e \in {s \in sent : IsRequest(s)}}
                             \cup {p \in again : p[2] \in x.toSend}
           c1 == x.toSend \ {p[2] : p \in again}
<1>1. AckAll(x, ids, by) = [x EXCEPT !.haveSent = a, !.toResend = b,
                                     !.toSend = c1, !.wereAcked = w1]
      BY Zenon DEF AckAll
<1>2. c1 = c  BY Zenon DEF AckedToSend
<1>3. w1 = w
  <2>1. AckedPairs(x, ids, by) =
            {<<e.id, e.r>> : e \in {s \in sent : IsRequest(s)}}
                \cup {p \in again : p[2] \in x.toSend}
        BY Zenon DEF AckedPairs
  <2> HIDE DEF sent, again
  <2> DEFINE s1 == {<<e.id, e.r>> : e \in {s \in sent : IsRequest(s)}}
             s2 == {p \in again : p[2] \in x.toSend}
  <2>2. AckedPairs(x, ids, by) = s1 \cup s2  BY Zenon, <2>1
  <2> HIDE DEF s1, s2
  <2>3. x.wereAcked \cup s1 \cup s2 = x.wereAcked \cup (s1 \cup s2)  OBVIOUS
  <2> QED  BY Zenon, <2>2, <2>3 DEF s1, s2
<1> HIDE DEF a, b, c, w, w1, c1
<1>4. [x EXCEPT !.haveSent = a, !.toResend = b, !.toSend = c, !.wereAcked = w]
      = Fields(c, a, b, w, x.responses, x.stateRequest)
  <2> DEFINE x1 == Fields(x.toSend, x.haveSent, x.toResend, x.wereAcked,
                          x.responses, x.stateRequest)
             x2 == Fields(x.toSend, a, x.toResend, x.wereAcked,
                          x.responses, x.stateRequest)
             x3 == Fields(x.toSend, a, b, x.wereAcked, x.responses, x.stateRequest)
             x4 == Fields(c, a, b, x.wereAcked, x.responses, x.stateRequest)
  <2>1. x = x1  BY Zenon DEF DataShape, Fields
  <2>2. [x1 EXCEPT !.haveSent = a] = x2  BY DEF Fields
  <2>3. [x2 EXCEPT !.toResend = b] = x3  BY DEF Fields
  <2>4. [x3 EXCEPT !.toSend = c] = x4  BY DEF Fields
  <2>5. [x4 EXCEPT !.wereAcked = w]
        = Fields(c, a, b, w, x.responses, x.stateRequest)
        BY DEF Fields
  <2>6. [x EXCEPT !.haveSent = a, !.toResend = b, !.toSend = c, !.wereAcked = w]
        = [[[[x EXCEPT !.haveSent = a] EXCEPT !.toResend = b]
              EXCEPT !.toSend = c] EXCEPT !.wereAcked = w]
        BY Zenon, ReplacedInTurn
  <2> HIDE DEF x1, x2, x3, x4
  <2> QED  BY <2>1, <2>2, <2>3, <2>4, <2>5, <2>6
<1> QED  BY Zenon, <1>1, <1>2, <1>3, <1>4 DEF a, b, c, w, sent, again, Fields

LEMMA AckAllShape ==
    ASSUME NEW x, DataShape(x), NEW ids, NEW by
    PROVE  DataShape(AckAll(x, ids, by))
BY AckAllIs DEF DataShape

\* The two rounds of requestsAcked, the second for what containers hold.
Contained(ids) ==
    UNION {e.ids : e \in {x \in d.haveSent : x.id \in ids /\ x.kind = "container"}}

Trimmed(x) == [x EXCEPT !.wereAcked = @ \ TooOld(x.wereAcked)]

Round1(ids, by) == AckAll(d, ids, by)
Round2(ids, by) == AckAll(Trimmed(Round1(ids, by)), Contained(ids), FALSE)

LEMMA AckedIs ==
    ASSUME NEW ids, NEW by, Acked(ids, by)
    PROVE  /\ d' = Trimmed(Round2(ids, by))
           /\ clears' = clears \cup {p[2] : p \in TooOld(Round1(ids, by).wereAcked)
                                               \cup TooOld(Round2(ids, by).wereAcked)}
<1>1. requestsAcked(ids, by) =
          [data |-> Trimmed(Round2(ids, by)),
           old |-> TooOld(Round1(ids, by).wereAcked) \cup TooOld(Round2(ids, by).wereAcked)]
      BY Zenon DEF requestsAcked, Trimmed, Round1, Round2, Contained
<1> QED  BY <1>1 DEF Acked

LEMMA AckedShape ==
    ASSUME DataShape(d), NEW ids, NEW by, Acked(ids, by)
    PROVE  /\ DataShape(Round1(ids, by)) /\ DataShape(Round2(ids, by))
           /\ DataShape(Trimmed(Round1(ids, by))) /\ DataShape(d')
<1>1. DataShape(Round1(ids, by))  BY Zenon, AckAllShape DEF Round1
<1>2. DataShape(Trimmed(Round1(ids, by)))  BY <1>1 DEF Trimmed, DataShape
<1>3. DataShape(Round2(ids, by))  BY Zenon, <1>2, AckAllShape DEF Round2
<1>4. DataShape(Trimmed(Round2(ids, by)))  BY <1>3 DEF Trimmed, DataShape
<1> QED  BY <1>1, <1>2, <1>3, <1>4, AckedIs

LEMMA ShapeInit == Init => Shape
BY DEF Init, Shape, DataShape, MainShape, ConnShape, ServerShape, CountShape,
       HistShape, Idle, ConnIdle, NewServer

LEMMA ShapeStep == Shape /\ [Next]_vars => Shape'
<1> SUFFICES ASSUME Shape, [Next]_vars  PROVE Shape'
    OBVIOUS
<1> USE DEF Shape, DataShape, MainShape, ConnShape, ServerShape, CountShape,
            HistShape
<1>1. ASSUME NEW r \in Reqs, SendRequest(r)  PROVE Shape'
      BY <1>1 DEF SendRequest
<1>2. CASE resendStart  BY <1>2 DEF resendStart
<1>3. CASE resendTake  BY <1>3 DEF resendTake
<1>4. CASE resendQueue  BY <1>4 DEF resendQueue
<1>5. CASE resendMark  BY <1>5 DEF resendMark, Idle
<1>6. CASE checkRequestsByTimer  BY <1>6 DEF checkRequestsByTimer
<1>7. ASSUME NEW r \in Reqs, cancelToSend(r)  PROVE Shape'
      BY <1>7 DEF cancelToSend
<1>8. CASE cancelHaveSent  BY <1>8 DEF cancelHaveSent, Idle
<1>9. CASE tryToReceive  BY <1>9 DEF tryToReceive
<1>10. ASSUME NEW r \in clears, clearCallbacks(r)  PROVE Shape'
       BY <1>10 DEF clearCallbacks
<1>11. CASE sendSingleTake  BY <1>11 DEF sendSingleTake
<1>12. CASE sendSingle  BY <1>12 DEF sendSingle
<1>13. CASE sendService  BY <1>13 DEF sendService
<1>14. CASE sendContainer  BY <1>14 DEF sendContainer
<1>15. ASSUME NEW id, handleAck(id)  PROVE Shape'
       BY <1>15, AckedShape DEF handleAck
<1>16. ASSUME NEW id, handleResultAck(id)  PROVE Shape'
       BY <1>16, AckedShape DEF handleResultAck
<1>17. CASE handleResult  BY <1>17 DEF handleResult
<1>18. ASSUME NEW m \in s2c, handleRejected(m)  PROVE Shape'
       BY <1>18 DEF handleRejected
<1>19. ASSUME NEW m \in s2c, handleFatal(m)  PROVE Shape'
       BY <1>19 DEF handleFatal
<1>20. ASSUME NEW m \in s2c, handleReset(m)  PROVE Shape'
  <2>1. CASE wasSent(m.id) = 0  BY <1>20, <2>1 DEF handleReset
  <2>2. CASE wasSent(m.id) # 0  BY <1>20, <2>2 DEF handleReset, NewServer
  <2> QED  BY <2>1, <2>2
<1>21. ASSUME NEW m \in s2c, handleMsgsStates(m)  PROVE Shape'
       BY <1>21, AckedShape DEF handleMsgsStates
<1>22. ASSUME NEW m \in s2c, handleNewSession(m)  PROVE Shape'
       BY <1>22 DEF handleNewSession
<1>23. CASE restart  BY <1>23 DEF restart
<1>24. CASE authKeyCreated  BY <1>24 DEF authKeyCreated
<1>25. ASSUME NEW p \in c2s, NEW forgets \in BOOLEAN, serverTake(p, forgets)
       PROVE Shape'
       BY <1>25 DEF serverTake, NewServer
<1>26. ASSUME NEW p \in c2s, NEW how \in limit.how, serverReject(p, how)
       PROVE Shape'
       BY <1>26 DEF serverReject
<1>27. CASE UNCHANGED vars  BY <1>27 DEF vars
<1> QED
    BY <1>1, <1>2, <1>3, <1>4, <1>5, <1>6, <1>7, <1>8, <1>9, <1>10, <1>11,
       <1>12, <1>13, <1>14, <1>15, <1>16, <1>17, <1>18, <1>19, <1>20, <1>21,
       <1>22, <1>23, <1>24, <1>25, <1>26, <1>27
    DEF Next, resend, cancel, tryToSend, handleMessage, deliver, serverStep
-----------------------------------------------------------------------------
(* Handlers. *)

LEMMA HandlingInit == Init => Handling
<1> SUFFICES ASSUME Init  PROVE Handling
    OBVIOUS
<1>1. /\ parser = {} /\ hist.started = {} /\ hist.cancelled = {} /\ hist.failed = {}
      /\ hist.handled = [r \in Reqs |-> 0]
      BY DEF Init
<1> QED  BY <1>1 DEF Handling, HandlerOf

\* A step that leaves the handlers and the main thread alone.
LEMMA HandlingKept ==
    ASSUME Handling, parser' = parser, main' = main,
           hist'.started = hist.started, hist'.cancelled = hist.cancelled,
           hist'.failed = hist.failed, hist'.handled = hist.handled
    PROVE  Handling'
BY DEF Handling, HandlerOf

\* A step of the main thread outside cancel.
LEMMA HandlingElsewhere ==
    ASSUME Handling, parser' = parser, hist' = hist, main.pc # "cancel"
    PROVE  Handling'
BY DEF Handling, HandlerOf

LEMMA HandlingSendRequest ==
    ASSUME Shape, Handling, NEW r \in Reqs, SendRequest(r)
    PROVE  Handling'
<1>1. /\ r \notin hist.started /\ main.pc = "idle" /\ main' = main
      /\ parser' \subseteq parser \cup {r}
      BY DEF SendRequest, MainFree
<1>2. /\ hist'.started = hist.started \cup {r} /\ hist'.cancelled = hist.cancelled
      /\ hist'.failed = hist.failed /\ hist'.handled = hist.handled
      BY DEF SendRequest, Shape, HistShape
<1> QED  BY <1>1, <1>2 DEF Handling, HandlerOf

LEMMA HandlingCancel ==
    ASSUME Shape, Handling, NEW r \in Reqs, cancelToSend(r)
    PROVE  Handling'
<1>1. /\ r \in hist.started /\ r \notin hist.cancelled /\ main.pc = "idle"
      /\ parser' = parser
      BY DEF cancelToSend, MainFree
<1>2. /\ hist'.started = hist.started /\ hist'.cancelled = hist.cancelled \cup {r}
      /\ hist'.failed = hist.failed /\ hist'.handled = hist.handled
      /\ main'.pc = "cancel" /\ main'.r = r
      BY DEF cancelToSend, Shape, HistShape, MainShape
<1> QED  BY <1>1, <1>2 DEF Handling, HandlerOf

LEMMA HandlingCancelled ==
    ASSUME Shape, Handling, cancelHaveSent
    PROVE  Handling'
<1>1. /\ parser' = parser \ {main.r} /\ hist' = hist
      BY DEF cancelHaveSent
<1> QED  BY <1>1 DEF Handling, HandlerOf

LEMMA HandlingReceive ==
    ASSUME Shape, Handling, tryToReceive
    PROVE  Handling'
<1> DEFINE r == Min(d.responses)
<1>1. /\ parser' = parser \ {r} /\ main' = main
      /\ hist' = IF r \in parser THEN [hist EXCEPT !.handled[r] = @ + 1] ELSE hist
      BY DEF tryToReceive, TakeParser
<1> HIDE DEF r
<1>2. CASE r \in parser
  <2>1. /\ hist'.started = hist.started /\ hist'.cancelled = hist.cancelled
        /\ hist'.failed = hist.failed
        /\ hist'.handled = [hist.handled EXCEPT ![r] = @ + 1]
        BY <1>1, <1>2 DEF Shape, HistShape
  <2>2. r \in Reqs /\ hist.handled[r] = 0 /\ r \notin hist.failed /\ r \in hist.started
        BY <1>2 DEF Handling, HandlerOf
  <2>3. hist'.handled \in [Reqs -> Nat] /\ hist'.handled[r] = 1
        BY <2>1, <2>2 DEF Handling
  <2>4. ASSUME NEW q \in Reqs, q # r  PROVE hist'.handled[q] = hist.handled[q]
        BY <2>1, <2>4 DEF Handling
  <2> QED  BY <1>1, <2>1, <2>2, <2>3, <2>4 DEF Handling, HandlerOf
<1>3. CASE r \notin parser
      BY <1>1, <1>3, HandlingKept
<1> QED  BY <1>2, <1>3

LEMMA HandlingClear ==
    ASSUME Shape, Handling, NEW r \in clears, clearCallbacks(r)
    PROVE  Handling'
<1>1. /\ parser' = parser \ {r} /\ main' = main
      BY DEF clearCallbacks
<1>2. /\ hist'.started = hist.started /\ hist'.cancelled = hist.cancelled
      /\ hist'.failed = hist.failed \cup ({r} \cap parser)
      /\ hist'.handled = hist.handled
      BY DEF clearCallbacks, FailedHandler, Shape, HistShape
<1> QED  BY <1>1, <1>2 DEF Handling, HandlerOf

LEMMA HandlingStep == Shape /\ Handling /\ [Next]_vars => Handling'
<1> SUFFICES ASSUME Shape, Handling, [Next]_vars  PROVE Handling'
    OBVIOUS
<1> USE DEF Shape
<1>1. ASSUME NEW r \in Reqs, SendRequest(r)  PROVE Handling'
      BY <1>1, HandlingSendRequest
<1>2. CASE resendStart  BY <1>2, HandlingElsewhere DEF resendStart, MainFree
<1>3. CASE resendTake  BY <1>3, HandlingElsewhere DEF resendTake
<1>4. CASE resendQueue  BY <1>4, HandlingElsewhere DEF resendQueue
<1>5. CASE resendMark  BY <1>5, HandlingElsewhere DEF resendMark
<1>6. CASE checkRequestsByTimer  BY <1>6, HandlingKept DEF checkRequestsByTimer
<1>7. ASSUME NEW r \in Reqs, cancelToSend(r)  PROVE Handling'
      BY <1>7, HandlingCancel
<1>8. CASE cancelHaveSent  BY <1>8, HandlingCancelled
<1>9. CASE tryToReceive  BY <1>9, HandlingReceive
<1>10. ASSUME NEW r \in clears, clearCallbacks(r)  PROVE Handling'
       BY <1>10, HandlingClear
<1>11. CASE sendSingleTake  BY <1>11, HandlingKept DEF sendSingleTake
<1>12. CASE sendSingle  BY <1>12, HandlingKept DEF sendSingle
<1>13. CASE sendService  BY <1>13, HandlingKept DEF sendService
<1>14. CASE sendContainer  BY <1>14, HandlingKept DEF sendContainer
<1>15. ASSUME NEW id, handleAck(id)  PROVE Handling'
       BY <1>15, HandlingKept DEF handleAck
<1>16. ASSUME NEW id, handleResultAck(id)  PROVE Handling'
       BY <1>16, HandlingKept DEF handleResultAck
<1>17. CASE handleResult
  <2>1. /\ parser' = parser /\ main' = main
        /\ hist'.started = hist.started /\ hist'.cancelled = hist.cancelled
        /\ hist'.failed = hist.failed /\ hist'.handled = hist.handled
        BY <1>17 DEF handleResult, HistShape
  <2> QED  BY <2>1, HandlingKept
<1>18. ASSUME NEW m \in s2c, handleRejected(m)  PROVE Handling'
       BY <1>18, HandlingKept DEF handleRejected
<1>19. ASSUME NEW m \in s2c, handleFatal(m)  PROVE Handling'
       BY <1>19, HandlingKept DEF handleFatal
<1>20. ASSUME NEW m \in s2c, handleReset(m)  PROVE Handling'
       BY <1>20, HandlingKept DEF handleReset
<1>21. ASSUME NEW m \in s2c, handleMsgsStates(m)  PROVE Handling'
       BY <1>21, HandlingKept DEF handleMsgsStates
<1>22. ASSUME NEW m \in s2c, handleNewSession(m)  PROVE Handling'
       BY <1>22, HandlingKept DEF handleNewSession
<1>23. CASE restart  BY <1>23, HandlingKept DEF restart
<1>24. CASE authKeyCreated  BY <1>24, HandlingKept DEF authKeyCreated
<1>25. ASSUME NEW p \in c2s, NEW forgets \in BOOLEAN, serverTake(p, forgets)
       PROVE Handling'
  <2>1. /\ parser' = parser /\ main' = main
        /\ hist'.started = hist.started /\ hist'.cancelled = hist.cancelled
        /\ hist'.failed = hist.failed /\ hist'.handled = hist.handled
        BY <1>25 DEF serverTake, HistShape
  <2> QED  BY <2>1, HandlingKept
<1>26. ASSUME NEW p \in c2s, NEW how \in limit.how, serverReject(p, how)
       PROVE Handling'
       BY <1>26, HandlingKept DEF serverReject
<1>27. CASE UNCHANGED vars  BY <1>27, HandlingKept DEF vars
<1> QED
    BY <1>1, <1>2, <1>3, <1>4, <1>5, <1>6, <1>7, <1>8, <1>9, <1>10, <1>11,
       <1>12, <1>13, <1>14, <1>15, <1>16, <1>17, <1>18, <1>19, <1>20, <1>21,
       <1>22, <1>23, <1>24, <1>25, <1>26, <1>27
    DEF Next, resend, cancel, tryToSend, handleMessage, deliver, serverStep

LEMMA HandlingHolds == Spec => []Handling
<1>1. Spec => [](Shape)
  <2>1. Init => Shape  BY ShapeInit
  <2> QED  BY <2>1, ShapeStep, PTL DEF Spec
<1> QED  BY <1>1, HandlingInit, HandlingStep, PTL DEF Spec

\* A handler is called once: tryToReceive and clearCallbacks take it out of
\* _parserMap before they call it, and a cancelled request has none; for any
\* number of requests, answers and rejections, in whatever order the two
\* threads run.
THEOREM HandlerCalledOnce == Spec => []HandledOnce
<1>1. Handling => HandledOnce
  <2> SUFFICES ASSUME Handling, NEW r \in Reqs
               PROVE  /\ hist.handled[r] <= 1
                      /\ r \in hist.failed => hist.handled[r] = 0
                      /\ r \in hist.cancelled /\ main.pc # "cancel" => r \notin parser
      BY DEF HandledOnce
  <2> QED  BY DEF Handling, HandlerOf
<1> QED  BY <1>1, HandlingHolds, PTL
-----------------------------------------------------------------------------
(* Message ids. *)

\* What a step may do to the ids: give out new ones.
MoreNames ==
    /\ nextId' \in Nat /\ nextId <= nextId'
    /\ hist.started \subseteq hist'.started
    /\ \A q \in Reqs :
          \/ mid'[q] = mid[q]
          \/ /\ mid[q] = 0 \/ q \notin hist.started
             /\ mid'[q] = 0 \/ nextId <= mid'[q]

LEMMA SameNames ==
    ASSUME Ids, mid' = mid, nextId' = nextId, hist'.started = hist.started
    PROVE  MoreNames /\ Ids'
BY DEF Ids, MoreNames

LEMMA NamedKept ==
    ASSUME MoreNames, NEW i, NEW r, Named(i, r)
    PROVE  Named(i, r)'
BY DEF MoreNames, Named

LEMMA OtherKept ==
    ASSUME Ids, MoreNames, NEW i, Other(i)
    PROVE  Other(i)'
BY DEF Ids, MoreNames, Other

LEMMA EntryKept ==
    ASSUME Ids, MoreNames, NEW e, NamedEntry(e)
    PROVE  NamedEntry(e)'
BY NamedKept, OtherKept DEF NamedEntry

LEMMA AllKept ==
    ASSUME MoreNames, NEW S, AllNamed(S)
    PROVE  AllNamed(S)'
BY NamedKept DEF AllNamed, NamedPair

LEMMA DataKept ==
    ASSUME Ids, MoreNames, NEW x, NamedData(x)
    PROVE  NamedData(x)'
<1>1. \A e \in x.haveSent : NamedEntry(e)'  BY EntryKept DEF NamedData
<1>2. AllNamed(x.toResend)' /\ AllNamed(x.wereAcked)'  BY AllKept DEF NamedData
<1>3. x.toSend \subseteq hist'.started  BY DEF NamedData, MoreNames
<1> QED  BY <1>1, <1>2, <1>3 DEF NamedData

LEMMA MainKept ==
    ASSUME Ids, MoreNames, NamedMain, main' = main
    PROVE  NamedMain'
<1>1. main.pc \in {"taken", "queued"} => Named(main.id, main.r)'
      BY NamedKept DEF NamedMain
<1>2. main.pc = "cancel" => main.id \in {0, mid'[main.r]} /\ main.r \in hist'.started
                            /\ main.r \in Reqs
      BY DEF NamedMain, MoreNames
<1> QED  BY <1>1, <1>2 DEF NamedMain, Named

LEMMA ConnKept ==
    ASSUME Ids, MoreNames, NamedConn, conn'.pc = conn.pc, conn'.id = conn.id,
           conn'.r = conn.r
    PROVE  NamedConn'
<1>1. conn.pc = "result" => Named(conn.id, conn.r)'
      BY NamedKept DEF NamedConn
<1>2. conn.pc = "single" => conn.r \in Reqs /\ conn.r \in hist'.started
      BY DEF NamedConn, MoreNames
<1> QED  BY <1>1, <1>2 DEF NamedConn, Named

LEMMA ServerKept ==
    ASSUME Ids, MoreNames, NamedServer, c2s' \subseteq c2s,
           server'.answers \subseteq server.answers,
           server'.due \subseteq server.answers \cup server.due
    PROVE  NamedServer'
<1>1. \A p \in c2s' : AllNamed(p.msgs)'  BY AllKept DEF NamedServer
<1>3. \A p \in server.answers \cup server.due : NamedPair(p)
      BY DEF NamedServer, AllNamed
<1>4. \A p \in server'.answers \cup server'.due : NamedPair(p)'
      BY <1>3, NamedKept DEF NamedPair
<1> QED  BY <1>1, <1>4 DEF NamedServer, AllNamed

\* SessionData after some of it went, or was acknowledged.
LEMMA DataShrunk ==
    ASSUME NEW x, NEW y, NamedData(x),
           y.toSend \subseteq x.toSend, y.haveSent \subseteq x.haveSent,
           y.toResend \subseteq x.toResend,
           \A p \in y.wereAcked :
              p \in x.wereAcked \/ p \in x.toResend
              \/ \E e \in x.haveSent : e.kind = "request" /\ p = <<e.id, e.r>>
    PROVE  NamedData(y)
<1>1. ASSUME NEW p \in y.wereAcked  PROVE NamedPair(p)
  <2>1. CASE p \in x.wereAcked \/ p \in x.toResend
        BY <2>1 DEF NamedData, AllNamed
  <2>2. ASSUME NEW e \in x.haveSent, e.kind = "request", p = <<e.id, e.r>>
        PROVE  NamedPair(p)
        BY <2>2 DEF NamedData, NamedEntry, NamedPair
  <2> QED  BY <1>1, <2>1, <2>2
<1>2. AllNamed(y.wereAcked) /\ AllNamed(y.toResend)
      BY <1>1 DEF NamedData, AllNamed
<1> QED  BY <1>2 DEF NamedData

LEMMA AckedPairsFrom ==
    ASSUME NEW x, NEW ids, NEW by, NEW p \in AckedPairs(x, ids, by)
    PROVE  \/ p \in x.toResend
           \/ \E e \in x.haveSent : e.kind = "request" /\ p = <<e.id, e.r>>
BY DEF AckedPairs, AckedSent, AckedAgain, IsRequest

LEMMA AckAllNamed ==
    ASSUME NEW x, DataShape(x), NamedData(x), NEW ids, NEW by
    PROVE  NamedData(AckAll(x, ids, by))
<1> DEFINE y == AckAll(x, ids, by)
<1>1. /\ y.toSend = x.toSend \ AckedToSend(x, ids, by)
      /\ y.haveSent = x.haveSent \ AckedSent(x, ids, by)
      /\ y.toResend = x.toResend \ AckedAgain(x, ids, by)
      /\ y.wereAcked = x.wereAcked \cup AckedPairs(x, ids, by)
      BY AckAllIs
<1> HIDE DEF y
<1>2. \A p \in y.wereAcked :
          p \in x.wereAcked \/ p \in x.toResend
          \/ \E e \in x.haveSent : e.kind = "request" /\ p = <<e.id, e.r>>
      BY <1>1, AckedPairsFrom
<1>3. NamedData(y)  BY <1>1, <1>2, DataShrunk
<1> QED  BY <1>3 DEF y

LEMMA TrimmedNamed ==
    ASSUME NEW x, DataShape(x), NamedData(x)
    PROVE  NamedData(Trimmed(x))
<1> DEFINE y == Trimmed(x)
<1>1. /\ y.toSend = x.toSend /\ y.haveSent = x.haveSent
      /\ y.toResend = x.toResend /\ y.wereAcked \subseteq x.wereAcked
      BY DEF Trimmed, DataShape
<1> HIDE DEF y
<1>2. NamedData(y)  BY <1>1, DataShrunk
<1> QED  BY <1>2 DEF y

LEMMA AckedNamed ==
    ASSUME Shape, Naming, MoreNames, NEW ids, NEW by, Acked(ids, by)
    PROVE  NamedData(d)'
<1>1. DataShape(d) /\ NamedData(d) /\ Ids  BY DEF Shape, Naming
<1>2. NamedData(Round1(ids, by))  BY Zenon, <1>1, AckAllNamed DEF Round1
<1>3. NamedData(Trimmed(Round1(ids, by)))  BY <1>1, <1>2, AckedShape, TrimmedNamed
<1>4. DataShape(Trimmed(Round1(ids, by)))  BY <1>1, AckedShape
<1>5. NamedData(Round2(ids, by))  BY Zenon, <1>3, <1>4, AckAllNamed DEF Round2
<1>6. NamedData(Trimmed(Round2(ids, by)))  BY <1>1, <1>5, AckedShape, TrimmedNamed
<1>8. d' = Trimmed(Round2(ids, by))  BY AckedIs
<1>9. NamedData(d')  BY Zenon, <1>6, <1>8
<1> QED  BY <1>1, <1>9, DataKept

LEMMA NamingInit == Init => Naming
<1> SUFFICES ASSUME Init  PROVE Naming
    OBVIOUS
<1>1. /\ d.toSend = {} /\ d.haveSent = {} /\ d.toResend = {} /\ d.wereAcked = {}
      /\ hist.started = {} /\ mid = [r \in Reqs |-> 0] /\ nextId = 1
      /\ main.pc = "idle" /\ conn.pc = "idle" /\ c2s = {}
      /\ server.answers = {} /\ server.due = {}
      BY DEF Init, Idle, ConnIdle, NewServer
<1>2. NamedData(d)  BY <1>1 DEF NamedData, AllNamed
<1>3. NamedServer  BY <1>1 DEF NamedServer, AllNamed
<1>4. Ids  BY <1>1 DEF Ids
<1> QED  BY <1>1, <1>2, <1>3, <1>4 DEF Naming, NamedMain, NamedConn

LEMMA NamingSendRequest ==
    ASSUME Shape, Naming, NEW r \in Reqs, SendRequest(r)
    PROVE  Naming'
<1>1. /\ r \notin hist.started /\ nextId' = nextId /\ mid' = [mid EXCEPT ![r] = 0]
      /\ main' = main /\ conn' = conn /\ c2s' = c2s /\ server' = server
      BY DEF SendRequest
<1>2. hist'.started = hist.started \cup {r}
      BY DEF SendRequest, Shape, HistShape
<1>3. /\ d'.toSend = d.toSend \cup {r} /\ d'.haveSent = d.haveSent
      /\ d'.toResend = d.toResend /\ d'.wereAcked = d.wereAcked
      BY DEF SendRequest, Shape, DataShape
<1>4. mid \in [Reqs -> Nat] /\ mid' \in [Reqs -> Nat] /\ mid'[r] = 0
      /\ \A q \in Reqs : q # r => mid'[q] = mid[q]
      BY <1>1 DEF Naming, Ids
<1>5. MoreNames  BY <1>1, <1>2, <1>4 DEF MoreNames, Naming, Ids
<1>6. Ids'  BY <1>1, <1>4 DEF Naming, Ids
<1>7. NamedData(d)'
  <2>1. \A e \in d.haveSent : NamedEntry(e)'
        BY <1>5, EntryKept DEF NamedData, Naming
  <2>2. AllNamed(d.toResend)' /\ AllNamed(d.wereAcked)'
    <3>1. AllNamed(d.toResend) /\ AllNamed(d.wereAcked)  BY DEF NamedData, Naming
    <3>2. \A p \in d'.toResend : NamedPair(p)'
          BY <1>3, <1>5, <3>1, NamedKept DEF AllNamed, NamedPair
    <3>3. \A p \in d'.wereAcked : NamedPair(p)'
          BY <1>3, <1>5, <3>1, NamedKept DEF AllNamed, NamedPair
    <3> QED  BY <3>2, <3>3 DEF AllNamed
  <2> QED  BY <1>2, <1>3, <2>1, <2>2 DEF NamedData, Naming
<1>8. NamedMain' /\ NamedConn' /\ NamedServer'
      BY <1>1, <1>5, MainKept, ConnKept, ServerKept DEF Naming
<1> QED  BY <1>2, <1>6, <1>7, <1>8 DEF Naming

\* Steps that give out no ids and leave SessionData and the server alone.
LEMMA NamingKept ==
    ASSUME Naming, mid' = mid, nextId' = nextId, hist'.started = hist.started,
           NamedData(d)', NamedMain', NamedConn', NamedServer'
    PROVE  Naming'
<1>1. MoreNames /\ Ids'  BY SameNames DEF Naming
<1> QED  BY <1>1 DEF Naming

LEMMA NothingNamed ==
    ASSUME Naming, mid' = mid, nextId' = nextId, hist'.started = hist.started
    PROVE  /\ MoreNames /\ Ids'
           /\ d' = d => NamedData(d)'
           /\ main' = main => NamedMain'
           /\ conn' = conn => NamedConn'
           /\ c2s' = c2s /\ server' = server => NamedServer'
<1>1. MoreNames /\ Ids'  BY SameNames DEF Naming
<1>2. d' = d => NamedData(d)'
  <2>1. NamedData(d) /\ Ids  BY DEF Naming
  <2>2. ASSUME NEW x, x = d', d' = d  PROVE NamedData(x)'
        BY <1>1, <2>1, <2>2, DataKept
  <2> QED  BY <2>2 DEF NamedData
<1>3. main' = main => NamedMain'  BY <1>1, MainKept DEF Naming
<1>4. conn' = conn => NamedConn'  BY <1>1, ConnKept DEF Naming
<1>5. c2s' = c2s /\ server' = server => NamedServer'  BY <1>1, ServerKept DEF Naming
<1> QED  BY <1>1, <1>2, <1>3, <1>4, <1>5

LEMMA NamingResendStart ==
    ASSUME Shape, Naming, resendStart
    PROVE  Naming'
<1>1. /\ mid' = mid /\ nextId' = nextId /\ hist' = hist /\ d' = d /\ conn' = conn
      /\ c2s' = c2s /\ server' = server /\ main.pc = "idle"
      BY DEF resendStart, MainFree
<1>2. main'.pc = main.pc  BY DEF resendStart, Shape, MainShape
<1>3. NamedMain'  BY <1>1, <1>2 DEF NamedMain
<1> QED  BY <1>1, <1>3, NothingNamed, NamingKept

\* SessionData after entries went.
LEMMA LessData ==
    ASSUME Naming, mid' = mid, nextId' = nextId, hist'.started = hist.started,
           d'.toSend \subseteq d.toSend, d'.haveSent \subseteq d.haveSent,
           d'.toResend \subseteq d.toResend, d'.wereAcked \subseteq d.wereAcked
    PROVE  NamedData(d)'
<1>1. NamedData(d) /\ Ids  BY DEF Naming
<1>2. ASSUME NEW x, x = d'  PROVE NamedData(x)
      BY <1>1, <1>2, DataShrunk
<1>3. ASSUME NEW x, x = d'  PROVE NamedData(x)'
      BY <1>1, <1>2, <1>3, NothingNamed, DataKept
<1> QED  BY <1>3 DEF NamedData

LEMMA NamingResendTake ==
    ASSUME Shape, Naming, resendTake
    PROVE  Naming'
<1> DEFINE found == InSent(Head(main.stack).id)
<1>1. /\ mid' = mid /\ nextId' = nextId /\ hist' = hist /\ conn' = conn
      /\ c2s' = c2s /\ server' = server /\ main.pc = "idle"
      /\ d' = [d EXCEPT !.haveSent = d.haveSent \ found]
      BY DEF resendTake, TakenOut
<1>2. found \subseteq d.haveSent  BY DEF InSent
<1>3. /\ d'.toSend = d.toSend /\ d'.haveSent \subseteq d.haveSent
      /\ d'.toResend = d.toResend /\ d'.wereAcked = d.wereAcked
  <2> HIDE DEF found
  <2> QED  BY <1>1 DEF Shape, DataShape
<1>4. NamedData(d)'  BY <1>1, <1>3, LessData
<1>5. \/ main'.pc = "idle"
      \/ \E e \in found : /\ e.kind = "request" /\ main'.pc = "taken"
                          /\ main'.id = e.id /\ main'.r = e.r
      BY DEF resendTake, Shape, MainShape
<1>6. NamedMain'
  <2>1. CASE main'.pc = "idle"  BY <2>1 DEF NamedMain
  <2>2. ASSUME NEW e \in found, e.kind = "request", main'.pc = "taken",
               main'.id = e.id, main'.r = e.r
        PROVE  NamedMain'
    <3>1. Named(e.id, e.r)  BY <1>2, <2>2 DEF Naming, NamedData, NamedEntry
    <3>2. Named(main.id, main.r)'  BY <1>1, <2>2, <3>1 DEF Named
    <3> QED  BY <2>2, <3>2 DEF NamedMain
  <2> QED  BY <1>5, <2>1, <2>2
<1> QED  BY <1>1, <1>4, <1>6, NothingNamed, NamingKept

LEMMA NamingResendQueue ==
    ASSUME Shape, Naming, resendQueue
    PROVE  Naming'
<1>1. Named(main.id, main.r)  BY DEF resendQueue, Naming, NamedMain
<1>2. /\ mid' = mid /\ nextId' = nextId /\ hist' = hist /\ conn' = conn
      /\ c2s' = c2s /\ server' = server
      BY DEF resendQueue, KeptId, Naming, Ids
<1>3. /\ d'.toSend = d.toSend \cup {main.r} /\ d'.haveSent = d.haveSent
      /\ d'.toResend = d.toResend /\ d'.wereAcked = d.wereAcked
      BY DEF resendQueue, Shape, DataShape
<1>4. main'.pc = "queued" /\ main'.id = main.id /\ main'.r = main.r
      BY DEF resendQueue, Shape, MainShape
<1>5. NamedMain'  BY <1>1, <1>2, <1>4 DEF NamedMain, Named
<1>6. MoreNames /\ Ids  BY <1>2, SameNames DEF Naming
<1>7. NamedData(d)'
  <2>1. NamedData(d)  BY DEF Naming
  <2>2. \A e \in d'.haveSent : NamedEntry(e)'
        BY <1>3, <1>6, <2>1, EntryKept DEF NamedData
  <2>3. AllNamed(d.toResend)' /\ AllNamed(d.wereAcked)'
        BY <1>3, <1>6, <2>1, NamedKept DEF NamedData, AllNamed, NamedPair
  <2> QED  BY <1>1, <1>2, <1>3, <2>1, <2>2, <2>3 DEF NamedData, Named
<1> QED  BY <1>2, <1>5, <1>7, NothingNamed, NamingKept

LEMMA NamingResendMark ==
    ASSUME Shape, Naming, resendMark
    PROVE  Naming'
<1>1. Named(main.id, main.r)  BY DEF resendMark, Naming, NamedMain
<1>2. /\ mid' = mid /\ nextId' = nextId /\ hist' = hist /\ conn' = conn
      /\ c2s' = c2s /\ server' = server
      BY DEF resendMark
<1>3. /\ d'.toSend = d.toSend /\ d'.haveSent = d.haveSent
      /\ d'.toResend = d.toResend \cup {<<main.id, main.r>>}
      /\ d'.wereAcked = d.wereAcked
      BY DEF resendMark, Shape, DataShape
<1>4. main'.pc = "idle"  BY DEF resendMark, Idle
<1>5. NamedMain'  BY <1>4 DEF NamedMain
<1>6. MoreNames /\ Ids  BY <1>2, SameNames DEF Naming
<1>7. NamedData(d)'
  <2>1. NamedData(d)  BY DEF Naming
  <2>2. \A e \in d'.haveSent : NamedEntry(e)'
        BY <1>3, <1>6, <2>1, EntryKept DEF NamedData
  <2>3. ASSUME NEW p, p = <<main.id, main.r>>  PROVE NamedPair(p)'
    <3>1. p[1] = main.id /\ p[2] = main.r /\ p = <<p[1], p[2]>>  BY <2>3
    <3>2. Named(p[1], p[2])'  BY <1>1, <1>6, <3>1, NamedKept
    <3> QED  BY <3>1, <3>2 DEF NamedPair
  <2>4. \A p \in d'.toResend : NamedPair(p)'
        BY <1>3, <1>6, <2>1, <2>3, NamedKept DEF NamedData, AllNamed, NamedPair
  <2>5. \A p \in d'.wereAcked : NamedPair(p)'
        BY <1>3, <1>6, <2>1, NamedKept DEF NamedData, AllNamed, NamedPair
  <2> QED  BY <1>2, <1>3, <2>1, <2>2, <2>4, <2>5 DEF NamedData, AllNamed
<1> QED  BY <1>2, <1>5, <1>7, NothingNamed, NamingKept

LEMMA NamingCancel ==
    ASSUME Shape, Naming, NEW r \in Reqs, cancelToSend(r)
    PROVE  Naming'
<1>1. /\ mid' = mid /\ nextId' = nextId /\ conn' = conn
      /\ c2s' = c2s /\ server' = server /\ r \in hist.started
      BY DEF cancelToSend
<1>2. hist'.started = hist.started  BY DEF cancelToSend, Shape, HistShape
<1>3. /\ d'.toSend \subseteq d.toSend /\ d'.haveSent = d.haveSent
      /\ d'.toResend = d.toResend /\ d'.wereAcked = d.wereAcked
      BY DEF cancelToSend, Shape, DataShape
<1>4. main'.pc = "cancel" /\ main'.id = mid[r] /\ main'.r = r
      BY DEF cancelToSend, Shape, MainShape
<1>5. NamedMain'  BY <1>1, <1>2, <1>4 DEF NamedMain
<1>6. NamedData(d)'  BY <1>1, <1>2, <1>3, LessData
<1> QED  BY <1>1, <1>2, <1>5, <1>6, NothingNamed, NamingKept

LEMMA NamingCancelled ==
    ASSUME Shape, Naming, cancelHaveSent
    PROVE  Naming'
<1>1. /\ mid' = mid /\ nextId' = nextId /\ hist' = hist /\ conn' = conn
      /\ c2s' = c2s /\ server' = server
      BY DEF cancelHaveSent
<1>2. /\ d'.toSend = d.toSend /\ d'.haveSent \subseteq d.haveSent
      /\ d'.toResend = d.toResend /\ d'.wereAcked = d.wereAcked
      BY DEF cancelHaveSent, Shape, DataShape
<1>3. main'.pc = "idle"  BY DEF cancelHaveSent, Idle
<1>4. NamedMain'  BY <1>3 DEF NamedMain
<1>5. NamedData(d)'  BY <1>1, <1>2, LessData
<1> QED  BY <1>1, <1>4, <1>5, NothingNamed, NamingKept

\* The timer and the callbacks of the main thread name nothing new.
LEMMA NamingMain ==
    ASSUME Shape, Naming,
           \/ checkRequestsByTimer \/ tryToReceive \/ \E r \in clears : clearCallbacks(r)
    PROVE  Naming'
<1>1. /\ mid' = mid /\ nextId' = nextId /\ conn' = conn /\ main' = main
      /\ c2s' = c2s /\ server' = server
      BY DEF checkRequestsByTimer, tryToReceive, clearCallbacks
<1>2. hist'.started = hist.started
      BY DEF checkRequestsByTimer, tryToReceive, clearCallbacks, Shape, HistShape
<1>3. /\ d'.toSend = d.toSend /\ d'.haveSent = d.haveSent
      /\ d'.toResend = d.toResend /\ d'.wereAcked = d.wereAcked
      BY DEF checkRequestsByTimer, tryToReceive, clearCallbacks, Shape, DataShape
<1>4. NamedData(d)'  BY <1>1, <1>2, <1>3, LessData
<1> QED  BY <1>1, <1>2, <1>4, NothingNamed, NamingKept

LEMMA NamingSingleTake ==
    ASSUME Shape, Naming, sendSingleTake
    PROVE  Naming'
<1>1. /\ mid' = mid /\ nextId' = nextId /\ hist' = hist /\ main' = main
      /\ c2s' = c2s /\ server' = server
      BY DEF sendSingleTake
<1>2. /\ d'.toSend = {} /\ d'.haveSent = d.haveSent
      /\ d'.toResend = d.toResend /\ d'.wereAcked = d.wereAcked
      BY DEF sendSingleTake, Shape, DataShape
<1>3. conn'.pc = "single" /\ conn'.r \in d.toSend
      BY DEF sendSingleTake, Shape, ConnShape
<1>4. NamedConn'  BY <1>1, <1>3 DEF NamedConn, Naming, NamedData
<1>5. NamedData(d)'  BY <1>1, <1>2, LessData
<1> QED  BY <1>1, <1>4, <1>5, NothingNamed, NamingKept

LEMMA NamingSingle ==
    ASSUME Shape, Naming, sendSingle
    PROVE  Naming'
<1> DEFINE r == conn.r
           id == IF mid[r] # 0 THEN mid[r] ELSE nextId
<1>1. r \in Reqs /\ r \in hist.started  BY DEF sendSingle, Naming, NamedConn
<1>2. /\ hist' = hist /\ main' = main /\ server' = server
      /\ mid' = [mid EXCEPT ![r] = id]
      /\ nextId' = IF id = nextId THEN nextId + 1 ELSE nextId
      /\ c2s' = c2s \cup {Packet(id, {<<id, r>>}, {}, 0, {})}
      BY DEF sendSingle
<1>3. /\ d'.toSend = d.toSend /\ d'.haveSent = d.haveSent \cup {Sent(id, r)}
      /\ d'.toResend \subseteq d.toResend /\ d'.wereAcked = d.wereAcked
      BY DEF sendSingle, Shape, DataShape
<1>4. conn'.pc = "idle"  BY DEF sendSingle, Shape, ConnShape
<1>5. /\ Ids /\ NamedData(d) /\ NamedServer
      BY DEF Naming
<1>6. /\ id \in Nat /\ id # 0
      /\ mid[r] # 0 => id = mid[r] /\ id < nextId
      /\ mid[r] = 0 => id = nextId
      BY <1>1, <1>5 DEF Ids
<1> HIDE DEF r, id
<1>7. mid'[r] = id /\ mid' \in [Reqs -> Nat] /\ \A q \in Reqs : q # r => mid'[q] = mid[q]
      BY <1>1, <1>2, <1>5, <1>6 DEF Ids
<1>8. nextId' \in Nat /\ nextId <= nextId' /\ nextId' # 0 /\ id < nextId'
      BY <1>1, <1>2, <1>5, <1>6 DEF Ids
<1>9. MoreNames  BY <1>2, <1>5, <1>6, <1>7, <1>8 DEF MoreNames, Ids
<1>10. Ids'
  <2>1. \A q \in Reqs : mid'[q] < nextId'
        BY <1>5, <1>7, <1>8 DEF Ids
  <2>2. ASSUME NEW q \in Reqs, q # r  PROVE mid'[q] # id
        BY <1>1, <1>5, <1>6, <1>7, <2>2 DEF Ids
  <2>3. \A q, s \in Reqs : mid'[q] = mid'[s] /\ mid'[q] # 0 => q = s
        BY <1>5, <1>7, <2>2 DEF Ids
  <2> QED  BY <1>7, <1>8, <2>1, <2>3 DEF Ids
<1>12. ASSUME NEW i, NEW q, i = id, q = r  PROVE Named(i, q)'
       BY <1>1, <1>2, <1>6, <1>7, <1>12 DEF Named
<1>13. NamedData(d)'
  <2>1. \A e \in d.haveSent : NamedEntry(e)'
        BY <1>5, <1>9, EntryKept DEF NamedData
  <2>2. ASSUME NEW e, e = Sent(id, r)  PROVE NamedEntry(e)'
        BY <1>12, <2>2 DEF NamedEntry, Sent
  <2>3. AllNamed(d.toResend) /\ AllNamed(d.wereAcked)  BY <1>5 DEF NamedData
  <2>4. \A p \in d'.toResend : NamedPair(p)'
        BY <1>3, <1>9, <2>3, NamedKept DEF AllNamed, NamedPair
  <2>5. \A p \in d'.wereAcked : NamedPair(p)'
        BY <1>3, <1>9, <2>3, NamedKept DEF AllNamed, NamedPair
  <2> QED  BY <1>2, <1>3, <1>5, <2>1, <2>2, <2>4, <2>5 DEF NamedData, AllNamed
<1>14. NamedMain'  BY <1>2, <1>5, <1>9, MainKept DEF Naming
<1>15. NamedConn'  BY <1>4 DEF NamedConn
<1>16. NamedServer'
  <2>1. ASSUME NEW p \in c2s  PROVE AllNamed(p.msgs)'
        BY <1>5, <1>9, AllKept DEF NamedServer
  <2>2. ASSUME NEW p, p = Packet(id, {<<id, r>>}, {}, 0, {})  PROVE AllNamed(p.msgs)'
    <3>1. p.msgs = {<<id, r>>}  BY <2>2 DEF Packet
    <3>2. ASSUME NEW m \in p.msgs  PROVE NamedPair(m)'
      <4>1. m[1] = id /\ m[2] = r /\ m = <<m[1], m[2]>>  BY <3>1, <3>2
      <4>2. Named(m[1], m[2])'  BY <1>12, <4>1
      <4> QED  BY <4>1, <4>2 DEF NamedPair
    <3> QED  BY <3>2 DEF AllNamed
  <2>3. \A m \in server.answers : NamedPair(m)'
        BY <1>5, <1>9, NamedKept DEF NamedServer, AllNamed, NamedPair
  <2>4. \A m \in server.due : NamedPair(m)'
        BY <1>5, <1>9, NamedKept DEF NamedServer, AllNamed, NamedPair
  <2> QED  BY <1>2, <2>1, <2>2, <2>3, <2>4 DEF NamedServer, AllNamed
<1> QED  BY <1>2, <1>10, <1>13, <1>14, <1>15, <1>16 DEF Naming

LEMMA NamingService ==
    ASSUME Shape, Naming, sendService
    PROVE  Naming'
<1>1. /\ hist' = hist /\ main' = main /\ server' = server /\ mid' = mid
      BY DEF sendService
<1>2. conn'.pc = conn.pc /\ conn'.id = conn.id /\ conn'.r = conn.r
      BY DEF sendService, Shape, ConnShape
<1>3. \/ nextId' = nextId /\ d' = d
      \/ /\ nextId' = nextId + 1
         /\ d'.haveSent = d.haveSent \cup {StateReq(nextId, d.stateRequest)}
         /\ d'.toSend = d.toSend /\ d'.toResend = d.toResend
         /\ d'.wereAcked = d.wereAcked
      BY DEF sendService, Shape, DataShape
<1>4. Ids /\ NamedData(d) /\ NamedServer  BY DEF Naming
<1>5. MoreNames /\ Ids'
  <2>1. nextId' \in Nat /\ nextId <= nextId' /\ nextId' # 0  BY <1>3, <1>4 DEF Ids
  <2>2. \A q \in Reqs : mid[q] < nextId'  BY <1>4, <2>1 DEF Ids
  <2> QED  BY <1>1, <1>4, <2>1, <2>2 DEF Ids, MoreNames
<1>6. NamedData(d)'
  <2>1. ASSUME NEW e, e = StateReq(nextId, d.stateRequest), nextId' = nextId + 1
        PROVE  NamedEntry(e)'
    <3>1. e.kind = "state" /\ e.id = nextId  BY <2>1 DEF StateReq
    <3>2. e.id \in Nat /\ e.id < nextId' /\ e.id # 0 /\ \A q \in Reqs : mid'[q] # e.id
          BY <1>1, <1>4, <2>1, <3>1 DEF Ids
    <3> QED  BY <3>1, <3>2 DEF NamedEntry, Other
  <2>2. \A e \in d'.haveSent : NamedEntry(e)'
        BY <1>3, <1>4, <1>5, <2>1, EntryKept DEF NamedData
  <2>3. AllNamed(d.toResend) /\ AllNamed(d.wereAcked)  BY <1>4 DEF NamedData
  <2>4. \A p \in d'.toResend : NamedPair(p)'
        BY <1>3, <1>5, <2>3, NamedKept DEF AllNamed, NamedPair
  <2>5. \A p \in d'.wereAcked : NamedPair(p)'
        BY <1>3, <1>5, <2>3, NamedKept DEF AllNamed, NamedPair
  <2> QED  BY <1>1, <1>3, <1>4, <2>2, <2>4, <2>5 DEF NamedData, AllNamed
<1>7. NamedMain' /\ NamedConn'  BY <1>1, <1>2, <1>4, <1>5, MainKept, ConnKept DEF Naming
<1>8. NamedServer'
  <2>1. \A p \in c2s' : p \in c2s \/ p.msgs = {}
        BY DEF sendService, Packet
  <2>2. \A p \in c2s' : AllNamed(p.msgs)'
        BY <1>4, <1>5, <2>1, AllKept DEF NamedServer, AllNamed
  <2>3. \A m \in server.answers : NamedPair(m)'
        BY <1>4, <1>5, NamedKept DEF NamedServer, AllNamed, NamedPair
  <2>4. \A m \in server.due : NamedPair(m)'
        BY <1>4, <1>5, NamedKept DEF NamedServer, AllNamed, NamedPair
  <2> QED  BY <1>1, <2>2, <2>3, <2>4 DEF NamedServer, AllNamed
<1> QED  BY <1>1, <1>5, <1>6, <1>7, <1>8 DEF Naming

\* The ids that sendContainer gives out.
NewReqs == {r \in d.toSend : mid[r] = 0}
Before(r) == {q \in NewReqs : q < r}
IdGiven(r) == IF mid[r] # 0 THEN mid[r] ELSE nextId + Cardinality(Before(r))
ServiceId == nextId + Cardinality(NewReqs)
ContainerId == IF d.stateRequest = {} THEN ServiceId ELSE ServiceId + 1

LEMMA ReqsNat == Reqs \subseteq Nat /\ 0 \notin Reqs /\ IsFiniteSet(Reqs)
BY ConstantsAssumption

LEMMA BeforeSizes ==
    ASSUME d.toSend \subseteq Reqs
    PROVE  /\ Cardinality(NewReqs) \in Nat
           /\ \A r \in NewReqs :
                 /\ Cardinality(Before(r)) \in Nat
                 /\ Cardinality(Before(r)) < Cardinality(NewReqs)
           /\ \A r, q \in NewReqs :
                 Cardinality(Before(r)) = Cardinality(Before(q)) => r = q
<1>1. NewReqs \subseteq Reqs /\ NewReqs \subseteq Nat  BY ReqsNat DEF NewReqs
<1>2. IsFiniteSet(NewReqs)  BY <1>1, ReqsNat, FS_Subset
<1>3. \A r : Before(r) \subseteq NewReqs  BY DEF Before
<1>4. \A r : IsFiniteSet(Before(r))  BY <1>2, <1>3, FS_Subset
<1>5. Cardinality(NewReqs) \in Nat  BY <1>2, FS_CardinalityType
<1>6. \A r : Cardinality(Before(r)) \in Nat  BY <1>4, FS_CardinalityType
<1>7. ASSUME NEW r \in NewReqs
      PROVE  Cardinality(Before(r)) < Cardinality(NewReqs)
  <2>1. r \notin Before(r)  BY <1>1 DEF Before
  <2>2. Before(r) # NewReqs  BY <2>1
  <2>3. Cardinality(Before(r)) <= Cardinality(NewReqs)
        BY <1>2, <1>3, FS_Subset
  <2>4. Cardinality(Before(r)) # Cardinality(NewReqs)
        BY <1>2, <1>3, <2>2, FS_Subset
  <2> QED  BY <1>5, <1>6, <2>3, <2>4
<1>8. ASSUME NEW r \in NewReqs, NEW q \in NewReqs, r < q
      PROVE  Cardinality(Before(r)) < Cardinality(Before(q))
  <2>1. ASSUME NEW s \in Before(r)  PROVE s \in Before(q)
    <3>1. s \in NewReqs /\ s < r  BY DEF Before
    <3>2. s \in Nat /\ r \in Nat /\ q \in Nat  BY <1>1, <3>1
    <3>3. s < q  BY <1>8, <3>1, <3>2
    <3> QED  BY <3>1, <3>3 DEF Before
  <2>2. r \in Before(q) /\ r \notin Before(r)  BY <1>1, <1>8 DEF Before
  <2>3. Before(r) # Before(q)  BY <2>2
  <2>4. /\ Cardinality(Before(r)) <= Cardinality(Before(q))
        /\ Cardinality(Before(r)) # Cardinality(Before(q))
        BY <1>4, <2>1, <2>3, FS_Subset
  <2> QED  BY <1>6, <2>4
<1>9. ASSUME NEW r \in NewReqs, NEW q \in NewReqs,
             Cardinality(Before(r)) = Cardinality(Before(q))
      PROVE  r = q
  <2>1. r \in Nat /\ q \in Nat  BY <1>1
  <2>2. ~(r < q)  BY <1>6, <1>8, <1>9
  <2>3. ~(q < r)  BY <1>6, <1>8, <1>9
  <2> QED  BY <2>1, <2>2, <2>3
<1> QED  BY <1>5, <1>6, <1>7, <1>9

\* What the ids of the requests in a container are.
LEMMA GivenIds ==
    ASSUME Ids, d.toSend \subseteq Reqs
    PROVE  /\ ServiceId \in Nat /\ nextId <= ServiceId
           /\ ContainerId \in Nat /\ ServiceId <= ContainerId
           /\ \A r \in d.toSend :
                 /\ IdGiven(r) \in Nat /\ IdGiven(r) # 0 /\ IdGiven(r) < ServiceId
                 /\ mid[r] # 0 => IdGiven(r) = mid[r]
                 /\ mid[r] = 0 => nextId <= IdGiven(r)
           /\ \A r, q \in d.toSend : IdGiven(r) = IdGiven(q) => r = q
<1> DEFINE n == Cardinality(NewReqs)
           c(r) == Cardinality(Before(r))
<1>1. /\ n \in Nat
      /\ \A r \in NewReqs : c(r) \in Nat /\ c(r) < n
      /\ \A r, q \in NewReqs : c(r) = c(q) => r = q
      BY BeforeSizes
<1>2. ServiceId = nextId + n  BY DEF ServiceId
<1>3. \A r : IdGiven(r) = IF mid[r] # 0 THEN mid[r] ELSE nextId + c(r)
      BY DEF IdGiven
<1>4. \A r \in d.toSend : mid[r] = 0 => r \in NewReqs  BY DEF NewReqs
<1>5. ContainerId = ServiceId \/ ContainerId = ServiceId + 1  BY DEF ContainerId
<1> HIDE DEF n, c
<1>6. ServiceId \in Nat /\ nextId <= ServiceId  BY <1>1, <1>2 DEF Ids
<1>7. ContainerId \in Nat /\ ServiceId <= ContainerId  BY <1>5, <1>6
<1>8. ASSUME NEW r \in d.toSend
      PROVE  /\ IdGiven(r) \in Nat /\ IdGiven(r) # 0 /\ IdGiven(r) < ServiceId
             /\ mid[r] # 0 => IdGiven(r) = mid[r]
             /\ mid[r] = 0 => nextId <= IdGiven(r)
  <2>1. CASE mid[r] # 0
    <3>1. IdGiven(r) = mid[r] /\ mid[r] \in Nat /\ mid[r] < nextId
          BY <1>3, <2>1 DEF Ids
    <3> QED  BY <1>6, <2>1, <3>1 DEF Ids
  <2>2. CASE mid[r] = 0
    <3>1. IdGiven(r) = nextId + c(r)  BY <1>3, <2>2
    <3>2. c(r) \in Nat /\ c(r) < n  BY <1>1, <1>4, <2>2
    <3> QED  BY <1>1, <1>2, <2>2, <3>1, <3>2 DEF Ids
  <2> QED  BY <2>1, <2>2
<1>9. ASSUME NEW r \in d.toSend, NEW q \in d.toSend, IdGiven(r) = IdGiven(q)
      PROVE  r = q
  <2>0. /\ mid[r] \in Nat /\ mid[q] \in Nat /\ mid[r] < nextId /\ mid[q] < nextId
        /\ nextId \in Nat
        BY DEF Ids
  <2>1. CASE mid[r] # 0 /\ mid[q] # 0
        BY <1>8, <1>9, <2>1 DEF Ids
  <2>2. CASE mid[r] = 0 /\ mid[q] = 0
    <3>1. /\ IdGiven(r) = nextId + c(r) /\ IdGiven(q) = nextId + c(q)
          /\ c(r) \in Nat /\ c(q) \in Nat
          BY <1>1, <1>3, <1>4, <2>2
    <3>2. \A a, b, m \in Nat : m + a = m + b => a = b  OBVIOUS
    <3>3. nextId + c(r) = nextId + c(q)  BY <1>9, <3>1
    <3>4. c(r) = c(q)  BY <2>0, <3>1, <3>2, <3>3
    <3> QED  BY <1>1, <1>4, <2>2, <3>4
  <2>3. CASE mid[r] # 0 /\ mid[q] = 0
    <3>1. IdGiven(r) = mid[r] /\ nextId <= IdGiven(q)  BY <1>8, <2>3
    <3> QED  BY <1>9, <2>0, <3>1
  <2>4. CASE mid[r] = 0 /\ mid[q] # 0
    <3>1. IdGiven(q) = mid[q] /\ nextId <= IdGiven(r)  BY <1>8, <2>4
    <3> QED  BY <1>9, <2>0, <3>1
  <2> QED  BY <2>1, <2>2, <2>3, <2>4
<1> QED  BY <1>6, <1>7, <1>8, <1>9

\* sendContainer, with its ids by these names.
LEMMA ContainerIs ==
    ASSUME sendContainer
    PROVE  \E is :
        /\ mid' = [r \in Reqs |-> IF r \in d.toSend THEN IdGiven(r) ELSE mid[r]]
        /\ d' = [d EXCEPT
               !.toSend = {}, !.stateRequest = {},
               !.toResend = {p \in @ : \A r \in d.toSend : p[1] # IdGiven(r)},
               !.haveSent = @ \cup {Sent(IdGiven(r), r) : r \in d.toSend}
                   \cup {Container(ContainerId, is)}
                   \cup (IF d.stateRequest = {} THEN {}
                         ELSE {StateReq(ServiceId, d.stateRequest)})]
        /\ c2s' = c2s \cup
               {Packet(ContainerId, {<<IdGiven(r), r>> : r \in d.toSend}, conn.acks,
                       IF d.stateRequest = {} THEN 0 ELSE ServiceId,
                       d.stateRequest)}
        /\ nextId' = ContainerId + 1
BY Zenon DEF sendContainer, IdGiven, ContainerId, ServiceId, NewReqs, Before

LEMMA SentOf ==
    ASSUME NEW e, NEW is
    PROVE  /\ \A i, r : e = Sent(i, r) => e.kind = "request" /\ e.id = i /\ e.r = r
           /\ \A i : e = Container(i, is) => e.kind = "container" /\ e.id = i
           /\ \A i : e = StateReq(i, is) => e.kind = "state" /\ e.id = i
BY DEF Sent, Container, StateReq

LEMMA NamingContainer ==
    ASSUME Shape, Naming, sendContainer
    PROVE  Naming'
<1>1. PICK is :
        /\ mid' = [r \in Reqs |-> IF r \in d.toSend THEN IdGiven(r) ELSE mid[r]]
        /\ d' = [d EXCEPT
               !.toSend = {}, !.stateRequest = {},
               !.toResend = {p \in @ : \A r \in d.toSend : p[1] # IdGiven(r)},
               !.haveSent = @ \cup {Sent(IdGiven(r), r) : r \in d.toSend}
                   \cup {Container(ContainerId, is)}
                   \cup (IF d.stateRequest = {} THEN {}
                         ELSE {StateReq(ServiceId, d.stateRequest)})]
        /\ c2s' = c2s \cup
               {Packet(ContainerId, {<<IdGiven(r), r>> : r \in d.toSend}, conn.acks,
                       IF d.stateRequest = {} THEN 0 ELSE ServiceId,
                       d.stateRequest)}
        /\ nextId' = ContainerId + 1
      BY ContainerIs
<1>2. /\ hist' = hist /\ main' = main /\ server' = server
      BY DEF sendContainer
<1>3. conn'.pc = conn.pc /\ conn'.id = conn.id /\ conn'.r = conn.r
      BY DEF sendContainer, Shape, ConnShape
<1>4. Ids /\ NamedData(d) /\ NamedServer /\ d.toSend \subseteq Reqs
      /\ d.toSend \subseteq hist.started
      BY DEF Naming, NamedData
<1>5. /\ ServiceId \in Nat /\ nextId <= ServiceId
      /\ ContainerId \in Nat /\ ServiceId <= ContainerId
      /\ \A r \in d.toSend :
            /\ IdGiven(r) \in Nat /\ IdGiven(r) # 0 /\ IdGiven(r) < ServiceId
            /\ mid[r] # 0 => IdGiven(r) = mid[r]
            /\ mid[r] = 0 => nextId <= IdGiven(r)
      /\ \A r, q \in d.toSend : IdGiven(r) = IdGiven(q) => r = q
      BY <1>4, GivenIds
<1>6. \A r \in Reqs : mid'[r] = IF r \in d.toSend THEN IdGiven(r) ELSE mid[r]
      BY <1>1
<1>7. /\ nextId \in Nat /\ nextId # 0 /\ mid \in [Reqs -> Nat]
      /\ \A r \in Reqs : mid[r] \in Nat /\ mid[r] < nextId
      BY <1>4 DEF Ids
<1>8. /\ nextId' \in Nat /\ nextId <= nextId' /\ nextId' # 0
      /\ ServiceId < nextId' /\ ContainerId < nextId'
      BY <1>1, <1>5, <1>7
<1>9. ASSUME NEW r \in Reqs
      PROVE  /\ mid'[r] \in Nat /\ mid'[r] < ServiceId
             /\ mid[r] # 0 => mid'[r] = mid[r]
             /\ r \notin d.toSend => mid'[r] = mid[r]
             /\ mid[r] = 0 => mid'[r] = 0 \/ nextId <= mid'[r]
  <2>1. CASE r \in d.toSend  BY <1>5, <1>6, <2>1
  <2>2. CASE r \notin d.toSend  BY <1>5, <1>6, <1>7, <2>2
  <2> QED  BY <2>1, <2>2
<1>10. MoreNames  BY <1>2, <1>8, <1>9 DEF MoreNames
<1>11. Ids'
  <2>1. mid' \in [Reqs -> Nat]  BY <1>1, <1>9
  <2>2. \A r \in Reqs : mid'[r] < nextId'  BY <1>5, <1>8, <1>9
  <2>3. ASSUME NEW r \in Reqs, NEW q \in Reqs, mid'[r] = mid'[q], mid'[r] # 0
        PROVE  r = q
    <3>1. CASE r \in d.toSend /\ q \in d.toSend
          BY <1>5, <1>6, <2>3, <3>1
    <3>2. CASE mid[r] # 0 /\ mid[q] # 0
          BY <1>4, <1>9, <2>3, <3>2 DEF Ids
    <3>3. CASE r \notin d.toSend /\ mid[q] = 0
      <4>1. mid'[r] = mid[r] /\ mid[r] < nextId  BY <1>7, <1>9, <3>3
      <4>2. mid'[q] = 0 \/ nextId <= mid'[q]  BY <1>9, <3>3
      <4> QED  BY <1>7, <2>3, <4>1, <4>2
    <3>4. CASE q \notin d.toSend /\ mid[r] = 0
      <4>1. mid'[q] = mid[q] /\ mid[q] < nextId  BY <1>7, <1>9, <3>4
      <4>2. mid'[r] = 0 \/ nextId <= mid'[r]  BY <1>9, <3>4
      <4> QED  BY <1>7, <2>3, <4>1, <4>2
    <3>5. CASE r \notin d.toSend /\ mid[r] = 0  BY <1>9, <2>3, <3>5
    <3>6. CASE q \notin d.toSend /\ mid[q] = 0  BY <1>9, <2>3, <3>6
    <3> QED  BY <3>1, <3>2, <3>3, <3>4, <3>5, <3>6
  <2> QED  BY <1>8, <2>1, <2>2, <2>3 DEF Ids
<1>12. ASSUME NEW r \in d.toSend, NEW i, i = IdGiven(r)  PROVE Named(i, r)'
       BY <1>2, <1>4, <1>5, <1>6, <1>12 DEF Named
<1>13. ASSUME NEW i, i = ServiceId \/ i = ContainerId  PROVE Other(i)'
  <2>1. i \in Nat /\ i < nextId' /\ ServiceId <= i  BY <1>5, <1>8, <1>13
  <2>2. ServiceId # 0  BY <1>5, <1>7
  <2>3. \A q \in Reqs : mid'[q] # i  BY <1>5, <1>9, <2>1
  <2> QED  BY <1>5, <2>1, <2>2, <2>3 DEF Other
<1>14. /\ d'.toSend = {}
       /\ d'.toResend \subseteq d.toResend /\ d'.wereAcked = d.wereAcked
       /\ d'.haveSent = d.haveSent \cup {Sent(IdGiven(r), r) : r \in d.toSend}
                   \cup {Container(ContainerId, is)}
                   \cup (IF d.stateRequest = {} THEN {}
                         ELSE {StateReq(ServiceId, d.stateRequest)})
  <2> DEFINE h == d.haveSent \cup {Sent(IdGiven(r), r) : r \in d.toSend}
                   \cup {Container(ContainerId, is)}
                   \cup (IF d.stateRequest = {} THEN {}
                         ELSE {StateReq(ServiceId, d.stateRequest)})
             s == {p \in d.toResend : \A r \in d.toSend : p[1] # IdGiven(r)}
  <2>1. d' = [d EXCEPT !.toSend = {}, !.stateRequest = {}, !.toResend = s,
                       !.haveSent = h]
        BY Zenon, <1>1
  <2>2. s \subseteq d.toResend  OBVIOUS
  <2> HIDE DEF h, s
  <2>3. /\ d'.toSend = {} /\ d'.toResend = s /\ d'.wereAcked = d.wereAcked
        /\ d'.haveSent = h
        BY <2>1 DEF Shape, DataShape
  <2> QED  BY Zenon, <2>2, <2>3 DEF h
<1>15. NamedData(d)'
  <2>1. ASSUME NEW e \in d'.haveSent  PROVE NamedEntry(e)'
    <3>1. CASE e \in d.haveSent  BY <1>4, <1>10, <3>1, EntryKept DEF NamedData
    <3>2. ASSUME NEW r \in d.toSend, e = Sent(IdGiven(r), r)  PROVE NamedEntry(e)'
      <4>1. e.kind = "request" /\ e.id = IdGiven(r) /\ e.r = r  BY <3>2, SentOf
      <4> QED  BY <1>12, <4>1 DEF NamedEntry
    <3>3. CASE e = Container(ContainerId, is)
      <4>1. e.kind = "container" /\ e.id = ContainerId  BY <3>3, SentOf
      <4> QED  BY <1>13, <4>1 DEF NamedEntry
    <3>4. CASE e = StateReq(ServiceId, d.stateRequest)
      <4>1. e.kind = "state" /\ e.id = ServiceId  BY <3>4, SentOf
      <4> QED  BY <1>13, <4>1 DEF NamedEntry
    <3> QED  BY <1>14, <2>1, <3>1, <3>2, <3>3, <3>4
  <2>2. AllNamed(d.toResend) /\ AllNamed(d.wereAcked)  BY <1>4 DEF NamedData
  <2>3. \A p \in d'.toResend : NamedPair(p)'
        BY <1>10, <1>14, <2>2, NamedKept DEF AllNamed, NamedPair
  <2>4. \A p \in d'.wereAcked : NamedPair(p)'
        BY <1>10, <1>14, <2>2, NamedKept DEF AllNamed, NamedPair
  <2> QED  BY <1>14, <2>1, <2>3, <2>4 DEF NamedData, AllNamed
<1>16. NamedMain' /\ NamedConn'
       BY <1>2, <1>3, <1>4, <1>10, MainKept, ConnKept DEF Naming
<1>17. NamedServer'
  <2>1. ASSUME NEW p \in c2s'  PROVE AllNamed(p.msgs)'
    <3>1. CASE p \in c2s  BY <1>4, <1>10, <3>1, AllKept DEF NamedServer
    <3>2. CASE p \notin c2s
      <4>1. p.msgs = {<<IdGiven(r), r>> : r \in d.toSend}
            BY <1>1, <2>1, <3>2 DEF Packet
      <4>2. ASSUME NEW m \in p.msgs  PROVE NamedPair(m)'
        <5>1. PICK r \in d.toSend : m = <<IdGiven(r), r>>  BY <4>1, <4>2
        <5>2. m[1] = IdGiven(r) /\ m[2] = r /\ m = <<m[1], m[2]>>  BY <5>1
        <5>3. Named(m[1], m[2])'  BY <1>12, <5>2
        <5> QED  BY <5>2, <5>3 DEF NamedPair
      <4> QED  BY <4>2 DEF AllNamed
    <3> QED  BY <3>1, <3>2
  <2>2. \A m \in server.answers : NamedPair(m)'
        BY <1>4, <1>10, NamedKept DEF NamedServer, AllNamed, NamedPair
  <2>3. \A m \in server.due : NamedPair(m)'
        BY <1>4, <1>10, NamedKept DEF NamedServer, AllNamed, NamedPair
  <2> QED  BY <1>2, <2>1, <2>2, <2>3 DEF NamedServer, AllNamed
<1> QED  BY <1>2, <1>4, <1>11, <1>15, <1>16, <1>17 DEF Naming

LEMMA NamingAck ==
    ASSUME Shape, Naming, NEW id, handleAck(id)
    PROVE  Naming'
<1>1. /\ mid' = mid /\ nextId' = nextId /\ hist' = hist /\ main' = main
      /\ conn' = conn /\ c2s' = c2s /\ server' = server
      /\ Acked({id}, FALSE)
      BY DEF handleAck
<1>2. MoreNames  BY <1>1, NothingNamed
<1>3. NamedData(d)'
  <2>1. ASSUME NEW is, NEW by, Acked(is, by)  PROVE NamedData(d)'
        BY <1>2, <2>1, AckedNamed
  <2> QED  BY Zenon, <1>1, <2>1
<1> QED  BY <1>1, <1>3, NothingNamed, NamingKept

LEMMA NamingResultAck ==
    ASSUME Shape, Naming, NEW id, handleResultAck(id)
    PROVE  Naming'
<1>1. /\ mid' = mid /\ nextId' = nextId /\ hist' = hist /\ main' = main
      /\ c2s' = c2s /\ Acked({id}, TRUE)
      BY DEF handleResultAck
<1>2. MoreNames /\ Ids /\ NamedServer  BY <1>1, NothingNamed DEF Naming
<1>3. NamedData(d)'
  <2>1. ASSUME NEW is, NEW by, Acked(is, by)  PROVE NamedData(d)'
        BY <1>2, <2>1, AckedNamed
  <2> QED  BY Zenon, <1>1, <2>1
<1>4. PICK p \in server.due :
          /\ p[1] = id
          /\ conn' = [conn EXCEPT !.pc = "result", !.id = id, !.r = p[2],
                                  !.acks = @ \cup {id}]
          /\ server' = [server EXCEPT !.due = @ \ {p}]
      BY DEF handleResultAck
<1>5. Named(id, p[2])'
      BY <1>2, <1>4, NamedKept DEF NamedServer, AllNamed, NamedPair
<1>6. conn'.pc = "result" /\ conn'.id = id /\ conn'.r = p[2]
      BY <1>4 DEF Shape, ConnShape
<1>7. NamedConn'
  <2>1. id = mid'[p[2]] /\ id # 0 /\ p[2] \in Reqs
        BY <1>1, <1>2, <1>4 DEF NamedServer, AllNamed, NamedPair, Named
  <2>2. p[2] \in hist.started
        BY <1>2, <1>4 DEF NamedServer, AllNamed, NamedPair, Named
  <2> QED  BY <1>1, <1>6, <2>1, <2>2 DEF NamedConn, Named
<1>8. NamedServer'
  <2>1. server'.answers = server.answers /\ server'.due \subseteq server.due
        BY <1>4 DEF Shape, ServerShape
  <2> QED  BY <1>1, <1>2, <2>1, ServerKept
<1> QED  BY <1>1, <1>3, <1>7, <1>8, NothingNamed, NamingKept

LEMMA NamingResult ==
    ASSUME Shape, Naming, handleResult
    PROVE  Naming'
<1>1. /\ mid' = mid /\ nextId' = nextId /\ main' = main /\ c2s' = c2s
      /\ server' = server
      BY DEF handleResult
<1>2. hist'.started = hist.started  BY DEF handleResult, Shape, HistShape
<1>3. conn'.pc = "idle"  BY DEF handleResult, Shape, ConnShape
<1>4. /\ d'.toSend = d.toSend /\ d'.haveSent = d.haveSent
      /\ d'.toResend = d.toResend /\ d'.wereAcked = d.wereAcked
      BY DEF handleResult, Shape, DataShape
<1>5. NamedConn'  BY <1>3 DEF NamedConn
<1>6. NamedData(d)'  BY <1>1, <1>2, <1>4, LessData
<1> QED  BY <1>1, <1>2, <1>5, <1>6, NothingNamed, NamingKept

LEMMA NamingReset ==
    ASSUME Shape, Naming, NEW m \in s2c, handleReset(m)
    PROVE  Naming'
<1>1. /\ mid' = mid /\ nextId' = nextId /\ main' = main /\ hist' = hist
      BY DEF handleReset
<1>2. CASE wasSent(m.id) = 0
  <2>1. d' = d /\ conn' = conn /\ c2s' = c2s /\ server' = server
        BY <1>2 DEF handleReset
  <2> QED  BY <1>1, <2>1, NothingNamed, NamingKept
<1>3. CASE wasSent(m.id) # 0
  <2>1. /\ c2s' = {} /\ server' = NewServer
        /\ conn' = [conn EXCEPT !.up = FALSE, !.restarted = TRUE, !.acks = {}]
        /\ d' = [d EXCEPT !.stateRequest = {}]
        BY <1>3 DEF handleReset
  <2>2. conn'.pc = conn.pc /\ conn'.id = conn.id /\ conn'.r = conn.r
        BY <2>1 DEF Shape, ConnShape
  <2>3. /\ d'.toSend = d.toSend /\ d'.haveSent = d.haveSent
        /\ d'.toResend = d.toResend /\ d'.wereAcked = d.wereAcked
        BY <2>1 DEF Shape, DataShape
  <2>4. MoreNames /\ Ids  BY <1>1, NothingNamed DEF Naming
  <2>5. NamedConn'  BY <2>2, <2>4, ConnKept DEF Naming
  <2>6. NamedData(d)'  BY <1>1, <2>3, LessData
  <2>7. server'.answers = {} /\ server'.due = {}  BY <2>1 DEF NewServer
  <2>8. NamedServer'  BY <2>1, <2>7 DEF NamedServer, AllNamed
  <2> QED  BY <1>1, <2>5, <2>6, <2>8, NothingNamed, NamingKept
<1> QED  BY <1>2, <1>3

LEMMA NamingStates ==
    ASSUME Shape, Naming, NEW m \in s2c, handleMsgsStates(m)
    PROVE  Naming'
<1>1. /\ mid' = mid /\ nextId' = nextId /\ hist' = hist /\ main' = main
      /\ conn' = conn /\ c2s' = c2s /\ server' = server
      BY DEF handleMsgsStates
<1>2. MoreNames  BY <1>1, NothingNamed
<1>3. ASSUME NEW is, NEW by, Acked(is, by)  PROVE NamedData(d)'
      BY <1>2, <1>3, AckedNamed
<1>4. d' = d \/ \E is, by : Acked(is, by)
      BY Zenon DEF handleMsgsStates
<1>5. NamedData(d)'
  <2>1. CASE d' = d  BY <1>1, <2>1, NothingNamed
  <2>2. CASE \E is, by : Acked(is, by)
    <3>1. PICK is, by : Acked(is, by)  BY Zenon, <2>2
    <3> QED  BY <1>3, <3>1
  <2> QED  BY <1>4, <2>1, <2>2
<1> QED  BY <1>1, <1>5, NothingNamed, NamingKept

LEMMA NamingUp ==
    ASSUME Shape, Naming, restart \/ authKeyCreated
    PROVE  Naming'
<1>1. /\ mid' = mid /\ nextId' = nextId /\ hist' = hist /\ main' = main
      /\ d' = d /\ c2s' \subseteq c2s
      BY DEF restart, authKeyCreated
<1>2. conn'.pc = conn.pc /\ conn'.id = conn.id /\ conn'.r = conn.r
      BY DEF restart, authKeyCreated, Shape, ConnShape
<1>3. server'.answers = server.answers
      /\ server'.due \subseteq server.answers \cup server.due
      BY DEF restart, authKeyCreated, Shape, ServerShape
<1>4. MoreNames /\ Ids  BY <1>1, NothingNamed DEF Naming
<1>5. NamedConn'  BY <1>2, <1>4, ConnKept DEF Naming
<1>6. NamedServer'  BY <1>1, <1>3, <1>4, ServerKept DEF Naming
<1> QED  BY <1>1, <1>5, <1>6, NothingNamed, NamingKept

\* The server keeps nothing but messages it was sent.
LEMMA TakenFrom ==
    ASSUME Shape, NEW p \in c2s, NEW forgets \in BOOLEAN, serverTake(p, forgets)
    PROVE  /\ server'.answers \subseteq server.answers \cup p.msgs
           /\ server'.due \subseteq server'.answers
           /\ {m[1] : m \in p.msgs} \subseteq server'.seen
           /\ ~forgets => server.seen \subseteq server'.seen
<1> DEFINE s == IF forgets THEN NewServer ELSE server
           new == {m \in p.msgs : m[1] \notin s.seen}
           seen == s.seen \cup {m[1] : m \in p.msgs}
           taken == s.taken \cup ({p.id} \ {0})
           answers == {m \in s.answers : m[1] \notin p.acks} \cup new
           due == (s.due \cup p.msgs) \cap answers
<1>1. server' = [seen |-> seen, taken |-> taken, answers |-> answers, due |-> due]
      BY Zenon DEF serverTake
<1>2. s.answers \subseteq server.answers /\ (~forgets => s = server)
      BY DEF NewServer
<1> HIDE DEF s
<1>3. answers \subseteq server.answers \cup p.msgs  BY <1>2
<1>4. due \subseteq answers /\ {m[1] : m \in p.msgs} \subseteq seen /\ s.seen \subseteq seen
      OBVIOUS
<1> HIDE DEF seen, taken, answers, due
<1>5. server'.answers = answers /\ server'.due = due /\ server'.seen = seen
      BY <1>1
<1> QED  BY <1>2, <1>3, <1>4, <1>5

LEMMA NamingTake ==
    ASSUME Shape, Naming, NEW p \in c2s, NEW forgets \in BOOLEAN,
           serverTake(p, forgets)
    PROVE  Naming'
<1>1. /\ mid' = mid /\ nextId' = nextId /\ main' = main /\ d' = d /\ conn' = conn
      /\ c2s' \subseteq c2s
      BY DEF serverTake
<1>2. hist'.started = hist.started  BY DEF serverTake, Shape, HistShape
<1>3. server'.answers \subseteq server.answers \cup p.msgs
      /\ server'.due \subseteq server'.answers
      BY TakenFrom
<1>4. MoreNames /\ Ids  BY <1>1, <1>2, NothingNamed DEF Naming
<1>5. NamedServer  BY DEF Naming
<1>6. \A q \in c2s' : AllNamed(q.msgs)'
      BY <1>1, <1>4, <1>5, AllKept DEF NamedServer
<1>7. \A m \in server.answers \cup p.msgs : NamedPair(m)'
      BY <1>4, <1>5, NamedKept DEF NamedServer, AllNamed, NamedPair
<1>8. NamedServer'  BY <1>3, <1>6, <1>7 DEF NamedServer, AllNamed
<1> QED  BY <1>1, <1>2, <1>8, NothingNamed, NamingKept

LEMMA NamingStep == Shape /\ Naming /\ [Next]_vars => Naming'
<1> SUFFICES ASSUME Shape, Naming, [Next]_vars  PROVE Naming'
    OBVIOUS
<1>1. ASSUME NEW r \in Reqs, SendRequest(r)  PROVE Naming'
      BY <1>1, NamingSendRequest
<1>2. CASE resendStart  BY <1>2, NamingResendStart
<1>3. CASE resendTake  BY <1>3, NamingResendTake
<1>4. CASE resendQueue  BY <1>4, NamingResendQueue
<1>5. CASE resendMark  BY <1>5, NamingResendMark
<1>6. CASE checkRequestsByTimer  BY <1>6, NamingMain
<1>7. ASSUME NEW r \in Reqs, cancelToSend(r)  PROVE Naming'
      BY <1>7, NamingCancel
<1>8. CASE cancelHaveSent  BY <1>8, NamingCancelled
<1>9. CASE tryToReceive  BY <1>9, NamingMain
<1>10. ASSUME NEW r \in clears, clearCallbacks(r)  PROVE Naming'
       BY <1>10, NamingMain
<1>11. CASE sendSingleTake  BY <1>11, NamingSingleTake
<1>12. CASE sendSingle  BY <1>12, NamingSingle
<1>13. CASE sendService  BY <1>13, NamingService
<1>14. CASE sendContainer  BY <1>14, NamingContainer
<1>15. ASSUME NEW id, handleAck(id)  PROVE Naming'
       BY <1>15, NamingAck
<1>16. ASSUME NEW id, handleResultAck(id)  PROVE Naming'
       BY <1>16, NamingResultAck
<1>17. CASE handleResult  BY <1>17, NamingResult
<1>18. ASSUME NEW m \in s2c, handleRejected(m)  PROVE Naming'
       BY <1>18, NothingNamed, NamingKept DEF handleRejected
<1>19. ASSUME NEW m \in s2c, handleFatal(m)  PROVE Naming'
       BY <1>19, NothingNamed, NamingKept DEF handleFatal
<1>20. ASSUME NEW m \in s2c, handleReset(m)  PROVE Naming'
       BY <1>20, NamingReset
<1>21. ASSUME NEW m \in s2c, handleMsgsStates(m)  PROVE Naming'
       BY <1>21, NamingStates
<1>22. ASSUME NEW m \in s2c, handleNewSession(m)  PROVE Naming'
       BY <1>22, NothingNamed, NamingKept DEF handleNewSession
<1>23. CASE restart  BY <1>23, NamingUp
<1>24. CASE authKeyCreated  BY <1>24, NamingUp
<1>25. ASSUME NEW p \in c2s, NEW forgets \in BOOLEAN, serverTake(p, forgets)
       PROVE Naming'
       BY <1>25, NamingTake
<1>26. ASSUME NEW p \in c2s, NEW how \in limit.how, serverReject(p, how)
       PROVE Naming'
  <2>1. /\ mid' = mid /\ nextId' = nextId /\ hist' = hist /\ main' = main
        /\ d' = d /\ conn' = conn /\ c2s' \subseteq c2s /\ server' = server
        BY <1>26 DEF serverReject
  <2>2. MoreNames /\ Ids  BY <2>1, NothingNamed DEF Naming
  <2>3. NamedServer'  BY <2>1, <2>2, ServerKept DEF Naming
  <2> QED  BY <2>1, <2>3, NothingNamed, NamingKept
<1>27. CASE UNCHANGED vars  BY <1>27, NothingNamed, NamingKept DEF vars
<1> QED
    BY <1>1, <1>2, <1>3, <1>4, <1>5, <1>6, <1>7, <1>8, <1>9, <1>10, <1>11,
       <1>12, <1>13, <1>14, <1>15, <1>16, <1>17, <1>18, <1>19, <1>20, <1>21,
       <1>22, <1>23, <1>24, <1>25, <1>26, <1>27
    DEF Next, resend, cancel, tryToSend, handleMessage, deliver, serverStep
-----------------------------------------------------------------------------
(* Execution. *)

LEMMA ExecutingInit == Init => Executing
<1> SUFFICES ASSUME Init  PROVE Executing
    OBVIOUS
<1>1. hist.executed = [r \in Reqs |-> 0] /\ count.forgets = 0  BY DEF Init
<1> QED  BY <1>1 DEF Executing, ExecutedKnown

\* A step that executes nothing, while nobody forgets and ids stay.
LEMMA ExecutingKept ==
    ASSUME Executing, hist'.executed = hist.executed,
           hist.started \subseteq hist'.started,
           count'.forgets = count.forgets, server.seen \subseteq server'.seen,
           \A r \in Reqs : r \in hist.started /\ mid[r] # 0 => mid'[r] = mid[r]
    PROVE  Executing'
BY DEF Executing, ExecutedKnown

\* A step in which the session is forgotten.
LEMMA ExecutingForgotten ==
    ASSUME Executing, hist'.executed \in [Reqs -> Nat],
           count'.forgets = count.forgets + 1
    PROVE  Executing'
<1>1. count'.forgets \in Nat /\ count'.forgets # 0  BY DEF Executing
<1> QED  BY <1>1 DEF Executing

LEMMA ExecutingTake ==
    ASSUME Shape, Naming, Executing, NEW p \in c2s, NEW forgets \in BOOLEAN,
           serverTake(p, forgets)
    PROVE  Executing'
<1> DEFINE s == IF forgets THEN NewServer ELSE server
           new == {m \in p.msgs : m[1] \notin s.seen}
           of(r) == {m \in new : m[2] = r}
<1>1. hist' = [hist EXCEPT !.executed = [r \in Reqs |-> @[r] + Cardinality(of(r))]]
      BY Zenon DEF serverTake
<1>2. mid' = mid  BY DEF serverTake
<1>3. \A m \in p.msgs : m = <<mid[m[2]], m[2]>> /\ m[1] = mid[m[2]] /\ m[1] # 0
                        /\ m[2] \in hist.started
      BY DEF Naming, NamedServer, AllNamed, NamedPair, Named
<1>4. new \subseteq p.msgs /\ \A m \in new : m[1] \notin s.seen  OBVIOUS
<1>5. ASSUME NEW r \in Reqs
      PROVE  /\ Cardinality(of(r)) \in {0, 1}
             /\ Cardinality(of(r)) = 1 =>
                    /\ <<mid[r], r>> \in p.msgs
                    /\ mid[r] \notin s.seen
  <2>1. of(r) \subseteq {<<mid[r], r>>}  BY <1>3, <1>4
  <2>2. CASE of(r) = {}
    <3>1. Cardinality(of(r)) = 0  BY Zenon, <2>2, FS_EmptySet
    <3> HIDE DEF of, s
    <3> QED  BY <3>1
  <2>3. CASE of(r) # {}
    <3>1. of(r) = {<<mid[r], r>>}  BY <2>1, <2>3
    <3>2. <<mid[r], r>> \in new  BY <3>1
    <3>3. Cardinality(of(r)) = 1
          BY <3>1, FS_Singleton
    <3>4. <<mid[r], r>> \in p.msgs /\ <<mid[r], r>>[1] \notin s.seen
          BY <1>4, <3>2
    <3> QED  BY <3>3, <3>4
  <2> QED  BY <2>2, <2>3
<1> HIDE DEF of
<1>6. /\ hist'.executed = [r \in Reqs |-> hist.executed[r] + Cardinality(of(r))]
      /\ hist'.started = hist.started
  <2> DEFINE e == [r \in Reqs |-> hist.executed[r] + Cardinality(of(r))]
  <2>1. hist' = [hist EXCEPT !.executed = e]  BY Zenon, <1>1
  <2> HIDE DEF e
  <2>2. hist'.executed = e /\ hist'.started = hist.started
        BY <2>1 DEF Shape, HistShape
  <2> QED  BY <2>2 DEF e
<1>7. hist.executed \in [Reqs -> Nat]  BY DEF Executing
<1>8. hist'.executed \in [Reqs -> Nat]
  <2>1. ASSUME NEW r \in Reqs
        PROVE  hist.executed[r] + Cardinality(of(r)) \in Nat
    <3>1. hist.executed[r] \in Nat  BY <1>7
    <3> HIDE DEF s, new
    <3>2. Cardinality(of(r)) \in {0, 1}  BY Zenon, <1>5
    <3>3. Cardinality(of(r)) \in Nat  BY <3>2
    <3> QED  BY <3>1, <3>3
  <2> QED  BY <1>6, <2>1
<1>9. CASE forgets
  <2>1. count'.forgets = count.forgets + 1
        BY <1>9 DEF serverTake, Shape, CountShape
  <2> QED  BY <1>8, <2>1, ExecutingForgotten
<1>10. CASE ~forgets
  <2>1. s = server /\ count' = count  BY <1>10 DEF serverTake
  <2>2. /\ {m[1] : m \in p.msgs} \subseteq server'.seen
        /\ server.seen \subseteq server'.seen
        BY <1>10, TakenFrom
  <2>3. ASSUME NEW r \in Reqs, ExecutedKnown(r)  PROVE ExecutedKnown(r)'
    <3>1. hist'.executed[r] = hist.executed[r] + Cardinality(of(r))
          BY <1>6
    <3>2. CASE Cardinality(of(r)) = 0
      <4>1. hist'.executed[r] = hist.executed[r]  BY <1>7, <3>1, <3>2
      <4> QED  BY <1>2, <1>6, <2>2, <2>3, <4>1 DEF ExecutedKnown
    <3>3. CASE Cardinality(of(r)) = 1
      <4>1. <<mid[r], r>> \in p.msgs /\ mid[r] \notin server.seen
            BY <1>5, <2>1, <3>3
      <4>2. hist.executed[r] = 0  BY <2>3, <4>1 DEF ExecutedKnown
      <4>3. hist'.executed[r] = 1  BY <3>1, <3>3, <4>2
      <4>4. mid[r] # 0 /\ r \in hist.started  BY <1>3, <4>1
      <4>5. mid[r] \in server'.seen
        <5>1. <<mid[r], r>>[1] \in {m[1] : m \in p.msgs}  BY <4>1
        <5> QED  BY <2>2, <5>1
      <4> QED  BY <1>2, <1>6, <4>3, <4>4, <4>5 DEF ExecutedKnown
    <3> QED  BY <1>5, <3>2, <3>3
  <2> QED  BY <1>8, <2>1, <2>3 DEF Executing
<1> QED  BY <1>9, <1>10

LEMMA ExecutingReset ==
    ASSUME Shape, Executing, NEW m \in s2c, handleReset(m)
    PROVE  Executing'
<1>1. CASE wasSent(m.id) = 0
      BY <1>1, ExecutingKept DEF handleReset
<1>2. CASE wasSent(m.id) # 0
  <2>1. hist' = hist /\ count'.forgets = count.forgets + 1
        BY <1>2 DEF handleReset, Shape, CountShape
  <2>2. hist'.executed \in [Reqs -> Nat]  BY <2>1 DEF Executing
  <2> QED  BY <2>1, <2>2, ExecutingForgotten
<1> QED  BY <1>1, <1>2

LEMMA ExecutingStep == Shape /\ Naming /\ Executing /\ [Next]_vars => Executing'
<1> SUFFICES ASSUME Shape, Naming, Executing, [Next]_vars  PROVE Executing'
    OBVIOUS
<1> USE DEF Shape
<1>1. ASSUME NEW r \in Reqs, SendRequest(r)  PROVE Executing'
  <2>1. /\ hist'.executed = hist.executed /\ hist'.started = hist.started \cup {r}
        BY <1>1 DEF SendRequest, HistShape
  <2>2. /\ count' = count /\ server' = server /\ mid' = [mid EXCEPT ![r] = 0]
        /\ r \notin hist.started
        BY <1>1 DEF SendRequest
  <2> QED  BY <2>1, <2>2, ExecutingKept DEF Naming, Ids
<1>2. CASE resendStart  BY <1>2, ExecutingKept DEF resendStart
<1>3. CASE resendTake  BY <1>3, ExecutingKept DEF resendTake
<1>4. CASE resendQueue
      BY <1>4, ExecutingKept DEF resendQueue, KeptId, Naming, Ids
<1>5. CASE resendMark  BY <1>5, ExecutingKept DEF resendMark
<1>6. CASE checkRequestsByTimer
      BY <1>6, ExecutingKept DEF checkRequestsByTimer, CountShape
<1>7. ASSUME NEW r \in Reqs, cancelToSend(r)  PROVE Executing'
      BY <1>7, ExecutingKept DEF cancelToSend, HistShape
<1>8. CASE cancelHaveSent  BY <1>8, ExecutingKept DEF cancelHaveSent
<1>9. CASE tryToReceive
  <2>1. /\ hist'.executed = hist.executed /\ hist'.started = hist.started
        BY <1>9 DEF tryToReceive, HistShape
  <2> QED  BY <1>9, <2>1, ExecutingKept DEF tryToReceive
<1>10. ASSUME NEW r \in clears, clearCallbacks(r)  PROVE Executing'
       BY <1>10, ExecutingKept DEF clearCallbacks, HistShape
<1>11. CASE sendSingleTake  BY <1>11, ExecutingKept DEF sendSingleTake
<1>12. CASE sendSingle
  <2>1. \A q \in Reqs : mid[q] # 0 => mid'[q] = mid[q]
        BY <1>12 DEF sendSingle, Naming, Ids
  <2> QED  BY <1>12, <2>1, ExecutingKept DEF sendSingle
<1>13. CASE sendService  BY <1>13, ExecutingKept DEF sendService
<1>14. CASE sendContainer
  <2>1. mid' = [r \in Reqs |-> IF r \in d.toSend THEN IdGiven(r) ELSE mid[r]]
        BY <1>14, ContainerIs
  <2>2. \A q \in Reqs : mid[q] # 0 => mid'[q] = mid[q]
        BY <2>1 DEF IdGiven
  <2> QED  BY <1>14, <2>2, ExecutingKept DEF sendContainer
<1>15. ASSUME NEW id, handleAck(id)  PROVE Executing'
       BY <1>15, ExecutingKept DEF handleAck
<1>16. ASSUME NEW id, handleResultAck(id)  PROVE Executing'
  <2>1. server'.seen = server.seen
        BY <1>16 DEF handleResultAck, ServerShape
  <2> QED  BY <1>16, <2>1, ExecutingKept DEF handleResultAck
<1>17. CASE handleResult
  <2>1. hist'.executed = hist.executed /\ hist'.started = hist.started
        BY <1>17 DEF handleResult, HistShape
  <2> QED  BY <1>17, <2>1, ExecutingKept DEF handleResult
<1>18. ASSUME NEW m \in s2c, handleRejected(m)  PROVE Executing'
       BY <1>18, ExecutingKept DEF handleRejected
<1>19. ASSUME NEW m \in s2c, handleFatal(m)  PROVE Executing'
       BY <1>19, ExecutingKept DEF handleFatal
<1>20. ASSUME NEW m \in s2c, handleReset(m)  PROVE Executing'
       BY <1>20, ExecutingReset
<1>21. ASSUME NEW m \in s2c, handleMsgsStates(m)  PROVE Executing'
       BY <1>21, ExecutingKept DEF handleMsgsStates
<1>22. ASSUME NEW m \in s2c, handleNewSession(m)  PROVE Executing'
       BY <1>22, ExecutingKept DEF handleNewSession
<1>23. CASE restart  BY <1>23, ExecutingKept DEF restart, CountShape
<1>24. CASE authKeyCreated  BY <1>24, ExecutingKept DEF authKeyCreated, ServerShape
<1>25. ASSUME NEW p \in c2s, NEW forgets \in BOOLEAN, serverTake(p, forgets)
       PROVE Executing'
       BY <1>25, ExecutingTake
<1>26. ASSUME NEW p \in c2s, NEW how \in limit.how, serverReject(p, how)
       PROVE Executing'
       BY <1>26, ExecutingKept DEF serverReject, CountShape
<1>27. CASE UNCHANGED vars  BY <1>27, ExecutingKept DEF vars
<1> QED
    BY <1>1, <1>2, <1>3, <1>4, <1>5, <1>6, <1>7, <1>8, <1>9, <1>10, <1>11,
       <1>12, <1>13, <1>14, <1>15, <1>16, <1>17, <1>18, <1>19, <1>20, <1>21,
       <1>22, <1>23, <1>24, <1>25, <1>26, <1>27
    DEF Next, resend, cancel, tryToSend, handleMessage, deliver, serverStep

LEMMA NamesHold == Spec => [](Shape /\ Naming)
<1>1. Init => Shape /\ Naming  BY ShapeInit, NamingInit
<1>2. (Shape /\ Naming) /\ [Next]_vars => (Shape /\ Naming)'
      BY ShapeStep, NamingStep
<1> QED  BY <1>1, <1>2, PTL DEF Spec

\* The server executes a request once while it and the client keep the
\* session, for any number of requests, resends, rejections and broken
\* connections: wherever a message of a request is (on its way, in
\* _haveSent, _toResend or _wereAcked, between two locks of resend), it has
\* the id the request got when it was sent first.
THEOREM ServerExecutesOnce == Spec => []ExecutedOnce
<1>1. Executing => ExecutedOnce
  <2> SUFFICES ASSUME Executing, count.forgets = 0, NEW r \in Reqs
               PROVE  hist.executed[r] <= 1
      BY DEF ExecutedOnce
  <2> QED  BY DEF Executing, ExecutedKnown
<1>2. Spec => []Executing
      BY NamesHold, ExecutingInit, ExecutingStep, PTL DEF Spec
<1> QED  BY <1>1, <1>2, PTL
-----------------------------------------------------------------------------
(* Keeping. *)

LEMMA KeepingInit == Init => Keeping
BY DEF Init, Keeping, NoneForgotten, ResultKnown, ConnIdle

\* A step that leaves what the connection thread holds: it is enough that
\* what is held stays held.
LEMMA KeepingKept ==
    ASSUME Keeping,
           \A q \in parser' : Held(q)' \/ (q \in parser /\ ~Held(q)),
           conn'.pc = conn.pc, conn'.id = conn.id, conn'.r = conn.r,
           conn.pc = "result" => /\ d.wereAcked \subseteq d'.wereAcked
                                 /\ d.toResend \subseteq d'.toResend
    PROVE  Keeping'
<1>1. ASSUME NEW q \in parser'  PROVE Tracked(q)'
  <2>1. CASE Held(q)'  BY <2>1 DEF Held, Tracked
  <2>2. CASE q \in parser /\ ~Held(q)
    <3>1. Tracked(q)  BY <2>2 DEF Keeping, NoneForgotten
    <3>2. conn.pc \in {"single", "result"} /\ conn.r = q
          BY <2>2, <3>1 DEF Tracked, Held
    <3> QED  BY <3>2 DEF Tracked
  <2> QED  BY <1>1, <2>1, <2>2
<1>2. ResultKnown'
  <2> SUFFICES ASSUME conn'.pc = "result", conn'.r \in parser', ~Held(conn.r)'
               PROVE  \/ <<conn'.id, conn'.r>> \in d'.wereAcked
                      \/ <<conn'.id, conn'.r>> \in d'.toResend
      BY DEF ResultKnown
  <2>1. conn.r \in parser /\ ~Held(conn.r)
    <3>1. ASSUME NEW q, q = conn.r, q = conn'.r  PROVE ~Held(q)'
          BY <3>1 DEF Held
    <3> QED  BY <3>1
  <2> QED  BY <2>1 DEF Keeping, ResultKnown
<1> QED  BY <1>1, <1>2 DEF Keeping, NoneForgotten

LEMMA HeldKept ==
    ASSUME NEW q, Held(q),
           d.toSend \subseteq d'.toSend \/ q \in d'.toSend \/ q \notin d.toSend,
           d.responses \subseteq d'.responses \/ q \in d'.responses \/ q \notin d.responses,
           clears \subseteq clears' \/ q \in clears' \/ q \notin clears,
           d.haveSent \subseteq d'.haveSent,
           main'.pc = main.pc, main'.r = main.r
    PROVE  Held(q)'
BY DEF Held

LEMMA KeepingSendRequest ==
    ASSUME Shape, Keeping, NEW r \in Reqs, SendRequest(r)
    PROVE  Keeping'
<1>1. /\ main' = main /\ clears' = clears /\ conn' = conn
      /\ parser' \subseteq parser \cup {r}
      BY DEF SendRequest
<1>2. /\ d'.toSend = d.toSend \cup {r} /\ d'.haveSent = d.haveSent
      /\ d'.toResend = d.toResend /\ d'.wereAcked = d.wereAcked
      /\ d'.responses = d.responses
      BY DEF SendRequest, Shape, DataShape
<1>3. ASSUME NEW q, Held(q)  PROVE Held(q)'
      BY <1>1, <1>2, <1>3, HeldKept
<1>4. ASSUME NEW q, q = r  PROVE Held(q)'  BY <1>2, <1>4 DEF Held
<1>5. \A q \in parser' : Held(q)' \/ (q \in parser /\ ~Held(q))
      BY <1>1, <1>3, <1>4
<1> QED  BY <1>1, <1>2, <1>5, KeepingKept

LEMMA KeepingResendStart ==
    ASSUME Shape, Keeping, resendStart
    PROVE  Keeping'
<1>1. /\ d' = d /\ clears' = clears /\ conn' = conn /\ parser' = parser
      BY DEF resendStart
<1>2. main'.pc = main.pc /\ main'.r = main.r
      BY DEF resendStart, Shape, MainShape
<1>3. ASSUME NEW q, Held(q)  PROVE Held(q)'
      BY <1>1, <1>2, <1>3, HeldKept
<1> QED  BY <1>1, <1>3, KeepingKept

\* Requests with one id are one request, and no container has its id.
LEMMA SameId ==
    ASSUME Naming, NEW e \in d.haveSent, NEW f \in d.haveSent, e.id = f.id,
           e.kind = "request"
    PROVE  f.kind = "request" /\ f.r = e.r
<1>1. NamedEntry(e) /\ NamedEntry(f)  BY DEF Naming, NamedData
<1>2. Named(e.id, e.r)  BY <1>1 DEF NamedEntry
<1>3. f.kind = "request"
      BY <1>1, <1>2 DEF NamedEntry, Other, Named
<1>4. Named(f.id, f.r)  BY <1>1, <1>3 DEF NamedEntry
<1> QED  BY <1>2, <1>3, <1>4 DEF Named, Naming, Ids

LEMMA KeepingResendTake ==
    ASSUME Shape, Naming, Keeping, resendTake
    PROVE  Keeping'
<1> DEFINE found == InSent(Head(main.stack).id)
<1>1. /\ clears' = clears /\ conn' = conn /\ parser' = parser /\ main.pc = "idle"
      /\ d' = [d EXCEPT !.haveSent = d.haveSent \ found]
      BY DEF resendTake, TakenOut
<1>2. found \subseteq d.haveSent /\ \A e, f \in found : e.id = f.id
      BY DEF InSent
<1>3. \/ \A e \in found : e.kind = "state"
      \/ \E e \in found : e.kind = "container"
      \/ \E e \in found : e.kind = "request" /\ main'.pc = "taken" /\ main'.r = e.r
      BY DEF resendTake, Shape, MainShape
<1> HIDE DEF found
<1>4. /\ d'.toSend = d.toSend /\ d'.haveSent = d.haveSent \ found
      /\ d'.toResend = d.toResend /\ d'.wereAcked = d.wereAcked
      /\ d'.responses = d.responses
      BY <1>1 DEF Shape, DataShape
<1>5. ASSUME NEW e \in found, e.kind = "request"
      PROVE  main'.pc = "taken" /\ main'.r = e.r
  <2>1. \A f \in found : f.kind = "request" /\ f.r = e.r
        BY <1>2, <1>5, SameId
  <2> QED  BY <1>3, <1>5, <2>1
<1>6. ASSUME NEW q, Held(q)  PROVE Held(q)'
  <2>1. CASE q \in d.toSend \/ q \in d.responses \/ q \in clears
        BY <1>1, <1>4, <2>1 DEF Held
  <2>2. ASSUME NEW e \in d.haveSent, e.kind = "request", e.r = q  PROVE Held(q)'
    <3>1. CASE e \in found  BY <1>5, <2>2, <3>1 DEF Held
    <3>2. CASE e \notin found  BY <1>4, <2>2, <3>2 DEF Held
    <3> QED  BY <3>1, <3>2
  <2> QED  BY <1>1, <1>6, <2>1, <2>2 DEF Held
<1> QED  BY <1>1, <1>4, <1>6, KeepingKept

LEMMA KeepingResendQueue ==
    ASSUME Shape, Naming, Keeping, resendQueue
    PROVE  Keeping'
<1>1. /\ clears' = clears /\ conn' = conn /\ parser' = parser /\ main.pc = "taken"
      BY DEF resendQueue
<1>2. /\ d'.toSend = d.toSend \cup {main.r} /\ d'.haveSent = d.haveSent
      /\ d'.toResend = d.toResend /\ d'.wereAcked = d.wereAcked
      /\ d'.responses = d.responses
      BY DEF resendQueue, Shape, DataShape
<1>3. ASSUME NEW q, Held(q)  PROVE Held(q)'
      BY <1>1, <1>2, <1>3 DEF Held
<1> QED  BY <1>1, <1>2, <1>3, KeepingKept

LEMMA KeepingResendMark ==
    ASSUME Shape, Keeping, resendMark
    PROVE  Keeping'
<1>1. /\ clears' = clears /\ conn' = conn /\ parser' = parser /\ main.pc = "queued"
      BY DEF resendMark
<1>2. /\ d'.toSend = d.toSend /\ d'.haveSent = d.haveSent
      /\ d.toResend \subseteq d'.toResend /\ d'.wereAcked = d.wereAcked
      /\ d'.responses = d.responses
      BY DEF resendMark, Shape, DataShape
<1>3. ASSUME NEW q, Held(q)  PROVE Held(q)'
      BY <1>1, <1>2, <1>3 DEF Held
<1> QED  BY <1>1, <1>2, <1>3, KeepingKept

LEMMA KeepingTimer ==
    ASSUME Shape, Keeping, checkRequestsByTimer
    PROVE  Keeping'
<1>1. /\ clears' = clears /\ conn' = conn /\ parser' = parser /\ main' = main
      BY DEF checkRequestsByTimer
<1>2. /\ d'.toSend = d.toSend /\ d'.haveSent = d.haveSent
      /\ d'.toResend = d.toResend /\ d'.wereAcked = d.wereAcked
      /\ d'.responses = d.responses
      BY DEF checkRequestsByTimer, Shape, DataShape
<1>3. ASSUME NEW q, Held(q)  PROVE Held(q)'
      BY <1>1, <1>2, <1>3, HeldKept
<1> QED  BY <1>1, <1>2, <1>3, KeepingKept

LEMMA KeepingCancel ==
    ASSUME Shape, Keeping, NEW r \in Reqs, cancelToSend(r)
    PROVE  Keeping'
<1>1. /\ clears' = clears /\ conn' = conn /\ parser' = parser /\ main.pc = "idle"
      BY DEF cancelToSend, MainFree
<1>2. main'.pc = "cancel" /\ main'.r = r
      BY DEF cancelToSend, Shape, MainShape
<1>3. /\ d'.toSend = d.toSend \ {r} /\ d'.haveSent = d.haveSent
      /\ d'.toResend = d.toResend /\ d'.wereAcked = d.wereAcked
      /\ d'.responses = d.responses
      BY DEF cancelToSend, Shape, DataShape
<1>4. ASSUME NEW q, Held(q)  PROVE Held(q)'
      BY <1>1, <1>2, <1>3, <1>4 DEF Held
<1> QED  BY <1>1, <1>3, <1>4, KeepingKept

LEMMA KeepingCancelled ==
    ASSUME Shape, Naming, Keeping, cancelHaveSent
    PROVE  Keeping'
<1>1. /\ clears' = clears /\ conn' = conn /\ parser' = parser \ {main.r}
      /\ main.pc = "cancel"
      BY DEF cancelHaveSent
<1>2. /\ d'.toSend = d.toSend /\ d'.haveSent = d.haveSent \ InSent(main.id)
      /\ d'.toResend = d.toResend /\ d'.wereAcked = d.wereAcked
      /\ d'.responses = d.responses
      BY DEF cancelHaveSent, Shape, DataShape
<1>3. ASSUME NEW e \in d.haveSent, e.kind = "request", e.r # main.r
      PROVE  e \in d'.haveSent
  <2>1. Named(e.id, e.r)  BY <1>3 DEF Naming, NamedData, NamedEntry
  <2>2. main.r \in Reqs /\ main.id \in {0, mid[main.r]}
        BY <1>1 DEF Naming, NamedMain
  <2>3. e.id # main.id  BY <1>3, <2>1, <2>2 DEF Named, Naming, Ids
  <2> QED  BY <1>2, <2>3 DEF InSent
<1>4. ASSUME NEW q, q # main.r, Held(q)  PROVE Held(q)'
      BY <1>1, <1>2, <1>3, <1>4 DEF Held
<1> QED  BY <1>1, <1>2, <1>4, KeepingKept

LEMMA KeepingCallbacks ==
    ASSUME Shape, Keeping,
           tryToReceive \/ \E r \in clears : clearCallbacks(r)
    PROVE  Keeping'
<1>1. PICK r : /\ parser' = parser \ {r} /\ clears \ {r} \subseteq clears'
               /\ d.responses \ {r} \subseteq d'.responses
  <2>1. CASE tryToReceive
        BY <2>1 DEF tryToReceive, TakeParser, Shape, DataShape
  <2>2. CASE \E r \in clears : clearCallbacks(r)
        BY <2>2 DEF clearCallbacks
  <2> QED  BY <2>1, <2>2
<1>2. /\ conn' = conn /\ main' = main
      /\ d'.toSend = d.toSend /\ d'.haveSent = d.haveSent
      /\ d'.toResend = d.toResend /\ d'.wereAcked = d.wereAcked
      BY DEF tryToReceive, clearCallbacks, Shape, DataShape
<1>3. ASSUME NEW q, q # r, Held(q)  PROVE Held(q)'
      BY <1>1, <1>2, <1>3 DEF Held
<1> QED  BY <1>1, <1>2, <1>3, KeepingKept

\* A step of the connection thread after which it holds no result.
LEMMA KeepingSending ==
    ASSUME Keeping, conn'.pc # "result", \A q \in parser' : Tracked(q)'
    PROVE  Keeping'
BY DEF Keeping, NoneForgotten, ResultKnown

LEMMA LoneRequest ==
    ASSUME d.toSend \subseteq Reqs, ToSendCount = 1, NEW r \in d.toSend
    PROVE  d.toSend = {r}
<1> DEFINE n == Cardinality(d.toSend)
           a == IF conn.acks # {} THEN 1 ELSE 0
           b == IF d.stateRequest # {} THEN 1 ELSE 0
<1>1. IsFiniteSet(d.toSend)  BY ReqsNat, FS_Subset
<1>2. n \in Nat  BY <1>1, FS_CardinalityType
<1>3. n + a + b = 1  BY DEF ToSendCount
<1>4. a \in Nat /\ b \in Nat  OBVIOUS
<1>5. n # 0  BY <1>1, FS_EmptySet
<1> HIDE DEF n, a, b
<1>6. n = 1  BY <1>2, <1>3, <1>4, <1>5
<1>7. PICK q : d.toSend = {q}  BY <1>1, <1>6, FS_Singleton DEF n
<1> QED  BY <1>7

LEMMA KeepingSingleTake ==
    ASSUME Shape, Naming, Keeping, sendSingleTake
    PROVE  Keeping'
<1>1. PICK r \in d.toSend : conn' = [conn EXCEPT !.pc = "single", !.r = r]
      BY DEF sendSingleTake
<1>2. conn'.pc = "single" /\ conn'.r = r  BY <1>1 DEF Shape, ConnShape
<1>3. d.toSend = {r}
  <2>1. ToSendCount = 1 /\ d.toSend \subseteq Reqs
        BY DEF sendSingleTake, Naming, NamedData
  <2> QED  BY <2>1, LoneRequest
<1>4. /\ parser' = parser /\ main' = main /\ clears' = clears /\ conn.pc = "idle"
      BY DEF sendSingleTake, ConnFree
<1>5. d'.haveSent = d.haveSent /\ d'.responses = d.responses
      BY DEF sendSingleTake, Shape, DataShape
<1>6. ASSUME NEW q \in parser'  PROVE Tracked(q)'
  <2>1. Held(q)  BY <1>4, <1>6 DEF Keeping, NoneForgotten, Tracked, Held
  <2>2. CASE q = r  BY <1>2, <2>2 DEF Tracked
  <2>3. CASE q # r
    <3>1. Held(q)'  BY <1>3, <1>4, <1>5, <2>1, <2>3 DEF Held
    <3> QED  BY <3>1 DEF Tracked, Held
  <2> QED  BY <2>2, <2>3
<1> QED  BY <1>2, <1>6, KeepingSending

LEMMA KeepingSingle ==
    ASSUME Shape, Naming, Keeping, sendSingle
    PROVE  Keeping'
<1> DEFINE r == conn.r
           id == IF mid[r] # 0 THEN mid[r] ELSE nextId
<1>1. /\ parser' = parser /\ main' = main /\ clears' = clears /\ conn.pc = "single"
      BY DEF sendSingle
<1>2. conn'.pc = "idle"  BY DEF sendSingle, Shape, ConnShape
<1>3. /\ d'.toSend = d.toSend /\ d'.haveSent = d.haveSent \cup {Sent(id, r)}
      /\ d'.responses = d.responses
      BY DEF sendSingle, Shape, DataShape
<1> HIDE DEF id
<1>4. ASSUME NEW q \in parser'  PROVE Tracked(q)'
  <2>1. CASE q = r
    <3>1. PICK e \in d'.haveSent : e = Sent(id, r)  BY <1>3
    <3>2. e.kind = "request" /\ e.r = q  BY <2>1, <3>1, SentOf
    <3> QED  BY <3>2 DEF Tracked
  <2>2. CASE q # r
    <3>1. Held(q)  BY <1>1, <1>4, <2>2 DEF Keeping, NoneForgotten, Tracked, Held
    <3>2. Held(q)'  BY <1>1, <1>3, <3>1, HeldKept
    <3> QED  BY <3>2 DEF Tracked, Held
  <2> QED  BY <2>1, <2>2
<1> QED  BY <1>2, <1>4, KeepingSending

LEMMA KeepingService ==
    ASSUME Shape, Keeping, sendService
    PROVE  Keeping'
<1>1. /\ parser' = parser /\ main' = main /\ clears' = clears /\ conn.pc = "idle"
      BY DEF sendService, ConnFree
<1>2. conn'.pc = "idle"  BY <1>1 DEF sendService, Shape, ConnShape
<1>3. /\ d'.toSend = d.toSend /\ d.haveSent \subseteq d'.haveSent
      /\ d'.responses = d.responses
      BY DEF sendService, Shape, DataShape
<1>4. ASSUME NEW q \in parser'  PROVE Tracked(q)'
  <2>1. Held(q)  BY <1>1, <1>4 DEF Keeping, NoneForgotten, Tracked, Held
  <2>2. Held(q)'  BY <1>1, <1>3, <2>1, HeldKept
  <2> QED  BY <2>2 DEF Tracked, Held
<1> QED  BY <1>2, <1>4, KeepingSending

LEMMA KeepingContainer ==
    ASSUME Shape, Naming, Keeping, sendContainer
    PROVE  Keeping'
<1>1. /\ parser' = parser /\ main' = main /\ clears' = clears /\ conn.pc = "idle"
      BY DEF sendContainer, ConnFree
<1>2. conn'.pc = "idle"  BY <1>1 DEF sendContainer, Shape, ConnShape
<1>3. /\ d.haveSent \subseteq d'.haveSent /\ d'.responses = d.responses
      /\ \A r \in d.toSend : Sent(IdGiven(r), r) \in d'.haveSent
  <2>1. PICK is :
          d' = [d EXCEPT
               !.toSend = {}, !.stateRequest = {},
               !.toResend = {p \in @ : \A r \in d.toSend : p[1] # IdGiven(r)},
               !.haveSent = @ \cup {Sent(IdGiven(r), r) : r \in d.toSend}
                   \cup {Container(ContainerId, is)}
                   \cup (IF d.stateRequest = {} THEN {}
                         ELSE {StateReq(ServiceId, d.stateRequest)})]
        BY ContainerIs
  <2> DEFINE new == {Sent(IdGiven(r), r) : r \in d.toSend}
             h == d.haveSent \cup new \cup {Container(ContainerId, is)}
                   \cup (IF d.stateRequest = {} THEN {}
                         ELSE {StateReq(ServiceId, d.stateRequest)})
             s == {p \in d.toResend : \A r \in d.toSend : p[1] # IdGiven(r)}
  <2>2. d' = [d EXCEPT !.toSend = {}, !.stateRequest = {}, !.toResend = s,
                       !.haveSent = h]
        BY Zenon, <2>1
  <2>3. d.haveSent \subseteq h /\ \A r \in d.toSend : Sent(IdGiven(r), r) \in h
        OBVIOUS
  <2> HIDE DEF h, s
  <2>4. d'.haveSent = h /\ d'.responses = d.responses
        BY <2>2 DEF Shape, DataShape
  <2> QED  BY <2>3, <2>4
<1>4. ASSUME NEW q \in parser'  PROVE Tracked(q)'
  <2>1. Held(q)  BY <1>1, <1>4 DEF Keeping, NoneForgotten, Tracked, Held
  <2>2. CASE q \in d.toSend
    <3>1. PICK e \in d'.haveSent : e = Sent(IdGiven(q), q)  BY <1>3, <2>2
    <3>2. e.kind = "request" /\ e.r = q  BY <3>1, SentOf
    <3> QED  BY <3>2 DEF Tracked
  <2>3. CASE q \notin d.toSend
    <3>1. Held(q)'  BY <1>1, <1>3, <2>1, <2>3 DEF Held
    <3> QED  BY <3>1 DEF Tracked, Held
  <2> QED  BY <2>2, <2>3
<1> QED  BY <1>2, <1>4, KeepingSending

-----------------------------------------------------------------------------
(* Acknowledgements. *)

AckFields(x, y, ids, by) ==
    /\ y.toSend = x.toSend \ AckedToSend(x, ids, by)
    /\ y.haveSent = x.haveSent \ AckedSent(x, ids, by)
    /\ y.wereAcked = x.wereAcked \cup AckedPairs(x, ids, by)
    /\ y.responses = x.responses

LEMMA AckAllFields ==
    ASSUME NEW x, DataShape(x), NEW ids, NEW by, NEW y, y = AckAll(x, ids, by)
    PROVE  AckFields(x, y, ids, by)
BY AckAllIs DEF AckFields

\* What is not needed any more goes, and what goes is in _wereAcked.
LEMMA AckRemoves ==
    ASSUME NEW x, DataShape(x), NEW ids, NEW by, NEW y, y = AckAll(x, ids, by)
    PROVE  /\ \A e \in x.haveSent : e.kind = "request" /\ e \notin y.haveSent =>
                  e.id \in ids /\ <<e.id, e.r>> \in y.wereAcked
           /\ \A r \in x.toSend : r \notin y.toSend =>
                  \E p \in x.toResend :
                      p[1] \in ids /\ p[2] = r /\ p \in y.wereAcked
           /\ x.wereAcked \subseteq y.wereAcked
           /\ y.responses = x.responses
<1>1. /\ y.toSend = x.toSend \ AckedToSend(x, ids, by)
      /\ y.haveSent = x.haveSent \ AckedSent(x, ids, by)
      /\ y.wereAcked = x.wereAcked \cup AckedPairs(x, ids, by)
      /\ y.responses = x.responses
      BY AckAllFields DEF AckFields
<1>2. ASSUME NEW e \in x.haveSent, e.kind = "request", e \notin y.haveSent
      PROVE  e.id \in ids /\ <<e.id, e.r>> \in y.wereAcked
  <2>1. e \in AckedSent(x, ids, by)  BY <1>1, <1>2
  <2>2. e.id \in ids  BY <2>1 DEF AckedSent
  <2>3. <<e.id, e.r>> \in AckedPairs(x, ids, by)
        BY <1>2, <2>1 DEF AckedPairs, IsRequest
  <2> QED  BY <1>1, <2>2, <2>3
<1>3. ASSUME NEW r \in x.toSend, r \notin y.toSend
      PROVE  \E p \in x.toResend : p[1] \in ids /\ p[2] = r /\ p \in y.wereAcked
  <2>1. PICK p \in AckedAgain(x, ids, by) : p[2] = r
        BY <1>1, <1>3 DEF AckedToSend
  <2>2. p \in x.toResend /\ p[1] \in ids  BY DEF AckedAgain
  <2>3. p \in AckedPairs(x, ids, by)  BY <1>3, <2>1 DEF AckedPairs
  <2> QED  BY <1>1, <2>1, <2>2, <2>3
<1> QED  BY <1>1, <1>2, <1>3

\* An acknowledgement that is no response leaves what has a handler.
LEMMA AckKeeps ==
    ASSUME NEW x, DataShape(x), NEW ids, NEW y, y = AckAll(x, ids, FALSE),
           NEW q \in parser
    PROVE  /\ q \in x.toSend => q \in y.toSend
           /\ \A e \in x.haveSent : e.kind = "request" /\ e.r = q => e \in y.haveSent
<1>1. /\ y.toSend = x.toSend \ AckedToSend(x, ids, FALSE)
      /\ y.haveSent = x.haveSent \ AckedSent(x, ids, FALSE)
  <2>1. AckFields(x, y, ids, FALSE)  BY Zenon, AckAllFields
  <2> QED  BY Zenon, <2>1 DEF AckFields
<1>2. ASSUME NEW p \in AckedAgain(x, ids, FALSE)  PROVE p[2] # q
      BY <1>2 DEF AckedAgain, MoveToAcked
<1>3. ASSUME NEW e \in AckedSent(x, ids, FALSE), e.kind = "request"  PROVE e.r # q
      BY <1>3 DEF AckedSent, MoveToAcked, IsRequest
<1>4. q \notin AckedToSend(x, ids, FALSE)  BY <1>2 DEF AckedToSend
<1> QED  BY <1>1, <1>3, <1>4

\* What the two rounds of requestsAcked do to what has a handler.
LEMMA RoundTwoKeeps ==
    ASSUME DataShape(d), NEW ids, NEW by, Acked(ids, by), NEW q \in parser
    PROVE  /\ q \in Round1(ids, by).toSend => q \in d'.toSend
           /\ \A e \in Round1(ids, by).haveSent :
                 e.kind = "request" /\ e.r = q => e \in d'.haveSent
           /\ d'.responses = d.responses
<1> DEFINE one == Round1(ids, by)
           cut == Trimmed(one)
           two == Round2(ids, by)
<1>1. DataShape(one) /\ DataShape(cut) /\ DataShape(two)  BY AckedShape
<1>2. one = AckAll(d, ids, by)  BY Zenon DEF Round1
<1>3. two = AckAll(cut, Contained(ids), FALSE)  BY Zenon DEF Round2
<1>4. d' = Trimmed(two)  BY AckedIs
<1>5. cut.toSend = one.toSend /\ cut.haveSent = one.haveSent
      /\ cut.responses = one.responses
  <2> HIDE DEF one
  <2> QED  BY <1>1 DEF Trimmed, DataShape
<1>6. d'.toSend = two.toSend /\ d'.haveSent = two.haveSent
      /\ d'.responses = two.responses
  <2> HIDE DEF two
  <2> QED  BY <1>1, <1>4 DEF Trimmed, DataShape
<1> HIDE DEF one, cut, two
<1>7. one.responses = d.responses  BY <1>2, AckRemoves
<1>8. two.responses = cut.responses
  <2>1. ASSUME NEW is, NEW b, two = AckAll(cut, is, b)
        PROVE  two.responses = cut.responses
        BY <1>1, <2>1, AckRemoves
  <2> QED  BY Zenon, <1>3, <2>1
<1>9. /\ q \in cut.toSend => q \in two.toSend
      /\ \A e \in cut.haveSent : e.kind = "request" /\ e.r = q => e \in two.haveSent
      BY Zenon, <1>1, <1>3, AckKeeps
<1>10. /\ q \in one.toSend => q \in d'.toSend
       /\ \A e \in one.haveSent : e.kind = "request" /\ e.r = q => e \in d'.haveSent
       /\ d'.responses = d.responses
       BY <1>5, <1>6, <1>7, <1>8, <1>9
<1> QED  BY Zenon, <1>10 DEF one

\* An id that entered _wereAcked is there, or its callback will be cleared.
LEMMA AckedStays ==
    ASSUME DataShape(d), NEW ids, NEW by, Acked(ids, by),
           NEW p \in Round1(ids, by).wereAcked
    PROVE  p \in d'.wereAcked \/ p[2] \in clears'
<1> DEFINE one == Round1(ids, by)
           cut == Trimmed(one)
           two == Round2(ids, by)
<1>1. DataShape(one) /\ DataShape(cut) /\ DataShape(two)  BY AckedShape
<1>2. two = AckAll(cut, Contained(ids), FALSE)  BY Zenon DEF Round2
<1>3. d' = Trimmed(two)  BY AckedIs
<1>4. clears' = clears \cup {x[2] : x \in TooOld(one.wereAcked) \cup TooOld(two.wereAcked)}
      BY AckedIs
<1>5. cut.wereAcked = one.wereAcked \ TooOld(one.wereAcked)
  <2> HIDE DEF one
  <2> QED  BY <1>1 DEF Trimmed, DataShape
<1>6. d'.wereAcked = two.wereAcked \ TooOld(two.wereAcked)
  <2> HIDE DEF two
  <2> QED  BY <1>1, <1>3 DEF Trimmed, DataShape
<1>7. p \in one.wereAcked  OBVIOUS
<1> HIDE DEF one, cut, two
<1>8. cut.wereAcked \subseteq two.wereAcked
  <2>1. ASSUME NEW is, NEW b, two = AckAll(cut, is, b)
        PROVE  cut.wereAcked \subseteq two.wereAcked
        BY <1>1, <2>1, AckRemoves
  <2> QED  BY Zenon, <1>2, <2>1
<1>9. CASE p \in TooOld(one.wereAcked)  BY <1>4, <1>9
<1>10. CASE p \notin TooOld(one.wereAcked)
  <2>1. p \in two.wereAcked  BY <1>5, <1>7, <1>8, <1>10
  <2> QED  BY <1>4, <1>6, <2>1
<1> QED  BY <1>9, <1>10

\* Acknowledgements that are no responses.
LEMMA AckHolds ==
    ASSUME Shape, NEW ids, Acked(ids, FALSE), main' = main,
           NEW q \in parser, Held(q)
    PROVE  Held(q)'
<1>1. DataShape(d)  BY DEF Shape
<1>2. Round1(ids, FALSE) = AckAll(d, ids, FALSE)  BY Zenon DEF Round1
<1>3. /\ q \in Round1(ids, FALSE).toSend => q \in d'.toSend
      /\ \A e \in Round1(ids, FALSE).haveSent :
            e.kind = "request" /\ e.r = q => e \in d'.haveSent
      /\ d'.responses = d.responses
      BY Zenon, <1>1, RoundTwoKeeps
<1>4. clears \subseteq clears'
  <2>1. ASSUME NEW by, Acked(ids, by)  PROVE clears \subseteq clears'
        BY <2>1, AckedIs
  <2> QED  BY Zenon, <2>1
<1>5. /\ q \in d.toSend => q \in Round1(ids, FALSE).toSend
      /\ \A e \in d.haveSent :
            e.kind = "request" /\ e.r = q => e \in Round1(ids, FALSE).haveSent
      BY Zenon, <1>1, <1>2, AckKeeps
<1>6. /\ q \in d.toSend => q \in d'.toSend
      /\ \A e \in d.haveSent : e.kind = "request" /\ e.r = q => e \in d'.haveSent
      BY Zenon, <1>3, <1>5
<1> QED  BY <1>3, <1>4, <1>6 DEF Held

LEMMA KeepingAck ==
    ASSUME Shape, Keeping, NEW ids, Acked(ids, FALSE), conn.pc = "idle",
           conn' = conn, parser' = parser, main' = main
    PROVE  Keeping'
<1>1. ASSUME NEW q \in parser'  PROVE Tracked(q)'
  <2>1. Held(q)  BY <1>1 DEF Keeping, NoneForgotten, Tracked, Held
  <2>2. Held(q)'  BY <1>1, <2>1, AckHolds
  <2> QED  BY <2>2 DEF Tracked, Held
<1> QED  BY <1>1, KeepingSending

LEMMA KeepingResultAck ==
    ASSUME Shape, Naming, Keeping, NEW id, handleResultAck(id)
    PROVE  Keeping'
<1>1. PICK p \in server.due :
          /\ p[1] = id
          /\ conn' = [conn EXCEPT !.pc = "result", !.id = id, !.r = p[2],
                                  !.acks = @ \cup {id}]
      BY DEF handleResultAck
<1>2. /\ conn'.pc = "result" /\ conn'.id = id /\ conn'.r = p[2]
      BY <1>1 DEF Shape, ConnShape
<1>3. Named(id, p[2])
      BY <1>1 DEF Naming, NamedServer, AllNamed, NamedPair
<1>4. /\ parser' = parser /\ main' = main /\ conn.pc = "idle"
      /\ Acked({id}, TRUE)
      BY DEF handleResultAck, ConnFree
<1>5. PICK ids, by : ids = {id} /\ Acked(ids, by)
      BY Zenon, <1>4
<1> DEFINE one == Round1(ids, by)
<1>6. DataShape(d) /\ Ids /\ NamedData(d)  BY DEF Shape, Naming
<1>7. one = AckAll(d, ids, by)  BY Zenon DEF Round1
<1>8. \A q \in parser :
          /\ q \in one.toSend => q \in d'.toSend
          /\ \A e \in one.haveSent :
                 e.kind = "request" /\ e.r = q => e \in d'.haveSent
      BY <1>5, <1>6, RoundTwoKeeps
<1>9. d'.responses = d.responses \/ parser = {}
      BY <1>5, <1>6, RoundTwoKeeps
<1>10. clears \subseteq clears'  BY <1>5, AckedIs
<1>11. \A x \in one.wereAcked : x \in d'.wereAcked \/ x[2] \in clears'
       BY <1>5, <1>6, AckedStays
<1> HIDE DEF one
<1>12. /\ \A e \in d.haveSent : e.kind = "request" /\ e \notin one.haveSent =>
               e.id \in ids /\ <<e.id, e.r>> \in one.wereAcked
       /\ \A r \in d.toSend : r \notin one.toSend =>
               \E x \in d.toResend :
                   x[1] \in ids /\ x[2] = r /\ x \in one.wereAcked
       BY <1>6, <1>7, AckRemoves
<1>13. ASSUME NEW q \in parser, Held(q)
       PROVE  Held(q)' \/ (q = p[2] /\ <<id, p[2]>> \in d'.wereAcked)
  <2>1. CASE q \in d.responses \/ q \in clears
        BY <1>9, <1>10, <2>1 DEF Held
  <2>2. CASE main.pc \in {"taken", "cancel"} /\ main.r = q
        BY <1>4, <2>2 DEF Held
  <2>3. CASE q \in d.toSend /\ q \in one.toSend
        BY <1>8, <2>3 DEF Held
  <2>4. CASE q \in d.toSend /\ q \notin one.toSend
    <3>1. PICK x \in d.toResend : x[1] \in ids /\ x[2] = q /\ x \in one.wereAcked
          BY <1>12, <2>4
    <3>2. NamedPair(x)  BY <1>6 DEF NamedData, AllNamed
    <3>3. x = <<id, q>> /\ Named(id, q)  BY <1>5, <3>1, <3>2 DEF NamedPair
    <3>4. q = p[2]  BY <1>3, <1>6, <3>3 DEF Named, Ids
    <3>5. x \in d'.wereAcked \/ q \in clears'  BY <1>11, <3>1
    <3> QED  BY <3>3, <3>4, <3>5 DEF Held
  <2>5. ASSUME NEW e \in d.haveSent, e.kind = "request", e.r = q
        PROVE  Held(q)' \/ (q = p[2] /\ <<id, p[2]>> \in d'.wereAcked)
    <3>1. CASE e \in one.haveSent  BY <1>8, <2>5, <3>1 DEF Held
    <3>2. CASE e \notin one.haveSent
      <4>1. e.id = id /\ <<id, q>> \in one.wereAcked
            BY <1>5, <1>12, <2>5, <3>2
      <4>2. Named(id, q)  BY <1>6, <2>5, <4>1 DEF NamedData, NamedEntry
      <4>3. q = p[2]  BY <1>3, <1>6, <4>2 DEF Named, Ids
      <4>4. <<id, q>> \in d'.wereAcked \/ <<id, q>>[2] \in clears'
            BY <1>11, <4>1
      <4> QED  BY <4>3, <4>4 DEF Held
    <3> QED  BY <3>1, <3>2
  <2> QED  BY <1>13, <2>1, <2>2, <2>3, <2>4, <2>5 DEF Held
<1>14. \A q \in parser : Held(q)
       BY <1>4 DEF Keeping, NoneForgotten, Tracked, Held
<1>15. ASSUME NEW q \in parser'  PROVE Tracked(q)'
  <2>1. CASE q = p[2]  BY <1>2, <2>1 DEF Tracked
  <2>2. CASE q # p[2]
    <3>1. Held(q)'  BY <1>4, <1>13, <1>14, <1>15, <2>2
    <3> QED  BY <3>1 DEF Tracked, Held
  <2> QED  BY <2>1, <2>2
<1>16. ResultKnown'
  <2>1. ASSUME NEW q, q = p[2], q \in parser, Held(q)'
        PROVE  Held(conn.r)'
        BY <1>2, <2>1 DEF Held
  <2>2. ASSUME p[2] \in parser
        PROVE  Held(conn.r)' \/ <<conn'.id, conn'.r>> \in d'.wereAcked
    <3>1. PICK q \in parser : q = p[2]  BY <2>2
    <3>2. Held(q)' \/ <<id, p[2]>> \in d'.wereAcked  BY <1>13, <1>14, <3>1
    <3> QED  BY <1>2, <2>1, <3>1, <3>2
  <2> QED  BY <1>2, <1>4, <2>2 DEF ResultKnown
<1> QED  BY <1>15, <1>16 DEF Keeping, NoneForgotten

\* wasSent finds the request of an id wherever the id is.
LEMMA WasSentIs ==
    ASSUME Naming, NEW i, NEW r, Named(i, r)
    PROVE  /\ wasSent(i) \in {0, r}
           /\ (\E e \in d.haveSent : e.id = i) => wasSent(i) = r
           /\ <<i, r>> \in d.toResend \cup d.wereAcked => wasSent(i) = r
<1> DEFINE sent == InSent(i)
           other == {p \in d.toResend \cup d.wereAcked : p[1] = i}
<1>1. wasSent(i) =
          IF sent # {} THEN LET e == CHOOSE x \in sent : TRUE
                            IN  IF e.kind = "request" THEN e.r ELSE -1
          ELSE IF other # {} THEN (CHOOSE p \in other : TRUE)[2]
          ELSE 0
      BY Zenon DEF wasSent
<1>2. \A e \in sent : e \in d.haveSent /\ e.id = i  BY DEF InSent
<1>3. ASSUME NEW e \in sent  PROVE e.kind = "request" /\ e.r = r
  <2>1. NamedEntry(e) /\ e.id = i  BY <1>2 DEF Naming, NamedData
  <2>2. e.kind = "request" /\ Named(e.id, e.r)
        BY <2>1 DEF NamedEntry, Other, Named
  <2> QED  BY <2>1, <2>2 DEF Named, Naming, Ids
<1>4. ASSUME NEW p \in other  PROVE p[2] = r
  <2>1. NamedPair(p) /\ p[1] = i  BY DEF Naming, NamedData, AllNamed
  <2> QED  BY <2>1 DEF NamedPair, Named, Naming, Ids
<1>5. (\E e \in d.haveSent : e.id = i) => sent # {}  BY DEF InSent
<1>6. <<i, r>> \in d.toResend \cup d.wereAcked => other # {}
  <2>1. <<i, r>>[1] = i  OBVIOUS
  <2> QED  BY Zenon, <2>1
<1> HIDE DEF sent, other
<1>7. CASE sent # {}
  <2>1. (CHOOSE x \in sent : TRUE) \in sent  BY <1>7
  <2>2. wasSent(i) = r  BY <1>1, <1>3, <1>7, <2>1
  <2> QED  BY <2>2
<1>8. CASE sent = {} /\ other # {}
  <2>1. (CHOOSE p \in other : TRUE) \in other  BY <1>8
  <2>2. wasSent(i) = r  BY <1>1, <1>4, <1>8, <2>1
  <2> QED  BY <2>2
<1>9. CASE sent = {} /\ other = {}
  <2>1. wasSent(i) = 0  BY <1>1, <1>9
  <2> QED  BY <1>5, <1>6, <1>9, <2>1
<1> QED  BY <1>7, <1>8, <1>9

LEMMA KeepingResult ==
    ASSUME Shape, Naming, Keeping, handleResult
    PROVE  Keeping'
<1>1. /\ parser' = parser /\ main' = main /\ clears' = clears /\ conn.pc = "result"
      BY DEF handleResult
<1>2. conn'.pc = "idle"  BY DEF handleResult, Shape, ConnShape
<1>3. Named(conn.id, conn.r)  BY <1>1 DEF Naming, NamedConn
<1>4. conn.r \in Nat /\ conn.r > 0
  <2>1. conn.r \in Reqs  BY <1>3 DEF Named
  <2>2. conn.r \in Nat /\ conn.r # 0  BY <2>1, ReqsNat
  <2> QED  BY <2>2
<1>5. wasSent(conn.id) \in {0, conn.r}  BY <1>3, WasSentIs
<1>6. /\ d'.toSend = d.toSend /\ d'.haveSent = d.haveSent
      /\ d.responses \subseteq d'.responses
      /\ wasSent(conn.id) = conn.r => conn.r \in d'.responses
  <2>1. d' = IF wasSent(conn.id) > 0
             THEN [d EXCEPT !.responses = @ \cup {wasSent(conn.id)}] ELSE d
        BY Zenon DEF handleResult
  <2>2. CASE wasSent(conn.id) = 0
        BY <1>4, <2>1, <2>2
  <2>3. CASE wasSent(conn.id) = conn.r
    <3>1. d' = [d EXCEPT !.responses = @ \cup {conn.r}]  BY <1>4, <2>1, <2>3
    <3> QED  BY <3>1 DEF Shape, DataShape
  <2> QED  BY <1>5, <2>2, <2>3
<1>7. ASSUME NEW q, Held(q)  PROVE Held(q)'
      BY <1>1, <1>6, <1>7 DEF Held
<1>8. ASSUME NEW q \in parser'  PROVE Tracked(q)'
  <2>1. Held(q) \/ q = conn.r
        BY <1>1, <1>8 DEF Keeping, NoneForgotten, Tracked, Held
  <2>2. CASE Held(q)  BY <1>7, <2>2 DEF Tracked, Held
  <2>3. CASE q = conn.r /\ wasSent(conn.id) = conn.r
        BY <1>6, <2>3 DEF Tracked
  <2>4. CASE q = conn.r /\ wasSent(conn.id) # conn.r
    <3>1. <<conn.id, conn.r>> \notin d.toResend \cup d.wereAcked
          BY <1>3, <2>4, WasSentIs
    <3>2. Held(q)  BY <1>1, <1>8, <2>4, <3>1 DEF Keeping, ResultKnown
    <3> QED  BY <1>7, <3>2 DEF Tracked, Held
  <2> QED  BY <2>1, <2>2, <2>3, <2>4
<1> QED  BY <1>2, <1>8, KeepingSending

\* The steps of receiving that take nothing away.
LEMMA KeepingReceiving ==
    ASSUME Keeping, parser' = parser, main' = main, clears \subseteq clears',
           d'.toSend = d.toSend, d'.haveSent = d.haveSent,
           d'.toResend = d.toResend, d'.wereAcked = d.wereAcked,
           d'.responses = d.responses,
           conn'.pc = conn.pc, conn'.id = conn.id, conn'.r = conn.r
    PROVE  Keeping'
<1>1. ASSUME NEW q, Held(q)  PROVE Held(q)'
      BY <1>1, HeldKept
<1> QED  BY <1>1, KeepingKept

LEMMA KeepingStates ==
    ASSUME Shape, Keeping, NEW m \in s2c, handleMsgsStates(m)
    PROVE  Keeping'
<1>1. /\ conn' = conn /\ parser' = parser /\ main' = main /\ conn.pc = "idle"
      BY DEF handleMsgsStates, ConnFree
<1>2. (d' = d /\ clears' = clears) \/ \E is : Acked(is, FALSE)
      BY Zenon DEF handleMsgsStates
<1>3. ASSUME NEW is, Acked(is, FALSE)  PROVE Keeping'
      BY Zenon, <1>1, <1>3, KeepingAck
<1>4. CASE d' = d /\ clears' = clears  BY <1>1, <1>4, KeepingReceiving
<1>5. CASE \E is : Acked(is, FALSE)
  <2>1. PICK is : Acked(is, FALSE)  BY Zenon, <1>5
  <2> QED  BY Zenon, <1>3, <2>1
<1> QED  BY <1>2, <1>4, <1>5

LEMMA KeepingReset ==
    ASSUME Shape, Keeping, NEW m \in s2c, handleReset(m)
    PROVE  Keeping'
<1>1. /\ parser' = parser /\ main' = main /\ clears' = clears
      BY DEF handleReset
<1>2. /\ d'.toSend = d.toSend /\ d'.haveSent = d.haveSent
      /\ d'.toResend = d.toResend /\ d'.wereAcked = d.wereAcked
      /\ d'.responses = d.responses
      /\ conn'.pc = conn.pc /\ conn'.id = conn.id /\ conn'.r = conn.r
  <2>1. CASE wasSent(m.id) = 0  BY <2>1 DEF handleReset
  <2>2. CASE wasSent(m.id) # 0
    <3>1. /\ conn' = [conn EXCEPT !.up = FALSE, !.restarted = TRUE, !.acks = {}]
          /\ d' = [d EXCEPT !.stateRequest = {}]
          BY <2>2 DEF handleReset
    <3> QED  BY <3>1 DEF Shape, ConnShape, DataShape
  <2> QED  BY <2>1, <2>2
<1> QED  BY <1>1, <1>2, KeepingReceiving

LEMMA KeepingUp ==
    ASSUME Shape, Keeping, restart \/ authKeyCreated
    PROVE  Keeping'
<1>1. /\ d' = d /\ parser' = parser /\ main' = main /\ clears' = clears
      BY DEF restart, authKeyCreated
<1>2. conn'.pc = conn.pc /\ conn'.id = conn.id /\ conn'.r = conn.r
      BY DEF restart, authKeyCreated, Shape, ConnShape
<1> QED  BY <1>1, <1>2, KeepingReceiving

LEMMA KeepingStep == Shape /\ Naming /\ Keeping /\ [Next]_vars => Keeping'
<1> SUFFICES ASSUME Shape, Naming, Keeping, [Next]_vars  PROVE Keeping'
    OBVIOUS
<1>1. ASSUME NEW r \in Reqs, SendRequest(r)  PROVE Keeping'
      BY <1>1, KeepingSendRequest
<1>2. CASE resendStart  BY <1>2, KeepingResendStart
<1>3. CASE resendTake  BY <1>3, KeepingResendTake
<1>4. CASE resendQueue  BY <1>4, KeepingResendQueue
<1>5. CASE resendMark  BY <1>5, KeepingResendMark
<1>6. CASE checkRequestsByTimer  BY <1>6, KeepingTimer
<1>7. ASSUME NEW r \in Reqs, cancelToSend(r)  PROVE Keeping'
      BY <1>7, KeepingCancel
<1>8. CASE cancelHaveSent  BY <1>8, KeepingCancelled
<1>9. CASE tryToReceive  BY <1>9, KeepingCallbacks
<1>10. ASSUME NEW r \in clears, clearCallbacks(r)  PROVE Keeping'
       BY <1>10, KeepingCallbacks
<1>11. CASE sendSingleTake  BY <1>11, KeepingSingleTake
<1>12. CASE sendSingle  BY <1>12, KeepingSingle
<1>13. CASE sendService  BY <1>13, KeepingService
<1>14. CASE sendContainer  BY <1>14, KeepingContainer
<1>15. ASSUME NEW id, handleAck(id)  PROVE Keeping'
  <2>1. /\ conn' = conn /\ parser' = parser /\ main' = main /\ conn.pc = "idle"
        /\ Acked({id}, FALSE)
        BY Zenon, <1>15 DEF handleAck, ConnFree
  <2> QED  BY Zenon, <2>1, KeepingAck
<1>16. ASSUME NEW id, handleResultAck(id)  PROVE Keeping'
       BY <1>16, KeepingResultAck
<1>17. CASE handleResult  BY <1>17, KeepingResult
<1>18. ASSUME NEW m \in s2c, handleRejected(m)  PROVE Keeping'
       BY <1>18, KeepingReceiving DEF handleRejected
<1>19. ASSUME NEW m \in s2c, handleFatal(m)  PROVE Keeping'
       BY <1>19, KeepingReceiving DEF handleFatal
<1>20. ASSUME NEW m \in s2c, handleReset(m)  PROVE Keeping'
       BY <1>20, KeepingReset
<1>21. ASSUME NEW m \in s2c, handleMsgsStates(m)  PROVE Keeping'
       BY <1>21, KeepingStates
<1>22. ASSUME NEW m \in s2c, handleNewSession(m)  PROVE Keeping'
       BY <1>22, KeepingReceiving DEF handleNewSession
<1>23. CASE restart  BY <1>23, KeepingUp
<1>24. CASE authKeyCreated  BY <1>24, KeepingUp
<1>25. ASSUME NEW p \in c2s, NEW forgets \in BOOLEAN, serverTake(p, forgets)
       PROVE Keeping'
       BY <1>25, KeepingReceiving DEF serverTake
<1>26. ASSUME NEW p \in c2s, NEW how \in limit.how, serverReject(p, how)
       PROVE Keeping'
       BY <1>26, KeepingReceiving DEF serverReject
<1>27. CASE UNCHANGED vars  BY <1>27, KeepingReceiving DEF vars
<1> QED
    BY <1>1, <1>2, <1>3, <1>4, <1>5, <1>6, <1>7, <1>8, <1>9, <1>10, <1>11,
       <1>12, <1>13, <1>14, <1>15, <1>16, <1>17, <1>18, <1>19, <1>20, <1>21,
       <1>22, <1>23, <1>24, <1>25, <1>26, <1>27
    DEF Next, resend, cancel, tryToSend, handleMessage, deliver, serverStep

\* No request is forgotten, for any number of requests and any interleaving
\* of the two threads: an answer moves it to _wereAcked before the response
\* is stored, resend takes it out of _haveSent before it is in _toSend
\* again, _wereAcked is trimmed and a cancel comes in two steps, and still a
\* request whose handler waits is in a map, in the hands of a thread, or has
\* its response or its error on the way to the main thread.
THEOREM SessionForgetsNone == Spec => []NoneForgotten
<1>1. Keeping => NoneForgotten  BY DEF Keeping
<1>2. Spec => []Keeping
      BY NamesHold, KeepingInit, KeepingStep, PTL DEF Spec
<1> QED  BY <1>1, <1>2, PTL

\* The invariant the three follow from, in which the ids matter most: all
\* that the threads, the network and the server hold under the id of a
\* request is of the one request that has it.
THEOREM SessionInductiveInvariant == Spec => []IInv
<1>1. Init => IInv
      BY ShapeInit, HandlingInit, NamingInit, ExecutingInit, KeepingInit DEF IInv
<1>2. IInv /\ [Next]_vars => IInv'
      BY ShapeStep, HandlingStep, NamingStep, ExecutingStep, KeepingStep DEF IInv
<1> QED  BY <1>1, <1>2, PTL DEF Spec

-----------------------------------------------------------------------------
(* Received message ids.  An id that left the buffer is smaller than all the *)
(* ids in it, and the buffer is full, so registerMsgId refuses the id when   *)
(* it comes again.                                                           *)

USE BufferAssumption

\* registerMsgId keeps the invariant: an id that is recent and not in the
\* buffer was never let through, and it is larger than what was forgotten.
LEMMA RegisterKeeps ==
    ASSUME ReceivedInv, NEW id \in MsgIds, registerMsgId(id), open' \in BOOLEAN
    PROVE  ReceivedInv'
<1>1. id \notin registered
  <2> SUFFICES ASSUME id \in registered PROVE FALSE
      OBVIOUS
  <2>1. id \in registered \ idsNeedAck
      BY DEF registerMsgId
  <2>2. /\ Cardinality(idsNeedAck) >= kIdsBufferSize
        /\ \A i \in idsNeedAck : id < i
      BY <2>1 DEF ReceivedInv, Forgotten
  <2>3. Cardinality(idsNeedAck) \in Nat
      BY FS_CardinalityType DEF ReceivedInv, ReceivedTypeOK
  <2>4. \E i \in idsNeedAck : i < id
      BY <2>2, <2>3 DEF registerMsgId, Recent
  <2> QED
      BY <2>2, <2>4 DEF ReceivedInv, ReceivedTypeOK
<1>2. Cardinality(idsNeedAck') = Cardinality(idsNeedAck) + 1 /\ IsFiniteSet(idsNeedAck')
  <2>1. IsFiniteSet(idsNeedAck) /\ id \notin idsNeedAck /\ idsNeedAck' = idsNeedAck \cup {id}
      BY DEF ReceivedInv, ReceivedTypeOK, registerMsgId
  <2> QED
      BY <2>1, FS_AddElement
<1>3. Cardinality(idsNeedAck) \in Nat
    BY FS_CardinalityType DEF ReceivedInv, ReceivedTypeOK
<1>4. ReceivedTypeOK' /\ (idsNeedAck \subseteq registered)'
    BY <1>2 DEF ReceivedInv, ReceivedTypeOK, registerMsgId
<1>5. NoneRepeated'
    BY <1>1 DEF ReceivedInv, NoneRepeated, registerMsgId
<1>6. Forgotten'
  <2> SUFFICES ASSUME NEW h \in registered' \ idsNeedAck'
               PROVE  /\ Cardinality(idsNeedAck') >= kIdsBufferSize
                      /\ \A i \in idsNeedAck' : h < i
      BY DEF Forgotten
  <2>1. h \in registered \ idsNeedAck
      BY DEF registerMsgId
  <2>2. Cardinality(idsNeedAck) >= kIdsBufferSize /\ \A i \in idsNeedAck : h < i
      BY <2>1 DEF ReceivedInv, Forgotten
  <2>3. \E i \in idsNeedAck : i < id
      BY <2>2, <1>3 DEF registerMsgId, Recent
  <2>4. h < id
      BY <2>1, <2>2, <2>3 DEF ReceivedInv, ReceivedTypeOK
  <2>5. Cardinality(idsNeedAck') >= kIdsBufferSize
      BY <2>2, <1>2, <1>3
  <2> QED
      BY <2>2, <2>4, <2>5 DEF registerMsgId
<1> QED
    BY <1>4, <1>5, <1>6 DEF ReceivedInv

\* shrink keeps it: only the smallest ids are erased, and only when more
\* than kIdsBufferSize remain.
LEMMA ShrinkKeeps ==
    ASSUME ReceivedInv, shrink
    PROVE  ReceivedInv'
<1>1. PICK kept \in SUBSET idsNeedAck : Shrunk(kept) /\ idsNeedAck' = kept
    BY DEF shrink
<1>2. IsFiniteSet(kept) /\ Cardinality(idsNeedAck) \in Nat
    BY <1>1, FS_Subset, FS_CardinalityType DEF ReceivedInv, ReceivedTypeOK
<1>3. ReceivedTypeOK' /\ (idsNeedAck \subseteq registered)' /\ NoneRepeated'
    BY <1>1, <1>2 DEF ReceivedInv, ReceivedTypeOK, NoneRepeated, shrink
<1>4. CASE Cardinality(idsNeedAck) <= kIdsBufferSize
  <2>1. idsNeedAck' = idsNeedAck /\ registered' = registered
      BY <1>1, <1>4 DEF Shrunk, shrink
  <2> QED
      BY <2>1, <1>3 DEF ReceivedInv, Forgotten
<1>5. CASE ~(Cardinality(idsNeedAck) <= kIdsBufferSize)
  <2>1. /\ Cardinality(kept) = kIdsBufferSize
        /\ \A i \in kept, j \in idsNeedAck \ kept : j < i
      BY <1>1, <1>5 DEF Shrunk
  <2>2. Cardinality(idsNeedAck') >= kIdsBufferSize
      BY <2>1, <1>1
  <2>3. ASSUME NEW h \in registered' \ idsNeedAck' PROVE \A i \in idsNeedAck' : h < i
    <3>1. CASE h \in idsNeedAck
        BY <3>1, <2>1, <2>3, <1>1
    <3>2. CASE h \notin idsNeedAck
      <4>1. h \in registered \ idsNeedAck
          BY <3>2, <2>3 DEF shrink
      <4> QED
          BY <4>1, <1>1 DEF ReceivedInv, Forgotten
    <3> QED
        BY <3>1, <3>2
  <2> QED
      BY <2>2, <2>3, <1>3 DEF ReceivedInv, Forgotten
<1> QED
    BY <1>4, <1>5

\* Every step keeps the invariant.
LEMMA StepKeeps ==
    ASSUME ReceivedInv, [ReceivedNext]_receivedVars
    PROVE  ReceivedInv'
<1>1. CASE UNCHANGED receivedVars
    BY <1>1 DEF ReceivedInv, ReceivedTypeOK, Forgotten, NoneRepeated, receivedVars
<1>2. ASSUME NEW id \in MsgIds, handleReceived(id) PROVE ReceivedInv'
  <2>1. CASE registerMsgId(id)
      BY <2>1, <1>2, RegisterKeeps DEF handleReceived
  <2>2. CASE UNCHANGED <<idsNeedAck, registered, repeated>>
      BY <2>2, <1>2 DEF ReceivedInv, ReceivedTypeOK, Forgotten, NoneRepeated, handleReceived
  <2> QED
      BY <2>1, <2>2, <1>2 DEF handleReceived
<1>3. ASSUME NEW id \in MsgIds, handleContained(id) PROVE ReceivedInv'
  <2>1. registerMsgId(id) /\ open' \in BOOLEAN
      BY <1>3 DEF handleContained, ReceivedInv, ReceivedTypeOK
  <2> QED
      BY <2>1, RegisterKeeps
<1>4. CASE shrink
    BY <1>4, ShrinkKeeps
<1>5. CASE clear
  <2>1. IsFiniteSet({})
      BY FS_EmptySet
  <2> QED
      BY <1>5, <2>1 DEF clear, ReceivedInv, ReceivedTypeOK, Forgotten, NoneRepeated
<1> QED
    BY <1>1, <1>2, <1>3, <1>4, <1>5 DEF ReceivedNext

\* No message of the server is let through twice, whatever it repeats and
\* however small the buffer is.
THEOREM MessagesHandledOnce == ReceivedSpec => []NoneRepeated
<1>1. ReceivedInit => ReceivedInv
    BY FS_EmptySet DEF ReceivedInit, ReceivedInv, ReceivedTypeOK, Forgotten, NoneRepeated
<1>2. ReceivedInv /\ [ReceivedNext]_receivedVars => ReceivedInv'
    BY StepKeeps
<1>3. ReceivedInv => NoneRepeated
    BY DEF ReceivedInv
<1> QED
    BY <1>1, <1>2, <1>3, PTL DEF ReceivedSpec

\* What msgs_state_req is answered is true at all times.
THEOREM StateToldHolds == ReceivedSpec => []StateTold
<1>1. ReceivedInit => ReceivedInv
    BY FS_EmptySet DEF ReceivedInit, ReceivedInv, ReceivedTypeOK, Forgotten, NoneRepeated
<1>2. ReceivedInv /\ [ReceivedNext]_receivedVars => ReceivedInv'
    BY StepKeeps
<1>3. ReceivedInv => StateTold
  <2> SUFFICES ASSUME ReceivedInv, NEW id \in MsgIds
               PROVE  /\ StateOf(id) \in {"notReceived", "notReceivedYet"}
                            => id \notin registered
                      /\ StateOf(id) = "received" => id \in registered
      BY DEF StateTold
  <2>1. CASE id \in idsNeedAck
    <3>1. StateOf(id) = "received"
        BY <2>1 DEF StateOf, ReceivedInv, ReceivedTypeOK
    <3> QED
        BY <3>1, <2>1 DEF ReceivedInv
  <2>2. CASE id \in registered \ idsNeedAck
    <3>1. Cardinality(idsNeedAck) >= kIdsBufferSize /\ \A i \in idsNeedAck : id < i
        BY <2>2 DEF ReceivedInv, Forgotten
    <3>2. idsNeedAck # {}
        BY <3>1, FS_EmptySet
    <3>3. StateOf(id) = "unknown"
        BY <3>1, <3>2 DEF StateOf
    <3> QED
        BY <3>3
  <2>3. CASE id \notin registered /\ id \notin idsNeedAck
      BY <2>3 DEF StateOf
  <2> QED
      BY <2>1, <2>2, <2>3 DEF ReceivedInv
<1> QED
    BY <1>1, <1>2, <1>3, PTL DEF ReceivedSpec
=============================================================================
