----------------------------- MODULE MtpSession -----------------------------
(***************************************************************************)
(* One MTProto session: the requests the main thread hands over            *)
(* (mtproto/session.cpp, mtp_instance.cpp), the connection thread that     *)
(* sends them and reads the answers (mtproto/connection.cpp), and the maps *)
(* of SessionData the two threads share, each behind a lock of its own.    *)
(*                                                                         *)
(* A request keeps its message id when it is sent again, which is how the  *)
(* server knows a repeated request from a new one.  Resending on the main  *)
(* thread takes three separately locked steps; a lone request leaves       *)
(* _toSend and enters _haveSent in two.  Between them the other thread may *)
(* do anything.                                                            *)
(*                                                                         *)
(* The server and the network are external.  What is on its way is lost    *)
(* when the connection breaks.  The server answers a message it gets a     *)
(* second time, and on a new connection every answer that was not          *)
(* acknowledged.  Pings, HTTP long polling, layer wrapping, the key        *)
(* exchange and a clock that moves back (replaceMsgId) are left out.       *)
(***************************************************************************)
EXTENDS Integers, Sequences, FiniteSets, SequencesExt

CONSTANTS
    Reqs,          \* request ids, numbers: _toSend is sorted by them
    Handlers,      \* the requests that have a response handler
    IdsBuffer,     \* kIdsBufferSize
    Limits         \* bounds, of which a behaviour has one: the requests made,
                   \* broken connections, packets rejected and how, sessions
                   \* forgotten, state requests of the timer, cancels,
                   \* and whether it is fair

RejectKinds == {"salt", "badMsg", "fatal", "reset"}

ASSUME ConstantsAssumption ==
    /\ Reqs \subseteq Nat \ {0} /\ IsFiniteSet(Reqs)
    /\ Handlers \subseteq Reqs
    /\ IdsBuffer \in Nat \ {0}
    /\ \A l \in Limits :
          /\ l.fair \in BOOLEAN /\ l.reqs \subseteq Reqs /\ l.how \subseteq RejectKinds
          /\ {l.breaks, l.rejects, l.forgets, l.timers, l.cancels} \subseteq Nat

VARIABLES
    limit,     \* rigid: the bounds of this behaviour
    d,         \* SessionData: the maps shared by the two threads
    mid,       \* the message id in the buffer of a request, 0 when none
    forced,    \* msDate = 0: the request may only go in a container
    parser,    \* _parserMap: requests whose handler waits for a response
    main,      \* the main thread: where it is inside resend or cancel
    signals,   \* queued calls of resend and resendAll
    clears,    \* queued calls of clearCallbacks
    conn,      \* the connection thread
    nextId,    \* what msgid() returns next; an id that no map ever holds
               \* (of acknowledgements, or made and not used) takes no number
    c2s, s2c,  \* packets and service messages on their way
    server,    \* the session as the server knows it
    count,     \* how often the bounded events happened
    hist       \* history: what happened to every request

vars == <<limit, d, mid, forced, parser, main, signals, clears, conn, nextId,
          c2s, s2c, server, count, hist>>

Idle == [pc |-> "idle", stack |-> <<>>, id |-> 0, r |-> 0, force |-> FALSE]
ConnIdle == [up |-> TRUE, restarted |-> FALSE, pc |-> "idle", id |-> 0, r |-> 0,
             acks |-> {}]
NewServer == [seen |-> {}, taken |-> {}, answers |-> {}, due |-> {}]

Init ==
    /\ limit \in Limits
    /\ d = [toSend |-> {}, haveSent |-> {}, toResend |-> {}, wereAcked |-> {},
            responses |-> {}, stateRequest |-> {}]
    /\ mid = [r \in Reqs |-> 0] /\ forced = [r \in Reqs |-> FALSE]
    /\ parser = {} /\ main = Idle /\ signals = <<>> /\ clears = {}
    /\ conn = ConnIdle /\ nextId = 1 /\ c2s = {} /\ s2c = {}
    /\ server = NewServer
    /\ count = [breaks |-> 0, rejects |-> 0, forgets |-> 0, timers |-> 0]
    /\ hist = [started |-> {}, cancelled |-> {}, failed |-> {},
               handled |-> [r \in Reqs |-> 0], executed |-> [r \in Reqs |-> 0],
               lost |-> {}]

\* Entries of _haveSent: a request, a container or a state request.
Sent(id, r)       == [id |-> id, kind |-> "request", r |-> r, ids |-> {}]
Container(id, is) == [id |-> id, kind |-> "container", r |-> 0, ids |-> is]
StateReq(id, is)  == [id |-> id, kind |-> "state", r |-> 0, ids |-> is]

InSent(id)  == {e \in d.haveSent : e.id = id}
Smaller(a, b) == a < b
Sorted(S)   == SetToSortSeq(S, Smaller)

\* ConnectionPrivate::wasSent: the request of a message id, 0 when unknown,
\* -1 for a container or a state request (0xFFFFFFFF).
wasSent(id) ==
    LET sent == InSent(id)
        other == {p \in d.toResend \cup d.wereAcked : p[1] = id}
    IN  IF sent # {} THEN LET e == CHOOSE x \in sent : TRUE
                          IN  IF e.kind = "request" THEN e.r ELSE -1
        ELSE IF other # {} THEN (CHOOSE p \in other : TRUE)[2]
        ELSE 0

-----------------------------------------------------------------------------
(* The main thread. *)

MainFree == main.pc = "idle" /\ main.stack = <<>>

\* Instance::Private::sendRequest and Session::sendPrepared.
SendRequest(r) ==
    /\ MainFree
    /\ r \in limit.reqs \ hist.started
    /\ hist' = [hist EXCEPT !.started = @ \cup {r}]
    /\ parser' = parser \cup ({r} \cap Handlers)
    /\ mid' = [mid EXCEPT ![r] = 0]
    /\ forced' = [forced EXCEPT ![r] = FALSE]
    /\ d' = [d EXCEPT !.toSend = @ \cup {r}]
    /\ UNCHANGED <<limit, main, signals, clears, conn, nextId, c2s, s2c,
                   server, count>>

\* A queued call of resend, resendMany or resendAll starts; resendAll takes
\* everything with a request id from _haveSent.
resendStart ==
    /\ MainFree
    /\ signals # <<>>
    /\ signals' = Tail(signals)
    /\ LET s == Head(signals)
           all == {e.id : e \in {x \in d.haveSent : x.kind # "container"}}
           ids == IF s.all THEN Sorted(all) ELSE <<s.id>>
       IN  main' = [main EXCEPT !.stack =
               [i \in DOMAIN ids |-> [id |-> ids[i], force |-> s.all \/ s.force]]]
    /\ UNCHANGED <<limit, d, mid, forced, parser, clears, conn, nextId, c2s,
                   s2c, server, count, hist>>

\* _haveSent after resend took an entry out of it.
TakenOut(found) == d.haveSent \ found

\* Session::resend, the step under the lock of _haveSent: the entry is
\* removed; a container is replaced by what it holds, a state request is
\* dropped, a request goes on.
resendTake ==
    /\ main.pc = "idle" /\ main.stack # <<>>
    /\ LET top == Head(main.stack)
           found == InSent(top.id)
           rest == [main EXCEPT !.stack = Tail(@)]
           inner(e) == [i \in DOMAIN Sorted(e.ids) |->
                           [id |-> Sorted(e.ids)[i], force |-> TRUE]]
       IN  /\ d' = [d EXCEPT !.haveSent = TakenOut(found)]
           /\ \/ /\ \A e \in found : e.kind = "state"
                 /\ main' = rest
              \/ \E e \in found :
                    /\ e.kind = "container"
                    /\ main' = [rest EXCEPT !.stack = inner(e) \o @]
              \/ \E e \in found :
                    /\ e.kind = "request"
                    /\ main' = [rest EXCEPT !.pc = "taken", !.id = e.id,
                                            !.r = e.r, !.force = top.force]
    /\ UNCHANGED <<limit, mid, forced, parser, signals, clears, conn, nextId,
                   c2s, s2c, server, count, hist>>

\* Mutant: the request is sent again as a new one.
KeptIdReset(r) == 0

\* The message id that sendPrepared leaves in a request it sends again.
KeptId(r) == mid[r]

\* Session::resend, the call of sendPrepared.
resendQueue ==
    /\ main.pc = "taken"
    /\ forced' = [forced EXCEPT ![main.r] = main.force]
    /\ mid' = [mid EXCEPT ![main.r] = KeptId(main.r)]
    /\ d' = [d EXCEPT !.toSend = @ \cup {main.r}]
    /\ main' = [main EXCEPT !.pc = "queued"]
    /\ UNCHANGED <<limit, parser, signals, clears, conn, nextId, c2s, s2c,
                   server, count, hist>>

\* Session::resend, the step under the lock of _toResend.
resendMark ==
    /\ main.pc = "queued"
    /\ d' = [d EXCEPT !.toResend = @ \cup {<<main.id, main.r>>}]
    /\ main' = [Idle EXCEPT !.stack = main.stack]
    /\ UNCHANGED <<limit, mid, forced, parser, signals, clears, conn, nextId,
                   c2s, s2c, server, count, hist>>

\* Session::checkRequestsByTimer: requests without an answer for 10 seconds
\* have their state requested, here all of them at once.
\* Containers without an answer for 10 minutes are not dropped.
checkRequestsByTimer ==
    /\ MainFree
    /\ count.timers < limit.timers
    /\ LET old == {e.id : e \in {x \in d.haveSent : x.kind = "request"}}
       IN  /\ old # {}
           /\ d' = [d EXCEPT !.stateRequest = @ \cup old]
    /\ count' = [count EXCEPT !.timers = @ + 1]
    /\ UNCHANGED <<limit, mid, forced, parser, main, signals, clears, conn,
                   nextId, c2s, s2c, server, hist>>

\* Instance::Private::cancel reads the message id, Session::cancel removes
\* the request from _toSend ...
cancelToSend(r) ==
    /\ MainFree
    /\ r \in hist.started \ hist.cancelled
    /\ Cardinality(hist.cancelled) < limit.cancels
    /\ d' = [d EXCEPT !.toSend = @ \ {r}]
    /\ main' = [main EXCEPT !.pc = "cancel", !.id = mid[r], !.r = r]
    /\ hist' = [hist EXCEPT !.cancelled = @ \cup {r}]
    /\ UNCHANGED <<limit, mid, forced, parser, signals, clears, conn, nextId,
                   c2s, s2c, server, count>>

\* ... then from _haveSent, and the handler is forgotten.
cancelHaveSent ==
    /\ main.pc = "cancel"
    /\ d' = [d EXCEPT !.haveSent = @ \ InSent(main.id)]
    /\ parser' = parser \ {main.r}
    /\ main' = Idle
    /\ UNCHANGED <<limit, mid, forced, signals, clears, conn, nextId, c2s, s2c,
                   server, count, hist>>

\* Instance::Private::execCallback takes the handler out of _parserMap.
TakeParser(r) == parser \ {r}

\* Session::tryToReceive: the response of the smallest request id.
tryToReceive ==
    /\ MainFree
    /\ d.responses # {}
    /\ LET r == Min(d.responses)
       IN  /\ d' = [d EXCEPT !.responses = @ \ {r}]
           /\ parser' = TakeParser(r)
           /\ hist' = IF r \in parser THEN [hist EXCEPT !.handled[r] = @ + 1]
                                      ELSE hist
    /\ UNCHANGED <<limit, mid, forced, main, signals, clears, conn, nextId,
                   c2s, s2c, server, count>>

\* Mutant: the handler is called although it was taken before.
FailedHandlerAlways(r) == {r}

\* The handler that clearCallbacks calls, if it finds one in _parserMap.
FailedHandler(r) == {r} \cap parser

\* Instance::Private::clearCallbacks with an error code.
clearCallbacks(r) ==
    /\ MainFree
    /\ r \in clears
    /\ clears' = clears \ {r}
    /\ parser' = parser \ {r}
    /\ hist' = [hist EXCEPT !.failed = @ \cup FailedHandler(r)]
    /\ UNCHANGED <<limit, d, mid, forced, main, signals, conn, nextId, c2s,
                   s2c, server, count>>

-----------------------------------------------------------------------------
(* The connection thread, sending (ConnectionPrivate::tryToSend). *)

ConnFree == conn.pc = "idle" /\ conn.up

ToSendCount == Cardinality(d.toSend) + (IF conn.acks # {} THEN 1 ELSE 0)
                                     + (IF d.stateRequest # {} THEN 1 ELSE 0)

Packet(id, msgs, acks, sid, asked) ==
    [id |-> id, msgs |-> msgs, acks |-> acks, sid |-> sid, asked |-> asked]

\* A lone request leaves _toSend, whose lock is released ...
sendSingleTake ==
    /\ ConnFree
    /\ ToSendCount = 1
    /\ \E r \in d.toSend :
          /\ ~forced[r]
          /\ conn' = [conn EXCEPT !.pc = "single", !.r = r]
    /\ d' = [d EXCEPT !.toSend = {}]
    /\ UNCHANGED <<limit, mid, forced, parser, main, signals, clears, nextId,
                   c2s, s2c, server, count, hist>>

\* ... then gets its message id (prepareToSend) and enters _haveSent.
sendSingle ==
    /\ conn.pc = "single"
    /\ LET r == conn.r
           id == IF mid[r] # 0 THEN mid[r] ELSE nextId
       IN  /\ mid' = [mid EXCEPT ![r] = id]
           /\ forced' = [forced EXCEPT ![r] = FALSE]
           /\ d' = [d EXCEPT !.toResend = {p \in @ : p[1] # id},
                             !.haveSent = @ \cup {Sent(id, r)}]
           /\ c2s' = c2s \cup {Packet(id, {<<id, r>>}, {}, 0, {})}
           /\ nextId' = IF id = nextId THEN nextId + 1 ELSE nextId
    /\ conn' = [conn EXCEPT !.pc = "idle", !.r = 0]
    /\ UNCHANGED <<limit, parser, main, signals, clears, s2c, server, count,
                   hist>>

\* A lone list of acknowledgements or a lone state request.
sendService ==
    /\ ConnFree
    /\ ToSendCount = 1 /\ d.toSend = {}
    /\ \/ /\ d.stateRequest = {}
          /\ c2s' = c2s \cup {Packet(0, {}, conn.acks, 0, {})}
          /\ UNCHANGED <<limit, d, nextId>>
       \/ /\ d.stateRequest # {}
          /\ c2s' = c2s \cup {Packet(nextId, {}, {}, nextId, d.stateRequest)}
          /\ d' = [d EXCEPT !.stateRequest = {},
                            !.haveSent = @ \cup {StateReq(nextId, d.stateRequest)}]
          /\ nextId' = nextId + 1
    /\ conn' = [conn EXCEPT !.acks = {}]
    /\ UNCHANGED <<limit, mid, forced, parser, main, signals, clears, s2c,
                   server, count, hist>>

\* Everything in one container, under the locks of _toSend, _haveSent and
\* _wereAcked.  New requests get ids in their order, then the state request
\* and the container itself.
sendContainer ==
    /\ ConnFree
    /\ d.toSend # {}
    /\ ToSendCount > 1 \/ \E r \in d.toSend : forced[r]
    /\ LET new == {r \in d.toSend : mid[r] = 0}
           id(r) == IF mid[r] # 0 THEN mid[r]
                    ELSE nextId + Cardinality({q \in new : q < r})
           sid == nextId + Cardinality(new)
           cid == IF d.stateRequest = {} THEN sid ELSE sid + 1
           ids == {id(r) : r \in d.toSend} \cup (sid .. (cid - 1))
       IN  /\ mid' = [r \in Reqs |-> IF r \in d.toSend THEN id(r) ELSE mid[r]]
           /\ forced' = [r \in Reqs |-> r \notin d.toSend /\ forced[r]]
           /\ d' = [d EXCEPT
                  !.toSend = {}, !.stateRequest = {},
                  !.toResend = {p \in @ : \A r \in d.toSend : p[1] # id(r)},
                  !.haveSent = @ \cup {Sent(id(r), r) : r \in d.toSend}
                      \cup {Container(cid, ids)}
                      \cup (IF d.stateRequest = {} THEN {}
                            ELSE {StateReq(sid, d.stateRequest)})]
           /\ c2s' = c2s \cup
                  {Packet(cid, {<<id(r), r>> : r \in d.toSend}, conn.acks,
                          IF d.stateRequest = {} THEN 0 ELSE sid,
                          d.stateRequest)}
           /\ nextId' = cid + 1
    /\ conn' = [conn EXCEPT !.acks = {}]
    /\ UNCHANGED <<limit, parser, main, signals, clears, s2c, server, count,
                   hist>>

-----------------------------------------------------------------------------
(* The connection thread, receiving (ConnectionPrivate::handleOneReceived). *)

\* Mutant: a request leaves _haveSent as soon as the server has it.
MoveToAckedAlways(r, byResponse) == TRUE

\* Whether an acknowledgement that is not a response is taken for one:
\* ignored, if we need a response (if we have a handler).
MoveToAcked(r, byResponse) == byResponse \/ r \notin parser

\* Containers and state requests are told from requests by msDate = 0.
IsRequest(e) == e.kind = "request"

\* What acknowledgements of ids take out of _haveSent (x is SessionData) ...
AckedSent(x, ids, byResponse) ==
    {e \in x.haveSent : e.id \in ids /\ (IsRequest(e) => MoveToAcked(e.r, byResponse))}

\* ... and, for ids that are not in _haveSent, out of _toResend.
AckedAgain(x, ids, byResponse) ==
    {p \in x.toResend : /\ p[1] \in ids /\ \A e \in x.haveSent : e.id # p[1]
                        /\ MoveToAcked(p[2], byResponse)}

\* The loop of requestsAcked over the ids: each is looked up on its own, so
\* their order does not matter.
AckAll(x, ids, byResponse) ==
    LET sent == AckedSent(x, ids, byResponse)
        again == AckedAgain(x, ids, byResponse)
    IN  [x EXCEPT !.haveSent = @ \ sent,
                  !.toResend = @ \ again,
                  !.toSend = @ \ {p[2] : p \in again},
                  !.wereAcked = @ \cup {<<e.id, e.r>> : e \in {s \in sent : IsRequest(s)}}
                                  \cup {p \in again : p[2] \in x.toSend}]

\* Of _wereAcked only the largest ids are kept.
TooOld(acked) ==
    {p \in acked : Cardinality({q \in acked : q[1] > p[1]}) >= IdsBuffer}

\* requestsAcked for a set of ids: [data, old], old what was trimmed.
\* Containers are replaced by what they hold, which is acknowledged next.
requestsAcked(ids, byResponse) ==
    LET more == UNION {e.ids : e \in {x \in d.haveSent :
                           x.id \in ids /\ x.kind = "container"}}
        one == AckAll(d, ids, byResponse)
        oldOne == TooOld(one.wereAcked)
        two == AckAll([one EXCEPT !.wereAcked = @ \ oldOne], more, FALSE)
        oldTwo == TooOld(two.wereAcked)
    IN  [data |-> [two EXCEPT !.wereAcked = @ \ oldTwo], old |-> oldOne \cup oldTwo]

\* What requestsAcked changes; the callbacks of what was trimmed are cleared.
Acked(ids, byResponse) ==
    LET res == requestsAcked(ids, byResponse)
    IN  /\ d' = res.data
        /\ clears' = clears \cup {p[2] : p \in res.old}

\* mtpc_msgs_ack.
handleAck(id) ==
    /\ ConnFree
    /\ id \in server.seen \cup server.taken
    /\ Acked({id}, FALSE)
    /\ UNCHANGED <<limit, mid, forced, parser, main, signals, conn, nextId,
                   c2s, s2c, server, count, hist>>

\* mtpc_rpc_result, first the acknowledgement ...
handleResultAck(id) ==
    /\ ConnFree
    /\ \E p \in server.due :
          /\ p[1] = id
          /\ conn' = [conn EXCEPT !.pc = "result", !.id = id, !.r = p[2],
                                  !.acks = @ \cup {id}]
          /\ server' = [server EXCEPT !.due = @ \ {p}]
    /\ Acked({id}, TRUE)
    /\ UNCHANGED <<limit, mid, forced, parser, main, signals, nextId, c2s, s2c,
                   count, hist>>

\* ... then the response is stored for the main thread, if the message id is
\* still known.
handleResult ==
    /\ conn.pc = "result"
    /\ LET r == wasSent(conn.id)
       IN  /\ d' = IF r > 0 THEN [d EXCEPT !.responses = @ \cup {r}] ELSE d
           /\ hist' = IF r > 0 \/ conn.r \notin parser THEN hist
                      ELSE [hist EXCEPT !.lost = @ \cup {<<conn.id, conn.r>>}]
    /\ conn' = [conn EXCEPT !.pc = "idle", !.id = 0, !.r = 0]
    /\ UNCHANGED <<limit, mid, forced, parser, main, signals, clears, nextId,
                   c2s, s2c, server, count>>

Resend(id, force) == [all |-> FALSE, id |-> id, force |-> force]
ResendAll == [all |-> TRUE, id |-> 0, force |-> TRUE]

\* mtpc_bad_server_salt, and mtpc_bad_msg_notification of the errors that
\* are answered by sending the message again (16, 17, 64).
handleRejected(m) ==
    /\ ConnFree
    /\ m \in s2c /\ m.t \in {"salt", "badMsg"}
    /\ s2c' = s2c \ {m}
    /\ signals' = IF wasSent(m.id) = 0 THEN signals
                  ELSE Append(signals, Resend(m.id, m.t = "badMsg"))
    /\ UNCHANGED <<limit, d, mid, forced, parser, main, clears, conn, nextId,
                   c2s, server, count, hist>>

\* mtpc_bad_msg_notification of an error that cannot be handled.  The list the
\* code builds holds the id 1 as well; only the request meant is cleared.
handleFatal(m) ==
    /\ ConnFree
    /\ m \in s2c /\ m.t = "fatal"
    /\ s2c' = s2c \ {m}
    /\ clears' = clears \cup ({wasSent(m.id)} \cap Reqs)
    /\ UNCHANGED <<limit, d, mid, forced, parser, main, signals, conn, nextId,
                   c2s, server, count, hist>>

\* mtpc_bad_msg_notification 32 or 33: the connection restarts with a new
\* session (resetSession), of which the server knows nothing yet.
handleReset(m) ==
    /\ ConnFree
    /\ m \in s2c /\ m.t = "reset"
    /\ IF wasSent(m.id) = 0
       THEN /\ s2c' = s2c \ {m}
            /\ UNCHANGED <<d, conn, c2s, server, count>>
       ELSE /\ s2c' = {} /\ c2s' = {}
            /\ count' = [count EXCEPT !.forgets = @ + 1]
            /\ conn' = [conn EXCEPT !.up = FALSE, !.restarted = TRUE, !.acks = {}]
            /\ d' = [d EXCEPT !.stateRequest = {}]
            /\ server' = NewServer
    /\ UNCHANGED <<limit, mid, forced, parser, main, signals, clears, nextId,
                   hist>>

\* mtpc_msgs_state_info: what the server did not get is sent again, what it
\* got is acknowledged.
handleMsgsStates(m) ==
    /\ ConnFree
    /\ m \in s2c /\ m.t = "states"
    /\ s2c' = s2c \ {m}
    /\ LET known == {id \in m.asked : InSent(id) # {}}
           again == {id \in m.asked \ known : \E p \in d.toResend : p[1] = id}
           ids == Sorted(known \ m.got)
       IN  IF InSent(m.id) = {} THEN UNCHANGED <<d, clears, signals>>
           ELSE /\ signals' = signals \o
                      [i \in DOMAIN ids |-> Resend(ids[i], TRUE)]
                /\ Acked((known \cup again) \cap m.got, FALSE)
    /\ UNCHANGED <<limit, mid, forced, parser, main, conn, nextId, c2s, server,
                   count, hist>>

\* mtpc_new_session_created: requests older than the first message the new
\* session of the server got are sent again.
handleNewSession(m) ==
    /\ ConnFree
    /\ m \in s2c /\ m.t = "newSession"
    /\ s2c' = s2c \ {m}
    /\ LET ids == Sorted({e.id : e \in {x \in d.haveSent :
                              x.id < m.id /\ x.kind # "container"}})
       IN  signals' = signals \o [i \in DOMAIN ids |-> Resend(ids[i], TRUE)]
    /\ UNCHANGED <<limit, d, mid, forced, parser, main, clears, conn, nextId,
                   c2s, server, count, hist>>

\* The connection breaks, and ConnectionPrivate::restart.
restart ==
    /\ ConnFree
    /\ count.breaks < limit.breaks
    /\ count' = [count EXCEPT !.breaks = @ + 1]
    /\ c2s' = {} /\ s2c' = {}
    /\ conn' = [conn EXCEPT !.up = FALSE, !.restarted = TRUE]
    /\ UNCHANGED <<limit, d, mid, forced, parser, main, signals, clears,
                   nextId, server, hist>>

\* Mutant: nothing is sent again.
AfterRestartNothing == signals

\* The call made when the connection is up again.
AfterRestart == Append(signals, ResendAll)

\* ConnectionPrivate::authKeyCreated on the new connection.
authKeyCreated ==
    /\ ~conn.up
    /\ conn' = [conn EXCEPT !.up = TRUE, !.restarted = FALSE]
    /\ signals' = IF conn.restarted THEN AfterRestart ELSE signals
    /\ server' = [server EXCEPT !.due = server.answers]
    /\ UNCHANGED <<limit, d, mid, forced, parser, main, clears, nextId, c2s,
                   s2c, count, hist>>

-----------------------------------------------------------------------------
(* The server (external). *)

\* A packet is accepted; a message id seen before is not executed again.
\* The server may have forgotten the session, and says so.
serverTake(p, forgets) ==
    /\ p \in c2s
    /\ c2s' = c2s \ {p}
    /\ forgets => count.forgets < limit.forgets /\ server.seen # {} /\ p.msgs # {}
    /\ count' = IF forgets THEN [count EXCEPT !.forgets = @ + 1] ELSE count
    /\ LET s == IF forgets THEN NewServer ELSE server
           new == {m \in p.msgs : m[1] \notin s.seen}
           seen == s.seen \cup {m[1] : m \in p.msgs}
           answers == {m \in s.answers : m[1] \notin p.acks} \cup new
       IN  /\ server' = [seen |-> seen, taken |-> s.taken \cup ({p.id} \ {0}),
                         answers |-> answers,
                         due |-> (s.due \cup p.msgs) \cap answers]
           /\ hist' = [hist EXCEPT !.executed = [r \in Reqs |->
                  @[r] + Cardinality({m \in new : m[2] = r})]]
           /\ s2c' = s2c
                \cup (IF p.sid = 0 THEN {} ELSE
                      {[t |-> "states", id |-> p.sid, asked |-> p.asked,
                        got |-> p.asked \cap seen]})
                \cup (IF ~forgets THEN {} ELSE
                      {[t |-> "newSession", id |-> Min({m[1] : m \in p.msgs}),
                        asked |-> {}, got |-> {}]})
    /\ UNCHANGED <<limit, d, mid, forced, parser, main, signals, clears, conn,
                   nextId>>

\* A packet is rejected as a whole.
serverReject(p, how) ==
    /\ p \in c2s /\ how \in limit.how
    /\ count.rejects < limit.rejects
    /\ count' = [count EXCEPT !.rejects = @ + 1]
    /\ c2s' = c2s \ {p}
    /\ s2c' = s2c \cup {[t |-> how, id |-> p.id, asked |-> {}, got |-> {}]}
    /\ UNCHANGED <<limit, d, mid, forced, parser, main, signals, clears, conn,
                   nextId, server, hist>>

-----------------------------------------------------------------------------
resend == resendStart \/ resendTake \/ resendQueue \/ resendMark
cancel == (\E r \in Reqs : cancelToSend(r)) \/ cancelHaveSent
tryToSend == sendSingleTake \/ sendSingle \/ sendService \/ sendContainer
handleMessage ==
    \E m \in s2c : \/ handleRejected(m) \/ handleFatal(m) \/ handleReset(m)
                   \/ handleMsgsStates(m) \/ handleNewSession(m)
deliver(r) == \E p \in server.due : p[2] = r /\ handleResultAck(p[1])
KnownIds == server.seen \cup server.taken
serverStep == \E p \in c2s : \/ serverTake(p, FALSE) \/ serverTake(p, TRUE)
                             \/ \E how \in limit.how : serverReject(p, how)

Next ==
    \/ \E r \in Reqs : SendRequest(r)
    \/ resend \/ checkRequestsByTimer \/ cancel \/ tryToReceive
    \/ \E r \in clears : clearCallbacks(r)
    \/ tryToSend
    \/ \E id \in KnownIds : handleAck(id)
    \/ \E r \in Reqs : deliver(r)
    \/ handleResult \/ handleMessage
    \/ restart \/ authKeyCreated
    \/ serverStep

Spec == Init /\ [][Next]_vars

\* Everything the connection, the main thread and the server keep doing; the
\* server answers what it took, and a broken connection is made again.  The
\* behaviours whose bounds ask for it are fair.
Fair == limit.fair

Fairness ==
    /\ WF_vars(Fair /\ resend) /\ WF_vars(Fair /\ cancelHaveSent)
    /\ WF_vars(Fair /\ tryToReceive)
    /\ \A r \in Reqs : WF_vars(Fair /\ clearCallbacks(r))
    /\ WF_vars(Fair /\ tryToSend) /\ WF_vars(Fair /\ handleResult)
    /\ WF_vars(Fair /\ handleMessage)
    /\ \A r \in Reqs : WF_vars(Fair /\ deliver(r))
    /\ WF_vars(Fair /\ authKeyCreated) /\ WF_vars(Fair /\ serverStep)

FairSpec == Spec /\ Fairness

-----------------------------------------------------------------------------
(* Properties. *)

\* As long as client and server keep the session, the server executes a
\* request once, however often it is sent: a request that is sent again by
\* Session::resend, after a rejection, a broken connection or a state
\* answer, carries the message id it had.
ExecutedOnce == count.forgets = 0 => \A r \in Reqs : hist.executed[r] <= 1

\* A handler is called once: with the response, with an error of
\* clearCallbacks, or never once the request is cancelled; however many
\* answers arrive for the messages of the request.
HandledOnce ==
    \A r \in Reqs :
        /\ hist.handled[r] <= 1
        /\ r \in hist.failed => hist.handled[r] = 0
        /\ r \in hist.cancelled /\ main.pc # "cancel" => r \notin parser

\* Where a request is whose handler still waits.
Tracked(r) ==
    \/ r \in d.toSend \cup d.responses \cup clears
    \/ \E e \in d.haveSent : e.kind = "request" /\ e.r = r
    \/ main.pc \in {"taken", "cancel"} /\ main.r = r
    \/ conn.pc \in {"single", "result"} /\ conn.r = r

\* No request is forgotten: while its handler waits, the request is about to
\* be sent, was sent and can be sent again, is in the hands of one of the
\* threads (between the locks of resend, tryToSend or rpc_result), or its
\* response or its failure waits for the main thread.
NoneForgotten == \A r \in parser : Tracked(r)

\* Every handler is called in the end, whatever breaks finitely often, unless
\* the result was discarded on its way to it: its message id was in none of
\* the maps because the main thread was inside resend, or trimmed from
\* _wereAcked.  (A fatal error of a container names none of the requests in
\* it: with those nothing is promised.)
Answered ==
    \A r \in Reqs : r \in hist.started /\ limit.fair ~>
        (r \notin parser \/ \E p \in hist.lost : p[2] = r)
=============================================================================
