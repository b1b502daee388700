---------------------------- MODULE MtpInstance ----------------------------
(***************************************************************************)
(* MTP::Instance (mtproto/mtp_instance.cpp): what becomes of a request     *)
(* whose answer is an error.  A temporary error delays it, an error of the *)
(* datacenter's authorization makes it wait until the authorization of the *)
(* main datacenter was exported and imported there, a migration sends it   *)
(* to another datacenter, a failed dependency puts it behind the request   *)
(* it depends on; any other error goes to its handler.  All of this runs   *)
(* on the main thread.  Sending is MtpSession, here a request handed to a  *)
(* session is in flight until its answer comes.                            *)
(*                                                                         *)
(* Left out: the change of the main datacenter at sign-in, destroying keys *)
(* and temporary errors of the export and import requests themselves.      *)
(***************************************************************************)
EXTENDS Integers, Sequences, FiniteSets, SequencesExt

CONSTANTS
    Reqs,        \* request ids
    Dcs, Main,   \* datacenters, and the main one
    AfterOf,     \* the request another depends on (invokeAfter), 0 if none
    MaxErrors,   \* bound: errors the servers answer with
    MaxDelay,    \* 60: a delay larger than this is not doubled any more
    Refusals     \* whether an export or an import may be refused

ASSUME ConstantsAssumption ==
    /\ Reqs \subseteq Nat \ {0} /\ Main \in Dcs
    /\ AfterOf \in [Reqs -> Reqs \cup {0}]
    /\ {MaxErrors, MaxDelay} \subseteq Nat
    /\ Refusals \in BOOLEAN

VARIABLES
    parser,      \* _parserMap: handlers that wait
    requests,    \* _requestMap and _requestsByDc
    dc,          \* the datacenter of a request
    after,       \* request->after
    flight,      \* handed to a session
    delayed,     \* _delayedRequests: <<request, time>>
    delays,      \* _requestsDelays: seconds, 0 when there is none
    timer,       \* _checkDelayedTimer: the time it fires at, 0 when off
    waiters,     \* _authWaiters
    auth,        \* "none", "export" or "import" under way for a datacenter
    badGuest,    \* _badGuestDcRequests
    now, errors,
    hist         \* history: requests sent, datacenters that refused, late
                 \* failures of a dependency

vars == <<parser, requests, dc, after, flight, delayed, delays, timer, waiters,
          auth, badGuest, now, errors, hist>>

Init ==
    /\ parser = {} /\ requests = {} /\ flight = {}
    /\ dc = [r \in Reqs |-> Main] /\ after = AfterOf
    /\ delayed = <<>> /\ delays = [r \in Reqs |-> 0] /\ timer = 0
    /\ waiters = [c \in Dcs |-> <<>>] /\ auth = [c \in Dcs |-> "none"]
    /\ badGuest = {} /\ now = 1 /\ errors = 0
    /\ hist = [sent |-> {}, refused |-> {}, late |-> {}]

-----------------------------------------------------------------------------
(* Sending, answering, cancelling. *)

\* Instance::Private::sendRequest.
sendRequest(r, c) ==
    /\ r \notin hist.sent
    /\ hist' = [hist EXCEPT !.sent = @ \cup {r}]
    /\ parser' = parser \cup {r} /\ requests' = requests \cup {r}
    /\ dc' = [dc EXCEPT ![r] = c]
    /\ after' = [after EXCEPT ![r] = IF @ \in requests THEN @ ELSE 0]
    /\ flight' = flight \cup {r}
    /\ UNCHANGED <<delayed, delays, timer, waiters, auth, badGuest, now, errors>>

\* The handler is called and the request forgotten: execCallback with a
\* result, or with an error that onErrorDefault leaves to the handler.
Called(r) ==
    /\ flight' = flight \ {r}
    /\ parser' = parser \ {r} /\ requests' = requests \ {r}
    /\ delays' = [delays EXCEPT ![r] = 0]
    /\ UNCHANGED hist

\* execCallback with a result.
execCallback(r) ==
    /\ r \in flight
    /\ Called(r)
    /\ UNCHANGED <<dc, after, delayed, timer, waiters, auth, badGuest, now, errors>>

\* Instance::Private::cancel; the request stays in the queues, and its answer
\* may have been received before.
cancel(r) ==
    /\ r \in parser
    /\ flight' \in {flight, flight \ {r}}
    /\ parser' = parser \ {r} /\ requests' = requests \ {r}
    /\ delays' = [delays EXCEPT ![r] = 0]
    /\ UNCHANGED <<dc, after, delayed, timer, waiters, auth, badGuest, now,
                   errors, hist>>

-----------------------------------------------------------------------------
(* Errors (rpcErrorOccured, onErrorDefault). *)

\* An error comes for a request whose handler waits.
Error(r) ==
    /\ r \in flight \cap parser
    /\ errors < MaxErrors
    /\ errors' = errors + 1

\* An error that nothing but the handler can deal with, one of the main
\* datacenter's authorization, or a temporary one that the handler takes.
otherError(r) ==
    /\ Error(r)
    /\ Called(r)
    /\ UNCHANGED <<dc, after, delayed, timer, waiters, auth, badGuest, now>>

\* FILE_ID_INVALID for the second time.
fileIdInvalid(r) ==
    /\ Error(r)
    /\ r \in badGuest
    /\ Called(r)
    /\ badGuest' = badGuest \ {r}
    /\ UNCHANGED <<dc, after, delayed, timer, waiters, auth, now>>

\* FILE_MIGRATE_X and the like of a request to a given datacenter.
migrate(r, c) ==
    /\ Error(r)
    /\ c # dc[r]
    /\ dc' = [dc EXCEPT ![r] = c]
    /\ UNCHANGED <<parser, requests, after, flight, delayed, delays, timer,
                   waiters, auth, badGuest, now, hist>>

\* CONNECTION_NOT_INITED, CONNECTION_LAYER_INVALID: sent again at once.
notInited(r) ==
    /\ Error(r)
    /\ UNCHANGED <<parser, requests, dc, after, flight, delayed, delays, timer,
                   waiters, auth, badGuest, now, hist>>

\* Mutant: the request goes to the end of the queue.
InsertPosLast(at) == Len(delayed) + 1

\* The position before the first delayed request that goes later.
InsertPos(at) ==
    LET later == {i \in DOMAIN delayed : delayed[i][2] > at}
    IN  IF later = {} THEN Len(delayed) + 1 ELSE Min(later)

\* checkDelayedRequests: what is due leaves the queue and is sent, if it
\* still is a request; the timer is set for the first of the others.
Due(queue) == {i \in DOMAIN queue : \A j \in 1 .. i : queue[j][2] <= now}

\* Mutant: what was sent stays in the queue.
RestAll(queue) == queue

Rest(queue) == SubSeq(queue, Cardinality(Due(queue)) + 1, Len(queue))

checkDelayed(queue, others) ==
    LET rest == Rest(queue)
    IN  /\ delayed' = rest
        /\ timer' = IF rest = <<>> THEN 0 ELSE rest[1][2]
        /\ flight' = others \cup ({queue[i][1] : i \in Due(queue)} \cap requests)

\* Code < 0, code >= 500: the delay doubles with every error.
serverError(r) ==
    /\ Error(r)
    /\ LET secs == IF delays[r] = 0 THEN 1
                   ELSE IF delays[r] > MaxDelay THEN delays[r] ELSE 2 * delays[r]
       IN  /\ delays' = [delays EXCEPT ![r] = secs]
           /\ checkDelayed(InsertAt(delayed, InsertPos(now + secs), <<r, now + secs>>),
                           flight \ {r})
    /\ UNCHANGED <<parser, requests, dc, after, waiters, auth, badGuest, now, hist>>

\* FLOOD_WAIT_X.
floodWait(r, secs) ==
    /\ Error(r)
    /\ checkDelayed(InsertAt(delayed, InsertPos(now + secs), <<r, now + secs>>),
                    flight \ {r})
    /\ UNCHANGED <<parser, requests, dc, after, delays, waiters, auth, badGuest,
                   now, hist>>

\* Mutant: nobody starts the export.
StartsExportNever(c) == FALSE

\* Whether an export has to be started for the first that waits.
StartsExport(c) == waiters[c] = <<>>

\* 401, or the first FILE_ID_INVALID, of a request to another datacenter.
unauthorized(r, bad) ==
    /\ Error(r)
    /\ dc[r] # Main
    /\ bad => r \notin badGuest
    /\ flight' = flight \ {r}
    /\ auth' = IF StartsExport(dc[r]) THEN [auth EXCEPT ![dc[r]] = "export"] ELSE auth
    /\ waiters' = [waiters EXCEPT ![dc[r]] = Append(@, r)]
    /\ badGuest' = IF bad THEN badGuest \cup {r} ELSE badGuest
    /\ UNCHANGED <<parser, requests, dc, after, delayed, delays, timer, now, hist>>

\* MSG_WAIT_FAILED of a request whose predecessor is not a request any more:
\* the handler gets it.
waitFailedAlone(r) ==
    /\ after[r] = 0 \/ after[r] \notin requests
    /\ otherError(r)

\* MSG_WAIT_FAILED of a request whose predecessor went to another
\* datacenter: sent without it.
waitFailedElsewhere(r) ==
    /\ Error(r)
    /\ after[r] \in requests /\ dc[after[r]] # dc[r]
    /\ after' = [after EXCEPT ![r] = 0]
    /\ UNCHANGED <<parser, requests, dc, flight, delayed, delays, timer,
                   waiters, auth, badGuest, now, hist>>

\* MSG_WAIT_FAILED otherwise: the request waits where its predecessor does,
\* for the authorization ...
waitFailedWaits(r) ==
    /\ Error(r)
    /\ after[r] \in requests /\ dc[after[r]] = dc[r]
    /\ Contains(waiters[dc[r]], after[r])
    /\ waiters' = [waiters EXCEPT ![dc[r]] = IF Contains(@, r) THEN @ ELSE Append(@, r)]
    /\ badGuest' = IF after[r] \in badGuest THEN badGuest \cup {r} ELSE badGuest
    /\ flight' = flight \ {r}
    /\ UNCHANGED <<parser, requests, dc, after, delayed, delays, timer, auth,
                   now, hist>>

\* ... or among the delayed; and nowhere when its predecessor is in flight
\* again.
waitFailedDelayed(r) ==
    /\ Error(r)
    /\ after[r] \in requests /\ dc[after[r]] = dc[r]
    /\ ~Contains(waiters[dc[r]], after[r])
    /\ LET places == {i \in DOMAIN delayed : delayed[i][1] = after[r]}
           i == Min(places)
       IN  IF places = {}
           THEN /\ hist' = [hist EXCEPT !.late = @ \cup {r}]
                /\ checkDelayed(delayed, flight \ {r})
           ELSE /\ checkDelayed(InsertAt(delayed, i, <<r, delayed[i][2]>>), flight \ {r})
                /\ UNCHANGED hist
    /\ UNCHANGED <<parser, requests, dc, after, delays, waiters, auth, badGuest, now>>

-----------------------------------------------------------------------------
(* The timer and the authorization. *)

\* checkDelayedRequests by _checkDelayedTimer.
checkDelayedRequests ==
    /\ timer # 0 /\ now >= timer
    /\ checkDelayed(delayed, flight)
    /\ UNCHANGED <<parser, requests, dc, after, delays, waiters, auth, badGuest,
                   now, errors, hist>>

\* Time passes; it matters only while the timer runs, which may be late.
tick ==
    /\ timer # 0 /\ now <= timer
    /\ now' = now + 1
    /\ UNCHANGED <<parser, requests, dc, after, flight, delayed, delays, timer,
                   waiters, auth, badGuest, errors, hist>>

\* exportDone: the import is sent to the datacenter.
exportDone(c) ==
    /\ auth[c] = "export"
    /\ auth' = [auth EXCEPT ![c] = "import"]
    /\ UNCHANGED <<parser, requests, dc, after, flight, delayed, delays, timer,
                   waiters, badGuest, now, errors, hist>>

\* exportFail: the waiters are forgotten.
exportFail(c) ==
    /\ Refusals /\ auth[c] = "export"
    /\ auth' = [auth EXCEPT ![c] = "none"]
    /\ waiters' = [waiters EXCEPT ![c] = <<>>]
    /\ hist' = [hist EXCEPT !.refused = @ \cup {c}]
    /\ UNCHANGED <<parser, requests, dc, after, flight, delayed, delays, timer,
                   badGuest, now, errors>>

\* Mutant: only the first that waited is sent.
ReleasedFirst(c) == {waiters[c][i] : i \in DOMAIN waiters[c] \cap {1}} \cap requests

\* importDone: all that waited, if it still is a request, is sent again.
Released(c) == ToSet(waiters[c]) \cap requests

importDone(c) ==
    /\ auth[c] = "import"
    /\ auth' = [auth EXCEPT ![c] = "none"]
    /\ flight' = flight \cup Released(c)
    /\ dc' = [r \in Reqs |-> IF r \in Released(c) THEN c ELSE dc[r]]
    /\ waiters' = [waiters EXCEPT ![c] = <<>>]
    /\ UNCHANGED <<parser, requests, after, delayed, delays, timer, badGuest,
                   now, errors, hist>>

\* importFail: nothing is done, the waiters stay.
importFail(c) ==
    /\ Refusals /\ auth[c] = "import"
    /\ auth' = [auth EXCEPT ![c] = "none"]
    /\ hist' = [hist EXCEPT !.refused = @ \cup {c}]
    /\ UNCHANGED <<parser, requests, dc, after, flight, delayed, delays, timer,
                   waiters, badGuest, now, errors>>

-----------------------------------------------------------------------------
onErrorDefault(r) ==
    \/ otherError(r) \/ fileIdInvalid(r) \/ notInited(r) \/ serverError(r)
    \/ \E c \in Dcs : migrate(r, c)
    \/ \E secs \in 1 .. 2 : floodWait(r, secs)
    \/ \E bad \in BOOLEAN : unauthorized(r, bad)
    \/ waitFailedAlone(r) \/ waitFailedElsewhere(r)
    \/ waitFailedWaits(r) \/ waitFailedDelayed(r)

Answers == \E r \in Reqs : execCallback(r) \/ onErrorDefault(r)
authStep(c) == exportDone(c) \/ exportFail(c) \/ importDone(c) \/ importFail(c)

Next ==
    \/ \E r \in Reqs, c \in Dcs : sendRequest(r, c)
    \/ \E r \in Reqs : cancel(r)
    \/ Answers
    \/ checkDelayedRequests \/ tick
    \/ \E c \in Dcs : authStep(c)

Spec == Init /\ [][Next]_vars

\* Sessions bring an answer in the end (MtpSession), timers fire, time passes.
Fairness ==
    /\ \A r \in Reqs : WF_vars(execCallback(r) \/ onErrorDefault(r))
    /\ WF_vars(checkDelayedRequests) /\ WF_vars(tick)
    /\ \A c \in Dcs : WF_vars(authStep(c))

FairSpec == Spec /\ Fairness

-----------------------------------------------------------------------------
(* Properties. *)

IsDelayed(r) == \E i \in DOMAIN delayed : delayed[i][1] = r
Waits(r) == \E c \in Dcs : Contains(waiters[c], r)

\* A request whose handler waits is in one place only: in flight, delayed or
\* waiting for the authorization.  In two it would be sent, and executed,
\* twice.
InOnePlace ==
    \A r \in requests :
        /\ r \in flight => ~IsDelayed(r) /\ ~Waits(r)
        /\ IsDelayed(r) => ~Waits(r)

\* No request is stranded: it is in flight, delayed, or waits for an export
\* or import that is under way.  Two things strand it: an authorization that
\* was refused (exportFail forgets the waiters, importFail leaves them, and
\* nobody starts another export), and MSG_WAIT_FAILED that comes when the
\* predecessor is in flight again.
NoneStranded ==
    \A r \in parser :
        \/ r \in flight \/ IsDelayed(r)
        \/ \E c \in Dcs : Contains(waiters[c], r) /\ auth[c] # "none"
        \/ dc[r] \in hist.refused
        \/ r \in hist.late

\* The delayed requests are in the order of their times and the timer is set
\* for the first of them, so none is overslept.
DelayedInTime ==
    /\ \A i, j \in DOMAIN delayed : i < j => delayed[i][2] <= delayed[j][2]
    /\ timer = IF delayed = <<>> THEN 0 ELSE delayed[1][2]

\* Every handler is called in the end or the request cancelled, unless it is
\* stranded as said above.
CalledInTheEnd ==
    \A r \in Reqs : (r \in parser) ~>
        (r \notin parser \/ dc[r] \in hist.refused \/ r \in hist.late)
=============================================================================
