---------------------------- MODULE CommonUpdates ----------------------------
(***************************************************************************)
(* The common update box of MainWidget (mainwidget.cpp): updates pushed by *)
(* the server or returned by requests pass through the box's PtsWaiter;    *)
(* when some are missing, or their data is not known, the client asks for  *)
(* the difference between its confirmed pts and the server's.              *)
(*                                                                         *)
(* Every action of the client is one handler, run to its end on the main   *)
(* thread.  What interleaves is the server (external): it publishes,       *)
(* delivers in any order, loses pushes, and answers a request later, with  *)
(* the state of that moment.                                               *)
(***************************************************************************)
EXTENDS PtsWaiter

CONSTANTS
    MaxPts,       \* bound: the largest pts the server reaches
    Counts,       \* the pts_count values of updates that move the box
    MaxZeros,     \* bound: updates published with pts_count = 0
    MaxFails,     \* bound: errors the server answers getDifference with
    Answers       \* kinds of answer: subset of {"final", "slice", "tooLong"}

ASSUME ConstantsAssumption ==
    /\ MaxPts \in Nat \ {0}
    /\ Counts \subseteq Nat \ {0}
    /\ MaxZeros \in Nat
    /\ MaxFails \in Nat
    /\ Answers \subseteq {"final", "slice", "tooLong"}

VARIABLES
    log,        \* server: the updates published so far, with count > 0
    top,        \* server: the pts of the box
    zeros,      \* server: updates with pts_count = 0 published so far
    net,        \* messages with updates on their way to the client
    w,          \* _ptsWaiter, with _getDifferenceTimeByPts as armed
    rpc,        \* the getState or getDifference request, and its answer
    failArmed,  \* _getDifferenceTimeAfterFail is set
    fails,      \* errors answered so far
    applied,    \* history: updates reflected in the client's data
    counted     \* history: points above good that the waiter has counted

vars == <<log, top, zeros, net, w, rpc, failArmed, fails, applied, counted>>

NoRpc == [st |-> "none", from |-> 0, pts |-> 0]

\* What carries an update: a push; the result of a request that holds the
\* update itself; the result of a request that holds only pts and pts_count
\* (affectedHistory, affectedMessages).
Carriers == {"push", "sent", "affected"}

\* The updates of a difference answer that brings the box from a to b.
Between(a, b) == {u \in log : a < u.pts /\ u.pts <= b}

Init ==
    /\ log = {} /\ top = 1 /\ zeros = 0 /\ net = {}
    /\ w = SetRequesting(NewWaiter, TRUE)
    /\ rpc = [st |-> "getState", from |-> 0, pts |-> 0]
    /\ failArmed = FALSE /\ fails = 0
    /\ applied = {} /\ counted = {}

-----------------------------------------------------------------------------
(* The server and the connection (external). *)

serverVars == <<log, top, zeros>>
clientVars == <<w, failArmed, applied, counted>>

Publish(c, via) ==
    LET u == [pts |-> top + c, count |-> c]
    IN  /\ top + c <= MaxPts
        /\ log' = log \cup {u}
        /\ top' = top + c
        /\ net' = net \cup {[via |-> via, update |-> u]}
        /\ UNCHANGED <<zeros, clientVars, rpc, fails>>

\* An update that does not move the box: updateWebPage, or the answer to a
\* request that affected nothing.
PublishZero(via) ==
    /\ zeros < MaxZeros /\ zeros' = zeros + 1
    /\ net' = net \cup {[via |-> via, update |-> [pts |-> top, count |-> 0]]}
    /\ UNCHANGED <<log, top, clientVars, rpc, fails>>

LosePush(m) ==
    /\ m.via = "push"
    /\ net' = net \ {m}
    /\ UNCHANGED <<serverVars, clientVars, rpc, fails>>

Answer(st, pts) == rpc' = [rpc EXCEPT !.st = st, !.pts = pts]

ServerAnswersState ==
    /\ rpc.st = "getState"
    /\ Answer("state", top)
    /\ UNCHANGED <<serverVars, net, clientVars, fails>>

ServerAnswersDifference ==
    /\ rpc.st = "getDifference"
    /\ \/ rpc.from = top /\ Answer("empty", top)
       \/ rpc.from < top /\ "final" \in Answers /\ Answer("difference", top)
       \/ /\ "slice" \in Answers
          /\ \E u \in log :
                rpc.from < u.pts /\ u.pts < top /\ Answer("slice", u.pts)
       \/ rpc.from < top /\ "tooLong" \in Answers /\ Answer("tooLong", top)
    /\ UNCHANGED <<serverVars, net, clientVars, fails>>

\* Only getDifference is sent with a handler of errors; an error to getState,
\* which nothing would answer, is left out.
ServerAnswersError ==
    /\ rpc.st = "getDifference" /\ fails < MaxFails
    /\ Answer("error", 0)
    /\ fails' = fails + 1
    /\ UNCHANGED <<serverVars, net, clientVars>>

-----------------------------------------------------------------------------
(* The client. *)

\* getDifference() called when the waiter is v and the request slot is r.
GetDifference(v, r) ==
    IF v.requesting
    THEN /\ w' = [v EXCEPT !.armed = FALSE]
         /\ rpc' = r
         /\ UNCHANGED failArmed
    ELSE /\ w' = SetRequesting([v EXCEPT !.armed = FALSE], TRUE)
         /\ rpc' = [st |-> "getDifference", from |-> v.good, pts |-> 0]
         /\ failArmed' = FALSE

\* The points the waiter has counted above good once it has looked at u.
CountPoints(u) ==
    counted' = IF w.requesting \/ IsOld(w, u) THEN counted
               ELSE {p \in counted \cup Points(u) : p > w'.good}

\* feedUpdate, feedUpdates for an update whose data is loaded.
FeedUpdate(u) ==
    /\ w' = UpdateAndApply(w, u)
    /\ applied' = applied \cup (Applied(w, u) \cap log)
    /\ CountPoints(u)

\* updateReceived: pushes are ignored while a difference is requested.
UpdateReceived(m) ==
    /\ m.via = "push" /\ ~w.requesting
    /\ FeedUpdate(m.update)
    /\ net' = net \ {m}
    /\ UNCHANGED <<serverVars, rpc, failArmed, fails>>

UpdateIgnored(m) ==
    /\ m.via = "push" /\ w.requesting
    /\ net' = net \ {m}
    /\ UNCHANGED <<serverVars, clientVars, rpc, fails>>

\* The message refers to a user or a chat that is not loaded.
UpdateDataNotLoaded(m) ==
    /\ m.via = "push" /\ ~w.requesting
    /\ GetDifference(w, rpc)
    /\ net' = net \ {m}
    /\ UNCHANGED <<serverVars, fails, applied, counted>>

\* Results of requests are handled while a difference is requested, too.
SentResult(m) ==
    /\ m.via = "sent"
    /\ FeedUpdate(m.update)
    /\ net' = net \ {m}
    /\ UNCHANGED <<serverVars, rpc, failArmed, fails>>

AffectedResult(m) ==
    /\ m.via = "affected"
    /\ w' = UpdateAndApplyCount(w, m.update)
    /\ applied' = applied \cup (({m.update} \cup AppliedByCount(w, m.update)) \cap log)
    /\ CountPoints(m.update)
    /\ net' = net \ {m}
    /\ UNCHANGED <<serverVars, rpc, failArmed, fails>>

\* new_session_created; updatesTooLong and the timers of the seq counter and
\* of channels known only in part lead to the same call.
NewSessionCreated ==
    /\ GetDifference(w, rpc)
    /\ UNCHANGED <<serverVars, net, fails, applied, counted>>

\* _byPtsTimer: getDifferenceByPts.
GetDifferenceByPts ==
    /\ w.armed
    /\ GetDifference(w, rpc)
    /\ UNCHANGED <<serverVars, net, fails, applied, counted>>

\* Mutant: the failed request is not ended before the next one is made.
GetDifferenceAfterFailRequesting ==
    /\ failArmed
    /\ GetDifference(w, rpc)
    /\ UNCHANGED <<serverVars, net, fails, applied, counted>>

\* _failDifferenceTimer: getDifferenceAfterFail.
GetDifferenceAfterFail ==
    /\ failArmed
    /\ GetDifference(SetRequesting(w, FALSE), rpc)
    /\ UNCHANGED <<serverVars, net, fails, applied, counted>>

\* Mutant: the error is only logged.
FailDifferenceLogged ==
    /\ rpc.st = "error"
    /\ rpc' = NoRpc
    /\ UNCHANGED <<serverVars, net, w, failArmed, fails, applied, counted>>

FailDifference ==
    /\ rpc.st = "error"
    /\ failArmed' = TRUE
    /\ rpc' = NoRpc
    /\ UNCHANGED <<serverVars, net, w, fails, applied, counted>>

\* updSetState(pts, ...) and setRequesting(false), in gotState, gotDifference.
SetState(pts) == SetRequesting(InitAt(w, pts), FALSE)

GotState ==
    /\ rpc.st = "state"
    /\ w' = SetState(rpc.pts)
    /\ rpc' = NoRpc
    /\ applied' = applied \cup Between(0, rpc.pts)
    /\ counted' = {}
    /\ UNCHANGED <<serverVars, net, failArmed, fails>>

GotDifferenceEmpty ==
    /\ rpc.st = "empty"
    /\ w' = SetState(w.good)
    /\ rpc' = NoRpc
    /\ counted' = {}
    /\ UNCHANGED <<serverVars, net, failArmed, fails, applied>>

GotDifferenceFinal ==
    /\ rpc.st = "difference"
    /\ w' = SetState(rpc.pts)
    /\ rpc' = NoRpc
    /\ applied' = applied \cup Between(rpc.from, rpc.pts)
    /\ counted' = {}
    /\ UNCHANGED <<serverVars, net, failArmed, fails>>

GotDifferenceSlice ==
    /\ rpc.st = "slice"
    /\ applied' = applied \cup Between(rpc.from, rpc.pts)
    /\ counted' = {}
    /\ GetDifference(SetState(rpc.pts), NoRpc)
    /\ UNCHANGED <<serverVars, net, fails>>

\* differenceTooLong is only logged: the client goes on as if it were waiting.
GotDifferenceTooLong ==
    /\ rpc.st = "tooLong"
    /\ rpc' = [rpc EXCEPT !.st = "logged"]
    /\ UNCHANGED <<serverVars, net, clientVars, fails>>

-----------------------------------------------------------------------------
GotAnswer ==
    \/ GotState \/ GotDifferenceEmpty \/ GotDifferenceFinal
    \/ GotDifferenceSlice \/ GotDifferenceTooLong \/ FailDifference

Deliver(m) ==
    \/ UpdateReceived(m) \/ UpdateIgnored(m) \/ UpdateDataNotLoaded(m)
    \/ SentResult(m) \/ AffectedResult(m)

ServerAnswers ==
    ServerAnswersState \/ ServerAnswersDifference \/ ServerAnswersError

Next ==
    \/ \E c \in Counts, via \in Carriers : Publish(c, via)
    \/ \E via \in {"push", "affected"} : PublishZero(via)
    \/ \E m \in net : LosePush(m)
    \/ \E m \in net : Deliver(m)
    \/ ServerAnswers \/ GotAnswer
    \/ NewSessionCreated \/ GetDifferenceByPts \/ GetDifferenceAfterFail

Spec == Init /\ [][Next]_vars

\* Timers fire, the server answers what it was asked, and what is on its way
\* and not lost reaches its handler; nothing obliges the server to publish.
FairSpec ==
    /\ Spec
    /\ WF_vars(GetDifferenceByPts) /\ WF_vars(GetDifferenceAfterFail)
    /\ WF_vars(ServerAnswersState \/ ServerAnswersDifference)
    /\ WF_vars(GotAnswer)
    /\ WF_vars(\E m \in net : Deliver(m))

-----------------------------------------------------------------------------
(* Properties. *)

Update == [pts : 1 .. MaxPts, count : 0 .. MaxPts]
Waiter ==
    [good : 0 .. MaxPts, last : 0 .. MaxPts, count : Nat,
     requesting : BOOLEAN, waiting : BOOLEAN, poll : BOOLEAN,
     armed : BOOLEAN, queue : SUBSET Update]
Rpc ==
    [st : {"none", "getState", "state", "getDifference", "empty",
           "difference", "slice", "tooLong", "logged", "error"},
     from : 0 .. MaxPts, pts : 0 .. MaxPts]

\* Types of the state of MainWidget's common box and of the server's.
TypeOK ==
    /\ log \subseteq Update
    /\ top \in 1 .. MaxPts
    /\ zeros \in 0 .. MaxZeros
    /\ net \subseteq [via : Carriers, update : Update]
    /\ w \in Waiter
    /\ rpc \in Rpc
    /\ failArmed \in BOOLEAN
    /\ fails \in 0 .. MaxFails
    /\ applied \subseteq log
    /\ counted \subseteq 1 .. MaxPts

\* The pts the client confirms (and sends as the start of the next
\* difference) leaves no update behind: counting points is enough to tell
\* that everything up to _good was applied, although updates arrive out of
\* order, are held back, dropped while a difference is requested, or counted
\* by the result of a request that carries no update.
NoGap == \A u \in log : u.pts <= w.good => u \in applied

\* An update held back is ahead of the confirmed pts and its deadline is
\* pending: updated() never queues one that nothing will apply or refetch.
HeldBackIsWatched ==
    w.queue # {} =>
        /\ ~w.requesting /\ w.waiting /\ w.armed
        /\ \A u \in w.queue : u.pts > w.good

\* _requesting, which makes the client ignore every push, is set only while an
\* answer is awaited or a retry is scheduled, or after differenceTooLong.
RequestingIsAnswered ==
    w.requesting <=> (rpc.st # "none" \/ failArmed)

\* init(), check() and the difference never move the confirmed pts back.
ConfirmedNeverMovesBack == [][w'.good >= w.good]_vars

\* Every pts the waiter has heard of (_last) is confirmed in the end: a gap
\* is waited for, then fetched, whatever was lost, failed or dropped in between.
\* Two things end that: an update with pts_count = 0, which cancels the wait for
\* a gap, and differenceTooLong, which is only logged.
HeardIsConfirmed ==
    \A p \in 1 .. MaxPts :
        (w.last >= p) ~> (w.good >= p \/ zeros > 0 \/ rpc.st = "logged")
=============================================================================
