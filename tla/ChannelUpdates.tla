--------------------------- MODULE ChannelUpdates ---------------------------
(***************************************************************************)
(* The update box of one channel: the PtsWaiter of ChannelData and the     *)
(* handlers of MainWidget that feed it and ask for channel differences     *)
(* (mainwidget.cpp, data/data_channel.h, apiwrap.cpp).  Channels share no  *)
(* state but the two QTimers, which only fire the deadlines kept here.     *)
(*                                                                         *)
(* The differences to the common box: a channel starts with no pts and     *)
(* takes the first one it hears of; only the channel's own request makes   *)
(* it ignore updates; an open chat is polled by a timer that shares the    *)
(* deadline of the gap; and the error path is another one.                 *)
(***************************************************************************)
EXTENDS PtsWaiter

CONSTANTS
    MaxPts,       \* bound: the largest pts the server reaches
    Counts,       \* the pts_count values of updates that move the box
    MaxZeros,     \* bound: results that carry only the channel's pts
    MaxFails,     \* bound: errors the server answers with
    KnownPts      \* whether the channel's pts may be known, or not, at the start

ASSUME ConstantsAssumption ==
    /\ MaxPts \in Nat \ {0}
    /\ Counts \subseteq Nat \ {0}
    /\ MaxZeros \in Nat
    /\ MaxFails \in Nat
    /\ KnownPts \subseteq BOOLEAN

VARIABLES
    log,        \* server: the updates published so far, with count > 0
    top,        \* server: the pts of the channel
    zeros,      \* server: results with pts_count = 0 sent so far
    net,        \* messages with updates on their way to the client
    w,          \* ChannelData::_ptsWaiter, armed: its entry in
                \* _channelGetDifferenceTimeByPts
    rpc,        \* the getChannelDifference request, and its answer
    failArmed,  \* its entry in _channelGetDifferenceTimeAfterFail
    fails,      \* errors answered so far
    active,     \* the channel is the chat on screen
    known,      \* the pts was known at the start
    base,       \* history: the pts the waiter was first given
    applied,    \* history: updates reflected in the client's data
    counted     \* history: points above good that the waiter has counted

vars == <<log, top, zeros, net, w, rpc, failArmed, fails, active, known,
          base, applied, counted>>

NoRpc == [st |-> "none", from |-> 0, pts |-> 0, final |-> TRUE]

Between(a, b) == {u \in log : a < u.pts /\ u.pts <= b}

Init ==
    /\ log = {} /\ top = 1 /\ zeros = 0 /\ net = {}
    /\ known \in KnownPts
    /\ w = IF known THEN InitAt(NewWaiter, 1) ELSE NewWaiter
    /\ rpc = NoRpc
    /\ failArmed = FALSE /\ fails = 0 /\ active = FALSE
    /\ base = w.good
    /\ applied = {} /\ counted = {}

-----------------------------------------------------------------------------
(* The server and the connection (external). *)

serverVars == <<log, top, zeros>>
clientVars == <<w, failArmed, active, known, base, applied, counted>>

Publish(c, via) ==
    LET u == [pts |-> top + c, count |-> c]
    IN  /\ top + c <= MaxPts
        /\ log' = log \cup {u}
        /\ top' = top + c
        /\ net' = net \cup {[via |-> via, update |-> u]}
        /\ UNCHANGED <<zeros, clientVars, rpc, fails>>

\* A history, search or dialogs result that carries the channel's pts.
PublishPts ==
    /\ zeros < MaxZeros /\ zeros' = zeros + 1
    /\ net' = net \cup {[via |-> "result", update |-> [pts |-> top, count |-> 0]]}
    /\ UNCHANGED <<log, top, clientVars, rpc, fails>>

LosePush(m) ==
    /\ m.via = "push"
    /\ net' = net \ {m}
    /\ UNCHANGED <<serverVars, clientVars, rpc, fails>>

Answer(st, pts, final) ==
    rpc' = [rpc EXCEPT !.st = st, !.pts = pts, !.final = final]

ServerAnswers ==
    /\ rpc.st = "asked"
    /\ \/ rpc.from = top /\ Answer("empty", top, TRUE)
       \/ rpc.from < top /\ Answer("difference", top, TRUE)
       \/ rpc.from < top /\ Answer("tooLong", top, TRUE)
       \/ \E u \in log : /\ rpc.from < u.pts /\ u.pts < top
                         /\ Answer("difference", u.pts, FALSE)
    /\ UNCHANGED <<serverVars, net, clientVars, fails>>

ServerAnswersError ==
    /\ rpc.st = "asked" /\ fails < MaxFails
    /\ Answer("error", 0, TRUE)
    /\ fails' = fails + 1
    /\ UNCHANGED <<serverVars, net, clientVars>>

-----------------------------------------------------------------------------
(* The client. *)

\* getChannelDifference(channel, from) called when the waiter is v and the
\* request slot is r.  The timer handlers that call it with "gap" and with
\* "afterFail" then erase the deadline that brought them there.
GetChannelDifference(v, r, from) ==
    LET disarmed == [v EXCEPT !.armed = FALSE]
    IN  IF ~Inited(v) \/ v.requesting
        THEN /\ w' = disarmed
             /\ rpc' = r
             /\ failArmed' = (failArmed /\ from # "afterFail")
        ELSE /\ w' = SetRequesting(disarmed, TRUE)
             /\ rpc' = [st |-> "asked", from |-> v.good, pts |-> 0, final |-> TRUE]
             /\ failArmed' = FALSE

CountPoints(u) ==
    counted' = IF w.requesting \/ IsOld(w, u) THEN counted
               ELSE {p \in counted \cup Points(u) : p > w'.good}

FirstPts == base' = IF base = 0 THEN w'.good ELSE base

\* feedUpdate for a channel update: skipped while the channel's own
\* difference is requested.
FeedUpdate(m) ==
    /\ m.via = "push" /\ ~w.requesting
    /\ w' = UpdateAndApply(w, m.update)
    /\ applied' = applied \cup (Applied(w, m.update) \cap log)
    /\ CountPoints(m.update)
    /\ FirstPts
    /\ net' = net \ {m}
    /\ UNCHANGED <<serverVars, rpc, failArmed, fails, active, known>>

UpdateSkipped(m) ==
    /\ m.via = "push" /\ w.requesting
    /\ net' = net \ {m}
    /\ UNCHANGED <<serverVars, clientVars, rpc, fails>>

\* ptsReceived(pts) and the results of requests that changed the channel
\* (applyAffectedHistory, applyAffectedMessages).
ResultReceived(m) ==
    /\ m.via = "result"
    /\ w' = UpdateAndApplyCount(w, m.update)
    /\ applied' = applied \cup (({m.update} \cup AppliedByCount(w, m.update)) \cap log)
    /\ CountPoints(m.update)
    /\ FirstPts
    /\ net' = net \ {m}
    /\ UNCHANGED <<serverVars, rpc, failArmed, fails, active, known>>

\* updateChannelTooLong: the common difference tells that the channel moved.
ChannelTooLong ==
    /\ w.good < top
    /\ GetChannelDifference(w, rpc, "unknown")
    /\ UNCHANGED <<serverVars, net, fails, active, known, base, applied, counted>>

\* _byPtsTimer: getDifferenceByPts, for a gap or for the short poll.
GetDifferenceByPts ==
    /\ w.armed
    /\ GetChannelDifference(w, rpc, "gap")
    /\ UNCHANGED <<serverVars, net, fails, active, known, base, applied, counted>>

\* _failDifferenceTimer: getDifferenceAfterFail, for a channel.
GetDifferenceAfterFail ==
    /\ failArmed
    /\ GetChannelDifference(w, rpc, "afterFail")
    /\ UNCHANGED <<serverVars, net, fails, active, known, base, applied, counted>>

FailChannelDifference ==
    /\ rpc.st = "error"
    /\ failArmed' = TRUE
    /\ rpc' = NoRpc
    /\ UNCHANGED <<serverVars, net, w, fails, active, known, base, applied, counted>>

\* gotChannelDifference: init, no longer requesting, then the next request
\* or the deadline of the short poll.
Received(pts) == SetRequesting(InitAt(w, pts), FALSE)

\* Mutant: a difference that is not final is taken for the last one.
GotChannelDifferenceOnce ==
    /\ rpc.st \in {"empty", "difference", "tooLong"}
    /\ applied' = applied \cup Between(rpc.from, rpc.pts)
    /\ counted' = {}
    /\ w' = IF active THEN WaitForShortPoll(Received(rpc.pts))
            ELSE Received(rpc.pts)
    /\ rpc' = NoRpc
    /\ UNCHANGED <<serverVars, net, failArmed, fails, active, known, base>>

GotChannelDifference ==
    /\ rpc.st \in {"empty", "difference", "tooLong"}
    /\ applied' = applied \cup Between(rpc.from, rpc.pts)
    /\ counted' = {}
    /\ IF rpc.final
       THEN /\ w' = IF active THEN WaitForShortPoll(Received(rpc.pts))
                    ELSE Received(rpc.pts)
            /\ rpc' = NoRpc
            /\ UNCHANGED failArmed
       ELSE GetChannelDifference(Received(rpc.pts), NoRpc, "unknown")
    /\ UNCHANGED <<serverVars, net, fails, active, known, base>>

\* Mutant: the poll of the channel shown is not scheduled.
ShowChannelUnpolled ==
    /\ ~active /\ active' = TRUE
    /\ UNCHANGED <<serverVars, net, w, rpc, failArmed, fails, known, base, applied, counted>>

\* ui_showPeerHistory makes the channel the active chat, or another one.
ShowChannel ==
    /\ ~active /\ active' = TRUE
    /\ w' = WaitForShortPoll(w)
    /\ UNCHANGED <<serverVars, net, rpc, failArmed, fails, known, base, applied, counted>>

HideChannel ==
    /\ active /\ active' = FALSE
    /\ UNCHANGED <<serverVars, net, w, rpc, failArmed, fails, known, base, applied, counted>>

\* deleteConversation: the chat list is shown, then the poll is stopped.
LeaveChannel ==
    /\ active' = FALSE
    /\ w' = StopWaitingForShortPoll(w)
    /\ UNCHANGED <<serverVars, net, rpc, failArmed, fails, known, base, applied, counted>>

-----------------------------------------------------------------------------
Deliver(m) == FeedUpdate(m) \/ UpdateSkipped(m) \/ ResultReceived(m)

GotAnswer == GotChannelDifference \/ FailChannelDifference

Next ==
    \/ \E c \in Counts, via \in {"push", "result"} : Publish(c, via)
    \/ PublishPts
    \/ \E m \in net : LosePush(m) \/ Deliver(m)
    \/ ServerAnswers \/ ServerAnswersError \/ GotAnswer
    \/ ChannelTooLong \/ GetDifferenceByPts \/ GetDifferenceAfterFail
    \/ ShowChannel \/ HideChannel \/ LeaveChannel

Spec == Init /\ [][Next]_vars

\* Timers fire, the server answers, what is on its way and not lost arrives.
FairSpec ==
    /\ Spec
    /\ WF_vars(GetDifferenceByPts) /\ WF_vars(GetDifferenceAfterFail)
    /\ WF_vars(ServerAnswers) /\ WF_vars(GotAnswer)
    /\ WF_vars(\E m \in net : Deliver(m))

-----------------------------------------------------------------------------
(* Properties. *)

Update == [pts : 1 .. MaxPts, count : 0 .. MaxPts]
Waiter ==
    [good : 0 .. MaxPts, last : 0 .. MaxPts, count : Nat,
     requesting : BOOLEAN, waiting : BOOLEAN, poll : BOOLEAN,
     armed : BOOLEAN, queue : SUBSET Update]
Rpc ==
    [st : {"none", "asked", "empty", "difference", "tooLong", "error"},
     from : 0 .. MaxPts, pts : 0 .. MaxPts, final : BOOLEAN]

\* Types of the channel's box.
TypeOK ==
    /\ log \subseteq Update
    /\ top \in 1 .. MaxPts
    /\ zeros \in 0 .. MaxZeros
    /\ net \subseteq [via : {"push", "result"}, update : Update]
    /\ w \in Waiter
    /\ rpc \in Rpc
    /\ {failArmed, active, known} \subseteq BOOLEAN
    /\ fails \in 0 .. MaxFails
    /\ base \in 0 .. MaxPts
    /\ applied \subseteq log
    /\ counted \subseteq 1 .. MaxPts

\* No update of the channel between the first pts it was given and the
\* confirmed one is missing from the client's data.
NoGap == \A u \in log : base < u.pts /\ u.pts <= w.good => u \in applied

\* An update of the channel that is held back is ahead of the confirmed pts
\* and has a deadline, whatever the short poll, which shares that deadline,
\* does with it.
HeldBackIsWatched ==
    w.queue # {} =>
        /\ ~w.requesting /\ w.waiting /\ w.armed
        /\ \A u \in w.queue : u.pts > w.good

\* Every pts of the channel that the waiter has heard of is confirmed in the
\* end.  A failed request, which is never repeated, and an update with
\* pts_count = 0, which cancels the wait for a gap, end that.
HeardIsConfirmed ==
    \A p \in 1 .. MaxPts :
        (w.last >= p) ~> (w.good >= p \/ fails > 0 \/ zeros > 0)

\* A channel on screen has its difference requested, or leaves the screen.  One
\* shown before its pts is known is not polled, nor is one whose request failed.
ShownIsPolled ==
    (active /\ known) ~> (rpc.st = "asked" \/ ~active \/ fails > 0)

\* A request that failed is made again after the growing timeout.
FailedIsRetried == (rpc.st = "error") ~> (rpc.st = "asked")
=============================================================================
