------------------------------ MODULE PtsWaiter ------------------------------
(***************************************************************************)
(* The class PtsWaiter (data/data_pts_waiter.h, .cpp): the counter by      *)
(* which the client decides whether an update may be applied now, must be  *)
(* held back until the ones before it arrive, or is an old one.  There is  *)
(* one waiter for the common update box (owned by MainWidget) and one per  *)
(* channel (owned by ChannelData).                                         *)
(*                                                                         *)
(* An update is a record [pts, count]: it moves the box from pts - count   *)
(* to pts.  A waiter is a record of the fields of the class; its queue is  *)
(* the set of the updates held back (the code keeps three maps under one   *)
(* key that starts with the pts; which order they are applied in is fixed  *)
(* by that key).  The field armed stands for the deadline which the waiter *)
(* sets and clears for its box through MainWidget::ptsWaiterStartTimerFor: *)
(* the length of the wait (1 ms or kWaitForSkippedTimeout) is abstracted,  *)
(* only whether a deadline is pending is kept.                             *)
(*                                                                         *)
(* _applySkippedLevel is nonzero only inside applySkippedUpdates, which no *)
(* other call on the waiter interrupts, so it is not part of the state.    *)
(***************************************************************************)
EXTENDS Integers, FiniteSets

\* The points of the box that an update accounts for.
Points(u) == (u.pts - u.count + 1) .. u.pts

NewWaiter ==
    [good |-> 0, last |-> 0, count |-> 0, requesting |-> FALSE,
     waiting |-> FALSE, poll |-> FALSE, armed |-> FALSE, queue |-> {}]

Larger(a, b) == IF a >= b THEN a ELSE b

Inited(w) == w.good > 0

InitAt(w, pts) ==
    [w EXCEPT !.good = pts, !.last = pts, !.count = pts, !.queue = {}]

\* Mutant: the updates held back survive the start of a request.
SetRequestingKeepsQueue(w, isRequesting) ==
    [w EXCEPT !.requesting = isRequesting]

SetRequesting(w, isRequesting) ==
    [w EXCEPT !.requesting = isRequesting,
              !.queue = IF isRequesting THEN {} ELSE @]

StartTimer(w) == [w EXCEPT !.armed = TRUE]

CheckForWaiting(w) ==
    [w EXCEPT !.armed = @ /\ (w.waiting \/ w.poll)]

\* Mutant: the flag is set but no timer is started.
WaitForSkippedUntimed(w) == [w EXCEPT !.waiting = TRUE]

\* setWaitingForSkipped(channel, ms) for ms >= 0 and for ms < 0.
WaitForSkipped(w) == StartTimer([w EXCEPT !.waiting = TRUE])
StopWaitingForSkipped(w) == CheckForWaiting([w EXCEPT !.waiting = FALSE])

\* setWaitingForShortPoll(channel, ms) for ms >= 0 and for ms < 0.
WaitForShortPoll(w) == StartTimer([w EXCEPT !.poll = TRUE])
StopWaitingForShortPoll(w) == CheckForWaiting([w EXCEPT !.poll = FALSE])

\* What applySkippedUpdates applies, and the waiter it leaves.
Skipped(w) == IF w.waiting THEN w.queue ELSE {}
ApplySkippedUpdates(w) ==
    IF w.waiting
    THEN [StopWaitingForSkipped(w) EXCEPT !.queue = {}]
    ELSE w

-----------------------------------------------------------------------------
\* A gap closes when the counted points reach the latest pts heard of.
Closes(w, u) == Larger(w.last, u.pts) = w.count + u.count

\* Mutant: the confirmed pts is taken from the update, not from _last.
CheckConfirmsUpdate(w, u) ==
    LET v == [w EXCEPT !.last = Larger(w.last, u.pts),
                       !.count = w.count + u.count]
    IN  CASE ~Inited(w)    -> InitAt(w, u.pts)
          [] Inited(w) /\ Closes(w, u)  -> [v EXCEPT !.good = u.pts]
          [] Inited(w) /\ ~Closes(w, u) -> WaitForSkipped(v)

\* check(): its result, and the waiter it leaves.
CheckPasses(w, u) == ~Inited(w) \/ Closes(w, u) \/ u.count = 0
Check(w, u) ==
    LET v == [w EXCEPT !.last = Larger(w.last, u.pts),
                       !.count = w.count + u.count]
    IN  CASE ~Inited(w)    -> InitAt(w, u.pts)
          [] Inited(w) /\ Closes(w, u)  -> [v EXCEPT !.good = v.last]
          [] Inited(w) /\ ~Closes(w, u) -> WaitForSkipped(v)

\* Mutant: an old update is counted once more.
NeverOld(w, u) == FALSE

\* An update the box has already confirmed.
IsOld(w, u) == u.pts <= w.good /\ u.count > 0

\* updated(): its result, and the waiter it leaves (nothing queued yet).
Passes(w, u) == w.requesting \/ (~IsOld(w, u) /\ CheckPasses(w, u))
Updated(w, u) == IF w.requesting \/ IsOld(w, u) THEN w ELSE Check(w, u)

\* updateAndApply(channel, pts, count, update): the waiter it leaves, and the
\* updates it hands to applyUpdateNoPtsCheck.
Enqueue(w, u) == [w EXCEPT !.queue = @ \cup {u}]

\* Mutant: the update that closes a gap leaves the others in the queue.
AppliesAlways(w, u) == TRUE

AppliesDirectly(w, u) ==
    LET v == Updated(w, u) IN ~v.waiting \/ v.queue = {}

UpdateAndApply(w, u) ==
    LET v == Updated(w, u)
    IN  IF Passes(w, u)
        THEN IF AppliesDirectly(w, u) THEN v
             ELSE ApplySkippedUpdates(Enqueue(v, u))
        ELSE IF IsOld(w, u) THEN v ELSE Enqueue(v, u)

Applied(w, u) ==
    IF ~Passes(w, u) THEN {}
    ELSE IF AppliesDirectly(w, u) THEN {u}
    ELSE Skipped(Enqueue(Updated(w, u), u))

\* updateAndApply(channel, pts, count): there is no update to keep or to
\* apply, its effect is the caller's.
UpdateAndApplyCount(w, u) ==
    IF Passes(w, u) THEN ApplySkippedUpdates(Updated(w, u)) ELSE Updated(w, u)

AppliedByCount(w, u) ==
    IF Passes(w, u) THEN Skipped(Updated(w, u)) ELSE {}
=============================================================================
