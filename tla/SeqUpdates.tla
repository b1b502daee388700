----------------------------- MODULE SeqUpdates -----------------------------
(***************************************************************************)
(* The sequence layer of MainWidget (mainwidget.cpp): the server wraps     *)
(* updates in containers numbered by seq; a container that comes too early *)
(* is stored in _bySeqUpdates until the ones before it arrive or a timer   *)
(* asks for the difference.  Containers also carry the date from which the *)
(* next difference is asked; it must not pass a message of a channel that  *)
(* is not loaded, for which only a timer (_byMinChannelTimer) is started.  *)
(*                                                                         *)
(* A container is [start, seq, date, data]: it covers the numbers          *)
(* start .. seq (both 0 for one without a number), and data tells what its *)
(* handler meets: "loaded"; "unloaded", a message whose users or chats are *)
(* not known; "minChannel", a message of a channel that is not loaded.     *)
(* What the updates of a container do in the pts box is CommonUpdates;     *)
(* here only whether the box is requesting a difference matters.           *)
(***************************************************************************)
EXTENDS Integers, FiniteSets, FiniteSetsExt

CONSTANTS
    MaxSeq,       \* bound: the largest seq the server reaches
    MaxDate,      \* bound: the server's clock
    MaxFails,     \* bound: errors the server answers getDifference with
    MaxSessions,  \* bound: new_session_created messages
    Servers       \* what the server may do, see below

ASSUME SeqAssumption ==
    /\ MaxSeq \in Nat /\ MaxDate \in Nat /\ MaxFails \in Nat
    /\ MaxSessions \in Nat
    /\ Servers \subseteq {"channels", "faults", "results"}

\* The servers: one that publishes updates of channels the client does not know
\* and forgets sessions; one that fails and answers in slices; one that numbers
\* the results of requests as it numbers pushes, and answers in slices.
VARIABLES
    server,     \* which of the Servers this is
    log,        \* server: the containers published so far
    now,        \* server: its clock, advanced by every container
    topSeq,     \* server: the seq of the last container
    wire,       \* containers on their way: [via, container]
    cl,         \* the client's counters and timers
    rpc,        \* the getState or getDifference request, and its answer
    fails, sessions,
    applied,    \* history: containers reflected in the client's data
    skipped     \* history: containers left to _byMinChannelTimer, unless they
                \* came so late that the client's date had passed them

seqVars == <<server, log, now, topSeq, wire, cl, rpc, fails, sessions, applied, skipped>>

Data == {"loaded", "unloaded", "minChannel"}

NoRpc == [st |-> "none", asked |-> 0, date |-> 0, seq |-> 0]

SeqInit ==
    /\ server \in Servers
    /\ log = {} /\ now = 1 /\ topSeq = 0 /\ wire = {}
    /\ cl = [seq |-> 0, date |-> 0, stored |-> {}, seqTimer |-> FALSE,
             minTimer |-> FALSE, failTimer |-> FALSE, requesting |-> TRUE]
    /\ rpc = [NoRpc EXCEPT !.st = "getState"]
    /\ fails = 0 /\ sessions = 0
    /\ applied = {} /\ skipped = {}

-----------------------------------------------------------------------------
(* The server and the connection (external). *)

serverVars == <<server, log, now, topSeq>>
clientVars == <<cl, applied, skipped>>

\* A container of n numbers: 0 for updates that are not numbered, 1 for
\* `updates`, more for `updatesCombined`.
Publish(n, data, via) ==
    LET c == [start |-> IF n = 0 THEN 0 ELSE topSeq + 1,
              seq |-> IF n = 0 THEN 0 ELSE topSeq + n,
              date |-> now + 1, data |-> data]
    IN  /\ topSeq + n <= MaxSeq /\ now < MaxDate
        /\ data = "minChannel" => server = "channels"
        /\ via = "result" => n = 0 \/ server = "results"
        /\ log' = log \cup {c}
        /\ now' = now + 1
        /\ topSeq' = topSeq + n
        /\ wire' = wire \cup {[via |-> via, container |-> c]}
        /\ UNCHANGED <<server, clientVars, rpc, fails, sessions>>

LosePush(m) ==
    /\ m.via = "push"
    /\ wire' = wire \ {m}
    /\ UNCHANGED <<serverVars, clientVars, rpc, fails, sessions>>

Reply(st, date, seq) == rpc' = [rpc EXCEPT !.st = st, !.date = date, !.seq = seq]

\* A slice ends at a container; its intermediate state is the state then.
SeqAt(date) == Max({0} \cup {c.seq : c \in {d \in log : d.date <= date}})

ServerAnswers ==
    /\ \/ rpc.st = "getState" /\ Reply("state", now, topSeq)
       \/ rpc.st = "getDifference" /\ Reply("difference", now, topSeq)
       \/ /\ rpc.st = "getDifference" /\ server # "channels"
          /\ \E c \in log :
                /\ rpc.asked < c.date /\ c.date < now
                /\ Reply("slice", c.date, SeqAt(c.date))
    /\ UNCHANGED <<serverVars, wire, clientVars, fails, sessions>>

ServerAnswersError ==
    /\ rpc.st = "getDifference" /\ server = "faults" /\ fails < MaxFails
    /\ Reply("error", 0, 0)
    /\ fails' = fails + 1
    /\ UNCHANGED <<serverVars, wire, clientVars, sessions>>

\* What an answer brings: pts and qts name what the client lacks in its own
\* boxes, for channels it does not track only the date it asked from does.
Brought == {c \in log : c.date <= rpc.date /\ (c.data = "minChannel" => c.date > rpc.asked)}

-----------------------------------------------------------------------------
(* The client.  Handlers are functions of a record [cl, rpc, applied,      *)
(* skipped], because they nest: a stored container is fed by updSetState.  *)

State == [cl |-> cl, rpc |-> rpc, applied |-> applied, skipped |-> skipped]

Become(s) ==
    /\ cl' = s.cl /\ rpc' = s.rpc
    /\ applied' = s.applied /\ skipped' = s.skipped

GetDifference(s) ==
    IF s.cl.requesting THEN s
    ELSE [s EXCEPT !.cl.stored = {}, !.cl.seqTimer = FALSE,
                   !.cl.failTimer = FALSE, !.cl.requesting = TRUE,
                   !.rpc = [NoRpc EXCEPT !.st = "getDifference", !.asked = s.cl.date]]

\* feedUpdateVector; what is not loaded is not looked at while requesting.
FeedUpdateVector(s, c) ==
    IF c.data = "loaded" \/ s.cl.requesting THEN [s EXCEPT !.applied = @ \cup {c}]
    ELSE IF c.data = "unloaded" THEN GetDifference(s)
    ELSE [s EXCEPT !.cl.minTimer = TRUE,
                   !.skipped = IF s.cl.date < c.date THEN @ \cup {c} ELSE @]

\* Mutant: the date moves on although a channel's message is left behind.
SetDateAlways(s, date) ==
    [s EXCEPT !.cl.date = IF s.cl.date < date THEN date ELSE @]

SetDate(s, date) ==
    [s EXCEPT !.cl.date = IF s.cl.date < date /\ ~s.cl.minTimer THEN date ELSE @]

\* Whether updSetState looks at what is stored.
SeqChanges(s, seq) == seq # 0 /\ seq # s.cl.seq

\* The first of _bySeqUpdates.
FirstStored(s) == CHOOSE c \in s.cl.stored : \A d \in s.cl.stored : c.start <= d.start

\* The first stored container, once seq has changed: dropped when old, fed when
\* next (which changes seq again), else kept with all after it.
FeedStored(s) ==
    LET c == FirstStored(s)
        taken == [s EXCEPT !.cl.stored = @ \ {c}]
        fed == SetDate(FeedUpdateVector(taken, c), c.date)
    IN  CASE s.cl.stored = {} \/ c.start > s.cl.seq + 1 -> s
          [] s.cl.stored # {} /\ c.start <= s.cl.seq -> taken
          [] s.cl.stored # {} /\ c.start = s.cl.seq + 1 -> [fed EXCEPT !.cl.seq = c.seq]

\* One after the other, at most as many as are stored.
FeedAll(s) ==
    LET all == Cardinality(s.cl.stored)
        after[i \in 0 .. all] == IF i = 0 THEN s ELSE FeedStored(after[i - 1])
    IN  after[all]

WatchStored(s) == [s EXCEPT !.cl.seqTimer = s.cl.stored # {}]

\* updSetState without the pts, which the other boxes' module keeps.
UpdSetState(s, date, seq) ==
    LET dated == SetDate(s, date)
        moved == [dated EXCEPT !.cl.seq = seq, !.cl.seqTimer = FALSE]
    IN  IF SeqChanges(s, seq) THEN WatchStored(FeedAll(moved)) ELSE dated

ComesEarly(s, c) == c.start # 0 /\ c.start > s.cl.seq + 1

\* feedUpdates for updates, updatesCombined and (start = 0) updateShort.
FeedUpdates(s, c) ==
    IF c.start # 0 /\ c.start <= s.cl.seq THEN s
    ELSE IF ComesEarly(s, c)
    THEN [s EXCEPT !.cl.stored = @ \cup {c}, !.cl.seqTimer = TRUE]
    ELSE UpdSetState(FeedUpdateVector(s, c), c.date, c.seq)

\* updateReceived: a push is ignored while a difference is requested; a
\* result is not.
Deliver(m) ==
    /\ wire' = wire \ {m}
    /\ IF m.via = "push" /\ cl.requesting THEN UNCHANGED <<clientVars, rpc>>
       ELSE Become(FeedUpdates(State, m.container))
    /\ UNCHANGED <<serverVars, fails, sessions>>

NewSessionCreated ==
    /\ server = "channels" /\ sessions < MaxSessions /\ sessions' = sessions + 1
    /\ Become(GetDifference([State EXCEPT !.cl.seq = 0]))
    /\ UNCHANGED <<serverVars, wire, fails>>

\* Mutant: the timer is stopped, the difference is not asked for.
BySeqTimerIdle ==
    /\ cl.seqTimer
    /\ Become([State EXCEPT !.cl.seqTimer = FALSE])
    /\ UNCHANGED <<serverVars, wire, fails, sessions>>

BySeqTimer ==
    /\ cl.seqTimer
    /\ Become(GetDifference([State EXCEPT !.cl.seqTimer = FALSE]))
    /\ UNCHANGED <<serverVars, wire, fails, sessions>>

ByMinChannelTimer ==
    /\ cl.minTimer
    /\ Become(GetDifference([State EXCEPT !.cl.minTimer = FALSE]))
    /\ UNCHANGED <<serverVars, wire, fails, sessions>>

GetDifferenceAfterFail ==
    /\ cl.failTimer
    /\ Become(GetDifference([State EXCEPT !.cl.requesting = FALSE]))
    /\ UNCHANGED <<serverVars, wire, fails, sessions>>

FailDifference ==
    /\ rpc.st = "error"
    /\ Become([State EXCEPT !.cl.failTimer = TRUE, !.rpc = NoRpc])
    /\ UNCHANGED <<serverVars, wire, fails, sessions>>

\* feedDifference, then updSetState while _requesting is still set.
Received ==
    UpdSetState([State EXCEPT !.applied = @ \cup Brought, !.rpc = NoRpc], rpc.date, rpc.seq)

GotState ==
    /\ rpc.st \in {"state", "difference"}
    /\ Become([Received EXCEPT !.cl.requesting = FALSE])
    /\ UNCHANGED <<serverVars, wire, fails, sessions>>

GotDifferenceSlice ==
    /\ rpc.st = "slice"
    /\ Become(GetDifference([Received EXCEPT !.cl.requesting = FALSE]))
    /\ UNCHANGED <<serverVars, wire, fails, sessions>>

-----------------------------------------------------------------------------
Timers == BySeqTimer \/ ByMinChannelTimer \/ GetDifferenceAfterFail
GotAnswer == GotState \/ GotDifferenceSlice \/ FailDifference

SeqNext ==
    \/ \E n \in 0 .. 2, data \in Data, via \in {"push", "result"} : Publish(n, data, via)
    \/ \E m \in wire : LosePush(m) \/ Deliver(m)
    \/ ServerAnswers \/ ServerAnswersError
    \/ GotAnswer \/ Timers \/ NewSessionCreated

SeqSpec == SeqInit /\ [][SeqNext]_seqVars

\* Timers fire, the server answers, answers and messages reach the client.
SeqFairSpec ==
    /\ SeqSpec
    /\ WF_seqVars(server = "faults" /\ BySeqTimer)
    /\ WF_seqVars(server = "faults" /\ GetDifferenceAfterFail)
    /\ WF_seqVars(server = "faults" /\ ServerAnswers)
    /\ WF_seqVars(server = "faults" /\ GotAnswer)
    /\ WF_seqVars(server = "faults" /\ \E m \in wire : Deliver(m))

-----------------------------------------------------------------------------
(* Properties. *)

\* A difference that will bring the container is under way, or will be asked
\* from a date before it by the timer that waits for that.
OnItsWay(c) ==
    \/ cl.requesting /\ (c.data = "minChannel" => rpc.asked < c.date)
    \/ c.data = "minChannel" /\ cl.minTimer /\ cl.date < c.date

\* Every container up to updSeq, and every one passed over because of a
\* channel that is not loaded, is applied or will come with a difference:
\* neither the number nor the date the client asks from runs ahead of what
\* it has, through nested feeding, drops while requesting and new sessions.
NothingForgotten ==
    \A c \in log :
        \/ c.data # "minChannel" /\ c.seq # 0 /\ c.seq <= cl.seq
        \/ c \in skipped
        => c \in applied \/ OnItsWay(c)

\* A container stored because numbers before it are missing is passed by
\* updSeq in the end: the gap is waited for, then fetched, whatever is lost,
\* fails or is dropped meanwhile.  (A numbered result stored while a difference
\* is requested may be left without its timer.)
StoredIsReached ==
    \A n \in 1 .. MaxSeq :
        (server = "faults" /\ \E c \in cl.stored : c.seq = n) ~> (cl.seq >= n)
=============================================================================
