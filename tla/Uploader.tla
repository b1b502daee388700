------------------------------ MODULE Uploader ------------------------------
(***************************************************************************)
(* Storage::Uploader (storage/file_upload.cpp): files are uploaded one     *)
(* after the other, in parts, over several sessions, with a limit on the   *)
(* bytes under way.  Everything runs on the main thread; the server        *)
(* answers requests in any order, also requests of a file that was given   *)
(* up, which are not cancelled.                                            *)
(*                                                                         *)
(* A file is a message id; the queue is ordered by it.  Photos and secure  *)
(* files have only parts; documents have thumbnail parts and a body whose  *)
(* part size depends on its size.                                          *)
(***************************************************************************)
EXTENDS Integers, Sequences, FiniteSets, FiniteSetsExt

CONSTANTS
    Files,          \* message ids
    Small,          \* parts, or thumbnail parts, of a file
    DocSize,        \* size of its body, 0 if it has none
    PartSizes,      \* kDocumentUploadPartSize0, 1, ...
    SizeLimits,     \* the sizes from, and above, which 0 and 1 are too small
    MaxParts,       \* kDocumentMaxPartsCount
    MaxParallel,    \* kMaxUploadFileParallelSize
    Sessions,       \* 0 .. kUploadSessionsCount - 1
    MaxErrors,      \* bound: requests that fail and files that cannot be read
    MaxPauses       \* bound: pauses by the user

ASSUME ConstantsAssumption ==
    /\ Files \subseteq Nat \ {0} /\ IsFiniteSet(Files)
    /\ Small \in [Files -> Nat] /\ DocSize \in [Files -> Nat]
    /\ PartSizes \in Seq(Nat \ {0}) /\ Len(PartSizes) >= 2
    /\ SizeLimits \in Nat \X Nat
    /\ {MaxParts, MaxParallel, MaxErrors, MaxPauses} \subseteq Nat
    /\ 0 \in Sessions /\ Sessions \subseteq Nat /\ IsFiniteSet(Sessions)

VARIABLES
    up,       \* the fields of Uploader, see Init
    net,      \* requests sent and not answered
    errors, pauses,
    acked,    \* history: parts the server has accepted
    told      \* history: the files reported, with what was reported

vars == <<up, net, errors, pauses, acked, told>>

-----------------------------------------------------------------------------
(* The parts of a file. *)

Ceil(a, b) == a \div b + (IF a % b # 0 THEN 1 ELSE 0)

\* setPartSize: the count of parts may not be too large.
FitsIn(size, part) == Ceil(size, part) <= MaxParts

\* setDocSize: the first part size that fits; the last one if none does.
docPartSize(f) ==
    LET size == DocSize[f]
        allowed(i) == CASE i = 1 -> size < SizeLimits[1]
                        [] i = 2 -> size <= SizeLimits[2]
                        [] OTHER -> TRUE
        fits == {i \in DOMAIN PartSizes : allowed(i) /\ FitsIn(size, PartSizes[i])}
    IN  PartSizes[Min(fits \cup {Len(PartSizes)})]

docPartsCount(f) == Ceil(DocSize[f], docPartSize(f))

SmallSize == 1

\* A request: the part it carries and the session it was sent through.
Part(f, kind, i) == [file |-> f, kind |-> kind, index |-> i]
AllParts(f) == {Part(f, "small", i) : i \in 1 .. Small[f]}
               \cup {Part(f, "doc", i) : i \in 1 .. docPartsCount(f)}

SizeOf(p) == IF p.kind = "small" THEN SmallSize ELSE docPartSize(p.file)

-----------------------------------------------------------------------------
(* The fields of Uploader: queue, and what was sent of the current file      *)
(* (small: parts.size(), doc: docSentParts); requestsSent, docRequestsSent   *)
(* and dcMap as one map from parts to sessions; the timers.                  *)

NoFile == 0

\* What the listeners are told of a file.
Outcomes == {"ready", "failed", "dropped"}

Start == [queue |-> {}, small |-> [f \in Files |-> 0], doc |-> [f \in Files |-> 0],
          current |-> NoFile, sent |-> <<>>, sentSize |-> 0,
          sentSizes |-> [s \in Sessions |-> 0], paused |-> NoFile,
          nextTimer |-> FALSE, stopTimer |-> FALSE,
          out |-> {}, reports |-> {}, gone |-> {}, cut |-> {}]

Report(u, f, what) == [u EXCEPT !.reports = @ \cup {<<f, what>>}]

\* The session with the fewest bytes under way, the first of them.
todc(u) == Min({s \in Sessions : \A t \in Sessions : u.sentSizes[s] <= u.sentSizes[t]})

\* MTP::send of a part.
SendPart(u, p) ==
    LET dc == todc(u)
    IN  [u EXCEPT !.sent = [q \in DOMAIN @ \cup {p} |-> IF q = p THEN dc ELSE @[q]],
                  !.sentSize = @ + SizeOf(p), !.sentSizes[dc] = @ + SizeOf(p),
                  !.out = @ \cup {p}, !.nextTimer = TRUE]

\* currentFailed, before its sendNext: nothing sent is remembered.
Forget(u) ==
    [u EXCEPT !.sent = <<>>, !.current = NoFile, !.sentSize = 0,
              !.sentSizes = [s \in Sessions |-> 0]]

Fail(u) ==
    Forget(IF u.current \in u.queue
           THEN [Report(u, u.current, "failed") EXCEPT !.queue = @ \ {u.current}]
           ELSE u)

\* The listeners get the uploaded file.
Ready(u, f) == [Report(u, f, "ready") EXCEPT !.queue = @ \ {f}, !.current = NoFile]

\* Nothing more is sent at the limit and during a pause.
Holds(u) == u.sentSize >= MaxParallel \/ u.paused # NoFile

\* The current file, or the first one.
Pick(u, f) == [u EXCEPT !.stopTimer = FALSE, !.current = f]

\* Mutant: the answers to its parts are not waited for.
AllSent(u) == TRUE

\* Nothing is waited for of the file any more.
AllAnswered(u) == u.sent = <<>>

\* The next part of the document cannot be read: the file could not be opened,
\* or gives a short part that is not the last.
Unreadable(u, f) ==
    \/ f \in u.gone /\ u.doc[f] = 0
    \/ f \in u.cut /\ u.doc[f] + 1 # docPartsCount(f)

\* sendNext for the current file f: [u, more], where more means that sendNext
\* goes on with another file.
SendOf(u, f) ==
    CASE u.small[f] < Small[f] ->
           [u |-> SendPart([u EXCEPT !.small[f] = @ + 1], Part(f, "small", u.small[f] + 1)),
            more |-> FALSE]
      [] u.small[f] = Small[f] /\ u.doc[f] < docPartsCount(f) ->
           IF Unreadable(u, f)
           THEN [u |-> Fail(u), more |-> TRUE]
           ELSE [u |-> SendPart([u EXCEPT !.doc[f] = @ + 1], Part(f, "doc", u.doc[f] + 1)),
                 more |-> FALSE]
      [] OTHER ->
           IF AllAnswered(u) THEN [u |-> Ready(u, f), more |-> TRUE]
           ELSE [u |-> u, more |-> FALSE]

SendStep(a) ==
    LET u == a.u
        f == IF u.current \in u.queue THEN u.current ELSE Min(u.queue)
    IN  IF ~a.more \/ Holds(u)
        THEN [u |-> u, more |-> FALSE]
        ELSE IF u.queue = {} THEN [u |-> [u EXCEPT !.stopTimer = TRUE], more |-> FALSE]
        ELSE SendOf(Pick(u, f), f)

\* Uploader::sendNext: one part, after the files that are finished.
sendNext(u) ==
    LET last == Cardinality(u.queue) + 1
        after[i \in 0 .. last] == IF i = 0 THEN [u |-> u, more |-> TRUE]
                                  ELSE SendStep(after[i - 1])
    IN  after[last].u

\* The effects outside: requests that went out, reports to the listeners; n is
\* what was on its way before.
Becomes(u, n) ==
    /\ up' = [u EXCEPT !.out = {}, !.reports = {}]
    /\ net' = n \cup u.out
    /\ told' = told \cup u.reports

\* A file that was never queued.
Fresh(f) == f \notin up.queue /\ \A what \in Outcomes : <<f, what>> \notin told

-----------------------------------------------------------------------------
(* Calls. *)

\* upload and uploadMedia.
upload(f) ==
    /\ Fresh(f)
    /\ Becomes(sendNext([up EXCEPT !.queue = @ \cup {f}]), net)
    /\ UNCHANGED <<errors, pauses, acked>>

\* Mutant: the bytes of the failed file still count.
currentFailedKeepsSize(u) ==
    sendNext([Fail(u) EXCEPT !.sentSize = u.sentSize, !.sentSizes = u.sentSizes])

\* Mutant: the requests of the failed file are still waited for.
currentFailedKeepsSent(u) == sendNext([Fail(u) EXCEPT !.sent = u.sent])

\* currentFailed.
currentFailed(u) == sendNext(Fail(u))

cancel(f) ==
    /\ f \in up.queue
    /\ Becomes(IF up.current = f THEN currentFailed(up)
               ELSE Report([up EXCEPT !.queue = @ \ {f}], f, "dropped"), net)
    /\ UNCHANGED <<errors, pauses, acked>>

\* The user is asked whether to stop the upload of f.
pause(f) ==
    /\ f \in up.queue /\ pauses < MaxPauses /\ pauses' = pauses + 1
    /\ up' = [up EXCEPT !.paused = f]
    /\ UNCHANGED <<net, errors, acked, told>>

\* Mutant: nothing is sent when the pause ends.
unpauseOnly ==
    /\ up.paused # NoFile
    /\ Becomes([up EXCEPT !.paused = NoFile], net)
    /\ UNCHANGED <<errors, pauses, acked>>

unpause ==
    /\ up.paused # NoFile
    /\ Becomes(sendNext([up EXCEPT !.paused = NoFile]), net)
    /\ UNCHANGED <<errors, pauses, acked>>

\* nextTimer: another part, if the answer takes long.
nextTimer ==
    /\ up.nextTimer
    /\ Becomes(sendNext([up EXCEPT !.nextTimer = FALSE]), net)
    /\ UNCHANGED <<errors, pauses, acked>>

\* stopSessionsTimer.
stopSessions ==
    /\ up.stopTimer
    /\ up' = [up EXCEPT !.stopTimer = FALSE]
    /\ UNCHANGED <<net, errors, pauses, acked, told>>

-----------------------------------------------------------------------------
(* Answers. *)

\* What partLoaded takes off: the size of the part, for a document that of the
\* file that is current now.
sentPartSize(u, p) == IF p.kind = "small" THEN SmallSize ELSE docPartSize(u.current)

Loaded(u, p) ==
    LET size == sentPartSize(u, p)
    IN  [u EXCEPT !.sent = [q \in DOMAIN @ \ {p} |-> @[q]],
                  !.sentSize = @ - size, !.sentSizes[u.sent[p]] = @ - size]

\* partLoaded with boolTrue.
partLoaded(p) ==
    /\ p \in net
    /\ Becomes(sendNext(IF p \in DOMAIN up.sent THEN Loaded(up, p) ELSE up), net \ {p})
    /\ acked' = acked \cup {p}
    /\ UNCHANGED <<errors, pauses>>

\* partLoaded with boolFalse.
partRefused(p) ==
    /\ p \in net /\ errors < MaxErrors /\ errors' = errors + 1
    /\ Becomes(IF p \in DOMAIN up.sent THEN currentFailed(up) ELSE sendNext(up), net \ {p})
    /\ UNCHANGED <<pauses, acked>>

\* partFailed, with an error that MTProto does not handle itself.
partFailed(p) ==
    /\ p \in net /\ errors < MaxErrors /\ errors' = errors + 1
    /\ Becomes(sendNext(IF p \in DOMAIN up.sent THEN currentFailed(up) ELSE up), net \ {p})
    /\ UNCHANGED <<pauses, acked>>

\* The file on disk is deleted, or becomes shorter.
fileLost(f) ==
    /\ f \in up.queue \ (up.gone \cup up.cut) /\ DocSize[f] > 0
    /\ errors < MaxErrors /\ errors' = errors + 1
    /\ up' \in {[up EXCEPT !.gone = @ \cup {f}], [up EXCEPT !.cut = @ \cup {f}]}
    /\ UNCHANGED <<net, pauses, acked, told>>

-----------------------------------------------------------------------------

Init ==
    /\ up = Start /\ net = {} /\ errors = 0 /\ pauses = 0
    /\ acked = {} /\ told = {}

EveryPart == UNION {AllParts(f) : f \in Files}

Answer == \E p \in net : partLoaded(p) \/ partRefused(p) \/ partFailed(p)

Next ==
    \/ \E f \in Files : upload(f) \/ cancel(f) \/ pause(f) \/ fileLost(f)
    \/ unpause \/ nextTimer \/ stopSessions
    \/ Answer

Spec == Init /\ [][Next]_vars

\* Every request is answered and the user ends every pause.  This is what weak
\* fairness of partLoaded(p) and of unpause says: the first is enabled while p is
\* under way and a request is sent once, the second is enabled during a pause.
FairSpec ==
    /\ Spec
    /\ []<>(up.paused = NoFile)
    /\ \A p \in EveryPart : []<>(p \notin net)

-----------------------------------------------------------------------------
(* Properties. *)

\* The bytes of some parts, and how many they are.
Bytes(parts) == UNION {{p} \X (1 .. SizeOf(p)) : p \in parts}
SizeSum(parts) == Cardinality(Bytes(parts))

\* The bytes counted as under way, in all and per session, are those of the
\* requests that are waited for: a wrong count would stop the uploads for good
\* (it is unsigned in the code) or lift the limit.
SizesAgree ==
    /\ up.sentSize = SizeSum(DOMAIN up.sent)
    /\ \A s \in Sessions : up.sentSizes[s] = SizeSum({p \in DOMAIN up.sent : up.sent[p] = s})

\* Requests are waited for only of the current file, which is in the queue
\* ("Assert(k != queue.cend())"), and each of them is under way.
SentIsCurrent ==
    \A p \in DOMAIN up.sent :
        p.file = up.current /\ up.current \in up.queue /\ p \in net

\* A file reported as ready lies on the server with all its parts, whatever the
\* order of the answers and whatever was given up before.
ReadyIsWhole ==
    \A f \in Files : <<f, "ready">> \in told => AllParts(f) \subseteq acked

\* Every file that is queued leaves the queue: uploaded, failed or cancelled.
UploadsEnd == \A f \in Files : f \in up.queue ~> f \notin up.queue
=============================================================================
