---------------------------- MODULE ReceivedIds ----------------------------
(***************************************************************************)
(* ReceivedMsgIds (mtproto/session.h) as handleReceived uses it            *)
(* (mtproto/connection.cpp): the ids of the last messages received, by     *)
(* which a message that the server sends again is recognised.  Only        *)
(* kIdsBufferSize ids survive a message; a container registers the ids of  *)
(* everything it holds before the buffer is cut.  Updates and answers are  *)
(* handed to the main thread only after registerMsgId agreed, so this is   *)
(* what keeps a repeated update from being counted twice.  A message that   *)
(* is registered and then not handled (an answer with a wrong time, a      *)
(* broken gzip pack) is not told apart from one that is.                   *)
(***************************************************************************)
EXTENDS Integers, FiniteSets

CONSTANTS
    MsgIds,          \* message ids of the server, positive numbers
    kIdsBufferSize

ASSUME BufferAssumption ==
    /\ MsgIds \subseteq Nat \ {0}
    /\ kIdsBufferSize \in Nat \ {0}

VARIABLES
    idsNeedAck, \* _idsNeedAck: the ids registered
    open,       \* a message or a container is being handled
    registered, \* history: messages let through under this key
    repeated    \* history: messages let through a second time

receivedVars == <<idsNeedAck, open, registered, repeated>>

ReceivedInit == idsNeedAck = {} /\ open = FALSE /\ registered = {} /\ repeated = {}

\* Mutant: any id that is not in the buffer is new.
RecentAlways(id) == TRUE

\* size() < kIdsBufferSize || msgId > min().
Recent(id) == Cardinality(idsNeedAck) < kIdsBufferSize \/ \E i \in idsNeedAck : i < id

\* ReceivedMsgIds::registerMsgId when it agrees: only then is the message
\* handled.
registerMsgId(id) ==
    /\ id \notin idsNeedAck /\ Recent(id)
    /\ idsNeedAck' = idsNeedAck \cup {id}
    /\ registered' = registered \cup {id}
    /\ repeated' = repeated \cup ({id} \cap registered)

\* handleReceived: a message arrives, for the first time or again.
handleReceived(id) ==
    /\ ~open
    /\ open' = TRUE
    /\ \/ registerMsgId(id)
       \/ ~(id \notin idsNeedAck /\ Recent(id)) /\ UNCHANGED <<idsNeedAck, registered, repeated>>

\* handleOneReceived: the next message of the container.
handleContained(id) ==
    /\ open
    /\ open' = open
    /\ registerMsgId(id)

\* ReceivedMsgIds::shrink: the smallest ids are erased.
Shrunk(kept) ==
    IF Cardinality(idsNeedAck) <= kIdsBufferSize THEN kept = idsNeedAck
    ELSE /\ Cardinality(kept) = kIdsBufferSize
         /\ \A i \in kept, j \in idsNeedAck \ kept : j < i

\* handleReceived: the message is done, the buffer is cut.
shrink ==
    /\ open
    /\ open' = FALSE
    /\ \E kept \in SUBSET idsNeedAck : Shrunk(kept) /\ idsNeedAck' = kept
    /\ UNCHANGED <<registered, repeated>>

\* SessionData::clear with a new key; nothing sent under the old key can be
\* decrypted any more.
clear ==
    /\ ~open
    /\ idsNeedAck # {}
    /\ idsNeedAck' = {} /\ registered' = {}
    /\ UNCHANGED <<open, repeated>>

ReceivedNext ==
    \/ \E id \in MsgIds : handleReceived(id) \/ handleContained(id)
    \/ shrink \/ clear

ReceivedSpec == ReceivedInit /\ [][ReceivedNext]_receivedVars

\* Mutant: no id is too old to be known.
StateOfAll(id) ==
    IF \A i \in idsNeedAck : id > i THEN "notReceivedYet"
    ELSE IF id \in idsNeedAck THEN "received" ELSE "notReceived"

\* The state of a message told to the server (mtpc_msgs_state_req).
StateOf(id) ==
    IF \A i \in idsNeedAck : id < i THEN IF idsNeedAck = {} THEN "notReceivedYet" ELSE "unknown"
    ELSE IF \A i \in idsNeedAck : id > i THEN "notReceivedYet"
    ELSE IF id \in idsNeedAck THEN "received" ELSE "notReceived"

-----------------------------------------------------------------------------
ReceivedTypeOK ==
    /\ idsNeedAck \subseteq MsgIds /\ IsFiniteSet(idsNeedAck)
    /\ registered \subseteq MsgIds /\ repeated \subseteq MsgIds
    /\ open \in BOOLEAN

\* No message is let through twice under one key, although its id may have left
\* the buffer long before it comes again: what left is smaller than all that
\* registerMsgId still compares with.
NoneRepeated == repeated = {}

\* What left the buffer is smaller than all of it, and the buffer is full.
Forgotten ==
    \A h \in registered \ idsNeedAck :
        /\ Cardinality(idsNeedAck) >= kIdsBufferSize
        /\ \A i \in idsNeedAck : h < i

\* The inductive invariant.
ReceivedInv == ReceivedTypeOK /\ idsNeedAck \subseteq registered /\ Forgotten /\ NoneRepeated

\* The answer to msgs_state_req is true: a message said not to have been
\* received was never let through (the server will send it again), and one
\* said to have been received was.
StateTold ==
    \A id \in MsgIds :
        /\ StateOf(id) \in {"notReceived", "notReceivedYet"} => id \notin registered
        /\ StateOf(id) = "received" => id \in registered
=============================================================================
