----------------------------- MODULE LossyCache -----------------------------
(***************************************************************************)
(* What a key-value cache promises its callers: a value may be lost at any *)
(* time, but what is found under a key is the value last stored there,     *)
(* never an earlier one and never one that was removed.                    *)
(***************************************************************************)
CONSTANTS Keys, Values, None

VARIABLES
    store,      \* what a get would find under each key, None if nothing
    latest      \* the value last stored under each key, None if removed

vars == <<store, latest>>

Init ==
    /\ store = [k \in Keys |-> None]
    /\ latest = [k \in Keys |-> None]

\* The value is stored, or lost on the way; the earlier value is gone.
Put(k, v) ==
    /\ latest' = [latest EXCEPT ![k] = v]
    /\ \E found \in {v, None} : store' = [store EXCEPT ![k] = found]

Remove(k) ==
    /\ latest' = [latest EXCEPT ![k] = None]
    /\ store' = [store EXCEPT ![k] = None]

\* The value of one key becomes that of another, or is lost on the way.
Move(from, to) ==
    /\ latest' = [latest EXCEPT ![to] = latest[from], ![from] = None]
    /\ \E found \in {store[from], None} :
          store' = [store EXCEPT ![to] = found, ![from] = None]

\* Eviction, an unreadable file, a storage that could not be opened.
Lose(S) ==
    /\ store' = [k \in Keys |-> IF k \in S THEN None ELSE store[k]]
    /\ UNCHANGED latest

RemoveAll ==
    /\ latest' = [k \in Keys |-> None]
    /\ store' = [k \in Keys |-> None]

Next ==
    \/ \E k \in Keys, v \in Values : Put(k, v)
    \/ \E k \in Keys : Remove(k)
    \/ \E from, to \in Keys : from # to /\ Move(from, to)
    \/ \E S \in SUBSET Keys : Lose(S)
    \/ RemoveAll

Spec == Init /\ [][Next]_vars
=============================================================================
