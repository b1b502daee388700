----------------------------- MODULE MCReceived -----------------------------
(* Six message ids against a buffer of two or three. *)
EXTENDS ReceivedIds

SixIds == 1 .. 6
=============================================================================
