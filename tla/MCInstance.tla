----------------------------- MODULE MCInstance -----------------------------
(* Two requests, the second sent after the first, two datacenters. *)
EXTENDS MtpInstance

TwoReqs == {1, 2}
TwoDcs == {1, 2}
SecondAfterFirst == [r \in {1, 2} |-> r - 1]
=============================================================================
