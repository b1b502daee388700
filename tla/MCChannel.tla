------------------------------ MODULE MCChannel ------------------------------
(* Instances of ChannelUpdates for TLC. *)
EXTENDS ChannelUpdates

CountsOneTwo == {1, 2}
CountsOne == {1}
EitherWay == BOOLEAN
KnownOnly == {TRUE}
=============================================================================
