------------------------------ MODULE MCCommon ------------------------------
(* Instances of CommonUpdates for TLC. *)
EXTENDS CommonUpdates

CountsOneTwo == {1, 2}
AllAnswers == {"final", "slice", "tooLong"}
=============================================================================
