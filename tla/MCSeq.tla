-------------------------------- MODULE MCSeq --------------------------------
(* Instances of SeqUpdates for TLC. *)
EXTENDS SeqUpdates

AllServers == {"channels", "faults", "results"}
=============================================================================
