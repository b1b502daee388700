----------------------------- MODULE MCReader -----------------------------
(* A file of three parts in two slices. *)
EXTENDS StreamingReader
=============================================================================
