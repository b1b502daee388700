---------------------------- MODULE MCUploader ----------------------------
(* A document with a thumbnail and a photo; a second document whose parts   *)
(* are larger than those of the first; two sessions.                        *)
EXTENDS Uploader

ThreeFiles == {1, 2, 3}
ThreeSmall == <<1, 2, 0>>
ThreeDoc == <<2, 0, 6>>
DoublingSizes == <<1, 2, 4>>
Limits == <<3, 4>>
TwoSessions == {0, 1}
=============================================================================
