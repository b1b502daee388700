---------------------------- MODULE MCStreaming ----------------------------
(* A file of three slices, the last one of one part, of which a part of each *)
(* slice is read: with a header good enough to share its entry with the      *)
(* first slice, without, with a cache that forgets, without a cache; and a   *)
(* file small enough to lie in the header.                                   *)
EXTENDS StreamingSlices

Good == [parts |-> 5, lastSize |-> 8, onlyInHeader |-> 2, partsInHeader |-> 2,
         outsideGood |-> 1, ahead |-> 1, loadMax |-> 1, useCache |-> TRUE,
         reads |-> {<<0, 1>>, <<2, 3>>, <<4, 5>>}, pending |-> 1, reopens |-> 1,
         evicts |-> FALSE]
Small == [Good EXCEPT !.outsideGood = 0, !.ahead = 0]
Evicted == [Good EXCEPT !.ahead = 0, !.evicts = TRUE]
NoCache == [Good EXCEPT !.useCache = FALSE, !.loadMax = 2, !.pending = 2,
                        !.reopens = 0]
Full == [Good EXCEPT !.parts = 3, !.lastSize = 4, !.onlyInHeader = 3,
                     !.partsInHeader = 3, !.loadMax = 2, !.pending = 2,
                     !.reads = {<<0, 1>>, <<0, 2>>, <<1, 3>>, <<2, 3>>},
                     !.reopens = 2]
AllFiles == {Good, Small, Evicted, NoCache, Full}
=============================================================================
