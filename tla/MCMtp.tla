------------------------------- MODULE MCMtp -------------------------------
(* Instances of MtpSession: requests are numbers; the bounds are chosen so  *)
(* that each kind of trouble meets every other one that it can compound.    *)
EXTENDS MtpSession

OneReq == {1}
TwoReqs == {1, 2}
NoLimits == [fair |-> FALSE, reqs |-> OneReq, breaks |-> 0, rejects |-> 0,
             how |-> {}, forgets |-> 0, timers |-> 0, cancels |-> 0]

Broken == [NoLimits EXCEPT !.reqs = TwoReqs, !.breaks = 1]
Rejected == [NoLimits EXCEPT !.reqs = TwoReqs, !.rejects = 1,
                             !.how = {"salt", "badMsg", "fatal"}, !.cancels = 1]
Asked == [NoLimits EXCEPT !.breaks = 1, !.timers = 1]
Forgotten == [NoLimits EXCEPT !.breaks = 1, !.rejects = 1, !.forgets = 1,
                              !.how = RejectKinds]
Lasting == [Forgotten EXCEPT !.fair = TRUE, !.how = {"salt", "badMsg"}]
AllLimits == {Broken, Rejected, Asked, Forgotten, Lasting}
=============================================================================
