------------------------------- MODULE MCFleet -------------------------------
EXTENDS Fleet

\* All generations on one worker, but for the last.
MCWorkerOf == [r \in Requests |-> IF r = "r4" THEN "w2" ELSE "w1"]

\* The first and third are turns of one trajectory.
MCTrajectory == [r \in Requests |-> IF r = "r3" THEN "r1" ELSE r]

Unloaded == [s \in Servers |-> 0]

\* One server is busier, so that a drain of two tries may see the other one twice.
Busy == [Unloaded EXCEPT !["b"] = 1]

Calm == [layout |-> "modern", load |-> Unloaded, failing |-> FALSE]
MCSettings == {[Calm EXCEPT !.layout = "legacy"], [Calm EXCEPT !.failing = TRUE],
               [Calm EXCEPT !.load = Busy]}
CalmSettings == {Calm}
=============================================================================
