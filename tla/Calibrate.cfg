\* Two instances, one worker, an exec that is sent again once, two faults and two sweeps.
SPECIFICATION FairSpec
CONSTANTS
    i1 = i1
    i2 = i2
    Instances <- MCInstances
    Concurrency = 1
    Retries = 1
    MaxFaults = 2
    MaxSweeps = 2
    Nothing = Nothing
INVARIANTS
    KeepListIsRight
    SandboxesReclaimed
PROPERTIES
    SweepEnds
\* The last sweep has ended.
CHECK_DEADLOCK FALSE
