\* Two workers, three generations and two servers.
SPECIFICATION FairSpec
CONSTANTS
    Servers = {"a", "b"}
    Workers = {"w1", "w2"}
    Requests = {"r1", "r2", "r4"}
    WorkerOf <- MCWorkerOf
    Trajectory <- MCTrajectory
    Settings <- MCSettings
    TriesPerServer = 1
INVARIANTS CountsConserved BalancerConserved OwnDispatchesSeen
PROPERTY FleetSettles
\* All generations have ended.
CHECK_DEADLOCK FALSE
