\* Two requests that fill e2 and one that waits for it; one waiting task is cancelled.
SPECIFICATION FairSpec
CONSTANTS
    e1 = e1
    e2 = e2
    e3 = e3
    small = small
    small2 = small2
    big = big
    probe = probe
    NoReservation = NoReservation
    NoReplica = NoReplica
    Engines = {e2}
    Ids = {small, small2, big}
    Capacity <- MCOneCapacity
    FractionNum = 1
    FractionDen = 1
    DefaultOsl = 1
    MaxRemembered = 1
    Bodyless = {}
    Prompt <- MCFaultPrompt
    InitialUp = {e2}
    SilentEngines = {}
    ColdStart = FALSE
    MaxEdits = 1
    BadConfigs = {}
    FaultKinds = {"cancel"}
    MaxFaults = 1
PROPERTY WaitingEnds
\* The stranded waiter is what the run shows.
CHECK_DEADLOCK FALSE
