\* Requests of 2, 2 and 5 tokens and a health check on replicas of 3 and 2 tokens. The
\* first request loads the config; a replica may turn a request away twice.
\* Deadlock is checked: only when every request is over may the system stop.
SPECIFICATION FairSpec
CONSTANTS
    e1 = e1
    e2 = e2
    e3 = e3
    small = small
    small2 = small2
    big = big
    probe = probe
    NoReservation = NoReservation
    NoReplica = NoReplica
    Engines <- MCEngines
    Ids <- MCIds
    Capacity <- MCCapacity
    FractionNum = 1
    FractionDen = 1
    DefaultOsl = 1
    MaxRemembered = 1
    Bodyless = {probe}
    Prompt <- MCPrompt
    InitialUp <- MCEngines
    SilentEngines = {}
    ColdStart = TRUE
    MaxEdits = 1
    BadConfigs = {}
    FaultKinds = {"reject"}
    MaxFaults = 2
INVARIANTS PlacedWhereBooked EnginesNeverOverfilled
PROPERTIES ImplementsKVSaturation EveryRequestEnds
