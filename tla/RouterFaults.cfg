\* Three faults of any kind in any order: cancels, lost stats, dead and new replicas
\* (e3 joins and reports no capacity), two config edits of which the first is broken.
SPECIFICATION Spec
CONSTANTS
    e1 = e1
    e2 = e2
    e3 = e3
    small = small
    small2 = small2
    big = big
    probe = probe
    NoReservation = NoReservation
    NoReplica = NoReplica
    Engines = {e1, e2, e3}
    Ids = {small, small2, big}
    Capacity <- MCFaultCapacity
    FractionNum = 1
    FractionDen = 1
    DefaultOsl = 1
    MaxRemembered = 1
    Bodyless = {}
    Prompt <- MCFaultPrompt
    InitialUp = {e1, e2}
    SilentEngines = {e3}
    ColdStart = FALSE
    MaxEdits = 3
    BadConfigs = {2}
    FaultKinds = {"reject", "cancel", "abandon", "death", "join", "statsLost", "buildFails", "noPick", "edit"}
    MaxFaults = 3
SYMMETRY Symmetry
INVARIANTS TypeOK SoundUntilReload FinishedHoldsNothing
\* A stranded waiter stops the system: RouterStranded shows how.
CHECK_DEADLOCK FALSE
