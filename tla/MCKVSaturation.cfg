\* Two thirds of 5 and 4 tokens are budgets of 3 and 2, three trajectories of which two are remembered:
\* first turns need 1 or 2 tokens, later turns from 0 up to 4, more than any engine has.
SPECIFICATION RecencySpec
CONSTANTS
    e1 = e1
    e2 = e2
    t1 = t1
    t2 = t2
    t3 = t3
    NoReservation = NoReservation
    Engines <- MCEngines
    Ids <- MCIds
    Capacity <- MCCapacity
    FractionNum = 2
    FractionDen = 3
    DefaultOsl = 1
    MaxRemembered = 2
    Prompts = {0, 2}
    Outputs = {0, 2}
SYMMETRY Symmetry
INVARIANTS PluginTypeOK LedgerBalanced NeverOverBudget OversizeRunsAlone RemembersMostRecent
