\* Prompts of up to three blocks over two block contents, of which two are hashed; a server
\* remembers two hashes, so that entering a prompt evicts the hashes of others.
SPECIFICATION Spec
CONSTANTS
    s1 = s1
    s2 = s2
    Servers = {s1, s2}
    Blocks = {1, 2}
    MaxPrefixBlocks = 2
    MaxPromptBlocks = 3
    Capacity = 2
    RatioNum = 0
    RatioDen = 2
    Attributes <- Reports
    AllowedStates = {"READY"}
    KvThreshold = 1
    WaitingThreshold = 2
    StickyWeight = 4
    PrefixWeight = 2
    WaitingWeight = 1
    MaxNum = 1
    Scale = 2
SYMMETRY Symmetry
INVARIANTS IndexIsInverse PicksRoutable SessionKept PicksUndominated
PROPERTY RoutedIsHeld
