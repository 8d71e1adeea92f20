\* Two turns, four tokens, files of two chunks, one retry, and everything may fail.
SPECIFICATION FairSpec
CONSTANTS
    MaxAssistantTurns = 3
    ResponseLength = 4
    GenLens = {0, 2}
    ObsLens = {1}
    Retries = 1
    FileChunks = 2
    Faults = {"infra", "api", "slow", "pod", "stream", "lost", "late"}
INVARIANTS TypeOK TokensAligned SandboxesReclaimed RewardSound RewardComplete
PROPERTY Returns
\* The trajectory has ended.
CHECK_DEADLOCK FALSE
