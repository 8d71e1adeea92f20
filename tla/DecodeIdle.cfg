\* The class kv.py configures, on the instance of DecodeSave.cfg.
SPECIFICATION FairSpec
CONSTANTS
    r1 = r1
    r2 = r2
    Requests = {r1, r2}
    Blocks = {1,2,3,4}
    BlockSize = 2
    PromptLen <- MCPromptLen
    FinalLen <- MCFinalLen
    Budget = 2
    Allocated <- MCAllocated
    Nobody = Nobody
    Connectors = {"DecodeKVSavingConnector"}
PROPERTIES
    EveryRequestFinishes
\* every request may finish
CHECK_DEADLOCK FALSE
