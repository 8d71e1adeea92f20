\* verl with vLLM.
SPECIFICATION Spec
CONSTANTS
    Replicas = {p1, p2}
    Loads <- MCLoads
    Readers = {"verl_vllm"}
    KvThreshold = 95000
    WaitingThreshold = 2
    NoReply = NoReply
INVARIANTS DroppedIsSaturated
