--------------------------- MODULE MCEngineMetrics ---------------------------
(* Two replicas: idle, with one block of a large cache in use, busy, with a *)
(* queue, and full.                                                         *)
EXTENDS EngineMetrics

Load(waiting, running, kv) == [waiting |-> waiting, running |-> running, kv |-> kv]
MCLoads ==
    {Load(0, 0, 0), Load(0, 1, 3), Load(0, 1, 50000), Load(2, 1, 96000)}
=============================================================================
