---------------------------- MODULE MCDecodeSave ----------------------------
\* Two requests that together need more blocks than the cache has.
EXTENDS DecodeSave, TLC

CONSTANTS r1, r2

MCPromptLen == (r1 :> 5) @@ (r2 :> 2)
MCFinalLen == (r1 :> 7) @@ (r2 :> 8)
\* The engine takes the lowest block ids that are free.
MCAllocated(k, from) ==
    [i \in 1..k |-> CHOOSE b \in from : Cardinality({c \in from : c < b}) = i - 1]
============================================================================
