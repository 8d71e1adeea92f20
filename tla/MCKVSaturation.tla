--------------------------- MODULE MCKVSaturation ---------------------------
(***************************************************************************)
(* A small instance of KVSaturation with its history.                      *)
(***************************************************************************)
EXTENDS KVRecency

CONSTANTS e1, e2, t1, t2, t3

MCEngines == {e1, e2}
MCIds == {t1, t2, t3}
MCCapacity == (e1 :> 5 @@ e2 :> 4)

Symmetry == Permutations(MCIds)
=============================================================================
