-------------------------- MODULE MCRayServeRouter --------------------------
(***************************************************************************)
(* Small instances of RayServeRouter.                                      *)
(***************************************************************************)
EXTENDS RayServeRouter

CONSTANTS e1, e2, e3, small, small2, big, probe

MCEngines == {e1, e2}
MCCapacity == (e1 :> 3 @@ e2 :> 2)
MCOneCapacity == (e2 :> 2)
MCFaultCapacity == (e1 :> 3 @@ e2 :> 2 @@ e3 :> 2)
MCIds == {small, small2, big, probe}
MCPrompt == (small :> 1 @@ small2 :> 1 @@ big :> 4 @@ probe :> 0)
MCOnePrompt == (small :> 1)
MCFaultPrompt == (small :> 1 @@ small2 :> 1 @@ big :> 4)

Symmetry == Permutations({small, small2})
=============================================================================
