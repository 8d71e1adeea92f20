------------------------------ MODULE KVRecency ------------------------------
(***************************************************************************)
(* KVSaturation with a history variable: the ids in the order in which     *)
(* they last finished a turn with a reported output.                       *)
(***************************************************************************)
EXTENDS KVSaturation

VARIABLE recency

\* An id moves to the end when it finishes again.
MovedToEnd(ids, t) ==
    Append(IF \E i \in DOMAIN ids : ids[i] = t
           THEN RemoveAt(ids, CHOOSE i \in DOMAIN ids : ids[i] = t)
           ELSE ids, t)

RecencyInit == PluginInit /\ recency = << >>

RecencyAdmit ==
    /\ \E t \in Ids, prompt \in Prompts, view \in Views : Admit(t, prompt, view)
    /\ UNCHANGED recency

\* A turn is finished with an output only by a request that holds a booking.
RecencyFinish(t, output) ==
    /\ FinishTurn(t, output)
    /\ recency' = IF ledger.reservation[t] # NoReservation /\ output # {}
                  THEN MovedToEnd(recency, t)
                  ELSE recency

RecencyNext == RecencyAdmit \/ \E t \in Ids, output \in ReportedOutputs : RecencyFinish(t, output)

RecencySpec == RecencyInit /\ [][RecencyNext]_<<ledger, recency>>

\* "Far more trajectories than one rollout holds": when the bound does bite, the turns
\* remembered are those of the trajectories that finished most recently, in that order.
RemembersMostRecent ==
    LET kept == Smaller(MaxRemembered, Len(recency))
    IN  [i \in DOMAIN ledger.lastTurns |-> ledger.lastTurns[i].id]
            = SubSeq(recency, Len(recency) - kept + 1, Len(recency))
=============================================================================
