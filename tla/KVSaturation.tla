---------------------------- MODULE KVSaturation ----------------------------
(***************************************************************************)
(* The kv_saturation flow control plugin as a state machine, under the     *)
(* protocol its callers follow: get_allowed_candidates, the choice of one  *)
(* allowed engine and reserve run with no suspension between them, so they *)
(* are one action; release may come at any time, for any id, with or       *)
(* without the output length.  It is also the abstract specification that  *)
(* RayServeRouter implements.                                              *)
(***************************************************************************)
EXTENDS KVLedger

CONSTANTS
    Prompts,   \* prompt lengths a turn may have, in tokens
    Outputs    \* output lengths an engine may report

ASSUME KVSaturationAssumption == Prompts \subseteq Nat /\ Outputs \subseteq Nat

VARIABLE ledger

PluginInit == ledger = EmptyLedger

\* A request is admitted and booked, for the first time or again after a replica
\* turned it away.  When nothing is allowed the caller queues it: no step here.
Admit(t, prompt, view) ==
    /\ ~NoCapacityReported(view)
    /\ \E e \in AllowedCandidates(ledger, t, prompt, view) :
          ledger' = Reserve(ledger, t, prompt, e, view[e])

FinishTurn(t, output) == ledger' = Release(ledger, t, output)

ReportedOutputs == {{}} \cup {{o} : o \in Outputs}

PluginNext ==
    \/ \E t \in Ids, prompt \in Prompts, view \in Views : Admit(t, prompt, view)
    \/ \E t \in Ids, output \in ReportedOutputs : FinishTurn(t, output)

PluginSpec == PluginInit /\ [][PluginNext]_ledger

----------------------------------------------------------------------------
\* The ledger has the shape of the plugin's three dicts, and the memory of last
\* turns holds each trajectory once and at most MaxRemembered of them.
PluginTypeOK ==
    /\ ledger \in Ledger
    /\ Len(ledger.lastTurns) <= MaxRemembered
    /\ \A i, j \in DOMAIN ledger.lastTurns :
          ledger.lastTurns[i].id = ledger.lastTurns[j].id => i = j

\* _reserved_by_engine is kept by += and -= over admits, reroutes and releases: it
\* always equals the sum of the live reservations on that engine.
LedgerBalanced == Balanced(ledger)

\* The plugin's promise: admitted, unfinished requests never hold more than the
\* budget of an engine, whatever the order of turns, reroutes and releases.
NeverOverBudget == WithinBudget(ledger)

\* An oversize request is admitted by capping its booking at the whole budget ("so it
\* waits for an idle engine"): while it holds it no other request holds a token there.
OversizeRunsAlone ==
    \A t, u \in Ids :
        LET rt == ledger.reservation[t]
            ru == ledger.reservation[u]
        IN  (/\ t # u
             /\ rt # NoReservation /\ ru # NoReservation
             /\ rt.engine = ru.engine
             /\ rt.tokens = KvTokenBudget(rt.engine, "capacity")) => ru.tokens = 0
=============================================================================
