--------------------------- MODULE RayServeRouter ---------------------------
(***************************************************************************)
(* The Ray Serve integration: IGWRouter routes a pending request through   *)
(* FlowControlManager and the scheduler, and books it with the             *)
(* kv_saturation plugin of the config that is loaded at that moment.       *)
(*                                                                         *)
(* Everything runs on one asyncio loop.  A handler is cut into actions     *)
(* where it awaits: the fetch of the replicas' routing stats, and the      *)
(* future of a request that no replica has room for.  Between two awaits   *)
(* a handler is one action, so the admission check, the config reload      *)
(* inside Scheduler.run, the pick and the booking are a single step.       *)
(*                                                                         *)
(* Ray is external.  It calls choose_replicas with the running replicas,   *)
(* calls it again when the chosen replica turns the request away, calls    *)
(* on_request_routed when the replica takes it, and runs the done          *)
(* callback when the request is over, however it ended.                    *)
(***************************************************************************)
EXTENDS KVLedger

CONSTANTS
    Bodyless,       \* ids of health checks and requests with an empty body
    Prompt,         \* prompt tokens of every other request
    InitialUp,      \* replicas up at the start; the others may join later
    SilentEngines,  \* engines whose stats carry no capacity
    ColdStart,      \* TRUE: no config is loaded before the first request
    MaxEdits,       \* versions of the config file (its mtimes), a bound
    BadConfigs,     \* versions that do not parse
    FaultKinds,     \* what the environment may do besides serving requests
    MaxFaults,      \* how often it may, a bound
    NoReplica

Requests == Ids

ASSUME RouterAssumption ==
    /\ Bodyless \subseteq Requests
    /\ Prompt \in [Requests -> Nat]
    /\ InitialUp \subseteq Engines
    /\ SilentEngines \subseteq Engines
    /\ ColdStart \in BOOLEAN
    /\ MaxEdits \in Nat \ {0}
    /\ BadConfigs \subseteq 1..MaxEdits
    /\ FaultKinds \subseteq {"reject", "cancel", "abandon", "death", "join", "statsLost",
                             "buildFails", "noPick", "edit"}
    /\ MaxFaults \in Nat
    /\ NoReplica \notin Engines

VARIABLES
    pc,        \* where each request stands
    cands,     \* candidate_replicas of its current choose_replicas call
    plug,      \* the config version whose plugins its admit call holds
    target,    \* the replica choose_replicas returned for it
    hooked,    \* requests whose result carries the release callback
    queue,     \* admission_queue: the owners of the futures, oldest first
    ledgers,   \* the kv_saturation plugin of each config version
    loaded,    \* the version the scheduler runs, 0 before the first load
    edited,    \* the version on disk
    up,        \* replicas that answer
    dead,      \* replicas that are gone
    faults     \* faults so far

vars == <<pc, cands, plug, target, hooked, queue, ledgers, loaded, edited, up, dead, faults>>

ray == <<hooked, edited, up, dead>>

Stages == {"new", "fetching", "waiting", "refetching", "routing", "running",
           "done", "cancelled"}

Init ==
    /\ pc = [r \in Requests |-> "new"]
    /\ cands = [r \in Requests |-> {}]
    /\ plug = [r \in Requests |-> 0]
    /\ target = [r \in Requests |-> NoReplica]
    /\ hooked = {}
    /\ queue = << >>
    /\ ledgers = [v \in 1..MaxEdits |-> EmptyLedger]
    /\ loaded = IF ColdStart THEN 0 ELSE 1
    /\ edited = 1
    /\ up = InitialUp
    /\ dead = {}
    /\ faults = 0

Fault(kind) ==
    /\ kind \in FaultKinds
    /\ faults < MaxFaults
    /\ faults' = faults + 1

HasFlowControl == loaded > 0

----------------------------------------------------------------------------
(* choose_replicas *)

PlaceAt(r, e) ==
    /\ pc' = [pc EXCEPT ![r] = "routing"]
    /\ target' = [target EXCEPT ![r] = e]

\* _fallback_random_choice, and the random index when no endpoint was selected.
PlaceAtRandom(r, replicas) == \E e \in replicas : PlaceAt(r, e)

\* A request without a body skips the stats and the scheduler.
ChooseForBodyless(r) ==
    /\ pc[r] = "new"
    /\ r \in Bodyless
    /\ PlaceAtRandom(r, up)
    /\ UNCHANGED <<cands, plug, queue, ledgers, loaded, faults, ray>>

\* choose_replicas up to the await in build_endpoints; no candidates, no choice.
StartChoosing(r) ==
    /\ pc[r] = "new"
    /\ r \notin Bodyless
    /\ up # {}
    /\ pc' = [pc EXCEPT ![r] = "fetching"]
    /\ cands' = [cands EXCEPT ![r] = up]
    /\ UNCHANGED <<plug, target, queue, ledgers, loaded, faults, ray>>

Fetching(r) == pc[r] \in {"fetching", "refetching"}

\* record_routing_stats: an engine keeps what it worked out on the first call, so that
\* one whose capacity could not be read then never reports any.
RecordedStats(e) == IF e \in SilentEngines THEN "nocapacity" ELSE "capacity"

\* What the stats of r's candidates say when the lost ones come back empty.
View(r, lost) ==
    [e \in cands[r] |-> IF e \notin up \/ e \in lost THEN "empty" ELSE RecordedStats(e)]

\* The stats calls that fail; gather returns their exceptions as results.
LostStats(r, lost) ==
    \/ lost = {} /\ UNCHANGED faults
    \/ lost # {} /\ Fault("statsLost")

\* admit reads the plugins once, before its loop.
AdmitPlugins(r) == IF pc[r] = "fetching" THEN loaded ELSE plug[r]

\* Mutant of Admitted: a woken request is not checked again.
AdmittedOnceWoken(r, view) ==
    IF AdmitPlugins(r) = 0 \/ pc[r] = "refetching"
    THEN DOMAIN view
    ELSE AllowedCandidates(ledgers[AdmitPlugins(r)], r, Prompt[r], view)

\* The replicas admission leaves: all of them while no config is loaded.
Admitted(r, view) ==
    IF AdmitPlugins(r) = 0
    THEN DOMAIN view
    ELSE AllowedCandidates(ledgers[AdmitPlugins(r)], r, Prompt[r], view)

\* admit narrows candidate_replicas to the names of the endpoints it leaves.
AllowedReplicas(r, view) == {e \in cands[r] : e \in Admitted(r, view)}

AdmissionRaises(r, view) == AdmitPlugins(r) > 0 /\ NoCapacityReported(view)

\* _maybe_reload_config raises: the file on disk is newer and does not parse.
ReloadRaises == edited > loaded /\ edited \in BadConfigs

\* build_endpoints or the admission check raised: a random candidate, no booking.
ChooseAfterError(r) ==
    /\ Fetching(r)
    /\ \/ Fault("buildFails")
       \/ \E lost \in SUBSET (cands[r] \cap up) :
             LostStats(r, lost) /\ AdmissionRaises(r, View(r, lost))
    /\ PlaceAtRandom(r, cands[r])
    /\ UNCHANGED <<cands, plug, queue, ledgers, loaded, ray>>

\* The admission check fails: a new future joins the queue at its end.
Wait(r) ==
    /\ Fetching(r)
    /\ \E lost \in SUBSET (cands[r] \cap up) :
          /\ LostStats(r, lost)
          /\ ~AdmissionRaises(r, View(r, lost))
          /\ Admitted(r, View(r, lost)) = {}
    /\ pc' = [pc EXCEPT ![r] = "waiting"]
    /\ plug' = [plug EXCEPT ![r] = AdmitPlugins(r)]
    /\ queue' = Append(queue, r)
    /\ UNCHANGED <<cands, target, ledgers, loaded, ray>>

\* Mutant of Matching: the replica's id is compared without str(), which no name equals.
MatchingNone(replicas, selected) == {}

\* choose_replicas looks for the replica of the endpoint the scheduler selected, and
\* takes a random one when it finds none.
Matching(replicas, selected) == {e \in replicas : e = selected}
TargetReplicas(replicas, selected) ==
    IF Matching(replicas, selected) # {} THEN Matching(replicas, selected) ELSE replicas

\* The plugins of version v book the request on the endpoint that was selected.
Commit(v, r, e, report) ==
    ledgers' = [ledgers EXCEPT ![v] = Reserve(@, r, Prompt[r], e, report)]

\* Admission, Scheduler.run and commit, with no await between them: run loads a newer
\* config first, and commit books with the plugins of the config that is loaded then.
Choose(r) ==
    /\ Fetching(r)
    /\ ~ReloadRaises
    /\ loaded' = edited
    /\ \E lost \in SUBSET (cands[r] \cap up) :
          LET view == View(r, lost)
          IN  /\ LostStats(r, lost)
              /\ ~AdmissionRaises(r, view)
              /\ \E selected \in Admitted(r, view) :
                    /\ \E e \in TargetReplicas(AllowedReplicas(r, view), selected) : PlaceAt(r, e)
                    /\ Commit(edited, r, selected, view[selected])
    /\ UNCHANGED <<cands, plug, queue, ray>>

\* Scheduler.run raises on a config that does not parse, or its profile picks nothing:
\* a random admitted replica, and no booking.
ChooseUnbooked(r) ==
    /\ Fetching(r)
    /\ \E lost \in SUBSET (cands[r] \cap up) :
          LET view == View(r, lost)
          IN  /\ ~AdmissionRaises(r, view)
              /\ \/ ReloadRaises /\ LostStats(r, lost) /\ UNCHANGED loaded
                 \/ ~ReloadRaises /\ lost = {} /\ Fault("noPick") /\ loaded' = edited
              /\ PlaceAtRandom(r, AllowedReplicas(r, view))
    /\ UNCHANGED <<cands, plug, queue, ledgers, ray>>

----------------------------------------------------------------------------
(* After choose_replicas has returned *)

\* The replica takes the request: on_request_routed hooks release to its result.
OnRequestRouted(r) ==
    /\ pc[r] = "routing"
    /\ target[r] \in up
    /\ pc' = [pc EXCEPT ![r] = "running"]
    /\ hooked' = IF HasFlowControl THEN hooked \cup {r} ELSE hooked
    /\ UNCHANGED <<cands, plug, target, queue, ledgers, loaded, edited, up, dead, faults>>

\* The replica turns the request away or is gone: Ray routes it again.
TurnedAway(r) ==
    /\ pc[r] = "routing"
    /\ IF target[r] \in up THEN Fault("reject") ELSE UNCHANGED faults
    /\ pc' = [pc EXCEPT ![r] = "new"]
    /\ UNCHANGED <<cands, plug, target, queue, ledgers, loaded, ray>>

\* FlowControlManager.release wakes the oldest waiter; its future may be done already,
\* because the waiting task was cancelled.
Woken == IF queue # << >> /\ pc[Head(queue)] = "waiting" THEN {Head(queue)} ELSE {}

\* Mutant of Finish: the reservation is freed and no waiter is woken.
FinishSilently(r) ==
    /\ pc[r] = "running"
    /\ pc' = [pc EXCEPT ![r] = "done"]
    /\ ledgers' = IF r \in hooked
                   THEN [ledgers EXCEPT ![loaded] = Release(@, r, {})]
                   ELSE ledgers
    /\ UNCHANGED <<cands, plug, target, queue, loaded, faults, ray>>

\* Mutant of Finish: releases the plugins that admitted the request.
FinishWithOldPlugins(r) ==
    /\ pc[r] = "running"
    /\ pc' = [q \in Requests |-> IF q = r THEN "done"
                                 ELSE IF q \in Woken THEN "refetching"
                                 ELSE pc[q]]
    /\ ledgers' = [ledgers EXCEPT ![IF plug[r] > 0 THEN plug[r] ELSE loaded] =
                                        Release(@, r, {})]
    /\ queue' = IF queue = << >> THEN queue ELSE Tail(queue)
    /\ UNCHANGED <<cands, plug, target, loaded, faults, ray>>

\* Mutant of Finish: the waiter is woken and its future stays in the queue.
FinishKeepsFuture(r) ==
    /\ pc[r] = "running"
    /\ IF r \in hooked
       THEN /\ pc' = [q \in Requests |-> IF q = r THEN "done"
                                         ELSE IF q \in Woken THEN "refetching"
                                         ELSE pc[q]]
            /\ ledgers' = [ledgers EXCEPT ![loaded] = Release(@, r, {})]
       ELSE /\ pc' = [pc EXCEPT ![r] = "done"]
            /\ UNCHANGED ledgers
    /\ UNCHANGED <<cands, plug, target, queue, loaded, faults, ray>>

\* The request is over: its done callback releases it and wakes one waiter, which
\* fetches the stats again before it checks.
Finish(r) ==
    /\ pc[r] = "running"
    /\ IF r \in hooked
       THEN /\ pc' = [q \in Requests |-> IF q = r THEN "done"
                                         ELSE IF q \in Woken THEN "refetching"
                                         ELSE pc[q]]
            /\ ledgers' = [ledgers EXCEPT ![loaded] = Release(@, r, {})]
            /\ queue' = IF queue = << >> THEN queue ELSE Tail(queue)
       ELSE /\ pc' = [pc EXCEPT ![r] = "done"]
            /\ UNCHANGED <<ledgers, queue>>
    /\ UNCHANGED <<cands, plug, target, loaded, faults, ray>>

\* The task that runs choose_replicas is cancelled at an await: a cancelled future
\* stays in the admission queue.
Cancel(r) ==
    /\ pc[r] \in {"fetching", "waiting", "refetching"}
    /\ Fault("cancel")
    /\ pc' = [pc EXCEPT ![r] = "cancelled"]
    /\ UNCHANGED <<cands, plug, target, queue, ledgers, loaded, ray>>

\* The client goes away after choose_replicas has returned and before a replica takes
\* the request: on_request_routed is never called, so nothing will release it.
Abandon(r) ==
    /\ pc[r] \in {"new", "routing"}
    /\ Fault("abandon")
    /\ pc' = [pc EXCEPT ![r] = "cancelled"]
    /\ UNCHANGED <<cands, plug, target, queue, ledgers, loaded, ray>>

----------------------------------------------------------------------------
(* The rest of the environment *)

EditConfig ==
    /\ Fault("edit")
    /\ edited < MaxEdits
    /\ edited' = edited + 1
    /\ UNCHANGED <<pc, cands, plug, target, hooked, queue, ledgers, loaded, up, dead>>

ReplicaDies(e) ==
    /\ e \in up
    /\ Fault("death")
    /\ up' = up \ {e}
    /\ dead' = dead \cup {e}
    /\ UNCHANGED <<pc, cands, plug, target, hooked, queue, ledgers, loaded, edited>>

ReplicaJoins(e) ==
    /\ e \notin up \cup dead
    /\ Fault("join")
    /\ up' = up \cup {e}
    /\ UNCHANGED <<pc, cands, plug, target, hooked, queue, ledgers, loaded, edited, dead>>

\* Every request is over: Ray has nothing left to call.
AllOver == /\ \A r \in Requests : pc[r] \in {"done", "cancelled"}
           /\ UNCHANGED vars

Step(r) ==
    \/ ChooseForBodyless(r) \/ StartChoosing(r)
    \/ ChooseAfterError(r) \/ Wait(r) \/ Choose(r) \/ ChooseUnbooked(r)
    \/ OnRequestRouted(r) \/ TurnedAway(r) \/ Finish(r)

Next ==
    \/ \E r \in Requests : Step(r) \/ Cancel(r) \/ Abandon(r)
    \/ EditConfig
    \/ \E e \in Engines : ReplicaDies(e) \/ ReplicaJoins(e)
    \/ AllOver

Spec == Init /\ [][Next]_vars

\* The loop runs every ready task, a stats call returns, Ray routes a chosen request
\* and a running request ends.
Fairness == \A r \in Requests : WF_vars(Step(r))

FairSpec == Spec /\ Fairness

----------------------------------------------------------------------------
\* The data keep their shape, and every waiting request has exactly one future in the
\* queue, so that release can reach it.
TypeOK ==
    /\ pc \in [Requests -> Stages]
    /\ cands \in [Requests -> SUBSET Engines]
    /\ plug \in [Requests -> 0..MaxEdits]
    /\ target \in [Requests -> Engines \cup {NoReplica}]
    /\ hooked \subseteq Requests
    /\ queue \in Seq(Requests)
    /\ \A r \in Requests : pc[r] = "waiting" => Cardinality({i \in DOMAIN queue : queue[i] = r}) = 1
    /\ ledgers \in [1..MaxEdits -> Ledger]
    /\ loaded \in 0..MaxEdits
    /\ edited \in 1..MaxEdits
    /\ up \subseteq Engines
    /\ dead \subseteq Engines \ up
    /\ faults \in 0..MaxFaults

Booking(r) == ledgers[loaded].reservation[r]
Booked(r) == loaded > 0 /\ Booking(r) # NoReservation

\* Until a reload the plugin's books are right and no engine is promised more than its
\* budget: through rejections and reroutes, cancelled requests, lost stats, dead and
\* new replicas, and requests placed without a booking.
SoundUntilReload ==
    loaded = 1 => Balanced(ledgers[1]) /\ BookingsInRange(ledgers[1]) /\ WithinBudget(ledgers[1])

\* "When a request finishes, its reservation is freed": a request that has run to its
\* end holds nothing in the loaded plugin, whichever plugin it was booked with and
\* however often it was rerouted on the way.
FinishedHoldsNothing == \A r \in Requests : pc[r] = "done" => ~Booked(r)

\* A placed request runs where it is booked: the replica handed to Ray and the
\* endpoint that commit booked are found by separate searches, and a rerouted request
\* drops its old booking.
PlacedWhereBooked ==
    \A r \in Requests \ Bodyless :
        pc[r] \in {"routing", "running"} => Booked(r) /\ Booking(r).engine = target[r]

\* The tokens the placed requests will occupy on e, one pair <<request, token>> each.
PlacedSlots(e) ==
    {s \in (Requests \ Bodyless) \X (1..Capacity[e]) :
        /\ pc[s[1]] \in {"routing", "running"}
        /\ target[s[1]] = e
        /\ s[2] <= Prompt[s[1]] + DefaultOsl
        /\ s[2] <= KvTokenBudget(e, "capacity")}

\* "engines are never asked to hold more context than fits": counted over the requests
\* on the engines themselves, not over the plugin's books.
EnginesNeverOverfilled ==
    \A e \in Engines : Cardinality(PlacedSlots(e)) <= KvTokenBudget(e, "capacity")

\* "When no replica fits, the request waits until a reservation is freed": waiting ends.
WaitingEnds == \A r \in Requests : pc[r] = "waiting" ~> pc[r] # "waiting"

\* The router keeps the protocol the plugin is written for: while one config is loaded
\* it books only what that plugin allowed at that very moment, and nothing but a release
\* changes the ledger otherwise.
KV == INSTANCE KVSaturation WITH
        ledger <- ledgers[1],
        Prompts <- {Prompt[r] : r \in Requests},
        Outputs <- {}

ImplementsKVSaturation == KV!PluginSpec

\* Every request Ray hands to the router runs to its end.
EveryRequestEnds == \A r \in Requests : pc[r] = "fetching" ~> pc[r] = "done"
=============================================================================
