-------------------------------- MODULE Fleet --------------------------------
(***************************************************************************)
(* The verl integration: workers that route generations, and the one fleet *)
(* actor they share.  The actor runs the calls it gets one at a time, and  *)
(* those of one worker in the order they were made (Ray); increments and   *)
(* decrements are sent without waiting, discover and snapshot are awaited. *)
(* verl's balancer hands out servers to discovery and to generations for   *)
(* which the scheduler finds none.                                         *)
(*                                                                         *)
(*   legacy   a worker is given its servers at the start                   *)
(*   modern   a worker asks the fleet to discover them, which drains the   *)
(*            balancer: acquires until every server was seen, then releases*)
(***************************************************************************)
EXTENDS Integers, FiniteSets, SequencesExt

CONSTANTS
    Servers,
    Workers,
    Requests,       \* generations
    WorkerOf,       \* the worker of each
    Trajectory,     \* the trajectory of each: its request_id, the same for every turn
    Settings,       \* where the workers may run, see Setting
    TriesPerServer  \* acquires of a discovery for each server that is expected; 3 in the code

\* The verl layout, what other clients of the balancer keep running on each server, and
\* whether calls to the balancer may raise or be cancelled on their way.
Setting == [layout : {"legacy", "modern"}, load : [Servers -> Nat], failing : BOOLEAN]

ASSUME FleetAssumption ==
    /\ IsFiniteSet(Servers) /\ Servers # {} /\ "none" \notin Servers
    /\ IsFiniteSet(Requests)
    /\ WorkerOf \in [Requests -> Workers]
    /\ \A q, r \in Requests : Trajectory[q] = Trajectory[r] => WorkerOf[q] = WorkerOf[r]
    /\ Settings \subseteq Setting
    /\ TriesPerServer \in Nat

VARIABLES
    setting,      \* never changed
    calls,        \* the calls each worker has made to the actor and it has not run
    inflight,     \* the actor's InflightStore
    known,        \* the servers it watches
    drain,        \* the discovery it is running
    lb,           \* the balancer's counter of each server
    releases,     \* release_server calls on their way to the balancer
    endpoints,    \* the servers each worker knows
    viewComplete, \* _view_complete of each worker
    lbAcquired,   \* lb_acquired_requests of each worker
    lock,         \* the scheduling lock of each worker: the holder, then the waiters
    pc,           \* where each generation stands
    found,        \* what discover answered to it
    snapshot,     \* the in-flight counts it was sent
    winner,       \* the server it runs on
    fellBack      \* that server came from the balancer

actor == <<inflight, known, drain>>
balancer == <<lb, releases>>
view == <<endpoints, viewComplete>>
locals == <<found, snapshot, winner, fellBack>>
vars == <<setting, calls, actor, balancer, view, lbAcquired, lock, pc, locals>>

None == "none"
Zero == [s \in Servers |-> 0]
Idle == [asker |-> None, acquired |-> Zero, tries |-> 0, handles |-> {}]
Expected == Cardinality(Servers)   \* len(get_all_servers()): the balancer's set is fixed

Init ==
    /\ setting \in Settings
    /\ calls = [w \in Workers |->
                  IF setting.layout = "legacy" THEN <<[call |-> "watch", arg |-> None]>> ELSE << >>]
    /\ inflight = Zero /\ known = {} /\ drain = Idle
    /\ lb = setting.load /\ releases = Zero
    /\ endpoints = [w \in Workers |-> IF setting.layout = "legacy" THEN Servers ELSE {}]
    /\ viewComplete = [w \in Workers |-> setting.layout = "legacy"]
    /\ lbAcquired = [w \in Workers |-> {}]
    /\ lock = [w \in Workers |-> << >>]
    /\ pc = [r \in Requests |-> "new"]
    /\ found = [r \in Requests |-> {}]
    /\ snapshot = [r \in Requests |-> Zero]
    /\ winner = [r \in Requests |-> None]
    /\ fellBack = [r \in Requests |-> FALSE]

----------------------------------------------------------------------------
(* A generation in its worker *)

Call(w, name, arg) == calls' = [calls EXCEPT ![w] = Append(@, [call |-> name, arg |-> arg])]

Goto(r, stage) == pc' = [pc EXCEPT ![r] = stage]

\* A trajectory's turns follow one another.
IsTurn(r) == \A q \in Requests : q # r /\ Trajectory[q] = Trajectory[r] => pc[q] \in {"new", "done"}

\* _ensure_endpoints: a worker whose view is complete goes on to the lock, another one asks
\* the balancer for its servers.
Start(r) ==
    /\ pc[r] = "new" /\ IsTurn(r)
    /\ IF viewComplete[WorkerOf[r]]
       THEN Goto(r, "locking") /\ lock' = [lock EXCEPT ![WorkerOf[r]] = Append(@, r)]
       ELSE Goto(r, "listing") /\ UNCHANGED lock
    /\ UNCHANGED <<setting, calls, actor, balancer, view, lbAcquired, locals>>

\* The balancer has said how many servers it has, whatever another generation has
\* discovered meanwhile.
AskToDiscover(r) ==
    /\ pc[r] = "listing"
    /\ Goto(r, "discovering")
    /\ Call(WorkerOf[r], "discover", r)
    /\ UNCHANGED <<setting, actor, balancer, view, lbAcquired, lock, locals>>

set_endpoints(w, handles) == endpoints' = [endpoints EXCEPT ![w] = handles]

SetEndpoints(r) ==
    /\ pc[r] = "found"
    /\ set_endpoints(WorkerOf[r], found[r])
    /\ viewComplete' = [viewComplete EXCEPT ![WorkerOf[r]] = Cardinality(found[r]) >= Expected]
    /\ found' = [found EXCEPT ![r] = {}]
    /\ Goto(r, "locking")
    /\ lock' = [lock EXCEPT ![WorkerOf[r]] = Append(@, r)]
    /\ UNCHANGED <<setting, calls, actor, balancer, lbAcquired, snapshot, winner, fellBack>>

\* Mutant of HoldsLock: no lock at all.
HoldsLockAlways(r) == TRUE

HoldsLock(r) == Head(lock[WorkerOf[r]]) = r

AskForSnapshot(r) ==
    /\ pc[r] = "locking" /\ HoldsLock(r)
    /\ Goto(r, "asking")
    /\ Call(WorkerOf[r], "snapshot", r)
    /\ UNCHANGED <<setting, actor, balancer, view, lbAcquired, lock, locals>>

Queued(s, r) == \E i \in DOMAIN s : s[i] = r

\* Leaving `async with self.lock`, at whatever place in its queue, if it stands there.
Unlock(r) ==
    LET queue == lock[WorkerOf[r]] IN
    IF Queued(queue, r)
    THEN lock' = [lock EXCEPT ![WorkerOf[r]] = RemoveAt(queue, CHOOSE i \in DOMAIN queue : queue[i] = r)]
    ELSE UNCHANGED lock

\* The scheduler picks an endpoint and the dispatch is counted before the lock is given up.
Schedule(r) ==
    /\ pc[r] = "deciding"
    /\ \E s \in endpoints[WorkerOf[r]] :
         /\ winner' = [winner EXCEPT ![r] = s]
         /\ Call(WorkerOf[r], "increment", s)
    /\ Goto(r, "running")
    /\ Unlock(r)
    /\ snapshot' = [snapshot EXCEPT ![r] = Zero]
    /\ UNCHANGED <<setting, actor, balancer, view, lbAcquired, found, fellBack>>

\* Mutant of FallBack: the early return keeps the lock.
FallBackLocked(r) ==
    /\ pc[r] = "deciding"
    /\ lbAcquired' = [lbAcquired EXCEPT ![WorkerOf[r]] = @ \cup {Trajectory[r]}]
    /\ Goto(r, "acquiring")
    /\ snapshot' = [snapshot EXCEPT ![r] = Zero]
    /\ UNCHANGED <<setting, calls, actor, balancer, view, lock, found, winner, fellBack>>

\* It picks none, as it must when it has no endpoints.
FallBack(r) ==
    /\ pc[r] = "deciding"
    /\ lbAcquired' = [lbAcquired EXCEPT ![WorkerOf[r]] = @ \cup {Trajectory[r]}]
    /\ Goto(r, "acquiring")
    /\ Unlock(r)
    /\ snapshot' = [snapshot EXCEPT ![r] = Zero]
    /\ UNCHANGED <<setting, calls, actor, balancer, view, found, winner, fellBack>>

\* The balancer answers: it keeps a trajectory where it was or picks by load, so any server.
Acquire(r) ==
    /\ pc[r] = "acquiring"
    /\ \E s \in Servers :
         /\ lb' = [lb EXCEPT ![s] = @ + 1]
         /\ winner' = [winner EXCEPT ![r] = s]
         /\ Call(WorkerOf[r], "increment", s)
    /\ fellBack' = [fellBack EXCEPT ![r] = TRUE]
    /\ Goto(r, "running")
    /\ UNCHANGED <<setting, actor, releases, view, lbAcquired, lock, found, snapshot>>

\* The call raises or is cancelled, before or after the balancer counted it.
AcquireRaises(r) ==
    /\ setting.failing
    /\ pc[r] = "acquiring"
    /\ \/ UNCHANGED lb
       \/ \E s \in Servers : lb' = [lb EXCEPT ![s] = @ + 1]
    /\ Goto(r, "done")
    /\ UNCHANGED <<setting, calls, actor, releases, view, lbAcquired, lock, locals>>

\* Mutant of ReleaseServer: what the balancer handed out is not counted down.
ReleaseScheduledOnly(w, s, id) ==
    LET acquired == id \in lbAcquired[w] IN
    /\ IF acquired THEN UNCHANGED calls ELSE Call(w, "decrement", s)
    /\ releases' = [releases EXCEPT ![s] = IF acquired THEN @ + 1 ELSE @]
    /\ lbAcquired' = [lbAcquired EXCEPT ![w] = @ \ {id}]

\* _release_server: the dispatch is counted down, and a server is given back to the
\* balancer if the last acquire under this trajectory's id was the balancer's.
ReleaseServer(w, s, id) ==
    LET acquired == id \in lbAcquired[w] IN
    /\ Call(w, "decrement", s)
    /\ releases' = [releases EXCEPT ![s] = IF acquired THEN @ + 1 ELSE @]
    /\ lbAcquired' = [lbAcquired EXCEPT ![w] = @ \ {id}]

\* The engine answers, fails or the task is cancelled: all leave through the finally block.
Complete(r) ==
    /\ pc[r] = "running"
    /\ ReleaseServer(WorkerOf[r], winner[r], Trajectory[r])
    /\ Goto(r, "done")
    /\ winner' = [winner EXCEPT ![r] = None]
    /\ fellBack' = [fellBack EXCEPT ![r] = FALSE]
    /\ UNCHANGED <<setting, actor, lb, view, lock, found, snapshot>>

\* The task is cancelled while it awaits the balancer, the actor or the lock, or the scheduler raises.
\* The actor still runs what it was asked.
GiveUp(r) ==
    /\ pc[r] \in {"listing", "discovering", "found", "locking", "asking", "deciding"}
    /\ Goto(r, "done")
    /\ Unlock(r)
    /\ found' = [found EXCEPT ![r] = {}]
    /\ snapshot' = [snapshot EXCEPT ![r] = Zero]
    /\ UNCHANGED <<setting, calls, actor, balancer, view, lbAcquired, winner, fellBack>>

----------------------------------------------------------------------------
(* The fleet actor and the balancer *)

NextCall(w, name) ==
    /\ drain = Idle
    /\ calls[w] # << >> /\ Head(calls[w]).call = name
    /\ calls' = [calls EXCEPT ![w] = Tail(@)]

RunWatch(w) ==
    /\ NextCall(w, "watch")
    /\ known' = known \cup Servers
    /\ UNCHANGED <<setting, inflight, drain, balancer, view, lbAcquired, lock, pc, locals>>

RunIncrement(w) ==
    /\ NextCall(w, "increment")
    /\ inflight' = [inflight EXCEPT ![Head(calls[w]).arg] = @ + 1]
    /\ UNCHANGED <<setting, known, drain, balancer, view, lbAcquired, lock, pc, locals>>

\* A count of 0 is left alone and logged.
RunDecrement(w) ==
    /\ NextCall(w, "decrement")
    /\ inflight' = [inflight EXCEPT ![Head(calls[w]).arg] = IF @ > 0 THEN @ - 1 ELSE @]
    /\ UNCHANGED <<setting, known, drain, balancer, view, lbAcquired, lock, pc, locals>>

RunSnapshot(w) ==
    LET r == Head(calls[w]).arg
        awaited == pc[r] = "asking" IN
    /\ NextCall(w, "snapshot")
    /\ pc' = IF awaited THEN [pc EXCEPT ![r] = "deciding"] ELSE pc
    /\ snapshot' = IF awaited THEN [snapshot EXCEPT ![r] = inflight] ELSE snapshot
    /\ UNCHANGED <<setting, actor, balancer, view, lbAcquired, lock, found, winner, fellBack>>

\* discover starts from the handles of the servers that are watched already.
RunDiscover(w) ==
    /\ NextCall(w, "discover")
    /\ drain' = [Idle EXCEPT !.asker = Head(calls[w]).arg, !.handles = known]
    /\ UNCHANGED <<setting, inflight, known, balancer, view, lbAcquired, lock, pc, locals>>

Draining == drain # Idle /\ Cardinality(drain.handles) < Expected /\ drain.tries < TriesPerServer * Expected

\* A request id of its own makes the balancer pick a least loaded server.
LeastLoaded == {s \in Servers : \A t \in Servers : lb[s] <= lb[t]}

DrainAcquire ==
    /\ Draining
    /\ \E s \in LeastLoaded :
         /\ lb' = [lb EXCEPT ![s] = @ + 1]
         /\ drain' = [drain EXCEPT !.acquired[s] = @ + 1, !.tries = @ + 1,
                                   !.handles = @ \cup {s}]
    /\ UNCHANGED <<setting, calls, inflight, known, releases, view, lbAcquired, lock, pc, locals>>

\* The answer, unless the one who asked has gone.
Answer(stage, handles) ==
    LET r == drain.asker IN
    IF pc[r] = "discovering"
    THEN Goto(r, stage) /\ found' = [found EXCEPT ![r] = handles]
    ELSE UNCHANGED <<pc, found>>

\* Mutant of DrainEnd: a server that was acquired twice is released once.
DrainEndReleasesOnce ==
    /\ drain # Idle /\ ~Draining
    /\ releases' = [s \in Servers |-> releases[s] + IF drain.acquired[s] > 0 THEN 1 ELSE 0]
    /\ known' = known \cup drain.handles
    /\ Answer("found", drain.handles)
    /\ drain' = Idle
    /\ UNCHANGED <<setting, calls, inflight, lb, view, lbAcquired, lock, snapshot, winner, fellBack>>

DrainEnd ==
    /\ drain # Idle /\ ~Draining
    /\ releases' = [s \in Servers |-> releases[s] + drain.acquired[s]]
    /\ known' = known \cup drain.handles
    /\ Answer("found", drain.handles)
    /\ drain' = Idle
    /\ UNCHANGED <<setting, calls, inflight, lb, view, lbAcquired, lock, snapshot, winner, fellBack>>

\* An acquire raises: the loop is left without releasing, and discover fails.
DrainRaises ==
    /\ setting.failing
    /\ Draining
    /\ Answer("done", {})
    /\ drain' = Idle
    /\ UNCHANGED <<setting, calls, inflight, known, balancer, view, lbAcquired, lock, snapshot, winner, fellBack>>

\* release_server reaches the balancer.
RunRelease(s) ==
    /\ releases[s] > 0
    /\ releases' = [releases EXCEPT ![s] = @ - 1]
    /\ lb' = [lb EXCEPT ![s] = @ - 1]
    /\ UNCHANGED <<setting, calls, actor, view, lbAcquired, lock, pc, locals>>

----------------------------------------------------------------------------
Generate(r) ==
    \/ Start(r) \/ AskToDiscover(r) \/ SetEndpoints(r) \/ AskForSnapshot(r) \/ Schedule(r)
    \/ FallBack(r) \/ Acquire(r) \/ AcquireRaises(r) \/ Complete(r)

RunCall(w) ==
    RunWatch(w) \/ RunIncrement(w) \/ RunDecrement(w) \/ RunSnapshot(w) \/ RunDiscover(w)

Discovery == DrainAcquire \/ DrainEnd \/ DrainRaises

Next ==
    \/ \E r \in Requests : Generate(r) \/ GiveUp(r)
    \/ \E w \in Workers : RunCall(w)
    \/ Discovery
    \/ \E s \in Servers : RunRelease(s)

Spec == Init /\ [][Next]_vars

\* Tasks run and engines answer; Ray runs every call that was made.
FairSpec ==
    /\ Spec
    /\ \A r \in Requests : WF_vars(Generate(r))
    /\ \A w \in Workers : WF_vars(RunCall(w))
    /\ WF_vars(Discovery)
    /\ \A s \in Servers : WF_vars(RunRelease(s))

----------------------------------------------------------------------------
\* Besides the types: a worker's lock is queued for by its own generations, and exactly
\* by those between _ensure_endpoints and their dispatch.
TypeOK ==
    /\ setting \in Settings
    /\ \A w \in Workers : \A i \in DOMAIN calls[w] : LET c == calls[w][i] IN
         \/ c.call = "watch"
         \/ c.call \in {"increment", "decrement"} /\ c.arg \in Servers
         \/ c.call \in {"snapshot", "discover"} /\ c.arg \in Requests /\ WorkerOf[c.arg] = w
    /\ inflight \in [Servers -> Nat]
    /\ known \subseteq Servers
    /\ drain = Idle \/ drain.asker \in Requests
    /\ drain.handles \subseteq Servers /\ drain.tries \in 0..(TriesPerServer * Expected)
    /\ lb \in [Servers -> Int] /\ releases \in [Servers -> Nat]
    /\ endpoints \in [Workers -> SUBSET Servers] /\ viewComplete \in [Workers -> BOOLEAN]
    /\ \A r \in Requests :
         /\ pc[r] \in {"new", "listing", "discovering", "found", "locking", "asking",
                       "deciding", "acquiring", "running", "done"}
         /\ pc[r] = "running" <=> winner[r] \in Servers
         /\ pc[r] \in {"locking", "asking", "deciding"} <=> Queued(lock[WorkerOf[r]], r)

RunningOn(s) == {r \in Requests : winner[r] = s}

OnTheWay(name, s) ==
    UNION {{w} \X {i \in DOMAIN calls[w] : calls[w][i] = [call |-> name, arg |-> s]} : w \in Workers}

\* Nothing is counted twice, lost, or swallowed by the clamp at 0: the actor's count and
\* the increments on their way make up the running generations and those whose decrement
\* is on its way.
CountsConserved ==
    \A s \in Servers :
        inflight[s] + Cardinality(OnTheWay("increment", s)) =
            Cardinality(RunningOn(s)) + Cardinality(OnTheWay("decrement", s))

\* As long as no acquire is lost on its way: the balancer counts, beside its other load,
\* what was taken from it and not yet given back by generations that fell back, by the
\* discovery that runs, and by releases that have not arrived.
BalancerConserved ==
    ~setting.failing => \A s \in Servers :
        lb[s] - setting.load[s] = Cardinality({r \in RunningOn(s) : fellBack[r]})
                            + drain.acquired[s] + releases[s]

\* "This worker's last dispatch is already counted in the snapshot": a generation decides
\* on counts that contain every one its own worker has scheduled and that still runs.
OwnDispatchesSeen ==
    \A r \in Requests : pc[r] = "deciding" => \A s \in Servers :
        snapshot[r][s] >= Cardinality({q \in RunningOn(s) :
                                         WorkerOf[q] = WorkerOf[r] /\ ~fellBack[q]})

\* "Fleet in-flight counts and the balancer's counters return to zero", and every
\* generation ends, once no new ones come; the balancer's if no acquire is lost.
FleetSettles ==
    <>[](/\ \A r \in Requests : pc[r] = "done"
         /\ inflight = Zero
         /\ ~setting.failing => lb = setting.load)
=============================================================================
