----------------------------- MODULE ProxyServer -----------------------------
(***************************************************************************)
(* The slime and vime routers: a registry of workers, a proxy that picks a *)
(* worker for each request and counts what is in flight, and the metrics   *)
(* the choice is made on.                                                  *)
(*                                                                         *)
(*   slime   a thread of its own polls every worker in rounds; a request   *)
(*           is scheduled on what the last poll left.  Nothing is awaited  *)
(*           under the scheduling lock, so the lock is never contended and *)
(*           choosing a worker is one action.                              *)
(*   vime    each request scrapes every worker while it holds the lock, so *)
(*           others queue for the lock meanwhile.                          *)
(*                                                                         *)
(* The scheduler may pick any of the endpoints it is given, or none.       *)
(***************************************************************************)
EXTENDS Integers, FiniteSets, SequencesExt

CONSTANTS
    Urls,      \* the workers' urls
    Requests,
    MaxIds,    \* registrations, a bound: every one takes a fresh worker id
    Modes      \* the servers to look at

ASSUME ProxyAssumption ==
    /\ IsFiniteSet(Requests)
    /\ MaxIds \in Nat
    /\ Modes \subseteq {"slime", "vime"}

VARIABLES
    mode,      \* which server runs, never changed
    byId,      \* WorkerRegistry._by_id: the url of each registered worker id
    urlToId,   \* WorkerRegistry._url_to_id
    lastId,    \* ids handed out so far
    inflight,  \* InflightStore: requests at each worker, for removed ones too
    queueLen,  \* attributes["queue_len"] of each worker's endpoint
    stats,     \* how the scrape went that attributes["routing_stats"] stems from
    pc,        \* where each request stands
    listed,    \* the endpoints it listed before it asked for the lock
    scraped,   \* those it has scraped under the lock
    winner,    \* the worker it is proxied to
    lock,      \* the scheduling lock: its holder and then those who wait, in order
    polled,    \* endpoints of the poller's current or last round
    pending,   \* those of them it still waits for
    polling,   \* TRUE during a round
    fresh      \* the last round moved _last_refresh

registry == <<byId, urlToId, lastId>>
metrics == <<queueLen, stats>>
request == <<pc, listed, scraped, winner>>
poller == <<polled, pending, polling, fresh>>
vars == <<mode, registry, inflight, metrics, request, lock, poller>>

Ids == 1..MaxIds
Registered == DOMAIN byId

\* What generate hands to schedule_and_proxy: no fetch_metrics, or one to scrape with.
ReadsPolledStats == mode = "slime"
ScrapesPerRequest == mode = "vime"

EmptyRegistry == byId = << >> /\ urlToId = << >> /\ lastId = 0

Init ==
    /\ mode \in Modes
    /\ EmptyRegistry
    /\ inflight = [w \in Ids |-> 0]
    /\ queueLen = [w \in Ids |-> 0]
    /\ stats = [w \in Ids |-> "none"]
    /\ pc = [r \in Requests |-> "new"]
    /\ listed = [r \in Requests |-> {}]
    /\ scraped = [r \in Requests |-> {}]
    /\ winner = [r \in Requests |-> 0]
    /\ lock = << >>
    /\ polled = {} /\ pending = {} /\ polling = FALSE /\ fresh = FALSE

----------------------------------------------------------------------------
(* The registry *)

\* WorkerRegistry.add: a url that is registered already keeps its id.
Register(u) ==
    /\ u \notin DOMAIN urlToId
    /\ lastId < MaxIds
    /\ lastId' = lastId + 1
    /\ byId' = [w \in Registered \cup {lastId'} |-> IF w = lastId' THEN u ELSE byId[w]]
    /\ urlToId' = [v \in DOMAIN urlToId \cup {u} |-> IF v = u THEN lastId' ELSE urlToId[v]]

\* POST /workers; a body without a url is answered with 400.
AddWorker(u) ==
    /\ Register(u)
    /\ UNCHANGED <<mode, inflight, metrics, request, lock, poller>>

Without(map, key) == [k \in DOMAIN map \ {key} |-> map[k]]

RemoveId(w) ==
    /\ byId' = Without(byId, w)
    /\ urlToId' = Without(urlToId, byId[w])

\* DELETE by worker id, in vime also by url; an unknown one is answered with 404.
RemoveWorker(w) ==
    /\ w \in Registered
    /\ RemoveId(w)
    /\ UNCHANGED <<mode, lastId, inflight, metrics, request, lock, poller>>

remove_by_url(u) == u \in DOMAIN urlToId /\ RemoveId(urlToId[u])

RemoveByUrl(u) ==
    /\ mode = "vime"
    /\ remove_by_url(u)
    /\ UNCHANGED <<mode, lastId, inflight, metrics, request, lock, poller>>

----------------------------------------------------------------------------
(* InflightStore *)

Increment(w) == inflight' = [inflight EXCEPT ![w] = @ + 1]

\* A count of 0 is left alone and logged.
Decrement(w) == inflight' = [inflight EXCEPT ![w] = IF @ > 0 THEN @ - 1 ELSE @]

----------------------------------------------------------------------------
(* schedule_and_proxy *)

\* The handler's locals: what it listed and scraped is not needed after the choice, and
\* none of them after the answer.
Become(r, stage, w) ==
    /\ pc' = [pc EXCEPT ![r] = stage]
    /\ winner' = [winner EXCEPT ![r] = w]
    /\ listed' = [listed EXCEPT ![r] = {}]
    /\ scraped' = [scraped EXCEPT ![r] = {}]

ProxyTo(r, w) == Become(r, "proxying", w) /\ Increment(w)

End(r) == Become(r, "done", 0)

NoWorkers(r) ==
    /\ pc[r] = "new"
    /\ Registered = {}
    /\ End(r)
    /\ UNCHANGED <<mode, registry, inflight, metrics, lock, poller>>

\* slime: listing, locking, scheduling and counting without an await.
Generate(r) ==
    /\ ReadsPolledStats
    /\ pc[r] = "new"
    /\ \E w \in Registered : ProxyTo(r, w)
    /\ UNCHANGED <<mode, registry, metrics, lock, poller>>

\* The scheduler picks nothing (503) or raises, as on a broken config (500).
GenerateNothing(r) ==
    /\ ReadsPolledStats
    /\ pc[r] = "new"
    /\ Registered # {}
    /\ End(r)
    /\ UNCHANGED <<mode, registry, inflight, metrics, lock, poller>>

\* vime: the endpoints are listed first, then the lock is asked for; asyncio.Lock is fair.
AskForLock(r) ==
    /\ ScrapesPerRequest
    /\ pc[r] = "new"
    /\ Registered # {}
    /\ pc' = [pc EXCEPT ![r] = "locking"]
    /\ listed' = [listed EXCEPT ![r] = Registered]
    /\ lock' = Append(lock, r)
    /\ UNCHANGED <<mode, registry, inflight, metrics, scraped, winner, poller>>

\* Mutant of HoldsLock: no lock at all.
HoldsLockAlways(r) == pc[r] = "locking"

HoldsLock(r) == pc[r] = "locking" /\ lock # << >> /\ Head(lock) = r

\* fetch_worker_metrics: the scrape returns, with an error in the stats when it failed,
\* and the endpoint's queue_len is set to what is in flight at that moment.
Scraped(w) ==
    /\ queueLen' = [queueLen EXCEPT ![w] = inflight[w]]
    /\ \E outcome \in {"ok", "error"} : stats' = [stats EXCEPT ![w] = outcome]

ScrapeUnderLock(r, w) ==
    /\ HoldsLock(r)
    /\ w \in listed[r] \ scraped[r]
    /\ Scraped(w)
    /\ scraped' = [scraped EXCEPT ![r] = @ \cup {w}]
    /\ UNCHANGED <<mode, registry, inflight, pc, listed, winner, lock, poller>>

\* Every scrape has returned: the scheduler runs and the winner is counted before the
\* lock passes to the next.
Select(r) ==
    /\ HoldsLock(r)
    /\ scraped[r] = listed[r]
    /\ \E w \in listed[r] : ProxyTo(r, w)
    /\ lock' = Tail(lock)
    /\ UNCHANGED <<mode, registry, metrics, poller>>

\* Mutant of SelectNothing: the early return keeps the lock.
SelectNothingLocked(r) ==
    /\ HoldsLock(r)
    /\ scraped[r] = listed[r]
    /\ End(r)
    /\ UNCHANGED <<mode, registry, inflight, metrics, lock, poller>>

SelectNothing(r) ==
    /\ HoldsLock(r)
    /\ scraped[r] = listed[r]
    /\ End(r)
    /\ lock' = Tail(lock)
    /\ UNCHANGED <<mode, registry, inflight, metrics, poller>>

\* Mutant of Complete: only an answer is counted down, not a failure.
CompleteOnSuccess(r) ==
    /\ pc[r] = "proxying"
    /\ End(r)
    /\ Decrement(winner[r]) \/ UNCHANGED inflight
    /\ UNCHANGED <<mode, registry, metrics, lock, poller>>

\* The worker answers or the call fails: both leave through the finally block.
Complete(r) ==
    /\ pc[r] = "proxying"
    /\ End(r)
    /\ Decrement(winner[r])
    /\ UNCHANGED <<mode, registry, metrics, lock, poller>>

\* Mutant of Cancel: a cancelled handler keeps its place in the lock's queue.
CancelKeepsPlace(r) ==
    /\ pc[r] \in {"locking", "proxying"}
    /\ End(r)
    /\ IF pc[r] = "proxying" THEN Decrement(winner[r]) ELSE UNCHANGED inflight
    /\ UNCHANGED <<mode, registry, metrics, lock, poller>>

\* The handler's task is cancelled while it waits for the lock, holds it or proxies.
Cancel(r) ==
    /\ pc[r] \in {"locking", "proxying"}
    /\ End(r)
    /\ IF pc[r] = "proxying"
       THEN Decrement(winner[r]) /\ UNCHANGED lock
       ELSE /\ lock' = RemoveAt(lock, CHOOSE i \in DOMAIN lock : lock[i] = r)
            /\ UNCHANGED inflight
    /\ UNCHANGED <<mode, registry, metrics, poller>>

----------------------------------------------------------------------------
(* MetricsPoller._run *)

\* Mutant of StartRound: the endpoints are listed once and for all.
StartRoundOnOldList ==
    /\ mode = "slime"
    /\ ~polling
    /\ Registered # {}
    /\ polled' = IF polled = {} THEN Registered ELSE polled
    /\ pending' = polled'
    /\ polling' = TRUE
    /\ UNCHANGED <<mode, registry, inflight, metrics, request, lock, fresh>>

StartRound ==
    /\ mode = "slime"
    /\ ~polling
    /\ Registered # {}
    /\ polled' = Registered
    /\ pending' = Registered
    /\ polling' = TRUE
    /\ UNCHANGED <<mode, registry, inflight, metrics, request, lock, fresh>>

Poll(w) ==
    /\ w \in pending
    /\ Scraped(w)
    /\ pending' = pending \ {w}
    /\ UNCHANGED <<mode, registry, inflight, request, lock, polled, polling, fresh>>

\* What gather gets back as an exception: scrape_sglang_metrics catches whatever goes
\* wrong and returns zeros, so there is none.
Raised(w) == FALSE

EndRound ==
    /\ polling
    /\ pending = {}
    /\ polling' = FALSE
    /\ fresh' = (Cardinality({w \in polled : Raised(w)}) < Cardinality(polled))
    /\ UNCHANGED <<mode, registry, inflight, metrics, request, lock, polled, pending>>

Serve(r) ==
    \/ NoWorkers(r) \/ Generate(r) \/ GenerateNothing(r) \/ AskForLock(r)
    \/ (\E w \in Ids : ScrapeUnderLock(r, w))
    \/ Select(r) \/ SelectNothing(r) \/ Complete(r)

PollerStep == StartRound \/ (\E w \in Ids : Poll(w)) \/ EndRound

Next ==
    \/ \E u \in Urls : AddWorker(u) \/ RemoveByUrl(u)
    \/ \E w \in Ids : RemoveWorker(w)
    \/ \E r \in Requests : Serve(r) \/ Cancel(r)
    \/ PollerStep

Spec == Init /\ [][Next]_vars

\* The loop runs every ready handler and the poller's thread its loop; a scrape returns or
\* times out, and a worker answers or its connection fails.
FairSpec == Spec /\ WF_vars(PollerStep) /\ \A r \in Requests : WF_vars(Serve(r))

----------------------------------------------------------------------------
Distinct(queue) == \A i, j \in DOMAIN queue : queue[i] = queue[j] => i = j

Queued(queue, r) == \E i \in DOMAIN queue : queue[i] = r

\* Besides the types: the lock's queue holds each request that is locking exactly once.
TypeOK ==
    /\ mode \in Modes
    /\ Registered \subseteq 1..lastId /\ lastId \in 0..MaxIds
    /\ inflight \in [Ids -> Nat]
    /\ queueLen \in [Ids -> Nat]
    /\ stats \in [Ids -> {"none", "ok", "error"}]
    /\ pc \in [Requests -> {"new", "locking", "proxying", "done"}]
    /\ listed \in [Requests -> SUBSET Ids]
    /\ scraped \in [Requests -> SUBSET Ids]
    /\ winner \in [Requests -> Ids \cup {0}]
    /\ lock \in Seq(Requests)
    /\ Distinct(lock)
    /\ \A r \in Requests : pc[r] = "locking" <=> Queued(lock, r)
    /\ pending \subseteq polled /\ polled \subseteq Ids
    /\ polling \in BOOLEAN /\ fresh \in BOOLEAN

At(w) == {r \in Requests : pc[r] = "proxying" /\ winner[r] = w}

\* Whatever way a request ends, and although workers leave while they serve: the count of
\* a worker is the number of requests proxied to it.
CountsMatchRequests == \A w \in Ids : inflight[w] = Cardinality(At(w))

\* What the scheduling lock is for: a vime request decides on counts that contain every
\* request dispatched before it, however long its scrapes take.
DecisionsSeeDispatches ==
    \A r \in Requests : pc[r] = "locking" =>
        \A w \in scraped[r] : queueLen[w] >= inflight[w]

\* The two maps of the registry are inverse through additions, repeated additions and
\* removals: no url leads to a worker that is gone.
RegistryIsInverse ==
    /\ \A w \in Registered : byId[w] \in DOMAIN urlToId /\ urlToId[byId[w]] = w
    /\ \A u \in DOMAIN urlToId : urlToId[u] \in Registered /\ byId[urlToId[u]] = u

\* Every request is answered, in vime too, where it queues behind the scrapes of others.
EveryRequestEnds == \A r \in Requests : <>(pc[r] = "done")

\* "New endpoints are picked up between cycles": a worker that stays is polled.
NewWorkersArePolled ==
    \A w \in Ids : (mode = "slime" /\ w \in Registered)
                        ~> (stats[w] # "none" \/ w \notin Registered)
=============================================================================
