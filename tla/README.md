# Verification of py-inference-scheduler

TLA+ models of the scheduler's stateful parts, TLC runs on small instances and TLAPS proofs
for every value of the constants. Source paths are relative to the repository's root.

## 1. The system

py-inference-scheduler picks an inference engine for each LLM request. A *scheduler* runs a
profile of filters, scorers and a picker over the candidate endpoints; *integrations* embed it
in a serving system and feed it endpoints and metrics.

| Component | State | Operations | Works with |
|---|---|---|---|
| `plugins/flow_control/kv_saturation.py` | tokens reserved per engine, one reservation per request id, bounded LRU of last turns | `get_allowed_candidates`, `reserve`, `release` | called by the Ray Serve router |
| `integration/rayserve/router.py` | `admission_queue` of futures | `choose_replicas`, `admit`, `commit`, `release`, `on_request_routed` | Ray Serve calls it; it awaits replica stats; it calls the scheduler and its plugins |
| `core/scheduler.py`, `core/config.py` | loaded profiles, `last_mtime` | `schedule`, `run`, `_maybe_reload_config`, `get_flow_control_plugins` | config file on disk; profile plugins |
| `plugins/scorers/prefix_plugin.py` | two maps between prefix hashes and servers | `score`, `pre_request`, `remove_server`, `reset` | called in the scheduler's run |
| `plugins/filters`, other scorers, pickers, handlers | none | pure functions of the endpoints | composed by `framework/types.py` |
| `integration/slime`, `integration/vime` servers | worker registry, scheduling lock | add, remove, list workers; generate | aiohttp to the workers; `InflightStore`; `MetricsPoller` |
| `datalayer/metrics` (`InflightStore`, `MetricsPoller`, scrapers) | in-flight counts, `_last_refresh`, endpoint attributes | increment, decrement, poll | a thread of its own beside the serving loop |
| `integration/verl` (`fleet.py`, `verl_hook.py`) | fleet actor's handles and counts; per-worker endpoints, lock, ids acquired from verl's balancer | discover, watch, snapshot, schedule, acquire, release | Ray actor calls; verl's balancer |
| `integration/verl/swe/calibrate.py` | results, the keep list, one sandbox per instance | sweep over all instances in a thread pool, run a suite twice, judge, keep | Kubernetes, the sandbox client and the graders of `swe` |
| `integration/verl/swe`, the rest | trajectory tokens and mask, one sandbox per trajectory | run, create, exec, grade, delete | Kubernetes, verl's agent loop |
| `datalayer/connectors/mooncake` | per-request block tables while decoding | save completed blocks, look up, queue the store jobs of idle steps | vLLM's scheduler and its KV connector API |
| `framework/registry.py`, command lines, helpers, patches | none that changes while serving | | |

What is hard in it, and what makes each part correct:

* **Admission** (kv_saturation and the router). Between the admission check and the booking
  nothing may be awaited; a request may be routed several times, be cancelled, lose its stats or
  be placed without a booking; a config reload swaps the plugin. Correct means: the books equal
  the live reservations, no engine holds more than its budget, a request runs where it is
  booked, a finished request holds nothing, and a waiter is woken.
* **Prefix index.** Eviction, removal and reset change two maps that must stay inverse, and a
  score must say what part of the prompt a server holds.
* **Proxy servers and metrics.** A serving loop and a poller thread share endpoints and counts;
  workers leave and handlers are cancelled while requests wait for the lock. Correct means: counts
  equal the proxied requests, and a decision has seen the dispatches before it.
* **verl.** Many workers share one actor through asynchronous calls. Correct means: every
  acquire is released once, and counts return to zero.
* **SWE agent loop.** Tokens, mask and log-probabilities stay aligned under truncation; every
  sandbox that was created is deleted.

* **Calibration sweep.** Sandboxes are named after instances and survive a killed sweep; a suite is
  run again when its websocket breaks. Correct means: nothing unfit is kept, nothing fit is lost
  without a fault, sandboxes are reclaimed and the sweep ends.
* **KV saving while decoding.** Puts run steps after they were issued, requests are preempted and
  resumed, and blocks change hands. Correct means: what the store and a request's blocks hold is
  what their keys say, and no block stays pinned.
* **Engine metrics.** Five readers of the same load. Correct means: what is routed on is a load the
  engine had, or zeros.

`PROJECT.json` lists the hazards one by one, at their lines.

## 2. Modules

| Module | What it is |
|---|---|
| `KVLedger` | one plugin object's data as a record, its methods as pure operators, and when a ledger is sound |
| `KVSaturation` | the plugin as a state machine under its callers' protocol; the abstract specification of the router's admission |
| `KVRecency` | `KVSaturation` with a history variable: the ids in the order in which they last finished a turn |
| `MCKVSaturation` | its small instance |
| `RayServeRouter` | the router, its admission queue, the scheduler's reload, and Ray Serve as environment |
| `MCRayServeRouter` | its small instances |
| `PrefixCache` | the prefix index and its scorer |
| `SchedulerProfile`, `MCSchedulerProfile` | the decision service over that index: filters, scorers, normalisation, picker, profiles; and small instances |
| `ProxyServer`, `MCProxyServer` | the slime and vime servers: worker registry, scheduling lock, in-flight counts, poller; and a small instance |
| `Fleet`, `MCFleet` | the verl hook's workers, the fleet actor they share and verl's balancer; and small instances |
| `SweGrading` | which edits of an SWE agent reach the grading sandbox, and which test report passes |
| `SweAgentLoop`, `MCSweAgentLoop` | one SWE trajectory with its two sandboxes; and small instances |
| `Calibrate`, `MCCalibrate` | the calibration sweep: workers, sandboxes, the main thread, kills and reruns; and a small instance |
| `DecodeSave`, `MCDecodeSave` | the Mooncake connectors over vLLM's scheduler, prefix cache, store and putting thread; and a small instance |
| `EngineMetrics`, `MCEngineMetrics` | the five readers of an engine's load and the saturation filter behind them; and a small instance |
| `Admission_proofs` | the methods of `KVLedger`, the invariants of `KVSaturation` and its history, the safety of `RayServeRouter` under every fault, and that it implements `KVSaturation`, proved |
| `ProxyServer_proofs` | the invariants of `ProxyServer`, proved |
| `Fleet_proofs` | conservation of the counts and of the balancer's counters, and what a decision has seen, proved |
| `SchedulerProfile_proofs` | the prefix index, the filters, sessions and the ranking of `SchedulerProfile`, proved |
| `SweAgentLoop_proofs` | types, alignment of the tokens, deletion of the sandboxes, soundness and completeness of the reward of `SweAgentLoop`, proved |
| `Calibrate_proofs` | the keep list, the sandboxes and the pool of `Calibrate`, proved |
| `DecodeSave_proofs` | what is stored, what requests compute on, and that decode steps catch up, proved |
| `EngineMetrics_proofs` | what the readers of `EngineMetrics` leave to route on, proved |

### KVLedger and KVSaturation

`reserved`, `reservation` and `lastTurns` are `_reserved_by_engine`, `_reservations` and
`_last_turns`; a missing key reads as 0 or `NoReservation`, as `.get` and `.pop` with defaults
do. The fraction is a rational and `int()` truncates towards zero. What a caller reports of a
candidate is one of three things the code tells apart: a capacity, empty stats, or stats without
a capacity. `Admit` is `get_allowed_candidates`, the choice of any allowed engine and `reserve`
in one action, because the callers await nothing in between; `FinishTurn` is `release`.
A request with an output length of `None` is `output = {}`. `KVRecency` adds `recency`, which no
action reads, to say what the memory of last turns should be. The names `PluginInit`, `PluginNext`, `PluginSpec`
and `PluginTypeOK` keep these definitions apart from the router's.

### RayServeRouter

Everything runs on one asyncio loop, so a handler is cut into actions exactly where it awaits:
`StartChoosing` (up to the stats calls), then one of `Choose`, `ChooseUnbooked`, `ChooseAfterError`
or `Wait`, and after a wake-up the same four again. `Choose` therefore contains the admission
check, the config reload inside `Scheduler.run`, the pick and `commit`. `ledgers[v]` is the plugin
object that loading version `v` of the config builds: `admit` keeps using the version it read
before its loop (`plug`), `commit` and `release` use the version loaded when they run.
`queue` holds the owner of each future; a future is done when its owner no longer waits.
The profile's pick is any of the admitted replicas. The replica that is handed to Ray is looked up by
the name of the endpoint that was picked (`Matching`), and is a random one when none has it; the booking
goes to the endpoint itself, so the two may part.

Ray Serve is external and does what the code is written to meet: it calls `choose_replicas` with
the replicas that are up, routes a request again when a replica turns it away, hooks the result
through `on_request_routed` and runs the done callback once. `FaultKinds` says which other things
may happen: a rejection, a cancelled task (the code tests `waiter.done()` for it), a client that
leaves, dead and new replicas, failed stats calls, an exception while endpoints are built, a
profile that picks nothing, and an edit of the config, which may not parse.

### PrefixCache

Block `i` is hashed with the digest of block `i - 1`, so a hash stands for a prefix and the model
uses the prefix. An `OrderedDict` is the sequence of its keys; assigning a key again keeps its place, so
eviction is first in, first out. Scores are numerators over the number of hashes.

### SchedulerProfile

The tunix service schedules under a lock and awaits nothing meanwhile, so a request with its
candidates is one action; `/reset` is the other. A candidate is what the filters and scorers look at.
`main` is a profile of `worker_state` and `saturation`, of `sticky_session`, `prefix_cache` and
`waiting_queue`, and of either picker; the other metric scorers are the same function of another
attribute. A session id is given by the order in which its hash ranks the servers. Scores are
whole numbers in units of `1/Scale`, where the code has floats; `Scale` is a number that every spread of scores
divides (`SchedulerProfileAssumption`), so that no quotient is rounded. The candidates come in any order, so
any of several equal ones may be picked. A second profile runs as well: it is what the handler falls
back to when `main` raises. It has no prefix scorer of its own; `CycleHashes` is what the scorers of
a request share, and a second prefix scorer, which would overwrite it, is left out. tunix passes no
headers, so its requests are those with `NoSession`; the session ids are those the verl hook passes
(`verl_hook.py:116`).

### ProxyServer

slime and vime share `schedule_and_proxy`; `mode` says which of them runs. `byId` and `urlToId`
are the registry's maps and a worker id is the number of its registration, since `uuid4` never
repeats. A removed worker's endpoint object lives on in the requests that listed it, so
`inflight`, `queueLen` and `stats` are indexed by every id ever given.

In slime nothing is awaited while the lock is held, so choosing and counting is one action
(`Generate`). In vime a request lists the endpoints, queues for the lock (`AskForLock`), scrapes
the workers one by one while it holds it (`ScrapeUnderLock`) and then chooses and counts
(`Select`); `lock` is the holder followed by the waiters, in the order asyncio serves them. A
cancelled handler leaves the queue, gives up the lock, or counts down in its `finally`. The
poller is a thread: `StartRound` takes the list, `Poll` is one worker's scrape and `EndRound`
decides whether `_last_refresh` moves; `queue_len` and `routing_stats` are written in one step. A
url that comes back gets a new id whose count starts at zero while requests of the old id still
run on the same machine; the counts are per id, as in the code.

### Fleet

`calls[w]` are the calls worker `w` has made to the fleet actor and the actor has not run: Ray runs
the calls of an actor one at a time and those of one caller in order, and a call that is not
awaited (`record_dispatch`, `record_release`) is just appended. While `discover` runs, `drain` is
its loop and the actor runs nothing else; each acquire is a step in which others may use the
balancer. A generation is cut where it awaits: the number of servers, discovery, the lock, the snapshot, the balancer
and the engine. `GiveUp` is a task that is cancelled, or a scheduler that raises, before it has an
engine; afterwards every way out is `Complete`. The poller of the actor is the one of
`ProxyServer` and not repeated.

verl's balancer is external: it picks any server for a trajectory (it is sticky) and a least
loaded one for the fresh ids of a discovery, as in `tests/unit/integration/verl/test_fleet.py`. Its
set of servers is fixed, so the length of `get_all_servers` is a constant. `Settings` are the
layout, the load other clients of the balancer put on the servers, and whether calls to it may
fail. `TriesPerServer` is 3 in the code.

### SweGrading and SweAgentLoop

`run()` awaits one executor job at a time, so the coroutine with its current job is one thread
(`Run`) and the boot of the sandbox, which goes on beside it, the other (`Boot`). The coroutine is
cut at its awaits. A token is what it is for the loss: generated (`llm`), an observation, or the pad
of an empty response; `tokens` are the three lists that must stay aligned. `Exec` is one attempt of
`SandboxClient.exec` for any command: its parameters say what the command does if it runs, and how
the caller goes on when it returns, raises, or is sent again. That a broken stream says nothing
about whether the command ran, and that a command may outlive its stream (`lateBaseline`), is how
Kubernetes behaves.

A working tree is a set of edits, one of each kind the reward tells apart, and `git diff HEAD` is
`tree \ head`; an edit an agent takes back is left out. `git apply` needs an intact patch none of
whose changes are in the tree, so one rule covers a patch that is applied twice, one that carries
the image's own changes and one whose chunks were written twice. `Report` stands for the test
suites. A path with a space, which `_patch_paths` does not parse and `filter_patch` keeps, is left
out, and so is an empty `fail_to_pass`.

### Calibrate

`pc[i]` is where the worker of instance `i` is; `Concurrency` bounds how many work at once. The steps
of a worker are the calls it makes: `Create`, `WaitReady`, one exec of the suite at a time, `Delete`.
`sandboxes` are the sandboxes of the cluster by their fixed name, so `Create` in a sweep that follows
a killed one can meet a conflict, which ends the instance and deletes the sandbox in the `finally`
block. `report` is the one file both runs of the suite write, with the run it is from. An instance
is of one of five kinds: `good`, `drifted` (a test is gone), `solved`, `flaky`, `slow`; what its suite
reports and how that is graded is in `SweGrading`. `FaultAt` is a fault of any call: it raises before or
after its effect, the websocket breaks and the exec is sent again, pytest dies before it writes,
the output is cut, the pod fails, the client cannot be built. `Killed` may happen at any moment, and
`Rerun` starts the next sweep. A pytest of a broken exec that still runs beside the second one, and
a deleted pod that is still terminating when its name is asked for again, are left out. `disturbed`, `died`
(pytest died before it wrote) and `leftovers` (an earlier sweep's sandbox had the name) are history, for the
properties to say what may go wrong: `JudgedOnTwoRuns` excuses `died` alone.

### DecodeSave

The connectors are thin layers over classes whose code is not in the repository, so most of this module
is vLLM as our code assumes it, marked external in `PROJECT.json`: admission, preemption of the last
request, chunked prefill, the block pool, the prefix cache, the stock tracker and the thread that
puts. Ours are `should_save_decode_request`, `DecodeTracker` (the loop of `build_connector_meta`),
`get_num_new_matched_tokens` and `IdleStep` with `rls_no_forward_step`. A block's key is the request
and the block's index, its content the key and how many of its tokens are computed; `holds` is the
memory of the engine, `store` what was put. A step schedules one request. A job names blocks and is
read when it is put, so blocks of a job are pinned until then. `prefill_end` of a resumed
request is either its prompt or all it had, since the stock code may choose both.

`connector` is the class an engine runs with, one of `Connectors`. Both extend vLLM's class and neither the
other: `DecodeKVSavingConnector`, which `kv.py` configures, saves while decoding (`DecodePart`, `Matched`), and
`MooncakeStoreConnector` of `store_connector.py` queues the store jobs of idle steps (`IdleStep`). A job
that nobody queues is kept in `dropped`, since its blocks stay pinned.

### EngineMetrics

`load` is what an engine does now, `reply` a page or dict under way, rendered from the load of an
earlier moment, `stats` the `routing_stats` that filters and scorers read. A page has no sample of a
gauge (`bare`), one (`alone`), or several of which one is the load and the others are zeros, of processes that
do no work (`beside`); several processes that work are left out. `VllmMatched` and `SglangMatched` are the regular
expressions of verl's readers: the mantissa of a number with an exponent, and the first of several
samples. A load is in units of 0.00001 so that the exponent can occur. A scrape that fails gives zeros; a
Ray call that fails leaves the stats of the last one.

## 3. Runs

| Run | Instance | Shows |
|---|---|---|
| `ledger` | 2 engines with budgets 3 and 2 (rounded down from 2/3 of 5 and 4), 3 trajectories, prompts and outputs 0 and 2, memory of 2 turns, every report | books balance, budgets hold, oversize requests run alone, the memory keeps the most recent turns |
| `router_calm` | replicas of 3 and 2 tokens, requests of 2, 2 and 5 tokens and a health check, cold start, 2 rejections, fairness | what is placed is booked there and fits, the router implements `KVSaturation`, every request ends; no deadlock |
| `router_faults` | 3 faults of 9 kinds, a third replica that joins and reports no capacity, 3 config versions of which one is broken | the loaded ledger is right until a reload, a finished request holds nothing; by its type invariant a waiter has one future |
| `router_stranded` | one replica, one cancel | `WaitingEnds` fails: the wake-up is lost with the cancelled waiter |
| `scheduler` | 2 servers, prompts of up to 3 blocks over 2 contents, 2 hashed, 2 remembered a server, 7 reports of a candidate, sessions, weights 4, 2 and 1 | inverse maps within their bounds, what is routed is held; picks may serve, have room, keep their session and are not dominated |
| `proxy` | 2 urls, 2 registrations, 3 requests, both servers, any number of removals, failed scrapes, cancels | counts equal requests, decisions see earlier dispatches, every request ends, new workers are polled |
| `fleet` | 2 workers with 2 and 1 generations, 2 servers, both layouts, an idle and a busy balancer, failing acquires, 1 try a server | counts are conserved, decisions see their worker's dispatches, counts return to where they were |
| `swe` | 3 turns, 4 tokens, files of 2 chunks, 1 retry, faults of all 7 kinds in any number | token lists aligned, sandboxes deleted, no reward without a fix, no fix without a reward when nothing fails, the loop returns |
| `calibrate` | 2 instances of any kind, 1 worker, 1 retry, 2 faults, 2 sweeps | nothing drifted, solved or slow is kept, what is kept was judged on two runs of this sweep, no undisturbed good instance is missing; sandboxes are reclaimed, sweeps end |
| `decode_save` | both classes, 2 requests of 5 and 2 prompt tokens up to 7 and 8, 4 blocks of 2 tokens, 2 tokens a step | store and memory hold what their keys say, decode saves catch up, every request finishes with the class that queues the jobs of idle steps |
| `decode_idle` | the same with the class `kv.py` configures | `EveryRequestFinishes` fails: the job of an idle step is lost, its blocks stay pinned |
| `metrics_exponent` | 2 replicas, 4 loads, verl's reader of vLLM | `DroppedIsSaturated` fails: an almost idle engine is dropped |

The bounds are chosen to make the limits bite: a replica that holds one request but not two, a
request larger than any replica, more trajectories than the memory holds, prompts longer than
`max_prefix_blocks`, adds that evict hashes they have just entered, three requests so that one
scrapes under the lock, one waits for it and one is already counted, and two registrations so
that a worker is removed while another serves or comes back. In `fleet` a busy server with one try
a server makes a drain acquire the other one twice and end with a partial view; with the code's
three tries that takes a load of six, which only lengthens the loop. In `swe` three turns let the
agent fix, break something and submit, a generation of two tokens is cut to a budget of four, and
two chunks let an append be repeated. In `calibrate` two faults are a kill and a fault of the sweep that
follows, or two of one instance; one worker lets the other instance wait while the main thread
aborts. In `decode_save` either request alone fits and both do not, so that requests are preempted,
resume from memory, from the store and from both, and a prompt of five tokens is prefilled in
chunks. In `metrics_exponent` the loads are idle, one block of a large cache, half full, and full with a
queue. Requests are finitely many,
so a stream of arrivals that starves a waiter is outside the instances.

**Fairness.** `FairSpec` is weak fairness of each request's own next step: asyncio runs every
ready task, stats calls return or fail, Ray calls back after routing, and a running request ends
(engines bound their output). In `ProxyServer` it is weak fairness of each handler's next step
and of the poller's loop: a scrape returns or times out, and a worker answers or its connection
fails (the proxy itself sets no timeout). In `Fleet` it is weak fairness of each generation, of
the actor for each caller, of its discovery and of the balancer's releases: Ray runs every call
that was made. In `SweAgentLoop` it is weak fairness of the two threads: engines answer, and `exec` and
`wait_ready` have deadlines, so that a pod need never run; the other calls of the Kubernetes client
(`create`, `read`, `delete`, opening the stream of an `exec`) pass no request timeout in `sandbox.py`, and that
they return or raise is assumed. In `Calibrate` it is weak fairness of each worker and of the main thread, for the
same reasons. In `DecodeSave` it is weak fairness of the
engine's loop and of the putting thread: the engine steps while it has work, and a put ends, whether it
worked or not. Nothing is assumed of faults, and no fairness is assumed between
requests that wait.

### Disagreements the runs show

1. A cancelled waiter swallows the wake-up (`router.py:104`), against "the request waits until a
   reservation is freed" (`docs/kv_saturation.md:10`).
2. verl's readers take the mantissa of a number with an exponent (`verl/vllm.py:43`), so that a load of
   0.00003 reads as 3.0 and the saturation filter drops an idle engine, against "Drops replicas whose
   KV cache utilization or waiting request count is at or above its threshold"
   (`docs/guides/scheduler_customization.md:82`).
3. The configured connector lacks the fix for idle steps: `kv.py:36` names `DecodeKVSavingConnector`, which
   extends vLLM's class and not the one of `store_connector.py`, against "Store jobs from a step with no
   forward pass still run, so their KV blocks are freed" (`store_connector.py:33`).

Others that the models contain and no run is spent on:

* A reload forgets what runs (`scheduler.py:91`), against "engines are never asked to hold more context
  than fits" (`docs/kv_saturation.md:3`). `RouterCalm.cfg` with an `edit` among its `FaultKinds` and
  `MaxEdits` 2 violates `EnginesNeverOverfilled`.
* The first request of a cold start is not checked (`router.py:232`: no config is loaded yet) but booked;
  on an engine not polled yet its capacity is -1 (`router.py:163`), so with the default fraction of 1 it
  is booked with -1 tokens in place of what it needs (`kv_saturation.py:85`), against the same sentence.
  `RouterCalm.cfg` with `FaultKinds = {"statsLost"}` violates `EnginesNeverOverfilled`. The hypotheses
  of the theorems about the router say where the line runs.
* A best match of one block is novel whenever `min_match_ratio > 0` (`prefix_plugin.py:186`, `MaxScore`),
  against its description (`docs/guides/scheduler_customization.md:104`).
* `pre_request` enters the hashes that the request's last prefix scorer left in the cycle state
  (`prefix_plugin.py:208`), which with two scorers of different block sizes are not its own; the mutant of
  `CycleHashes` shows what the index then misses.
* A capacity called LRU evicts first in, first out (`prefix_plugin.py:43`), so that entering a prompt can
  evict its own first block.
* `git apply` is sent again when its websocket breaks (`pristine_grader.py:76`), against "callers' commands
  must therefore be idempotent" (`sandbox.py:159`): the patch is there, so it does not apply, and a right
  fix scores 0.
* A second pytest that dies before it writes leaves the report of the first to be read again
  (`calibrate.py:86`), and a flaky instance passes as deterministic, against "two consecutive runs produce
  identical status maps" (`calibrate.py:23`).

`EveryRequestEnds` and `EnginesNeverOverfilled` are checked in `router_calm`
where these events do not happen.

## 4. Proofs

For any finite sets of engines and ids, any capacities, fraction, default output length and
memory bound (`KVLedgerAssumption`, `KVSaturationAssumption`), `Admission_proofs` proves that
`PluginSpec` implies `[]PluginTypeOK`, `[]LedgerBalanced`, `[]NeverOverBudget` and `[]OversizeRunsAlone`,
and `RecencySpec` implies `[]RemembersMostRecent`.

`NeverOverBudget` is not inductive: admission reads `reserved - own`, which is at least zero only
because `reserved` is the sum of the bookings and every booking lies within its engine's budget.
The inductive invariant `IInv` is therefore `Sound` (shape, balance, bookings in range, budgets)
with the distinct ids and bound of the memory. A sum over bookings is stated without recursion:
`BookedSlots(L, e)` has one pair for each token booked on `e`, so the sum is its cardinality and
changes of it follow from the finite-set theorems (`OneMoreBooking`, `DropSound`,
`BookSound`, `ReserveSound`, `ReleaseSound`). `OversizeAlone` needs one more fact, that two bookings on one
engine together hold at most what is reserved there (`TwoBookings`). `RemembersMostRecent` says that the memory is the end of
`recency`; with `recency` free of repetitions this is inductive, since an id that finishes again is either in
that end, and is moved there too, or in front of it, and the oldest one remembered makes way
(`MostRecentRemembered`).

It proves of the router, for any replicas, requests, prompts, config versions (good and broken),
set of fault kinds and number of faults (`RouterAssumption`):

* `[]TypeOK` and `[]FinishedHoldsNothing` with no hypothesis. `RInv` is inductive: each future is
  queued once and its owner waits or was cancelled (`QueueInv`); a call that waited holds plugins no newer
  than the loaded ones (`CallInv`); a plugin whose config was not loaded yet is empty (`ConfigInv`); what
  runs without the release callback holds nothing (`HookInv`). Bookings come only from `Choose` and go to
  the plugin it loads (`LedgerChanges`, `NoForeignBooking`), for the endpoint of the replica the request is
  sent to (`SelectedIsFound`), so no reload gives a request that
  is over a reservation.
* `[]SoundUntilReload` if the start is warm, or the fraction is below 1, or every engine's capacity is
  known to the router (`FirstBookingSound`): only the first booking of a cold start is unchecked.
* `ImplementsKVSaturation` while there is one config, under every other fault, if the start is warm or
  all capacities are known and every budget is positive (`FirstBookingAllowed`). `SameOperators` carries
  the lemmas over to the instance.
* `[]PlacedWhereBooked` and `[]EnginesNeverOverfilled` in an environment that places nothing without a
  booking (`EveryPlacementBooked`: one config that parses, no silent engines, no exception, a profile
  that picks; rejections, cancels, abandoned requests, new replicas, and after a warm start deaths and
  lost stats may happen). `BookedInv` says that a placed request's booking is its full need, so the
  tokens that run are among the slots that `Sound` counts.

The instance of `router_calm` meets all these hypotheses, that of `router_faults` those of the
first two.

`ProxyServer_proofs` proves, for any urls, finite set of requests and number of registrations and
for both servers (`ProxyAssumption`), `[]TypeOK`, `[]CountsMatchRequests`,
`[]DecisionsSeeDispatches` and `[]RegistryIsInverse`. `DecisionsSeeDispatches` alone is not
inductive: a dispatch raises a count that another request may have read. It becomes so with
`LockDiscipline`, that only the head of the lock's queue has scraped anything, which in turn needs
that each request is queued once (part of `TypeOK`): the queue's three changes are the lemmas
`JoinedQueue`, `LeftQueue` and `LockPassed`. The counts follow from one lemma for dispatches and one
for answers, each adding or removing one element of a finite set.

`Fleet_proofs` proves, for any workers, finite sets of servers and generations, trajectories, settings
and tries (`FleetAssumption`), `[]TypeOK`, `[]CountsConserved`, `[]BalancerConserved` and
`[]OwnDispatchesSeen`. The counts are hard because a decrement is clamped at 0 and three kinds of
calls are under way at once: that no decrement is swallowed, and that a snapshot has counted what its worker
dispatched, are both about the order of calls that the actor has still to run. `IncrementsBacked`
says it of every cut through the workers' queues, which are the states that the actor can reach by running
calls alone: behind the cut no server has more increments than generations that run on it and
decrements behind the cut. The queue of the actor always runs a worker's decrement after its increment, so this is kept
by each new call (`NewCallCount`, `DispatchCounts`, `CompleteCounts`) and by each call that is run, which
moves the first cut (`RanCounts`). The second half of `IncrementsBacked`, for cuts behind a
snapshot that somebody waits for, counts only what fell back among a worker's generations; it is kept because
whoever waits holds the lock (`Locks`) and asks once (`SnapshotsOnce`), so its worker dispatches nothing meanwhile.
`BalancerConserved` needs that `lbAcquired` tells a generation that fell back from a scheduled one (`Marks`), which
is true only because the turns of a trajectory follow one another (`OneTurn`); where an acquire of the balancer may
be lost it claims no more than the code can keep. `Later` is a set of places in the queues, so that all counts are cardinalities
of finite sets. `FleetInv` is the conjunction.

`SchedulerProfile_proofs` proves five properties of the profile over its index, for any servers, prompts,
capacity, reports, thresholds and weights (`PrefixCacheAssumption`, `SchedulerProfileAssumption`).

* `[]IndexIsInverse` and `RoutedIsHeld`: `Fresh` is written with indices and not with `SelectSeq`, so that
  what is entered (`FreshSpec`, `EnteredSpec`) and evicted (`EvictedSpec`) can be told. `AddInverse`
  is the heart: entering enlarges the entry of each hash, evicting shrinks it, and a hash may do both in one
  call when a prompt is longer than the capacity. `RoutedIsHeld` adds that the front of a list is
  older than what was entered last.
* `[]PicksRoutable` needs no invariant: the filters read only the request. The order matters, as the
  run's mutant with the filters swapped shows.
* `[]SessionKept` and `[]PicksUndominated`: `MinSpec` and `MaxSpec` show that a finite set of numbers has
  its least and greatest, `NormalizedSpec` that stretching keeps the order of scores and stays within
  `0..Scale`. A session's own part is the whole `Scale` and that of another 0, unless it is the only
  candidate (`StickyParts`), and a weight above the sum of the others outweighs them (`Outweighs`). The other follows as
  in a known prompt the scores are numbers of held hashes (`KnownScore`) and one strictly greater part makes a greater
  sum (`GreaterSum`), strictly because nothing is rounded.

`EngineMetrics_proofs` proves `[]ReadsOneLoad` for any replicas, loads and thresholds
(`EngineMetricsAssumption`, a hypothesis of both theorems), and `[]DroppedIsSaturated` if none of verl's two readers is there, which
is as much as is true: the run `metrics_exponent` violates it with one of them. What is under way is a page that
an engine rendered (`MetricsInv`); `ParsedIsLoad`, `MatchedIsLoad` and `ReadIsLoad` are about one reader each.

`SweAgentLoop_proofs` proves, for any lengths, turns, retries, chunks and set of faults
(`LoopAssumption`), `[]TypeOK`, `[]TokensAligned`, `[]SandboxesReclaimed`, `[]RewardSound` and `[]RewardComplete`. The first is inductive once the
lists have their types and a grading step is known to come before the end (`GradingInside`);
`Appended` is the lemma about lists that it rests on. The second needs to know who still deletes
what (`RInv`): a grading sandbox that exists has a grading step to come, and the last step of the
coroutine only comes when the boot is over, so that no sandbox is created behind it. The third
(`SInv`) says what the graded tree is made of at each step: the submitted diff without its tests and the
row's own, with the fix from the moment the regressions are run; that such a tree passes only if the
property holds is `WhatPassingShows`, and that no later step changes it `KeepsReward`. `RewardComplete` is the
converse and needs more: that without a fault everything gets through (`CInv`). The boot succeeds and its pod runs to
the end, the image's own changes are committed before the agent starts, each file arrives chunk by chunk, and the
graded tree is exactly what has been applied (`Calm`); `WhatPasses` makes of `WhatPassingShows` an equivalence.

`Calibrate_proofs` proves, for any instances, pool, retries, faults, kills and reruns
(`CalibrateAssumption`), `[]KeepListIsRight`, `[]SandboxesReclaimed` and `[]TypeOK`. None is inductive: the list is
written from reasons, which were judged from a report that an earlier suite in the same
sandbox may have written. The invariant `IInv` keeps, for each instance, that what was read comes from a run of its
own suite (`Truthful`), who still deletes its sandbox (`Reclaimed`), and that an instance which nothing
hit never meets a name already taken (`Unhindered`); further that an instance that is judged has read two
reports, the second of a later run unless pytest died (`Dated`), that one whose name an earlier sweep's
sandbox has stops at the conflict (`Stopped`), and that the list is that of the verdicts (`Listed`). `OnlyGoodAreKept` and `GoodIsKept` are about the judgement
itself, `OthersUntouched` that workers do not disturb one another, and `StepPool` counts them.

`DecodeSave_proofs` proves, for any requests, blocks, block size, prompts, budgets and any way of
giving out blocks (`DecodeSaveAssumption`), `[]StoredIsRight`, `[]KVIsRight`, `DecodeCatchesUp` and `[]TypeOK`.
A put writes long after it was issued, so `StoredIsRight` needs that the blocks of every job hold whole
keys until it is put (`JobsRight`); that needs, at each step, that the connector's tracker names the
request's own blocks and is not ahead of what is computed (`Tracked`), and that a step writes only blocks which
no job and no other request has. `DInv` is the conjunction of these with `KVIsRight`, from which it follows that a block
not yet complete belongs to its request alone (`OpenIsSpare`): its content names its key, and a job only
holds whole keys. `ComputeRight` and `MemoryLoaded` say what a pass and a load leave in memory, `FullIff` and
`BlocksForBounds` count blocks, `LongestPrefix` shows that the two lookups exist. `DecodeCatchesUp` adds that no
block counts as saved before it is complete (`SInv`). All of it holds for both classes (`DecodeCatchesUp` is
about the one that saves while decoding): a job nobody queues is never put, and what it pins shows in
`StoreConnectorFinishes` and `EveryRequestFinishes`, which stay with TLC.

Left to TLC: liveness (`EveryRequestEnds`, `NewWorkersArePolled`, `FleetSettles`, `Returns`, `SweepEnds`,
`StoreConnectorFinishes`), which the prover does not do under fairness, and the absence of deadlock, which is
about what is enabled. Every safety property that a passing run checks is also proved.

## 5. Not modelled

Prompt parsing and formatting, logging, HTTP and Ray transport, plugin registration, command
lines. That the poller counts a round of failed scrapes as fresh (`poller.py:89`) is in the model
but no run asks about it, nor about a request that waits because its stats were empty
(`kv_saturation.py:119`). A cancelled rollout (verl does not cancel one in the interface used).
That a generation which falls back to verl's balancer is counted outside the lock
(`verl_hook.py:264`) is in the model; `OwnDispatchesSeen` says what holds of the others. In the Mooncake
connectors: a block whose hash is not known yet (asynchronous scheduling), speculative decoding, the
name of the lookup socket, a step that schedules several requests (its loop treats them one by
one). Of the engine's stats: the count of preemptions, and several engines that write to one dict.
The one-shot tools (`preflight.py`, `prepare_swe_dataset.py`, `hook_compat_check.py`,
`integration_check.py`) are sequential scripts that keep no state while serving.
Several trajectories that share a quota of pods and the executor's threads. Which thread runs Ray's
done callback (external; the model runs it on the loop). Two
requests in flight with one id. Hash collisions. What the components marked `not_modelled` in
`PROJECT.json` are is said there.

## 6. Plan

In order; the models and the proofs of their safety are done, what remains is named in 8.

1. `KVLedger`, `KVSaturation`: the plugin, its invariants checked and proved.
2. `RayServeRouter`: the router over the plugin, refinement to `KVSaturation`.
3. `PrefixCache`.
4. `Admission_proofs`: done for the plugin, its history and the router.
5. `ProxyServer`, `ProxyServer_proofs`: slime and vime on `InflightStore`, `WorkerRegistry`, the
   scheduling lock and the poller thread.
6. `Fleet`, `Fleet_proofs`: done.
7. `SchedulerProfile`, `SchedulerProfile_proofs`: done.
8. `SweAgentLoop`, `SweAgentLoop_proofs`: done; then several trajectories under
   a quota of pods, where graders wait for one another.
9. `DecodeSave`, `DecodeSave_proofs`: done.
10. `Calibrate`, `Calibrate_proofs`: done.
11. `EngineMetrics`, `EngineMetrics_proofs`: done.

Each gets one passing run of a few entities, and a violation run only where a document says
otherwise than the code does. Of `EngineMetrics` there is only the latter: what holds of all readers is proved.
