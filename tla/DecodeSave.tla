----------------------------- MODULE DecodeSave -----------------------------
(***************************************************************************)
(* The Mooncake store connectors: which KV blocks of a request are saved   *)
(* to the shared store, step by step, while the request is prefilled,      *)
(* decoded, preempted and resumed, and when the blocks a save reads are    *)
(* given back.                                                             *)
(*                                                                         *)
(* Ours are should_save_decode_request, get_num_new_matched_tokens and the *)
(* decode part of build_connector_meta (DecodeKVSavingConnector in         *)
(* decode_save.py, the class kv.py configures), and the queueing of store  *)
(* jobs on steps without a forward pass (MooncakeStoreConnector in         *)
(* store_connector.py).  Both classes extend vLLM's MooncakeStoreConnector *)
(* and neither extends the other: an engine has the one or the other.      *)
(* vLLM's scheduler, its prefix cache, the stock connector's trackers and  *)
(* the thread that does the puts are external: they are modelled from what *)
(* the code overrides, reads and says of them.                             *)
(*                                                                         *)
(* Tokens are counted, not named: the i-th block of request r is the key   *)
(* <<r, i>> (its hash), and a block's content is the key it was computed   *)
(* for with the number of tokens computed.  A step of the engine schedules *)
(* one request: the loop of build_connector_meta treats its requests       *)
(* independently.                                                          *)
(***************************************************************************)
EXTENDS Integers, FiniteSets, SequencesExt

CONSTANTS
    Requests,
    Blocks,             \* block ids of the engine's KV cache
    BlockSize,
    PromptLen,          \* tokens of each request's prompt
    FinalLen,           \* tokens at which each request stops
    Budget,             \* most tokens a step computes
    Allocated(_, _),    \* the blocks the engine gives: how many, out of which
    Nobody,             \* no tracker, no content
    Connectors          \* the connector classes an engine may be started with

Injective(s) == \A i, j \in DOMAIN s : s[i] = s[j] => i = j

ASSUME DecodeSaveAssumption ==
    /\ IsFiniteSet(Requests)
    /\ IsFiniteSet(Blocks)
    /\ BlockSize \in Nat \ {0}
    /\ PromptLen \in [Requests -> Nat \ {0}]
    /\ FinalLen \in [Requests -> Nat]
    /\ \A r \in Requests : PromptLen[r] < FinalLen[r]
    /\ Budget \in Nat \ {0}
    /\ Connectors \subseteq {"DecodeKVSavingConnector", "MooncakeStoreConnector"}
    /\ \A from \in SUBSET Blocks : \A k \in 0..Cardinality(from) :
          /\ Allocated(k, from) \in [1..k -> from]
          /\ Injective(Allocated(k, from))
    /\ Nobody \notin [token_len : Nat, blocks : Seq(Blocks), saved : Nat, prefill_end : Nat]
    /\ Nobody \notin [key : Requests \X (Nat \ {0}), filled : Nat]

VARIABLES
    \* the engine (external)
    status,         \* "waiting", "running", "preempted" or "done"
    running,        \* the running requests, the last admitted at the end
    waiting,        \* the others, a preempted one at the head
    tokens,         \* num_tokens: prompt and sampled tokens of a request
    computed,       \* num_computed_tokens
    table,          \* the block ids the request was given, in order
    holds,          \* what a block's memory holds
    \* the connector
    connector,      \* its class, which an engine keeps
    tracker,        \* sched._request_trackers
    owed,           \* store jobs waiting for the next step's metadata
    queue,          \* store jobs the worker has queued
    dropped,        \* store jobs of metadata from which nobody queued them
    store           \* the puts that were done, one per key

engineVars == <<status, running, waiting, tokens, computed, table>>
vars == <<status, running, waiting, tokens, computed, table, holds, connector, tracker,
          owed, queue, dropped, store>>

----------------------------------------------------------------------------
(* Blocks and the engine's own prefix cache (external).                    *)

Keys == Requests \X (Nat \ {0})
Content == [key : Keys, filled : 1..BlockSize]
Memory == [Blocks -> Content \cup {Nobody}]

FullBlocks(n) == n \div BlockSize
BlocksFor(n) == (n + BlockSize - 1) \div BlockSize
Smaller(m, n) == IF m < n THEN m ELSE n

Whole(key) == [key |-> key, filled |-> BlockSize]

\* What the i-th block of r holds once n tokens are computed.
ComputedContent(r, i, n) ==
    [key |-> <<r, i>>, filled |-> Smaller(BlockSize, n - (i - 1) * BlockSize)]

\* The memory after a step that computed tokens old + 1 .. new of r in bs.
Compute(r, bs, old, new, h) ==
    [b \in Blocks |->
        IF \E i \in DOMAIN bs : bs[i] = b /\ FullBlocks(old) < i
        THEN ComputedContent(r, CHOOSE i \in DOMAIN bs : bs[i] = b, new)
        ELSE h[b]]

InTable == {b \in Blocks : \E r \in Requests : \E i \in DOMAIN table[r] : table[r][i] = b}
Jobs == owed \cup queue \cup dropped
Pinned == {b \in Blocks : \E j \in Jobs : \E i \in DOMAIN j.blocks : j.blocks[i] = b}
Free == Blocks \ (InTable \cup Pinned)

----------------------------------------------------------------------------
(* The stock connector's tracker and store jobs (external).                *)

Tracker == [token_len : Nat, blocks : Seq(Blocks), saved : Nat, prefill_end : Nat]
Job == [req : Requests, upto : Nat, blocks : Seq(Blocks)]

\* ReqMeta.from_request_tracker: a job once another full block is complete.
Savable(t) == FullBlocks(t.token_len) > t.saved

StoreJob(r, t) == [req |-> r, upto |-> FullBlocks(t.token_len),
                   blocks |-> SubSeq(t.blocks, 1, FullBlocks(t.token_len))]

\* saved advances when the put is issued, not done.
Issued(t) == IF Savable(t) THEN [t EXCEPT !.saved = FullBlocks(t.token_len)] ELSE t
IssuedJobs(r, t) == IF Savable(t) THEN {StoreJob(r, t)} ELSE {}

\* The tracker of a request that is scheduled for the first time or resumed.
StockNew(n, bs, scheduled) ==
    [token_len |-> scheduled, blocks |-> bs, saved |-> 0, prefill_end |-> n]

\* Its part of build_connector_meta for a request that goes on: token_len
\* moves with block-allocating steps only, and decode steps are not saved.
StockCached(t, n, scheduled, fresh) ==
    IF fresh = << >> THEN t
    ELSE LET advanced == [t EXCEPT !.token_len = @ + scheduled]
         IN  IF n >= t.prefill_end THEN advanced
             ELSE [advanced EXCEPT !.blocks = @ \o fresh]

----------------------------------------------------------------------------
(* Ours: what is saved of a step, and what is looked up before it.         *)

\* Mutant of should_save_decode_request: a resumption step saves like any other.
should_save_always(is_resumed, n, prefill_end) == n >= prefill_end

should_save_decode_request(is_resumed, n, prefill_end) ==
    ~is_resumed /\ n >= prefill_end

\* Mutant of DecodeTracker: token_len is left as the stock connector keeps it.
DecodeTrackerLagging(t, n, scheduled, fresh, is_resumed) ==
    IF fresh = << >> \/ ~should_save_decode_request(is_resumed, n, t.prefill_end)
    THEN t
    ELSE [t EXCEPT !.blocks = @ \o fresh]

\* The tracker after the decode part of build_connector_meta, for a step that
\* computes scheduled tokens after the first n and allocated the fresh blocks.
DecodeTracker(t, n, scheduled, fresh, is_resumed) ==
    IF fresh = << >> \/ ~should_save_decode_request(is_resumed, n, t.prefill_end)
    THEN t
    ELSE LET advanced == [t EXCEPT !.token_len = IF @ < n + scheduled THEN n + scheduled ELSE @]
         IN  [advanced EXCEPT !.blocks = @ \o fresh]

\* What the class makes of a cached request's tracker: only ours has the part.
SavesDecode == connector = "DecodeKVSavingConnector"
DecodePart(t, n, scheduled, fresh, is_resumed) ==
    IF SavesDecode THEN DecodeTracker(t, n, scheduled, fresh, is_resumed) ELSE t

InStore(key) == \E s \in store : s.key = key
StoredAs(key) == IF InStore(key) THEN (CHOOSE s \in store : s.key = key).content ELSE Nobody

\* Blocks of r in the store without a gap, and those of its last run that are
\* still in memory; the last token is always left to be computed.
StoredPrefix(r) ==
    CHOOSE k \in 0..FullBlocks(tokens[r]) :
        /\ \A i \in 1..k : InStore(<<r, i>>)
        /\ k < FullBlocks(tokens[r]) => ~InStore(<<r, k + 1>>)

Cached(r, i) == \E b \in Blocks : holds[b] = Whole(<<r, i>>)
LocalHit(r) ==
    CHOOSE k \in 0..FullBlocks(tokens[r] - 1) :
        /\ \A i \in 1..k : Cached(r, i)
        /\ k < FullBlocks(tokens[r] - 1) => ~Cached(r, k + 1)
HitBlocks(r) ==
    LET hit == LocalHit(r)
    IN  [i \in 1..hit |-> CHOOSE b \in Blocks : holds[b] = Whole(<<r, i>>)]

\* The base lookup (external): what the store adds to the local hit.
BaseMatched(r, local) ==
    LET matched == Smaller(StoredPrefix(r) * BlockSize, tokens[r] - 1)
    IN  IF matched > local THEN matched - local ELSE 0

\* Mutant of get_num_new_matched_tokens: what is not local is taken for stored.
get_num_new_matched_all(r, local) ==
    IF local >= FullBlocks(tokens[r]) * BlockSize THEN 0 ELSE tokens[r] - 1 - local

get_num_new_matched_tokens(r, local) ==
    IF local >= FullBlocks(tokens[r]) * BlockSize THEN 0 ELSE BaseMatched(r, local)

Matched(r, local) ==
    IF SavesDecode THEN get_num_new_matched_tokens(r, local) ELSE BaseMatched(r, local)

----------------------------------------------------------------------------
Init ==
    /\ status = [r \in Requests |-> "waiting"]
    /\ running = << >>
    /\ waiting \in {s \in [1..Cardinality(Requests) -> Requests] : Injective(s)}
    /\ tokens = PromptLen
    /\ computed = [r \in Requests |-> 0]
    /\ table = [r \in Requests |-> << >>]
    /\ holds = [b \in Blocks |-> Nobody]
    /\ connector \in Connectors
    /\ tracker = [r \in Requests |-> Nobody]
    /\ owed = {}
    /\ queue = {}
    /\ dropped = {}
    /\ store = {}

\* A forward pass has computed r's tokens up to n, and samples the next one
\* when these were all; the jobs of its metadata are then queued (wait_for_save).
Forward(r, n, jobs) ==
    /\ computed' = [computed EXCEPT ![r] = n]
    /\ tokens' = [tokens EXCEPT ![r] = IF n = @ THEN @ + 1 ELSE @]
    /\ queue' = queue \cup owed \cup jobs
    /\ owed' = {}
    /\ UNCHANGED <<connector, dropped, store>>

\* A request that got its last token leaves before the engine goes on.
Ended(r) == status[r] = "running" /\ tokens[r] = FinalLen[r]
NoneEnded == \A r \in Requests : ~Ended(r)

\* A step computes what is left of the known tokens, as far as it may.
Chunk(r, n) == Smaller(tokens[r] - n, Budget)

\* The blocks a running request still needs for its next step.
Missing(r) == BlocksFor(computed[r] + Chunk(r, computed[r])) - Len(table[r])
Short(r) == status[r] = "running" /\ Missing(r) > 0

FreeFor(r) == LET hit == HitBlocks(r) IN Free \ {hit[i] : i \in DOMAIN hit}
FromCaches(r) ==
    LET local == LocalHit(r) * BlockSize
    IN  local + Matched(r, local)
AdmissionNeeds(r) ==
    LET n == FromCaches(r) IN BlocksFor(n + Chunk(r, n)) - LocalHit(r)

\* Running requests take their blocks first, then the head of the queue.
CanAdmit(r) ==
    /\ NoneEnded
    /\ \A q \in Requests : ~Short(q)
    /\ waiting # << >> /\ r = Head(waiting)
    /\ Cardinality(FreeFor(r)) >= AdmissionNeeds(r)

\* A request is scheduled for the first time, or again after a preemption:
\* blocks found in memory are shared, others are loaded from the store, and
\* the stock connector starts a new tracker and saves; ours looks at a resumed
\* request only, and skips the step.
Admit(r) ==
    LET n == FromCaches(r)
        scheduled == Chunk(r, n)
        loaded(h, bs) == [b \in Blocks |->
            IF \E i \in (LocalHit(r) + 1)..FullBlocks(n) : bs[i] = b
            THEN StoredAs(<<r, CHOOSE i \in DOMAIN bs : bs[i] = b>>) ELSE h[b]]
    IN
    /\ CanAdmit(r)
    /\ \E prefill_end \in {PromptLen[r], tokens[r]} :
       /\ status[r] = "waiting" => prefill_end = PromptLen[r]
       /\ LET bs == HitBlocks(r) \o Allocated(AdmissionNeeds(r), FreeFor(r))
              stock == StockNew(prefill_end, bs, n + scheduled)
              t == IF status[r] = "preempted"
                   THEN DecodePart(Issued(stock), n, scheduled, bs, TRUE)
                   ELSE Issued(stock)
          IN  /\ table' = [table EXCEPT ![r] = bs]
              /\ holds' = Compute(r, bs, n, n + scheduled, loaded(holds, bs))
              /\ tracker' = [tracker EXCEPT ![r] = Issued(t)]
              /\ Forward(r, n + scheduled, IssuedJobs(r, stock) \cup IssuedJobs(r, t))
    /\ status' = [status EXCEPT ![r] = "running"]
    /\ running' = Append(running, r)
    /\ waiting' = Tail(waiting)

\* A running request computes its next tokens: the rest of its prompt, or a
\* part of it, or the one token of a decode step.
Step(r) ==
    LET n == computed[r]
        scheduled == Chunk(r, n)
        fresh == Allocated(Missing(r), Free)
    IN
    /\ NoneEnded
    /\ status[r] = "running"
    /\ Missing(r) <= Cardinality(Free)
    /\ LET bs == table[r] \o fresh
           stock == StockCached(tracker[r], n, scheduled, fresh)
           saves == fresh # << >> /\ n < tracker[r].prefill_end
           u == IF saves THEN Issued(stock) ELSE stock
           t == DecodePart(u, n, scheduled, fresh, FALSE)
       IN  /\ table' = [table EXCEPT ![r] = bs]
           /\ holds' = Compute(r, bs, n, n + scheduled, holds)
           /\ tracker' = [tracker EXCEPT ![r] = IF t = u THEN u ELSE Issued(t)]
           /\ Forward(r, n + scheduled,
                      (IF saves THEN IssuedJobs(r, stock) ELSE {})
                        \cup (IF t = u THEN {} ELSE IssuedJobs(r, t)))
    /\ UNCHANGED <<status, running, waiting>>

\* r leaves its blocks: they keep their content until they are given away.
Leave(r, how) ==
    /\ status' = [status EXCEPT ![r] = how]
    /\ \E i \in DOMAIN running : running[i] = r /\ running' = RemoveAt(running, i)
    /\ computed' = [computed EXCEPT ![r] = 0]
    /\ table' = [table EXCEPT ![r] = << >>]
    /\ tracker' = [tracker EXCEPT ![r] = Nobody]
    /\ UNCHANGED <<tokens, holds, connector, queue, dropped, store>>

\* The last request admitted gives way when a running one finds no block.
Preempt(r) ==
    /\ running # << >> /\ r = running[Len(running)]
    /\ NoneEnded
    /\ \E q \in Requests : Short(q) /\ Missing(q) > Cardinality(Free)
    /\ Leave(r, "preempted")
    /\ waiting' = <<r>> \o waiting
    /\ UNCHANGED owed

\* A request has its last token; what is complete of it and not saved yet is
\* saved by the metadata of the next step, if at all.
Finish(r) ==
    /\ Ended(r)
    /\ Leave(r, "done")
    /\ UNCHANGED waiting
    /\ \/ UNCHANGED owed
       \/ /\ FullBlocks(computed[r]) > tracker[r].saved
          /\ owed' = owed \cup {[req |-> r, upto |-> FullBlocks(computed[r]),
                                 blocks |-> SubSeq(table[r], 1, FullBlocks(computed[r]))]}

\* A step with nothing to compute: vLLM does not call wait_for_save, and only
\* store_connector's start_load_kv calls it for the metadata of such a step.
rls_no_forward_step == running = << >> /\ \A r \in Requests : ~CanAdmit(r)

\* Mutant of IdleStep: rls_no_forward_step is not set, and nobody calls it.
IdleStepUnmarked ==
    /\ owed # {}
    /\ rls_no_forward_step
    /\ owed' = {}
    /\ dropped' = dropped \cup owed
    /\ UNCHANGED <<engineVars, holds, connector, tracker, queue, store>>

IdleStep ==
    /\ owed # {}
    /\ rls_no_forward_step
    /\ owed' = {}
    /\ \/ /\ connector = "MooncakeStoreConnector"
          /\ queue' = queue \cup owed /\ UNCHANGED dropped
       \/ /\ connector = "DecodeKVSavingConnector"
          /\ dropped' = dropped \cup owed /\ UNCHANGED queue
    /\ UNCHANGED <<engineVars, holds, connector, tracker, store>>

\* The worker's thread (external) puts the blocks the store does not have, or
\* fails to, and releases them.
Put(j) ==
    /\ j \in queue
    /\ queue' = queue \ {j}
    /\ \/ UNCHANGED store
       \/ store' = store \cup
              {[key |-> <<j.req, i>>, content |-> holds[j.blocks[i]]] :
                  i \in {k \in 1..j.upto : ~InStore(<<j.req, k>>)}}
    /\ UNCHANGED <<engineVars, holds, connector, tracker, owed, dropped>>

EngineStep ==
    \/ \E r \in Requests : Admit(r) \/ Step(r) \/ Preempt(r) \/ Finish(r)
    \/ IdleStep

Next == EngineStep \/ \E j \in queue : Put(j)

\* The engine's loop goes on while there is something to do and leaves out no
\* running request, and the worker's thread works off its queue.
Fairness ==
    /\ WF_vars(EngineStep)
    /\ WF_vars(\E j \in queue : Put(j))

Spec == Init /\ [][Next]_vars
FairSpec == Spec /\ Fairness

----------------------------------------------------------------------------
(* Properties.                                                             *)

\* Types, and a tracker for the running requests and no others (_request_trackers
\* as build_connector_meta reads it).
TypeOK ==
    /\ status \in [Requests -> {"waiting", "running", "preempted", "done"}]
    /\ running \in Seq(Requests)
    /\ waiting \in Seq(Requests)
    /\ tokens \in [Requests -> Nat]
    /\ computed \in [Requests -> Nat]
    /\ table \in [Requests -> Seq(Blocks)]
    /\ holds \in Memory
    /\ connector \in Connectors
    /\ tracker \in [Requests -> Tracker \cup {Nobody}]
    /\ owed \subseteq Job /\ queue \subseteq Job /\ dropped \subseteq Job
    /\ store \subseteq [key : Keys, content : Content]
    /\ \A r \in Requests : status[r] = "running" <=> tracker[r] # Nobody

\* Whatever is in the store under a block's key is that block, complete: puts
\* read their blocks late, after other steps, preemptions and resumptions, and
\* by the connector's own record of which block is which (build_connector_meta).
StoredIsRight == \A s \in store : s.content = Whole(s.key)

\* What a running request finds in its blocks is its own KV up to where it has
\* computed, also after it was preempted and got part of it back from memory
\* and part from the store (get_num_new_matched_tokens, build_connector_meta).
KVIsRight ==
    \A r \in Requests : status[r] = "running" =>
        \A i \in DOMAIN table[r] :
            holds[table[r][i]] = ComputedContent(r, i, computed[r])

\* A decode step that takes a new block issues the puts of all blocks complete
\* by then, those left behind by steps that took none included
\* (DecodeKVSavingConnector: the stock token_len lags in decode).
DecodeCatchesUp ==
    [][\A r \in Requests :
        (/\ SavesDecode
         /\ status[r] = "running" /\ status'[r] = "running"
         /\ computed[r] >= tracker[r].prefill_end
         /\ Len(table'[r]) > Len(table[r]))
        => tracker'[r].saved = FullBlocks(computed'[r])]_vars

\* Every request gets its last token: no block stays pinned by a store job that
\* nobody runs, as the comment in store_connector.py's start_load_kv wants it.
EveryRequestFinishes == <>(\A r \in Requests : status[r] = "done")

\* With the class that comment is in, it is so, although the jobs of finished
\* requests may be owed when nothing is left to compute.
StoreConnectorFinishes == connector = "MooncakeStoreConnector" => EveryRequestFinishes

============================================================================
