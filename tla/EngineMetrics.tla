---------------------------- MODULE EngineMetrics ----------------------------
(***************************************************************************)
(* How the load of an engine becomes the routing_stats that filters and    *)
(* scorers look at, and what the saturation filter makes of it.  There are *)
(* five readers:                                                           *)
(*                                                                         *)
(*   slime, vime   the engine's /metrics page, parsed with                 *)
(*                 prometheus_client                                       *)
(*   verl_vllm, verl_sglang                                                *)
(*                 the same pages, read with regular expressions by the    *)
(*                 server actor, which the fleet calls                     *)
(*   rayserve      a logger inside the engine that writes the load into a  *)
(*                 dict, which the router asks for                         *)
(*                                                                         *)
(* Between the moment a reply is rendered and the moment it is read the    *)
(* engine goes on working.  A number counts as written by the engine's     *)
(* prometheus_client: a float in its shortest form, so one below 0.0001    *)
(* has an exponent.                                                        *)
(***************************************************************************)
EXTENDS Integers, FiniteSetsExt, SequencesExt

CONSTANTS
    Replicas,
    Loads,              \* loads an engine can have: waiting, running, kv
    Readers,            \* the readers to look at
    KvThreshold, WaitingThreshold,  \* of SaturationFilter
    NoReply

Unit == 100000          \* kv is given in units of 1/Unit
Gauges == {"waiting", "running", "kv"}
AllReaders == {"slime", "vime", "verl_vllm", "verl_sglang", "rayserve"}
Verl == {"verl_vllm", "verl_sglang"}

\* empty_sglang_stats, empty_vllm_stats, and what a missing entry is taken for.
Zeros == [g \in Gauges |-> 0]

\* What the constants are taken to be.
EngineMetricsAssumption ==
    /\ Readers \subseteq AllReaders
    /\ Loads \subseteq [Gauges -> Nat] /\ Zeros \in Loads
    /\ \A load \in Loads : load.kv \in 0..Unit
    /\ KvThreshold \in 1..Unit /\ WaitingThreshold \in Nat \ {0}

VARIABLES
    reader,     \* never changed
    load,       \* of each engine now
    reply,      \* the reply under way: the load it was rendered from, and how
    stats,      \* attributes["routing_stats"]
    outcome,    \* of the scrape that stats stem from
    seen        \* history: the reply that stats stem from
vars == <<reader, load, reply, stats, outcome, seen>>

\* alone: one sample to a gauge.  beside: processes of the engine that do no work have
\* samples too, before the one that counts.  bare: no samples, of an engine that has done
\* nothing yet.  Several processes that work, each with samples of its own, are left out.
Page == [load : Loads, form : {"alone", "beside", "bare"}]

----------------------------------------------------------------------------
(* Reading a page.                                                         *)

Samples(page, g) ==
    CASE page.form = "alone" -> <<page.load[g]>>
      [] page.form = "beside" -> <<0, page.load[g]>>
      [] page.form = "bare" -> << >>

\* parse_sglang and parse_vllm: the largest sample.
Parsed(page) ==
    [g \in Gauges |-> IF Samples(page, g) = << >> THEN 0 ELSE Max(ToSet(Samples(page, g)))]

\* 0.00003 is written 3e-05, of which ([\d.]+) matches the 3.
HasExponent(kv) == 0 < kv /\ 10000 * kv < Unit
Matched(kv) == IF HasExponent(kv) THEN kv * Unit ELSE kv

First(samples) == IF samples = << >> THEN 0 ELSE Head(samples)

\* get_vllm_routing_stats: the first match of two gauges, the largest of the third.
VllmMatched(page) ==
    [waiting |-> First(Samples(page, "waiting")),
     running |-> First(Samples(page, "running")),
     kv |-> Max({Matched(kv) : kv \in ToSet(Samples(page, "kv"))} \cup {0})]

\* get_sglang_routing_stats: the first match of each.
SglangMatched(page) ==
    [waiting |-> First(Samples(page, "waiting")),
     running |-> First(Samples(page, "running")),
     kv |-> Matched(First(Samples(page, "kv")))]

\* The logger's dict is passed on as it is.
Recorded(page) == page.load

Read(page) ==
    CASE reader \in {"slime", "vime"} -> Parsed(page)
      [] reader = "verl_vllm" -> VllmMatched(page)
      [] reader = "verl_sglang" -> SglangMatched(page)
      [] reader = "rayserve" -> Recorded(page)

----------------------------------------------------------------------------
Init ==
    /\ reader \in Readers
    /\ load = [p \in Replicas |-> Zeros]
    /\ reply = [p \in Replicas |-> NoReply]
    /\ stats = [p \in Replicas |-> Zeros]
    /\ outcome = [p \in Replicas |-> "none"]
    /\ seen = [p \in Replicas |-> NoReply]

\* The engine takes a step; for rayserve, the logger records it.
Work(p) ==
    /\ \E l \in Loads : load' = [load EXCEPT ![p] = l]
    /\ UNCHANGED <<reader, reply, stats, outcome, seen>>

\* The engine renders its page, or the actor answers with the dict.
Reply(p) ==
    /\ reply[p] = NoReply
    /\ \E page \in Page :
          /\ page.load = load[p]
          /\ page.form = "bare" => page.load = Zeros
          /\ reader = "rayserve" => page.form = "alone"
          /\ reply' = [reply EXCEPT ![p] = page]
    /\ UNCHANGED <<reader, load, stats, outcome, seen>>

\* The reply arrives with status 200 and is read.
Answered(p) ==
    /\ reply[p] # NoReply
    /\ stats' = [stats EXCEPT ![p] = Read(reply[p])]
    /\ outcome' = [outcome EXCEPT ![p] = "ok"]
    /\ seen' = [seen EXCEPT ![p] = reply[p]]
    /\ reply' = [reply EXCEPT ![p] = NoReply]
    /\ UNCHANGED <<reader, load>>

\* Another status, a timeout or a connection that fails; for rayserve, a call that
\* raises, whose result becomes {}.  The stats read as zeros.
Failed(p) ==
    /\ stats' = [stats EXCEPT ![p] = Zeros]
    /\ outcome' = [outcome EXCEPT ![p] = "error"]
    /\ seen' = [seen EXCEPT ![p] = NoReply]
    /\ reply' = [reply EXCEPT ![p] = NoReply]
    /\ UNCHANGED <<reader, load>>

\* verl: the call to the server actor raises, and the stats stay as they are.
CallFailed(p) ==
    /\ reader \in Verl
    /\ reply' = [reply EXCEPT ![p] = NoReply]
    /\ UNCHANGED <<reader, load, stats, outcome, seen>>

Next == \E p \in Replicas : Work(p) \/ Reply(p) \/ Answered(p) \/ Failed(p) \/ CallFailed(p)

Spec == Init /\ [][Next]_vars

----------------------------------------------------------------------------
(* SaturationFilter on what was read, and on what there was to be read.    *)

Saturated(l) == l.kv >= KvThreshold \/ l.waiting >= WaitingThreshold

Eligible == {p \in Replicas : ~Saturated(stats[p])}
Dropped == IF Eligible = {} THEN {} ELSE Replicas \ Eligible

----------------------------------------------------------------------------
\* A page that verl's regular expressions read as it is meant.
PlainlyWritten(page) == page.form # "beside" /\ ~HasExponent(page.load.kv)

\* What is routed on is the load of the engine at one moment, whatever the engine did
\* while the reply was under way and however many of its processes have samples; or, after
\* a scrape that failed, all zeros and never a part of a load.  verl's readers need a page
\* that is plainly written (parse_sglang, parse_vllm, DirectKVCacheLogger.record).
ReadsOneLoad ==
    \A p \in Replicas :
        IF outcome[p] = "ok"
        THEN (reader \in Verl => PlainlyWritten(seen[p])) => stats[p] = seen[p].load
        ELSE stats[p] = Zeros

\* "Drops replicas whose KV cache utilization or waiting request count is at or above its
\* threshold" (scheduler_customization.md): and no others.
DroppedIsSaturated == \A p \in Dropped : Saturated(seen[p].load)
=============================================================================
