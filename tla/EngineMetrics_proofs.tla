------------------------- MODULE EngineMetrics_proofs -------------------------
(***************************************************************************)
(* What the five readers make of any load and any page.                    *)
(***************************************************************************)
EXTENDS EngineMetrics, TLAPS

\* A page as an engine renders it: without samples it stands for an idle engine.
Rendered(page) ==
    /\ page \in Page
    /\ page.form = "bare" => page.load = Zeros
    /\ reader = "rayserve" => page.form = "alone"

\* What is under way is such a page, and the stats are one that was read, or zeros.
MetricsInv ==
    /\ reader \in Readers
    /\ DOMAIN stats = Replicas /\ DOMAIN outcome = Replicas
    /\ DOMAIN seen = Replicas /\ DOMAIN reply = Replicas
    /\ \A p \in Replicas : reply[p] # NoReply => Rendered(reply[p])
    /\ \A p \in Replicas : outcome[p] = "ok" => Rendered(seen[p]) /\ stats[p] = Read(seen[p])
    /\ \A p \in Replicas : outcome[p] # "ok" => stats[p] = Zeros

LEMMA GreatestOfTwo == ASSUME NEW n \in Nat PROVE Max({0, n}) = n /\ Max({n}) = n /\ Max({0}) = 0
BY DEF Max

\* The samples of a gauge: their largest is the load's value.
LEMMA SamplesAre ==
    ASSUME EngineMetricsAssumption, NEW page, Rendered(page), NEW g \in Gauges
    PROVE  /\ page.load \in [Gauges -> Nat] /\ page.load[g] \in Nat
           /\ page.form = "alone" => Samples(page, g) = <<page.load[g]>>
           /\ page.form = "beside" => Samples(page, g) = <<0, page.load[g]>>
           /\ page.form = "bare" => Samples(page, g) = << >> /\ page.load[g] = 0
           /\ page.form \in {"alone", "beside", "bare"}
BY DEF EngineMetricsAssumption, Rendered, Page, Samples, Zeros

LEMMA ParsedIsLoad ==
    ASSUME EngineMetricsAssumption, NEW page, Rendered(page)
    PROVE  Parsed(page) = page.load
<1>1. ASSUME NEW g \in Gauges
      PROVE  (IF Samples(page, g) = << >> THEN 0 ELSE Max(ToSet(Samples(page, g)))) = page.load[g]
  <2>1. CASE page.form = "alone"
    <3>1. ToSet(Samples(page, g)) = {page.load[g]} /\ Samples(page, g) # << >>
      BY <2>1, SamplesAre DEF ToSet
    <3> QED BY <3>1, SamplesAre, GreatestOfTwo
  <2>2. CASE page.form = "beside"
    <3> DEFINE n == page.load[g]
    <3>1. Samples(page, g) = <<0, n>> /\ n \in Nat
      BY <2>2, SamplesAre
    <3> HIDE DEF n
    <3>2. ToSet(<<0, n>>) = {0, n} /\ <<0, n>> # << >>
      BY DEF ToSet
    <3>3. Max(ToSet(Samples(page, g))) = n
      BY <3>1, <3>2, GreatestOfTwo
    <3> QED BY <3>1, <3>2, <3>3 DEF n
  <2>3. CASE page.form = "bare"
    BY <2>3, SamplesAre
  <2> QED BY <2>1, <2>2, <2>3, SamplesAre
<1>2. page.load \in [Gauges -> Nat]
  BY SamplesAre DEF Gauges
<1> QED BY <1>1, <1>2 DEF Parsed

\* A page that is plainly written is read by the regular expressions as it is meant.
LEMMA MatchedIsLoad ==
    ASSUME EngineMetricsAssumption, NEW page, Rendered(page), PlainlyWritten(page)
    PROVE  VllmMatched(page) = page.load /\ SglangMatched(page) = page.load
<1>1. ASSUME NEW g \in Gauges PROVE First(Samples(page, g)) = page.load[g]
  <2>1. CASE page.form = "alone"
    <3> DEFINE n == page.load[g]
    <3>1. Samples(page, g) = <<n>>
      BY <2>1, SamplesAre
    <3> HIDE DEF n
    <3>2. First(<<n>>) = n
      BY DEF First
    <3> QED BY <3>1, <3>2 DEF n
  <2>2. CASE page.form = "bare"
    BY <2>2, SamplesAre DEF First
  <2> QED BY <2>1, <2>2, SamplesAre DEF PlainlyWritten
<1>2. page.load.kv \in Nat /\ Matched(page.load.kv) = page.load.kv
  BY SamplesAre DEF PlainlyWritten, Matched, Gauges
<1>3. Max({Matched(kv) : kv \in ToSet(Samples(page, "kv"))} \cup {0}) = page.load.kv
  <2>1. CASE page.form = "alone"
    <3>1. ToSet(Samples(page, "kv")) = {page.load.kv}
      BY <2>1, SamplesAre DEF ToSet, Gauges
    <3>2. {Matched(kv) : kv \in ToSet(Samples(page, "kv"))} \cup {0} = {0, page.load.kv}
      BY <1>2, <3>1
    <3> QED BY <1>2, <3>2, GreatestOfTwo
  <2>2. CASE page.form = "bare"
    <3>1. ToSet(Samples(page, "kv")) = {} /\ page.load.kv = 0
      BY <2>2, SamplesAre DEF ToSet, Gauges
    <3>2. {Matched(kv) : kv \in ToSet(Samples(page, "kv"))} \cup {0} = {0}
      BY <3>1
    <3> QED BY <3>1, <3>2, GreatestOfTwo
  <2> QED BY <2>1, <2>2, SamplesAre DEF PlainlyWritten, Gauges
<1>4. page.load \in [Gauges -> Nat]
  BY SamplesAre DEF Gauges
<1>5. page.load = [waiting |-> page.load.waiting, running |-> page.load.running, kv |-> page.load.kv]
  BY <1>4 DEF Gauges
<1>6. /\ First(Samples(page, "waiting")) = page.load.waiting
      /\ First(Samples(page, "running")) = page.load.running
      /\ First(Samples(page, "kv")) = page.load.kv
  BY <1>1 DEF Gauges
<1> QED BY <1>2, <1>3, <1>5, <1>6 DEF VllmMatched, SglangMatched

\* Every reader reads the load of the page.
LEMMA ReadIsLoad ==
    ASSUME EngineMetricsAssumption, reader \in Readers, NEW page, Rendered(page),
           reader \in Verl => PlainlyWritten(page)
    PROVE  Read(page) = page.load
BY ParsedIsLoad, MatchedIsLoad DEF EngineMetricsAssumption, Read, Recorded, Verl, AllReaders

----------------------------------------------------------------------------
LEMMA MetricsStart == Init => MetricsInv
BY DEF Init, MetricsInv

\* Whoever reads, the reader stays.
LEMMA MetricsStep == MetricsInv /\ [Next]_vars => MetricsInv'
<1> SUFFICES ASSUME MetricsInv, [Next]_vars PROVE MetricsInv'
  OBVIOUS
<1>0. reader' = reader
  BY DEF Next, vars, Work, Reply, Answered, Failed, CallFailed
<1>1. \A page : Rendered(page)' <=> Rendered(page)
  BY <1>0 DEF Rendered
<1>2. \A page : Read(page)' = Read(page)
  BY <1>0 DEF Read
<1>3. ASSUME NEW p \in Replicas, Work(p) PROVE MetricsInv'
  BY <1>0, <1>1, <1>2, <1>3 DEF Work, MetricsInv
<1>4. ASSUME NEW p \in Replicas, Reply(p) PROVE MetricsInv'
  <2>1. PICK page \in Page : Rendered(page) /\ reply' = [reply EXCEPT ![p] = page]
    BY <1>4 DEF Reply, Rendered, MetricsInv
  <2>2. \A q \in Replicas : reply'[q] # NoReply => Rendered(reply'[q])
    BY <2>1 DEF MetricsInv
  <2> QED BY <1>0, <1>1, <1>2, <1>4, <2>1, <2>2 DEF Reply, MetricsInv
<1>5. ASSUME NEW p \in Replicas, Answered(p) PROVE MetricsInv'
  <2>1. Rendered(reply[p])
    BY <1>5 DEF Answered, MetricsInv
  <2>2. /\ stats' = [stats EXCEPT ![p] = Read(reply[p])] /\ outcome' = [outcome EXCEPT ![p] = "ok"]
        /\ seen' = [seen EXCEPT ![p] = reply[p]] /\ reply' = [reply EXCEPT ![p] = NoReply]
        /\ load' = load
    BY <1>5 DEF Answered
  <2>3. \A q \in Replicas : reply'[q] # NoReply => Rendered(reply'[q])
    BY <2>2 DEF MetricsInv
  <2>4. \A q \in Replicas : q # p => stats'[q] = stats[q] /\ outcome'[q] = outcome[q] /\ seen'[q] = seen[q]
    BY <2>2 DEF MetricsInv
  <2>5. stats'[p] = Read(reply[p]) /\ outcome'[p] = "ok" /\ seen'[p] = reply[p]
    BY <2>2 DEF MetricsInv
  <2>6. \A q \in Replicas : outcome'[q] = "ok" => Rendered(seen'[q]) /\ stats'[q] = Read(seen'[q])
    BY <2>1, <2>4, <2>5 DEF MetricsInv
  <2>7. \A q \in Replicas : outcome'[q] # "ok" => stats'[q] = Zeros
    BY <2>4, <2>5 DEF MetricsInv
  <2> QED BY <1>0, <1>1, <1>2, <2>2, <2>3, <2>6, <2>7 DEF MetricsInv
<1>6. ASSUME NEW p \in Replicas, Failed(p) PROVE MetricsInv'
  <2>1. /\ stats' = [stats EXCEPT ![p] = Zeros] /\ outcome' = [outcome EXCEPT ![p] = "error"]
        /\ seen' = [seen EXCEPT ![p] = NoReply] /\ reply' = [reply EXCEPT ![p] = NoReply]
        /\ load' = load
    BY <1>6 DEF Failed
  <2>2. \A q \in Replicas : reply'[q] # NoReply => Rendered(reply'[q])
    BY <2>1 DEF MetricsInv
  <2>3. \A q \in Replicas : q # p => stats'[q] = stats[q] /\ outcome'[q] = outcome[q] /\ seen'[q] = seen[q]
    BY <2>1 DEF MetricsInv
  <2>4. stats'[p] = Zeros /\ outcome'[p] = "error"
    BY <2>1 DEF MetricsInv
  <2>5. \A q \in Replicas : outcome'[q] = "ok" => Rendered(seen'[q]) /\ stats'[q] = Read(seen'[q])
    BY <2>3, <2>4 DEF MetricsInv
  <2>6. \A q \in Replicas : outcome'[q] # "ok" => stats'[q] = Zeros
    BY <2>3, <2>4 DEF MetricsInv
  <2> QED BY <1>0, <1>1, <1>2, <2>1, <2>2, <2>5, <2>6 DEF MetricsInv
<1>7. ASSUME NEW p \in Replicas, CallFailed(p) PROVE MetricsInv'
  BY <1>0, <1>1, <1>2, <1>7 DEF CallFailed, MetricsInv
<1>8. CASE UNCHANGED vars
  BY <1>1, <1>2, <1>8 DEF vars, MetricsInv
<1> QED BY <1>3, <1>4, <1>5, <1>6, <1>7, <1>8 DEF Next

LEMMA MetricsAlways == Spec => []MetricsInv
BY MetricsStart, MetricsStep, PTL DEF Spec

\* What filters and scorers look at is one load the engine had (vime/vllm.py, slime/sglang.py,
\* rayserve/vllm_engine.py), for verl's readers if the page is plainly written
\* (verl/vllm.py, verl/sglang.py); after a failed scrape it is zeros.
THEOREM OneLoadIsRead == EngineMetricsAssumption => (Spec => []ReadsOneLoad)
<1> SUFFICES ASSUME EngineMetricsAssumption PROVE Spec => []ReadsOneLoad
  OBVIOUS
<1>1. MetricsInv => ReadsOneLoad
  BY ReadIsLoad DEF MetricsInv, ReadsOneLoad
<1> QED BY <1>1, MetricsAlways, PTL

\* Where no page is read with regular expressions, the saturation filter drops only engines
\* whose own load was at a threshold (filters/saturation.py, _saturation_reason).
THEOREM OnlySaturatedDropped ==
    EngineMetricsAssumption /\ Readers \cap Verl = {} => (Spec => []DroppedIsSaturated)
<1> SUFFICES ASSUME EngineMetricsAssumption, Readers \cap Verl = {}
             PROVE  Spec => []DroppedIsSaturated
  OBVIOUS
<1>1. MetricsInv => DroppedIsSaturated
  <2> SUFFICES ASSUME MetricsInv, NEW p \in Dropped PROVE Saturated(seen[p].load)
    BY DEF DroppedIsSaturated
  <2>1. p \in Replicas /\ Saturated(stats[p])
    BY DEF Dropped, Eligible
  <2>2. ~Saturated(Zeros)
    BY DEF EngineMetricsAssumption, Saturated, Zeros, Gauges
  <2>3. outcome[p] = "ok" /\ Rendered(seen[p]) /\ stats[p] = Read(seen[p])
    BY <2>1, <2>2 DEF MetricsInv
  <2>4. reader \in Readers /\ reader \notin Verl
    BY DEF MetricsInv
  <2>5. stats[p] = seen[p].load
    BY <2>3, <2>4, ReadIsLoad
  <2> QED BY <2>1, <2>5
<1> QED BY <1>1, MetricsAlways, PTL
=============================================================================
