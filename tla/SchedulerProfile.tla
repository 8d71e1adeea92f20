--------------------------- MODULE SchedulerProfile ---------------------------
(***************************************************************************)
(* Scheduler.schedule as the tunix decision service runs it: candidates    *)
(* with their attributes come with the request, the main profile filters,  *)
(* scores and picks, and its prefix index learns the choice.  The service  *)
(* holds its lock and awaits nothing meanwhile, so a request is one action.*)
(* Every profile runs; the second one here is only what the handler falls  *)
(* back to when the main one has raised.                                   *)
(***************************************************************************)
EXTENDS PrefixCache

CONSTANTS
    Attributes,        \* what may be reported of a candidate: state, kv, waiting, null
    AllowedStates,     \* of WorkerStateFilter
    KvThreshold, WaitingThreshold,                \* of SaturationFilter
    StickyWeight, PrefixWeight, WaitingWeight,    \* of the main profile's scorers
    MaxNum,            \* max_num of RandomPicker; 1 is MaxScorePicker
    Scale              \* scores are multiples of 1/Scale

\* null: routing_stats is there but is no dict, and reads as zeros where that is looked at.
ASSUME SchedulerProfileAssumption ==
    /\ \A a \in Attributes :
         /\ {"state", "kv", "waiting", "null"} = DOMAIN a
         /\ a.kv \in Nat /\ a.waiting \in Nat /\ a.null \in BOOLEAN
         /\ a.null => a.kv = 0 /\ a.waiting = 0
    /\ {StickyWeight, PrefixWeight, WaitingWeight} \subseteq Nat
    /\ {KvThreshold, WaitingThreshold, MaxNum, Scale} \subseteq Nat \ {0}
    /\ \A width \in 1..MaxPrefixBlocks : Scale % width = 0
    /\ \A a, b \in Attributes : a.waiting > b.waiting => Scale % (a.waiting - b.waiting) = 0

\* The candidates of a request with their attributes.
Candidates == UNION {[pods -> Attributes] : pods \in (SUBSET Servers) \ {{}}}

\* A session id, given by the order in which its hash ranks the servers; or no header.  The
\* verl hook passes the header; tunix passes none, so of these only NoSession comes from it.
NoSession == << >>
SessionIds == SetToSeqs(Servers)
Requests == [prompt : Prompts, session : SessionIds \cup {NoSession}]

----------------------------------------------------------------------------
(* Filters *)

\* Both filters are disabled for a decision that they would leave without a candidate.
KeepSome(kept, pods) == IF kept = {} THEN pods ELSE kept

WorkerStateFilter(cands, pods) ==
    KeepSome({s \in pods : cands[s].state \in AllowedStates}, pods)

Saturated(a) == a.kv >= KvThreshold \/ a.waiting >= WaitingThreshold

SaturationFilter(cands, pods) == KeepSome({s \in pods : ~Saturated(cands[s])}, pods)

\* Mutant of Filtered: the filters in the other order.
FilteredSwapped(cands) == WorkerStateFilter(cands, SaturationFilter(cands, DOMAIN cands))

Filtered(cands) == SaturationFilter(cands, WorkerStateFilter(cands, DOMAIN cands))

----------------------------------------------------------------------------
(* Scorers.  What a scorer returns is given up to a positive factor, which *)
(* the profile's normalisation cancels.                                    *)

\* Rendezvous hashing: of the candidates the one whose hash with the session ranks first.
Selected(session, pods) == session[Min({i \in DOMAIN session : session[i] \in pods})]

StickyScore(session, pods) ==
    [s \in pods |-> IF session # NoSession /\ s = Selected(session, pods) THEN 1 ELSE 0]

\* Mutant of WaitingScore: more is better.
WaitingScoreRising(cands, pods) == [s \in pods |-> cands[s].waiting]

\* score_by_metric, lower is better.
WaitingScore(cands, pods) ==
    [s \in pods |-> Max({cands[p].waiting : p \in pods}) - cands[s].waiting]

\* Mutant of Normalized: raw scores are weighted.
NotNormalized(score) == [s \in DOMAIN score |-> score[s] * Scale]

\* Scores stretched to 0..Scale; equal scores all count in full.
Normalized(score) ==
    LET low == Min(Range(score))
        high == Max(Range(score))
    IN  [s \in DOMAIN score |->
            IF high = low THEN Scale ELSE ((score[s] - low) * Scale) \div (high - low)]

Total(request, cands, pods) ==
    LET sticky == Normalized(StickyScore(request.session, pods))
        prefix == Normalized(Score(PromptHashes(request.prompt), pods))
        waiting == Normalized(WaitingScore(cands, pods))
    IN  [s \in pods |->
            StickyWeight * sticky[s] + PrefixWeight * prefix[s] + WaitingWeight * waiting[s]]

\* RandomPicker: any of the first MaxNum of a stable sort, for MaxScorePicker the first;
\* the candidates may come in any order, so any of several equals may be among them.
Pick(total, pods) ==
    {s \in pods : Cardinality({p \in pods : total[p] > total[s]}) < MaxNum}

\* The end of SchedulerProfile.run: the picker gets what is left with its total.
Picks(request, cands) ==
    LET pods == Filtered(cands) IN Pick(Total(request, cands, pods), pods)

\* waiting_queue reads a field of something that is no dict.
Raises(cands) == \E s \in Filtered(cands) : cands[s].null

----------------------------------------------------------------------------
(* Scheduling *)

\* Mutant of CycleHashes: the hashes of another prefix scorer, of blocks of twice the size
\* (they are hashes of their own, here marked by a zero).
CycleHashesOfOther(prompt) ==
    [i \in 1..(Len(prompt) \div 2) |-> <<0>> \o SubSeq(prompt, 1, i * 2)]

\* The hashes that the prefix scorer which ran last has left in cycle_state, which all
\* profiles share.  The configuration here has one prefix scorer, whose hashes these are; a
\* second one with another block size, which would overwrite them, is left out.
CycleHashes(prompt) == PromptHashes(prompt)

\* pre_request of the main profile's prefix scorer.
PreRequest(prompt, s) == Add(CycleHashes(prompt), s)

\* process_results: the first profile that has picked something.
Primary(cands) == IF Raises(cands) THEN "other" ELSE "main"

\* Only the primary's scorers learn what was picked.
Schedule(request, cands) ==
    \/ Primary(cands) = "main" /\ \E s \in Picks(request, cands) : PreRequest(request.prompt, s)
    \/ Primary(cands) = "other" /\ UNCHANGED vars

Next ==
    \/ \E request \in Requests, cands \in Candidates : Schedule(request, cands)
    \/ \E s \in Servers : RemoveServer(s)
    \/ Reset

Spec == Init /\ [][Next]_vars

----------------------------------------------------------------------------
\* Two filters that each give way when nothing is left must not undo one another: a worker
\* that may serve is picked whenever there is one, and of those one with room.
PicksRoutable ==
    \A request \in Requests, cands \in Candidates :
        LET allowed == {s \in DOMAIN cands : cands[s].state \in AllowedStates}
            roomy == {s \in allowed : ~Saturated(cands[s])}
        IN  /\ allowed # {} => Picks(request, cands) \subseteq allowed
            /\ roomy # {} => Picks(request, cands) \subseteq roomy

\* "A session keeps its replica while that replica stays a candidate": a weight above the
\* others' sum wins against any match and any queue, in every state of the index.
SessionKept ==
    StickyWeight > PrefixWeight + WaitingWeight /\ MaxNum = 1 =>
        \A request \in Requests, cands \in Candidates :
            request.session # NoSession =>
                Picks(request, cands) = {Selected(request.session, Filtered(cands))}

\* Without a session, a replica is never picked over one that holds as much of a known
\* prompt and has no more requests waiting, and is better in one of the two, whatever the
\* weights.  (Of a novel prompt the least loaded index decides as well.)
PicksUndominated ==
    MaxNum = 1 /\ RatioNum = 0 /\ PrefixWeight > 0 /\ WaitingWeight > 0 =>
        \A request \in {r \in Requests : r.session = NoSession}, cands \in Candidates :
            LET held(s) == Matches(PromptHashes(request.prompt), s) IN
            ~ \E s \in Picks(request, cands), p \in Filtered(cands) :
                /\ held(p) > 0 /\ held(p) >= held(s)
                /\ cands[p].waiting <= cands[s].waiting
                /\ held(p) > held(s) \/ cands[p].waiting < cands[s].waiting

\* The prefix scorer is to score "how much of the request's prompt matches the prefix cache
\* already loaded on the replica": what a server did not hold of a prompt it holds once the
\* prompt is routed to it, though entering it evicts.  (Of what the server held already
\* some may go: eviction is first in, first out, although the capacity is called LRU.)
RoutedIsHeld ==
    [][\A s \in {p \in Servers : serverToHashes'[p] # serverToHashes[p]}, prompt \in Prompts :
          Capacity >= MaxPrefixBlocks /\ PreRequest(prompt, s) =>
              ToSet(PromptHashes(prompt)) \ Held(s) \subseteq Held(s)']_vars
=============================================================================
