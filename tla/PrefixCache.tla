----------------------------- MODULE PrefixCache -----------------------------
(***************************************************************************)
(* The prefix_cache scorer and its PrefixIndexer.                          *)
(*                                                                         *)
(* Block i of a prompt is hashed together with the digest of block i - 1,  *)
(* so a hash stands for the prompt's first i blocks; the model uses that   *)
(* prefix itself as the hash and so leaves out collisions.                 *)
(***************************************************************************)
EXTENDS Integers, FiniteSets, SequencesExt

CONSTANTS
    Servers,
    Blocks,           \* contents of one block of block_size bytes
    MaxPrefixBlocks,  \* max_prefix_blocks
    MaxPromptBlocks,  \* blocks in the longest prompt, a bound
    Capacity,         \* lru_capacity_per_server
    RatioNum,         \* min_match_ratio = RatioNum / RatioDen
    RatioDen

ASSUME PrefixCacheAssumption ==
    /\ IsFiniteSet(Servers) /\ Servers # {}
    /\ MaxPrefixBlocks \in Nat \ {0}
    /\ MaxPromptBlocks \in Nat \ {0}
    /\ Capacity \in Nat \ {0}
    /\ RatioDen \in Nat \ {0}
    /\ RatioNum \in 0..RatioDen

VARIABLES
    hashToServers,  \* _hash_to_servers, a function on the hashes that are keys
    serverToHashes  \* _server_to_hashes, each OrderedDict as the sequence of its keys

vars == <<hashToServers, serverToHashes>>

\* A prompt as its full blocks; a prompt shorter than one block has none.
Prompts == UNION {[1..n -> Blocks] : n \in 0..MaxPromptBlocks}

\* _hash_prompt_bytes: one hash a block, of at most MaxPrefixBlocks blocks.
PromptHashes(prompt) ==
    LET hashed == IF Len(prompt) > MaxPrefixBlocks THEN MaxPrefixBlocks ELSE Len(prompt)
    IN  [i \in 1..hashed |-> SubSeq(prompt, 1, i)]

Hashes == UNION {[1..n -> Blocks] : n \in 1..MaxPrefixBlocks}

Held(s) == ToSet(serverToHashes[s])

Get(h) == IF h \in DOMAIN hashToServers THEN hashToServers[h] ELSE {}

----------------------------------------------------------------------------
(* Scoring.  A score is given as its numerator over the prompt's number of *)
(* hashes.                                                                 *)

Matches(hashes, s) == Cardinality({i \in DOMAIN hashes : s \in Get(hashes[i])})

\* max_score is raised only where a server's count is increased, not where it is
\* first set to 1: a best count of one block leaves it at 0.
MaxScore(hashes, pods) ==
    Max({0} \cup {Matches(hashes, s) : s \in {p \in pods : Matches(hashes, p) > 1}})

Novel(hashes, pods) ==
    \/ \A s \in pods : Matches(hashes, s) = 0
    \/ MaxScore(hashes, pods) * RatioDen < Len(hashes) * RatioNum

LeastLoaded(pods) ==
    {s \in pods : \A p \in pods : Cardinality(Held(s)) <= Cardinality(Held(p))}

Score(hashes, pods) ==
    [s \in pods |->
        IF Len(hashes) = 0 THEN 0
        ELSE IF Novel(hashes, pods) THEN (IF s \in LeastLoaded(pods) THEN Len(hashes) ELSE 0)
        ELSE Matches(hashes, s)]

----------------------------------------------------------------------------
(* The index. *)

\* The map that is left when empty entries are dropped.
NonEmpty(map) == [h \in {g \in DOMAIN map : map[g] # {}} |-> map[h]]

\* The hashes that are no keys yet, in their order.
Fresh(keys, hashes) ==
    LET new == {i \in DOMAIN hashes : hashes[i] \notin ToSet(keys)}
    IN  [k \in 1..Cardinality(new) |->
            hashes[CHOOSE i \in new : Cardinality({j \in new : j <= i}) = k]]

\* Assigning a key that an OrderedDict has already keeps its place.
Entered(keys, hashes) == keys \o Fresh(keys, hashes)

Evicted(keys) == SubSeq(keys, 1, Len(keys) - Capacity)

\* PrefixIndexer.add: enter every hash, then evict from the front.
Add(hashes, s) ==
    LET keys == Entered(serverToHashes[s], hashes)
        gone == Evicted(keys)
        added == [h \in DOMAIN hashToServers \cup ToSet(hashes) |->
                     IF h \in ToSet(hashes) THEN Get(h) \cup {s} ELSE Get(h)]
    IN  /\ serverToHashes' = [serverToHashes EXCEPT ![s] = SubSeq(keys, Len(gone) + 1, Len(keys))]
        /\ hashToServers' = NonEmpty([h \in DOMAIN added |->
                                         IF h \in ToSet(gone) THEN added[h] \ {s} ELSE added[h]])

Init ==
    /\ hashToServers = << >>
    /\ serverToHashes = [s \in Servers |-> << >>]

\* Mutant of RemoveServer: empty entries stay behind.
RemoveServerKeepsEmpty(s) ==
    /\ serverToHashes' = [serverToHashes EXCEPT ![s] = << >>]
    /\ hashToServers' = [h \in DOMAIN hashToServers |-> hashToServers[h] \ {s}]

RemoveServer(s) ==
    /\ serverToHashes' = [serverToHashes EXCEPT ![s] = << >>]
    /\ hashToServers' = NonEmpty([h \in DOMAIN hashToServers |-> hashToServers[h] \ {s}])

Reset ==
    /\ serverToHashes' = [s \in Servers |-> << >>]
    /\ hashToServers' = << >>

----------------------------------------------------------------------------
\* The two maps are kept apart through adds that evict, removals and resets: each is
\* the inverse of the other, and no hash is kept for nobody.  No server is remembered with
\* a hash twice or with more than its capacity, so neither map grows without bound.
IndexIsInverse ==
    /\ hashToServers = [h \in UNION {Held(s) : s \in Servers} |-> {s \in Servers : h \in Held(s)}]
    /\ \A s \in Servers : Len(serverToHashes[s]) <= Capacity /\ IsInjective(serverToHashes[s])
=============================================================================
