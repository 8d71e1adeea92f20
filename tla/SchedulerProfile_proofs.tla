------------------------ MODULE SchedulerProfile_proofs ------------------------
(***************************************************************************)
(* The prefix index and the profile for any servers, prompts, capacities,  *)
(* reports, thresholds and weights: the two maps of the index stay each    *)
(* other's inverse, what is routed is held, the filters do not undo one    *)
(* another, and the weighted sum of the scores ranks as it is meant to.    *)
(***************************************************************************)
EXTENDS SchedulerProfile, FiniteSetTheorems, SequenceTheorems, WellFoundedInduction, TLAPS

----------------------------------------------------------------------------
(* Entering hashes and evicting them. *)

\* How many there are from 1 to n.
LEMMA IntervalSize ==
    ASSUME NEW n \in Nat PROVE IsFiniteSet(1..n) /\ Cardinality(1..n) = n
  <1>1. 1 \in Int /\ n \in Int /\ n - 1 + 1 = n /\ (1 > n => n = 0)
    OBVIOUS
  <1>2. IsFiniteSet(1..n) /\ Cardinality(1..n) = IF 1 > n THEN 0 ELSE n - 1 + 1
    BY <1>1, FS_Interval
  <1> QED BY <1>1, <1>2

\* A set has more elements than a part of it that leaves one out.
LEMMA SmallerSubset ==
    ASSUME NEW T, IsFiniteSet(T), NEW S, S \subseteq T, NEW x \in T, x \notin S
    PROVE  Cardinality(S) < Cardinality(T)
  <1>1. S \in SUBSET T /\ S # T
    OBVIOUS
  <1>2. IsFiniteSet(S) /\ Cardinality(S) <= Cardinality(T) /\ Cardinality(S) # Cardinality(T)
    BY <1>1, FS_Subset
  <1>3. Cardinality(S) \in Nat /\ Cardinality(T) \in Nat
    BY <1>2, FS_CardinalityType
  <1> QED BY <1>2, <1>3

\* The elements that are not there yet, each once and in their order.
LEMMA FreshSpec ==
    ASSUME NEW S, NEW keys, NEW hashes \in Seq(S), IsInjective(hashes)
    PROVE  /\ Fresh(keys, hashes) \in Seq(S) /\ IsInjective(Fresh(keys, hashes))
           /\ ToSet(Fresh(keys, hashes)) = ToSet(hashes) \ ToSet(keys)
           /\ Len(Fresh(keys, hashes)) <= Len(hashes)
  <1> DEFINE new == {i \in DOMAIN hashes : hashes[i] \notin ToSet(keys)}
             upto(i) == {j \in new : j <= i}
             n == Cardinality(new)
             rank == [i \in new |-> Cardinality(upto(i))]
             at(k) == CHOOSE i \in new : Cardinality(upto(i)) = k
             f == Fresh(keys, hashes)
  <1>1. /\ Len(hashes) \in Nat /\ DOMAIN hashes = 1..Len(hashes)
        /\ \A i \in 1..Len(hashes) : hashes[i] \in S
    BY LenProperties, ElementOfSeq
  <1>2. /\ IsFiniteSet(1..Len(hashes)) /\ Cardinality(1..Len(hashes)) = Len(hashes)
        /\ new \subseteq 1..Len(hashes)
    <2>1. IsFiniteSet(1..Len(hashes)) /\ Cardinality(1..Len(hashes)) = Len(hashes)
      BY <1>1, IntervalSize
    <2>2. new \subseteq 1..Len(hashes)
      BY <1>1
    <2> QED BY <2>1, <2>2
  <1>3. IsFiniteSet(new) /\ n \in Nat /\ n <= Len(hashes)
    <2> HIDE DEF new
    <2> QED BY <1>2, FS_Subset, FS_CardinalityType
  <1>4. ASSUME NEW i \in new
        PROVE  /\ IsFiniteSet(upto(i)) /\ Cardinality(upto(i)) \in 1..n
               /\ Cardinality(upto(i)) \in Nat
    <2>1. IsFiniteSet(upto(i)) /\ Cardinality(upto(i)) \in Nat /\ Cardinality(upto(i)) <= n
      BY <1>3, FS_Subset, FS_CardinalityType
    <2>2. i \in upto(i)
      BY <1>2
    <2>3. Cardinality(upto(i)) # 0
      BY <2>1, <2>2, FS_EmptySet
    <2> QED BY <1>3, <2>1, <2>3
  <1>5. ASSUME NEW i \in new, NEW k \in new, i < k
        PROVE  Cardinality(upto(i)) < Cardinality(upto(k))
    <2>1. upto(i) \subseteq upto(k) /\ k \in upto(k) /\ k \notin upto(i)
      BY <1>2, <1>5
    <2>2. IsFiniteSet(upto(k)) /\ Cardinality(upto(k)) \in Nat /\ Cardinality(upto(i)) \in Nat
      BY <1>4
    <2> HIDE DEF upto
    <2> QED BY <2>1, <2>2, SmallerSubset
  <1>6. ASSUME NEW i \in new, NEW k \in new, Cardinality(upto(i)) = Cardinality(upto(k))
        PROVE  i = k
    <2>1. i \in Int /\ k \in Int
      BY <1>1, <1>2
    <2>2. Cardinality(upto(i)) \in Int
      <3>1. Cardinality(upto(i)) \in Nat
        BY <1>4
      <3> QED BY <3>1
    <2> HIDE DEF new, upto
    <2> QED BY <1>5, <1>6, <2>1, <2>2
  <1>7. rank \in Injection(new, 1..n)
    <2> HIDE DEF new, upto, n
    <2> QED BY <1>4, <1>6 DEF Injection, IsInjective
  <1>8. rank \in Surjection(new, 1..n)
    <2>1. IsFiniteSet(1..n) /\ Cardinality(1..n) = n
      BY <1>3, FS_Interval
    <2> HIDE DEF rank, new
    <2> QED BY <1>7, <2>1, FS_Injection DEF n
  <1>9. ASSUME NEW k \in 1..n PROVE at(k) \in new /\ Cardinality(upto(at(k))) = k
    <2>1. \E i \in new : rank[i] = k
      <3> HIDE DEF rank, new, n
      <3> QED BY <1>8 DEF Surjection
    <2>2. \E i \in new : Cardinality(upto(i)) = k
      BY <2>1
    <2> HIDE DEF new, upto
    <2> QED BY <2>2
  <1>10. f = [k \in 1..n |-> hashes[at(k)]]
    BY DEF Fresh
  <1> HIDE DEF f, at, upto, rank, n
  <1>11. ASSUME NEW k \in 1..n PROVE f[k] = hashes[at(k)] /\ f[k] \in S
    BY <1>1, <1>2, <1>9, <1>10
  <1>12. f \in Seq(S) /\ Len(f) = n /\ DOMAIN f = 1..n
    BY <1>3, <1>10, <1>11
  <1>13. IsInjective(f)
    <2> SUFFICES ASSUME NEW k \in 1..n, NEW l \in 1..n, f[k] = f[l] PROVE k = l
      BY <1>12 DEF IsInjective
    <2>1. hashes[at(k)] = hashes[at(l)] /\ at(k) \in new /\ at(l) \in new
      BY <1>9, <1>11
    <2>2. at(k) = at(l)
      BY <1>1, <1>2, <2>1 DEF IsInjective
    <2> QED BY <1>9, <2>2
  <1>14. ToSet(f) = ToSet(hashes) \ ToSet(keys)
    <2>1. ASSUME NEW h \in ToSet(f) PROVE h \in ToSet(hashes) \ ToSet(keys)
      <3>1. PICK k \in 1..n : h = f[k]
        BY <1>12 DEF ToSet
      <3>2. h = hashes[at(k)] /\ at(k) \in new
        BY <1>9, <1>11, <3>1
      <3> QED BY <3>2 DEF ToSet
    <2>2. ASSUME NEW h \in ToSet(hashes) \ ToSet(keys) PROVE h \in ToSet(f)
      <3>1. PICK i \in new : h = hashes[i]
        BY DEF ToSet
      <3>2. PICK k \in 1..n : k = Cardinality(upto(i))
        BY <1>4
      <3>3. at(k) = i
        BY <1>6, <1>9, <3>2
      <3> QED BY <1>11, <1>12, <3>1, <3>3 DEF ToSet
    <2> QED BY <2>1, <2>2
  <1> QED BY <1>3, <1>12, <1>13, <1>14 DEF f

\* Entering keeps the keys in their places and puts the new ones behind them.
LEMMA EnteredSpec ==
    ASSUME NEW S, NEW keys \in Seq(S), IsInjective(keys),
           NEW hashes \in Seq(S), IsInjective(hashes)
    PROVE  /\ Entered(keys, hashes) \in Seq(S) /\ IsInjective(Entered(keys, hashes))
           /\ ToSet(Entered(keys, hashes)) = ToSet(keys) \cup ToSet(hashes)
           /\ Len(Entered(keys, hashes)) <= Len(keys) + Len(hashes)
           /\ Len(keys) <= Len(Entered(keys, hashes))
           /\ \A i \in 1..Len(keys) : Entered(keys, hashes)[i] = keys[i]
  <1> DEFINE f == Fresh(keys, hashes)
             e == keys \o f
  <1>1. /\ f \in Seq(S) /\ IsInjective(f) /\ ToSet(f) = ToSet(hashes) \ ToSet(keys)
        /\ Len(f) <= Len(hashes)
    BY FreshSpec
  <1> HIDE DEF f
  <1>2. /\ Len(keys) \in Nat /\ Len(f) \in Nat /\ Len(hashes) \in Nat
        /\ DOMAIN keys = 1..Len(keys) /\ DOMAIN f = 1..Len(f)
    BY <1>1, LenProperties
  <1>3. /\ e \in Seq(S) /\ Len(e) = Len(keys) + Len(f)
        /\ \A i \in 1..(Len(keys) + Len(f)) : e[i] = IF i <= Len(keys) THEN keys[i] ELSE f[i - Len(keys)]
    BY <1>1, ConcatProperties
  <1> HIDE DEF e
  <1>4. DOMAIN e = 1..(Len(keys) + Len(f))
    BY <1>3, LenProperties
  <1>5. ASSUME NEW i \in 1..Len(keys) PROVE i \in DOMAIN e /\ e[i] = keys[i] /\ e[i] \in ToSet(keys)
    BY <1>2, <1>3, <1>4 DEF ToSet
  <1>6. ASSUME NEW i \in 1..Len(f)
        PROVE  Len(keys) + i \in DOMAIN e /\ e[Len(keys) + i] = f[i] /\ e[Len(keys) + i] \in ToSet(f)
    <2>1. /\ Len(keys) + i \in 1..(Len(keys) + Len(f)) /\ ~(Len(keys) + i <= Len(keys))
          /\ (Len(keys) + i) - Len(keys) = i
      BY <1>2
    <2> QED BY <1>2, <1>3, <1>4, <2>1 DEF ToSet
  <1>7. ASSUME NEW i \in DOMAIN e
        PROVE  \/ i \in 1..Len(keys)
               \/ \E k \in 1..Len(f) : i = Len(keys) + k
    <2>1. CASE i > Len(keys)
      <3>1. i - Len(keys) \in 1..Len(f) /\ i = Len(keys) + (i - Len(keys))
        BY <1>2, <1>4, <2>1
      <3> QED BY <3>1
    <2> QED BY <1>2, <1>4, <2>1
  <1>8. IsInjective(e)
    <2> SUFFICES ASSUME NEW i \in DOMAIN e, NEW k \in DOMAIN e, e[i] = e[k] PROVE i = k
      BY DEF IsInjective
    <2>1. CASE i \in 1..Len(keys) /\ k \in 1..Len(keys)
      <3>1. keys[i] = keys[k]
        BY <1>5, <2>1
      <3> QED BY <1>2, <2>1, <3>1 DEF IsInjective
    <2>2. CASE i \in 1..Len(keys) /\ k \notin 1..Len(keys)
      <3>1. e[i] \in ToSet(keys) /\ e[k] \in ToSet(f)
        BY <1>5, <1>6, <1>7, <2>2
      <3> QED BY <1>1, <3>1
    <2>3. CASE i \notin 1..Len(keys) /\ k \in 1..Len(keys)
      <3>1. e[i] \in ToSet(f) /\ e[k] \in ToSet(keys)
        BY <1>5, <1>6, <1>7, <2>3
      <3> QED BY <1>1, <3>1
    <2>4. CASE i \notin 1..Len(keys) /\ k \notin 1..Len(keys)
      <3>1. PICK a \in 1..Len(f), b \in 1..Len(f) : i = Len(keys) + a /\ k = Len(keys) + b
        BY <1>7, <2>4
      <3>2. f[a] = f[b]
        BY <1>6, <3>1
      <3>3. a = b
        BY <1>1, <1>2, <3>2 DEF IsInjective
      <3> QED BY <3>1, <3>3
    <2> QED BY <2>1, <2>2, <2>3, <2>4
  <1>9. ToSet(e) = ToSet(keys) \cup ToSet(f)
    <2>1. ToSet(e) \subseteq ToSet(keys) \cup ToSet(f)
      <3> SUFFICES ASSUME NEW i \in DOMAIN e PROVE e[i] \in ToSet(keys) \cup ToSet(f)
        BY DEF ToSet
      <3> QED BY <1>5, <1>6, <1>7
    <2>2. ToSet(keys) \subseteq ToSet(e)
      BY <1>2, <1>5 DEF ToSet
    <2>3. ToSet(f) \subseteq ToSet(e)
      <3> SUFFICES ASSUME NEW i \in 1..Len(f) PROVE f[i] \in ToSet(e)
        BY <1>2 DEF ToSet
      <3> QED BY <1>6 DEF ToSet
    <2> QED BY <2>1, <2>2, <2>3
  <1>10. e = Entered(keys, hashes)
    BY DEF e, f, Entered
  <1>11. Len(keys) <= Len(e) /\ Len(e) <= Len(keys) + Len(hashes)
    BY <1>1, <1>2, <1>3
  <1>12. ToSet(e) = ToSet(keys) \cup ToSet(hashes)
    BY <1>1, <1>9
  <1> QED BY <1>3, <1>5, <1>8, <1>10, <1>11, <1>12

\* What stays after an eviction: no more than the capacity, and all that was entered last.
LEMMA EvictedSpec ==
    ASSUME NEW S, NEW keys \in Seq(S), IsInjective(keys)
    PROVE  LET kept == SubSeq(keys, Len(Evicted(keys)) + 1, Len(keys))
           IN  /\ kept \in Seq(S) /\ IsInjective(kept) /\ Len(kept) <= Capacity
               /\ ToSet(kept) = ToSet(keys) \ ToSet(Evicted(keys))
               /\ \A i \in 1..Len(keys) : i > Len(keys) - Capacity => keys[i] \in ToSet(kept)
  <1> DEFINE n == Len(keys)
             gone == Evicted(keys)
             g == Len(gone)
             kept == SubSeq(keys, g + 1, n)
  <1>1. /\ n \in Nat /\ DOMAIN keys = 1..n /\ \A i \in 1..n : keys[i] \in S
        /\ Capacity \in Nat \ {0}
    BY LenProperties, ElementOfSeq, PrefixCacheAssumption
  <1>2. /\ gone \in Seq(S) /\ g \in 0..n /\ (n <= Capacity => g = 0)
        /\ (n > Capacity => g = n - Capacity)
        /\ \A i \in 1..g : gone[i] = keys[i]
    <2>1. n - Capacity \in Int /\ \A i \in 1..(n - Capacity) : keys[i] \in S
      BY <1>1
    <2>2. /\ gone \in Seq(S) /\ g = (IF 1 <= n - Capacity THEN (n - Capacity) - 1 + 1 ELSE 0)
          /\ \A i \in 1..((n - Capacity) - 1 + 1) : gone[i] = keys[1 + i - 1]
      <3> HIDE DEF n
      <3> QED BY <2>1, SubSeqProperties DEF Evicted, n
    <2> HIDE DEF n, g, gone
    <2>3. /\ (n <= Capacity => g = 0) /\ (n > Capacity => g = n - Capacity)
      BY <1>1, <2>2
    <2>4. ASSUME NEW i \in 1..g PROVE gone[i] = keys[i]
      <3>1. i \in 1..((n - Capacity) - 1 + 1) /\ 1 + i - 1 = i
        BY <1>1, <2>3
      <3> QED BY <2>2, <3>1
    <2>5. g \in 0..n
      BY <1>1, <2>3
    <2> QED BY <2>2, <2>3, <2>4, <2>5
  <1> HIDE DEF gone, g, n
  <1>3. /\ kept \in Seq(S) /\ Len(kept) = n - g /\ \A i \in 1..(n - g) : kept[i] = keys[g + i]
    <2>1. g + 1 \in Int /\ n \in Int /\ \A i \in (g + 1)..n : keys[i] \in S
      BY <1>1, <1>2
    <2>2. /\ kept \in Seq(S) /\ Len(kept) = (IF g + 1 <= n THEN n - (g + 1) + 1 ELSE 0)
          /\ \A i \in 1..(n - (g + 1) + 1) : kept[i] = keys[(g + 1) + i - 1]
      BY <2>1, SubSeqProperties
    <2> HIDE DEF kept
    <2>3. Len(kept) = n - g
      BY <1>1, <1>2, <2>2
    <2>4. ASSUME NEW i \in 1..(n - g) PROVE kept[i] = keys[g + i]
      <3>1. i \in 1..(n - (g + 1) + 1) /\ (g + 1) + i - 1 = g + i
        BY <1>1, <1>2
      <3> QED BY <2>2, <3>1
    <2> QED BY <2>2, <2>3, <2>4
  <1> HIDE DEF kept
  <1>4. DOMAIN kept = 1..(n - g) /\ DOMAIN gone = 1..g
    BY <1>2, <1>3, LenProperties DEF g
  <1>5. Len(kept) <= Capacity
    BY <1>1, <1>2, <1>3
  <1>6. IsInjective(kept)
    <2> SUFFICES ASSUME NEW i \in 1..(n - g), NEW k \in 1..(n - g), kept[i] = kept[k] PROVE i = k
      BY <1>4 DEF IsInjective
    <2>1. g + i \in 1..n /\ g + k \in 1..n /\ keys[g + i] = keys[g + k]
      BY <1>1, <1>2, <1>3
    <2>2. g + i = g + k
      BY <1>1, <2>1 DEF IsInjective
    <2> QED BY <1>1, <1>2, <2>2
  <1>7. ASSUME NEW i \in 1..n, i > g PROVE keys[i] \in ToSet(kept)
    <2>1. i - g \in 1..(n - g) /\ g + (i - g) = i
      BY <1>1, <1>2, <1>7
    <2>2. kept[i - g] = keys[i]
      BY <1>3, <2>1
    <2> QED BY <1>4, <2>1, <2>2 DEF ToSet
  <1>8. ToSet(kept) = ToSet(keys) \ ToSet(gone)
    <2>1. ASSUME NEW h \in ToSet(kept) PROVE h \in ToSet(keys) /\ h \notin ToSet(gone)
      <3>1. PICK i \in 1..(n - g) : h = kept[i]
        BY <1>4 DEF ToSet
      <3>2. g + i \in 1..n /\ h = keys[g + i]
        BY <1>1, <1>2, <1>3, <3>1
      <3>3. ASSUME NEW k \in 1..g, gone[k] = h PROVE FALSE
        <4>1. k \in 1..n /\ keys[k] = keys[g + i]
          BY <1>1, <1>2, <3>2, <3>3
        <4>2. k = g + i
          BY <1>1, <3>2, <4>1 DEF IsInjective
        <4> QED BY <1>1, <1>2, <4>2
      <3> QED BY <1>1, <1>4, <3>2, <3>3 DEF ToSet
    <2>2. ASSUME NEW h \in ToSet(keys), h \notin ToSet(gone) PROVE h \in ToSet(kept)
      <3>1. PICK i \in 1..n : h = keys[i]
        BY <1>1 DEF ToSet
      <3>2. ~(i \in 1..g)
        BY <1>2, <1>4, <2>2, <3>1 DEF ToSet
      <3>3. i > g
        BY <1>1, <1>2, <3>2
      <3> QED BY <1>7, <3>1, <3>3
    <2> QED BY <2>1, <2>2
  <1>9. ASSUME NEW i \in 1..n, i > n - Capacity PROVE keys[i] \in ToSet(kept)
    <2>1. i > g
      BY <1>1, <1>2, <1>9
    <2> QED BY <1>7, <2>1
  <1> QED BY <1>3, <1>5, <1>6, <1>8, <1>9 DEF kept, g, gone, n

\* One hash a block, all different, and no more than are to be hashed.
LEMMA HashesOfPrompt ==
    ASSUME NEW prompt \in Prompts
    PROVE  /\ PromptHashes(prompt) \in Seq(Seq(Blocks)) /\ IsInjective(PromptHashes(prompt))
           /\ Len(PromptHashes(prompt)) <= MaxPrefixBlocks
  <1>1. PICK n \in 0..MaxPromptBlocks : prompt \in [1..n -> Blocks]
    BY DEF Prompts
  <1>2. n \in Nat /\ MaxPrefixBlocks \in Nat /\ prompt \in Seq(Blocks) /\ Len(prompt) = n
    BY <1>1, PrefixCacheAssumption
  <1> DEFINE m == IF n > MaxPrefixBlocks THEN MaxPrefixBlocks ELSE n
             p == PromptHashes(prompt)
  <1>3. p = [i \in 1..m |-> SubSeq(prompt, 1, i)] /\ m \in 0..n /\ m <= MaxPrefixBlocks
    BY <1>2 DEF PromptHashes
  <1> HIDE DEF p, m
  <1>4. ASSUME NEW i \in 1..m PROVE SubSeq(prompt, 1, i) \in Seq(Blocks) /\ Len(SubSeq(prompt, 1, i)) = i
    <2>1. i \in Int /\ 1 <= i /\ \A k \in 1..i : prompt[k] \in Blocks
      BY <1>1, <1>2, <1>3
    <2>2. /\ SubSeq(prompt, 1, i) \in Seq(Blocks)
          /\ Len(SubSeq(prompt, 1, i)) = IF 1 <= i THEN i - 1 + 1 ELSE 0
      BY <2>1, SubSeqProperties
    <2> QED BY <2>1, <2>2
  <1>5. p \in Seq(Seq(Blocks)) /\ Len(p) = m /\ DOMAIN p = 1..m
    BY <1>2, <1>3, <1>4
  <1>6. ASSUME NEW i \in 1..m, NEW k \in 1..m, p[i] = p[k] PROVE i = k
    <2>1. p[i] = SubSeq(prompt, 1, i) /\ p[k] = SubSeq(prompt, 1, k)
      BY <1>3
    <2> QED BY <1>4, <1>6, <2>1
  <1> QED BY <1>3, <1>5, <1>6 DEF IsInjective, p

----------------------------------------------------------------------------
(* The index. *)

\* The servers' keys are sequences of hashes and the maps are each other's inverse.
IndexInv ==
    /\ serverToHashes \in [Servers -> Seq(Seq(Blocks))]
    /\ IndexIsInverse

\* The map to the holders of each hash that belongs to some keys.
HoldersIn(keysOf, h) == {t \in Servers : h \in ToSet(keysOf[t])}
InverseOf(keysOf) ==
    [h \in UNION {ToSet(keysOf[t]) : t \in Servers} |-> HoldersIn(keysOf, h)]

\* What the filters leave is some of the candidates, which are servers.
LEMMA FilteredSpec ==
    ASSUME NEW cands \in Candidates
    PROVE  /\ Filtered(cands) \subseteq DOMAIN cands /\ DOMAIN cands \subseteq Servers
           /\ Filtered(cands) # {} /\ cands \in [DOMAIN cands -> Attributes]
  <1>1. PICK pods \in (SUBSET Servers) \ {{}} : cands \in [pods -> Attributes]
    BY DEF Candidates
  <1>2. DOMAIN cands = pods
    BY <1>1
  <1> DEFINE allowed == WorkerStateFilter(cands, DOMAIN cands)
  <1>3. allowed \subseteq DOMAIN cands /\ allowed # {}
    BY <1>1, <1>2 DEF WorkerStateFilter, KeepSome
  <1> HIDE DEF allowed
  <1>4. SaturationFilter(cands, allowed) \subseteq allowed /\ SaturationFilter(cands, allowed) # {}
    BY <1>3 DEF SaturationFilter, KeepSome
  <1> QED BY <1>1, <1>2, <1>3, <1>4 DEF Filtered, allowed

\* A look-up finds those that hold the hash.
LEMMA GetSpec ==
    ASSUME IndexInv, NEW h
    PROVE  Get(h) = {t \in Servers : h \in Held(t)}
  <1> DEFINE all == UNION {Held(t) : t \in Servers}
  <1>1. hashToServers = [g \in all |-> {t \in Servers : g \in Held(t)}]
    BY DEF IndexInv, IndexIsInverse
  <1>2. CASE h \in all
    <2>1. h \in DOMAIN hashToServers /\ hashToServers[h] = {t \in Servers : h \in Held(t)}
      BY <1>1, <1>2
    <2> QED BY <2>1 DEF Get
  <1>3. CASE h \notin all
    <2>1. h \notin DOMAIN hashToServers /\ {t \in Servers : h \in Held(t)} = {}
      BY <1>1, <1>3
    <2> QED BY <2>1 DEF Get
  <1> QED BY <1>2, <1>3

\* A map to the holders of each hash is the inverse once its empty entries are dropped.
LEMMA NonEmptyInverse ==
    ASSUME NEW map, NEW keysOf,
           \A h \in DOMAIN map : map[h] = HoldersIn(keysOf, h),
           \A t \in Servers : ToSet(keysOf[t]) \subseteq DOMAIN map
    PROVE  NonEmpty(map) = InverseOf(keysOf)
  <1> DEFINE all == UNION {ToSet(keysOf[t]) : t \in Servers}
             left == {h \in DOMAIN map : map[h] # {}}
  <1>1. left = all
    <2>1. ASSUME NEW h \in left PROVE h \in all
      BY DEF HoldersIn
    <2>2. ASSUME NEW h \in all PROVE h \in left
      <3>1. PICK t \in Servers : h \in ToSet(keysOf[t])
        OBVIOUS
      <3> QED BY <3>1 DEF HoldersIn
    <2> QED BY <2>1, <2>2
  <1>2. NonEmpty(map) = [h \in left |-> map[h]]
    BY DEF NonEmpty
  <1>3. [h \in left |-> map[h]] = [h \in all |-> HoldersIn(keysOf, h)]
    <2> HIDE DEF all
    <2> QED BY <1>1
  <1> QED BY <1>2, <1>3 DEF InverseOf

\* What a server holds after an add, and what its keys are then.
LEMMA AddHeld ==
    ASSUME IndexInv, NEW s \in Servers, NEW hashes \in Seq(Seq(Blocks)), IsInjective(hashes),
           Add(hashes, s)
    PROVE  LET keys == Entered(serverToHashes[s], hashes)
           IN  /\ serverToHashes' \in [Servers -> Seq(Seq(Blocks))]
               /\ \A t \in Servers \ {s} : serverToHashes'[t] = serverToHashes[t]
               /\ Len(serverToHashes'[s]) <= Capacity /\ IsInjective(serverToHashes'[s])
               /\ ToSet(serverToHashes'[s]) = (Held(s) \cup ToSet(hashes)) \ ToSet(Evicted(keys))
               /\ ToSet(hashes) \ Held(s) \subseteq ToSet(serverToHashes'[s])
                     \/ Len(hashes) > Capacity
  <1> DEFINE old == serverToHashes[s]
             keys == Entered(old, hashes)
             gone == Evicted(keys)
             kept == SubSeq(keys, Len(gone) + 1, Len(keys))
  <1>1. serverToHashes \in [Servers -> Seq(Seq(Blocks))] /\ old \in Seq(Seq(Blocks)) /\ IsInjective(old)
    BY DEF IndexInv, IndexIsInverse
  <1>2. serverToHashes' = [serverToHashes EXCEPT ![s] = kept]
    BY DEF Add
  <1> HIDE DEF old
  <1>3. /\ keys \in Seq(Seq(Blocks)) /\ IsInjective(keys)
        /\ ToSet(keys) = ToSet(old) \cup ToSet(hashes)
        /\ Len(keys) <= Len(old) + Len(hashes)
        /\ \A i \in 1..Len(old) : keys[i] = old[i]
    BY <1>1, EnteredSpec
  <1> HIDE DEF keys
  <1>4. /\ kept \in Seq(Seq(Blocks)) /\ IsInjective(kept) /\ Len(kept) <= Capacity
        /\ ToSet(kept) = ToSet(keys) \ ToSet(gone)
        /\ \A i \in 1..Len(keys) : i > Len(keys) - Capacity => keys[i] \in ToSet(kept)
    BY <1>3, EvictedSpec
  <1> HIDE DEF kept, gone
  <1>5. /\ serverToHashes' \in [Servers -> Seq(Seq(Blocks))] /\ serverToHashes'[s] = kept
        /\ \A t \in Servers \ {s} : serverToHashes'[t] = serverToHashes[t]
    BY <1>1, <1>2, <1>4
  <1>6. ASSUME ~(Len(hashes) > Capacity), NEW h \in ToSet(hashes) \ ToSet(old)
        PROVE  h \in ToSet(kept)
    <2>1. /\ Len(keys) \in Nat /\ Len(old) \in Nat /\ Len(hashes) \in Nat /\ Capacity \in Nat
          /\ DOMAIN keys = 1..Len(keys) /\ DOMAIN old = 1..Len(old)
      BY <1>1, <1>3, LenProperties, PrefixCacheAssumption
    <2>2. h \in ToSet(keys)
      BY <1>3, <1>6
    <2>3. PICK i \in 1..Len(keys) : keys[i] = h
      BY <2>1, <2>2 DEF ToSet
    <2>4. ~(i \in 1..Len(old))
      <3>1. ASSUME i \in 1..Len(old) PROVE FALSE
        <4>1. old[i] = h /\ i \in DOMAIN old
          BY <1>3, <2>1, <2>3, <3>1
        <4> QED BY <1>6, <4>1 DEF ToSet
      <3> QED BY <3>1
    <2>5. i > Len(keys) - Capacity
      BY <1>3, <1>6, <2>1, <2>3, <2>4
    <2> QED BY <1>4, <2>3, <2>5
  <1>7. Held(s) = ToSet(old)
    BY DEF Held, old
  <1>8. /\ Len(kept) <= Capacity /\ IsInjective(kept)
        /\ ToSet(kept) = (Held(s) \cup ToSet(hashes)) \ ToSet(gone)
        /\ ToSet(hashes) \ Held(s) \subseteq ToSet(kept) \/ Len(hashes) > Capacity
    BY <1>3, <1>4, <1>6, <1>7
  <1>9. gone = Evicted(Entered(serverToHashes[s], hashes))
    BY DEF gone, keys, old
  <1> QED BY <1>5, <1>8, <1>9

\* The two maps as a later state has them.
LEMMA InverseNext ==
    ASSUME serverToHashes' \in [Servers -> Seq(Seq(Blocks))],
           hashToServers' = InverseOf(serverToHashes'),
           \A t \in Servers : Len(serverToHashes'[t]) <= Capacity /\ IsInjective(serverToHashes'[t])
    PROVE  IndexInv'
  BY DEF IndexInv, IndexIsInverse, Held, InverseOf, HoldersIn

\* An add keeps the maps each other's inverse.
LEMMA AddInverse ==
    ASSUME IndexInv, NEW s \in Servers, NEW hashes \in Seq(Seq(Blocks)), IsInjective(hashes),
           Add(hashes, s)
    PROVE  IndexInv'
  <1> DEFINE gone == Evicted(Entered(serverToHashes[s], hashes))
             added == [h \in DOMAIN hashToServers \cup ToSet(hashes) |->
                          IF h \in ToSet(hashes) THEN Get(h) \cup {s} ELSE Get(h)]
             map == [h \in DOMAIN added |-> IF h \in ToSet(gone) THEN added[h] \ {s} ELSE added[h]]
  <1>1. hashToServers' = NonEmpty(map)
    BY DEF Add
  <1>2. /\ serverToHashes' \in [Servers -> Seq(Seq(Blocks))]
        /\ \A t \in Servers \ {s} : serverToHashes'[t] = serverToHashes[t]
        /\ Len(serverToHashes'[s]) <= Capacity /\ IsInjective(serverToHashes'[s])
        /\ ToSet(serverToHashes'[s]) = (Held(s) \cup ToSet(hashes)) \ ToSet(gone)
    BY AddHeld
  <1>3. \A h : Get(h) = {t \in Servers : h \in Held(t)}
    BY GetSpec
  <1>4. DOMAIN hashToServers = UNION {Held(t) : t \in Servers}
    BY DEF IndexInv, IndexIsInverse
  <1>5. \A t \in Servers \ {s} : ToSet(serverToHashes'[t]) = Held(t)
    BY <1>2 DEF Held
  <1>6. DOMAIN map = DOMAIN hashToServers \cup ToSet(hashes)
    OBVIOUS
  <1>7. ASSUME NEW h \in DOMAIN map
        PROVE  map[h] = HoldersIn(serverToHashes', h)
    <2> DEFINE holders == {t \in Servers : h \in ToSet(serverToHashes'[t])}
    <2>1. /\ h \in ToSet(hashes) /\ h \in ToSet(gone) => map[h] = (Get(h) \cup {s}) \ {s}
          /\ h \in ToSet(hashes) /\ h \notin ToSet(gone) => map[h] = Get(h) \cup {s}
          /\ h \notin ToSet(hashes) /\ h \in ToSet(gone) => map[h] = Get(h) \ {s}
          /\ h \notin ToSet(hashes) /\ h \notin ToSet(gone) => map[h] = Get(h)
      BY <1>6, <1>7
    <2>2. s \in holders <=> (h \in Held(s) \/ h \in ToSet(hashes)) /\ h \notin ToSet(gone)
      BY <1>2
    <2>3. \A t \in Servers \ {s} : t \in holders <=> h \in Held(t)
      BY <1>5
    <2>4. holders \subseteq Servers
      OBVIOUS
    <2>5. Get(h) = {t \in Servers : h \in Held(t)}
      BY <1>3
    <2> HIDE DEF holders, map
    <2>6. \A t \in Servers : t \in map[h] <=> t \in holders
      BY <2>1, <2>2, <2>3, <2>5
    <2>7. map[h] \subseteq Servers
      BY <2>1, <2>5
    <2>8. map[h] = holders
      BY <2>4, <2>6, <2>7
    <2> QED BY <2>8 DEF holders, HoldersIn
  <1>8. ASSUME NEW t \in Servers PROVE ToSet(serverToHashes'[t]) \subseteq DOMAIN map
    BY <1>2, <1>4, <1>5, <1>6
  <1> HIDE DEF map
  <1>10. NonEmpty(map) = InverseOf(serverToHashes')
    BY <1>7, <1>8, NonEmptyInverse
  <1>11. \A t \in Servers : Len(serverToHashes'[t]) <= Capacity /\ IsInjective(serverToHashes'[t])
    BY <1>2 DEF IndexInv, IndexIsInverse
  <1> QED BY <1>1, <1>2, <1>10, <1>11, InverseNext

\* Of an empty sequence nothing is held.
LEMMA NothingHeld ==
    /\ ToSet(<< >>) = {} /\ IsInjective(<< >>) /\ Len(<< >>) <= Capacity
    /\ << >> \in Seq(Seq(Blocks))
  <1>1. Capacity \in Nat
    BY PrefixCacheAssumption
  <1>2. Len(<< >>) <= Capacity /\ << >> \in Seq(Seq(Blocks))
    BY <1>1
  <1>3. DOMAIN << >> = {}
    OBVIOUS
  <1> QED BY <1>2, <1>3 DEF ToSet, IsInjective

\* Removing a server keeps the maps each other's inverse.
LEMMA RemoveServerInverse ==
    ASSUME IndexInv, NEW s \in Servers, RemoveServer(s)
    PROVE  IndexInv'
  <1> DEFINE map == [h \in DOMAIN hashToServers |-> hashToServers[h] \ {s}]
  <1>1. /\ hashToServers' = NonEmpty(map)
        /\ serverToHashes' = [serverToHashes EXCEPT ![s] = << >>]
    BY DEF RemoveServer
  <1>2. /\ serverToHashes' \in [Servers -> Seq(Seq(Blocks))] /\ serverToHashes'[s] = << >>
        /\ \A t \in Servers \ {s} : serverToHashes'[t] = serverToHashes[t]
    BY <1>1, NothingHeld DEF IndexInv
  <1>3. ToSet(serverToHashes'[s]) = {} /\ \A t \in Servers \ {s} : ToSet(serverToHashes'[t]) = Held(t)
    BY <1>2, NothingHeld DEF Held
  <1>4. hashToServers = [h \in UNION {Held(t) : t \in Servers} |-> {t \in Servers : h \in Held(t)}]
    BY DEF IndexInv, IndexIsInverse
  <1>5. ASSUME NEW h \in DOMAIN map
        PROVE  map[h] = HoldersIn(serverToHashes', h)
    <2> DEFINE holders == {t \in Servers : h \in ToSet(serverToHashes'[t])}
    <2>1. map[h] = {t \in Servers : h \in Held(t)} \ {s}
      BY <1>4
    <2>2. \A t \in Servers : t \in holders <=> h \in Held(t) /\ t # s
      BY <1>3
    <2>3. map[h] = holders
      BY <2>1, <2>2
    <2> QED BY <2>3 DEF HoldersIn
  <1>6. ASSUME NEW t \in Servers PROVE ToSet(serverToHashes'[t]) \subseteq DOMAIN map
    BY <1>3, <1>4
  <1> HIDE DEF map
  <1>8. NonEmpty(map) = InverseOf(serverToHashes')
    BY <1>5, <1>6, NonEmptyInverse
  <1>9. \A t \in Servers : Len(serverToHashes'[t]) <= Capacity /\ IsInjective(serverToHashes'[t])
    BY <1>2, NothingHeld DEF IndexInv, IndexIsInverse
  <1> QED BY <1>1, <1>2, <1>8, <1>9, InverseNext

\* Nothing is known of anybody: at the start and after a reset.
LEMMA EmptyInverse ==
    ASSUME NEW keysOf, keysOf = [t \in Servers |-> << >>]
    PROVE  /\ keysOf \in [Servers -> Seq(Seq(Blocks))]
           /\ << >> = InverseOf(keysOf)
           /\ \A t \in Servers : Len(keysOf[t]) <= Capacity /\ IsInjective(keysOf[t])
  <1>1. \A t \in Servers : keysOf[t] = << >>
    OBVIOUS
  <1>2. UNION {ToSet(keysOf[t]) : t \in Servers} = {}
    BY <1>1, NothingHeld
  <1> QED BY <1>1, <1>2, NothingHeld DEF InverseOf

\* At the start.
LEMMA IndexInit == ASSUME Init PROVE IndexInv
  <1>1. /\ serverToHashes = [t \in Servers |-> << >>] /\ hashToServers = << >>
    BY DEF Init
  <1>2. /\ serverToHashes \in [Servers -> Seq(Seq(Blocks))]
        /\ hashToServers = InverseOf(serverToHashes)
        /\ \A t \in Servers : Len(serverToHashes[t]) <= Capacity /\ IsInjective(serverToHashes[t])
    BY <1>1, EmptyInverse
  <1> QED BY <1>2 DEF IndexInv, IndexIsInverse, Held, InverseOf, HoldersIn

\* A decision adds the hashes of its prompt to a server's.
LEMMA ScheduleAdds ==
    ASSUME NEW request \in Requests, NEW cands \in Candidates, Schedule(request, cands)
    PROVE  \/ \E s \in Servers : PreRequest(request.prompt, s)
           \/ UNCHANGED vars
  <1>1. Picks(request, cands) \subseteq Servers
    BY FilteredSpec DEF Picks, Pick
  <1> QED BY <1>1 DEF Schedule

\* Every step keeps the maps each other's inverse.
LEMMA IndexStep == IndexInv /\ [Next]_vars => IndexInv'
  <1> SUFFICES ASSUME IndexInv, [Next]_vars PROVE IndexInv'
    OBVIOUS
  <1>1. CASE UNCHANGED vars
    BY <1>1 DEF vars, IndexInv, IndexIsInverse, Held
  <1>2. ASSUME NEW request \in Requests, NEW cands \in Candidates, Schedule(request, cands)
        PROVE  IndexInv'
    <2>1. ASSUME NEW s \in Servers, PreRequest(request.prompt, s) PROVE IndexInv'
      <3>1. request.prompt \in Prompts
        BY DEF Requests
      <3>2. Add(PromptHashes(request.prompt), s)
        BY <2>1 DEF PreRequest, CycleHashes
      <3> QED BY <3>1, <3>2, HashesOfPrompt, AddInverse
    <2> QED BY <1>1, <1>2, <2>1, ScheduleAdds
  <1>3. ASSUME NEW s \in Servers, RemoveServer(s) PROVE IndexInv'
    BY <1>3, RemoveServerInverse
  <1>4. CASE Reset
    <2>1. serverToHashes' = [t \in Servers |-> << >>] /\ hashToServers' = << >>
      BY <1>4 DEF Reset
    <2> DEFINE keysOf == serverToHashes'
    <2>2. keysOf = [t \in Servers |-> << >>]
      BY <2>1
    <2> HIDE DEF keysOf
    <2>3. /\ keysOf \in [Servers -> Seq(Seq(Blocks))]
          /\ << >> = InverseOf(keysOf)
          /\ \A t \in Servers : Len(keysOf[t]) <= Capacity /\ IsInjective(keysOf[t])
      BY <2>2, EmptyInverse
    <2> QED BY <2>1, <2>3, InverseNext DEF keysOf
  <1> QED BY <1>1, <1>2, <1>3, <1>4 DEF Next

\* Through adds that evict, removals and resets each of the two maps of the prefix index is
\* the other's inverse, no hash is kept for nobody, and no server has a hash twice or more
\* than the capacity.
THEOREM IndexKept == Spec => []IndexIsInverse
  <1>1. IndexInv => IndexIsInverse
    BY DEF IndexInv
  <1> QED BY <1>1, IndexInit, IndexStep, PTL DEF Spec

\* What a server did not hold of a prompt it holds once the prompt is routed to it.
LEMMA RoutedStays ==
    ASSUME IndexInv, NEW s \in Servers, NEW prompt \in Prompts,
           Capacity >= MaxPrefixBlocks, PreRequest(prompt, s)
    PROVE  ToSet(PromptHashes(prompt)) \ Held(s) \subseteq Held(s)'
  <1> DEFINE hashes == PromptHashes(prompt)
  <1>1. hashes \in Seq(Seq(Blocks)) /\ IsInjective(hashes) /\ Len(hashes) <= MaxPrefixBlocks
    BY HashesOfPrompt
  <1>2. Add(hashes, s)
    BY DEF PreRequest, CycleHashes
  <1> HIDE DEF hashes
  <1>3. Len(hashes) \in Nat /\ Capacity \in Nat /\ MaxPrefixBlocks \in Nat
    BY <1>1, LenProperties, PrefixCacheAssumption
  <1>4. ~(Len(hashes) > Capacity)
    BY <1>1, <1>3
  <1>5. ToSet(hashes) \ Held(s) \subseteq ToSet(serverToHashes'[s])
    BY <1>1, <1>2, <1>4, AddHeld
  <1> QED BY <1>5 DEF hashes, Held

\* What a server did not hold of a prompt it holds once the prompt is routed to it, though
\* entering it evicts, where a server may remember as many hashes as a prompt can have.
THEOREM RoutedHeld == Spec => RoutedIsHeld
  <1> DEFINE A == \A s \in {p \in Servers : serverToHashes'[p] # serverToHashes[p]},
                     prompt \in Prompts :
                     Capacity >= MaxPrefixBlocks /\ PreRequest(prompt, s) =>
                         ToSet(PromptHashes(prompt)) \ Held(s) \subseteq Held(s)'
  <1>1. IndexInv => [A]_vars
    BY RoutedStays
  <1> QED BY <1>1, IndexInit, IndexStep, PTL DEF Spec, RoutedIsHeld

----------------------------------------------------------------------------
(* What the filters leave. *)

\* Picking is from what the filters leave.
LEMMA PicksAreFiltered ==
    ASSUME NEW request, NEW cands PROVE Picks(request, cands) \subseteq Filtered(cands)
  BY DEF Picks, Pick

\* The saturation filter only removes, so it cannot bring back what may not serve.
LEMMA AllowedStay ==
    ASSUME NEW cands, \E s \in DOMAIN cands : cands[s].state \in AllowedStates
    PROVE  Filtered(cands) \subseteq {s \in DOMAIN cands : cands[s].state \in AllowedStates}
  <1> DEFINE allowed == {s \in DOMAIN cands : cands[s].state \in AllowedStates}
  <1>1. WorkerStateFilter(cands, DOMAIN cands) = allowed
    BY DEF WorkerStateFilter, KeepSome
  <1>2. SaturationFilter(cands, allowed) \subseteq allowed
    BY DEF SaturationFilter, KeepSome
  <1> QED
    BY <1>1, <1>2 DEF Filtered

\* Where one of those that may serve has room, only such are left.
LEMMA RoomyStay ==
    ASSUME NEW cands,
           \E s \in DOMAIN cands : cands[s].state \in AllowedStates /\ ~Saturated(cands[s])
    PROVE  Filtered(cands) \subseteq
              {s \in DOMAIN cands : cands[s].state \in AllowedStates /\ ~Saturated(cands[s])}
  <1> DEFINE allowed == {s \in DOMAIN cands : cands[s].state \in AllowedStates}
             roomy == {s \in allowed : ~Saturated(cands[s])}
  <1>1. WorkerStateFilter(cands, DOMAIN cands) = allowed
    BY DEF WorkerStateFilter, KeepSome
  <1>2. roomy # {}
    OBVIOUS
  <1>3. SaturationFilter(cands, allowed) = roomy
    BY <1>2 DEF SaturationFilter, KeepSome
  <1> QED
    BY <1>1, <1>3 DEF Filtered

\* A filter that gives way when nothing is left never undoes the other: a worker that may
\* serve is picked whenever there is one, and of those one with room.
THEOREM Routable == Spec => []PicksRoutable
  <1>1. PicksRoutable
    <2> SUFFICES ASSUME NEW request \in Requests, NEW cands \in Candidates
                 PROVE  LET allowed == {s \in DOMAIN cands : cands[s].state \in AllowedStates}
                            roomy == {s \in allowed : ~Saturated(cands[s])}
                        IN  /\ allowed # {} => Picks(request, cands) \subseteq allowed
                            /\ roomy # {} => Picks(request, cands) \subseteq roomy
      BY DEF PicksRoutable
    <2> DEFINE allowed == {s \in DOMAIN cands : cands[s].state \in AllowedStates}
               roomy == {s \in allowed : ~Saturated(cands[s])}
    <2>1. allowed # {} => Picks(request, cands) \subseteq allowed
      BY PicksAreFiltered, AllowedStay
    <2>2. roomy # {} => Picks(request, cands) \subseteq roomy
      BY PicksAreFiltered, RoomyStay
    <2> QED
      BY <2>1, <2>2
  <1> QED
    BY <1>1, PTL

----------------------------------------------------------------------------
(* The scores. *)

\* The least of a set of numbers.
LEMMA MinSpec ==
    ASSUME NEW S \in SUBSET Nat, S # {}
    PROVE  Min(S) \in S /\ \A x \in S : Min(S) <= x
  <1> DEFINE less == OpToRel(<, Nat)
  <1>1. IsWellFoundedOn(less, Nat)
    BY NatLessThanWellFounded
  <1>2. \A x, y \in Nat : x < y => <<x, y>> \in less
    BY DEF OpToRel
  <1> HIDE DEF less
  <1>3. PICK m \in S : \A x \in S : <<x, m>> \notin less
    BY <1>1, WFMin
  <1>4. ASSUME NEW x \in S PROVE m <= x
    <2>1. m \in Nat /\ x \in Nat /\ ~(x < m)
      BY <1>2, <1>3
    <2> QED BY <2>1
  <1>5. \E y \in S : \A x \in S : y <= x
    BY <1>4
  <1> QED BY <1>5 DEF Min

\* The greatest of finitely many numbers: the one that fewest are above.
LEMMA MaxSpec ==
    ASSUME NEW S \in SUBSET Nat, S # {}, IsFiniteSet(S)
    PROVE  Max(S) \in S /\ \A x \in S : Max(S) >= x
  <1> DEFINE above(x) == {y \in S : y > x}
             counts == {Cardinality(above(x)) : x \in S}
  <1>1. ASSUME NEW x \in S PROVE IsFiniteSet(above(x)) /\ Cardinality(above(x)) \in Nat
    BY FS_Subset, FS_CardinalityType
  <1>2. counts \in SUBSET Nat /\ counts # {}
    BY <1>1
  <1>3. PICK m \in S : Cardinality(above(m)) = Min(counts)
    <2>1. Min(counts) \in counts
      <3> HIDE DEF counts
      <3> QED BY <1>2, MinSpec
    <2> QED BY <2>1
  <1>4. \A x \in S : Cardinality(above(m)) <= Cardinality(above(x))
    <2>1. \A c \in counts : Min(counts) <= c
      <3> HIDE DEF counts
      <3> QED BY <1>2, MinSpec
    <2> QED BY <1>3, <2>1
  <1>5. ASSUME NEW x \in S PROVE m >= x
    <2>1. CASE x > m
      <3>1. above(x) \subseteq above(m) /\ x \in above(m) /\ x \notin above(x)
        <4>1. x \in Nat /\ m \in Nat
          OBVIOUS
        <4>2. \A y \in S : y > x => y > m
          <5>1. \A y \in Nat : y > x => y > m
            BY <2>1, <4>1
          <5> QED BY <5>1
        <4>3. above(x) \subseteq above(m)
          BY <4>2
        <4>4. ~(x > x)
          BY <4>1
        <4> QED BY <2>1, <4>3, <4>4
      <3>2. IsFiniteSet(above(m)) /\ Cardinality(above(x)) \in Nat /\ Cardinality(above(m)) \in Nat
        BY <1>1
      <3> HIDE DEF above
      <3>3. Cardinality(above(x)) < Cardinality(above(m))
        BY <3>1, <3>2, SmallerSubset
      <3>4. Cardinality(above(m)) <= Cardinality(above(x))
        BY <1>4
      <3> QED BY <3>2, <3>3, <3>4
    <2>2. m \in Nat /\ x \in Nat
      OBVIOUS
    <2> QED BY <2>1, <2>2
  <1>6. \E y \in S : \A x \in S : y >= x
    BY <1>5
  <1> QED BY <1>6 DEF Max

\* The least and the greatest of the scores.
LEMMA RangeSpec ==
    ASSUME NEW pods, IsFiniteSet(pods), pods # {}, NEW score \in [pods -> Nat]
    PROVE  /\ Min(Range(score)) \in Nat /\ Max(Range(score)) \in Nat
           /\ \A s \in pods : Min(Range(score)) <= score[s] /\ score[s] <= Max(Range(score))
           /\ \E s \in pods : score[s] = Min(Range(score))
           /\ \E s \in pods : score[s] = Max(Range(score))
  <1> DEFINE R == Range(score)
  <1>1. R \in SUBSET Nat /\ R # {} /\ \A s \in pods : score[s] \in R
    BY DEF Range
  <1>2. \A x \in R : \E s \in pods : score[s] = x
    BY DEF Range
  <1>3. IsFiniteSet(R)
    <2>1. score \in Surjection(pods, R)
      BY <1>1, <1>2 DEF Surjection
    <2> QED BY <2>1, FS_Surjection
  <1> HIDE DEF R
  <1>4. Min(R) \in R /\ \A x \in R : Min(R) <= x
    BY <1>1, MinSpec
  <1>5. Max(R) \in R /\ \A x \in R : Max(R) >= x
    BY <1>1, <1>3, MaxSpec
  <1>6. \A s \in pods : Min(R) <= score[s] /\ score[s] <= Max(R)
    BY <1>1, <1>4, <1>5
  <1>7. Min(R) \in Nat /\ Max(R) \in Nat
    BY <1>1, <1>4, <1>5
  <1> QED BY <1>2, <1>4, <1>5, <1>6, <1>7 DEF R

\* A product grows with a factor.
LEMMA ProductGrows ==
    ASSUME NEW a \in Nat, NEW b \in Nat, NEW c \in Nat, a <= b
    PROVE  c * a <= c * b /\ c * a \in Nat /\ (a < b /\ c > 0 => c * a < c * b)
  <1>1. PICK d \in Nat : b = a + d
    <2>1. b - a \in Nat /\ b = a + (b - a)
      OBVIOUS
    <2> QED BY <2>1
  <1>2. c * b = c * a + c * d /\ c * d \in Nat /\ c * a \in Nat
    BY <1>1
  <1>3. d > 0 /\ c > 0 => c * d > 0
    OBVIOUS
  <1>4. a < b => d > 0
    BY <1>1
  <1>5. c * a <= c * b
    BY <1>2
  <1>6. a < b /\ c > 0 => c * a < c * b
    BY <1>2, <1>3, <1>4
  <1> QED BY <1>2, <1>5, <1>6

\* Stretching by a scale that the width divides has no remainder.
LEMMA Stretched ==
    ASSUME NEW w \in Nat \ {0}, Scale % w = 0, NEW a \in Nat
    PROVE  /\ Scale \div w \in Nat \ {0} /\ Scale = (Scale \div w) * w
           /\ (a * Scale) \div w = (Scale \div w) * a
  <1> DEFINE q == Scale \div w
  <1>1. Scale \in Nat \ {0}
    BY SchedulerProfileAssumption
  <1>2. q \in Int /\ Scale = (w * q) + (Scale % w)
    BY <1>1
  <1>3. Scale = w * q
    BY <1>1, <1>2
  <1> HIDE DEF q
  <1>4. q \in Nat \ {0}
    BY <1>1, <1>2, <1>3
  <1>5. a * Scale = (q * a) * w /\ q * a \in Nat
    BY <1>3, <1>4
  <1>6. \A x \in Nat : (x * w) \div w = x
    OBVIOUS
  <1> QED BY <1>3, <1>4, <1>5, <1>6 DEF q

\* What normalising makes of scores whose width divides the scale: it keeps their order.
LEMMA NormalizedSpec ==
    ASSUME NEW pods, IsFiniteSet(pods), pods # {}, NEW score \in [pods -> Nat],
           LET width == Max(Range(score)) - Min(Range(score)) IN width > 0 => Scale % width = 0
    PROVE  /\ \A s \in pods : Normalized(score)[s] \in 0..Scale
           /\ \A s, p \in pods : score[s] <= score[p] => Normalized(score)[s] <= Normalized(score)[p]
           /\ \A s, p \in pods : score[s] < score[p] => Normalized(score)[s] < Normalized(score)[p]
           /\ \A s \in pods : score[s] = Max(Range(score)) => Normalized(score)[s] = Scale
           /\ \A s, p \in pods :
                 score[s] = Min(Range(score)) /\ score[s] < score[p] => Normalized(score)[s] = 0
  <1> DEFINE low == Min(Range(score))
             high == Max(Range(score))
             w == high - low
             q == Scale \div w
             N == Normalized(score)
  <1>1. /\ low \in Nat /\ high \in Nat
        /\ \A s \in pods : low <= score[s] /\ score[s] <= high /\ score[s] \in Nat
    BY RangeSpec
  <1>2. \E s \in pods : score[s] = low
    BY RangeSpec
  <1>3. w > 0 => Scale % w = 0
    OBVIOUS
  <1>4. DOMAIN score = pods /\ Scale \in Nat \ {0}
    BY SchedulerProfileAssumption
  <1>5. \A s \in pods : N[s] = IF high = low THEN Scale ELSE ((score[s] - low) * Scale) \div (high - low)
    BY <1>4 DEF Normalized
  <1> HIDE DEF low, high, N
  <1>6. CASE high = low
    <2>1. \A s \in pods : score[s] = low /\ N[s] = Scale
      <3>1. \A s \in pods : score[s] = low
        BY <1>1, <1>6
      <3> QED BY <1>5, <1>6, <3>1
    <2>2. /\ \A s \in pods : N[s] \in 0..Scale
          /\ \A s, p \in pods : N[s] <= N[p]
          /\ \A s, p \in pods : ~(score[s] < score[p])
          /\ \A s \in pods : N[s] = Scale
      BY <1>1, <1>4, <2>1
    <2> QED BY <2>2 DEF low, high, N
  <1>7. CASE high # low
    <2>1. w \in Nat \ {0}
      BY <1>1, <1>2, <1>7
    <2>2. Scale % w = 0
      BY <1>3, <2>1
    <2> HIDE DEF q
    <2>3. q \in Nat \ {0} /\ Scale = q * w /\ \A a \in Nat : (a * Scale) \div w = q * a
      BY <2>1, <2>2, Stretched DEF q
    <2>4. ASSUME NEW s \in pods PROVE score[s] - low \in 0..w /\ N[s] = q * (score[s] - low)
      <3>1. score[s] - low \in 0..w
        BY <1>1, <2>1
      <3>2. N[s] = ((score[s] - low) * Scale) \div w
        BY <1>5, <1>7
      <3> QED BY <2>1, <2>3, <3>1, <3>2
    <2> HIDE DEF w
    <2>5. ASSUME NEW s \in pods PROVE N[s] \in 0..Scale
      <3>1. q * (score[s] - low) <= q * w /\ q * (score[s] - low) \in Nat
        <4>1. score[s] - low \in Nat /\ w \in Nat /\ score[s] - low <= w /\ q \in Nat
          BY <2>1, <2>3, <2>4
        <4> QED BY <4>1, ProductGrows
      <3> QED BY <1>4, <2>3, <2>4, <3>1
    <2>6. ASSUME NEW s \in pods, NEW p \in pods, score[s] <= score[p]
          PROVE  N[s] <= N[p] /\ (score[s] < score[p] => N[s] < N[p])
      <3> DEFINE a == score[s] - low
                 b == score[p] - low
      <3>1. a \in Nat /\ b \in Nat /\ q \in Nat /\ q > 0
        BY <2>1, <2>3, <2>4
      <3>2. a <= b /\ (score[s] < score[p] => a < b)
        BY <1>1, <2>6
      <3>3. N[s] = q * a /\ N[p] = q * b
        BY <2>4
      <3> HIDE DEF a, b
      <3>4. q * a <= q * b /\ (a < b => q * a < q * b)
        BY <3>1, <3>2, ProductGrows
      <3> QED BY <3>2, <3>3, <3>4
    <2>7. ASSUME NEW s \in pods, score[s] = high PROVE N[s] = Scale
      <3>1. score[s] - low = w
        BY <2>7 DEF w
      <3> QED BY <2>3, <2>4, <3>1
    <2>8. ASSUME NEW s \in pods, score[s] = low PROVE N[s] = 0
      <3>1. score[s] - low = 0
        BY <1>1, <2>8
      <3> QED BY <2>3, <2>4, <3>1
    <2>9. \A s, p \in pods : score[s] < score[p] => score[s] <= score[p]
      BY <1>1
    <2> QED BY <2>5, <2>6, <2>7, <2>8, <2>9 DEF low, high, N
  <1> QED BY <1>6, <1>7

\* How much of a prompt a server holds.
LEMMA MatchesSpec ==
    ASSUME NEW hashes \in Seq(Seq(Blocks)), NEW s PROVE Matches(hashes, s) \in 0..Len(hashes)
  <1> DEFINE at == {i \in DOMAIN hashes : s \in Get(hashes[i])}
  <1>1. Len(hashes) \in Nat /\ DOMAIN hashes = 1..Len(hashes)
    BY LenProperties
  <1>2. IsFiniteSet(1..Len(hashes)) /\ Cardinality(1..Len(hashes)) = Len(hashes)
    BY <1>1, IntervalSize
  <1>3. at \subseteq 1..Len(hashes)
    BY <1>1
  <1> HIDE DEF at
  <1>4. Cardinality(at) \in Nat /\ Cardinality(at) <= Len(hashes)
    BY <1>2, <1>3, FS_Subset, FS_CardinalityType
  <1> QED BY <1>1, <1>4 DEF Matches, at

\* The width of the prefix scores divides the scale.
LEMMA PrefixScore ==
    ASSUME NEW prompt \in Prompts, NEW pods, IsFiniteSet(pods), pods # {}
    PROVE  LET score == Score(PromptHashes(prompt), pods)
               width == Max(Range(score)) - Min(Range(score))
           IN  score \in [pods -> Nat] /\ (width > 0 => Scale % width = 0)
  <1> DEFINE hashes == PromptHashes(prompt)
             score == Score(hashes, pods)
  <1>1. hashes \in Seq(Seq(Blocks)) /\ Len(hashes) <= MaxPrefixBlocks
    BY HashesOfPrompt
  <1>2. Len(hashes) \in Nat /\ MaxPrefixBlocks \in Nat
    BY <1>1, LenProperties, PrefixCacheAssumption
  <1> HIDE DEF hashes
  <1>3. \A s \in pods : Matches(hashes, s) \in 0..Len(hashes)
    BY <1>1, MatchesSpec
  <1>4. score \in [pods -> 0..Len(hashes)]
    BY <1>2, <1>3 DEF Score
  <1> HIDE DEF score
  <1>5. score \in [pods -> Nat]
    BY <1>2, <1>4
  <1>6. /\ \E s \in pods : score[s] = Min(Range(score))
        /\ \E s \in pods : score[s] = Max(Range(score))
    BY <1>5, RangeSpec
  <1>7. Min(Range(score)) \in 0..Len(hashes) /\ Max(Range(score)) \in 0..Len(hashes)
    BY <1>4, <1>6
  <1> DEFINE width == Max(Range(score)) - Min(Range(score))
  <1>8. width > 0 => width \in 1..MaxPrefixBlocks
    BY <1>1, <1>2, <1>7
  <1> HIDE DEF width
  <1>9. width > 0 => Scale % width = 0
    BY <1>8, SchedulerProfileAssumption
  <1> QED BY <1>5, <1>9 DEF width, score, hashes

\* So does the width of the waiting scores, which are the higher the fewer are waiting.
LEMMA WaitingSpec ==
    ASSUME NEW pods, IsFiniteSet(pods), pods # {}, NEW cands,
           \A s \in pods : cands[s] \in Attributes
    PROVE  LET score == WaitingScore(cands, pods)
               width == Max(Range(score)) - Min(Range(score))
           IN  /\ score \in [pods -> Nat] /\ (width > 0 => Scale % width = 0)
               /\ \A s, p \in pods : cands[p].waiting <= cands[s].waiting => score[s] <= score[p]
               /\ \A s, p \in pods : cands[p].waiting < cands[s].waiting => score[s] < score[p]
  <1> DEFINE waiting == [s \in pods |-> cands[s].waiting]
             top == Max({cands[p].waiting : p \in pods})
             score == WaitingScore(cands, pods)
  <1>1. waiting \in [pods -> Nat]
    BY SchedulerProfileAssumption
  <1>2. Range(waiting) = {cands[p].waiting : p \in pods}
    BY DEF Range
  <1> HIDE DEF waiting
  <1>3. top \in Nat /\ \A s \in pods : waiting[s] \in Nat /\ waiting[s] <= top
    BY <1>1, <1>2, RangeSpec
  <1>4. \A s \in pods : waiting[s] = cands[s].waiting
    BY DEF waiting
  <1>5. score = [s \in pods |-> top - cands[s].waiting]
    BY DEF WaitingScore
  <1> HIDE DEF top, score
  <1>6. \A s \in pods : score[s] = top - waiting[s] /\ score[s] \in Nat
    BY <1>3, <1>4, <1>5
  <1>7. score \in [pods -> Nat]
    BY <1>5, <1>6
  <1>8. PICK a \in pods, b \in pods : score[a] = Min(Range(score)) /\ score[b] = Max(Range(score))
    BY <1>7, RangeSpec
  <1> DEFINE width == Max(Range(score)) - Min(Range(score))
  <1>9. width = cands[a].waiting - cands[b].waiting
    BY <1>3, <1>4, <1>6, <1>8
  <1>10. cands[a].waiting \in Nat /\ cands[b].waiting \in Nat
    BY <1>3, <1>4
  <1> HIDE DEF width
  <1>11. width > 0 => cands[a].waiting > cands[b].waiting
    BY <1>9, <1>10
  <1>12. width > 0 => Scale % width = 0
    BY <1>9, <1>11, SchedulerProfileAssumption
  <1>13. \A s, p \in pods : cands[p].waiting <= cands[s].waiting => score[s] <= score[p]
    BY <1>3, <1>4, <1>6
  <1>14. \A s, p \in pods : cands[p].waiting < cands[s].waiting => score[s] < score[p]
    BY <1>3, <1>4, <1>6
  <1> QED BY <1>7, <1>12, <1>13, <1>14 DEF width, score

\* The width of the sticky scores is one at most.
LEMMA StickySpec ==
    ASSUME NEW pods, IsFiniteSet(pods), pods # {}, NEW session
    PROVE  LET score == StickyScore(session, pods)
               width == Max(Range(score)) - Min(Range(score))
           IN  score \in [pods -> Nat] /\ (width > 0 => Scale % width = 0)
  <1> DEFINE score == StickyScore(session, pods)
             width == Max(Range(score)) - Min(Range(score))
  <1>1. score \in [pods -> 0..1]
    BY DEF StickyScore
  <1> HIDE DEF score
  <1>2. score \in [pods -> Nat]
    BY <1>1
  <1>3. PICK a \in pods, b \in pods : score[a] = Min(Range(score)) /\ score[b] = Max(Range(score))
    BY <1>2, RangeSpec
  <1>4. width > 0 => width = 1
    BY <1>1, <1>3
  <1>5. Scale % 1 = 0
    BY SchedulerProfileAssumption
  <1> HIDE DEF width
  <1>6. width > 0 => Scale % width = 0
    BY <1>4, <1>5
  <1> QED BY <1>2, <1>6 DEF width, score

\* The filtered candidates are finitely many servers with reports.
LEMMA PodsSpec ==
    ASSUME NEW cands \in Candidates
    PROVE  /\ IsFiniteSet(Filtered(cands)) /\ Filtered(cands) # {} /\ Filtered(cands) \subseteq Servers
           /\ \A s \in Filtered(cands) : cands[s] \in Attributes
  <1>1. /\ Filtered(cands) \subseteq DOMAIN cands /\ DOMAIN cands \subseteq Servers
        /\ Filtered(cands) # {} /\ cands \in [DOMAIN cands -> Attributes]
    BY FilteredSpec
  <1>2. Filtered(cands) \in SUBSET Servers
    BY <1>1
  <1>3. IsFiniteSet(Filtered(cands))
    BY <1>2, FS_Subset, PrefixCacheAssumption
  <1>4. \A s \in DOMAIN cands : cands[s] \in Attributes
    BY <1>1
  <1> QED BY <1>1, <1>2, <1>3, <1>4

\* The picker of one takes none that another exceeds, and takes one that no other equals.
LEMMA PickSpec ==
    ASSUME NEW pods, IsFiniteSet(pods), NEW total \in [pods -> Int], MaxNum = 1
    PROVE  Pick(total, pods) = {s \in pods : \A p \in pods : ~(total[p] > total[s])}
  <1>1. ASSUME NEW s \in pods
        PROVE  Cardinality({p \in pods : total[p] > total[s]}) < 1
                  <=> \A p \in pods : ~(total[p] > total[s])
    <2> DEFINE above == {p \in pods : total[p] > total[s]}
    <2>1. IsFiniteSet(above)
      BY FS_Subset
    <2>2. above = {} <=> \A p \in pods : ~(total[p] > total[s])
      OBVIOUS
    <2> HIDE DEF above
    <2>3. Cardinality(above) \in Nat /\ (Cardinality(above) = 0 <=> above = {})
      BY <2>1, FS_CardinalityType, FS_EmptySet
    <2>4. Cardinality(above) < 1 <=> \A p \in pods : ~(total[p] > total[s])
      BY <2>2, <2>3
    <2> QED BY <2>4 DEF above
  <1> QED BY <1>1 DEF Pick

\* The three scores as the profile weights them.
StickyPart(request, pods) == Normalized(StickyScore(request.session, pods))
PrefixPart(request, pods) == Normalized(Score(PromptHashes(request.prompt), pods))
WaitingPart(cands, pods) == Normalized(WaitingScore(cands, pods))

\* The total is the weighted sum of numbers up to the scale.
LEMMA TotalSpec ==
    ASSUME NEW request \in Requests, NEW cands \in Candidates
    PROVE  LET pods == Filtered(cands)
               total == Total(request, cands, pods)
           IN  /\ total \in [pods -> Nat]
               /\ \A s \in pods :
                     /\ StickyPart(request, pods)[s] \in 0..Scale
                     /\ PrefixPart(request, pods)[s] \in 0..Scale
                     /\ WaitingPart(cands, pods)[s] \in 0..Scale
                     /\ total[s] = StickyWeight * StickyPart(request, pods)[s]
                                      + PrefixWeight * PrefixPart(request, pods)[s]
                                      + WaitingWeight * WaitingPart(cands, pods)[s]
  <1> DEFINE pods == Filtered(cands)
             total == Total(request, cands, pods)
             x == StickyPart(request, pods)
             y == PrefixPart(request, pods)
             z == WaitingPart(cands, pods)
  <1>1. IsFiniteSet(pods) /\ pods # {} /\ \A s \in pods : cands[s] \in Attributes
    BY PodsSpec
  <1>2. request.prompt \in Prompts
    BY DEF Requests
  <1> HIDE DEF pods
  <1>3. \A s \in pods : x[s] \in 0..Scale
    BY <1>1, StickySpec, NormalizedSpec DEF StickyPart
  <1>4. \A s \in pods : y[s] \in 0..Scale
    BY <1>1, <1>2, PrefixScore, NormalizedSpec DEF PrefixPart
  <1>5. \A s \in pods : z[s] \in 0..Scale
    BY <1>1, WaitingSpec, NormalizedSpec DEF WaitingPart
  <1>6. total = [s \in pods |-> StickyWeight * x[s] + PrefixWeight * y[s] + WaitingWeight * z[s]]
    BY DEF Total, StickyPart, PrefixPart, WaitingPart
  <1> HIDE DEF total, x, y, z
  <1>7. \A a, b \in Nat : a * b \in Nat
    OBVIOUS
  <1>8. /\ StickyWeight \in Nat /\ PrefixWeight \in Nat /\ WaitingWeight \in Nat
        /\ Scale \in Nat
    BY SchedulerProfileAssumption
  <1>9. ASSUME NEW s \in pods
        PROVE  StickyWeight * x[s] + PrefixWeight * y[s] + WaitingWeight * z[s] \in Nat
    <2>1. x[s] \in Nat /\ y[s] \in Nat /\ z[s] \in Nat
      BY <1>3, <1>4, <1>5
    <2>2. StickyWeight * x[s] \in Nat /\ PrefixWeight * y[s] \in Nat /\ WaitingWeight * z[s] \in Nat
      BY <1>7, <1>8, <2>1
    <2> QED BY <2>2
  <1>10. total \in [pods -> Nat]
    BY <1>6, <1>9
  <1> QED BY <1>3, <1>4, <1>5, <1>6, <1>10 DEF total, x, y, z, pods

\* A session is ranked over all servers, so one of the candidates is selected.
LEMMA SelectedSpec ==
    ASSUME NEW session \in SessionIds, NEW pods \in SUBSET Servers, pods # {}
    PROVE  Selected(session, pods) \in pods /\ session # NoSession
  <1> DEFINE n == Cardinality(Servers)
             at == {i \in DOMAIN session : session[i] \in pods}
  <1>1. IsFiniteSet(Servers) /\ n \in Nat
    BY PrefixCacheAssumption, FS_CardinalityType
  <1>2. IsFiniteSet(1..n) /\ Cardinality(1..n) = n
    BY <1>1, IntervalSize
  <1>3. session \in [1..n -> Servers] /\ \A i, k \in 1..n : i # k => session[i] # session[k]
    BY DEF SessionIds, SetToSeqs
  <1>4. session \in Injection(1..n, Servers)
    BY <1>3 DEF Injection, IsInjective
  <1>5. session \in Surjection(1..n, Servers)
    <2> HIDE DEF at
    <2> QED BY <1>1, <1>2, <1>4, FS_Injection
  <1>6. \A s \in Servers : \E i \in 1..n : session[i] = s
    BY <1>5 DEF Surjection
  <1>7. DOMAIN session = 1..n
    BY <1>3
  <1> HIDE DEF n
  <1>8. at \in SUBSET Nat /\ at # {} /\ \A i \in at : session[i] \in pods
    <2>1. PICK s \in pods : s \in Servers
      OBVIOUS
    <2>2. PICK i \in 1..n : session[i] = s
      BY <1>6, <2>1
    <2> QED BY <1>1, <1>7, <2>1, <2>2
  <1> HIDE DEF at
  <1>9. Min(at) \in at
    BY <1>8, MinSpec
  <1>10. session[Min(at)] \in pods
    BY <1>8, <1>9
  <1>11. session # << >>
    <2>1. PICK i \in 1..n : i \in DOMAIN session
      BY <1>6, <1>7, PrefixCacheAssumption
    <2>2. DOMAIN << >> = {}
      OBVIOUS
    <2> QED BY <2>1, <2>2
  <1> QED BY <1>10, <1>11 DEF Selected, NoSession, at

\* The selected candidate's sticky part counts in full, another's not at all.
LEMMA StickyParts ==
    ASSUME NEW request \in Requests, request.session # NoSession, NEW cands \in Candidates
    PROVE  LET pods == Filtered(cands)
               best == Selected(request.session, pods)
           IN  /\ best \in pods /\ StickyPart(request, pods)[best] = Scale
               /\ \A s \in pods \ {best} : StickyPart(request, pods)[s] = 0
  <1> DEFINE pods == Filtered(cands)
             best == Selected(request.session, pods)
             score == StickyScore(request.session, pods)
             N == Normalized(score)
  <1>1. IsFiniteSet(pods) /\ pods # {} /\ pods \in SUBSET Servers
    BY PodsSpec
  <1> HIDE DEF pods
  <1>2. request.session \in SessionIds
    BY DEF Requests
  <1>3. best \in pods
    BY <1>1, <1>2, SelectedSpec
  <1>4. score \in [pods -> Nat] /\ score[best] = 1 /\ \A s \in pods \ {best} : score[s] = 0
    BY <1>3 DEF StickyScore
  <1>5. /\ \A s \in pods : score[s] = Max(Range(score)) => N[s] = Scale
        /\ \A s, p \in pods : score[s] = Min(Range(score)) /\ score[s] < score[p] => N[s] = 0
    <2>1. LET width == Max(Range(score)) - Min(Range(score)) IN width > 0 => Scale % width = 0
      BY <1>1, StickySpec
    <2> HIDE DEF score
    <2> QED BY <1>1, <1>4, <2>1, NormalizedSpec
  <1> HIDE DEF score, best, N
  <1>6. /\ \A s \in pods : Min(Range(score)) <= score[s] /\ score[s] <= Max(Range(score))
        /\ Min(Range(score)) \in Nat /\ Max(Range(score)) \in Nat
        /\ \E s \in pods : score[s] = Max(Range(score))
    BY <1>1, <1>4, RangeSpec
  <1>7. N[best] = Scale
    <2>1. \A s \in pods : score[s] <= 1
      BY <1>4
    <2>2. Max(Range(score)) <= 1 /\ 1 <= Max(Range(score))
      BY <1>3, <1>4, <1>6, <2>1
    <2> QED BY <1>3, <1>4, <1>5, <1>6, <2>2
  <1>8. ASSUME NEW s \in pods \ {best} PROVE N[s] = 0
    <2>1. score[s] = 0 /\ Min(Range(score)) <= 0
      BY <1>4, <1>6
    <2>2. score[s] = Min(Range(score)) /\ score[s] < score[best]
      BY <1>4, <1>6, <2>1
    <2> QED BY <1>3, <1>5, <2>2
  <1> QED BY <1>3, <1>7, <1>8 DEF StickyPart, N, score, best, pods

\* A weight above the sum of the others outweighs them.
LEMMA Outweighs ==
    ASSUME NEW a \in Nat, NEW b \in Nat, NEW c \in Nat, NEW m \in Nat \ {0}, a > b + c,
           NEW x \in 0..m, NEW y \in 0..m, NEW u \in 0..m, NEW v \in 0..m
    PROVE  a * m + b * u + c * v > a * 0 + b * x + c * y
  <1>1. b * x <= b * m /\ c * y <= c * m /\ (b + c) * m < a * m
    <2>1. /\ x \in Nat /\ y \in Nat /\ m \in Nat /\ x <= m /\ y <= m
          /\ b + c \in Nat /\ b + c < a /\ m > 0
      OBVIOUS
    <2>2. m * (b + c) < m * a
      BY <2>1, ProductGrows
    <2>3. b * x <= b * m /\ c * y <= c * m
      BY <2>1, ProductGrows
    <2> QED BY <2>2, <2>3
  <1>2. (b + c) * m = b * m + c * m
    OBVIOUS
  <1>3. /\ b * x \in Nat /\ c * y \in Nat /\ b * m \in Nat /\ c * m \in Nat /\ a * m \in Nat
        /\ b * u \in Nat /\ c * v \in Nat /\ a * 0 = 0
    <2>1. x \in Nat /\ y \in Nat /\ m \in Nat /\ u \in Nat /\ v \in Nat
      OBVIOUS
    <2>2. \A i, k \in Nat : i * k \in Nat
      OBVIOUS
    <2> QED BY <2>1, <2>2
  <1> QED BY <1>1, <1>2, <1>3

\* A session goes where it is ranked first of those that the filters leave, whatever the
\* index holds and the candidates report, where its weight is above the others' sum.
THEOREM Sessions == Spec => []SessionKept
  <1>1. SessionKept
    <2> SUFFICES ASSUME StickyWeight > PrefixWeight + WaitingWeight, MaxNum = 1,
                        NEW request \in Requests, NEW cands \in Candidates,
                        request.session # NoSession
                 PROVE  Picks(request, cands) = {Selected(request.session, Filtered(cands))}
      BY DEF SessionKept
    <2> DEFINE pods == Filtered(cands)
               best == Selected(request.session, pods)
               total == Total(request, cands, pods)
               x == StickyPart(request, pods)
               y == PrefixPart(request, pods)
               z == WaitingPart(cands, pods)
    <2>1. IsFiniteSet(pods)
      BY PodsSpec
    <2>2. best \in pods /\ x[best] = Scale /\ \A s \in pods \ {best} : x[s] = 0
      BY StickyParts
    <2>3. /\ total \in [pods -> Nat]
          /\ \A s \in pods : /\ y[s] \in 0..Scale /\ z[s] \in 0..Scale
                             /\ total[s] = StickyWeight * x[s] + PrefixWeight * y[s]
                                              + WaitingWeight * z[s]
      BY TotalSpec
    <2>4. /\ StickyWeight \in Nat /\ PrefixWeight \in Nat /\ WaitingWeight \in Nat
          /\ Scale \in Nat \ {0} /\ StickyWeight > PrefixWeight + WaitingWeight
      BY SchedulerProfileAssumption
    <2>5. Picks(request, cands) = Pick(total, pods)
      BY DEF Picks
    <2> HIDE DEF pods, best, total, x, y, z
    <2>6. ASSUME NEW s \in pods \ {best} PROVE total[best] > total[s]
      <3>1. /\ total[best] = StickyWeight * Scale + PrefixWeight * y[best] + WaitingWeight * z[best]
            /\ total[s] = StickyWeight * 0 + PrefixWeight * y[s] + WaitingWeight * z[s]
        BY <2>2, <2>3
      <3>2. y[s] \in 0..Scale /\ z[s] \in 0..Scale /\ y[best] \in 0..Scale /\ z[best] \in 0..Scale
        BY <2>2, <2>3
      <3>3. StickyWeight * Scale + PrefixWeight * y[best] + WaitingWeight * z[best]
               > StickyWeight * 0 + PrefixWeight * y[s] + WaitingWeight * z[s]
        BY ONLY <2>4, <3>2, Outweighs
      <3> QED BY <3>1, <3>3
    <2>7. total \in [pods -> Int]
      BY <2>3
    <2>8. Pick(total, pods) = {s \in pods : \A p \in pods : ~(total[p] > total[s])}
      BY <2>1, <2>7, PickSpec
    <2>9. \A p \in pods : ~(total[p] > total[best])
      <3>1. ASSUME NEW p \in pods PROVE ~(total[p] > total[best])
        <4>1. total[p] \in Int /\ total[best] \in Int
          BY <2>2, <2>7
        <4>2. CASE p = best
          BY <4>1, <4>2
        <4>3. CASE p # best
          BY <2>6, <4>1, <4>3
        <4> QED BY <4>2, <4>3
      <3> QED BY <3>1
    <2>10. Pick(total, pods) = {best}
      BY <2>2, <2>6, <2>8, <2>9
    <2> QED BY <2>5, <2>10 DEF best, pods
  <1> QED BY <1>1, PTL

\* Without a session all sticky parts are equal.
LEMMA NoSessionParts ==
    ASSUME NEW request \in Requests, request.session = NoSession, NEW cands \in Candidates,
           NEW s \in Filtered(cands), NEW p \in Filtered(cands)
    PROVE  StickyPart(request, Filtered(cands))[s] = StickyPart(request, Filtered(cands))[p]
  <1> DEFINE score == StickyScore(request.session, Filtered(cands))
  <1>1. DOMAIN score = Filtered(cands) /\ score[s] = 0 /\ score[p] = 0
    BY DEF StickyScore
  <1> HIDE DEF score
  <1>2. Normalized(score)[s] = Normalized(score)[p]
    BY <1>1 DEF Normalized
  <1> QED BY <1>2 DEF StickyPart, score

\* Where no ratio is asked for, a prompt of which someone holds a block is not novel.
LEMMA KnownScore ==
    ASSUME NEW hashes \in Seq(Seq(Blocks)), NEW pods, IsFiniteSet(pods), RatioNum = 0,
           NEW p \in pods, Matches(hashes, p) > 0
    PROVE  Score(hashes, pods) = [s \in pods |-> Matches(hashes, s)]
  <1>1. Len(hashes) \in Nat /\ \A s : Matches(hashes, s) \in 0..Len(hashes)
    BY MatchesSpec, LenProperties
  <1>2. Len(hashes) # 0
    BY <1>1
  <1>3. MaxScore(hashes, pods) \in Nat
    <2> DEFINE S == {0} \cup {Matches(hashes, s) : s \in {q \in pods : Matches(hashes, q) > 1}}
    <2>1. S \in SUBSET (0..Len(hashes)) /\ S # {}
      BY <1>1
    <2>2. IsFiniteSet(0..Len(hashes))
      BY <1>1, FS_Interval
    <2> HIDE DEF S
    <2>3. IsFiniteSet(S) /\ S \in SUBSET Nat
      <3>1. IsFiniteSet(S)
        BY <2>1, <2>2, FS_Subset
      <3> QED BY <2>1, <3>1
    <2>4. Max(S) \in Nat
      BY <2>1, <2>3, MaxSpec
    <2> QED BY <2>4 DEF MaxScore, S
  <1>4. ~Novel(hashes, pods)
    <2>1. ~(\A s \in pods : Matches(hashes, s) = 0)
      BY <1>1
    <2>2. ~(MaxScore(hashes, pods) * RatioDen < Len(hashes) * RatioNum)
      <3>1. RatioDen \in Nat
        BY PrefixCacheAssumption
      <3>2. MaxScore(hashes, pods) * RatioDen \in Nat /\ Len(hashes) * 0 = 0
        BY <1>1, <1>3, <3>1
      <3> QED BY <3>2
    <2> QED BY <2>1, <2>2 DEF Novel
  <1> QED BY <1>2, <1>4 DEF Score

\* Of two sums with the same first term, one is greater that is so in a weighted part
\* and not less in the other.
LEMMA GreaterSum ==
    ASSUME NEW a \in Nat, NEW b \in Nat \ {0}, NEW c \in Nat \ {0}, NEW t \in Nat,
           NEW x \in Nat, NEW y \in Nat, NEW u \in Nat, NEW v \in Nat,
           x <= u, y <= v, x < u \/ y < v
    PROVE  a * t + b * u + c * v > a * t + b * x + c * y
  <1>1. b * x <= b * u /\ (x < u => b * x < b * u)
    BY ProductGrows
  <1>2. c * y <= c * v /\ (y < v => c * y < c * v)
    BY ProductGrows
  <1>3. a * t \in Nat /\ b * x \in Nat /\ b * u \in Nat /\ c * y \in Nat /\ c * v \in Nat
    <2>1. \A i, k \in Nat : i * k \in Nat
      OBVIOUS
    <2> QED BY <2>1
  <1> QED BY <1>1, <1>2, <1>3

\* No candidate is picked over one that holds no less of a known prompt, has no more waiting
\* and is better in one of the two, whatever the weights and the index.
THEOREM Undominated == Spec => []PicksUndominated
  <1>1. PicksUndominated
    <2> SUFFICES ASSUME MaxNum = 1, RatioNum = 0, PrefixWeight > 0, WaitingWeight > 0,
                        NEW request \in Requests, request.session = NoSession,
                        NEW cands \in Candidates,
                        NEW s \in Picks(request, cands), NEW p \in Filtered(cands),
                        Matches(PromptHashes(request.prompt), p) > 0,
                        Matches(PromptHashes(request.prompt), p)
                            >= Matches(PromptHashes(request.prompt), s),
                        cands[p].waiting <= cands[s].waiting,
                        \/ Matches(PromptHashes(request.prompt), p)
                              > Matches(PromptHashes(request.prompt), s)
                        \/ cands[p].waiting < cands[s].waiting
                 PROVE  FALSE
      BY DEF PicksUndominated
    <2> DEFINE pods == Filtered(cands)
               hashes == PromptHashes(request.prompt)
               total == Total(request, cands, pods)
               x == StickyPart(request, pods)
               y == PrefixPart(request, pods)
               z == WaitingPart(cands, pods)
    <2>1. IsFiniteSet(pods) /\ pods # {} /\ \A t \in pods : cands[t] \in Attributes
      BY PodsSpec
    <2>2. s \in pods /\ p \in pods
      BY PicksAreFiltered
    <2>3. request.prompt \in Prompts
      BY DEF Requests
    <2>4. hashes \in Seq(Seq(Blocks))
      BY <2>3, HashesOfPrompt
    <2>5. /\ total \in [pods -> Nat]
          /\ \A t \in pods : /\ x[t] \in 0..Scale /\ y[t] \in 0..Scale /\ z[t] \in 0..Scale
                             /\ total[t] = StickyWeight * x[t] + PrefixWeight * y[t]
                                              + WaitingWeight * z[t]
      BY TotalSpec
    <2>6. x[s] = x[p]
      BY <2>2, NoSessionParts
    <2>7. ~(total[p] > total[s])
      <3>1. s \in Pick(total, pods)
        BY DEF Picks
      <3>2. total \in [pods -> Int]
        BY <2>5
      <3> HIDE DEF pods, total
      <3> QED BY <2>1, <2>2, <3>1, <3>2, PickSpec
    <2>8. Matches(hashes, s) \in Nat /\ Matches(hashes, p) \in Nat
      BY <2>4, MatchesSpec
    <2> HIDE DEF pods, total, x
    <2>9. y[s] <= y[p] /\ (Matches(hashes, p) > Matches(hashes, s) => y[s] < y[p])
      <3> DEFINE score == Score(hashes, pods)
      <3>1. score = [t \in pods |-> Matches(hashes, t)]
        BY <2>1, <2>2, <2>4, KnownScore
      <3>2. score[s] <= score[p] /\ (Matches(hashes, p) > Matches(hashes, s) => score[s] < score[p])
        BY <2>2, <2>8, <3>1
      <3>3. /\ score \in [pods -> Nat]
            /\ LET width == Max(Range(score)) - Min(Range(score))
               IN  width > 0 => Scale % width = 0
        BY <2>1, <2>3, PrefixScore
      <3>4. y = Normalized(score)
        BY DEF PrefixPart
      <3> HIDE DEF score, y, hashes
      <3>5. /\ score[s] <= score[p] => y[s] <= y[p]
            /\ score[s] < score[p] => y[s] < y[p]
        BY <2>1, <2>2, <3>3, <3>4, NormalizedSpec
      <3> QED BY <3>2, <3>5
    <2>10. z[s] <= z[p] /\ (cands[p].waiting < cands[s].waiting => z[s] < z[p])
      <3> DEFINE score == WaitingScore(cands, pods)
      <3>1. /\ score \in [pods -> Nat]
            /\ LET width == Max(Range(score)) - Min(Range(score))
               IN  width > 0 => Scale % width = 0
            /\ score[s] <= score[p]
            /\ cands[p].waiting < cands[s].waiting => score[s] < score[p]
        BY <2>1, <2>2, WaitingSpec
      <3>2. z = Normalized(score)
        BY DEF WaitingPart
      <3> HIDE DEF score, z
      <3>3. /\ score[s] <= score[p] => z[s] <= z[p]
            /\ score[s] < score[p] => z[s] < z[p]
        BY <2>1, <2>2, <3>1, <3>2, NormalizedSpec
      <3> QED BY <3>1, <3>3
    <2>11. y[s] < y[p] \/ z[s] < z[p]
      BY <2>9, <2>10
    <2>12. /\ StickyWeight \in Nat /\ PrefixWeight \in Nat \ {0} /\ WaitingWeight \in Nat \ {0}
           /\ Scale \in Nat
      BY SchedulerProfileAssumption
    <2> HIDE DEF y, z
    <2>13. x[s] \in Nat /\ y[s] \in Nat /\ z[s] \in Nat /\ y[p] \in Nat /\ z[p] \in Nat
      BY <2>2, <2>5, <2>12
    <2>14. /\ total[s] = StickyWeight * x[s] + PrefixWeight * y[s] + WaitingWeight * z[s]
           /\ total[p] = StickyWeight * x[s] + PrefixWeight * y[p] + WaitingWeight * z[p]
      BY <2>2, <2>5, <2>6
    <2>15. total[p] > total[s]
      BY ONLY <2>9, <2>10, <2>11, <2>12, <2>13, <2>14, GreaterSum
    <2> QED BY <2>7, <2>15
  <1> QED BY <1>1, PTL
=============================================================================
