-------------------------- MODULE DecodeSave_proofs --------------------------
(* That what is saved while decoding is right, that requests compute on their own KV, and  *)
(* that decode steps catch up: for any requests, blocks, budgets and orders of steps,      *)
(* preemptions and puts.                                                                   *)
EXTENDS DecodeSave, FiniteSetTheorems, SequenceTheorems, WellFoundedInduction, TLAPS

----------------------------------------------------------------------------
(* Counting blocks.                                                        *)

LEMMA FullBlocksSpec ==
    ASSUME NEW n \in Nat
    PROVE  /\ FullBlocks(n) \in Nat
           /\ FullBlocks(n) * BlockSize <= n /\ n < (FullBlocks(n) + 1) * BlockSize
  BY DecodeSaveAssumption DEF FullBlocks

LEMMA BlocksForSpec ==
    ASSUME NEW n \in Nat
    PROVE  /\ BlocksFor(n) \in Nat
           /\ n <= BlocksFor(n) * BlockSize /\ BlocksFor(n) * BlockSize < n + BlockSize
  BY DecodeSaveAssumption DEF BlocksFor

\* i full blocks need i * BlockSize tokens, and the other way round.
LEMMA FullIff ==
    ASSUME NEW n \in Nat, NEW i \in Nat
    PROVE  i <= FullBlocks(n) <=> i * BlockSize <= n
<1>1. /\ FullBlocks(n) \in Nat /\ BlockSize \in Nat \ {0}
      /\ FullBlocks(n) * BlockSize <= n /\ n < (FullBlocks(n) + 1) * BlockSize
  BY FullBlocksSpec, DecodeSaveAssumption
<1> DEFINE f == FullBlocks(n)
<1> HIDE DEF f
<1>2. ASSUME i <= f PROVE i * BlockSize <= n
  <2>1. i * BlockSize <= f * BlockSize
    BY <1>1, <1>2 DEF f
  <2> QED BY <1>1, <2>1 DEF f
<1>3. ASSUME i > f PROVE i * BlockSize > n
  <2>1. (f + 1) * BlockSize <= i * BlockSize
    BY <1>1, <1>3 DEF f
  <2> QED BY <1>1, <2>1 DEF f
<1> QED BY <1>1, <1>2, <1>3 DEF f

LEMMA FullMonotone ==
    ASSUME NEW m \in Nat, NEW n \in Nat, m <= n
    PROVE  FullBlocks(m) <= FullBlocks(n)
<1>1. FullBlocks(m) \in Nat /\ FullBlocks(n) \in Nat /\ BlockSize \in Nat
  BY FullBlocksSpec, DecodeSaveAssumption
<1>2. FullBlocks(m) * BlockSize <= n
  BY <1>1, FullBlocksSpec
<1> QED BY <1>1, <1>2, FullIff

LEMMA BlocksForBounds ==
    ASSUME NEW m \in Nat, NEW n \in Nat, m <= n
    PROVE  BlocksFor(m) <= BlocksFor(n) /\ FullBlocks(m) <= BlocksFor(n)
<1>1. /\ BlocksFor(m) \in Nat /\ BlocksFor(n) \in Nat /\ BlockSize \in Nat \ {0}
      /\ FullBlocks(m) \in Nat
  BY FullBlocksSpec, BlocksForSpec, DecodeSaveAssumption
<1> DEFINE a == BlocksFor(m)  b == BlocksFor(n)  f == FullBlocks(m)
<1>2. a * BlockSize < m + BlockSize /\ n <= b * BlockSize /\ f * BlockSize <= m
  BY BlocksForSpec, FullBlocksSpec
<1> HIDE DEF a, b, f
<1>3. ASSUME a >= b + 1 PROVE FALSE
  <2>1. (b + 1) * BlockSize <= a * BlockSize
    BY <1>1, <1>3 DEF a, b
  <2>2. (b + 1) * BlockSize = b * BlockSize + BlockSize
    BY <1>1 DEF b
  <2>3. b * BlockSize \in Nat /\ a * BlockSize \in Nat
    BY <1>1 DEF a, b
  <2> QED BY <1>1, <1>2, <2>1, <2>2, <2>3
<1>4. ASSUME f >= b + 1 PROVE FALSE
  <2>1. (b + 1) * BlockSize <= f * BlockSize
    BY <1>1, <1>4 DEF b, f
  <2>2. (b + 1) * BlockSize = b * BlockSize + BlockSize
    BY <1>1 DEF b
  <2>3. b * BlockSize \in Nat /\ f * BlockSize \in Nat
    BY <1>1 DEF b, f
  <2> QED BY <1>1, <1>2, <2>1, <2>2, <2>3
<1> QED BY <1>1, <1>3, <1>4 DEF a, b, f

\* What is complete is whole, and what is not is not.
LEMMA WholeIff ==
    ASSUME NEW r, NEW i \in Nat \ {0}, NEW n \in Nat
    PROVE  ComputedContent(r, i, n) = Whole(<<r, i>>) <=> i <= FullBlocks(n)
<1> DEFINE behind == (i - 1) * BlockSize
<1>1. BlockSize \in Nat \ {0} /\ behind \in Nat /\ i * BlockSize = behind + BlockSize
  BY DecodeSaveAssumption
<1>2. i <= FullBlocks(n) <=> behind + BlockSize <= n
  BY <1>1, FullIff
<1> HIDE DEF behind
<1>3. Smaller(BlockSize, n - behind) = BlockSize <=> behind + BlockSize <= n
  BY <1>1 DEF Smaller
<1>4. ComputedContent(r, i, n) = Whole(<<r, i>>) <=> Smaller(BlockSize, n - behind) = BlockSize
  BY DEF ComputedContent, Whole, behind
<1> QED BY <1>2, <1>3, <1>4

\* What is computed of a block that has been begun is content.
LEMMA ContentRight ==
    ASSUME NEW r \in Requests, NEW i \in Nat \ {0}, NEW n \in Nat, i <= BlocksFor(n)
    PROVE  ComputedContent(r, i, n) \in Content
<1> DEFINE behind == (i - 1) * BlockSize  f == BlocksFor(n)
<1>1. /\ BlockSize \in Nat \ {0} /\ behind \in Nat /\ i * BlockSize = behind + BlockSize
      /\ f \in Nat /\ f * BlockSize < n + BlockSize
  BY DecodeSaveAssumption, BlocksForSpec
<1>2. i * BlockSize <= f * BlockSize
  <2> HIDE DEF f
  <2>1. i <= f
    BY DEF f
  <2> QED BY <1>1, <2>1
<1> HIDE DEF behind, f
<1>3. behind < n
  <2>1. f * BlockSize \in Nat
    BY <1>1
  <2> QED BY <1>1, <1>2, <2>1
<1>4. Smaller(BlockSize, n - behind) \in 1..BlockSize
  BY <1>1, <1>3 DEF Smaller
<1> QED BY <1>4 DEF ComputedContent, Content, Keys, behind

----------------------------------------------------------------------------
(* The invariant.                                                          *)

Shape ==
    /\ status \in [Requests -> {"waiting", "running", "preempted", "done"}]
    /\ running \in Seq(Requests) /\ waiting \in Seq(Requests)
    /\ tokens \in [Requests -> Nat] /\ computed \in [Requests -> Nat]
    /\ table \in [Requests -> Seq(Blocks)]
    /\ holds \in Memory
    /\ connector \in Connectors
    /\ tracker \in [Requests -> Tracker \cup {Nobody}]
    /\ store \subseteq [key : Keys, content : Content]

\* Who is queued does not run, and nobody is in a queue twice.
Queued ==
    /\ \A i \in 1..Len(waiting) : status[waiting[i]] \in {"waiting", "preempted"}
    /\ \A i \in 1..Len(running) : status[running[i]] = "running"
    /\ Injective(waiting) /\ Injective(running)

\* The last token is never computed before it is sampled.
Positioned ==
    \A r \in Requests : /\ computed[r] < tokens[r]
                        /\ status[r] = "waiting" => tokens[r] = PromptLen[r]

\* The tracker is not ahead of what is computed, and has the request's own blocks: while
\* it decodes only with the class that saves then, the stock part adds none to it.
TrackedRight(r) ==
    /\ Len(table[r]) = BlocksFor(computed[r])
    /\ tracker[r] \in Tracker
    /\ SavesDecode \/ computed[r] < tracker[r].prefill_end => tracker[r].blocks = table[r]
    /\ tracker[r].token_len <= computed[r]

Tracked ==
    \A r \in Requests : IF status[r] = "running" THEN TrackedRight(r)
                        ELSE table[r] = << >> /\ tracker[r] = Nobody

\* In a memory h, the blocks a job is to put hold what it puts them as.
JobRight(h, j) ==
    /\ j \in Job /\ j.upto <= Len(j.blocks)
    /\ \A i \in 1..j.upto : h[j.blocks[i]] = Whole(<<j.req, i>>)

JobsRight == \A j \in Jobs : JobRight(holds, j)

DInv == Shape /\ Queued /\ Positioned /\ Tracked /\ JobsRight /\ KVIsRight /\ StoredIsRight

\* A block that no job is to put and no request but r has.
Spare(r, b) ==
    /\ \A j \in Jobs : \A i \in 1..j.upto : j.blocks[i] # b
    /\ \A q \in Requests \ {r} : \A i \in DOMAIN table[q] : table[q][i] # b

----------------------------------------------------------------------------
(* Blocks.                                                                 *)

LEMMA FreeIsSpare ==
    ASSUME DInv, NEW r \in Requests, NEW b \in Free
    PROVE  Spare(r, b)
<1>1. b \in Blocks /\ b \notin InTable /\ b \notin Pinned
  BY DEF Free
<1>2. \A q \in Requests : \A i \in DOMAIN table[q] : table[q][i] # b
  BY <1>1 DEF InTable
<1>3. ASSUME NEW j \in Jobs, NEW i \in 1..j.upto PROVE j.blocks[i] # b
  <2>1. j.blocks \in Seq(Blocks) /\ j.upto \in Nat /\ j.upto <= Len(j.blocks)
    BY DEF DInv, JobsRight, JobRight, Job
  <2>2. i \in DOMAIN j.blocks
    BY <2>1, LenProperties
  <2> QED BY <1>1, <2>2 DEF Pinned
<1> QED BY <1>2, <1>3 DEF Spare

LEMMA OwnContent ==
    ASSUME DInv, NEW r \in Requests, status[r] = "running", NEW i \in DOMAIN table[r]
    PROVE  /\ i \in Nat \ {0} /\ table[r][i] \in Blocks
           /\ holds[table[r][i]] = ComputedContent(r, i, computed[r])
           /\ holds[table[r][i]].key = <<r, i>>
<1>1. table[r] \in Seq(Blocks)
  BY DEF DInv, Shape
<1>2. i \in 1..Len(table[r]) /\ Len(table[r]) \in Nat
  BY <1>1, LenProperties
<1>3. table[r][i] \in Blocks
  BY <1>1, <1>2, ElementOfSeq
<1> QED BY <1>2, <1>3 DEF DInv, KVIsRight, ComputedContent

\* No request has a block twice, nor one of another request: the keys tell.
LEMMA OwnBlocks ==
    ASSUME DInv, NEW r \in Requests, status[r] = "running", NEW i \in DOMAIN table[r],
           NEW q \in Requests, NEW k \in DOMAIN table[q], table[q][k] = table[r][i]
    PROVE  q = r /\ k = i
<1>1. status[q] = "running"
  BY DEF DInv, Tracked
<1>2. holds[table[r][i]].key = <<r, i>> /\ holds[table[q][k]].key = <<q, k>>
  BY <1>1, OwnContent
<1> QED BY <1>2

\* A block that is not complete is nobody else's business yet.
LEMMA OpenIsSpare ==
    ASSUME DInv, NEW r \in Requests, status[r] = "running", NEW i \in DOMAIN table[r],
           FullBlocks(computed[r]) < i
    PROVE  Spare(r, table[r][i])
<1>1. /\ i \in Nat \ {0} /\ holds[table[r][i]] = ComputedContent(r, i, computed[r])
      /\ holds[table[r][i]].key = <<r, i>>
  BY OwnContent
<1>2. computed[r] \in Nat /\ FullBlocks(computed[r]) \in Nat
  BY FullBlocksSpec DEF DInv, Shape
<1>3. ASSUME NEW j \in Jobs, NEW k \in 1..j.upto, j.blocks[k] = table[r][i] PROVE FALSE
  <2>1. holds[table[r][i]] = Whole(<<j.req, k>>)
    BY <1>3 DEF DInv, JobsRight, JobRight
  <2>2. <<j.req, k>> = <<r, i>>
    BY <1>1, <2>1 DEF Whole
  <2>3. ComputedContent(r, i, computed[r]) = Whole(<<r, i>>)
    BY <1>1, <2>1, <2>2
  <2> QED BY <1>1, <1>2, <2>3, WholeIff
<1> QED BY <1>3, OwnBlocks DEF Spare

\* What is complete of r's first old tokens is in h, and a pass takes it on to new.
Continues(r, bs, old, new, h) ==
    /\ bs \in Seq(Blocks) /\ Injective(bs)
    /\ old \in Nat /\ new \in Nat /\ old <= new
    /\ \A i \in DOMAIN bs : i <= FullBlocks(old) => h[bs[i]] = Whole(<<r, i>>)

\* What a forward pass leaves in the blocks of its request, and in the others.
LEMMA ComputeRight ==
    ASSUME NEW r, NEW bs, NEW old, NEW new, NEW h, Continues(r, bs, old, new, h)
    PROVE  /\ \A i \in DOMAIN bs : Compute(r, bs, old, new, h)[bs[i]] = ComputedContent(r, i, new)
           /\ \A b \in Blocks : (\A i \in DOMAIN bs : bs[i] = b => i <= FullBlocks(old))
                 => Compute(r, bs, old, new, h)[b] = h[b]
<1> USE DEF Continues
<1>1. FullBlocks(old) \in Nat /\ FullBlocks(new) \in Nat /\ FullBlocks(old) <= FullBlocks(new)
  BY FullBlocksSpec, FullMonotone
<1>2. DOMAIN bs = 1..Len(bs) /\ Len(bs) \in Nat /\ \A i \in DOMAIN bs : bs[i] \in Blocks
  BY LenProperties, ElementOfSeq
<1>3. ASSUME NEW i \in DOMAIN bs PROVE Compute(r, bs, old, new, h)[bs[i]] = ComputedContent(r, i, new)
  <2>1. \A k \in DOMAIN bs : bs[k] = bs[i] <=> k = i
    BY DEF Injective
  <2>2. CASE FullBlocks(old) < i
    <3>1. (CHOOSE k \in DOMAIN bs : bs[k] = bs[i]) = i
      BY <2>1
    <3> QED BY <1>2, <2>2, <3>1 DEF Compute
  <2>3. CASE i <= FullBlocks(old)
    <3>1. Compute(r, bs, old, new, h)[bs[i]] = h[bs[i]]
      BY <1>1, <1>2, <2>1, <2>3 DEF Compute
    <3>2. i <= FullBlocks(new) /\ i \in Nat \ {0}
      BY <1>1, <1>2, <2>3
    <3> QED BY <2>3, <3>1, <3>2, WholeIff
  <2> QED BY <1>1, <1>2, <2>2, <2>3
<1>4. ASSUME NEW b \in Blocks, \A i \in DOMAIN bs : bs[i] = b => i <= FullBlocks(old)
      PROVE  Compute(r, bs, old, new, h)[b] = h[b]
  BY <1>1, <1>2, <1>4 DEF Compute
<1> QED BY <1>3, <1>4

\* r's first m tokens are in the blocks bs.
LaidOut(h, r, bs, m) ==
    /\ bs \in Seq(Blocks) /\ m \in Nat /\ Len(bs) = BlocksFor(m)
    /\ \A i \in DOMAIN bs : h[bs[i]] = ComputedContent(r, i, m)

\* A job for the blocks that are complete at an earlier position is right.
LEMMA StoreJobRight ==
    ASSUME NEW r \in Requests, NEW h, NEW bs, NEW m, LaidOut(h, r, bs, m), NEW l \in Nat, l <= m
    PROVE  JobRight(h, [req |-> r, upto |-> FullBlocks(l), blocks |-> SubSeq(bs, 1, FullBlocks(l))])
<1> DEFINE f == FullBlocks(l)  part == SubSeq(bs, 1, FullBlocks(l))
<1> USE DEF LaidOut
<1>1. /\ f \in Nat /\ FullBlocks(m) \in Nat /\ f <= FullBlocks(m)
  BY FullBlocksSpec, FullMonotone
<1>2. FullBlocks(m) <= Len(bs) /\ Len(bs) \in Nat
  BY BlocksForBounds, LenProperties
<1>3. \A i \in 1..f : bs[i] \in Blocks /\ i \in DOMAIN bs
  BY <1>1, <1>2, ElementOfSeq, LenProperties
<1>4. part \in Seq(Blocks) /\ Len(part) = f /\ \A i \in 1..f : part[i] = bs[i]
  <2> HIDE DEF f
  <2>1. /\ SubSeq(bs, 1, f) \in Seq(Blocks)
        /\ Len(SubSeq(bs, 1, f)) = IF 1 <= f THEN f - 1 + 1 ELSE 0
        /\ \A i \in 1..(f - 1 + 1) : SubSeq(bs, 1, f)[i] = bs[1 + i - 1]
    BY <1>1, <1>3, SubSeqProperties
  <2>2. part = SubSeq(bs, 1, f)
    BY DEF f
  <2> HIDE DEF part
  <2> QED BY <1>1, <2>1, <2>2
<1>5. ASSUME NEW i \in 1..f PROVE h[part[i]] = Whole(<<r, i>>)
  <2>1. i \in Nat \ {0} /\ i <= FullBlocks(m)
    BY <1>1
  <2> QED BY <1>3, <1>4, <2>1, WholeIff
<1> HIDE DEF f, part
<1>6. JobRight(h, [req |-> r, upto |-> f, blocks |-> part])
  BY <1>1, <1>2, <1>4, <1>5 DEF JobRight, Job
<1> QED BY <1>6 DEF f, part

----------------------------------------------------------------------------
(* The trackers.                                                           *)

LEMMA IssuedRight ==
    ASSUME NEW t \in Tracker
    PROVE  /\ Issued(t) \in Tracker
           /\ Issued(t).blocks = t.blocks /\ Issued(t).token_len = t.token_len
           /\ Issued(t).prefill_end = t.prefill_end
<1>1. FullBlocks(t.token_len) \in Nat
  BY FullBlocksSpec DEF Tracker
<1> QED BY <1>1 DEF Issued, Tracker

LEMMA IssuedJobsRight ==
    ASSUME NEW r \in Requests, NEW h, NEW bs, NEW m, LaidOut(h, r, bs, m),
           NEW t \in Tracker, t.blocks = bs, t.token_len <= m, NEW j \in IssuedJobs(r, t)
    PROVE  JobRight(h, j)
<1>1. j = [req |-> r, upto |-> FullBlocks(t.token_len),
           blocks |-> SubSeq(bs, 1, FullBlocks(t.token_len))]
  BY DEF IssuedJobs, StoreJob
<1>2. t.token_len \in Nat
  BY DEF Tracker
<1> QED BY <1>1, <1>2, StoreJobRight

\* No block counts as saved that is not complete.
SavedRight(t) == t.saved <= FullBlocks(t.token_len)

LEMMA IssuedSaves ==
    ASSUME NEW t \in Tracker, SavedRight(t)
    PROVE  SavedRight(Issued(t)) /\ Issued(t).saved = FullBlocks(t.token_len)
<1>1. FullBlocks(t.token_len) \in Nat /\ t.saved \in Nat
  BY FullBlocksSpec DEF Tracker
<1>2. CASE Savable(t)
  BY <1>1, <1>2 DEF Issued, SavedRight, Tracker
<1>3. CASE ~Savable(t)
  BY <1>1, <1>3 DEF Issued, Savable, SavedRight
<1> QED BY <1>2, <1>3

\* A tracker that is at most at l, at a step that computes from n on and got fresh blocks.
AtMost(t, l, n, scheduled, fresh) ==
    t \in Tracker /\ t.token_len <= l /\ n \in Nat /\ scheduled \in Nat /\ fresh \in Seq(Blocks)

LEMMA StockCachedRight ==
    ASSUME NEW t, NEW n, NEW scheduled, NEW fresh, AtMost(t, n, n, scheduled, fresh)
    PROVE  LET x == StockCached(t, n, scheduled, fresh)
           IN  /\ x \in Tracker /\ x.token_len <= n + scheduled /\ x.prefill_end = t.prefill_end
               /\ x.blocks = IF fresh = << >> \/ n >= t.prefill_end THEN t.blocks
                             ELSE t.blocks \o fresh
<1> USE DEF AtMost
<1>1. t.blocks \o fresh \in Seq(Blocks) /\ t.token_len \in Nat /\ t.prefill_end \in Nat
  BY ConcatProperties DEF Tracker
<1> DEFINE advanced == [t EXCEPT !.token_len = @ + scheduled]
           extended == [advanced EXCEPT !.blocks = @ \o fresh]
<1>2. /\ advanced \in Tracker /\ advanced.token_len = t.token_len + scheduled
      /\ advanced.prefill_end = t.prefill_end /\ advanced.blocks = t.blocks
  BY <1>1 DEF Tracker
<1>3. /\ extended \in Tracker /\ extended.token_len = t.token_len + scheduled
      /\ extended.prefill_end = t.prefill_end /\ extended.blocks = t.blocks \o fresh
  <2> HIDE DEF advanced
  <2> QED BY <1>1, <1>2 DEF Tracker
<1>4. StockCached(t, n, scheduled, fresh) =
        IF fresh = << >> THEN t ELSE IF n >= t.prefill_end THEN advanced ELSE extended
  BY DEF StockCached
<1> HIDE DEF advanced, extended
<1>5. CASE fresh = << >>
  BY <1>1, <1>4, <1>5
<1>6. CASE fresh # << >> /\ n >= t.prefill_end
  BY <1>1, <1>2, <1>4, <1>6
<1>7. CASE fresh # << >> /\ ~(n >= t.prefill_end)
  <2>1. StockCached(t, n, scheduled, fresh) = extended
    BY <1>4, <1>7
  <2>2. t.token_len + scheduled <= n + scheduled
    BY <1>1
  <2> QED BY <1>3, <1>7, <2>1, <2>2
<1> QED BY <1>5, <1>6, <1>7

\* What the part of build_connector_meta makes of the tracker at a step that is no resumption.
Decoded(t, n, scheduled, fresh) == DecodeTracker(t, n, scheduled, fresh, FALSE)

\* A decode step that is not a resumption takes the blocks it was given.
LEMMA DecodeTrackerRight ==
    ASSUME NEW u, NEW n, NEW scheduled, NEW fresh, NEW m, m = n + scheduled,
           AtMost(u, m, n, scheduled, fresh),
           NEW x, x = Decoded(u, n, scheduled, fresh)
    PROVE  /\ x \in Tracker /\ x.token_len <= m /\ x.prefill_end = u.prefill_end
           /\ fresh = << >> \/ n < u.prefill_end => x.blocks = u.blocks
           /\ fresh # << >> /\ ~(n < u.prefill_end) => x.blocks = u.blocks \o fresh
<1> USE DEF AtMost
<1>1. u.blocks \o fresh \in Seq(Blocks) /\ u.token_len \in Nat /\ u.prefill_end \in Nat
  BY ConcatProperties DEF Tracker
<1> DEFINE advanced == [u EXCEPT !.token_len = IF @ < n + scheduled THEN n + scheduled ELSE @]
           extended == [advanced EXCEPT !.blocks = @ \o fresh]
<1>2. /\ advanced \in Tracker /\ advanced.token_len <= n + scheduled
      /\ advanced.blocks = u.blocks /\ advanced.prefill_end = u.prefill_end
  BY <1>1 DEF Tracker
<1>3. /\ extended \in Tracker /\ extended.token_len <= n + scheduled
      /\ extended.blocks = u.blocks \o fresh /\ extended.prefill_end = u.prefill_end
  <2> HIDE DEF advanced
  <2> QED BY <1>1, <1>2 DEF Tracker
<1>4. x = IF fresh = << >> \/ ~(n >= u.prefill_end) THEN u ELSE extended
  BY DEF Decoded, DecodeTracker, should_save_decode_request
<1> HIDE DEF advanced, extended
<1>5. CASE fresh = << >> \/ ~(n >= u.prefill_end)
  <2>1. x = u
    BY <1>4, <1>5
  <2>2. fresh = << >> \/ n < u.prefill_end
    BY <1>1, <1>5
  <2> QED BY <2>1, <2>2
<1>6. CASE ~(fresh = << >> \/ ~(n >= u.prefill_end))
  <2>1. x = extended
    BY <1>4, <1>6
  <2>2. ~(n < u.prefill_end)
    BY <1>1, <1>6
  <2> QED BY <1>3, <1>6, <2>1, <2>2
<1> QED BY <1>5, <1>6

----------------------------------------------------------------------------
(* What a step with a forward pass has to do to keep the invariant.        *)

LEMMA ForwardKeeps ==
    ASSUME DInv, NEW r \in Requests, NEW bs, NEW m, LaidOut(holds', r, bs, m), m <= tokens[r],
           table' = [table EXCEPT ![r] = bs],
           holds' \in Memory,
           \A b \in Blocks : holds'[b] = holds[b] \/ Spare(r, b),
           NEW t \in Tracker, SavesDecode \/ m < t.prefill_end => t.blocks = bs, t.token_len <= m,
           tracker' = [tracker EXCEPT ![r] = t],
           NEW jobs, \A j \in jobs : JobRight(holds', j), Forward(r, m, jobs),
           status' = [status EXCEPT ![r] = "running"], waiting' \in Seq(Requests),
           running' \in Seq(Requests), Queued'
    PROVE  DInv'
<1> USE DEF DInv, Shape, Forward
<1>1. m \in Nat /\ bs \in Seq(Blocks)
  BY DEF LaidOut
<1>2. Shape'
  BY <1>1
<1>3. Positioned'
  BY <1>1 DEF Positioned
<1>4. Tracked'
  BY <1>1 DEF Tracked, TrackedRight, LaidOut, SavesDecode
<1>5. ASSUME NEW j \in Jobs PROVE JobRight(holds', j)
  <2>1. JobRight(holds, j)
    BY DEF JobsRight
  <2>2. ASSUME NEW i \in 1..j.upto PROVE holds'[j.blocks[i]] = Whole(<<j.req, i>>)
    <3>1. j.blocks[i] \in Blocks /\ holds[j.blocks[i]] = Whole(<<j.req, i>>)
      <4>1. i \in 1..Len(j.blocks)
        BY <2>1, LenProperties DEF JobRight, Job
      <4> QED BY <2>1, <4>1, ElementOfSeq DEF JobRight, Job
    <3> QED BY <3>1 DEF Spare
  <2> QED BY <2>1, <2>2 DEF JobRight
<1>6. JobsRight'
  BY <1>5 DEF JobsRight, Jobs
<1>7. ASSUME NEW q \in Requests, status'[q] = "running", NEW i \in DOMAIN table'[q]
      PROVE  holds'[table'[q][i]] = ComputedContent(q, i, computed'[q])
  <2>1. CASE q = r
    BY <2>1 DEF LaidOut
  <2>2. CASE q # r
    <3>1. /\ status[q] = "running" /\ table'[q] = table[q] /\ computed'[q] = computed[q]
      BY <1>7, <2>2
    <3>2. table[q][i] \in Blocks /\ holds[table[q][i]] = ComputedContent(q, i, computed[q])
      BY <3>1, OwnContent
    <3> QED BY <2>2, <3>1, <3>2 DEF Spare
  <2> QED BY <2>1, <2>2
<1>8. KVIsRight' /\ StoredIsRight'
  BY <1>7 DEF KVIsRight, StoredIsRight
<1> QED BY <1>2, <1>3, <1>4, <1>6, <1>8

----------------------------------------------------------------------------
(* A step of a running request.                                            *)

LEMMA ChunkRight ==
    ASSUME DInv, NEW r \in Requests, NEW n \in Nat, n < tokens[r]
    PROVE  Chunk(r, n) \in Nat /\ n + Chunk(r, n) <= tokens[r] /\ Chunk(r, n) > 0
<1>1. tokens[r] \in Nat
  BY DEF DInv, Shape
<1> QED BY <1>1, DecodeSaveAssumption DEF Chunk, Smaller

\* k blocks the engine gives out of a set of its blocks.
LEMMA AllocatedRight ==
    ASSUME NEW from \in SUBSET Blocks, NEW k \in Nat, k <= Cardinality(from)
    PROVE  /\ Allocated(k, from) \in Seq(Blocks) /\ Len(Allocated(k, from)) = k
           /\ DOMAIN Allocated(k, from) = 1..k
           /\ \A i \in 1..k : Allocated(k, from)[i] \in from
           /\ Injective(Allocated(k, from))
<1>1. Cardinality(from) \in Nat
  BY DecodeSaveAssumption, FS_Subset, FS_CardinalityType
<1>2. k \in 0..Cardinality(from)
  BY <1>1
<1>3. Allocated(k, from) \in [1..k -> from] /\ Injective(Allocated(k, from))
  BY <1>2, DecodeSaveAssumption
<1>4. Allocated(k, from) \in Seq(from) /\ Len(Allocated(k, from)) = k
  BY <1>3
<1> QED BY <1>3, <1>4, SeqMonotonic

\* Blocks of one sequence that are followed by others are still each there once.
LEMMA ExtendedTable ==
    ASSUME NEW s \in Seq(Blocks), Injective(s), NEW f \in Seq(Blocks), Injective(f),
           \A i \in DOMAIN s, k \in DOMAIN f : s[i] # f[k]
    PROVE  /\ s \o f \in Seq(Blocks) /\ Len(s \o f) = Len(s) + Len(f) /\ Injective(s \o f)
           /\ \A i \in DOMAIN (s \o f) :
                 IF i <= Len(s) THEN i \in DOMAIN s /\ (s \o f)[i] = s[i]
                 ELSE i - Len(s) \in DOMAIN f /\ (s \o f)[i] = f[i - Len(s)]
<1>1. /\ Len(s) \in Nat /\ DOMAIN s = 1..Len(s) /\ Len(f) \in Nat /\ DOMAIN f = 1..Len(f)
  BY LenProperties
<1>2. /\ s \o f \in Seq(Blocks) /\ Len(s \o f) = Len(s) + Len(f)
      /\ DOMAIN (s \o f) = 1..(Len(s) + Len(f))
      /\ \A i \in 1..(Len(s) + Len(f)) :
            (s \o f)[i] = IF i <= Len(s) THEN s[i] ELSE f[i - Len(s)]
  BY ConcatProperties, LenProperties
<1>3. \A i \in DOMAIN (s \o f) :
        IF i <= Len(s) THEN i \in DOMAIN s /\ (s \o f)[i] = s[i]
        ELSE i - Len(s) \in DOMAIN f /\ (s \o f)[i] = f[i - Len(s)]
  BY <1>1, <1>2
<1>4. ASSUME NEW i \in DOMAIN (s \o f), NEW k \in DOMAIN (s \o f), (s \o f)[i] = (s \o f)[k]
      PROVE  i = k
  <2>1. i \in Nat /\ k \in Nat
    BY <1>1, <1>2
  <2>2. CASE i <= Len(s) /\ k <= Len(s)
    BY <1>3, <1>4, <2>2 DEF Injective
  <2>3. CASE ~(i <= Len(s)) /\ ~(k <= Len(s))
    <3>1. i - Len(s) = k - Len(s)
      BY <1>3, <1>4, <2>3 DEF Injective
    <3> QED BY <1>1, <2>1, <3>1
  <2>4. CASE (i <= Len(s)) # (k <= Len(s))
    BY <1>3, <1>4, <2>4
  <2> QED BY <2>2, <2>3, <2>4
<1> QED BY <1>2, <1>3, <1>4 DEF Injective

\* The memory after a pass of r over bs, when what r has yet to complete is spare.
LEMMA MemoryAfter ==
    ASSUME NEW r \in Requests, NEW bs, NEW n, NEW m, NEW h, Continues(r, bs, n, m, h),
           h \in Memory, Len(bs) = BlocksFor(m), \A b \in Blocks : h[b] = holds[b] \/ Spare(r, b),
           \A i \in DOMAIN bs : FullBlocks(n) < i => Spare(r, bs[i]),
           NEW after, after = Compute(r, bs, n, m, h)
    PROVE  /\ LaidOut(after, r, bs, m)
           /\ \A b \in Blocks : after[b] = holds[b] \/ Spare(r, b)
           /\ after \in Memory
<1>1. /\ \A i \in DOMAIN bs : after[bs[i]] = ComputedContent(r, i, m)
      /\ \A b \in Blocks : (\A i \in DOMAIN bs : bs[i] = b => i <= FullBlocks(n))
            => after[b] = h[b]
  BY ComputeRight
<1>2. ASSUME NEW b \in Blocks PROVE after[b] = holds[b] \/ Spare(r, b)
  <2>1. CASE \A i \in DOMAIN bs : bs[i] = b => i <= FullBlocks(n)
    BY <1>1, <2>1
  <2>2. ASSUME NEW i \in DOMAIN bs, bs[i] = b, ~(i <= FullBlocks(n)) PROVE Spare(r, b)
    <3>1. FullBlocks(n) < i
      <4>1. FullBlocks(n) \in Nat /\ i \in 1..Len(bs) /\ Len(bs) \in Nat
        BY FullBlocksSpec, LenProperties DEF Continues
      <4> QED BY <2>2, <4>1
    <3> QED BY <2>2, <3>1
  <2> QED BY <2>1, <2>2
<1>3. ASSUME NEW b \in Blocks PROVE after[b] \in Content \cup {Nobody}
  <2>1. CASE \A i \in DOMAIN bs : bs[i] = b => i <= FullBlocks(n)
    BY <1>1, <2>1 DEF Memory
  <2>2. ASSUME NEW i \in DOMAIN bs, bs[i] = b PROVE after[b] \in Content \cup {Nobody}
    <3>1. i \in Nat \ {0} /\ i <= BlocksFor(m)
      BY LenProperties DEF Continues
    <3> QED BY <1>1, <2>2, <3>1, ContentRight DEF Continues
  <2> QED BY <2>1, <2>2
<1>4. after \in Memory
  BY <1>3 DEF Compute, Memory
<1> QED BY <1>1, <1>2, <1>4 DEF LaidOut, Continues

\* The blocks that a step computes and does not complete are given, or its request's.
LEMMA StepKeeps ==
    ASSUME DInv, NEW r \in Requests, Step(r)
    PROVE  DInv'
<1> DEFINE n == computed[r]
           scheduled == Chunk(r, n)
           m == n + scheduled
           fresh == Allocated(Missing(r), Free)
           bs == table[r] \o fresh
           stock == StockCached(tracker[r], n, scheduled, fresh)
           saves == fresh # << >> /\ n < tracker[r].prefill_end
           u == IF saves THEN Issued(stock) ELSE stock
           t == DecodePart(u, n, scheduled, fresh, FALSE)
           new == IF t = u THEN u ELSE Issued(t)
           jobs == (IF saves THEN IssuedJobs(r, stock) ELSE {})
                     \cup (IF t = u THEN {} ELSE IssuedJobs(r, t))
           live == SavesDecode \/ n < tracker[r].prefill_end
<1>1. /\ status[r] = "running" /\ Missing(r) <= Cardinality(Free)
      /\ table' = [table EXCEPT ![r] = bs]
      /\ holds' = Compute(r, bs, n, m, holds)
      /\ tracker' = [tracker EXCEPT ![r] = new]
      /\ Forward(r, m, jobs)
      /\ UNCHANGED <<status, running, waiting>>
  BY DEF Step
<1> HIDE DEF n, scheduled, m, fresh, bs, stock, saves, u, t, new, jobs, live
<1>2. /\ n \in Nat /\ n < tokens[r] /\ table[r] \in Seq(Blocks)
      /\ Len(table[r]) = BlocksFor(n) /\ tracker[r] \in Tracker
      /\ (live => tracker[r].blocks = table[r]) /\ tracker[r].token_len <= n
  BY <1>1 DEF DInv, Shape, Positioned, Tracked, TrackedRight, n, live
<1>3. scheduled \in Nat /\ m \in Nat /\ n <= m /\ m <= tokens[r] /\ m = n + scheduled
  BY <1>2, ChunkRight DEF m, scheduled
<1>4. /\ Missing(r) = BlocksFor(m) - BlocksFor(n) /\ Missing(r) \in Nat
      /\ BlocksFor(n) \in Nat /\ BlocksFor(m) \in Nat
  <2>1. BlocksFor(n) <= BlocksFor(m) /\ BlocksFor(n) \in Nat /\ BlocksFor(m) \in Nat
    BY <1>2, <1>3, BlocksForSpec, BlocksForBounds
  <2>2. Missing(r) = BlocksFor(m) - BlocksFor(n)
    BY <1>2 DEF Missing, m, scheduled, n
  <2> QED BY <2>1, <2>2
<1>5. /\ fresh \in Seq(Blocks) /\ Len(fresh) = Missing(r) /\ Injective(fresh)
      /\ DOMAIN fresh = 1..Missing(r)
      /\ \A i \in DOMAIN fresh : fresh[i] \in Free
  <2>1. Free \in SUBSET Blocks
    BY DEF Free
  <2> QED BY <1>1, <1>4, <2>1, AllocatedRight DEF fresh
<1>6. Injective(table[r])
  BY <1>1, OwnBlocks DEF Injective
<1>7. \A i \in DOMAIN table[r], k \in DOMAIN fresh : table[r][i] # fresh[k]
  BY <1>5 DEF Free, InTable
<1>8. /\ bs \in Seq(Blocks) /\ Len(bs) = BlocksFor(m) /\ Injective(bs)
      /\ \A i \in DOMAIN bs :
            IF i <= BlocksFor(n) THEN i \in DOMAIN table[r] /\ bs[i] = table[r][i]
            ELSE bs[i] \in Free
  <2>1. /\ bs \in Seq(Blocks) /\ Len(bs) = Len(table[r]) + Len(fresh) /\ Injective(bs)
        /\ \A i \in DOMAIN bs :
              IF i <= Len(table[r]) THEN i \in DOMAIN table[r] /\ bs[i] = table[r][i]
              ELSE i - Len(table[r]) \in DOMAIN fresh /\ bs[i] = fresh[i - Len(table[r])]
    BY <1>2, <1>5, <1>6, <1>7, ExtendedTable DEF bs
  <2>2. Len(table[r]) + Len(fresh) = BlocksFor(m)
    BY <1>2, <1>4, <1>5
  <2> QED BY <1>2, <1>5, <2>1, <2>2
<1>9. /\ DOMAIN bs = 1..Len(bs) /\ Len(bs) \in Nat /\ FullBlocks(n) \in Nat
      /\ FullBlocks(n) <= BlocksFor(n)
  <2>1. DOMAIN bs = 1..Len(bs) /\ Len(bs) \in Nat
    BY <1>8, LenProperties
  <2>2. FullBlocks(n) \in Nat /\ n <= n
    BY <1>2, FullBlocksSpec
  <2> QED BY <1>2, <2>1, <2>2, BlocksForBounds
<1>10. ASSUME NEW i \in DOMAIN bs, i <= FullBlocks(n) PROVE holds[bs[i]] = Whole(<<r, i>>)
  <2>1. i \in Nat \ {0} /\ i <= BlocksFor(n)
    BY <1>4, <1>9, <1>10
  <2>2. i \in DOMAIN table[r] /\ bs[i] = table[r][i]
    BY <1>8, <2>1
  <2>3. holds[bs[i]] = ComputedContent(r, i, n)
    BY <1>1, <2>2, OwnContent DEF n
  <2> QED BY <1>2, <1>10, <2>1, <2>3, WholeIff
<1>11. ASSUME NEW i \in DOMAIN bs, FullBlocks(n) < i PROVE Spare(r, bs[i])
  <2>1. CASE i <= BlocksFor(n)
    <3>1. i \in DOMAIN table[r] /\ bs[i] = table[r][i]
      BY <1>8, <2>1
    <3> QED BY <1>1, <1>11, <3>1, OpenIsSpare DEF n
  <2>2. CASE ~(i <= BlocksFor(n))
    BY <1>8, <2>2, FreeIsSpare
  <2> QED BY <2>1, <2>2
<1>12. /\ LaidOut(holds', r, bs, m)
       /\ \A b \in Blocks : holds'[b] = holds[b] \/ Spare(r, b)
       /\ holds' \in Memory
  <2>1. Continues(r, bs, n, m, holds)
    BY <1>2, <1>3, <1>8, <1>10 DEF Continues
  <2>2. \A i \in DOMAIN bs : FullBlocks(n) < i => Spare(r, bs[i])
    BY <1>11
  <2>3. holds' = Compute(r, bs, n, m, holds) /\ Len(bs) = BlocksFor(m)
    BY <1>1, <1>8
  <2>4. holds \in Memory
    BY DEF DInv, Shape
  <2> HIDE DEF DInv
  <2> QED BY <2>1, <2>2, <2>3, <2>4, MemoryAfter
<1>13. /\ stock = StockCached(tracker[r], n, scheduled, fresh)
       /\ saves <=> fresh # << >> /\ n < tracker[r].prefill_end
       /\ u = IF saves THEN Issued(stock) ELSE stock
       /\ t = IF SavesDecode THEN DecodeTracker(u, n, scheduled, fresh, FALSE) ELSE u
       /\ new = IF t = u THEN u ELSE Issued(t)
       /\ bs = table[r] \o fresh
       /\ live => tracker[r].blocks = table[r]
       /\ tracker[r].prefill_end \in Nat
  BY <1>2 DEF stock, saves, u, t, new, bs, Tracker, DecodePart, live
<1>14. fresh = << >> => bs = table[r]
  BY <1>2, <1>13, ConcatEmptySeq
<1>15. /\ stock \in Tracker /\ stock.token_len <= m
       /\ stock.prefill_end = tracker[r].prefill_end
       /\ stock.blocks = IF fresh = << >> \/ n >= tracker[r].prefill_end
                         THEN tracker[r].blocks ELSE tracker[r].blocks \o fresh
  <2> DEFINE x == StockCached(tracker[r], n, scheduled, fresh)
  <2>1. /\ x \in Tracker /\ x.token_len <= n + scheduled
        /\ x.prefill_end = tracker[r].prefill_end
        /\ x.blocks = IF fresh = << >> \/ n >= tracker[r].prefill_end
                      THEN tracker[r].blocks ELSE tracker[r].blocks \o fresh
    <3>1. AtMost(tracker[r], n, n, scheduled, fresh)
      BY <1>2, <1>3, <1>5 DEF AtMost
    <3> QED BY <3>1, StockCachedRight
  <2> HIDE DEF x
  <2>2. stock = x
    BY <1>13 DEF x
  <2> QED BY <1>3, <1>13, <2>1, <2>2
<1>16. /\ u \in Tracker /\ u.token_len <= m /\ u.prefill_end = tracker[r].prefill_end
       /\ u.blocks = stock.blocks
  BY <1>13, <1>15, IssuedRight
<1>17. /\ t \in Tracker /\ t.token_len <= m /\ t.prefill_end = tracker[r].prefill_end
       /\ fresh = << >> \/ n < u.prefill_end => t.blocks = u.blocks
       /\ SavesDecode /\ fresh # << >> /\ ~(n < u.prefill_end) => t.blocks = u.blocks \o fresh
  <2> DEFINE x == Decoded(u, n, scheduled, fresh)
  <2>2. /\ x \in Tracker /\ x.token_len <= m /\ x.prefill_end = u.prefill_end
        /\ fresh = << >> \/ n < u.prefill_end => x.blocks = u.blocks
        /\ fresh # << >> /\ ~(n < u.prefill_end) => x.blocks = u.blocks \o fresh
    <3>1. AtMost(u, m, n, scheduled, fresh) /\ m = n + scheduled
      BY <1>2, <1>3, <1>5, <1>16 DEF AtMost
    <3>2. x = Decoded(u, n, scheduled, fresh)
      OBVIOUS
    <3> HIDE DEF x
    <3> QED BY <3>1, <3>2, DecodeTrackerRight
  <2>3. t = IF SavesDecode THEN x ELSE u
    BY <1>13 DEF Decoded
  <2> HIDE DEF x
  <2> QED BY <1>3, <1>16, <2>2, <2>3
<1>18. /\ live => t.blocks = bs
       /\ saves => stock.blocks = bs
  <2>1. CASE fresh = << >>
    BY <1>13, <1>14, <1>15, <1>16, <1>17, <2>1
  <2>2. CASE fresh # << >> /\ n < tracker[r].prefill_end
    <3>1. stock.blocks = bs
      <4>1. ~(fresh = << >> \/ n >= tracker[r].prefill_end)
        BY <1>2, <1>13, <2>2
      <4>2. live
        BY <2>2 DEF live
      <4> QED BY <1>13, <1>15, <4>1, <4>2
    <3> QED BY <1>16, <1>17, <2>2, <3>1
  <2>3. CASE fresh # << >> /\ ~(n < tracker[r].prefill_end)
    <3>1. stock.blocks = tracker[r].blocks /\ ~saves
      BY <1>2, <1>13, <1>15, <2>3
    <3>2. live => SavesDecode
      BY <2>3 DEF live
    <3> QED BY <1>13, <1>16, <1>17, <2>3, <3>1, <3>2
  <2> QED BY <2>1, <2>2, <2>3
<1>19. /\ new \in Tracker /\ (live => new.blocks = bs) /\ new.token_len <= m
       /\ new.prefill_end = tracker[r].prefill_end
  BY <1>13, <1>17, <1>18, IssuedRight
<1>20. SavesDecode \/ m < new.prefill_end => new.blocks = bs
  <2>1. m < new.prefill_end => n < tracker[r].prefill_end
    <3> DEFINE e == tracker[r].prefill_end
    <3>1. e \in Nat /\ new.prefill_end = e
      BY <1>13, <1>19
    <3> HIDE DEF e
    <3>2. m < e => n < e
      BY <1>2, <1>3, <3>1
    <3> QED BY <3>1, <3>2 DEF e
  <2> QED BY <1>19, <2>1 DEF live
<1>21. t # u => t.blocks = bs
  <2>1. t # u => SavesDecode
    BY <1>13
  <2> QED BY <1>18, <2>1 DEF live
<1>22. ASSUME saves, NEW j \in IssuedJobs(r, stock) PROVE JobRight(holds', j)
  BY <1>12, <1>15, <1>18, <1>22, IssuedJobsRight
<1>23. ASSUME t # u, NEW j \in IssuedJobs(r, t) PROVE JobRight(holds', j)
  BY <1>12, <1>17, <1>21, <1>23, IssuedJobsRight
<1>24. \A j \in jobs : JobRight(holds', j)
  BY <1>22, <1>23 DEF jobs
<1>25. /\ status' = [status EXCEPT ![r] = "running"] /\ Queued'
       /\ waiting' \in Seq(Requests) /\ running' \in Seq(Requests)
  BY <1>1 DEF DInv, Shape, Queued
<1> QED BY <1>1, <1>3, <1>12, <1>19, <1>20, <1>24, <1>25, ForwardKeeps

----------------------------------------------------------------------------
(* A request that is scheduled for the first time or resumed.              *)

\* The least of a set of numbers.
LEMMA Smallest ==
    ASSUME NEW S \in SUBSET Nat, S # {}
    PROVE  \E m \in S : \A k \in S : m <= k
<1> DEFINE less == OpToRel(<, Nat)
<1>1. IsWellFoundedOn(less, Nat)
  BY NatLessThanWellFounded
<1>2. \A x, y \in Nat : x < y => <<x, y>> \in less
  BY DEF OpToRel
<1> HIDE DEF less
<1>3. PICK m \in S : \A k \in S : <<k, m>> \notin less
  BY <1>1, WFMin
<1>4. ASSUME NEW k \in S PROVE m <= k
  <2>1. m \in Nat /\ k \in Nat /\ ~(k < m)
    BY <1>2, <1>3
  <2> QED BY <2>1
<1> QED BY <1>4

\* How many numbers from 1 on are in S, of the first n.
LEMMA LongestPrefix ==
    ASSUME NEW n \in Nat, NEW S
    PROVE  \E k \in 0..n : (\A i \in 1..k : i \in S) /\ (k < n => k + 1 \notin S)
<1> DEFINE T == {i \in 1..(n + 1) : i = n + 1 \/ i \notin S}
<1>1. T \in SUBSET Nat /\ T # {}
  <2>1. n + 1 \in T
    OBVIOUS
  <2> QED BY <2>1
<1>2. PICK m \in T : \A k \in T : m <= k
  <2> HIDE DEF T
  <2> QED BY <1>1, Smallest
<1>3. m \in Nat /\ m - 1 \in 0..n /\ m = (m - 1) + 1
  BY <1>1
<1>4. ASSUME NEW i \in 1..(m - 1) PROVE i \in S
  <2>1. i \in 1..(n + 1) /\ i < m /\ i # n + 1
    BY <1>3
  <2> QED BY <1>2, <2>1
<1>5. m - 1 < n => (m - 1) + 1 \notin S
  BY <1>2, <1>3
<1> QED BY <1>3, <1>4, <1>5

\* The blocks of r found in memory: each in its place, and the last token left out.
LEMMA LocalHitRight ==
    ASSUME DInv, NEW r \in Requests
    PROVE  /\ LocalHit(r) \in Nat /\ LocalHit(r) * BlockSize < tokens[r]
           /\ \A i \in 1..LocalHit(r) : Cached(r, i)
<1> DEFINE n == FullBlocks(tokens[r] - 1)
<1>1. tokens[r] \in Nat /\ tokens[r] - 1 \in Nat
  BY DEF DInv, Shape, Positioned
<1>2. n \in Nat
  BY <1>1, FullBlocksSpec
<1> HIDE DEF n
<1>3. \E k \in 0..n : (\A i \in 1..k : i \in {j \in Nat : Cached(r, j)})
                     /\ (k < n => k + 1 \notin {j \in Nat : Cached(r, j)})
  BY <1>2, LongestPrefix
<1>4. \E k \in 0..n : (\A i \in 1..k : Cached(r, i)) /\ (k < n => ~Cached(r, k + 1))
  <2>1. PICK k \in 0..n : (\A i \in 1..k : i \in {j \in Nat : Cached(r, j)})
                        /\ (k < n => k + 1 \notin {j \in Nat : Cached(r, j)})
    BY <1>3
  <2> QED BY <1>2, <2>1
<1>5. /\ LocalHit(r) \in 0..n /\ \A i \in 1..LocalHit(r) : Cached(r, i)
  BY <1>4 DEF LocalHit, n
<1>6. LocalHit(r) \in Nat /\ LocalHit(r) <= n
  BY <1>2, <1>5
<1>7. LocalHit(r) * BlockSize <= tokens[r] - 1
  BY <1>1, <1>6, FullIff DEF n
<1>8. LocalHit(r) * BlockSize \in Nat
  BY <1>6, DecodeSaveAssumption
<1> QED BY <1>1, <1>5, <1>6, <1>7, <1>8

LEMMA StoredPrefixRight ==
    ASSUME DInv, NEW r \in Requests
    PROVE  StoredPrefix(r) \in Nat /\ \A i \in 1..StoredPrefix(r) : InStore(<<r, i>>)
<1> DEFINE n == FullBlocks(tokens[r])
<1>1. n \in Nat
  BY FullBlocksSpec DEF DInv, Shape
<1> HIDE DEF n
<1>2. PICK k \in 0..n : (\A i \in 1..k : i \in {j \in Nat : InStore(<<r, j>>)})
                      /\ (k < n => k + 1 \notin {j \in Nat : InStore(<<r, j>>)})
  BY <1>1, LongestPrefix
<1>3. (\A i \in 1..k : InStore(<<r, i>>)) /\ (k < n => ~InStore(<<r, k + 1>>))
  BY <1>1, <1>2
<1>4. StoredPrefix(r) \in 0..n /\ \A i \in 1..StoredPrefix(r) : InStore(<<r, i>>)
  BY <1>2, <1>3 DEF StoredPrefix, n
<1> QED BY <1>1, <1>4

\* What the caches give: the local hit, or else as far as the store goes without a gap.
LEMMA FromCachesRight ==
    ASSUME DInv, NEW r \in Requests
    PROVE  /\ FromCaches(r) \in Nat /\ FromCaches(r) < tokens[r]
           /\ LocalHit(r) <= FullBlocks(FromCaches(r))
           /\ \A i \in Nat : i <= FullBlocks(FromCaches(r)) =>
                 i <= LocalHit(r) \/ i <= StoredPrefix(r)
<1> DEFINE l == LocalHit(r)  p == StoredPrefix(r)  n == FromCaches(r)
           matched == Smaller(p * BlockSize, tokens[r] - 1)
<1>1. /\ l \in Nat /\ p \in Nat /\ BlockSize \in Nat \ {0} /\ tokens[r] \in Nat
      /\ l * BlockSize \in Nat /\ p * BlockSize \in Nat /\ l * BlockSize < tokens[r]
  <2>1. l \in Nat /\ l * BlockSize < tokens[r]
    BY LocalHitRight
  <2>2. p \in Nat
    BY StoredPrefixRight
  <2>3. BlockSize \in Nat \ {0}
    BY DecodeSaveAssumption
  <2>4. tokens[r] \in Nat
    BY DEF DInv, Shape
  <2> HIDE DEF l, p
  <2>5. l * BlockSize \in Nat /\ p * BlockSize \in Nat
    BY <2>1, <2>2, <2>3
  <2> QED BY <2>1, <2>2, <2>3, <2>4, <2>5
<1>2. n = l * BlockSize \/ (n = matched /\ matched > l * BlockSize)
  <2>1. matched \in Int
    BY <1>1 DEF Smaller
  <2>2. n = l * BlockSize + Matched(r, l * BlockSize)
    BY DEF FromCaches
  <2>3. Matched(r, l * BlockSize) \in {0, BaseMatched(r, l * BlockSize)}
    BY DEF Matched, get_num_new_matched_tokens
  <2>4. BaseMatched(r, l * BlockSize) =
          IF matched > l * BlockSize THEN matched - l * BlockSize ELSE 0
    BY DEF BaseMatched
  <2> HIDE DEF l, n, matched
  <2> QED BY <1>1, <2>1, <2>2, <2>3, <2>4
<1>3. matched <= p * BlockSize /\ matched < tokens[r] /\ matched \in Int
  BY <1>1 DEF Smaller
<1> HIDE DEF l, p, n, matched
<1>4. n \in Nat /\ n < tokens[r] /\ l * BlockSize <= n
  BY <1>1, <1>2, <1>3
<1>5. l <= FullBlocks(n)
  BY <1>1, <1>4, FullIff
<1>6. ASSUME NEW i \in Nat, i <= FullBlocks(n) PROVE i <= l \/ i <= p
  <2>1. i * BlockSize <= n /\ i * BlockSize \in Nat
    BY <1>1, <1>4, <1>6, FullIff
  <2>2. i * BlockSize <= l * BlockSize \/ i * BlockSize <= p * BlockSize
    BY <1>1, <1>2, <1>3, <2>1
  <2>3. ASSUME NEW k \in Nat, i * BlockSize <= k * BlockSize PROVE i <= k
    <3>1. k <= k /\ FullBlocks(k * BlockSize) \in Nat /\ k * BlockSize \in Nat
      BY <1>1, FullBlocksSpec
    <3>2. ASSUME i >= k + 1 PROVE FALSE
      <4>1. (k + 1) * BlockSize <= i * BlockSize
        BY <1>1, <3>2
      <4>2. (k + 1) * BlockSize = k * BlockSize + BlockSize
        BY <1>1
      <4> QED BY <1>1, <2>1, <2>3, <3>1, <4>1, <4>2
    <3> QED BY <3>2
  <2> QED BY <1>1, <2>2, <2>3
<1> QED BY <1>4, <1>5, <1>6 DEF l, p, n

LEMMA HitBlocksRight ==
    ASSUME DInv, NEW r \in Requests
    PROVE  /\ HitBlocks(r) \in Seq(Blocks) /\ Len(HitBlocks(r)) = LocalHit(r)
           /\ DOMAIN HitBlocks(r) = 1..LocalHit(r) /\ Injective(HitBlocks(r))
           /\ \A i \in 1..LocalHit(r) : holds[HitBlocks(r)[i]] = Whole(<<r, i>>)
<1> DEFINE l == LocalHit(r)  hit == HitBlocks(r)
<1>1. l \in Nat /\ \A i \in 1..l : Cached(r, i)
  BY LocalHitRight
<1>2. hit = [i \in 1..l |-> CHOOSE b \in Blocks : holds[b] = Whole(<<r, i>>)]
  BY DEF HitBlocks
<1> HIDE DEF l, hit
<1>3. \A i \in 1..l : hit[i] \in Blocks /\ holds[hit[i]] = Whole(<<r, i>>)
  BY <1>1, <1>2 DEF Cached
<1>4. hit \in [1..l -> Blocks] /\ DOMAIN hit = 1..l
  BY <1>2, <1>3
<1>5. hit \in Seq(Blocks) /\ Len(hit) = l
  BY <1>1, <1>4
<1>6. ASSUME NEW i \in 1..l, NEW k \in 1..l, hit[i] = hit[k] PROVE i = k
  <2>1. Whole(<<r, i>>) = Whole(<<r, k>>)
    BY <1>3, <1>6
  <2>2. <<r, i>> = <<r, k>>
    BY <2>1 DEF Whole
  <2> QED BY <2>2
<1> QED BY <1>3, <1>4, <1>5, <1>6 DEF Injective, l, hit

\* What the store gives for a key is the key's block, complete.
LEMMA LoadedRight ==
    ASSUME DInv, NEW key, InStore(key)
    PROVE  StoredAs(key) = Whole(key) /\ StoredAs(key) \in Content
<1>1. (CHOOSE s \in store : s.key = key) \in store /\ (CHOOSE s \in store : s.key = key).key = key
  BY DEF InStore
<1> QED BY <1>1 DEF StoredAs, DInv, Shape, StoredIsRight

\* The blocks of a request in the caches: local ones hit, and behind them up to full
\* spare ones, to be loaded.
ToLoad(r, bs, local, full) ==
    /\ bs \in Seq(Blocks) /\ Injective(bs)
    /\ full \in Nat /\ local \in Nat /\ local <= full /\ full <= Len(bs)
    /\ \A i \in 1..local : holds[bs[i]] = Whole(<<r, i>>)
    /\ \A i \in DOMAIN bs : local < i => Spare(r, bs[i])
    /\ \A i \in 1..full : local < i => InStore(<<r, i>>)

LEMMA MemoryLoaded ==
    ASSUME DInv, NEW r \in Requests, NEW bs, NEW local, NEW full, ToLoad(r, bs, local, full),
           NEW h, h = [b \in Blocks |->
             IF \E i \in (local + 1)..full : bs[i] = b
             THEN StoredAs(<<r, CHOOSE i \in DOMAIN bs : bs[i] = b>>) ELSE holds[b]]
    PROVE  /\ h \in Memory
           /\ \A b \in Blocks : h[b] = holds[b] \/ Spare(r, b)
           /\ \A i \in DOMAIN bs : i <= full => h[bs[i]] = Whole(<<r, i>>)
<1> USE DEF ToLoad
<1>1. /\ DOMAIN bs = 1..Len(bs) /\ Len(bs) \in Nat /\ \A i \in DOMAIN bs : bs[i] \in Blocks
  BY LenProperties, ElementOfSeq
<1>2. ASSUME NEW i \in (local + 1)..full
      PROVE  i \in DOMAIN bs /\ h[bs[i]] = Whole(<<r, i>>) /\ h[bs[i]] \in Content
                /\ Spare(r, bs[i])
  <2>1. i \in DOMAIN bs /\ i \in 1..full /\ local < i
    BY <1>1
  <2>2. (CHOOSE k \in DOMAIN bs : bs[k] = bs[i]) = i
    BY <2>1 DEF Injective
  <2>3. h[bs[i]] = StoredAs(<<r, i>>)
    BY <1>1, <2>1, <2>2
  <2>4. InStore(<<r, i>>)
    BY <2>1
  <2> QED BY <2>1, <2>3, <2>4, LoadedRight
<1>3. ASSUME NEW b \in Blocks, ~\E i \in (local + 1)..full : bs[i] = b PROVE h[b] = holds[b]
  BY <1>3
<1>4. ASSUME NEW b \in Blocks
      PROVE  h[b] \in Content \cup {Nobody} /\ (h[b] = holds[b] \/ Spare(r, b))
  <2>1. holds[b] \in Content \cup {Nobody}
    BY DEF DInv, Shape, Memory
  <2>2. CASE ~\E i \in (local + 1)..full : bs[i] = b
    BY <1>3, <2>1, <2>2
  <2>3. ASSUME NEW i \in (local + 1)..full, bs[i] = b
        PROVE  h[b] \in Content /\ Spare(r, b)
    BY <1>2, <2>3
  <2> QED BY <2>2, <2>3
<1>5. ASSUME NEW i \in DOMAIN bs, i <= full PROVE h[bs[i]] = Whole(<<r, i>>)
  <2>1. CASE i \in (local + 1)..full
    BY <1>2, <2>1
  <2>2. CASE i \notin (local + 1)..full
    <3>1. i \in 1..local
      BY <1>1, <1>5, <2>2
    <3>2. ASSUME NEW k \in (local + 1)..full, bs[k] = bs[i] PROVE FALSE
      <4>1. k = i
        BY <1>2, <3>2 DEF Injective
      <4> QED BY <2>2, <4>1
    <3>3. h[bs[i]] = holds[bs[i]]
      BY <1>1, <1>3, <3>2
    <3> QED BY <3>1, <3>3
  <2> QED BY <2>1, <2>2
<1>6. h \in Memory
  BY <1>4 DEF Memory
<1> QED BY <1>4, <1>5, <1>6

\* The queues after the head of the waiting requests was admitted.
LEMMA AdmittedQueues ==
    ASSUME DInv, NEW r \in Requests, waiting # << >>, r = Head(waiting),
           status' = [status EXCEPT ![r] = "running"],
           running' = Append(running, r), waiting' = Tail(waiting)
    PROVE  /\ status[r] \in {"waiting", "preempted"}
           /\ waiting' \in Seq(Requests) /\ running' \in Seq(Requests) /\ Queued'
<1>0. /\ waiting \in Seq(Requests) /\ running \in Seq(Requests)
      /\ status \in [Requests -> {"waiting", "running", "preempted", "done"}]
      /\ \A i \in 1..Len(waiting) : status[waiting[i]] \in {"waiting", "preempted"}
      /\ \A i \in 1..Len(running) : status[running[i]] = "running"
      /\ \A i, k \in DOMAIN waiting : waiting[i] = waiting[k] => i = k
      /\ \A i, k \in DOMAIN running : running[i] = running[k] => i = k
  BY DEF DInv, Shape, Queued, Injective
<1> HIDE DEF DInv
<1>1. /\ Len(waiting) \in Nat \ {0} /\ DOMAIN waiting = 1..Len(waiting)
      /\ waiting[1] = r /\ \A i \in 1..Len(waiting) : waiting[i] \in Requests
      /\ Len(running) \in Nat /\ DOMAIN running = 1..Len(running)
      /\ \A i \in 1..Len(running) : running[i] \in Requests
  BY <1>0, LenProperties, EmptySeq, ElementOfSeq DEF Head
<1>2. status[r] \in {"waiting", "preempted"}
  BY <1>0, <1>1
<1>3. /\ waiting' \in Seq(Requests) /\ Len(waiting') = Len(waiting) - 1
      /\ DOMAIN waiting' = 1..(Len(waiting) - 1)
      /\ \A i \in 1..(Len(waiting) - 1) : waiting'[i] = waiting[i + 1]
  BY <1>0, HeadTailProperties, LenProperties
<1>4. /\ running' \in Seq(Requests) /\ Len(running') = Len(running) + 1
      /\ DOMAIN running' = 1..(Len(running) + 1)
      /\ \A i \in 1..Len(running) : running'[i] = running[i]
      /\ running'[Len(running) + 1] = r
  BY <1>0, AppendProperties, LenProperties
<1>5. ASSUME NEW i \in 1..Len(waiting') PROVE status'[waiting'[i]] \in {"waiting", "preempted"}
  <2>1. i + 1 \in 1..Len(waiting) /\ i + 1 # 1 /\ waiting'[i] = waiting[i + 1]
    BY <1>1, <1>3
  <2>2. ASSUME waiting[i + 1] = waiting[1] PROVE FALSE
    <3>1. i + 1 \in DOMAIN waiting /\ 1 \in DOMAIN waiting
      BY <1>1, <2>1
    <3>2. \A m, k \in DOMAIN waiting : waiting[m] = waiting[k] => m = k
      BY <1>0
    <3>3. i + 1 = 1
      BY ONLY <2>2, <3>1, <3>2
    <3> QED BY <2>1, <3>3
  <2> QED BY <1>0, <1>1, <2>1, <2>2
<1>6. ASSUME NEW i \in 1..Len(running') PROVE status'[running'[i]] = "running"
  <2>1. CASE i \in 1..Len(running)
    BY <1>0, <1>1, <1>4, <2>1
  <2>2. CASE i \notin 1..Len(running)
    <3>1. i = Len(running) + 1
      BY <1>1, <1>4, <2>2
    <3> QED BY <1>0, <1>4, <3>1
  <2> QED BY <2>1, <2>2
<1>7. Injective(waiting')
  <2> SUFFICES ASSUME NEW i \in DOMAIN waiting', NEW k \in DOMAIN waiting', waiting'[i] = waiting'[k]
               PROVE  i = k
    BY DEF Injective
  <2>1. i \in 1..(Len(waiting) - 1) /\ k \in 1..(Len(waiting) - 1)
    BY <1>3
  <2>2. i + 1 \in 1..Len(waiting) /\ k + 1 \in 1..Len(waiting)
    BY <1>1, <2>1
  <2>3. waiting[i + 1] = waiting[k + 1]
    BY <1>3, <2>1
  <2>4. i + 1 = k + 1
    BY <1>0, <1>1, <2>2, <2>3
  <2> QED BY <1>1, <2>1, <2>4
<1>8. Injective(running')
  <2> SUFFICES ASSUME NEW i \in DOMAIN running', NEW k \in DOMAIN running', running'[i] = running'[k]
               PROVE  i = k
    BY DEF Injective
  <2>1. \A j \in 1..Len(running) : running[j] # r
    BY <1>0, <1>2
  <2>2. CASE i \in 1..Len(running) /\ k \in 1..Len(running)
    BY <1>0, <1>1, <1>4, <2>2
  <2>3. CASE i \notin 1..Len(running) /\ k \notin 1..Len(running)
    BY <1>1, <1>4, <2>3
  <2>4. ASSUME NEW x \in DOMAIN running', NEW y \in DOMAIN running', running'[x] = running'[y],
               x \in 1..Len(running), y \notin 1..Len(running)
        PROVE  FALSE
    <3>1. y = Len(running) + 1
      BY <1>1, <1>4, <2>4
    <3> QED BY <1>4, <2>1, <2>4, <3>1
  <2> QED BY <2>2, <2>3, <2>4
<1> QED BY <1>2, <1>3, <1>4, <1>5, <1>6, <1>7, <1>8 DEF Queued

LEMMA AdmitKeeps ==
    ASSUME DInv, NEW r \in Requests, Admit(r)
    PROVE  DInv' /\ SavedRight(tracker'[r]) /\ status[r] # "running"
<1> DEFINE local == LocalHit(r)
           hit == HitBlocks(r)
           n == FromCaches(r)
           scheduled == Chunk(r, n)
           m == n + scheduled
           fresh == Allocated(AdmissionNeeds(r), FreeFor(r))
           bs == hit \o fresh
           h == [b \in Blocks |->
                   IF \E i \in (local + 1)..FullBlocks(n) : bs[i] = b
                   THEN StoredAs(<<r, CHOOSE i \in DOMAIN bs : bs[i] = b>>) ELSE holds[b]]
           Stock(e) == StockNew(e, bs, m)
           T(e) == IF status[r] = "preempted"
                   THEN DecodePart(Issued(Stock(e)), n, scheduled, bs, TRUE)
                   ELSE Issued(Stock(e))
<1>1. PICK e \in {PromptLen[r], tokens[r]} :
        /\ status[r] = "waiting" => e = PromptLen[r]
        /\ table' = [table EXCEPT ![r] = bs]
        /\ holds' = Compute(r, bs, n, m, h)
        /\ tracker' = [tracker EXCEPT ![r] = Issued(T(e))]
        /\ Forward(r, m, IssuedJobs(r, Stock(e)) \cup IssuedJobs(r, T(e)))
  BY DEF Admit
<1>2. /\ CanAdmit(r)
      /\ status' = [status EXCEPT ![r] = "running"]
      /\ running' = Append(running, r) /\ waiting' = Tail(waiting)
  BY DEF Admit
<1> DEFINE stock == Stock(e)
           u == Issued(stock)
           t == T(e)
           new == Issued(t)
           jobs == IssuedJobs(r, stock) \cup IssuedJobs(r, t)
<1>3. /\ table' = [table EXCEPT ![r] = bs]
      /\ holds' = Compute(r, bs, n, m, h)
      /\ tracker' = [tracker EXCEPT ![r] = new]
      /\ Forward(r, m, jobs)
  BY <1>1
<1>4. stock = [token_len |-> m, blocks |-> bs, saved |-> 0, prefill_end |-> e]
  BY DEF StockNew
<1>5. t = IF status[r] = "preempted" THEN DecodePart(u, n, scheduled, bs, TRUE) ELSE u
  OBVIOUS
<1>6. h = [b \in Blocks |->
             IF \E i \in (local + 1)..FullBlocks(n) : bs[i] = b
             THEN StoredAs(<<r, CHOOSE i \in DOMAIN bs : bs[i] = b>>) ELSE holds[b]]
  OBVIOUS
<1> HIDE DEF local, hit, n, scheduled, m, fresh, bs, h, Stock, T, stock, u, t, new, jobs
<1>7. /\ status[r] \in {"waiting", "preempted"}
      /\ waiting' \in Seq(Requests) /\ running' \in Seq(Requests) /\ Queued'
  BY <1>2, AdmittedQueues DEF CanAdmit
<1>8. /\ n \in Nat /\ n < tokens[r] /\ local \in Nat /\ local <= FullBlocks(n)
      /\ FullBlocks(n) \in Nat
      /\ \A i \in Nat : i <= FullBlocks(n) => i <= local \/ i <= StoredPrefix(r)
  BY FromCachesRight, LocalHitRight, FullBlocksSpec DEF n, local
<1>9. scheduled \in Nat /\ m \in Nat /\ n <= m /\ m <= tokens[r] /\ m = n + scheduled
  BY <1>8, ChunkRight DEF m, scheduled
<1>10. BlocksFor(m) \in Nat /\ FullBlocks(n) <= BlocksFor(m)
  BY <1>8, <1>9, BlocksForSpec, BlocksForBounds
<1>11. AdmissionNeeds(r) = BlocksFor(m) - local /\ AdmissionNeeds(r) \in Nat
  <2>1. AdmissionNeeds(r) = BlocksFor(m) - local
    BY DEF AdmissionNeeds, n, m, scheduled, local
  <2> QED BY <1>8, <1>10, <2>1
<1>12. FreeFor(r) \in SUBSET Free /\ \A i \in DOMAIN hit : hit[i] \notin FreeFor(r)
  BY DEF FreeFor, hit
<1>13. /\ fresh \in Seq(Blocks) /\ Len(fresh) = AdmissionNeeds(r) /\ Injective(fresh)
       /\ DOMAIN fresh = 1..AdmissionNeeds(r)
       /\ \A i \in DOMAIN fresh : fresh[i] \in FreeFor(r)
  <2>1. FreeFor(r) \in SUBSET Blocks
    BY <1>12 DEF Free
  <2>2. Cardinality(FreeFor(r)) \in Nat
    BY <2>1, DecodeSaveAssumption, FS_Subset, FS_CardinalityType
  <2>3. AdmissionNeeds(r) <= Cardinality(FreeFor(r))
    BY <1>2, <1>11, <2>2 DEF CanAdmit
  <2> QED BY <1>11, <2>1, <2>3, AllocatedRight DEF fresh
<1>14. /\ hit \in Seq(Blocks) /\ Len(hit) = local /\ Injective(hit)
       /\ DOMAIN hit = 1..local
       /\ \A i \in 1..local : holds[hit[i]] = Whole(<<r, i>>)
  BY HitBlocksRight DEF hit, local
<1>15. /\ bs \in Seq(Blocks) /\ Len(bs) = BlocksFor(m) /\ Injective(bs)
       /\ \A i \in DOMAIN bs : IF i <= local THEN i \in 1..local /\ bs[i] = hit[i]
                               ELSE bs[i] \in FreeFor(r)
  <2>1. \A i \in DOMAIN hit, k \in DOMAIN fresh : hit[i] # fresh[k]
    BY <1>12, <1>13
  <2>2. /\ bs \in Seq(Blocks) /\ Len(bs) = Len(hit) + Len(fresh) /\ Injective(bs)
        /\ \A i \in DOMAIN bs :
              IF i <= Len(hit) THEN i \in DOMAIN hit /\ bs[i] = hit[i]
              ELSE i - Len(hit) \in DOMAIN fresh /\ bs[i] = fresh[i - Len(hit)]
    BY <1>13, <1>14, <2>1, ExtendedTable DEF bs
  <2>3. Len(hit) + Len(fresh) = BlocksFor(m)
    BY <1>8, <1>10, <1>11, <1>13, <1>14
  <2> QED BY <1>13, <1>14, <2>2, <2>3
<1>16. DOMAIN bs = 1..Len(bs) /\ Len(bs) \in Nat /\ FullBlocks(n) <= Len(bs)
  BY <1>10, <1>15, LenProperties
<1>17. \A i \in 1..local : holds[bs[i]] = Whole(<<r, i>>)
  BY <1>8, <1>14, <1>15, <1>16
<1>18. ASSUME NEW i \in DOMAIN bs, local < i PROVE Spare(r, bs[i])
  <2>1. bs[i] \in Free
    BY <1>8, <1>12, <1>15, <1>16, <1>18
  <2> QED BY <2>1, FreeIsSpare
<1>19. \A i \in 1..FullBlocks(n) : local < i => InStore(<<r, i>>)
  <2>1. StoredPrefix(r) \in Nat /\ \A i \in 1..StoredPrefix(r) : InStore(<<r, i>>)
    BY StoredPrefixRight
  <2> QED BY <1>8, <2>1
<1>20. /\ h \in Memory
       /\ \A b \in Blocks : h[b] = holds[b] \/ Spare(r, b)
       /\ \A i \in DOMAIN bs : i <= FullBlocks(n) => h[bs[i]] = Whole(<<r, i>>)
  <2>1. ToLoad(r, bs, local, FullBlocks(n))
    BY <1>8, <1>15, <1>16, <1>17, <1>18, <1>19 DEF ToLoad
  <2> HIDE DEF DInv
  <2> QED BY <1>6, <2>1, MemoryLoaded
<1>21. /\ LaidOut(holds', r, bs, m)
       /\ \A b \in Blocks : holds'[b] = holds[b] \/ Spare(r, b)
       /\ holds' \in Memory
  <2>1. Continues(r, bs, n, m, h)
    BY <1>8, <1>9, <1>15, <1>20 DEF Continues
  <2>2. \A i \in DOMAIN bs : FullBlocks(n) < i => Spare(r, bs[i])
    BY <1>8, <1>16, <1>18
  <2>3. holds' = Compute(r, bs, n, m, h) /\ Len(bs) = BlocksFor(m)
    BY <1>3, <1>15
  <2> QED BY <1>20, <2>1, <2>2, <2>3, MemoryAfter
<1>22. /\ stock \in Tracker /\ stock.blocks = bs /\ stock.token_len = m
       /\ stock.prefill_end = e
  <2>1. e \in Nat
    BY DecodeSaveAssumption DEF DInv, Shape
  <2> QED BY <1>4, <1>9, <1>15, <2>1 DEF Tracker
<1>23. u \in Tracker /\ u.blocks = bs /\ u.token_len = m /\ u.prefill_end = e
  BY <1>22, IssuedRight DEF u
<1>24. t = u
  BY <1>5 DEF DecodePart, DecodeTracker, should_save_decode_request
<1>25. new \in Tracker /\ new.blocks = bs /\ new.token_len <= m
  BY <1>9, <1>23, <1>24, IssuedRight DEF new
<1>26. ASSUME NEW j \in IssuedJobs(r, stock) PROVE JobRight(holds', j)
  BY <1>9, <1>21, <1>22, <1>26, IssuedJobsRight
<1>27. ASSUME NEW j \in IssuedJobs(r, t) PROVE JobRight(holds', j)
  BY <1>9, <1>21, <1>23, <1>24, <1>27, IssuedJobsRight
<1>28. \A j \in jobs : JobRight(holds', j)
  BY <1>26, <1>27 DEF jobs
<1>29. DInv'
  BY <1>2, <1>3, <1>7, <1>9, <1>21, <1>25, <1>28, ForwardKeeps
<1>30. SavedRight(new)
  <2>1. FullBlocks(m) \in Nat /\ SavedRight(stock)
    BY <1>4, <1>9, <1>22, FullBlocksSpec DEF SavedRight
  <2>2. SavedRight(u)
    BY <1>22, <2>1, IssuedSaves DEF u
  <2> QED BY <1>23, <1>24, <2>2, IssuedSaves DEF new
<1>31. tracker'[r] = new
  BY <1>3 DEF DInv, Shape
<1> QED BY <1>7, <1>29, <1>30, <1>31

----------------------------------------------------------------------------
(* Requests that leave their blocks, idle steps and puts.                  *)

\* A request that leaves is no longer among the running ones.
LEMMA LeavesRunning ==
    ASSUME DInv, NEW r \in Requests, NEW how \in {"preempted", "done"}, Leave(r, how)
    PROVE  /\ status[r] = "running" /\ running' \in Seq(Requests) /\ Injective(running')
           /\ \A k \in 1..Len(running') : status'[running'[k]] = "running"
<1>0. /\ running \in Seq(Requests) /\ status \in [Requests -> {"waiting", "running", "preempted", "done"}]
      /\ \A k \in 1..Len(running) : status[running[k]] = "running"
      /\ \A k, l \in DOMAIN running : running[k] = running[l] => k = l
      /\ status' = [status EXCEPT ![r] = how]
  BY DEF DInv, Shape, Queued, Injective, Leave
<1>1. PICK i \in DOMAIN running : running[i] = r /\ running' = RemoveAt(running, i)
  BY DEF Leave
<1> DEFINE a == SubSeq(running, 1, i - 1)  z == SubSeq(running, i + 1, Len(running))
<1>2. /\ Len(running) \in Nat /\ DOMAIN running = 1..Len(running) /\ i \in 1..Len(running)
      /\ \A k \in 1..Len(running) : running[k] \in Requests
  BY <1>0, LenProperties, ElementOfSeq
<1>3. /\ a \in Seq(Requests) /\ Len(a) = i - 1
      /\ \A k \in 1..(i - 1) : a[k] = running[k]
  <2>1. \A k \in 1..(i - 1) : running[k] \in Requests
    BY <1>2
  <2>2. /\ a \in Seq(Requests) /\ Len(a) = IF 1 <= i - 1 THEN (i - 1) - 1 + 1 ELSE 0
        /\ \A k \in 1..((i - 1) - 1 + 1) : a[k] = running[1 + k - 1]
    BY <1>2, <2>1, SubSeqProperties
  <2> HIDE DEF a
  <2> QED BY <1>2, <2>2
<1>4. /\ z \in Seq(Requests) /\ Len(z) = Len(running) - i
      /\ \A k \in 1..(Len(running) - i) : z[k] = running[i + k]
  <2>1. \A k \in (i + 1)..Len(running) : running[k] \in Requests
    BY <1>2
  <2>2. /\ z \in Seq(Requests)
        /\ Len(z) = IF i + 1 <= Len(running) THEN Len(running) - (i + 1) + 1 ELSE 0
        /\ \A k \in 1..(Len(running) - (i + 1) + 1) : z[k] = running[i + 1 + k - 1]
    BY <1>2, <2>1, SubSeqProperties
  <2> HIDE DEF z
  <2>3. Len(z) = Len(running) - i
    BY <1>2, <2>2
  <2>4. ASSUME NEW k \in 1..(Len(running) - i) PROVE z[k] = running[i + k]
    <3>1. k \in 1..(Len(running) - (i + 1) + 1) /\ i + 1 + k - 1 = i + k
      BY <1>2
    <3> QED BY <2>2, <3>1
  <2> QED BY <2>2, <2>3, <2>4
<1>5. running' = a \o z
  BY <1>1 DEF RemoveAt
<1> HIDE DEF a, z
<1>6. /\ running' \in Seq(Requests) /\ DOMAIN running' = 1..(Len(running) - 1)
      /\ Len(running') = Len(running) - 1
      /\ \A k \in 1..(Len(running) - 1) :
            running'[k] = IF k < i THEN running[k] ELSE running[k + 1]
  <2>1. /\ a \o z \in Seq(Requests) /\ Len(a \o z) = Len(a) + Len(z)
        /\ \A k \in 1..(Len(a) + Len(z)) : (a \o z)[k] = IF k <= Len(a) THEN a[k] ELSE z[k - Len(a)]
    BY <1>3, <1>4, ConcatProperties
  <2>2. Len(a) + Len(z) = Len(running) - 1
    BY <1>2, <1>3, <1>4
  <2>3. ASSUME NEW k \in 1..(Len(running) - 1)
        PROVE  running'[k] = IF k < i THEN running[k] ELSE running[k + 1]
    <3>1. CASE k < i
      BY <1>2, <1>3, <1>5, <2>1, <2>2, <3>1
    <3>2. CASE ~(k < i)
      <4>1. k - Len(a) \in 1..(Len(running) - i) /\ i + (k - Len(a)) = k + 1 /\ ~(k <= Len(a))
        BY <1>2, <1>3, <3>2
      <4> QED BY <1>4, <1>5, <2>1, <2>2, <3>2, <4>1
    <3> QED BY <3>1, <3>2
  <2>4. DOMAIN running' = 1..Len(running')
    BY <1>5, <2>1, LenProperties
  <2> QED BY <1>5, <2>1, <2>2, <2>3, <2>4
<1>7. ASSUME NEW k \in 1..Len(running')
      PROVE  \E l \in 1..Len(running) : l # i /\ running'[k] = running[l] /\ l = IF k < i THEN k ELSE k + 1
  <2>1. CASE k < i
    BY <1>2, <1>6, <2>1
  <2>2. CASE ~(k < i)
    BY <1>2, <1>6, <2>2
  <2> QED BY <2>1, <2>2
<1>8. ASSUME NEW k \in 1..Len(running') PROVE status'[running'[k]] = "running"
  <2>1. PICK l \in 1..Len(running) : l # i /\ running'[k] = running[l]
    BY <1>7
  <2>2. running[l] # r
    BY <1>0, <1>1, <1>2, <2>1
  <2> QED BY <1>0, <1>2, <2>1, <2>2
<1>9. Injective(running')
  <2> SUFFICES ASSUME NEW k \in DOMAIN running', NEW l \in DOMAIN running', running'[k] = running'[l]
               PROVE  k = l
    BY DEF Injective
  <2>1. k \in 1..Len(running') /\ l \in 1..Len(running')
    BY <1>6
  <2>2. PICK x \in 1..Len(running) : running'[k] = running[x] /\ x = IF k < i THEN k ELSE k + 1
    BY <1>7, <2>1
  <2>3. PICK y \in 1..Len(running) : running'[l] = running[y] /\ y = IF l < i THEN l ELSE l + 1
    BY <1>7, <2>1
  <2>4. x = y
    BY <1>0, <1>2, <2>2, <2>3
  <2> QED BY <1>2, <1>6, <2>1, <2>2, <2>3, <2>4
<1> QED BY <1>0, <1>1, <1>2, <1>6, <1>8, <1>9

\* What leaving does to all but the queues and the jobs.
LEMMA LeaveRight ==
    ASSUME DInv, NEW r \in Requests, NEW how \in {"preempted", "done"}, Leave(r, how)
    PROVE  /\ waiting' \in Seq(Requests) => Shape'
           /\ Positioned' /\ Tracked' /\ KVIsRight' /\ StoredIsRight'
<1>0. ASSUME waiting' \in Seq(Requests) PROVE Shape'
  <2>1. running' \in Seq(Requests)
    BY LeavesRunning
  <2>2. /\ status' \in [Requests -> {"waiting", "running", "preempted", "done"}]
        /\ computed' \in [Requests -> Nat] /\ table' \in [Requests -> Seq(Blocks)]
        /\ tracker' \in [Requests -> Tracker \cup {Nobody}]
        /\ UNCHANGED <<tokens, holds, connector, store>>
    BY DEF DInv, Shape, Leave
  <2> QED BY <1>0, <2>1, <2>2 DEF DInv, Shape
<1> USE DEF DInv, Shape, Leave
<1>1. Positioned'
  BY DEF Positioned
<1>2. Tracked'
  BY DEF Tracked, TrackedRight, SavesDecode
<1>3. KVIsRight'
  BY DEF KVIsRight
<1>4. StoredIsRight'
  BY DEF StoredIsRight
<1> QED BY <1>0, <1>1, <1>2, <1>3, <1>4

LEMMA PreemptKeeps ==
    ASSUME DInv, NEW r \in Requests, Preempt(r)
    PROVE  DInv'
<1>1. /\ Leave(r, "preempted") /\ waiting' = <<r>> \o waiting /\ UNCHANGED owed
  BY DEF Preempt
<1>2. /\ status[r] = "running" /\ running' \in Seq(Requests) /\ Injective(running')
      /\ \A k \in 1..Len(running') : status'[running'[k]] = "running"
  BY <1>1, LeavesRunning
<1>3. /\ waiting \in Seq(Requests) /\ Len(waiting) \in Nat /\ DOMAIN waiting = 1..Len(waiting)
      /\ \A i \in 1..Len(waiting) : waiting[i] \in Requests
      /\ \A i \in 1..Len(waiting) : status[waiting[i]] \in {"waiting", "preempted"}
      /\ \A i, k \in DOMAIN waiting : waiting[i] = waiting[k] => i = k
      /\ status \in [Requests -> {"waiting", "running", "preempted", "done"}]
  BY LenProperties, ElementOfSeq DEF DInv, Shape, Queued, Injective
<1>4. status' = [status EXCEPT ![r] = "preempted"]
  BY <1>1 DEF Leave
<1>5. /\ waiting' \in Seq(Requests) /\ DOMAIN waiting' = 1..(Len(waiting) + 1)
      /\ Len(waiting') = Len(waiting) + 1 /\ waiting'[1] = r
      /\ \A i \in 2..(Len(waiting) + 1) : waiting'[i] = waiting[i - 1]
  <2>1. <<r>> \in Seq(Requests) /\ Len(<<r>>) = 1 /\ <<r>>[1] = r
    OBVIOUS
  <2>2. /\ <<r>> \o waiting \in Seq(Requests) /\ Len(<<r>> \o waiting) = 1 + Len(waiting)
        /\ \A i \in 1..(1 + Len(waiting)) :
              (<<r>> \o waiting)[i] = IF i <= 1 THEN <<r>>[i] ELSE waiting[i - 1]
    BY <1>3, <2>1, ConcatProperties
  <2>3. DOMAIN waiting' = 1..Len(waiting')
    BY <1>1, <2>2, LenProperties
  <2> QED BY <1>1, <1>3, <2>1, <2>2, <2>3
<1>6. ASSUME NEW i \in 1..Len(waiting')
      PROVE  /\ status'[waiting'[i]] \in {"waiting", "preempted"}
             /\ i = 1 \/ (i - 1 \in 1..Len(waiting) /\ waiting'[i] = waiting[i - 1] /\ waiting'[i] # r)
  <2>1. CASE i = 1
    BY <1>3, <1>4, <1>5, <2>1
  <2>2. CASE i # 1
    <3>1. i - 1 \in 1..Len(waiting) /\ waiting'[i] = waiting[i - 1]
      BY <1>3, <1>5, <2>2
    <3>2. waiting[i - 1] # r
      BY <1>2, <1>3, <3>1
    <3> QED BY <1>3, <1>4, <3>1, <3>2
  <2> QED BY <2>1, <2>2
<1>7. Injective(waiting')
  <2> SUFFICES ASSUME NEW i \in DOMAIN waiting', NEW k \in DOMAIN waiting', waiting'[i] = waiting'[k]
               PROVE  i = k
    BY DEF Injective
  <2>1. i \in 1..Len(waiting') /\ k \in 1..Len(waiting') /\ i \in Int /\ k \in Int
    BY <1>3, <1>5
  <2>2. CASE i = 1
    BY <1>5, <1>6, <2>1, <2>2
  <2>3. CASE k = 1
    BY <1>5, <1>6, <2>1, <2>3
  <2>4. CASE i # 1 /\ k # 1
    <3>1. i - 1 \in DOMAIN waiting /\ k - 1 \in DOMAIN waiting /\ waiting[i - 1] = waiting[k - 1]
      BY <1>3, <1>6, <2>1, <2>4
    <3>2. \A m, o \in DOMAIN waiting : waiting[m] = waiting[o] => m = o
      BY <1>3
    <3>3. i - 1 = k - 1
      BY ONLY <3>1, <3>2
    <3> QED BY <2>1, <3>3
  <2> QED BY <2>2, <2>3, <2>4
<1>8. Queued'
  BY <1>2, <1>6, <1>7 DEF Queued
<1>9. JobsRight'
  BY <1>1 DEF Leave, DInv, JobsRight, Jobs
<1> QED BY <1>1, <1>5, <1>8, <1>9, LeaveRight DEF DInv

\* The blocks of a request that ends are owed as they are.
LEMMA FinishKeeps ==
    ASSUME DInv, NEW r \in Requests, Finish(r)
    PROVE  DInv'
<1> DEFINE last == [req |-> r, upto |-> FullBlocks(computed[r]),
                    blocks |-> SubSeq(table[r], 1, FullBlocks(computed[r]))]
<1>1. Leave(r, "done") /\ UNCHANGED waiting /\ owed' \subseteq owed \cup {last}
  BY DEF Finish
<1>2. /\ status[r] = "running" /\ running' \in Seq(Requests) /\ Injective(running')
      /\ \A k \in 1..Len(running') : status'[running'[k]] = "running"
  BY <1>1, LeavesRunning
<1>3. Queued'
  <2>1. ASSUME NEW i \in 1..Len(waiting) PROVE status'[waiting[i]] \in {"waiting", "preempted"}
    <3>1. status[waiting[i]] \in {"waiting", "preempted"} /\ waiting[i] # r
      BY <1>2 DEF DInv, Queued
    <3> QED BY <1>1, <3>1 DEF Leave, DInv, Shape
  <2> QED BY <1>1, <1>2, <2>1 DEF DInv, Queued
<1>4. LaidOut(holds, r, table[r], computed[r])
  BY <1>2 DEF DInv, Shape, Tracked, TrackedRight, KVIsRight, LaidOut
<1>5. JobRight(holds, last)
  <2>1. computed[r] \in Nat /\ computed[r] <= computed[r]
    BY DEF DInv, Shape
  <2> QED BY <1>4, <2>1, StoreJobRight
<1> HIDE DEF last
<1>6. JobsRight'
  BY <1>1, <1>5 DEF Leave, DInv, JobsRight, Jobs
<1>7. Shape'
  BY <1>1, LeaveRight DEF DInv, Shape
<1> QED BY <1>1, <1>3, <1>6, <1>7, LeaveRight DEF DInv

LEMMA IdleKeeps ==
    ASSUME DInv, IdleStep
    PROVE  DInv'
  BY DEF IdleStep, engineVars, DInv, Shape, Queued, Positioned, Tracked, TrackedRight, JobsRight,
         Jobs, KVIsRight, StoredIsRight, SavesDecode

\* A put stores what its blocks hold, and they hold it still.
LEMMA PutKeeps ==
    ASSUME DInv, NEW j \in queue, Put(j)
    PROVE  DInv'
<1>1. /\ UNCHANGED <<status, running, waiting, tokens, computed, table, holds, connector, tracker>>
      /\ Jobs' \subseteq Jobs
  BY DEF Put, engineVars, Jobs
<1>2. j \in Job /\ \A i \in 1..j.upto : holds[j.blocks[i]] = Whole(<<j.req, i>>)
  BY DEF DInv, JobsRight, JobRight, Jobs
<1>3. ASSUME NEW s \in store', s \notin store
      PROVE  s \in [key : Keys, content : Content] /\ s.content = Whole(s.key)
  <2>1. PICK i \in 1..j.upto : s = [key |-> <<j.req, i>>, content |-> holds[j.blocks[i]]]
    BY <1>3 DEF Put
  <2>2. s = [key |-> <<j.req, i>>, content |-> Whole(<<j.req, i>>)]
    BY <1>2, <2>1
  <2>3. <<j.req, i>> \in Keys
    BY <1>2 DEF Job, Keys
  <2>4. Whole(<<j.req, i>>) \in Content
    BY <2>3, DecodeSaveAssumption DEF Whole, Content
  <2> QED BY <2>2, <2>3, <2>4
<1>4. Shape' /\ StoredIsRight'
  BY <1>1, <1>3 DEF DInv, Shape, StoredIsRight
<1>5. Queued' /\ Positioned' /\ Tracked' /\ KVIsRight'
  BY <1>1 DEF DInv, Queued, Positioned, Tracked, TrackedRight, KVIsRight, SavesDecode
<1>6. JobsRight'
  BY <1>1 DEF DInv, JobsRight
<1> QED BY <1>4, <1>5, <1>6 DEF DInv

----------------------------------------------------------------------------
LEMMA InitDInv == Init => DInv
<1> SUFFICES ASSUME Init PROVE DInv
  OBVIOUS
<1> USE DEF Init
<1>1. /\ waiting \in Seq(Requests) /\ Len(waiting) \in Nat /\ DOMAIN waiting = 1..Len(waiting)
      /\ Injective(waiting) /\ \A i \in 1..Len(waiting) : waiting[i] \in Requests
  <2>1. PICK k \in Nat : waiting \in [1..k -> Requests] /\ Injective(waiting)
    BY DecodeSaveAssumption, FS_CardinalityType
  <2>2. waiting \in Seq(Requests) /\ Len(waiting) = k
    BY <2>1
  <2> QED BY <2>1, <2>2
<1>2. Shape
  BY <1>1, DecodeSaveAssumption DEF Shape, Memory
<1>3. Queued
  BY <1>1 DEF Queued, Injective
<1>4. Positioned
  BY DecodeSaveAssumption DEF Positioned
<1>5. Tracked /\ JobsRight /\ KVIsRight /\ StoredIsRight
  BY DEF Tracked, JobsRight, Jobs, KVIsRight, StoredIsRight
<1> QED BY <1>2, <1>3, <1>4, <1>5 DEF DInv

LEMMA StepDInv == DInv /\ [Next]_vars => DInv'
<1> SUFFICES ASSUME DInv, [Next]_vars PROVE DInv'
  OBVIOUS
<1>1. ASSUME NEW r \in Requests, Admit(r) PROVE DInv'
  BY <1>1, AdmitKeeps
<1>2. ASSUME NEW r \in Requests, Step(r) PROVE DInv'
  BY <1>2, StepKeeps
<1>3. ASSUME NEW r \in Requests, Preempt(r) PROVE DInv'
  BY <1>3, PreemptKeeps
<1>4. ASSUME NEW r \in Requests, Finish(r) PROVE DInv'
  BY <1>4, FinishKeeps
<1>5. CASE IdleStep
  BY <1>5, IdleKeeps
<1>6. ASSUME NEW j \in queue, Put(j) PROVE DInv'
  BY <1>6, PutKeeps
<1>7. CASE UNCHANGED vars
  BY <1>7 DEF vars, DInv, Shape, Queued, Positioned, Tracked, TrackedRight, JobsRight, Jobs,
              KVIsRight, StoredIsRight, SavesDecode
<1> QED BY <1>1, <1>2, <1>3, <1>4, <1>5, <1>6, <1>7 DEF Next, EngineStep

\* Whatever is in the shared store under a block's key is that block, complete: for any
\* requests, blocks, budgets and orders of steps, preemptions, failed and late puts
\* (build_connector_meta, should_save_decode_request).
THEOREM StoredBlocksAreRight == Spec => []StoredIsRight
<1>1. DInv => StoredIsRight
  BY DEF DInv
<1> QED BY <1>1, InitDInv, StepDInv, PTL DEF Spec

\* A running request computes on its own KV, wherever it got it back from
\* (get_num_new_matched_tokens, build_connector_meta).
THEOREM RunningKVIsRight == Spec => []KVIsRight
<1>1. DInv => KVIsRight
  BY DEF DInv
<1> QED BY <1>1, InitDInv, StepDInv, PTL DEF Spec

\* The types, and a tracker for the running requests and no others.
THEOREM TypesAndTrackers == Spec => []TypeOK
<1>1. ASSUME DInv, NEW r \in Requests PROVE status[r] = "running" <=> tracker[r] # Nobody
  BY <1>1, DecodeSaveAssumption DEF DInv, Tracked, TrackedRight, Tracker
<1>2. DInv => owed \subseteq Job /\ queue \subseteq Job /\ dropped \subseteq Job
  BY DEF DInv, JobsRight, JobRight, Jobs
<1>3. DInv => TypeOK
  BY <1>1, <1>2 DEF DInv, Shape, TypeOK
<1> QED BY <1>3, InitDInv, StepDInv, PTL DEF Spec

----------------------------------------------------------------------------
(* That decode steps catch up.                                             *)

SInv == DInv /\ \A r \in Requests : status[r] = "running" => SavedRight(tracker[r])

\* A tracker whose token_len has grown.
LEMMA GrownSaves ==
    ASSUME NEW t \in Tracker, SavedRight(t), NEW x \in Tracker, x.saved = t.saved,
           t.token_len <= x.token_len
    PROVE  SavedRight(x)
<1>1. t.token_len \in Nat /\ x.token_len \in Nat /\ t.saved \in Nat
  BY DEF Tracker
<1>2. /\ FullBlocks(t.token_len) <= FullBlocks(x.token_len)
      /\ FullBlocks(t.token_len) \in Nat /\ FullBlocks(x.token_len) \in Nat
  BY <1>1, FullMonotone, FullBlocksSpec
<1> QED BY <1>1, <1>2 DEF SavedRight

LEMMA StockCachedSaves ==
    ASSUME NEW t, NEW n, NEW scheduled, NEW fresh, AtMost(t, n, n, scheduled, fresh), SavedRight(t)
    PROVE  SavedRight(StockCached(t, n, scheduled, fresh))
<1> DEFINE x == StockCached(t, n, scheduled, fresh)
<1>1. x \in Tracker /\ t \in Tracker /\ scheduled \in Nat /\ t.token_len \in Nat
  BY StockCachedRight DEF AtMost, Tracker
<1>2. x.saved = t.saved /\ (x.token_len = t.token_len \/ x.token_len = t.token_len + scheduled)
  BY <1>1 DEF StockCached, Tracker
<1> HIDE DEF x
<1>3. t.token_len <= x.token_len
  BY <1>1, <1>2
<1>4. SavedRight(x)
  BY <1>1, <1>2, <1>3, GrownSaves
<1> QED BY <1>4 DEF x

LEMMA DecodeTrackerSaves ==
    ASSUME NEW u, NEW n, NEW scheduled, NEW fresh, NEW m, m = n + scheduled,
           AtMost(u, m, n, scheduled, fresh), SavedRight(u),
           NEW x, x = Decoded(u, n, scheduled, fresh)
    PROVE  /\ SavedRight(x)
           /\ fresh # << >> /\ n >= u.prefill_end => x.token_len = m
<1>1. x \in Tracker /\ u \in Tracker /\ m \in Nat /\ u.token_len \in Nat /\ u.token_len <= m
  <2>1. x \in Tracker
    BY DecodeTrackerRight
  <2>2. n + scheduled \in Nat
    BY DEF AtMost
  <2> QED BY <2>1, <2>2 DEF AtMost, Tracker
<1>2. CASE fresh = << >> \/ ~(n >= u.prefill_end)
  BY <1>2 DEF Decoded, DecodeTracker, should_save_decode_request
<1>3. CASE ~(fresh = << >> \/ ~(n >= u.prefill_end))
  <2> DEFINE advanced == [u EXCEPT !.token_len = IF @ < n + scheduled THEN n + scheduled ELSE @]
  <2>1. x = [advanced EXCEPT !.blocks = @ \o fresh]
    BY <1>3 DEF Decoded, DecodeTracker, should_save_decode_request
  <2>2. advanced.saved = u.saved /\ advanced.token_len = n + scheduled /\ advanced \in Tracker
    BY <1>1 DEF Tracker
  <2> HIDE DEF advanced
  <2>3. x.saved = u.saved /\ x.token_len = n + scheduled
    BY <2>1, <2>2 DEF Tracker
  <2>4. SavedRight(x)
    BY <1>1, <2>3, GrownSaves
  <2> QED BY <2>3, <2>4
<1> QED BY <1>2, <1>3

\* A step of a running request issues the puts of all that is complete by then, once the
\* request decodes and takes a block.
LEMMA StepSaves ==
    ASSUME SInv, NEW r \in Requests, Step(r)
    PROVE  /\ SavedRight(tracker'[r])
           /\ SavesDecode /\ computed[r] >= tracker[r].prefill_end /\ Len(table'[r]) > Len(table[r])
                => tracker'[r].saved = FullBlocks(computed'[r])
<1> DEFINE n == computed[r]
           scheduled == Chunk(r, n)
           m == n + scheduled
           fresh == Allocated(Missing(r), Free)
           stock == StockCached(tracker[r], n, scheduled, fresh)
           saves == fresh # << >> /\ n < tracker[r].prefill_end
           u == IF saves THEN Issued(stock) ELSE stock
           t == DecodePart(u, n, scheduled, fresh, FALSE)
           new == IF t = u THEN u ELSE Issued(t)
<1>1. /\ status[r] = "running" /\ Missing(r) <= Cardinality(Free)
      /\ table' = [table EXCEPT ![r] = table[r] \o fresh]
      /\ tracker' = [tracker EXCEPT ![r] = new]
      /\ computed' = [computed EXCEPT ![r] = m]
  BY DEF Step, Forward
<1>2. /\ stock = StockCached(tracker[r], n, scheduled, fresh)
      /\ saves <=> fresh # << >> /\ n < tracker[r].prefill_end
      /\ u = IF saves THEN Issued(stock) ELSE stock
      /\ t = IF SavesDecode THEN DecodeTracker(u, n, scheduled, fresh, FALSE) ELSE u
      /\ new = IF t = u THEN u ELSE Issued(t)
      /\ m = n + scheduled
  BY DEF DecodePart
<1> HIDE DEF n, scheduled, m, fresh, stock, saves, u, t, new
<1>3. /\ DInv /\ SavedRight(tracker[r])
      /\ n \in Nat /\ n < tokens[r] /\ table[r] \in Seq(Blocks)
      /\ Len(table[r]) = BlocksFor(n) /\ tracker[r] \in Tracker
      /\ tracker[r].token_len <= n
      /\ tracker \in [Requests -> Tracker \cup {Nobody}]
      /\ computed \in [Requests -> Nat] /\ table \in [Requests -> Seq(Blocks)]
  BY <1>1 DEF SInv, DInv, Shape, Positioned, Tracked, TrackedRight, n
<1>4. scheduled \in Nat /\ m \in Nat /\ n <= m
  BY <1>2, <1>3, ChunkRight DEF scheduled
<1>5. Missing(r) \in Nat
  <2>1. BlocksFor(n) <= BlocksFor(m) /\ BlocksFor(n) \in Nat /\ BlocksFor(m) \in Nat
    BY <1>3, <1>4, BlocksForSpec, BlocksForBounds
  <2>2. Missing(r) = BlocksFor(m) - BlocksFor(n)
    BY <1>3 DEF Missing, m, scheduled, n
  <2> QED BY <2>1, <2>2
<1>6. fresh \in Seq(Blocks)
  <2>1. Free \in SUBSET Blocks
    BY DEF Free
  <2> QED BY <1>1, <1>5, <2>1, AllocatedRight DEF fresh
<1>7. AtMost(tracker[r], n, n, scheduled, fresh)
  BY <1>3, <1>4, <1>6 DEF AtMost
<1>8. /\ stock \in Tracker /\ stock.token_len <= m
      /\ stock.prefill_end = tracker[r].prefill_end /\ SavedRight(stock)
  BY <1>2, <1>3, <1>7, StockCachedRight, StockCachedSaves
<1>9. /\ u \in Tracker /\ u.token_len <= m /\ u.prefill_end = tracker[r].prefill_end
      /\ SavedRight(u)
  BY <1>2, <1>8, IssuedRight, IssuedSaves
<1>10. AtMost(u, m, n, scheduled, fresh) /\ m = n + scheduled
  BY <1>2, <1>3, <1>4, <1>6, <1>9 DEF AtMost
<1> DEFINE x == Decoded(u, n, scheduled, fresh)
<1>11. x = Decoded(u, n, scheduled, fresh) /\ t = IF SavesDecode THEN x ELSE u
  BY <1>2 DEF Decoded
<1> HIDE DEF x
<1>12. t \in Tracker /\ SavedRight(t)
  BY <1>9, <1>10, <1>11, DecodeTrackerRight, DecodeTrackerSaves
<1>13. SavedRight(new)
  BY <1>2, <1>9, <1>12, IssuedSaves
<1>14. ASSUME SavesDecode, n >= tracker[r].prefill_end, Len(table'[r]) > Len(table[r])
       PROVE  new.saved = FullBlocks(m)
  <2>1. fresh # << >>
    BY <1>1, <1>3, <1>14, ConcatEmptySeq
  <2>2. n >= u.prefill_end /\ ~(n < u.prefill_end)
    BY <1>3, <1>9, <1>14 DEF Tracker
  <2>3. t.token_len = m
    <3>1. fresh # << >> /\ n >= u.prefill_end => x.token_len = m
      BY <1>9, <1>10, <1>11, DecodeTrackerSaves
    <3> QED BY <1>11, <1>14, <2>1, <2>2, <3>1
  <2>4. t.blocks = u.blocks \o fresh
    <3>1. fresh # << >> /\ ~(n < u.prefill_end) => x.blocks = u.blocks \o fresh
      BY <1>10, <1>11, DecodeTrackerRight
    <3> QED BY <1>11, <1>14, <2>1, <2>2, <3>1
  <2>5. t # u
    <3>1. u.blocks \in Seq(Blocks)
      BY <1>9 DEF Tracker
    <3>2. Len(u.blocks \o fresh) = Len(u.blocks) + Len(fresh)
      BY <1>6, <3>1, ConcatProperties
    <3>3. Len(u.blocks) \in Nat /\ Len(fresh) \in Nat /\ Len(fresh) # 0
      BY <1>6, <2>1, <3>1, LenProperties, EmptySeq
    <3>4. ASSUME t.blocks = u.blocks PROVE FALSE
      BY <2>4, <3>2, <3>3, <3>4
    <3> QED BY <3>4
  <2> QED BY <1>2, <1>12, <2>3, <2>5, IssuedSaves
<1>15. tracker'[r] = new /\ computed'[r] = m
  BY <1>1, <1>3
<1> QED BY <1>13, <1>14, <1>15 DEF n

\* The trackers a step does not touch, and that it takes no request's blocks but r's.
LEMMA OthersKeepTrackers ==
    ASSUME DInv, NEW r \in Requests, Admit(r) \/ Step(r) \/ Preempt(r) \/ Finish(r),
           NEW q \in Requests \ {r}
    PROVE  status'[q] = status[q] /\ tracker'[q] = tracker[q] /\ table'[q] = table[q]
  BY DEF Admit, Step, Preempt, Finish, Leave, DInv, Shape

LEMMA LeaveEmpties ==
    ASSUME DInv, NEW r \in Requests, Preempt(r) \/ Finish(r)
    PROVE  status'[r] # "running"
  BY DEF Preempt, Finish, Leave, DInv, Shape

CatchesUp(r) ==
    (/\ SavesDecode
     /\ status[r] = "running" /\ status'[r] = "running"
     /\ computed[r] >= tracker[r].prefill_end
     /\ Len(table'[r]) > Len(table[r]))
    => tracker'[r].saved = FullBlocks(computed'[r])

LEMMA StepSInv ==
    ASSUME SInv, [Next]_vars
    PROVE  SInv' /\ \A r \in Requests : CatchesUp(r)
<1>1. DInv /\ DInv'
  BY StepDInv DEF SInv
<1>2. SUFFICES ASSUME NEW r \in Requests
               PROVE  (status'[r] = "running" => SavedRight(tracker'[r])) /\ CatchesUp(r)
  BY <1>1 DEF SInv
<1>3. CASE /\ status'[r] = status[r] /\ tracker'[r] = tracker[r] /\ table'[r] = table[r]
  <2>1. ~(Len(table'[r]) > Len(table[r]))
    <3>1. Len(table[r]) \in Nat
      BY <1>1, LenProperties DEF DInv, Shape
    <3> QED BY <1>3, <3>1
  <2> QED BY <1>3, <2>1 DEF SInv, CatchesUp
<1>4. CASE Admit(r)
  BY <1>1, <1>4, AdmitKeeps DEF CatchesUp
<1>5. CASE Step(r)
  BY <1>5, StepSaves DEF CatchesUp
<1>6. CASE Preempt(r) \/ Finish(r)
  BY <1>1, <1>6, LeaveEmpties DEF CatchesUp
<1>7. ASSUME NEW q \in Requests \ {r}, Admit(q) \/ Step(q) \/ Preempt(q) \/ Finish(q)
      PROVE  status'[r] = status[r] /\ tracker'[r] = tracker[r] /\ table'[r] = table[r]
  BY <1>1, <1>7, OthersKeepTrackers
<1>8. ASSUME IdleStep \/ (\E j \in queue : Put(j)) \/ UNCHANGED vars
      PROVE  status'[r] = status[r] /\ tracker'[r] = tracker[r] /\ table'[r] = table[r]
  BY <1>8 DEF IdleStep, Put, engineVars, vars
<1> QED BY <1>3, <1>4, <1>5, <1>6, <1>7, <1>8 DEF Next, EngineStep

\* A decode step that takes a block issues the puts of all blocks complete by then
\* (the decode part of build_connector_meta).
THEOREM DecodeStepsCatchUp == Spec => DecodeCatchesUp
<1>1. Init => SInv
  BY InitDInv DEF SInv, Init
<1>2. SInv /\ [Next]_vars => SInv'
  BY StepSInv
<1>3. SInv /\ [Next]_vars => [\A r \in Requests :
        (/\ SavesDecode
         /\ status[r] = "running" /\ status'[r] = "running"
         /\ computed[r] >= tracker[r].prefill_end
         /\ Len(table'[r]) > Len(table[r]))
        => tracker'[r].saved = FullBlocks(computed'[r])]_vars
  BY StepSInv DEF CatchesUp
<1> QED BY <1>1, <1>2, <1>3, PTL DEF Spec, DecodeCatchesUp
============================================================================
