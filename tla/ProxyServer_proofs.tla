-------------------------- MODULE ProxyServer_proofs --------------------------
(***************************************************************************)
(* The invariants of ProxyServer, for any workers, requests and number of  *)
(* registrations, and for both servers.                                    *)
(*                                                                         *)
(* The counts are right because a request enters and leaves At(w) in the   *)
(* very steps that count w up and down.  That a decision sees all earlier  *)
(* dispatches rests on the lock: only its holder has scraped anything      *)
(* (LockDiscipline), so whoever dispatches is the one whose scrapes are    *)
(* dropped in the same step.                                               *)
(***************************************************************************)
EXTENDS ProxyServer, FiniteSetTheorems, SequenceTheorems, TLAPS

\* Whoever is proxied has a worker, only vime locks, and only the holder has scraped.
LockDiscipline ==
    /\ \A r \in Requests : pc[r] = "proxying" => winner[r] \in Ids
    /\ lock # << >> => mode = "vime"
    /\ \A r \in Requests : scraped[r] # {} => lock # << >> /\ Head(lock) = r

IInv ==
    /\ TypeOK
    /\ LockDiscipline
    /\ RegistryIsInverse
    /\ CountsMatchRequests
    /\ DecisionsSeeDispatches

----------------------------------------------------------------------------
\* A request that joins the queue stands in it once, and the head stays.
LEMMA JoinedQueue ==
    ASSUME NEW s \in Seq(Requests), Distinct(s), NEW r \in Requests, ~Queued(s, r)
    PROVE  /\ Append(s, r) \in Seq(Requests)
           /\ Distinct(Append(s, r))
           /\ \A x : Queued(Append(s, r), x) <=> Queued(s, x) \/ x = r
           /\ Append(s, r) # << >>
           /\ s # << >> => Head(Append(s, r)) = Head(s)
<1> DEFINE q == Append(s, r)
           n == Len(s)
<1>1. n \in Nat /\ DOMAIN s = 1..n
  BY LenProperties
<1>2. /\ q \in Seq(Requests) /\ Len(q) = n + 1 /\ DOMAIN q = 1..(n + 1)
      /\ \A k \in 1..n : q[k] = s[k]
      /\ q[n + 1] = r
  BY AppendProperties, LenProperties
<1> HIDE DEF q, n
<1>3. Distinct(q)
  <2> SUFFICES ASSUME NEW i \in 1..(n + 1), NEW j \in 1..(n + 1), q[i] = q[j] PROVE i = j
    BY <1>2 DEF Distinct
  <2>1. CASE i \in 1..n /\ j \in 1..n
    BY <1>1, <1>2, <2>1 DEF Distinct
  <2>2. CASE i = n + 1 \/ j = n + 1
    BY <1>1, <1>2, <2>2 DEF Queued
  <2> QED BY <1>1, <2>1, <2>2
<1>4. \A x : Queued(q, x) <=> Queued(s, x) \/ x = r
  <2> TAKE x
  <2>1. ASSUME Queued(q, x) PROVE Queued(s, x) \/ x = r
    BY <1>1, <1>2, <2>1 DEF Queued
  <2>2. ASSUME Queued(s, x) PROVE Queued(q, x)
    BY <1>1, <1>2, <2>2 DEF Queued
  <2>3. Queued(q, r)
    BY <1>1, <1>2 DEF Queued
  <2> QED BY <2>1, <2>2, <2>3
<1>5. q # << >>
  BY <1>1, <1>2, EmptySeq
<1>6. ASSUME s # << >> PROVE Head(q) = Head(s)
  <2>1. n # 0
    BY <1>6, EmptySeq DEF n
  <2>2. Head(q) = q[1] /\ Head(s) = s[1]
    BY <1>5, <1>6, <1>2, HeadTailProperties
  <2> QED BY <1>1, <1>2, <2>1, <2>2
<1> QED BY <1>2, <1>3, <1>4, <1>5, <1>6 DEF q

\* A request that leaves the queue, from wherever it stands, and nobody else.
LEMMA LeftQueue ==
    ASSUME NEW s \in Seq(Requests), Distinct(s), NEW i \in DOMAIN s
    PROVE  /\ RemoveAt(s, i) \in Seq(Requests)
           /\ Distinct(RemoveAt(s, i))
           /\ \A x : Queued(RemoveAt(s, i), x) <=> Queued(s, x) /\ x # s[i]
           /\ i # 1 => RemoveAt(s, i) # << >> /\ Head(RemoveAt(s, i)) = Head(s)
<1> DEFINE n == Len(s)
           front == SubSeq(s, 1, i - 1)
           back == SubSeq(s, i + 1, n)
           q == RemoveAt(s, i)
           old(k) == IF k < i THEN k ELSE k + 1
<1>1. n \in Nat /\ DOMAIN s = 1..n /\ i \in 1..n
  BY LenProperties
<1>2. front \in Seq(Requests) /\ Len(front) = i - 1 /\ \A k \in 1..(i - 1) : front[k] = s[k]
  BY <1>1, SubSeqProperties
<1>3. back \in Seq(Requests) /\ Len(back) = n - i /\ \A k \in 1..(n - i) : back[k] = s[i + k]
  BY <1>1, SubSeqProperties
<1>4. q = front \o back
  BY DEF RemoveAt
<1> HIDE DEF front, back, q, n
<1>5. q \in Seq(Requests) /\ Len(q) = n - 1 /\ DOMAIN q = 1..(n - 1)
  BY <1>1, <1>2, <1>3, <1>4, ConcatProperties, LenProperties
<1>6. \A k \in 1..(n - 1) : q[k] = s[old(k)]
  <2> TAKE k \in 1..(n - 1)
  <2>1. CASE k < i
    BY <1>1, <1>2, <1>3, <1>4, <2>1, ConcatProperties
  <2>2. CASE k >= i
    <3>1. q[k] = back[k - (i - 1)]
      BY <1>1, <1>2, <1>3, <1>4, <2>2, ConcatProperties
    <3>2. k - (i - 1) \in 1..(n - i)
      BY <1>1, <2>2
    <3>3. back[k - (i - 1)] = s[i + (k - (i - 1))]
      BY <1>3, <3>2
    <3>4. i + (k - (i - 1)) = k + 1
      BY <1>1
    <3> QED BY <2>2, <3>1, <3>3, <3>4, <1>1
  <2> QED BY <2>1, <2>2, <1>1
<1>7. \A k \in 1..(n - 1) : old(k) \in 1..n /\ old(k) # i
  BY <1>1
<1>8. \A m \in 1..n : m # i => \E k \in 1..(n - 1) : old(k) = m
  <2> TAKE m \in 1..n
  <2> HAVE m # i
  <2>1. CASE m < i
    BY <1>1, <2>1
  <2>2. CASE m > i
    <3>1. m - 1 \in 1..(n - 1) /\ old(m - 1) = m
      BY <1>1, <2>2
    <3> QED BY <3>1
  <2> QED BY <1>1, <2>1, <2>2
<1>9. Distinct(q)
  <2> SUFFICES ASSUME NEW k \in 1..(n - 1), NEW l \in 1..(n - 1), q[k] = q[l] PROVE k = l
    BY <1>5 DEF Distinct
  <2>1. old(k) = old(l)
    BY <1>1, <1>6, <1>7 DEF Distinct
  <2> QED BY <2>1, <1>1
<1>10. \A x : Queued(q, x) <=> Queued(s, x) /\ x # s[i]
  <2> TAKE x
  <2>1. ASSUME Queued(q, x) PROVE Queued(s, x) /\ x # s[i]
    <3>1. PICK k \in 1..(n - 1) : q[k] = x
      BY <1>5, <2>1 DEF Queued
    <3>2. s[old(k)] = x /\ old(k) \in 1..n /\ old(k) # i
      BY <1>6, <1>7, <3>1
    <3> HIDE DEF old
    <3> QED BY <3>2, <1>1 DEF Queued, Distinct
  <2>2. ASSUME Queued(s, x), x # s[i] PROVE Queued(q, x)
    <3>1. PICK m \in 1..n : s[m] = x
      BY <1>1, <2>2 DEF Queued
    <3>2. PICK k \in 1..(n - 1) : old(k) = m
      BY <1>8, <2>2, <3>1
    <3>3. q[k] = x
      BY <1>6, <3>1, <3>2
    <3> QED BY <3>3, <1>5 DEF Queued
  <2> QED BY <2>1, <2>2
<1>11. ASSUME i # 1 PROVE q # << >> /\ Head(q) = Head(s)
  <2>1. 1 \in 1..(n - 1) /\ old(1) = 1
    BY <1>1, <1>11
  <2>2. q[1] = s[1] /\ q # << >> /\ s # << >>
    BY <1>1, <1>5, <1>6, <2>1, EmptySeq
  <2> QED BY <1>5, <2>2, HeadTailProperties
<1> QED BY <1>5, <1>9, <1>10, <1>11 DEF q

\* The holder leaves.
LEMMA LockPassed ==
    ASSUME NEW s \in Seq(Requests), Distinct(s), s # << >>
    PROVE  /\ Tail(s) \in Seq(Requests)
           /\ Distinct(Tail(s))
           /\ \A x : Queued(Tail(s), x) <=> Queued(s, x) /\ x # Head(s)
<1>1. Len(s) \in Nat /\ Len(s) # 0 /\ DOMAIN s = 1..Len(s) /\ Head(s) = s[1]
  BY LenProperties, EmptySeq, HeadTailProperties
<1>2. /\ Tail(s) \in Seq(Requests) /\ Len(Tail(s)) = Len(s) - 1
      /\ DOMAIN Tail(s) = 1..(Len(s) - 1)
      /\ \A k \in 1..(Len(s) - 1) : Tail(s)[k] = s[k + 1]
  BY HeadTailProperties, LenProperties
<1>3. Distinct(Tail(s))
  BY <1>1, <1>2 DEF Distinct
<1>4. \A x : Queued(Tail(s), x) <=> Queued(s, x) /\ x # Head(s)
  <2> TAKE x
  <2>1. ASSUME Queued(Tail(s), x) PROVE Queued(s, x) /\ x # Head(s)
    BY <1>1, <1>2, <2>1 DEF Queued, Distinct
  <2>2. ASSUME Queued(s, x), x # Head(s) PROVE Queued(Tail(s), x)
    <3>1. PICK m \in 1..Len(s) : s[m] = x /\ m # 1
      BY <1>1, <2>2 DEF Queued
    <3>2. m - 1 \in 1..(Len(s) - 1) /\ Tail(s)[m - 1] = x
      BY <1>1, <1>2, <3>1
    <3> QED BY <1>2, <3>2 DEF Queued
  <2> QED BY <2>1, <2>2
<1> QED BY <1>2, <1>3, <1>4

----------------------------------------------------------------------------
LEMMA InitIInv == Init => IInv
<1> SUFFICES ASSUME Init PROVE IInv
  OBVIOUS
<1>1. Registered = {} /\ DOMAIN urlToId = {} /\ DOMAIN lock = {}
  BY DEF Init, EmptyRegistry, Registered
<1>2. TypeOK
  <2>1. lock \in Seq(Requests) /\ Distinct(lock) /\ \A r \in Requests : ~Queued(lock, r)
    BY <1>1, EmptySeq DEF Init, EmptyRegistry, Distinct, Queued
  <2>2. Registered \subseteq 1..lastId /\ lastId \in 0..MaxIds
    BY <1>1, ProxyAssumption DEF Init, EmptyRegistry
  <2> QED BY <2>1, <2>2 DEF Init, EmptyRegistry, TypeOK
<1>3. LockDiscipline
  BY DEF Init, LockDiscipline
<1>4. RegistryIsInverse
  BY <1>1 DEF RegistryIsInverse
<1>5. CountsMatchRequests
  <2>1. \A w \in Ids : At(w) = {}
    BY DEF Init, At
  <2> QED BY <2>1, FS_EmptySet DEF Init, CountsMatchRequests
<1>6. DecisionsSeeDispatches
  BY DEF Init, DecisionsSeeDispatches
<1> QED BY <1>2, <1>3, <1>4, <1>5, <1>6 DEF IInv

\* What the steps of a request do to the queue of the lock, and to where it stands.
LEMMA QueueStep ==
    ASSUME TypeOK, NEW r \in Requests,
           \/ AskForLock(r) \/ Select(r) \/ SelectNothing(r)
           \/ (Cancel(r) /\ pc[r] = "locking")
    PROVE  /\ lock' \in Seq(Requests)
           /\ Distinct(lock)'
           /\ \A x \in Requests : pc'[x] = "locking" <=> Queued(lock', x)
<1>1. /\ lock \in Seq(Requests) /\ Distinct(lock)
      /\ \A x \in Requests : pc[x] = "locking" <=> Queued(lock, x)
      /\ pc \in [Requests -> {"new", "locking", "proxying", "done"}]
  BY DEF TypeOK
<1>2. CASE AskForLock(r)
  <2>1. ~Queued(lock, r) /\ lock' = Append(lock, r) /\ pc' = [pc EXCEPT ![r] = "locking"]
    BY <1>1, <1>2 DEF AskForLock
  <2>2. /\ lock' \in Seq(Requests) /\ Distinct(lock')
        /\ \A x : Queued(lock', x) <=> Queued(lock, x) \/ x = r
    BY <1>1, <2>1, JoinedQueue
  <2>3. \A x \in Requests : pc'[x] = "locking" <=> pc[x] = "locking" \/ x = r
    BY <1>1, <2>1
  <2> QED BY <1>1, <2>2, <2>3 DEF Distinct
<1>3. CASE Select(r) \/ SelectNothing(r)
  <2>1. lock # << >> /\ Head(lock) = r /\ lock' = Tail(lock)
    BY <1>3 DEF Select, SelectNothing, HoldsLock
  <2>2. PICK stage \in {"proxying", "done"} : pc' = [pc EXCEPT ![r] = stage]
    BY <1>3 DEF Select, SelectNothing, ProxyTo, End, Become
  <2>3. /\ lock' \in Seq(Requests) /\ Distinct(lock')
        /\ \A x : Queued(lock', x) <=> Queued(lock, x) /\ x # r
    BY <1>1, <2>1, LockPassed
  <2>4. \A x \in Requests : pc'[x] = "locking" <=> pc[x] = "locking" /\ x # r
    BY <1>1, <2>2
  <2> QED BY <1>1, <2>3, <2>4 DEF Distinct
<1>4. CASE Cancel(r) /\ pc[r] = "locking"
  <2> DEFINE place == CHOOSE i \in DOMAIN lock : lock[i] = r
  <2>1. lock' = RemoveAt(lock, place) /\ pc' = [pc EXCEPT ![r] = "done"]
    BY <1>4 DEF Cancel, End, Become
  <2>2. place \in DOMAIN lock /\ lock[place] = r
    BY <1>1, <1>4 DEF Queued
  <2> HIDE DEF place
  <2>3. /\ lock' \in Seq(Requests) /\ Distinct(lock')
        /\ \A x : Queued(lock', x) <=> Queued(lock, x) /\ x # r
    BY <1>1, <2>1, <2>2, LeftQueue
  <2>4. \A x \in Requests : pc'[x] = "locking" <=> pc[x] = "locking" /\ x # r
    BY <1>1, <2>1
  <2> QED BY <1>1, <2>3, <2>4 DEF Distinct
<1> QED BY <1>2, <1>3, <1>4

\* Every other step that moves a request leaves the queue and the set of waiters alone.
LEMMA OthersKeepQueue ==
    ASSUME TypeOK, NEW r \in Requests, UNCHANGED lock, pc[r] # "locking",
           \E stage \in {"proxying", "done"} : pc' = [pc EXCEPT ![r] = stage]
    PROVE  \A x \in Requests : pc'[x] = "locking" <=> Queued(lock', x)
BY DEF TypeOK

----------------------------------------------------------------------------
LEMMA RegistryStepType ==
    ASSUME TypeOK,
           \/ \E u \in Urls : AddWorker(u) \/ RemoveByUrl(u)
           \/ \E w \in Ids : RemoveWorker(w)
    PROVE  TypeOK'
<1>1. UNCHANGED <<mode, inflight, metrics, request, lock, poller>>
  BY DEF AddWorker, Register, RemoveByUrl, remove_by_url, RemoveWorker
<1>2. Registered' \subseteq 1..lastId' /\ lastId' \in 0..MaxIds
  <2>1. Registered \subseteq 1..lastId /\ lastId \in 0..MaxIds /\ MaxIds \in Nat
    BY ProxyAssumption DEF TypeOK
  <2>2. ASSUME NEW u \in Urls, AddWorker(u) PROVE Registered' \subseteq 1..lastId' /\ lastId' \in 0..MaxIds
    <3>1. lastId' = lastId + 1 /\ lastId < MaxIds /\ Registered' = Registered \cup {lastId'}
      BY <2>2 DEF AddWorker, Register, Registered
    <3> QED BY <2>1, <3>1
  <2>3. ASSUME lastId' = lastId, NEW w, RemoveId(w) PROVE Registered' \subseteq 1..lastId' /\ lastId' \in 0..MaxIds
    <3>1. Registered' = Registered \ {w}
      BY <2>3 DEF RemoveId, Without, Registered
    <3> QED BY <2>1, <2>3, <3>1
  <2> QED BY <2>2, <2>3 DEF RemoveByUrl, remove_by_url, RemoveWorker
<1> QED BY <1>1, <1>2 DEF TypeOK, metrics, request, poller, Distinct, Queued

\* The steps of a request keep the types.
LEMMA RequestStepType ==
    ASSUME TypeOK, NEW r \in Requests, Serve(r) \/ Cancel(r)
    PROVE  TypeOK'
<1>1. UNCHANGED <<mode, registry, poller>>
  BY DEF Serve, Cancel, NoWorkers, Generate, GenerateNothing, AskForLock, ScrapeUnderLock,
         Select, SelectNothing, Complete
<1>2. /\ Registered' \subseteq 1..lastId' /\ lastId' \in 0..MaxIds /\ mode' \in Modes
      /\ (pending \subseteq polled /\ polled \subseteq Ids)'
      /\ polling' \in BOOLEAN /\ fresh' \in BOOLEAN
  BY <1>1 DEF TypeOK, registry, poller, Registered
<1>3. Registered \subseteq Ids
  BY ProxyAssumption DEF TypeOK, Ids
<1>4. pc[r] \in {"new", "locking", "proxying", "done"} /\ listed[r] \subseteq Ids
  BY DEF TypeOK
<1> DEFINE Stands == /\ pc' \in [Requests -> {"new", "locking", "proxying", "done"}]
                     /\ winner' \in [Requests -> Ids \cup {0}]
                     /\ listed' \in [Requests -> SUBSET Ids]
                     /\ scraped' \in [Requests -> SUBSET Ids]
           Waits == /\ lock' \in Seq(Requests) /\ Distinct(lock)'
                    /\ \A x \in Requests : pc'[x] = "locking" <=> Queued(lock', x)
           Counts == inflight' \in [Ids -> Nat]
           Measured == queueLen' \in [Ids -> Nat] /\ stats' \in [Ids -> {"none", "ok", "error"}]
<1>5. ASSUME NEW stage \in {"proxying", "done"}, NEW w \in Ids \cup {0}, Become(r, stage, w)
      PROVE  Stands /\ pc' = [pc EXCEPT ![r] = stage]
  BY <1>5 DEF TypeOK, Become
<1>6. ASSUME NEW w \in Ids \cup {0}, Increment(w) \/ Decrement(w) PROVE Counts
  <2>1. inflight \in [Ids -> Nat]
    BY DEF TypeOK
  <2>2. CASE w \notin Ids
    BY <1>6, <2>1, <2>2 DEF Increment, Decrement
  <2>3. CASE w \in Ids
    <3>1. inflight[w] \in Nat
      BY <2>1, <2>3
    <3> QED BY <1>6, <2>1, <2>3, <3>1 DEF Increment, Decrement
  <2> QED BY <2>2, <2>3
<1>7. UNCHANGED inflight => Counts
  BY DEF TypeOK
<1>8. UNCHANGED metrics => Measured
  BY DEF TypeOK, metrics
<1>9. ASSUME NEW stage \in {"proxying", "done"}, UNCHANGED lock, pc[r] # "locking",
             pc' = [pc EXCEPT ![r] = stage]
      PROVE  Waits
  BY <1>9, OthersKeepQueue DEF TypeOK, Distinct
<1>10. Stands /\ Waits /\ Counts /\ Measured
  <2>1. CASE NoWorkers(r) \/ GenerateNothing(r)
    <3>1. Become(r, "done", 0) /\ UNCHANGED <<inflight, metrics, lock>> /\ pc[r] = "new"
      BY <2>1 DEF NoWorkers, GenerateNothing, End
    <3> QED BY <3>1, <1>5, <1>7, <1>8, <1>9
  <2>2. CASE Generate(r)
    <3>1. PICK w \in Ids : Become(r, "proxying", w) /\ Increment(w)
      BY <2>2, <1>3 DEF Generate, ProxyTo
    <3>2. UNCHANGED <<metrics, lock>> /\ pc[r] = "new"
      BY <2>2 DEF Generate
    <3> QED BY <3>1, <3>2, <1>5, <1>6, <1>8, <1>9
  <2>3. CASE AskForLock(r)
    <3>1. /\ pc' = [pc EXCEPT ![r] = "locking"]
          /\ listed' = [listed EXCEPT ![r] = Registered]
          /\ UNCHANGED <<inflight, metrics, scraped, winner>>
      BY <2>3 DEF AskForLock
    <3>2. Stands
      BY <3>1, <1>3 DEF TypeOK
    <3> QED BY <2>3, <3>1, <3>2, <1>7, <1>8, QueueStep
  <2>4. ASSUME NEW w \in Ids, ScrapeUnderLock(r, w) PROVE Stands /\ Waits /\ Counts /\ Measured
    <3>1. /\ scraped' = [scraped EXCEPT ![r] = @ \cup {w}]
          /\ UNCHANGED <<inflight, pc, listed, winner, lock>>
          /\ Scraped(w)
      BY <2>4 DEF ScrapeUnderLock
    <3>2. Stands /\ Waits
      BY <3>1 DEF TypeOK, Distinct
    <3>3. Measured
      BY <3>1 DEF Scraped, TypeOK
    <3> QED BY <3>1, <3>2, <3>3, <1>7
  <2>5. CASE Select(r)
    <3>1. PICK w \in Ids : Become(r, "proxying", w) /\ Increment(w)
      BY <2>5, <1>4 DEF Select, ProxyTo
    <3>2. UNCHANGED metrics
      BY <2>5 DEF Select
    <3> QED BY <2>5, <3>1, <3>2, <1>5, <1>6, <1>8, QueueStep
  <2>6. CASE SelectNothing(r)
    <3>1. Become(r, "done", 0) /\ UNCHANGED <<inflight, metrics>>
      BY <2>6 DEF SelectNothing, End
    <3> QED BY <2>6, <3>1, <1>5, <1>7, <1>8, QueueStep
  <2>7. CASE Complete(r) \/ (Cancel(r) /\ pc[r] = "proxying")
    <3>1. /\ Become(r, "done", 0) /\ Decrement(winner[r]) /\ UNCHANGED <<metrics, lock>>
          /\ pc[r] # "locking"
      BY <2>7 DEF Complete, Cancel, End
    <3>2. winner[r] \in Ids \cup {0}
      BY DEF TypeOK
    <3> QED BY <3>1, <3>2, <1>5, <1>6, <1>8, <1>9
  <2>8. CASE Cancel(r) /\ pc[r] # "proxying"
    <3>1. Become(r, "done", 0) /\ UNCHANGED <<inflight, metrics>> /\ pc[r] = "locking"
      BY <2>8 DEF Cancel, End
    <3> QED BY <2>8, <3>1, <1>5, <1>7, <1>8, QueueStep
  <2> QED BY <2>1, <2>2, <2>3, <2>4, <2>5, <2>6, <2>7, <2>8 DEF Serve
<1> QED BY <1>2, <1>10 DEF TypeOK

LEMMA PollerStepType ==
    ASSUME TypeOK, PollerStep
    PROVE  TypeOK'
<1>1. UNCHANGED <<mode, registry, inflight, request, lock>>
  BY DEF PollerStep, StartRound, Poll, EndRound
<1>2. Registered \subseteq Ids
  BY ProxyAssumption DEF TypeOK, Ids
<1>3. queueLen' \in [Ids -> Nat] /\ stats' \in [Ids -> {"none", "ok", "error"}]
  <2>1. CASE UNCHANGED metrics
    BY <2>1 DEF TypeOK, metrics
  <2>2. ASSUME NEW w \in Ids, Scraped(w)
        PROVE  queueLen' \in [Ids -> Nat] /\ stats' \in [Ids -> {"none", "ok", "error"}]
    BY <2>2 DEF Scraped, TypeOK
  <2> QED BY <2>1, <2>2 DEF PollerStep, StartRound, Poll, EndRound
<1>4. /\ pending' \subseteq polled' /\ polled' \subseteq Ids
      /\ polling' \in BOOLEAN /\ fresh' \in BOOLEAN
  <2>1. CASE StartRound
    BY <2>1, <1>2 DEF StartRound, TypeOK
  <2>2. CASE \E w \in Ids : Poll(w)
    BY <2>2 DEF Poll, TypeOK
  <2>3. CASE EndRound
    <3> DEFINE failures == Cardinality({w \in polled : Raised(w)})
               all == Cardinality(polled)
    <3>1. IsFiniteSet(Ids)
      BY ProxyAssumption, FS_Interval DEF Ids
    <3>2. polled \in SUBSET Ids /\ {w \in polled : Raised(w)} \in SUBSET Ids
      BY DEF TypeOK
    <3>3. failures \in Nat /\ all \in Nat
      BY <3>1, <3>2, FS_Subset, FS_CardinalityType
    <3>4. fresh' = (failures < all)
      BY <2>3 DEF EndRound
    <3> HIDE DEF failures, all
    <3>5. fresh' \in BOOLEAN
      BY <3>3, <3>4
    <3> QED BY <2>3, <3>5 DEF EndRound, TypeOK
  <2> QED BY <2>1, <2>2, <2>3 DEF PollerStep
<1> QED BY <1>1, <1>3, <1>4 DEF TypeOK, registry, request, Registered, Distinct, Queued

----------------------------------------------------------------------------
\* An id that is added is new to both maps, and a removal takes it out of both.
LEMMA RegistryStepInverse ==
    ASSUME TypeOK, RegistryIsInverse,
           \/ \E u \in Urls : AddWorker(u) \/ RemoveByUrl(u)
           \/ \E w \in Ids : RemoveWorker(w)
    PROVE  RegistryIsInverse'
<1>1. Registered \subseteq 1..lastId /\ lastId \in Nat
  BY ProxyAssumption DEF TypeOK
<1>2. ASSUME NEW u \in Urls, AddWorker(u) PROVE RegistryIsInverse'
  <2>1. /\ u \notin DOMAIN urlToId /\ lastId' = lastId + 1
        /\ byId' = [w \in Registered \cup {lastId'} |-> IF w = lastId' THEN u ELSE byId[w]]
        /\ urlToId' = [v \in DOMAIN urlToId \cup {u} |-> IF v = u THEN lastId' ELSE urlToId[v]]
    BY <1>2 DEF AddWorker, Register
  <2>2. lastId' \notin Registered
    BY <1>1, <2>1
  <2> QED BY <2>1, <2>2 DEF RegistryIsInverse, Registered
<1>3. ASSUME NEW w \in Registered, RemoveId(w) PROVE RegistryIsInverse'
  BY <1>3 DEF RemoveId, Without, RegistryIsInverse, Registered
<1>4. ASSUME NEW u \in Urls, RemoveByUrl(u) PROVE RegistryIsInverse'
  <2>1. urlToId[u] \in Registered /\ RemoveId(urlToId[u])
    BY <1>4 DEF RemoveByUrl, remove_by_url, RegistryIsInverse
  <2> QED BY <2>1, <1>3
<1> QED BY <1>2, <1>3, <1>4 DEF RemoveWorker

----------------------------------------------------------------------------
\* Only a request that holds the lock has scraped, and it forgets that when it leaves.
LEMMA RequestStepDiscipline ==
    ASSUME TypeOK, LockDiscipline, NEW r \in Requests, Serve(r) \/ Cancel(r)
    PROVE  LockDiscipline'
<1>1. UNCHANGED mode
  BY DEF Serve, Cancel, NoWorkers, Generate, GenerateNothing, AskForLock, ScrapeUnderLock,
         Select, SelectNothing, Complete
<1>2. lock \in Seq(Requests) /\ Distinct(lock) /\ \A x \in Requests : pc[x] = "locking" <=> Queued(lock, x)
  BY DEF TypeOK
<1>3. Registered \subseteq Ids /\ listed[r] \subseteq Ids
  BY ProxyAssumption DEF TypeOK, Ids
<1>4. /\ \A x \in Requests : pc[x] = "proxying" => winner[x] \in Ids
      /\ lock # << >> => mode = "vime"
      /\ \A x \in Requests : scraped[x] # {} => lock # << >> /\ Head(lock) = x
  BY DEF LockDiscipline
<1> DEFINE Winners == \A x \in Requests : pc'[x] = "proxying" => winner'[x] \in Ids
           Scrapers == \A x \in Requests : scraped'[x] # {} => lock' # << >> /\ Head(lock') = x
           Mode == lock' # << >> => mode' = "vime"
<1>5. ASSUME NEW stage \in {"proxying", "done"}, NEW w \in Ids \cup {0},
             Become(r, stage, w), stage = "proxying" => w \in Ids
      PROVE  /\ Winners
             /\ scraped'[r] = {} /\ \A x \in Requests \ {r} : scraped'[x] = scraped[x]
  BY <1>4, <1>5 DEF Become, TypeOK
<1>6. ASSUME \A x \in Requests : scraped'[x] \in {scraped[x], {}}, UNCHANGED lock
      PROVE  Scrapers /\ Mode
  BY <1>6, <1>4, <1>1
<1>7. CASE NoWorkers(r) \/ GenerateNothing(r) \/ Complete(r) \/ (Cancel(r) /\ pc[r] = "proxying")
  <2>1. Become(r, "done", 0) /\ UNCHANGED lock
    BY <1>7 DEF NoWorkers, GenerateNothing, Complete, Cancel, End
  <2> QED BY <2>1, <1>5, <1>6 DEF LockDiscipline
<1>8. CASE Generate(r)
  <2>1. PICK w \in Ids : Become(r, "proxying", w) /\ UNCHANGED lock
    BY <1>8, <1>3 DEF Generate, ProxyTo
  <2> QED BY <2>1, <1>5, <1>6 DEF LockDiscipline
<1>9. CASE AskForLock(r)
  <2>1. /\ mode = "vime" /\ pc[r] = "new" /\ lock' = Append(lock, r)
        /\ pc' = [pc EXCEPT ![r] = "locking"] /\ UNCHANGED <<scraped, winner>>
    BY <1>9 DEF AskForLock, ScrapesPerRequest
  <2>2. ~Queued(lock, r)
    BY <1>2, <2>1
  <2>3. lock # << >> => lock' # << >> /\ Head(lock') = Head(lock)
    BY <1>2, <2>1, <2>2, JoinedQueue
  <2>4. Winners
    BY <2>1, <1>4 DEF TypeOK
  <2> QED BY <2>1, <2>3, <2>4, <1>1, <1>4 DEF LockDiscipline
<1>10. ASSUME NEW w \in Ids, ScrapeUnderLock(r, w) PROVE LockDiscipline'
  <2>1. /\ lock # << >> /\ Head(lock) = r
        /\ scraped' = [scraped EXCEPT ![r] = @ \cup {w}] /\ UNCHANGED <<pc, winner, lock>>
    BY <1>10 DEF ScrapeUnderLock, HoldsLock
  <2>2. \A x \in Requests \ {r} : scraped'[x] = scraped[x]
    BY <2>1 DEF TypeOK
  <2> QED BY <2>1, <2>2, <1>1, <1>4 DEF LockDiscipline
<1>11. CASE Select(r) \/ SelectNothing(r)
  <2>1. lock # << >> /\ Head(lock) = r
    BY <1>11 DEF Select, SelectNothing, HoldsLock
  <2>2. PICK stage \in {"proxying", "done"}, w \in Ids \cup {0} :
           Become(r, stage, w) /\ (stage = "proxying" => w \in Ids)
    BY <1>11, <1>3 DEF Select, SelectNothing, ProxyTo, End
  <2>3. \A x \in Requests : scraped'[x] = {}
    BY <2>1, <2>2, <1>4, <1>5
  <2>4. mode' = "vime"
    BY <2>1, <1>1, <1>4
  <2> QED BY <2>2, <2>3, <2>4, <1>5 DEF LockDiscipline
<1>12. CASE Cancel(r) /\ pc[r] # "proxying"
  <2> DEFINE place == CHOOSE i \in DOMAIN lock : lock[i] = r
  <2>1. pc[r] = "locking" /\ Become(r, "done", 0) /\ lock' = RemoveAt(lock, place)
    BY <1>12 DEF Cancel, End
  <2>2. place \in DOMAIN lock /\ lock[place] = r
    BY <1>2, <2>1 DEF Queued
  <2> HIDE DEF place
  <2>3. lock # << >> /\ (Head(lock) # r => place # 1)
    <3>1. Len(lock) \in Nat /\ DOMAIN lock = 1..Len(lock)
      BY <1>2, LenProperties
    <3>2. lock # << >>
      BY <2>2, <1>2, <3>1, EmptySeq
    <3> QED BY <3>2, <2>2, <1>2, HeadTailProperties
  <2>4. Head(lock) # r => lock' # << >> /\ Head(lock') = Head(lock)
    BY <1>2, <2>1, <2>2, <2>3, LeftQueue
  <2>5. Scrapers
    BY <2>1, <2>4, <1>4, <1>5
  <2>6. Mode
    BY <2>3, <1>1, <1>4
  <2> QED BY <2>1, <2>5, <2>6, <1>5 DEF LockDiscipline
<1> QED BY <1>7, <1>8, <1>9, <1>10, <1>11, <1>12 DEF Serve

----------------------------------------------------------------------------
LEMMA AtFinite ==
    ASSUME NEW w
    PROVE  IsFiniteSet(At(w)) /\ Cardinality(At(w)) \in Nat
<1>1. At(w) \in SUBSET Requests
  BY DEF At
<1> QED BY <1>1, ProxyAssumption, FS_Subset, FS_CardinalityType

\* A dispatch puts a request that was nowhere at a worker and counts it there.
LEMMA DispatchCounts ==
    ASSUME TypeOK, CountsMatchRequests, NEW r \in Requests, pc[r] # "proxying",
           NEW w \in Ids, ProxyTo(r, w)
    PROVE  CountsMatchRequests'
<1>1. /\ pc' = [pc EXCEPT ![r] = "proxying"] /\ winner' = [winner EXCEPT ![r] = w]
      /\ inflight' = [inflight EXCEPT ![w] = @ + 1]
  BY DEF ProxyTo, Become, Increment
<1>2. r \notin At(w) /\ At(w)' = At(w) \cup {r}
  BY <1>1 DEF At, TypeOK
<1>3. \A v \in Ids \ {w} : At(v)' = At(v)
  BY <1>1 DEF At, TypeOK
<1>4. Cardinality(At(w) \cup {r}) = Cardinality(At(w)) + 1
  BY <1>2, AtFinite, FS_AddElement
<1>5. ASSUME NEW v \in Ids PROVE inflight'[v] = Cardinality(At(v))'
  <2>1. CASE v = w
    BY <2>1, <1>1, <1>2, <1>4 DEF CountsMatchRequests, TypeOK
  <2>2. CASE v # w
    BY <2>2, <1>1, <1>3 DEF CountsMatchRequests, TypeOK
  <2> QED BY <2>1, <2>2
<1> QED BY <1>5 DEF CountsMatchRequests

\* A request that ends is counted down where it was, which is not at zero.
LEMMA AnswerCounts ==
    ASSUME TypeOK, CountsMatchRequests, LockDiscipline, NEW r \in Requests, pc[r] = "proxying",
           End(r), Decrement(winner[r])
    PROVE  CountsMatchRequests'
<1>2. PICK w \in Ids : w = winner[r]
  BY DEF LockDiscipline
<1>1. /\ pc' = [pc EXCEPT ![r] = "done"] /\ winner' = [winner EXCEPT ![r] = 0]
      /\ inflight' = [inflight EXCEPT ![w] = IF @ > 0 THEN @ - 1 ELSE @]
  BY <1>2 DEF End, Become, Decrement
<1>3. r \in At(w) /\ At(w)' = At(w) \ {r}
  BY <1>1, <1>2 DEF At, TypeOK
<1>4. \A v \in Ids \ {w} : At(v)' = At(v)
  BY <1>1, <1>2 DEF At, TypeOK
<1>5. Cardinality(At(w) \ {r}) = Cardinality(At(w)) - 1
  BY <1>3, AtFinite, FS_RemoveElement
<1>6. Cardinality(At(w)) # 0
  BY <1>3, AtFinite, FS_EmptySet
<1>7. ASSUME NEW v \in Ids PROVE inflight'[v] = Cardinality(At(v))'
  <2>1. CASE v = w
    <3>1. inflight[w] = Cardinality(At(w)) /\ inflight[w] > 0
      BY <1>2, <1>6, AtFinite DEF CountsMatchRequests
    <3> QED BY <2>1, <3>1, <1>1, <1>2, <1>3, <1>5 DEF TypeOK
  <2>2. CASE v # w
    BY <2>2, <1>1, <1>2, <1>4 DEF CountsMatchRequests, TypeOK
  <2> QED BY <2>1, <2>2
<1> QED BY <1>7 DEF CountsMatchRequests

LEMMA RequestStepCounts ==
    ASSUME TypeOK, CountsMatchRequests, LockDiscipline, NEW r \in Requests, Serve(r) \/ Cancel(r)
    PROVE  CountsMatchRequests'
<1>1. Registered \subseteq Ids /\ listed[r] \subseteq Ids
  BY ProxyAssumption DEF TypeOK, Ids
<1>2. CASE Generate(r) \/ Select(r)
  <2>1. PICK w \in Ids : ProxyTo(r, w) /\ pc[r] # "proxying"
    BY <1>1, <1>2 DEF Generate, Select, HoldsLock
  <2> QED BY <2>1, DispatchCounts
<1>3. CASE Complete(r) \/ (Cancel(r) /\ pc[r] = "proxying")
  <2>1. pc[r] = "proxying" /\ End(r) /\ Decrement(winner[r])
    BY <1>3 DEF Complete, Cancel
  <2> QED BY <2>1, AnswerCounts
<1>4. ASSUME UNCHANGED inflight, \A w \in Ids : At(w)' = At(w) PROVE CountsMatchRequests'
  BY <1>4 DEF CountsMatchRequests
<1>5. CASE NoWorkers(r) \/ GenerateNothing(r) \/ SelectNothing(r) \/ (Cancel(r) /\ pc[r] # "proxying")
  <2>1. End(r) /\ UNCHANGED inflight /\ pc[r] # "proxying"
    BY <1>5 DEF NoWorkers, GenerateNothing, SelectNothing, Cancel, HoldsLock
  <2>2. \A w \in Ids : At(w)' = At(w)
    BY <2>1 DEF End, Become, At, TypeOK
  <2> QED BY <2>1, <2>2, <1>4
<1>6. CASE AskForLock(r) \/ \E w \in Ids : ScrapeUnderLock(r, w)
  <2>1. /\ UNCHANGED <<inflight, winner>>
        /\ pc' = pc \/ (pc[r] = "new" /\ pc' = [pc EXCEPT ![r] = "locking"])
    BY <1>6 DEF AskForLock, ScrapeUnderLock
  <2>2. \A w \in Ids : At(w)' = At(w)
    BY <2>1 DEF At, TypeOK
  <2> QED BY <2>1, <2>2, <1>4
<1> QED BY <1>2, <1>3, <1>5, <1>6 DEF Serve

----------------------------------------------------------------------------
\* A count that is read by a scrape is the newest, and a dispatch drops its own scrapes.
LEMMA RequestStepDecisions ==
    ASSUME TypeOK, DecisionsSeeDispatches, LockDiscipline, NEW r \in Requests,
           Serve(r) \/ Cancel(r)
    PROVE  DecisionsSeeDispatches'
<1>1. Registered \subseteq Ids /\ listed[r] \subseteq Ids
  BY ProxyAssumption DEF TypeOK, Ids
<1>2. /\ \A x \in Requests : pc[x] = "locking" => \A w \in scraped[x] : queueLen[w] >= inflight[w]
      /\ \A x \in Requests : scraped[x] \subseteq Ids
      /\ queueLen \in [Ids -> Nat] /\ inflight \in [Ids -> Nat]
  BY DEF DecisionsSeeDispatches, TypeOK
<1>3. ASSUME \A x \in Requests : pc'[x] # "locking" \/ scraped'[x] = {}
      PROVE  DecisionsSeeDispatches'
  BY <1>3 DEF DecisionsSeeDispatches
<1>4. CASE Generate(r)
  <2>1. lock = << >>
    BY <1>4 DEF Generate, ReadsPolledStats, LockDiscipline
  <2>2. \A x \in Requests : scraped[x] = {}
    BY <2>1 DEF LockDiscipline
  <2>3. \A x \in Requests : scraped'[x] = {}
    BY <1>4, <2>2 DEF Generate, ProxyTo, Become, TypeOK
  <2> QED BY <2>3, <1>3
<1>5. CASE Select(r)
  <2>1. lock # << >> /\ Head(lock) = r
    BY <1>5 DEF Select, HoldsLock
  <2>2. \A x \in Requests \ {r} : scraped[x] = {}
    BY <2>1 DEF LockDiscipline
  <2>3. \A x \in Requests : scraped'[x] = {}
    BY <1>5, <2>2 DEF Select, ProxyTo, Become, TypeOK
  <2> QED BY <2>3, <1>3
<1>6. CASE NoWorkers(r) \/ GenerateNothing(r) \/ SelectNothing(r) \/ Complete(r) \/ Cancel(r)
  <2>1. End(r) /\ UNCHANGED queueLen
    BY <1>6 DEF NoWorkers, GenerateNothing, SelectNothing, Complete, Cancel, metrics
  <2>2. \A w \in Ids : inflight'[w] <= inflight[w]
    <3>1. UNCHANGED inflight \/ Decrement(winner[r])
      BY <1>6 DEF NoWorkers, GenerateNothing, SelectNothing, Complete, Cancel
    <3>2. ASSUME Decrement(winner[r]) PROVE \A w \in Ids : inflight'[w] <= inflight[w]
      BY <3>2, <1>2 DEF Decrement
    <3> QED BY <3>1, <3>2, <1>2
  <2>3. \A x \in Requests : pc'[x] = "locking" => pc[x] = "locking" /\ scraped'[x] = scraped[x]
    BY <2>1 DEF End, Become, TypeOK
  <2>4. \A w \in Ids : inflight'[w] \in Nat
    BY RequestStepType DEF TypeOK
  <2> QED BY <2>1, <2>2, <2>3, <2>4, <1>2 DEF DecisionsSeeDispatches
<1>7. CASE AskForLock(r)
  <2>1. pc[r] = "new" /\ UNCHANGED <<queueLen, inflight, scraped>> /\ pc' = [pc EXCEPT ![r] = "locking"]
    BY <1>7 DEF AskForLock, metrics
  <2>2. scraped[r] = {}
    <3> SUFFICES ASSUME scraped[r] # {} PROVE FALSE
      OBVIOUS
    <3>1. lock # << >> /\ Head(lock) = r
      BY DEF LockDiscipline
    <3>2. lock \in Seq(Requests) /\ 1 \in DOMAIN lock /\ lock[1] = r
      BY <3>1, LenProperties, EmptySeq, HeadTailProperties DEF TypeOK
    <3> QED BY <3>2, <2>1 DEF TypeOK, Queued
  <2> QED BY <2>1, <2>2, <1>2 DEF DecisionsSeeDispatches, TypeOK
<1>8. ASSUME NEW w \in Ids, ScrapeUnderLock(r, w) PROVE DecisionsSeeDispatches'
  <2>1. /\ scraped' = [scraped EXCEPT ![r] = @ \cup {w}]
        /\ queueLen' = [queueLen EXCEPT ![w] = inflight[w]]
        /\ UNCHANGED <<pc, inflight>>
    BY <1>8 DEF ScrapeUnderLock, Scraped
  <2> SUFFICES ASSUME NEW x \in Requests, pc[x] = "locking", NEW v \in scraped'[x]
               PROVE  queueLen'[v] >= inflight[v]
    BY <2>1 DEF DecisionsSeeDispatches
  <2>2. v \in Ids /\ (v = w \/ v \in scraped[x])
    BY <2>1, <1>2 DEF TypeOK
  <2> QED BY <2>1, <2>2, <1>2
<1> QED BY <1>4, <1>5, <1>6, <1>7, <1>8 DEF Serve

\* A poll sets queue_len to the count of that moment.
LEMMA PollerStepDecisions ==
    ASSUME TypeOK, DecisionsSeeDispatches, PollerStep
    PROVE  DecisionsSeeDispatches'
<1>1. UNCHANGED <<inflight, request>> /\ (UNCHANGED queueLen \/ \E w \in Ids : Scraped(w))
  BY DEF PollerStep, StartRound, Poll, EndRound, metrics
<1>2. CASE UNCHANGED queueLen
  BY <1>1, <1>2 DEF request, DecisionsSeeDispatches
<1>3. ASSUME NEW w \in Ids, Scraped(w) PROVE DecisionsSeeDispatches'
  <2>1. queueLen' = [queueLen EXCEPT ![w] = inflight[w]] /\ UNCHANGED <<pc, scraped, inflight>>
    BY <1>1, <1>3 DEF Scraped, request
  <2> SUFFICES ASSUME NEW x \in Requests, pc[x] = "locking", NEW v \in scraped[x]
               PROVE  queueLen'[v] >= inflight[v]
    BY <2>1 DEF DecisionsSeeDispatches
  <2>2. v \in Ids /\ queueLen[v] >= inflight[v] /\ inflight[v] \in Nat
    BY DEF TypeOK, DecisionsSeeDispatches
  <2> QED BY <2>1, <2>2 DEF TypeOK
<1> QED BY <1>1, <1>2, <1>3

----------------------------------------------------------------------------
LEMMA StepIInv == IInv /\ [Next]_vars => IInv'
<1> SUFFICES ASSUME IInv, [Next]_vars PROVE IInv'
  OBVIOUS
<1> USE DEF IInv
<1>1. CASE \/ \E u \in Urls : AddWorker(u) \/ RemoveByUrl(u)
           \/ \E w \in Ids : RemoveWorker(w)
  <2>1. UNCHANGED <<mode, inflight, metrics, request, lock, poller>>
    BY <1>1 DEF AddWorker, Register, RemoveByUrl, remove_by_url, RemoveWorker
  <2>2. LockDiscipline' /\ CountsMatchRequests' /\ DecisionsSeeDispatches'
    BY <2>1 DEF metrics, request, LockDiscipline, CountsMatchRequests, At, DecisionsSeeDispatches
  <2>3. TypeOK'
    BY <1>1, RegistryStepType
  <2>4. RegistryIsInverse'
    BY <1>1, RegistryStepInverse
  <2> QED BY <2>2, <2>3, <2>4
<1>2. ASSUME NEW r \in Requests, Serve(r) \/ Cancel(r) PROVE IInv'
  <2>1. UNCHANGED registry
    BY <1>2 DEF Serve, Cancel, NoWorkers, Generate, GenerateNothing, AskForLock,
                ScrapeUnderLock, Select, SelectNothing, Complete
  <2>2. RegistryIsInverse'
    BY <2>1 DEF registry, RegistryIsInverse, Registered
  <2>3. TypeOK'
    BY <1>2, RequestStepType
  <2>4. LockDiscipline'
    BY <1>2, RequestStepDiscipline
  <2>5. CountsMatchRequests'
    BY <1>2, RequestStepCounts
  <2>6. DecisionsSeeDispatches'
    BY <1>2, RequestStepDecisions
  <2> QED BY <2>2, <2>3, <2>4, <2>5, <2>6
<1>3. CASE PollerStep
  <2>1. UNCHANGED <<mode, registry, inflight, request, lock>>
    BY <1>3 DEF PollerStep, StartRound, Poll, EndRound
  <2>2. LockDiscipline' /\ CountsMatchRequests' /\ RegistryIsInverse'
    BY <2>1 DEF registry, request, LockDiscipline, CountsMatchRequests, At, RegistryIsInverse, Registered
  <2>3. TypeOK' /\ DecisionsSeeDispatches'
    BY <1>3, PollerStepType, PollerStepDecisions
  <2> QED BY <2>2, <2>3
<1>4. CASE UNCHANGED vars
  <2>1. UNCHANGED <<mode, registry, inflight, metrics, request, lock, poller>>
    BY <1>4 DEF vars
  <2> QED BY <2>1 DEF registry, metrics, request, poller, TypeOK, Registered, Distinct, Queued,
                      LockDiscipline, RegistryIsInverse, CountsMatchRequests, At, DecisionsSeeDispatches
<1> QED BY <1>1, <1>2, <1>3, <1>4 DEF Next

THEOREM Invariance == Spec => []IInv
  BY InitIInv, StepIInv, PTL DEF Spec

----------------------------------------------------------------------------
\* The server's data keep their shape, and the lock's queue holds exactly the requests
\* that wait for the lock or hold it, each once (schedule_and_proxy).
THEOREM TypeCorrect == Spec => []TypeOK
<1>1. IInv => TypeOK
  BY DEF IInv
<1> QED BY <1>1, Invariance, PTL

\* InflightStore counts exactly the requests that are proxied to a worker, whatever leaves
\* the registry and however requests end; so a count returns to zero.
THEOREM CountsAreExact == Spec => []CountsMatchRequests
<1>1. IInv => CountsMatchRequests
  BY DEF IInv
<1> QED BY <1>1, Invariance, PTL

\* A request that schedules under the lock has read counts with every earlier dispatch.
THEOREM LockedDecisions == Spec => []DecisionsSeeDispatches
<1>1. IInv => DecisionsSeeDispatches
  BY DEF IInv
<1> QED BY <1>1, Invariance, PTL

\* WorkerRegistry's two maps stay inverse.
THEOREM RegistryConsistent == Spec => []RegistryIsInverse
<1>1. IInv => RegistryIsInverse
  BY DEF IInv
<1> QED BY <1>1, Invariance, PTL
=============================================================================
