----------------------------- MODULE Fleet_proofs -----------------------------
(***************************************************************************)
(* The invariants of Fleet, for any workers, servers, generations,         *)
(* trajectories and layouts.                                               *)
(*                                                                         *)
(* CountsConserved and OwnDispatchesSeen need more than themselves: that   *)
(* the clamp of a decrement at 0 never swallows one, and that a snapshot   *)
(* has counted its worker's dispatches, are both facts about the order of  *)
(* the calls that are still to be run.  IncrementsBacked says it of every  *)
(* cut through the workers' queues, that is, of every state the actor can  *)
(* get to by running calls alone: behind the cut there are no more         *)
(* increments of a server than generations on it and decrements behind the *)
(* cut.  With LockDiscipline and SnapshotsOnce (whoever waits for a        *)
(* snapshot holds the lock) a worker whose snapshot lies in front of the   *)
(* cut has nothing behind it but increments of generations that fell back. *)
(*                                                                         *)
(* BalancerConserved needs that lbAcquired tells scheduled generations     *)
(* from those that fell back (Marks), which rests on the turns of a        *)
(* trajectory following one another (OneTurn).                             *)
(***************************************************************************)
EXTENDS Fleet, FunctionTheorems, FiniteSetTheorems, SequenceTheorems, TLAPS

Stages == {"new", "listing", "discovering", "found", "locking", "asking", "deciding",
           "acquiring", "running", "done"}
Calls == [call : {"watch", "increment", "decrement", "snapshot", "discover"},
           arg : Servers \cup Requests \cup {None}]
Drains == [asker : Requests \cup {None}, acquired : [Servers -> Nat], tries : Nat,
           handles : SUBSET Servers]

Shape ==
    /\ calls \in [Workers -> Seq(Calls)]
    /\ drain \in Drains
    /\ lbAcquired \in [Workers -> SUBSET {Trajectory[r] : r \in Requests}]
    /\ pc \in [Requests -> Stages]
    /\ found \in [Requests -> SUBSET Servers]
    /\ snapshot \in [Requests -> [Servers -> Nat]]
    /\ winner \in [Requests -> Servers \cup {None}]
    /\ fellBack \in [Requests -> BOOLEAN]

\* The queue of a lock: its worker's generations, each once; only who holds the lock has
\* asked for a snapshot or got one.
Distinct(s) == \A i, j \in DOMAIN s : s[i] = s[j] => i = j

LockDiscipline ==
    /\ lock \in [Workers -> Seq(Requests)]
    /\ \A w \in Workers : Distinct(lock[w])
    /\ \A w \in Workers : \A r \in Requests : Queued(lock[w], r) => WorkerOf[r] = w
    /\ \A r \in Requests : pc[r] \in {"asking", "deciding"} => HoldsLock(r)

\* A generation asks for one snapshot, and moves on only when the call was run.
SnapshotsOnce ==
    \A w \in Workers : \A i \in DOMAIN calls[w] : calls[w][i].call = "snapshot" =>
        /\ pc[calls[w][i].arg] \in {"asking", "done"}
        /\ \A j \in DOMAIN calls[w] :
             calls[w][j].call = "snapshot" /\ calls[w][j].arg = calls[w][i].arg => i = j

\* The calls c of the workers W, without the first k[w] that w has made.
Later(queues, c, W, k) ==
    {p \in Workers \X (Nat \ {0}) :
        p[1] \in W /\ p[2] \in DOMAIN queues[p[1]] /\ p[2] > k[p[1]] /\ queues[p[1]][p[2]] = c}

Count(q, c, W, k) == Cardinality(Later(q, c, W, k))

Start0 == [w \in Workers |-> 0]
Finite(q, c) == IsFiniteSet(Later(q, c, Workers, Start0))

Increment(s) == [call |-> "increment", arg |-> s]
Decrement(s) == [call |-> "decrement", arg |-> s]

FiniteCalls == \A s \in Servers : Finite(calls, Increment(s)) /\ Finite(calls, Decrement(s))

\* Among the first n calls of w is one for the snapshot somebody still waits for.
Awaited(w, n) ==
    \E j \in DOMAIN calls[w] :
        j <= n /\ calls[w][j].call = "snapshot" /\ pc[calls[w][j].arg] = "asking"

\* The generations of the workers W on s; of the workers V those that fell back.
Backing(s, W, V) ==
    {q \in RunningOn(s) : WorkerOf[q] \in W /\ (WorkerOf[q] \in V => fellBack[q])}

Backed(s, W, V, k) ==
    Count(calls, Increment(s), W, k) <=
        Cardinality(Backing(s, W, V)) + Count(calls, Decrement(s), W, k)

\* Whatever the actor has run of the calls of each worker: the increments it has not run are
\* those of generations that run, or that have ended and whose decrement it has not run
\* either.  Behind a snapshot that is waited for come only increments of generations that fell
\* back, as it is the lock's holder that waits.
IncrementsBacked ==
    \A s \in Servers : \A W \in SUBSET Workers : \A V \in SUBSET W : \A k \in [Workers -> Nat] :
        (\A w \in V : Awaited(w, k[w])) => Backed(s, W, V, k)

\* The turns of a trajectory follow one another.
OneTurn ==
    \A q, r \in Requests : q # r /\ Trajectory[q] = Trajectory[r] =>
        pc[q] \in {"new", "done"} \/ pc[r] \in {"new", "done"}

FromBalancer(r) == pc[r] = "acquiring" \/ (pc[r] = "running" /\ fellBack[r])

AcquiredMarked ==
    \A w \in Workers : \A id \in lbAcquired[w] :
        \E r \in Requests : WorkerOf[r] = w /\ Trajectory[r] = id /\ FromBalancer(r)
MarkedAcquired ==
    \A r \in Requests : FromBalancer(r) => Trajectory[r] \in lbAcquired[WorkerOf[r]]

\* lbAcquired tells the generations that fell back from the scheduled ones, as long as no
\* acquire is lost: a trajectory is marked exactly while its turn has, or will have, the
\* server it runs on from the balancer.
Marks ==
    /\ \A r \in Requests : fellBack[r] => pc[r] = "running"
    /\ ~setting.failing => AcquiredMarked /\ MarkedAcquired

----------------------------------------------------------------------------
(* The queue of a lock *)

\* A generation that joins the queue stands in it once, and the head stays.
LEMMA JoinedQueue ==
    ASSUME NEW s \in Seq(Requests), Distinct(s), NEW r \in Requests, ~Queued(s, r)
    PROVE  /\ Append(s, r) \in Seq(Requests)
           /\ Distinct(Append(s, r))
           /\ \A x : Queued(Append(s, r), x) <=> Queued(s, x) \/ x = r
           /\ Append(s, r) # << >>
           /\ s # << >> => Head(Append(s, r)) = Head(s)
<1> DEFINE q == Append(s, r)
           n == Len(s)
<1>1. n \in Nat /\ DOMAIN s = 1..n
  BY LenProperties
<1>2. /\ q \in Seq(Requests) /\ Len(q) = n + 1 /\ DOMAIN q = 1..(n + 1)
      /\ \A k \in 1..n : q[k] = s[k]
      /\ q[n + 1] = r
  BY AppendProperties, LenProperties
<1> HIDE DEF q, n
<1>3. Distinct(q)
  <2> SUFFICES ASSUME NEW i \in 1..(n + 1), NEW j \in 1..(n + 1), q[i] = q[j] PROVE i = j
    BY <1>2 DEF Distinct
  <2>1. CASE i \in 1..n /\ j \in 1..n
    BY <1>1, <1>2, <2>1 DEF Distinct
  <2>2. CASE i = n + 1 \/ j = n + 1
    BY <1>1, <1>2, <2>2 DEF Queued
  <2> QED BY <1>1, <2>1, <2>2
<1>4. \A x : Queued(q, x) <=> Queued(s, x) \/ x = r
  <2> TAKE x
  <2>1. ASSUME Queued(q, x) PROVE Queued(s, x) \/ x = r
    BY <1>1, <1>2, <2>1 DEF Queued
  <2>2. ASSUME Queued(s, x) PROVE Queued(q, x)
    BY <1>1, <1>2, <2>2 DEF Queued
  <2>3. Queued(q, r)
    BY <1>1, <1>2 DEF Queued
  <2> QED BY <2>1, <2>2, <2>3
<1>5. q # << >>
  BY <1>1, <1>2, EmptySeq
<1>6. ASSUME s # << >> PROVE Head(q) = Head(s)
  <2>1. n # 0
    BY <1>6, EmptySeq DEF n
  <2>2. Head(q) = q[1] /\ Head(s) = s[1]
    BY <1>5, <1>6, <1>2, HeadTailProperties
  <2> QED BY <1>1, <1>2, <2>1, <2>2
<1> QED BY <1>2, <1>3, <1>4, <1>5, <1>6 DEF q

\* A generation that leaves the queue, from wherever it stands, and nobody else.
LEMMA LeftQueue ==
    ASSUME NEW s \in Seq(Requests), Distinct(s), NEW i \in DOMAIN s
    PROVE  /\ RemoveAt(s, i) \in Seq(Requests)
           /\ Distinct(RemoveAt(s, i))
           /\ \A x : Queued(RemoveAt(s, i), x) <=> Queued(s, x) /\ x # s[i]
           /\ i # 1 => RemoveAt(s, i) # << >> /\ Head(RemoveAt(s, i)) = Head(s)
<1> DEFINE n == Len(s)
           front == SubSeq(s, 1, i - 1)
           back == SubSeq(s, i + 1, n)
           q == RemoveAt(s, i)
           old(k) == IF k < i THEN k ELSE k + 1
<1>1. n \in Nat /\ DOMAIN s = 1..n /\ i \in 1..n
  BY LenProperties
<1>2. front \in Seq(Requests) /\ Len(front) = i - 1 /\ \A k \in 1..(i - 1) : front[k] = s[k]
  BY <1>1, SubSeqProperties
<1>3. back \in Seq(Requests) /\ Len(back) = n - i /\ \A k \in 1..(n - i) : back[k] = s[i + k]
  BY <1>1, SubSeqProperties
<1>4. q = front \o back
  BY DEF RemoveAt
<1> HIDE DEF front, back, q, n
<1>5. q \in Seq(Requests) /\ Len(q) = n - 1 /\ DOMAIN q = 1..(n - 1)
  BY <1>1, <1>2, <1>3, <1>4, ConcatProperties, LenProperties
<1>6. \A k \in 1..(n - 1) : q[k] = s[old(k)]
  <2> TAKE k \in 1..(n - 1)
  <2>1. CASE k < i
    BY <1>1, <1>2, <1>3, <1>4, <2>1, ConcatProperties
  <2>2. CASE k >= i
    <3>1. q[k] = back[k - (i - 1)]
      BY <1>1, <1>2, <1>3, <1>4, <2>2, ConcatProperties
    <3>2. k - (i - 1) \in 1..(n - i)
      BY <1>1, <2>2
    <3>3. back[k - (i - 1)] = s[i + (k - (i - 1))]
      BY <1>3, <3>2
    <3>4. i + (k - (i - 1)) = k + 1
      BY <1>1
    <3> QED BY <2>2, <3>1, <3>3, <3>4, <1>1
  <2> QED BY <2>1, <2>2, <1>1
<1>7. \A k \in 1..(n - 1) : old(k) \in 1..n /\ old(k) # i
  BY <1>1
<1>8. \A m \in 1..n : m # i => \E k \in 1..(n - 1) : old(k) = m
  <2> TAKE m \in 1..n
  <2> HAVE m # i
  <2>1. CASE m < i
    BY <1>1, <2>1
  <2>2. CASE m > i
    <3>1. m - 1 \in 1..(n - 1) /\ old(m - 1) = m
      BY <1>1, <2>2
    <3> QED BY <3>1
  <2> QED BY <1>1, <2>1, <2>2
<1>9. Distinct(q)
  <2> SUFFICES ASSUME NEW k \in 1..(n - 1), NEW l \in 1..(n - 1), q[k] = q[l] PROVE k = l
    BY <1>5 DEF Distinct
  <2>1. old(k) = old(l)
    BY <1>1, <1>6, <1>7 DEF Distinct
  <2> QED BY <2>1, <1>1
<1>10. \A x : Queued(q, x) <=> Queued(s, x) /\ x # s[i]
  <2> TAKE x
  <2>1. ASSUME Queued(q, x) PROVE Queued(s, x) /\ x # s[i]
    <3>1. PICK k \in 1..(n - 1) : q[k] = x
      BY <1>5, <2>1 DEF Queued
    <3>2. s[old(k)] = x /\ old(k) \in 1..n /\ old(k) # i
      BY <1>6, <1>7, <3>1
    <3> HIDE DEF old
    <3> QED BY <3>2, <1>1 DEF Queued, Distinct
  <2>2. ASSUME Queued(s, x), x # s[i] PROVE Queued(q, x)
    <3>1. PICK m \in 1..n : s[m] = x
      BY <1>1, <2>2 DEF Queued
    <3>2. PICK k \in 1..(n - 1) : old(k) = m
      BY <1>8, <2>2, <3>1
    <3>3. q[k] = x
      BY <1>6, <3>1, <3>2
    <3> QED BY <3>3, <1>5 DEF Queued
  <2> QED BY <2>1, <2>2
<1>11. ASSUME i # 1 PROVE q # << >> /\ Head(q) = Head(s)
  <2>1. 1 \in 1..(n - 1) /\ old(1) = 1
    BY <1>1, <1>11
  <2>2. q[1] = s[1] /\ q # << >> /\ s # << >>
    BY <1>1, <1>5, <1>6, <2>1, EmptySeq
  <2> QED BY <1>5, <2>2, HeadTailProperties
<1> QED BY <1>5, <1>9, <1>10, <1>11 DEF q

----------------------------------------------------------------------------
(* What a worker's new call, and a call that was run, do to the calls *)

WithCall(queues, w, c) == [queues EXCEPT ![w] = Append(@, c)]
WithoutFirst(queues, w) == [queues EXCEPT ![w] = Tail(@)]

\* A new call is the worker's last.
LEMMA CallAdded ==
    ASSUME NEW q \in [Workers -> Seq(Calls)], NEW w \in Workers, NEW d \in Calls
    PROVE  /\ WithCall(q, w, d) \in [Workers -> Seq(Calls)]
           /\ \A v \in Workers : v # w => WithCall(q, w, d)[v] = q[v]
           /\ Len(q[w]) \in Nat /\ DOMAIN q[w] = 1..Len(q[w])
           /\ DOMAIN WithCall(q, w, d)[w] = 1..(Len(q[w]) + 1)
           /\ \A i \in 1..Len(q[w]) : WithCall(q, w, d)[w][i] = q[w][i]
           /\ WithCall(q, w, d)[w][Len(q[w]) + 1] = d
<1>1. q[w] \in Seq(Calls) /\ WithCall(q, w, d)[w] = Append(q[w], d)
  BY DEF WithCall
<1>2. Append(q[w], d) \in Seq(Calls)
  BY <1>1, AppendProperties
<1>3. WithCall(q, w, d) \in [Workers -> Seq(Calls)]
  BY <1>2 DEF WithCall
<1>4. \A v \in Workers : v # w => WithCall(q, w, d)[v] = q[v]
  BY DEF WithCall
<1>5. Len(q[w]) \in Nat /\ DOMAIN q[w] = 1..Len(q[w])
  BY <1>1, LenProperties
<1>6. /\ Len(Append(q[w], d)) = Len(q[w]) + 1
      /\ \A i \in 1..Len(q[w]) : Append(q[w], d)[i] = q[w][i]
      /\ Append(q[w], d)[Len(q[w]) + 1] = d
  BY <1>1, AppendProperties
<1>7. DOMAIN Append(q[w], d) = 1..(Len(q[w]) + 1)
  BY <1>2, <1>6, LenProperties
<1> QED BY <1>1, <1>3, <1>4, <1>5, <1>6, <1>7

\* The call that is run is the worker's first.
LEMMA CallRun ==
    ASSUME NEW q \in [Workers -> Seq(Calls)], NEW w \in Workers, q[w] # << >>
    PROVE  /\ WithoutFirst(q, w) \in [Workers -> Seq(Calls)]
           /\ \A v \in Workers : v # w => WithoutFirst(q, w)[v] = q[v]
           /\ Len(q[w]) \in Nat /\ Len(q[w]) # 0 /\ DOMAIN q[w] = 1..Len(q[w])
           /\ Head(q[w]) = q[w][1] /\ Head(q[w]) \in Calls
           /\ DOMAIN WithoutFirst(q, w)[w] = 1..(Len(q[w]) - 1)
           /\ \A i \in 1..(Len(q[w]) - 1) : WithoutFirst(q, w)[w][i] = q[w][i + 1]
<1>1. q[w] \in Seq(Calls) /\ WithoutFirst(q, w)[w] = Tail(q[w])
  BY DEF WithoutFirst
<1>2. /\ Tail(q[w]) \in Seq(Calls) /\ Len(Tail(q[w])) = Len(q[w]) - 1
      /\ \A i \in 1..(Len(q[w]) - 1) : Tail(q[w])[i] = q[w][i + 1]
      /\ Head(q[w]) = q[w][1] /\ Head(q[w]) \in Calls
  BY <1>1, HeadTailProperties, LenProperties
<1>3. WithoutFirst(q, w) \in [Workers -> Seq(Calls)]
  BY <1>2 DEF WithoutFirst
<1>4. \A v \in Workers : v # w => WithoutFirst(q, w)[v] = q[v]
  BY DEF WithoutFirst
<1>5. Len(q[w]) \in Nat /\ DOMAIN q[w] = 1..Len(q[w]) /\ Len(q[w]) # 0
  BY <1>1, LenProperties, EmptySeq
<1>6. DOMAIN Tail(q[w]) = 1..(Len(q[w]) - 1)
  BY <1>2, LenProperties
<1> QED BY <1>1, <1>2, <1>3, <1>4, <1>5, <1>6

----------------------------------------------------------------------------
(* The calls that a cut leaves *)

\* A cut leaves the call at the place i of v.
Left(q, c, W, k, v, i) == v \in W /\ i \in DOMAIN q[v] /\ i > k[v] /\ q[v][i] = c

LEMMA InLater ==
    ASSUME NEW q, NEW c, NEW W, NEW k, NEW v \in Workers, NEW i \in Nat \ {0}
    PROVE  <<v, i>> \in Later(q, c, W, k) <=> Left(q, c, W, k, v, i)
BY DEF Later, Left

LEMMA LaterIsPair ==
    ASSUME NEW q, NEW c, NEW W, NEW k, NEW p \in Later(q, c, W, k)
    PROVE  \E v \in Workers, i \in Nat \ {0} : p = <<v, i>>
BY DEF Later

\* Two cuts leave the same calls if they leave the same in each queue.
LEMMA SameLater ==
    ASSUME NEW q, NEW c, NEW W, NEW k, NEW q2, NEW W2, NEW k2,
           \A v \in Workers, i \in Nat \ {0} :
               Left(q, c, W, k, v, i) <=>
               Left(q2, c, W2, k2, v, i)
    PROVE  Later(q, c, W, k) = Later(q2, c, W2, k2)
<1> DEFINE A == Later(q, c, W, k)
           B == Later(q2, c, W2, k2)
<1>1. \A v \in Workers, i \in Nat \ {0} : <<v, i>> \in A <=> <<v, i>> \in B
  BY InLater
<1>2. \A p \in A : \E v \in Workers, i \in Nat \ {0} : p = <<v, i>>
  BY LaterIsPair
<1>3. \A p \in B : \E v \in Workers, i \in Nat \ {0} : p = <<v, i>>
  BY LaterIsPair
<1> HIDE DEF A, B
<1>4. \A p : p \in A <=> p \in B
  BY <1>1, <1>2, <1>3
<1>5. A = B
  BY <1>4
<1> QED BY <1>5 DEF A, B

\* One more call, at the place n of w.
OneMore(q, c, W, k, q2, k2, w, n) ==
    /\ \A v \in Workers, i \in Nat \ {0} :
          Left(q2, c, W, k2, v, i) <=> (Left(q, c, W, k, v, i) \/ (v = w /\ i = n))
    /\ ~Left(q, c, W, k, w, n)
    /\ w \in Workers /\ n \in Nat \ {0}

LEMMA OneMoreLater ==
    ASSUME NEW q, NEW c, NEW W, NEW k, NEW q2, NEW k2, NEW w, NEW n,
           OneMore(q, c, W, k, q2, k2, w, n)
    PROVE  /\ Later(q2, c, W, k2) = Later(q, c, W, k) \cup {<<w, n>>}
           /\ <<w, n>> \notin Later(q, c, W, k)
<1> DEFINE A == Later(q, c, W, k)
           B == Later(q2, c, W, k2)
<1>1. \A v \in Workers, i \in Nat \ {0} : <<v, i>> \in B <=> <<v, i>> \in A \/ (v = w /\ i = n)
  BY InLater DEF OneMore
<1>2. \A p \in A : \E v \in Workers, i \in Nat \ {0} : p = <<v, i>>
  BY LaterIsPair
<1>3. \A p \in B : \E v \in Workers, i \in Nat \ {0} : p = <<v, i>>
  BY LaterIsPair
<1>4. <<w, n>> \notin A /\ w \in Workers /\ n \in Nat
  BY InLater DEF OneMore
<1> HIDE DEF A, B
<1>5. \A p : p \in B <=> p \in A \cup {<<w, n>>}
  BY <1>1, <1>2, <1>3, <1>4 DEF OneMore
<1>6. B = A \cup {<<w, n>>}
  BY <1>5
<1> QED BY <1>4, <1>6 DEF A, B

Grown(A, B, p) == B = A \cup {p} /\ p \notin A

\* A cut that takes one more call of w.
Further(k, w) == [k EXCEPT ![w] = @ + 1]

\* Where w's next call goes.
Place(q, w) == <<w, Len(q[w]) + 1>>

\* The new call d of w is one of those that are counted.
Hits(q, w, d, c, W, k) == d = c /\ w \in W /\ k[w] <= Len(q[w])

\* The calls that a cut leaves once w has made the call d.
Added(q, w, d, c, W, k) ==
    /\ Hits(q, w, d, c, W, k) =>
         Grown(Later(q, c, W, k), Later(WithCall(q, w, d), c, W, k), Place(q, w))
    /\ ~Hits(q, w, d, c, W, k) =>
         Later(WithCall(q, w, d), c, W, k) = Later(q, c, W, k)

\* A new call is left by the cuts that do not lie behind it.
LEMMA LaterAdded ==
    ASSUME NEW q \in [Workers -> Seq(Calls)], NEW w \in Workers, NEW d \in Calls,
           NEW c, NEW W, NEW k \in [Workers -> Nat]
    PROVE  Added(q, w, d, c, W, k)
<1> DEFINE r == WithCall(q, w, d)
           n == Len(q[w])
<1>1. /\ \A v \in Workers : v # w => r[v] = q[v]
      /\ n \in Nat /\ DOMAIN q[w] = 1..n /\ DOMAIN r[w] = 1..(n + 1)
      /\ \A i \in 1..n : r[w][i] = q[w][i]
      /\ r[w][n + 1] = d
  BY CallAdded
<1>2. k[w] \in Nat
  OBVIOUS
<1> HIDE DEF r, n
<1>3. ASSUME d = c, w \in W, k[w] <= n
      PROVE  Later(r, c, W, k) = Later(q, c, W, k) \cup {<<w, n + 1>>} /\ <<w, n + 1>> \notin Later(q, c, W, k)
  <2> DEFINE m == n + 1
  <2>1. ASSUME NEW v \in Workers, NEW i \in Nat \ {0}
        PROVE  Left(r, c, W, k, v, i) <=> (Left(q, c, W, k, v, i) \/ (v = w /\ i = m))
    <3>1. CASE v # w
      BY <1>1, <3>1 DEF Left
    <3>2. CASE v = w /\ i = m
      BY <1>1, <1>2, <1>3, <3>2 DEF Left
    <3>3. CASE v = w /\ i # m
      BY <1>1, <3>3 DEF Left
    <3> QED BY <3>1, <3>2, <3>3
  <2>2. ~Left(q, c, W, k, w, m)
    BY <1>1 DEF Left
  <2>3. m \in Nat \ {0}
    BY <1>1
  <2> HIDE DEF m
  <2>4. /\ Later(r, c, W, k) = Later(q, c, W, k) \cup {<<w, m>>}
        /\ <<w, m>> \notin Later(q, c, W, k)
    <3>1. OneMore(q, c, W, k, r, k, w, m)
      BY <2>1, <2>2, <2>3 DEF OneMore
    <3> QED BY <3>1, OneMoreLater
  <2> QED BY <2>4 DEF m
<1>4. ASSUME ~(d = c /\ w \in W /\ k[w] <= n)
      PROVE  Later(r, c, W, k) = Later(q, c, W, k)
  <2>1. ASSUME NEW v \in Workers, NEW i \in Nat \ {0}
        PROVE  Left(r, c, W, k, v, i) <=>
               Left(q, c, W, k, v, i)
    <3>1. CASE v # w
      BY <1>1, <3>1 DEF Left
    <3>2. CASE v = w /\ i = n + 1
      BY <1>1, <1>2, <1>4, <3>2 DEF Left
    <3>3. CASE v = w /\ i # n + 1
      BY <1>1, <3>3 DEF Left
    <3> QED BY <3>1, <3>2, <3>3
  <2> QED BY <2>1, SameLater
<1> QED BY <1>3, <1>4 DEF r, n, Hits, Grown, Place, Added

Others(W, w) == W \ {w}

\* A cut behind all calls of w leaves what the other workers' calls leave.
LEMMA LaterBeyond ==
    ASSUME NEW q \in [Workers -> Seq(Calls)], NEW w \in Workers, NEW c, NEW W,
           NEW k \in [Workers -> Nat], k[w] >= Len(q[w])
    PROVE  Later(q, c, W, k) = Later(q, c, Others(W, w), k)
<1>1. Len(q[w]) \in Nat /\ DOMAIN q[w] = 1..Len(q[w]) /\ k[w] \in Nat
  BY LenProperties
<1> DEFINE rest == W \ {w}
<1>2. ASSUME NEW v \in Workers, NEW i \in Nat \ {0}
      PROVE  Left(q, c, W, k, v, i) <=> Left(q, c, rest, k, v, i)
  BY <1>1 DEF Left
<1> HIDE DEF rest
<1>3. Later(q, c, W, k) = Later(q, c, rest, k)
  BY <1>2, SameLater
<1> QED BY <1>3 DEF rest, Others

\* The first call of w is left by the cuts that take none of w's.
LEMMA LaterFirst ==
    ASSUME NEW q \in [Workers -> Seq(Calls)], NEW w \in Workers, q[w] # << >>, NEW c, NEW W,
           NEW k \in [Workers -> Nat], k[w] = 0
    PROVE  /\ Head(q[w]) = c /\ w \in W =>
                Grown(Later(q, c, W, Further(k, w)), Later(q, c, W, k), <<w, 1>>)
           /\ ~(Head(q[w]) = c /\ w \in W) =>
                Later(q, c, W, k) = Later(q, c, W, Further(k, w))
<1> DEFINE k2 == Further(k, w)
<1>1. Len(q[w]) \in Nat /\ Len(q[w]) # 0 /\ DOMAIN q[w] = 1..Len(q[w]) /\ Head(q[w]) = q[w][1]
  BY CallRun
<1>2. k2[w] = 1 /\ \A v \in Workers : v # w => k2[v] = k[v]
  BY DEF Further
<1> HIDE DEF k2
<1>3. ASSUME Head(q[w]) = c, w \in W
      PROVE  Later(q, c, W, k) = Later(q, c, W, k2) \cup {<<w, 1>>} /\ <<w, 1>> \notin Later(q, c, W, k2)
  <2>1. ASSUME NEW v \in Workers, NEW i \in Nat \ {0}
        PROVE  Left(q, c, W, k, v, i) <=>
               (Left(q, c, W, k2, v, i) \/ (v = w /\ i = 1))
    BY <1>1, <1>2, <1>3 DEF Left
  <2>2. ~Left(q, c, W, k2, w, 1)
    BY <1>2 DEF Left
  <2>3. OneMore(q, c, W, k2, q, k, w, 1)
    BY <2>1, <2>2 DEF OneMore
  <2> QED BY <2>3, OneMoreLater
<1>4. ASSUME ~(Head(q[w]) = c /\ w \in W)
      PROVE  Later(q, c, W, k) = Later(q, c, W, k2)
  <2>1. ASSUME NEW v \in Workers, NEW i \in Nat \ {0}
        PROVE  Left(q, c, W, k, v, i) <=>
               Left(q, c, W, k2, v, i)
    BY <1>1, <1>2, <1>4 DEF Left
  <2> QED BY <2>1, SameLater
<1> QED BY <1>3, <1>4 DEF k2, Grown

SameNumber(S, T) == IsFiniteSet(T) /\ Cardinality(T) = Cardinality(S)

\* When w's first call was run, a cut that takes k[w] of w's calls leaves as many as one
\* that took one more of them before.
LEMMA LaterRun ==
    ASSUME NEW q \in [Workers -> Seq(Calls)], NEW w \in Workers, q[w] # << >>, NEW c, NEW W,
           NEW k \in [Workers -> Nat], IsFiniteSet(Later(q, c, W, Further(k, w)))
    PROVE  SameNumber(Later(q, c, W, Further(k, w)), Later(WithoutFirst(q, w), c, W, k))
<1> DEFINE k2 == Further(k, w)
           r == WithoutFirst(q, w)
           n == Len(q[w])
           A == Later(q, c, W, k2)
           B == Later(r, c, W, k)
           after(p) == IF p[1] = w THEN p[2] - 1 ELSE p[2]
           f == [p \in A |-> <<p[1], after(p)>>]
<1>1. /\ \A v \in Workers : v # w => r[v] = q[v]
      /\ n \in Nat /\ n # 0 /\ DOMAIN q[w] = 1..n /\ DOMAIN r[w] = 1..(n - 1)
      /\ \A i \in 1..(n - 1) : r[w][i] = q[w][i + 1]
  BY CallRun
<1>2. k2[w] = k[w] + 1 /\ k[w] \in Nat /\ \A v \in Workers : v # w => k2[v] = k[v]
  BY DEF Further
<1> HIDE DEF k2, r, n
<1>3. ASSUME NEW p \in A
      PROVE  /\ p = <<p[1], p[2]>> /\ p[1] \in Workers /\ p[2] \in Nat \ {0} /\ after(p) \in Nat \ {0}
             /\ <<p[1], after(p)>> \in B
  <2>1. PICK v \in Workers, i \in Nat \ {0} : p = <<v, i>>
    BY LaterIsPair
  <2>2. Left(q, c, W, k2, v, i)
    BY <2>1, InLater
  <2>3. CASE v # w
    <3>1. Left(r, c, W, k, v, i)
      BY <1>1, <1>2, <2>2, <2>3 DEF Left
    <3>2. <<v, i>> \in B
      BY <3>1, InLater
    <3> QED BY <2>1, <2>3, <3>2
  <2>4. CASE v = w
    <3>1. i - 1 \in 1..(n - 1) /\ i - 1 > k[w]
      BY <1>1, <1>2, <2>2, <2>4 DEF Left
    <3>2. r[w][i - 1] = c
      <4>1. r[w][i - 1] = q[w][(i - 1) + 1]
        BY <1>1, <3>1
      <4>2. (i - 1) + 1 = i
        OBVIOUS
      <4> QED BY <4>1, <4>2, <2>2, <2>4 DEF Left
    <3>3. w \in W /\ i - 1 \in DOMAIN r[w] /\ i - 1 \in Nat \ {0}
      BY <1>1, <2>2, <2>4, <3>1 DEF Left
    <3>4. <<w, i - 1>> \in B
      BY <3>1, <3>2, <3>3, InLater DEF Left
    <3> QED BY <2>1, <2>4, <3>3, <3>4
  <2> QED BY <2>3, <2>4
<1>4. ASSUME NEW p \in B
      PROVE  \E a \in A : <<a[1], after(a)>> = p
  <2>1. PICK v \in Workers, i \in Nat \ {0} : p = <<v, i>>
    BY LaterIsPair
  <2>2. Left(r, c, W, k, v, i)
    BY <2>1, InLater
  <2>3. CASE v # w
    <3>1. Left(q, c, W, k2, v, i)
      BY <1>1, <1>2, <2>2, <2>3 DEF Left
    <3>2. <<v, i>> \in A
      BY <3>1, InLater
    <3> QED BY <2>1, <2>3, <3>2
  <2>4. CASE v = w
    <3>1. i \in 1..(n - 1) /\ i + 1 \in DOMAIN q[w] /\ i + 1 > k2[w] /\ i + 1 \in Nat \ {0}
      BY <1>1, <1>2, <2>2, <2>4 DEF Left
    <3>2. q[w][i + 1] = c /\ w \in W
      BY <1>1, <2>2, <2>4, <3>1 DEF Left
    <3>3. <<w, i + 1>> \in A
      BY <3>1, <3>2, InLater DEF Left
    <3>4. <<w, (i + 1) - 1>> = p
      BY <2>1, <2>4
    <3> QED BY <3>3, <3>4
  <2> QED BY <2>3, <2>4
<1> HIDE DEF A, B
<1>5. f \in Bijection(A, B)
  <2>1. f \in [A -> B]
    BY <1>3
  <2>2. ASSUME NEW a \in A, NEW b \in A, f[a] = f[b] PROVE a = b
    <3>1. a[1] = b[1] /\ after(a) = after(b)
      BY <2>2
    <3>2. a[2] \in Nat \ {0} /\ b[2] \in Nat \ {0}
      BY <1>3
    <3>3. a[2] = b[2]
      BY <3>1, <3>2
    <3> QED BY <3>1, <3>3, <1>3
  <2>3. \A p \in B : \E a \in A : f[a] = p
    BY <1>4
  <2> HIDE DEF f
  <2> QED BY <2>1, <2>2, <2>3, Fun_IsBij
<1>6. IsFiniteSet(A)
  BY DEF A, k2
<1> HIDE DEF f
<1>7. ExistsBijection(A, B)
  BY <1>5 DEF ExistsBijection
<1>8. IsFiniteSet(B) /\ Cardinality(B) = Cardinality(A)
  BY <1>6, <1>7, FS_Bijection
<1> QED BY <1>8 DEF A, B, k2, r, SameNumber

----------------------------------------------------------------------------
(* Types *)

\* What a call of the worker w may be.
Typed(w, c) ==
    \/ c.call = "watch"
    \/ c.call \in {"increment", "decrement"} /\ c.arg \in Servers
    \/ c.call \in {"snapshot", "discover"} /\ c.arg \in Requests /\ WorkerOf[c.arg] = w

CallsTyped == \A w \in Workers : \A i \in DOMAIN calls[w] : Typed(w, calls[w][i])

\* The conjuncts of TypeOK that are about one variable each.
CountersTyped ==
    /\ setting \in Settings
    /\ inflight \in [Servers -> Nat]
    /\ known \subseteq Servers
    /\ drain = Idle \/ drain.asker \in Requests
    /\ drain.tries \in 0..(TriesPerServer * Expected)
    /\ lb \in [Servers -> Int] /\ releases \in [Servers -> Nat]
    /\ endpoints \in [Workers -> SUBSET Servers] /\ viewComplete \in [Workers -> BOOLEAN]

WinnersTyped == \A r \in Requests : pc[r] = "running" <=> winner[r] \in Servers

Waiting == {"locking", "asking", "deciding"}
LockTyped == \A r \in Requests : pc[r] \in Waiting <=> Queued(lock[WorkerOf[r]], r)

Types == Shape /\ CallsTyped /\ CountersTyped /\ WinnersTyped

LEMMA TypesAre == Shape => (TypeOK <=> CallsTyped /\ CountersTyped /\ WinnersTyped /\ LockTyped)
<1> SUFFICES ASSUME Shape PROVE TypeOK <=> CallsTyped /\ CountersTyped /\ WinnersTyped /\ LockTyped
  OBVIOUS
<1>1. \A r \in Requests : pc[r] \in Stages
  BY DEF Shape
<1>2. drain.handles \subseteq Servers
  BY DEF Shape, Drains
<1> DEFINE calltypes == \A w \in Workers : \A i \in DOMAIN calls[w] : LET c == calls[w][i] IN
             \/ c.call = "watch"
             \/ c.call \in {"increment", "decrement"} /\ c.arg \in Servers
             \/ c.call \in {"snapshot", "discover"} /\ c.arg \in Requests /\ WorkerOf[c.arg] = w
<1>3. CallsTyped <=> calltypes
  BY DEF CallsTyped, Typed
<1> HIDE DEF calltypes
<1>4. ASSUME TypeOK PROVE calltypes /\ CountersTyped /\ WinnersTyped /\ LockTyped
  BY <1>4 DEF TypeOK, calltypes, CountersTyped, WinnersTyped, LockTyped, Waiting
<1>5. ASSUME calltypes, CountersTyped, WinnersTyped, LockTyped PROVE TypeOK
  BY <1>1, <1>2, <1>5 DEF TypeOK, calltypes, CountersTyped, WinnersTyped, LockTyped, Waiting, Stages
<1> QED BY <1>3, <1>4, <1>5

\* A call of w is added, or its first call is run.
NewCall(w, c) == w \in Workers /\ c \in Calls /\ Typed(w, c) /\ calls' = WithCall(calls, w, c)
Ran(w) == w \in Workers /\ drain = Idle /\ calls[w] # << >> /\ calls' = WithoutFirst(calls, w)

LEMMA NewCallTyped ==
    ASSUME Shape, CallsTyped, NEW w, NEW c, NewCall(w, c)
    PROVE  calls' \in [Workers -> Seq(Calls)] /\ CallsTyped'
<1>1. calls \in [Workers -> Seq(Calls)] /\ w \in Workers /\ c \in Calls /\ Typed(w, c)
  BY DEF Shape, NewCall
<1> DEFINE q == WithCall(calls, w, c)
<1>2. /\ q \in [Workers -> Seq(Calls)]
      /\ \A v \in Workers : v # w => q[v] = calls[v]
      /\ Len(calls[w]) \in Nat /\ DOMAIN calls[w] = 1..Len(calls[w])
      /\ DOMAIN q[w] = 1..(Len(calls[w]) + 1)
      /\ \A i \in 1..Len(calls[w]) : q[w][i] = calls[w][i]
      /\ q[w][Len(calls[w]) + 1] = c
  BY <1>1, CallAdded
<1> HIDE DEF q
<1>3. ASSUME NEW v \in Workers, NEW i \in DOMAIN q[v] PROVE Typed(v, q[v][i])
  <2>1. CASE v # w
    BY <1>2, <2>1 DEF CallsTyped
  <2>2. CASE v = w /\ i = Len(calls[w]) + 1
    BY <1>1, <1>2, <2>2
  <2>3. CASE v = w /\ i # Len(calls[w]) + 1
    <3>1. i \in 1..Len(calls[w])
      BY <1>2, <2>3
    <3> QED BY <1>2, <2>3, <3>1 DEF CallsTyped
  <2> QED BY <2>1, <2>2, <2>3
<1>4. calls' = q
  BY DEF NewCall, q
<1> QED BY <1>2, <1>3, <1>4 DEF CallsTyped

LEMMA RanTyped ==
    ASSUME Shape, CallsTyped, NEW w, Ran(w)
    PROVE  /\ calls' \in [Workers -> Seq(Calls)] /\ CallsTyped'
           /\ Typed(w, Head(calls[w])) /\ Head(calls[w]) \in Calls
<1>1. calls \in [Workers -> Seq(Calls)] /\ w \in Workers /\ calls[w] # << >>
  BY DEF Shape, Ran
<1> DEFINE q == WithoutFirst(calls, w)
           n == Len(calls[w])
<1>2. /\ q \in [Workers -> Seq(Calls)]
      /\ \A v \in Workers : v # w => q[v] = calls[v]
      /\ n \in Nat /\ n # 0 /\ DOMAIN calls[w] = 1..n
      /\ Head(calls[w]) = calls[w][1] /\ Head(calls[w]) \in Calls
      /\ DOMAIN q[w] = 1..(n - 1)
      /\ \A i \in 1..(n - 1) : q[w][i] = calls[w][i + 1]
  BY <1>1, CallRun
<1> HIDE DEF q, n
<1>3. ASSUME NEW v \in Workers, NEW i \in DOMAIN q[v] PROVE Typed(v, q[v][i])
  <2>1. CASE v # w
    BY <1>2, <2>1 DEF CallsTyped
  <2>2. CASE v = w
    <3>1. i \in 1..(n - 1) /\ i + 1 \in 1..n
      BY <1>2, <2>2
    <3> QED BY <1>2, <2>2, <3>1 DEF CallsTyped
  <2> QED BY <2>1, <2>2
<1>4. 1 \in DOMAIN calls[w]
  BY <1>2
<1>5. Typed(w, Head(calls[w]))
  BY <1>1, <1>2, <1>4 DEF CallsTyped
<1>6. calls' = q
  BY DEF Ran, q
<1> QED BY <1>2, <1>3, <1>5, <1>6 DEF CallsTyped

LEMMA CallsKept == ASSUME Shape, CallsTyped, UNCHANGED calls
                   PROVE  calls' \in [Workers -> Seq(Calls)] /\ CallsTyped'
BY DEF Shape, CallsTyped

CallsFine == calls \in [Workers -> Seq(Calls)] /\ CallsTyped

\* What the steps of a generation do to the calls.
LEMMA GenerationCalls ==
    ASSUME Types, NEW r \in Requests, Generate(r) \/ GiveUp(r)
    PROVE  /\ UNCHANGED calls \/ \E c : NewCall(WorkerOf[r], c)
           /\ CallsFine'
<1>1. WorkerOf[r] \in Workers
  BY FleetAssumption
<1>2. UNCHANGED calls \/ \E c : NewCall(WorkerOf[r], c)
  <2>1. CASE AskToDiscover(r)
    <3>1. calls' = WithCall(calls, WorkerOf[r], [call |-> "discover", arg |-> r])
      BY <2>1 DEF AskToDiscover, Call, WithCall
    <3> QED BY <1>1, <3>1 DEF NewCall, Typed, Calls
  <2>2. CASE AskForSnapshot(r)
    <3>1. calls' = WithCall(calls, WorkerOf[r], [call |-> "snapshot", arg |-> r])
      BY <2>2 DEF AskForSnapshot, Call, WithCall
    <3> QED BY <1>1, <3>1 DEF NewCall, Typed, Calls
  <2>3. CASE Schedule(r) \/ Acquire(r)
    <3>1. endpoints[WorkerOf[r]] \subseteq Servers
      BY <1>1 DEF Types, CountersTyped
    <3>2. PICK s \in Servers : calls' = WithCall(calls, WorkerOf[r], [call |-> "increment", arg |-> s])
      BY <2>3, <3>1 DEF Schedule, Acquire, Call, WithCall
    <3> QED BY <1>1, <3>2 DEF NewCall, Typed, Calls
  <2>4. CASE Complete(r)
    <3>1. winner[r] \in Servers
      BY <2>4 DEF Complete, Types, WinnersTyped
    <3>2. calls' = WithCall(calls, WorkerOf[r], [call |-> "decrement", arg |-> winner[r]])
      BY <2>4 DEF Complete, ReleaseServer, Call, WithCall
    <3> QED BY <1>1, <3>1, <3>2 DEF NewCall, Typed, Calls
  <2>5. CASE Start(r) \/ SetEndpoints(r) \/ FallBack(r) \/ AcquireRaises(r) \/ GiveUp(r)
    BY <2>5 DEF Start, SetEndpoints, FallBack, AcquireRaises, GiveUp
  <2> QED BY <2>1, <2>2, <2>3, <2>4, <2>5 DEF Generate
<1> QED BY <1>2, CallsKept, NewCallTyped DEF Types, CallsFine

LEMMA RunCalls ==
    ASSUME Types, NEW w \in Workers, RunCall(w)
    PROVE  /\ Ran(w) /\ CallsFine' /\ Typed(w, Head(calls[w])) /\ Head(calls[w]) \in Calls
<1>1. Ran(w)
  BY DEF RunCall, RunWatch, RunIncrement, RunDecrement, RunSnapshot, RunDiscover, NextCall, Ran,
         WithoutFirst
<1> QED BY <1>1, RanTyped DEF Types, CallsFine

LEMMA GenerationTypes ==
    ASSUME Types, NEW r \in Requests, Generate(r) \/ GiveUp(r)
    PROVE  Types'
<1>1. CallsFine' /\ WorkerOf[r] \in Workers
  BY GenerationCalls, FleetAssumption
<1>2. None \notin Servers
  BY FleetAssumption DEF None
<1> DEFINE Locals == /\ pc' \in [Requests -> Stages] /\ found' \in [Requests -> SUBSET Servers]
                     /\ snapshot' \in [Requests -> [Servers -> Nat]]
                     /\ winner' \in [Requests -> Servers \cup {None}]
                     /\ fellBack' \in [Requests -> BOOLEAN]
                     /\ WinnersTyped'
           Acquired == lbAcquired' \in [Workers -> SUBSET {Trajectory[q] : q \in Requests}]
           View == endpoints' \in [Workers -> SUBSET Servers] /\ viewComplete' \in [Workers -> BOOLEAN]
           Balancer == lb' \in [Servers -> Int] /\ releases' \in [Servers -> Nat]
<1>3. UNCHANGED <<setting, actor>>
  BY DEF Generate, Start, AskToDiscover, SetEndpoints, AskForSnapshot, Schedule, FallBack, Acquire, AcquireRaises,
         Complete, GiveUp
<1>4. Zero \in [Servers -> Nat]
  BY DEF Zero
<1>5. /\ pc \in [Requests -> Stages] /\ found \in [Requests -> SUBSET Servers]
      /\ snapshot \in [Requests -> [Servers -> Nat]]
      /\ winner \in [Requests -> Servers \cup {None}]
      /\ fellBack \in [Requests -> BOOLEAN]
      /\ lbAcquired \in [Workers -> SUBSET {Trajectory[q] : q \in Requests}]
  BY DEF Types, Shape
<1>6. ASSUME NEW stage \in Stages \ {"running"}, pc' = [pc EXCEPT ![r] = stage], pc[r] # "running",
             UNCHANGED <<winner, fellBack>>,
             found' = found \/ found' = [found EXCEPT ![r] = {}],
             snapshot' = snapshot \/ snapshot' = [snapshot EXCEPT ![r] = Zero]
      PROVE  Locals
  <2>1. WinnersTyped'
    BY <1>5, <1>6 DEF Types, WinnersTyped
  <2>2. found' \in [Requests -> SUBSET Servers]
    BY <1>5, <1>6
  <2>3. snapshot' \in [Requests -> [Servers -> Nat]]
    BY <1>4, <1>5, <1>6
  <2> QED BY <1>5, <1>6, <2>1, <2>2, <2>3
<1>7. Locals
  <2>1. CASE Start(r) \/ AskToDiscover(r)
    <3>1. PICK stage \in {"locking", "listing", "discovering"} : pc' = [pc EXCEPT ![r] = stage]
      BY <2>1 DEF Start, AskToDiscover, Goto
    <3>2. pc[r] # "running" /\ UNCHANGED locals
      BY <2>1 DEF Start, AskToDiscover
    <3> QED BY <3>1, <3>2, <1>6 DEF locals, Stages
  <2>2. CASE SetEndpoints(r)
    <3>1. pc' = [pc EXCEPT ![r] = "locking"] /\ pc[r] # "running"
      BY <2>2 DEF SetEndpoints, Goto
    <3> QED BY <2>2, <3>1, <1>6 DEF SetEndpoints, Stages
  <2>3. CASE AskForSnapshot(r)
    <3>1. pc' = [pc EXCEPT ![r] = "asking"] /\ pc[r] # "running"
      BY <2>3 DEF AskForSnapshot, Goto
    <3> QED BY <2>3, <3>1, <1>6 DEF AskForSnapshot, locals, Stages
  <2>4. CASE FallBack(r)
    <3>1. pc' = [pc EXCEPT ![r] = "acquiring"] /\ pc[r] # "running"
      BY <2>4 DEF FallBack, Goto
    <3> QED BY <2>4, <3>1, <1>6 DEF FallBack, Stages
  <2>5. CASE AcquireRaises(r)
    <3>1. pc' = [pc EXCEPT ![r] = "done"] /\ pc[r] # "running"
      BY <2>5 DEF AcquireRaises, Goto
    <3> QED BY <2>5, <3>1, <1>6 DEF AcquireRaises, locals, Stages
  <2>6. CASE GiveUp(r)
    <3>1. pc' = [pc EXCEPT ![r] = "done"] /\ pc[r] # "running"
      BY <2>6 DEF GiveUp, Goto
    <3> QED BY <2>6, <3>1, <1>6 DEF GiveUp, Stages
  <2>7. CASE Schedule(r) \/ Acquire(r)
    <3>1. endpoints[WorkerOf[r]] \subseteq Servers
      BY <1>1 DEF Types, CountersTyped
    <3>2. PICK s \in Servers : winner' = [winner EXCEPT ![r] = s]
      BY <2>7, <3>1 DEF Schedule, Acquire
    <3>3. /\ pc' = [pc EXCEPT ![r] = "running"]
          /\ fellBack' = fellBack \/ fellBack' = [fellBack EXCEPT ![r] = TRUE]
          /\ found' = found
          /\ snapshot' = snapshot \/ snapshot' = [snapshot EXCEPT ![r] = Zero]
      BY <2>7 DEF Schedule, Acquire, Goto
    <3>4. WinnersTyped'
      BY <1>5, <3>2, <3>3 DEF Types, WinnersTyped
    <3>5. fellBack' \in [Requests -> BOOLEAN] /\ snapshot' \in [Requests -> [Servers -> Nat]]
      BY <1>4, <1>5, <3>3
    <3>6. pc' \in [Requests -> Stages]
      BY <1>5, <3>3 DEF Stages
    <3> QED BY <1>5, <3>2, <3>3, <3>4, <3>5, <3>6
  <2>8. CASE Complete(r)
    <3>1. /\ pc' = [pc EXCEPT ![r] = "done"] /\ winner' = [winner EXCEPT ![r] = None]
          /\ fellBack' = [fellBack EXCEPT ![r] = FALSE]
          /\ UNCHANGED <<found, snapshot>>
      BY <2>8 DEF Complete, Goto
    <3>2. WinnersTyped'
      BY <1>2, <1>5, <3>1 DEF Types, WinnersTyped
    <3>3. pc' \in [Requests -> Stages]
      BY <1>5, <3>1 DEF Stages
    <3> QED BY <1>5, <3>1, <3>2, <3>3
  <2> QED BY <2>1, <2>2, <2>3, <2>4, <2>5, <2>6, <2>7, <2>8 DEF Generate
<1>8. Acquired
  <2>1. UNCHANGED lbAcquired \/ FallBack(r) \/ Complete(r)
    BY DEF Generate, Start, AskToDiscover, SetEndpoints, AskForSnapshot, Schedule, Acquire, AcquireRaises, GiveUp
  <2>2. CASE FallBack(r)
    BY <1>1, <1>5, <2>2 DEF FallBack
  <2>3. CASE Complete(r)
    BY <1>1, <1>5, <2>3 DEF Complete, ReleaseServer
  <2> QED BY <1>5, <2>1, <2>2, <2>3
<1>9. View
  <2>0. endpoints \in [Workers -> SUBSET Servers] /\ viewComplete \in [Workers -> BOOLEAN]
    BY DEF Types, CountersTyped
  <2>1. UNCHANGED view \/ SetEndpoints(r)
    BY DEF Generate, Start, AskToDiscover, AskForSnapshot, Schedule, FallBack, Acquire, AcquireRaises, Complete, GiveUp
  <2>2. CASE SetEndpoints(r)
    <3> DEFINE complete == Cardinality(found[r]) >= Expected
    <3>1. viewComplete' = [viewComplete EXCEPT ![WorkerOf[r]] = complete] /\ complete \in BOOLEAN
      <4>1. found[r] \subseteq Servers
        BY <1>5
      <4>2. Cardinality(found[r]) \in Nat /\ Expected \in Nat
        BY <4>1, FleetAssumption, FS_Subset, FS_CardinalityType DEF Expected
      <4>3. complete \in BOOLEAN
        BY <4>2
      <4> HIDE DEF complete
      <4>4. viewComplete' = [viewComplete EXCEPT ![WorkerOf[r]] = complete]
        BY <2>2 DEF SetEndpoints, complete
      <4> QED BY <4>3, <4>4
    <3> HIDE DEF complete
    <3>2. endpoints' = [endpoints EXCEPT ![WorkerOf[r]] = found[r]]
      BY <2>2 DEF SetEndpoints, set_endpoints
    <3> QED BY <1>1, <1>5, <2>0, <3>1, <3>2
  <2> QED BY <2>0, <2>1, <2>2 DEF view
<1>10. Balancer
  <2>0. lb \in [Servers -> Int] /\ releases \in [Servers -> Nat]
    BY DEF Types, CountersTyped
  <2>1. UNCHANGED balancer \/ Acquire(r) \/ AcquireRaises(r) \/ Complete(r)
    BY DEF Generate, Start, AskToDiscover, SetEndpoints, AskForSnapshot, Schedule, FallBack, GiveUp
  <2>2. CASE Acquire(r) \/ AcquireRaises(r)
    <3>1. UNCHANGED releases /\ (UNCHANGED lb \/ \E s \in Servers : lb' = [lb EXCEPT ![s] = @ + 1])
      BY <2>2 DEF Acquire, AcquireRaises
    <3> QED BY <2>0, <3>1
  <2>3. CASE Complete(r)
    <3>1. UNCHANGED lb /\ winner[r] \in Servers
      BY <2>3 DEF Complete, Types, WinnersTyped
    <3>2. releases' = [releases EXCEPT ![winner[r]] = @ + 1] \/ releases' = [releases EXCEPT ![winner[r]] = @]
      BY <2>3 DEF Complete, ReleaseServer
    <3> QED BY <2>0, <3>1, <3>2
  <2> QED BY <2>0, <2>1, <2>2, <2>3 DEF balancer
<1> HIDE DEF Locals, Acquired, View, Balancer
<1>11. /\ setting' \in Settings /\ inflight' \in [Servers -> Nat] /\ known' \subseteq Servers
       /\ (drain = Idle \/ drain.asker \in Requests)' /\ (drain.tries \in 0..(TriesPerServer * Expected))'
       /\ drain' \in Drains
  BY <1>3 DEF actor, Types, CountersTyped, Shape
<1> QED BY <1>1, <1>7, <1>8, <1>9, <1>10, <1>11
         DEF Types, Shape, CountersTyped, CallsFine, Locals, Acquired, View, Balancer

LEMMA DrainTries ==
    /\ TriesPerServer \in Nat /\ Expected \in Nat /\ TriesPerServer * Expected \in Nat
<1>1. TriesPerServer \in Nat /\ Expected \in Nat
  BY FleetAssumption, FS_CardinalityType DEF Expected
<1> QED BY <1>1

\* One acquire of a discovery.
Took(d, e, s) == e = [d EXCEPT !.acquired[s] = @ + 1, !.tries = @ + 1, !.handles = @ \cup {s}]

LEMMA DrainTakes ==
    ASSUME NEW d \in Drains, NEW e, NEW s \in Servers, Took(d, e, s)
    PROVE  /\ e \in Drains /\ e.asker = d.asker /\ e.tries = d.tries + 1
           /\ e.acquired[s] = d.acquired[s] + 1
           /\ \A t \in Servers : t # s => e.acquired[t] = d.acquired[t]
<1> DEFINE taken == [d.acquired EXCEPT ![s] = @ + 1]
           more == d.tries + 1
           seen == d.handles \cup {s}
<1>1. d.acquired \in [Servers -> Nat] /\ d.tries \in Nat /\ d.handles \in SUBSET Servers
      /\ d.asker \in Requests \cup {None}
  BY DEF Drains
<1>2. taken \in [Servers -> Nat] /\ more \in Nat /\ seen \in SUBSET Servers
  BY <1>1
<1>3. e = [d EXCEPT !.acquired = taken, !.tries = more, !.handles = seen]
  BY DEF Took
<1> HIDE DEF taken, more, seen
<1>4. e = [asker |-> d.asker, acquired |-> taken, tries |-> more, handles |-> seen]
  BY <1>3 DEF Drains
<1>5. e.asker = d.asker /\ e.tries = more /\ e.acquired = taken
  BY ONLY <1>4
<1>6. e \in Drains
  BY ONLY <1>1, <1>2, <1>4 DEF Drains
<1>7. taken[s] = d.acquired[s] + 1 /\ \A t \in Servers : t # s => taken[t] = d.acquired[t]
  BY <1>1 DEF taken
<1> QED BY <1>5, <1>6, <1>7 DEF more

LEMMA ActorTypes ==
    ASSUME Types, (\E w \in Workers : RunCall(w)) \/ Discovery \/ (\E s \in Servers : RunRelease(s))
    PROVE  Types'
<1>1. /\ pc \in [Requests -> Stages] /\ found \in [Requests -> SUBSET Servers]
      /\ snapshot \in [Requests -> [Servers -> Nat]]
      /\ winner \in [Requests -> Servers \cup {None}]
      /\ fellBack \in [Requests -> BOOLEAN]
      /\ drain \in Drains /\ WinnersTyped
  BY DEF Types, Shape
<1>2. /\ inflight \in [Servers -> Nat] /\ known \subseteq Servers
      /\ drain = Idle \/ drain.asker \in Requests
      /\ drain.tries \in 0..(TriesPerServer * Expected)
      /\ lb \in [Servers -> Int] /\ releases \in [Servers -> Nat]
  BY DEF Types, CountersTyped
<1>3. UNCHANGED <<setting, view, lbAcquired, winner, fellBack>>
  BY DEF RunCall, RunWatch, RunIncrement, RunDecrement, RunSnapshot, RunDiscover,
         Discovery, DrainAcquire, DrainEnd, DrainRaises, RunRelease, locals
<1>4. Idle \in Drains /\ Idle.tries = 0
  BY DEF Idle, Drains, None, Zero
<1>5. CallsFine'
  <2>1. CASE \E w \in Workers : RunCall(w)
    BY <2>1, RunCalls
  <2>2. CASE UNCHANGED calls
    BY <2>2, CallsKept DEF Types, CallsFine
  <2> QED BY <2>1, <2>2 DEF Discovery, DrainAcquire, DrainEnd, DrainRaises, RunRelease
<1> DEFINE Locals == /\ pc' \in [Requests -> Stages] /\ found' \in [Requests -> SUBSET Servers]
                     /\ snapshot' \in [Requests -> [Servers -> Nat]]
                     /\ WinnersTyped'
           Actor == /\ inflight' \in [Servers -> Nat] /\ known' \subseteq Servers
                    /\ (drain = Idle \/ drain.asker \in Requests)'
                    /\ (drain.tries \in 0..(TriesPerServer * Expected))'
                    /\ drain' \in Drains
           Balancer == lb' \in [Servers -> Int] /\ releases' \in [Servers -> Nat]
<1>6. ASSUME UNCHANGED <<pc, found, snapshot>> PROVE Locals
  BY <1>1, <1>3, <1>6 DEF WinnersTyped
<1>7. ASSUME NEW stage \in {"found", "done"}, NEW handles \in SUBSET Servers, drain # Idle,
             Answer(stage, handles), UNCHANGED snapshot
      PROVE  Locals
  <2>1. drain.asker \in Requests
    BY <1>2, <1>7
  <2>2. CASE pc[drain.asker] = "discovering"
    <3>1. /\ pc' = [pc EXCEPT ![drain.asker] = stage] /\ found' = [found EXCEPT ![drain.asker] = handles]
      BY <1>7, <2>2 DEF Answer, Goto
    <3>2. stage \in Stages \ {"running"}
      BY DEF Stages
    <3>3. pc' \in [Requests -> Stages] /\ found' \in [Requests -> SUBSET Servers]
      BY <1>1, <2>1, <3>1, <3>2
    <3>4. WinnersTyped'
      BY <1>1, <1>3, <2>1, <2>2, <3>1, <3>2 DEF WinnersTyped
    <3> QED BY <1>1, <1>7, <3>3, <3>4
  <2>3. CASE pc[drain.asker] # "discovering"
    BY <1>6, <1>7, <2>3 DEF Answer
  <2> QED BY <2>2, <2>3
<1> HIDE DEF Locals, Actor, Balancer
<1>8. ASSUME UNCHANGED actor PROVE Actor
  BY <1>1, <1>2, <1>8 DEF actor, Actor
<1>9. ASSUME UNCHANGED balancer PROVE Balancer
  BY <1>2, <1>9 DEF balancer, Balancer
<1>10. Locals /\ Actor /\ Balancer
  <2>1. ASSUME NEW w \in Workers, RunCall(w) PROVE Locals /\ Actor /\ Balancer
    <3>1. Typed(w, Head(calls[w])) /\ Head(calls[w]) \in Calls
      BY <2>1, RunCalls
    <3>2. CASE RunWatch(w)
      <4>1. Actor
        BY <1>1, <1>2, <3>2 DEF RunWatch, Actor
      <4> QED BY <1>6, <1>9, <3>2, <4>1 DEF RunWatch, locals
    <3>3. CASE RunIncrement(w) \/ RunDecrement(w)
      <4>1. PICK s \in Servers : s = Head(calls[w]).arg
        BY <3>1, <3>3 DEF RunIncrement, RunDecrement, NextCall, Typed
      <4>2. inflight' \in [Servers -> Nat]
        BY <1>2, <3>3, <4>1 DEF RunIncrement, RunDecrement
      <4>3. Actor
        BY <1>1, <1>2, <3>3, <4>2 DEF RunIncrement, RunDecrement, Actor
      <4> QED BY <1>6, <1>9, <3>3, <4>3 DEF RunIncrement, RunDecrement, locals
    <3>4. CASE RunSnapshot(w)
      <4>1. PICK r \in Requests : r = Head(calls[w]).arg
        BY <3>1, <3>4 DEF RunSnapshot, NextCall, Typed
      <4>2. CASE pc[r] # "asking"
        BY <1>6, <1>8, <1>9, <3>4, <4>1, <4>2 DEF RunSnapshot
      <4>3. CASE pc[r] = "asking"
        <5>1. /\ pc' = [pc EXCEPT ![r] = "deciding"] /\ snapshot' = [snapshot EXCEPT ![r] = inflight]
              /\ found' = found
          BY <3>4, <4>1, <4>3 DEF RunSnapshot
        <5>2. pc' \in [Requests -> Stages]
          BY <1>1, <5>1 DEF Stages
        <5>3. WinnersTyped'
          BY <1>1, <1>3, <4>3, <5>1 DEF WinnersTyped
        <5>4. Locals
          BY <1>1, <1>2, <5>1, <5>2, <5>3 DEF Locals
        <5> QED BY <1>8, <1>9, <3>4, <5>4 DEF RunSnapshot
      <4> QED BY <4>2, <4>3
    <3>5. CASE RunDiscover(w)
      <4>1. PICK r \in Requests : r = Head(calls[w]).arg
        BY <3>1, <3>5 DEF RunDiscover, NextCall, Typed
      <4>2. drain' = [Idle EXCEPT !.asker = r, !.handles = known]
        BY <3>5, <4>1 DEF RunDiscover
      <4>3. drain' \in Drains /\ drain'.asker = r /\ drain'.tries = 0
        BY <1>2, <1>4, <4>1, <4>2 DEF Drains, Idle, Zero
      <4>4. 0 \in 0..(TriesPerServer * Expected)
        BY DrainTries
      <4>5. Actor
        BY <1>2, <3>5, <4>3, <4>4 DEF Actor, RunDiscover
      <4> QED BY <1>6, <1>9, <3>5, <4>5 DEF RunDiscover, locals
    <3> QED BY <2>1, <3>2, <3>3, <3>4, <3>5 DEF RunCall
  <2>2. CASE DrainAcquire
    <3>1. PICK s \in Servers : /\ lb' = [lb EXCEPT ![s] = @ + 1]
                               /\ drain' = [drain EXCEPT !.acquired[s] = @ + 1, !.tries = @ + 1,
                                                         !.handles = @ \cup {s}]
      BY <2>2 DEF DrainAcquire, LeastLoaded
    <3>2. drain # Idle /\ drain.tries < TriesPerServer * Expected
      BY <2>2 DEF DrainAcquire, Draining
    <3>3. drain' \in Drains /\ drain'.asker = drain.asker /\ drain'.tries = drain.tries + 1
      <4>1. Took(drain, drain', s)
        BY <3>1 DEF Took
      <4> QED BY <1>1, <4>1, DrainTakes
    <3>4. drain.tries + 1 \in 0..(TriesPerServer * Expected)
      BY <1>2, <3>2, DrainTries
    <3>5. Actor
      BY <1>2, <2>2, <3>2, <3>3, <3>4 DEF Actor, DrainAcquire
    <3>6. Balancer
      BY <1>2, <2>2, <3>1 DEF Balancer, DrainAcquire
    <3> QED BY <1>6, <2>2, <3>5, <3>6 DEF DrainAcquire, locals
  <2>3. CASE DrainEnd \/ DrainRaises
    <3>1. drain' = Idle /\ drain # Idle /\ known' \subseteq Servers /\ UNCHANGED inflight
      BY <1>1, <1>2, <2>3 DEF DrainEnd, DrainRaises, Draining, Drains
    <3>2. 0 \in 0..(TriesPerServer * Expected)
      BY DrainTries
    <3>3. Actor
      BY <1>2, <1>4, <3>1, <3>2 DEF Actor
    <3>4. Balancer
      <4>1. CASE DrainEnd
        <5>1. \A s \in Servers : releases[s] + drain.acquired[s] \in Nat
          BY <1>1, <1>2 DEF Drains
        <5> QED BY <1>2, <4>1, <5>1 DEF DrainEnd, Balancer
      <4>2. CASE DrainRaises
        BY <1>9, <4>2 DEF DrainRaises
      <4> QED BY <2>3, <4>1, <4>2
    <3>5. Locals
      <4>1. drain.handles \subseteq Servers /\ {} \subseteq Servers
        BY <1>1 DEF Drains
      <4>2. (Answer("found", drain.handles) \/ Answer("done", {})) /\ UNCHANGED snapshot
        BY <2>3 DEF DrainEnd, DrainRaises
      <4> QED BY <1>7, <3>1, <4>1, <4>2
    <3> QED BY <3>3, <3>4, <3>5
  <2>4. ASSUME NEW s \in Servers, RunRelease(s) PROVE Locals /\ Actor /\ Balancer
    <3>1. releases[s] \in Nat /\ releases[s] > 0 /\ releases' = [releases EXCEPT ![s] = @ - 1]
          /\ lb' = [lb EXCEPT ![s] = @ - 1]
      BY <1>2, <2>4 DEF RunRelease
    <3>2. releases[s] - 1 \in Nat
      BY <3>1
    <3>3. Balancer
      BY <1>2, <3>1, <3>2 DEF Balancer
    <3> QED BY <1>6, <1>8, <2>4, <3>3 DEF RunRelease, locals
  <2> QED BY <2>1, <2>2, <2>3, <2>4 DEF Discovery
<1>11. /\ setting' \in Settings /\ endpoints' \in [Workers -> SUBSET Servers]
       /\ viewComplete' \in [Workers -> BOOLEAN]
       /\ lbAcquired' \in [Workers -> SUBSET {Trajectory[q] : q \in Requests}]
       /\ winner' \in [Requests -> Servers \cup {None}] /\ fellBack' \in [Requests -> BOOLEAN]
  BY <1>3 DEF view, Types, Shape, CountersTyped
<1> QED BY <1>5, <1>10, <1>11 DEF Types, Shape, CountersTyped, CallsFine, Locals, Actor, Balancer

LEMMA TypesStep == Types /\ [Next]_vars => Types'
<1> SUFFICES ASSUME Types, [Next]_vars PROVE Types'
  OBVIOUS
<1>1. ASSUME UNCHANGED vars PROVE Types'
  BY <1>1 DEF Types, Shape, CallsTyped, CountersTyped, WinnersTyped, vars, actor, balancer, view, locals
<1> QED BY <1>1, GenerationTypes, ActorTypes DEF Next

----------------------------------------------------------------------------
(* Where generations stand *)

\* A generation's own steps, each from where it stands.
LEMMA GenerationMoves ==
    ASSUME Types, NEW r \in Requests, Generate(r) \/ GiveUp(r)
    PROVE  \E stage \in Stages :
             /\ pc' = [pc EXCEPT ![r] = stage]
             /\ pc[r] # "done"
             /\ pc[r] = "new" => Start(r)
             /\ pc[r] = "asking" => stage = "done"
             /\ stage = "asking" => AskForSnapshot(r) /\ pc[r] = "locking"
             /\ stage # "deciding" /\ stage # "new"
<1>1. CASE Start(r) \/ AskToDiscover(r)
  <2>1. PICK stage \in {"locking", "listing", "discovering"} : pc' = [pc EXCEPT ![r] = stage]
    BY <1>1 DEF Start, AskToDiscover, Goto
  <2>2. pc[r] \in {"new", "listing"} /\ (pc[r] = "new" => Start(r))
    BY <1>1 DEF Start, AskToDiscover
  <2> QED BY <2>1, <2>2 DEF Stages
<1>2. CASE SetEndpoints(r) \/ AskForSnapshot(r) \/ Schedule(r) \/ FallBack(r)
  <2>1. PICK stage \in {"locking", "asking", "running", "acquiring"} : pc' = [pc EXCEPT ![r] = stage]
    BY <1>2 DEF SetEndpoints, AskForSnapshot, Schedule, FallBack, Goto
  <2>2. stage = "asking" => AskForSnapshot(r)
    <3>1. SetEndpoints(r) => pc' = [pc EXCEPT ![r] = "locking"]
      BY DEF SetEndpoints, Goto
    <3>2. Schedule(r) => pc' = [pc EXCEPT ![r] = "running"]
      BY DEF Schedule, Goto
    <3>3. FallBack(r) => pc' = [pc EXCEPT ![r] = "acquiring"]
      BY DEF FallBack, Goto
    <3>4. pc'[r] = stage /\ pc \in [Requests -> Stages]
      BY <2>1 DEF Types, Shape
    <3> QED BY <1>2, <3>1, <3>2, <3>3, <3>4
  <2>3. pc[r] \in {"found", "locking", "deciding"} /\ (AskForSnapshot(r) => pc[r] = "locking")
    BY <1>2 DEF SetEndpoints, AskForSnapshot, Schedule, FallBack
  <2> QED BY <2>1, <2>2, <2>3 DEF Stages
<1>3. CASE Acquire(r)
  <2>1. pc' = [pc EXCEPT ![r] = "running"] /\ pc[r] = "acquiring"
    BY <1>3 DEF Acquire, Goto
  <2> QED BY <2>1 DEF Stages
<1>4. CASE AcquireRaises(r) \/ Complete(r) \/ GiveUp(r)
  <2>1. pc' = [pc EXCEPT ![r] = "done"] /\ pc[r] \notin {"new", "done"}
    BY <1>4 DEF AcquireRaises, Complete, GiveUp, Goto
  <2> QED BY <2>1 DEF Stages
<1> QED BY <1>1, <1>2, <1>3, <1>4 DEF Generate

\* The actor moves on who waits for its answer.
LEMMA ActorMoves ==
    ASSUME Types, (\E w \in Workers : RunCall(w)) \/ Discovery \/ (\E s \in Servers : RunRelease(s))
    PROVE  \/ UNCHANGED pc
           \/ \E r \in Requests : \E stage \in {"found", "done"} :
                pc[r] = "discovering" /\ pc' = [pc EXCEPT ![r] = stage]
           \/ \E w \in Workers : \E r \in Requests :
                /\ RunSnapshot(w) /\ r = Head(calls[w]).arg
                /\ pc[r] = "asking" /\ pc' = [pc EXCEPT ![r] = "deciding"]
<1>1. ASSUME NEW w \in Workers, RunCall(w), ~UNCHANGED pc
      PROVE  \E r \in Requests :
                /\ RunSnapshot(w) /\ r = Head(calls[w]).arg
                /\ pc[r] = "asking" /\ pc' = [pc EXCEPT ![r] = "deciding"]
  <2>1. RunSnapshot(w)
    BY <1>1 DEF RunCall, RunWatch, RunIncrement, RunDecrement, RunDiscover
  <2>2. Typed(w, Head(calls[w])) /\ Head(calls[w]).call = "snapshot"
    BY <1>1, <2>1, RunCalls DEF RunSnapshot, NextCall
  <2>3. Head(calls[w]).arg \in Requests
    BY <2>2 DEF Typed
  <2> QED BY <1>1, <2>1, <2>3 DEF RunSnapshot
<1>2. ASSUME Discovery, ~UNCHANGED pc
      PROVE  \E r \in Requests : \E stage \in {"found", "done"} :
                pc[r] = "discovering" /\ pc' = [pc EXCEPT ![r] = stage]
  <2>1. DrainEnd \/ DrainRaises
    BY <1>2 DEF Discovery, DrainAcquire
  <2>2. drain # Idle /\ (Answer("found", drain.handles) \/ Answer("done", {}))
    BY <2>1 DEF DrainEnd, DrainRaises, Draining
  <2>3. drain.asker \in Requests
    BY <2>2 DEF Types, CountersTyped
  <2> QED BY <1>2, <2>2, <2>3 DEF Answer, Goto
<1>3. ASSUME NEW s \in Servers, RunRelease(s) PROVE UNCHANGED pc
  BY <1>3 DEF RunRelease
<1> QED BY <1>1, <1>2, <1>3

\* The turns of a trajectory stay apart.
LEMMA OneTurnStep == Types /\ OneTurn /\ [Next]_vars => OneTurn'
<1> SUFFICES ASSUME Types, OneTurn, [Next]_vars PROVE OneTurn'
  OBVIOUS
<1>0. pc \in [Requests -> Stages]
  BY DEF Types, Shape
<1>1. CASE UNCHANGED pc
  BY <1>1 DEF OneTurn
<1>2. ASSUME NEW r \in Requests, Generate(r) \/ GiveUp(r) PROVE OneTurn'
  <2>1. PICK stage \in Stages : pc' = [pc EXCEPT ![r] = stage] /\ (pc[r] = "new" => Start(r)) /\ pc[r] # "done"
    BY <1>2, GenerationMoves
  <2>2. CASE pc[r] = "new"
    <3>1. IsTurn(r)
      BY <2>1, <2>2 DEF Start
    <3> QED BY <1>0, <2>1, <3>1 DEF OneTurn, IsTurn
  <2>3. CASE pc[r] # "new"
    BY <1>0, <2>1, <2>3 DEF OneTurn
  <2> QED BY <2>2, <2>3
<1>3. ASSUME NEW r \in Requests, NEW stage, pc[r] \notin {"new", "done"}, pc' = [pc EXCEPT ![r] = stage]
      PROVE  OneTurn'
  BY <1>0, <1>3 DEF OneTurn
<1>4. CASE (\E w \in Workers : RunCall(w)) \/ Discovery \/ (\E s \in Servers : RunRelease(s))
  BY <1>1, <1>3, <1>4, ActorMoves
<1> QED BY <1>1, <1>2, <1>4 DEF Next, vars

----------------------------------------------------------------------------
(* The locks *)

Locks == LockDiscipline /\ LockTyped

\* A queue that r joins.
LEMMA JoinLocks ==
    ASSUME Types, Locks, NEW r \in Requests, pc[r] \in {"new", "found"},
           lock' = [lock EXCEPT ![WorkerOf[r]] = Append(@, r)],
           pc' = [pc EXCEPT ![r] = "locking"]
    PROVE  Locks'
<1> DEFINE w == WorkerOf[r]
           old == lock[w]
           new == Append(old, r)
<1>1. /\ w \in Workers /\ pc \in [Requests -> Stages]
      /\ lock \in [Workers -> Seq(Requests)] /\ \A v \in Workers : Distinct(lock[v])
      /\ WorkerOf \in [Requests -> Workers]
  BY FleetAssumption DEF Types, Shape, Locks, LockDiscipline
<1>2. old \in Seq(Requests) /\ Distinct(old)
  BY <1>1
<1>3. ~Queued(old, r)
  BY DEF Locks, LockTyped, Waiting
<1> HIDE DEF old, w
<1>4. /\ new \in Seq(Requests) /\ Distinct(new)
      /\ \A x : Queued(new, x) <=> Queued(old, x) \/ x = r
      /\ old # << >> => Head(new) = Head(old)
  BY <1>2, <1>3, JoinedQueue
<1> HIDE DEF new
<1>5. lock'[w] = new /\ \A v \in Workers : v # w => lock'[v] = lock[v]
  BY <1>1 DEF new, old, w
<1>6. lock' \in [Workers -> Seq(Requests)]
  BY <1>1, <1>4 DEF new, old, w
<1>7. \A v \in Workers : Distinct(lock'[v])
  BY <1>1, <1>4, <1>5
<1>8. \A v \in Workers : \A x \in Requests : Queued(lock'[v], x) => WorkerOf[x] = v
  BY <1>4, <1>5 DEF Locks, LockDiscipline, old, w
<1>9. ASSUME NEW x \in Requests PROVE pc'[x] \in Waiting <=> Queued(lock'[WorkerOf[x]], x)
  BY <1>1, <1>4, <1>5, <1>9 DEF Locks, LockTyped, Waiting, old, w
<1>10. ASSUME NEW x \in Requests, pc'[x] \in {"asking", "deciding"} PROVE HoldsLock(x)'
  <2>1. x # r /\ pc[x] \in {"asking", "deciding"}
    BY <1>1, <1>10
  <2>2. HoldsLock(x) /\ Queued(lock[WorkerOf[x]], x)
    BY <2>1 DEF Locks, LockDiscipline, LockTyped, Waiting
  <2>3. CASE WorkerOf[x] = w
    <3>1. old # << >>
      BY <1>2, <2>2, <2>3 DEF Queued, old
    <3> QED BY <1>4, <1>5, <2>2, <2>3, <3>1 DEF HoldsLock, old
  <2>4. CASE WorkerOf[x] # w
    BY <1>1, <1>5, <2>2, <2>4 DEF HoldsLock
  <2> QED BY <2>3, <2>4
<1> QED BY <1>6, <1>7, <1>8, <1>9, <1>10 DEF Locks, LockDiscipline, LockTyped, Distinct, Queued

\* A queue that r leaves, if it stood in it.
LEMMA LeaveLocks ==
    ASSUME Types, Locks, NEW r \in Requests, NEW stage \in Stages \ Waiting, Unlock(r),
           pc' = [pc EXCEPT ![r] = stage]
    PROVE  Locks'
<1> DEFINE w == WorkerOf[r]
           old == lock[w]
           place == CHOOSE i \in DOMAIN old : old[i] = r
           new == RemoveAt(old, place)
<1>1. /\ w \in Workers /\ pc \in [Requests -> Stages]
      /\ lock \in [Workers -> Seq(Requests)] /\ \A v \in Workers : Distinct(lock[v])
      /\ WorkerOf \in [Requests -> Workers]
  BY FleetAssumption DEF Types, Shape, Locks, LockDiscipline
<1>2. old \in Seq(Requests) /\ Distinct(old)
  BY <1>1
<1>3. \A x \in Requests : x # r => pc'[x] = pc[x]
  BY <1>1
<1>4. pc'[r] \notin Waiting
  BY <1>1
<1>5. CASE ~Queued(old, r)
  <2>1. UNCHANGED lock
    BY <1>5 DEF Unlock
  <2>2. ASSUME NEW x \in Requests
        PROVE  /\ pc'[x] \in Waiting <=> Queued(lock[WorkerOf[x]], x)
               /\ pc'[x] \in {"asking", "deciding"} => HoldsLock(x)
    <3>1. CASE x = r
      BY <1>4, <1>5, <3>1 DEF Waiting
    <3>2. CASE x # r
      BY <1>3, <3>2 DEF Locks, LockTyped, LockDiscipline
    <3> QED BY <3>1, <3>2
  <2> QED BY <2>1, <2>2 DEF Locks, LockDiscipline, LockTyped, HoldsLock
<1>6. CASE Queued(old, r)
  <2>1. lock' = [lock EXCEPT ![w] = new]
    BY <1>6 DEF Unlock
  <2>2. place \in DOMAIN old /\ old[place] = r
    BY <1>6 DEF Queued
  <2> HIDE DEF place, old, w
  <2>3. /\ new \in Seq(Requests) /\ Distinct(new)
        /\ \A x : Queued(new, x) <=> Queued(old, x) /\ x # r
        /\ place # 1 => new # << >> /\ Head(new) = Head(old)
    BY <1>2, <2>2, LeftQueue
  <2> HIDE DEF new
  <2>4. lock'[w] = new /\ \A v \in Workers : v # w => lock'[v] = lock[v]
    BY <1>1, <2>1
  <2>5. lock' \in [Workers -> Seq(Requests)]
    BY <1>1, <2>1, <2>3
  <2>6. \A v \in Workers : Distinct(lock'[v])
    BY <1>1, <2>3, <2>4
  <2>7. \A v \in Workers : \A x \in Requests : Queued(lock'[v], x) => WorkerOf[x] = v
    BY <2>3, <2>4 DEF Locks, LockDiscipline, old
  <2>8. ASSUME NEW x \in Requests PROVE pc'[x] \in Waiting <=> Queued(lock'[WorkerOf[x]], x)
    <3>1. CASE x = r
      BY <1>4, <2>3, <2>4, <3>1 DEF w
    <3>2. CASE x # r
      BY <1>1, <1>3, <2>3, <2>4, <3>2 DEF Locks, LockTyped, old
    <3> QED BY <3>1, <3>2
  <2>9. ASSUME NEW x \in Requests, pc'[x] \in {"asking", "deciding"} PROVE HoldsLock(x)'
    <3>1. x # r /\ pc[x] \in {"asking", "deciding"}
      BY <1>3, <1>4, <2>9 DEF Waiting
    <3>2. HoldsLock(x) /\ Queued(lock[WorkerOf[x]], x)
      BY <3>1 DEF Locks, LockDiscipline, LockTyped, Waiting
    <3>3. CASE WorkerOf[x] = w
      <4>1. old # << >> /\ Head(old) = x
        BY <1>2, <3>2, <3>3 DEF Queued, HoldsLock, old
      <4>2. place # 1
        BY <1>2, <2>2, <3>1, <4>1, HeadTailProperties
      <4> QED BY <2>3, <2>4, <3>3, <4>1, <4>2 DEF HoldsLock
    <3>4. CASE WorkerOf[x] # w
      BY <1>1, <2>4, <3>2, <3>4 DEF HoldsLock
    <3> QED BY <3>3, <3>4
  <2> QED BY <2>5, <2>6, <2>7, <2>8, <2>9 DEF Locks, LockDiscipline, LockTyped, Distinct, Queued
<1> QED BY <1>5, <1>6

\* A step that leaves the queues alone, and moves nobody into or out of them.
LEMMA KeepLocks ==
    ASSUME Types, Locks, NEW r \in Requests, NEW stage \in Stages, UNCHANGED lock,
           pc' = [pc EXCEPT ![r] = stage], pc[r] \in Waiting <=> stage \in Waiting,
           stage \in {"asking", "deciding"} => HoldsLock(r)
    PROVE  Locks'
<1>1. pc \in [Requests -> Stages]
  BY DEF Types, Shape
<1>2. ASSUME NEW x \in Requests
      PROVE  /\ pc'[x] \in Waiting <=> Queued(lock[WorkerOf[x]], x)
             /\ pc'[x] \in {"asking", "deciding"} => HoldsLock(x)
  <2>1. CASE x = r
    BY <1>1, <2>1 DEF Locks, LockTyped
  <2>2. CASE x # r
    BY <1>1, <2>2 DEF Locks, LockTyped, LockDiscipline
  <2> QED BY <2>1, <2>2
<1> QED BY <1>2 DEF Locks, LockDiscipline, LockTyped, HoldsLock

LEMMA LocksStep == Types /\ Locks /\ [Next]_vars => Locks'
<1> SUFFICES ASSUME Types, Locks, [Next]_vars PROVE Locks'
  OBVIOUS
<1>1. ASSUME UNCHANGED <<lock, pc>> PROVE Locks'
  BY <1>1 DEF Locks, LockDiscipline, LockTyped, HoldsLock
<1>2. ASSUME NEW r \in Requests, Generate(r) \/ GiveUp(r) PROVE Locks'
  <2>1. CASE Start(r)
    <3>1. CASE viewComplete[WorkerOf[r]]
      BY <2>1, <3>1, JoinLocks DEF Start, Goto
    <3>2. CASE ~viewComplete[WorkerOf[r]]
      BY <2>1, <3>2, KeepLocks DEF Start, Goto, Waiting, Stages
    <3> QED BY <3>1, <3>2
  <2>0. CASE AskToDiscover(r)
    BY <2>0, KeepLocks DEF AskToDiscover, Goto, Waiting, Stages
  <2>2. CASE SetEndpoints(r)
    BY <2>2, JoinLocks DEF SetEndpoints, Goto
  <2>3. CASE AskForSnapshot(r)
    BY <2>3, KeepLocks DEF AskForSnapshot, Goto, Waiting, Stages
  <2>4. CASE Schedule(r)
    BY <2>4, LeaveLocks DEF Schedule, Goto, Waiting, Stages
  <2>5. CASE FallBack(r)
    BY <2>5, LeaveLocks DEF FallBack, Goto, Waiting, Stages
  <2>6. CASE Acquire(r) \/ AcquireRaises(r) \/ Complete(r)
    <3>1. PICK stage \in {"running", "done"} :
            pc' = [pc EXCEPT ![r] = stage] /\ UNCHANGED lock /\ pc[r] \in {"acquiring", "running"}
      BY <2>6 DEF Acquire, AcquireRaises, Complete, Goto
    <3>2. stage \in Stages /\ stage \notin Waiting /\ pc[r] \notin Waiting
          /\ stage \notin {"asking", "deciding"}
      BY <3>1 DEF Waiting, Stages
    <3> QED BY <3>1, <3>2, KeepLocks
  <2>7. CASE GiveUp(r)
    BY <2>7, LeaveLocks DEF GiveUp, Goto, Waiting, Stages
  <2> QED BY <1>2, <2>0, <2>1, <2>2, <2>3, <2>4, <2>5, <2>6, <2>7 DEF Generate
<1>3. ASSUME (\E w \in Workers : RunCall(w)) \/ Discovery \/ (\E s \in Servers : RunRelease(s))
      PROVE  Locks'
  <2>1. UNCHANGED lock
    BY <1>3 DEF RunCall, RunWatch, RunIncrement, RunDecrement, RunSnapshot, RunDiscover,
           Discovery, DrainAcquire, DrainEnd, DrainRaises, RunRelease
  <2>2. ASSUME NEW r \in Requests, NEW stage \in {"found", "done"},
               pc[r] = "discovering", pc' = [pc EXCEPT ![r] = stage]
        PROVE  Locks'
    <3>1. stage \in Stages /\ stage \notin Waiting /\ pc[r] \notin Waiting
          /\ stage \notin {"asking", "deciding"}
      BY <2>2 DEF Waiting, Stages
    <3> QED BY <2>1, <2>2, <3>1, KeepLocks
  <2>3. ASSUME NEW r \in Requests, pc[r] = "asking", pc' = [pc EXCEPT ![r] = "deciding"]
        PROVE  Locks'
    <3>1. HoldsLock(r)
      BY <2>3 DEF Locks, LockDiscipline
    <3>2. "deciding" \in Stages /\ "deciding" \in Waiting /\ pc[r] \in Waiting
      BY <2>3 DEF Waiting, Stages
    <3> QED BY <2>1, <2>3, <3>1, <3>2, KeepLocks
  <2> QED BY <1>1, <1>3, <2>1, <2>2, <2>3, ActorMoves
<1> QED BY <1>1, <1>2, <1>3 DEF Next, vars

----------------------------------------------------------------------------
(* The calls for a snapshot *)

Asks(c, r) == c.call = "snapshot" /\ c.arg = r

LEMMA SnapshotsAre ==
    SnapshotsOnce <=>
        \A w \in Workers : \A i \in DOMAIN calls[w] : \A r : Asks(calls[w][i], r) =>
            /\ pc[r] \in {"asking", "done"}
            /\ \A j \in DOMAIN calls[w] : Asks(calls[w][j], r) => i = j
BY DEF SnapshotsOnce, Asks

\* A snapshot that is called for is asked for by one of the worker's generations.
LEMMA AskerIs ==
    ASSUME CallsTyped, NEW w \in Workers, NEW i \in DOMAIN calls[w], NEW r, Asks(calls[w][i], r)
    PROVE  r \in Requests /\ WorkerOf[r] = w
BY DEF CallsTyped, Typed, Asks

LEMMA SnapshotsKept ==
    ASSUME Types, SnapshotsOnce, UNCHANGED calls,
           \A r \in Requests : pc[r] \in {"asking", "done"} => pc'[r] \in {"asking", "done"}
    PROVE  SnapshotsOnce'
BY DEF SnapshotsOnce, Types, CallsTyped, Typed

LEMMA SnapshotsNewCall ==
    ASSUME Types, SnapshotsOnce, NEW w, NEW c, NewCall(w, c),
           \A r \in Requests : pc[r] \in {"asking", "done"} => pc'[r] \in {"asking", "done"},
           \A r : Asks(c, r) => pc[r] \notin {"asking", "done"} /\ pc'[r] = "asking"
    PROVE  SnapshotsOnce'
<1> DEFINE n == Len(calls[w])
<1>1. calls \in [Workers -> Seq(Calls)] /\ w \in Workers /\ c \in Calls /\ CallsTyped
  BY DEF Types, Shape, NewCall
<1>2. /\ \A v \in Workers : v # w => calls'[v] = calls[v]
      /\ n \in Nat /\ DOMAIN calls[w] = 1..n
      /\ DOMAIN calls'[w] = 1..(n + 1)
      /\ \A i \in 1..n : calls'[w][i] = calls[w][i]
      /\ calls'[w][n + 1] = c
  <2> DEFINE q == WithCall(calls, w, c)
  <2>1. /\ \A v \in Workers : v # w => q[v] = calls[v]
        /\ n \in Nat /\ DOMAIN calls[w] = 1..n
        /\ DOMAIN q[w] = 1..(n + 1)
        /\ \A i \in 1..n : q[w][i] = calls[w][i]
        /\ q[w][n + 1] = c
    BY ONLY <1>1, CallAdded
  <2>2. calls' = q
    BY DEF NewCall
  <2> HIDE DEF q, n
  <2> QED BY <2>1, <2>2
<1> HIDE DEF n
<1>3. ASSUME NEW v \in Workers, NEW i \in DOMAIN calls[v], NEW r, Asks(calls[v][i], r)
      PROVE  /\ pc[r] \in {"asking", "done"} /\ pc'[r] \in {"asking", "done"}
             /\ \A j \in DOMAIN calls[v] : Asks(calls[v][j], r) => i = j
             /\ ~Asks(c, r)
  <2>1. /\ pc[r] \in {"asking", "done"}
        /\ \A j \in DOMAIN calls[v] : Asks(calls[v][j], r) => i = j
    BY <1>3, SnapshotsAre
  <2>2. r \in Requests
    BY <1>1, <1>3, AskerIs
  <2> QED BY <2>1, <2>2
<1>4. ASSUME NEW v \in Workers, NEW i \in DOMAIN calls'[v], NEW r, Asks(calls'[v][i], r)
      PROVE  /\ pc'[r] \in {"asking", "done"}
             /\ \A j \in DOMAIN calls'[v] : Asks(calls'[v][j], r) => i = j
  <2>1. CASE v # w
    BY <1>2, <1>3, <1>4, <2>1
  <2>2. CASE v = w /\ i = n + 1
    <3>1. Asks(c, r)
      BY <1>2, <1>4, <2>2
    <3>2. ASSUME NEW j \in 1..n PROVE ~Asks(calls[w][j], r)
      BY <1>1, <1>2, <1>3, <3>1
    <3> QED BY <1>2, <2>2, <3>1, <3>2
  <2>3. CASE v = w /\ i # n + 1
    <3>1. i \in 1..n
      BY <1>2, <2>3
    <3>2. i \in DOMAIN calls[w] /\ Asks(calls[w][i], r)
      BY <1>2, <1>4, <2>3, <3>1
    <3>3. /\ pc'[r] \in {"asking", "done"}
          /\ \A j \in DOMAIN calls[w] : Asks(calls[w][j], r) => i = j
          /\ ~Asks(c, r)
      BY <1>1, <1>3, <3>2
    <3> QED BY <1>2, <2>3, <3>3
  <2> QED BY <2>1, <2>2, <2>3
<1> QED BY <1>4 DEF SnapshotsOnce, Asks

LEMMA SnapshotsRan ==
    ASSUME Types, SnapshotsOnce, NEW w, Ran(w),
           \A r \in Requests : pc[r] \in {"asking", "done"} =>
               pc'[r] \in {"asking", "done"} \/ Asks(Head(calls[w]), r)
    PROVE  SnapshotsOnce'
<1> DEFINE n == Len(calls[w])
<1>1. calls \in [Workers -> Seq(Calls)] /\ w \in Workers /\ calls[w] # << >> /\ CallsTyped
  BY DEF Types, Shape, Ran
<1>2. /\ \A v \in Workers : v # w => calls'[v] = calls[v]
      /\ n \in Nat /\ n # 0 /\ DOMAIN calls[w] = 1..n /\ Head(calls[w]) = calls[w][1]
      /\ DOMAIN calls'[w] = 1..(n - 1)
      /\ \A i \in 1..(n - 1) : calls'[w][i] = calls[w][i + 1]
  BY <1>1, CallRun DEF Ran
<1> HIDE DEF n
<1>3. ASSUME NEW v \in Workers, NEW i \in DOMAIN calls[v], NEW r, Asks(calls[v][i], r),
             v # w \/ i # 1
      PROVE  /\ pc'[r] \in {"asking", "done"}
             /\ \A j \in DOMAIN calls[v] : Asks(calls[v][j], r) => i = j
  <2>1. /\ pc[r] \in {"asking", "done"}
        /\ \A j \in DOMAIN calls[v] : Asks(calls[v][j], r) => i = j
    BY <1>3, SnapshotsAre
  <2>2. r \in Requests /\ WorkerOf[r] = v
    BY <1>1, <1>3, AskerIs
  <2>3. ~Asks(Head(calls[w]), r)
    <3>1. SUFFICES ASSUME Asks(calls[w][1], r) PROVE FALSE
      BY <1>2
    <3>2. 1 \in DOMAIN calls[w]
      BY <1>2
    <3>3. WorkerOf[r] = w
      BY <1>1, <3>1, <3>2, AskerIs
    <3> QED BY <1>3, <2>1, <2>2, <3>1, <3>2, <3>3
  <2> QED BY <2>1, <2>2, <2>3
<1>4. ASSUME NEW v \in Workers, NEW i \in DOMAIN calls'[v], NEW r, Asks(calls'[v][i], r)
      PROVE  /\ pc'[r] \in {"asking", "done"}
             /\ \A j \in DOMAIN calls'[v] : Asks(calls'[v][j], r) => i = j
  <2>1. CASE v # w
    BY <1>2, <1>3, <1>4, <2>1
  <2>2. CASE v = w
    <3>1. i \in 1..(n - 1) /\ i + 1 \in 1..n /\ i + 1 # 1
      BY <1>2, <2>2
    <3>2. i + 1 \in DOMAIN calls[w] /\ Asks(calls[w][i + 1], r)
      BY <1>2, <1>4, <2>2, <3>1
    <3>3. /\ pc'[r] \in {"asking", "done"}
          /\ \A j \in DOMAIN calls[w] : Asks(calls[w][j], r) => i + 1 = j
      BY <1>1, <1>3, <3>1, <3>2
    <3>4. ASSUME NEW j \in 1..(n - 1), Asks(calls'[w][j], r) PROVE i = j
      <4>1. j + 1 \in DOMAIN calls[w] /\ Asks(calls[w][j + 1], r)
        BY <1>2, <3>4
      <4>2. i + 1 = j + 1
        BY <3>3, <4>1
      <4> QED BY <3>1, <4>2
    <3> QED BY <1>2, <2>2, <3>3, <3>4
  <2> QED BY <2>1, <2>2
<1> QED BY <1>4 DEF SnapshotsOnce, Asks

LEMMA SnapshotsStep == Types /\ SnapshotsOnce /\ [Next]_vars => SnapshotsOnce'
<1> SUFFICES ASSUME Types, SnapshotsOnce, [Next]_vars PROVE SnapshotsOnce'
  OBVIOUS
<1>0. pc \in [Requests -> Stages]
  BY DEF Types, Shape
<1>1. ASSUME UNCHANGED <<calls, pc>> PROVE SnapshotsOnce'
  BY <1>1 DEF SnapshotsOnce
<1>2. ASSUME NEW r \in Requests, Generate(r) \/ GiveUp(r) PROVE SnapshotsOnce'
  <2>1. PICK stage \in Stages : /\ pc' = [pc EXCEPT ![r] = stage] /\ pc[r] # "done"
                                /\ pc[r] = "asking" => stage = "done"
                                /\ stage = "asking" => AskForSnapshot(r) /\ pc[r] = "locking"
    BY <1>2, GenerationMoves
  <2>2. \A x \in Requests : pc[x] \in {"asking", "done"} => pc'[x] \in {"asking", "done"}
    BY <1>0, <2>1
  <2>3. CASE UNCHANGED calls
    BY <2>2, <2>3, SnapshotsKept
  <2>4. CASE AskForSnapshot(r)
    <3> DEFINE c == [call |-> "snapshot", arg |-> r]
    <3>1. NewCall(WorkerOf[r], c)
      BY <2>4, FleetAssumption DEF AskForSnapshot, Call, WithCall, NewCall, Typed, Calls
    <3>2. pc[r] = "locking" /\ pc'[r] = "asking"
      BY <1>0, <2>4 DEF AskForSnapshot, Goto
    <3>3. \A x : Asks(c, x) => x = r
      BY DEF Asks
    <3> HIDE DEF c
    <3>4. \A x : Asks(c, x) => pc[x] \notin {"asking", "done"} /\ pc'[x] = "asking"
      BY <3>2, <3>3
    <3> QED BY <2>2, <3>1, <3>4, SnapshotsNewCall
  <2>5. CASE AskToDiscover(r) \/ Schedule(r) \/ Acquire(r) \/ Complete(r)
    <3>1. CASE UNCHANGED calls
      BY <2>3, <3>1
    <3>2. ASSUME NEW c, NewCall(WorkerOf[r], c) PROVE \A x : ~Asks(c, x)
      <4>1. calls' = WithCall(calls, WorkerOf[r], c) /\ WorkerOf[r] \in Workers
            /\ calls \in [Workers -> Seq(Calls)] /\ c \in Calls
        BY <3>2 DEF NewCall, Types, Shape
      <4>2. calls'[WorkerOf[r]][Len(calls[WorkerOf[r]]) + 1] = c
        BY <4>1, CallAdded
      <4>3. PICK name \in {"discover", "increment", "decrement"} : \E a :
              calls' = calls \/ calls' = WithCall(calls, WorkerOf[r], [call |-> name, arg |-> a])
        BY <2>5 DEF AskToDiscover, Schedule, Acquire, Complete, ReleaseServer, Call, WithCall
      <4>4. PICK a :
              calls' = calls \/ calls' = WithCall(calls, WorkerOf[r], [call |-> name, arg |-> a])
        BY <4>3
      <4>5. CASE calls' = calls
        <5>1. DOMAIN calls'[WorkerOf[r]] = 1..(Len(calls[WorkerOf[r]]) + 1)
              /\ DOMAIN calls[WorkerOf[r]] = 1..Len(calls[WorkerOf[r]])
              /\ Len(calls[WorkerOf[r]]) \in Nat
          BY <4>1, CallAdded
        <5> QED BY <4>5, <5>1
      <4>6. CASE calls' = WithCall(calls, WorkerOf[r], [call |-> name, arg |-> a])
        <5>1. calls'[WorkerOf[r]] = Append(calls[WorkerOf[r]], [call |-> name, arg |-> a])
          BY <4>1, <4>6 DEF WithCall
        <5>2. calls'[WorkerOf[r]] = Append(calls[WorkerOf[r]], c)
          BY <4>1 DEF WithCall
        <5>3. c = [call |-> name, arg |-> a]
          BY <4>1, <5>1, <5>2
        <5> QED BY <5>3 DEF Asks
      <4> QED BY <4>4, <4>5, <4>6
    <3>3. ASSUME NEW c, NewCall(WorkerOf[r], c) PROVE SnapshotsOnce'
      <4>1. \A x : Asks(c, x) => pc[x] \notin {"asking", "done"} /\ pc'[x] = "asking"
        BY <3>2, <3>3
      <4> QED BY <2>2, <3>3, <4>1, SnapshotsNewCall
    <3> QED BY <1>2, <3>1, <3>3, GenerationCalls
  <2>6. CASE Start(r) \/ SetEndpoints(r) \/ FallBack(r) \/ AcquireRaises(r) \/ GiveUp(r)
    <3>1. UNCHANGED calls
      BY <2>6 DEF Start, SetEndpoints, FallBack, AcquireRaises, GiveUp
    <3> QED BY <2>3, <3>1
  <2> QED BY <1>2, <2>4, <2>5, <2>6 DEF Generate
<1>3. ASSUME NEW w \in Workers, RunCall(w) PROVE SnapshotsOnce'
  <2>1. Ran(w)
    BY <1>3, RunCalls
  <2>2. CASE UNCHANGED pc
    BY <2>1, <2>2, SnapshotsRan
  <2>3. CASE RunSnapshot(w)
    <3>1. /\ Head(calls[w]).call = "snapshot"
          /\ pc' = pc \/ pc' = [pc EXCEPT ![Head(calls[w]).arg] = "deciding"]
      BY <2>3 DEF RunSnapshot, NextCall
    <3>2. \A r \in Requests : pc[r] \in {"asking", "done"} =>
            pc'[r] \in {"asking", "done"} \/ Asks(Head(calls[w]), r)
      BY <1>0, <3>1 DEF Asks
    <3> QED BY <2>1, <3>2, SnapshotsRan
  <2> QED BY <1>3, <2>2, <2>3 DEF RunCall, RunWatch, RunIncrement, RunDecrement, RunDiscover
<1>4. ASSUME Discovery \/ \E s \in Servers : RunRelease(s) PROVE SnapshotsOnce'
  <2>1. UNCHANGED calls
    BY <1>4 DEF Discovery, DrainAcquire, DrainEnd, DrainRaises, RunRelease
  <2>2. UNCHANGED pc \/ \E r \in Requests : \E stage :
              pc[r] = "discovering" /\ pc' = [pc EXCEPT ![r] = stage]
    <3>1. CASE DrainAcquire \/ \E s \in Servers : RunRelease(s)
      BY <3>1 DEF DrainAcquire, RunRelease
    <3>2. CASE DrainEnd \/ DrainRaises
      <4>1. drain # Idle /\ (Answer("found", drain.handles) \/ Answer("done", {}))
        BY <3>2 DEF DrainEnd, DrainRaises, Draining
      <4>2. drain.asker \in Requests
        BY <4>1 DEF Types, CountersTyped
      <4> QED BY <4>1, <4>2 DEF Answer, Goto
    <3> QED BY <1>4, <3>1, <3>2 DEF Discovery
  <2>3. \A x \in Requests : pc[x] \in {"asking", "done"} => pc'[x] \in {"asking", "done"}
    BY <1>0, <2>2
  <2> QED BY <2>1, <2>3, SnapshotsKept
<1> QED BY <1>1, <1>2, <1>3, <1>4 DEF Next, vars

----------------------------------------------------------------------------
(* The balancer *)

LEMMA KeepMarks ==
    ASSUME Types, Marks, UNCHANGED <<setting, lbAcquired, fellBack>>,
           \A r \in Requests : /\ pc'[r] = "acquiring" <=> pc[r] = "acquiring"
                               /\ pc'[r] = "running" <=> pc[r] = "running"
    PROVE  Marks'
<1>1. \A r \in Requests : FromBalancer(r)' <=> FromBalancer(r)
  BY DEF FromBalancer
<1>2. AcquiredMarked => AcquiredMarked'
  BY <1>1 DEF AcquiredMarked
<1>3. MarkedAcquired => MarkedAcquired'
  BY <1>1 DEF MarkedAcquired
<1> QED BY <1>2, <1>3 DEF Marks

\* Those who have the balancer's servers are marked: no two turns share a mark.
LEMMA MarkTells ==
    ASSUME Types, OneTurn, Marks, ~setting.failing, NEW r \in Requests, pc[r] = "running"
    PROVE  Trajectory[r] \in lbAcquired[WorkerOf[r]] <=> fellBack[r]
<1>1. WorkerOf[r] \in Workers /\ fellBack[r] \in BOOLEAN
  BY FleetAssumption DEF Types, Shape
<1>2. ASSUME fellBack[r] PROVE Trajectory[r] \in lbAcquired[WorkerOf[r]]
  BY <1>2 DEF Marks, MarkedAcquired, FromBalancer
<1>3. ASSUME Trajectory[r] \in lbAcquired[WorkerOf[r]] PROVE fellBack[r]
  <2>1. PICK q \in Requests : Trajectory[q] = Trajectory[r] /\ FromBalancer(q)
    BY <1>1, <1>3 DEF Marks, AcquiredMarked
  <2>2. pc[q] \notin {"new", "done"}
    BY <2>1 DEF FromBalancer
  <2>3. q = r
    BY <2>1, <2>2 DEF OneTurn
  <2> QED BY <2>1, <2>3 DEF FromBalancer
<1> QED BY <1>1, <1>2, <1>3

LEMMA MarksStep == Types /\ OneTurn /\ Marks /\ [Next]_vars => Marks'
<1> SUFFICES ASSUME Types, OneTurn, Marks, [Next]_vars PROVE Marks'
  OBVIOUS
<1>0. /\ pc \in [Requests -> Stages] /\ fellBack \in [Requests -> BOOLEAN]
      /\ WorkerOf \in [Requests -> Workers]
      /\ lbAcquired \in [Workers -> SUBSET {Trajectory[q] : q \in Requests}]
  BY FleetAssumption DEF Types, Shape
<1>1. CASE UNCHANGED vars
  BY <1>1, KeepMarks DEF vars, locals
<1>2. ASSUME NEW r \in Requests, Generate(r) \/ GiveUp(r) PROVE Marks'
  <2>1. CASE Start(r) \/ AskToDiscover(r) \/ SetEndpoints(r) \/ AskForSnapshot(r) \/ GiveUp(r)
    <3>1. PICK stage \in {"locking", "listing", "discovering", "asking", "done"} :
            /\ pc' = [pc EXCEPT ![r] = stage]
            /\ pc[r] \notin {"acquiring", "running"}
            /\ UNCHANGED <<setting, lbAcquired, fellBack>>
      BY <2>1 DEF Start, AskToDiscover, SetEndpoints, AskForSnapshot, GiveUp, Goto, locals
    <3>2. \A x \in Requests : /\ pc'[x] = "acquiring" <=> pc[x] = "acquiring"
                              /\ pc'[x] = "running" <=> pc[x] = "running"
      BY <1>0, <3>1
    <3> QED BY <3>1, <3>2, KeepMarks
  <2>2. CASE Schedule(r)
    <3>1. /\ pc' = [pc EXCEPT ![r] = "running"] /\ pc[r] = "deciding"
          /\ UNCHANGED <<setting, lbAcquired, fellBack>>
      BY <2>2 DEF Schedule, Goto
    <3>2. ~fellBack[r]
      BY <3>1 DEF Marks
    <3>3. \A x \in Requests : FromBalancer(x)' <=> FromBalancer(x)
      BY <1>0, <3>1, <3>2 DEF FromBalancer
    <3>4. AcquiredMarked => AcquiredMarked'
      BY <3>1, <3>3 DEF AcquiredMarked
    <3>5. MarkedAcquired => MarkedAcquired'
      BY <3>1, <3>3 DEF MarkedAcquired
    <3> QED BY <1>0, <3>1, <3>4, <3>5 DEF Marks
  <2>3. CASE FallBack(r)
    <3>1. /\ pc' = [pc EXCEPT ![r] = "acquiring"] /\ pc[r] = "deciding"
          /\ UNCHANGED <<setting, fellBack>>
          /\ lbAcquired' = [lbAcquired EXCEPT ![WorkerOf[r]] = @ \cup {Trajectory[r]}]
      BY <2>3 DEF FallBack, Goto
    <3>2. \A x \in Requests : FromBalancer(x)' <=> FromBalancer(x) \/ x = r
      BY <1>0, <3>1 DEF FromBalancer
    <3>3. AcquiredMarked => AcquiredMarked'
      BY <1>0, <3>1, <3>2 DEF AcquiredMarked
    <3>4. MarkedAcquired => MarkedAcquired'
      BY <1>0, <3>1, <3>2 DEF MarkedAcquired
    <3>5. \A x \in Requests : fellBack'[x] => pc'[x] = "running"
      BY <1>0, <3>1 DEF Marks
    <3> QED BY <3>1, <3>3, <3>4, <3>5 DEF Marks
  <2>4. CASE Acquire(r)
    <3>1. /\ pc' = [pc EXCEPT ![r] = "running"] /\ pc[r] = "acquiring"
          /\ fellBack' = [fellBack EXCEPT ![r] = TRUE]
          /\ UNCHANGED <<setting, lbAcquired>>
      BY <2>4 DEF Acquire, Goto
    <3>2. \A x \in Requests : FromBalancer(x)' <=> FromBalancer(x)
      BY <1>0, <3>1 DEF FromBalancer
    <3>3. AcquiredMarked => AcquiredMarked'
      BY <3>1, <3>2 DEF AcquiredMarked
    <3>4. MarkedAcquired => MarkedAcquired'
      BY <3>1, <3>2 DEF MarkedAcquired
    <3>5. \A x \in Requests : fellBack'[x] => pc'[x] = "running"
      BY <1>0, <3>1 DEF Marks
    <3> QED BY <3>1, <3>3, <3>4, <3>5 DEF Marks
  <2>5. CASE AcquireRaises(r)
    <3>1. /\ pc' = [pc EXCEPT ![r] = "done"] /\ pc[r] = "acquiring" /\ setting.failing
          /\ UNCHANGED <<setting, fellBack>>
      BY <2>5 DEF AcquireRaises, Goto, locals
    <3>2. \A x \in Requests : fellBack'[x] => pc'[x] = "running"
      BY <1>0, <3>1 DEF Marks
    <3> QED BY <3>1, <3>2 DEF Marks
  <2>6. CASE Complete(r)
    <3>1. /\ pc' = [pc EXCEPT ![r] = "done"] /\ pc[r] = "running"
          /\ fellBack' = [fellBack EXCEPT ![r] = FALSE]
          /\ UNCHANGED setting
          /\ lbAcquired' = [lbAcquired EXCEPT ![WorkerOf[r]] = @ \ {Trajectory[r]}]
      BY <2>6 DEF Complete, ReleaseServer, Goto
    <3>2. \A x \in Requests : FromBalancer(x)' <=> FromBalancer(x) /\ x # r
      BY <1>0, <3>1 DEF FromBalancer
    <3>3. ASSUME NEW x \in Requests, x # r, FromBalancer(x) PROVE Trajectory[x] # Trajectory[r]
      <4>1. pc[x] \notin {"new", "done"}
        BY <3>3 DEF FromBalancer
      <4> QED BY <3>1, <3>3, <4>1 DEF OneTurn
    <3>4. ASSUME AcquiredMarked PROVE AcquiredMarked'
      <4> SUFFICES ASSUME NEW w \in Workers, NEW id \in lbAcquired'[w]
                   PROVE  \E x \in Requests : WorkerOf[x] = w /\ Trajectory[x] = id /\ FromBalancer(x)'
        BY DEF AcquiredMarked
      <4>1. id \in lbAcquired[w] /\ (w = WorkerOf[r] => id # Trajectory[r])
        BY <1>0, <3>1
      <4>2. PICK x \in Requests : WorkerOf[x] = w /\ Trajectory[x] = id /\ FromBalancer(x)
        BY <3>4, <4>1 DEF AcquiredMarked
      <4>3. x # r
        BY <4>1, <4>2
      <4> QED BY <3>2, <4>2, <4>3
    <3>5. MarkedAcquired => MarkedAcquired'
      BY <1>0, <3>1, <3>2, <3>3 DEF MarkedAcquired
    <3>6. \A x \in Requests : fellBack'[x] => pc'[x] = "running"
      BY <1>0, <3>1 DEF Marks
    <3> QED BY <3>1, <3>4, <3>5, <3>6 DEF Marks
  <2> QED BY <1>2, <2>1, <2>2, <2>3, <2>4, <2>5, <2>6 DEF Generate
<1>3. ASSUME (\E w \in Workers : RunCall(w)) \/ Discovery \/ (\E s \in Servers : RunRelease(s))
      PROVE  Marks'
  <2>1. UNCHANGED <<setting, lbAcquired, fellBack>>
    BY <1>3 DEF RunCall, RunWatch, RunIncrement, RunDecrement, RunSnapshot, RunDiscover,
           Discovery, DrainAcquire, DrainEnd, DrainRaises, RunRelease, locals
  <2>2. \A x \in Requests : /\ pc'[x] = "acquiring" <=> pc[x] = "acquiring"
                            /\ pc'[x] = "running" <=> pc[x] = "running"
    BY <1>0, <1>3, ActorMoves
  <2> QED BY <2>1, <2>2, KeepMarks
<1> QED BY <1>1, <1>2, <1>3 DEF Next

----------------------------------------------------------------------------
LEMMA CountIs ==
    ASSUME NEW S, S \subseteq Requests
    PROVE  IsFiniteSet(S) /\ Cardinality(S) \in Nat
BY FleetAssumption, FS_Subset, FS_CardinalityType

LEMMA CountMore ==
    ASSUME NEW S, NEW T, NEW r, IsFiniteSet(S), r \notin S, T = S \cup {r}
    PROVE  IsFiniteSet(T) /\ Cardinality(T) = Cardinality(S) + 1
BY FS_AddElement

LEMMA CountLess ==
    ASSUME NEW S, NEW T, NEW r, IsFiniteSet(S), r \in S, T = S \ {r}
    PROVE  IsFiniteSet(T) /\ Cardinality(T) = Cardinality(S) - 1
BY FS_RemoveElement

\* The generations that run on what the balancer gave.
Taken(s) == {r \in RunningOn(s) : fellBack[r]}

Balanced(s) == lb[s] - setting.load[s] = Cardinality(Taken(s)) + drain.acquired[s] + releases[s]

LEMMA BalancerStep ==
    Types /\ OneTurn /\ Marks /\ BalancerConserved /\ [Next]_vars => BalancerConserved'
<1> SUFFICES ASSUME Types, OneTurn, Marks, BalancerConserved, [Next]_vars,
                    ~setting'.failing, NEW s \in Servers
             PROVE  Balanced(s)'
  BY DEF BalancerConserved, Balanced, Taken, RunningOn
<1>0. /\ lb \in [Servers -> Int] /\ releases \in [Servers -> Nat]
      /\ drain.acquired \in [Servers -> Nat]
      /\ winner \in [Requests -> Servers \cup {None}]
      /\ fellBack \in [Requests -> BOOLEAN]
      /\ None \notin Servers
  BY FleetAssumption DEF Types, Shape, CountersTyped, Drains, None
<1>1. setting' = setting
  BY DEF Next, Generate, Start, AskToDiscover, SetEndpoints, AskForSnapshot, Schedule, FallBack, Acquire,
         AcquireRaises, Complete, GiveUp, RunCall, RunWatch, RunIncrement, RunDecrement,
         RunSnapshot, RunDiscover, Discovery, DrainAcquire, DrainEnd, DrainRaises, RunRelease, vars
<1>2. Balanced(s) /\ ~setting.failing
  BY <1>1 DEF BalancerConserved, Balanced, Taken
<1>3. setting.load[s] \in Nat
  BY FleetAssumption DEF Types, CountersTyped, Setting
<1>4. Taken(s) \subseteq Requests
  BY DEF Taken, RunningOn
<1>5. IsFiniteSet(Taken(s)) /\ Cardinality(Taken(s)) \in Nat
  BY <1>4, CountIs
<1> DEFINE n == Cardinality(Taken(s))
           m == Cardinality(Taken(s)')
<1>6. ASSUME UNCHANGED <<winner, fellBack>> PROVE m = n
  BY <1>6 DEF Taken, RunningOn
<1>7. lb[s] \in Int /\ releases[s] \in Nat /\ drain.acquired[s] \in Nat
      /\ lb[s] - setting.load[s] = n + drain.acquired[s] + releases[s]
  BY <1>0, <1>2 DEF Balanced
<1>8. Balanced(s)' <=> lb'[s] - setting.load[s] = m + drain'.acquired[s] + releases'[s]
  BY <1>1 DEF Balanced
<1> HIDE DEF n, m
<1>9. ASSUME UNCHANGED <<lb, releases, drain>>, m = n PROVE Balanced(s)'
  BY <1>7, <1>8, <1>9
<1>10. ASSUME NEW r \in Requests, Generate(r) \/ GiveUp(r) PROVE Balanced(s)'
  <2>0. UNCHANGED drain
    BY <1>10 DEF Generate, Start, AskToDiscover, SetEndpoints, AskForSnapshot, Schedule, FallBack, Acquire,
         AcquireRaises, Complete, GiveUp, actor
  <2>1. CASE \/ Start(r) \/ AskToDiscover(r) \/ SetEndpoints(r) \/ AskForSnapshot(r)
             \/ FallBack(r) \/ GiveUp(r)
    <3>1. UNCHANGED <<lb, releases, winner, fellBack>>
      BY <2>1 DEF Start, AskToDiscover, SetEndpoints, AskForSnapshot, FallBack, GiveUp, balancer,
                  locals
    <3> QED BY <1>6, <1>9, <2>0, <3>1
  <2>2. CASE Schedule(r)
    <3>1. /\ UNCHANGED <<lb, releases, fellBack>> /\ pc[r] = "deciding"
          /\ \E t : winner' = [winner EXCEPT ![r] = t]
      BY <2>2 DEF Schedule, balancer
    <3>2. ~fellBack[r]
      BY <3>1 DEF Marks
    <3>3. Taken(s)' = Taken(s)
      BY <1>0, <3>1, <3>2 DEF Taken, RunningOn
    <3> QED BY <1>9, <2>0, <3>1, <3>3 DEF m, n
  <2>3. CASE Acquire(r)
    <3>1. PICK t \in Servers : lb' = [lb EXCEPT ![t] = @ + 1] /\ winner' = [winner EXCEPT ![r] = t]
      BY <2>3 DEF Acquire
    <3>2. UNCHANGED releases /\ fellBack' = [fellBack EXCEPT ![r] = TRUE] /\ pc[r] = "acquiring"
      BY <2>3 DEF Acquire
    <3>3. winner[r] \notin Servers
      BY <3>2 DEF Types, WinnersTyped
    <3>4. r \notin Taken(s)
      BY <3>3 DEF Taken, RunningOn
    <3>5. CASE t = s
      <4>1. Taken(s)' = Taken(s) \cup {r}
        BY <1>0, <3>1, <3>2, <3>5 DEF Taken, RunningOn
      <4>2. m = n + 1
        BY <1>5, <3>4, <4>1, CountMore DEF m, n
      <4>3. lb'[s] = lb[s] + 1
        BY <1>0, <3>1, <3>5
      <4>4. n \in Nat
        BY <1>5 DEF n
      <4>5. releases'[s] = releases[s] /\ drain'.acquired[s] = drain.acquired[s]
        BY <2>0, <3>2
      <4>6. lb'[s] - setting.load[s] = m + drain'.acquired[s] + releases'[s]
        BY <1>3, <1>7, <4>2, <4>3, <4>4, <4>5
      <4> QED BY <1>8, <4>6
    <3>6. CASE t # s
      <4>1. Taken(s)' = Taken(s)
        BY <1>0, <3>1, <3>2, <3>3, <3>6 DEF Taken, RunningOn
      <4>2. lb'[s] = lb[s]
        BY <1>0, <3>1, <3>6
      <4>3. m = n
        BY <4>1 DEF m, n
      <4> QED BY <1>7, <1>8, <2>0, <3>2, <4>2, <4>3
    <3> QED BY <3>5, <3>6
  <2>4. CASE AcquireRaises(r)
    BY <1>2, <2>4 DEF AcquireRaises
  <2>5. CASE Complete(r)
    <3> DEFINE acquired == Trajectory[r] \in lbAcquired[WorkerOf[r]]
    <3>1. /\ pc[r] = "running" /\ UNCHANGED lb
          /\ winner' = [winner EXCEPT ![r] = None] /\ fellBack' = [fellBack EXCEPT ![r] = FALSE]
          /\ releases' = [releases EXCEPT ![winner[r]] = IF acquired THEN @ + 1 ELSE @]
      BY <2>5 DEF Complete, ReleaseServer
    <3>2. acquired <=> fellBack[r]
      BY <1>2, <3>1, MarkTells
    <3>3. winner[r] \in Servers
      BY <3>1 DEF Types, WinnersTyped
    <3> HIDE DEF acquired
    <3>4. CASE winner[r] = s /\ fellBack[r]
      <4>1. Taken(s)' = Taken(s) \ {r} /\ r \in Taken(s)
        BY <1>0, <3>1, <3>4 DEF Taken, RunningOn
      <4>2. m = n - 1
        BY <1>5, <4>1, CountLess DEF m, n
      <4>3. releases'[s] = releases[s] + 1
        BY <1>0, <3>1, <3>2, <3>4
      <4>4. n \in Nat
        BY <1>5 DEF n
      <4> QED BY <1>3, <1>7, <1>8, <2>0, <3>1, <4>2, <4>3, <4>4
    <3>5. CASE ~(winner[r] = s /\ fellBack[r])
      <4>1. Taken(s)' = Taken(s)
        BY <1>0, <3>1, <3>5 DEF Taken, RunningOn
      <4>2. releases'[s] = releases[s]
        BY <1>0, <3>1, <3>2, <3>3, <3>5
      <4>3. m = n
        BY <4>1 DEF m, n
      <4> QED BY <1>7, <1>8, <2>0, <3>1, <4>2, <4>3
    <3> QED BY <3>4, <3>5
  <2> QED BY <1>10, <2>1, <2>2, <2>3, <2>4, <2>5 DEF Generate
<1>11. ASSUME (\E w \in Workers : RunCall(w)) \/ Discovery \/ (\E t \in Servers : RunRelease(t))
       PROVE  Balanced(s)'
  <2>0. m = n
    <3>1. UNCHANGED <<winner, fellBack>>
      BY <1>11 DEF RunCall, RunWatch, RunIncrement, RunDecrement, RunSnapshot, RunDiscover,
           Discovery, DrainAcquire, DrainEnd, DrainRaises, RunRelease, locals
    <3> QED BY <1>6, <3>1
  <2>01. n \in Nat
    BY <1>5 DEF n
  <2>1. ASSUME NEW w \in Workers, RunCall(w) PROVE Balanced(s)'
    <3>1. UNCHANGED <<lb, releases>>
      BY <2>1 DEF RunCall, RunWatch, RunIncrement, RunDecrement, RunSnapshot, RunDiscover, balancer
    <3>2. CASE RunDiscover(w)
      <4>1. drain = Idle /\ \E r : drain' = [Idle EXCEPT !.asker = r, !.handles = known]
        BY <3>2 DEF RunDiscover, NextCall
      <4>2. drain'.acquired = drain.acquired
        BY <4>1 DEF Idle
      <4> QED BY <1>7, <1>8, <2>0, <3>1, <4>2
    <3>3. CASE ~RunDiscover(w)
      <4>1. UNCHANGED drain
        BY <2>1, <3>3 DEF RunCall, RunWatch, RunIncrement, RunDecrement, RunSnapshot, actor
      <4> QED BY <1>9, <2>0, <3>1, <4>1
    <3> QED BY <3>2, <3>3
  <2>2. CASE DrainAcquire
    <3>1. PICK t \in Servers : /\ lb' = [lb EXCEPT ![t] = @ + 1]
                               /\ drain' = [drain EXCEPT !.acquired[t] = @ + 1, !.tries = @ + 1,
                                                         !.handles = @ \cup {t}]
      BY <2>2 DEF DrainAcquire, LeastLoaded
    <3>2. drain \in Drains
      BY DEF Types, Shape
    <3>3. /\ drain'.acquired[t] = drain.acquired[t] + 1
          /\ \A u \in Servers : u # t => drain'.acquired[u] = drain.acquired[u]
      <4>1. Took(drain, drain', t)
        BY <3>1 DEF Took
      <4> QED BY <3>2, <4>1, DrainTakes
    <3>4. UNCHANGED releases
      BY <2>2 DEF DrainAcquire
    <3>5. CASE t = s
      <4>1. lb'[s] = lb[s] + 1 /\ drain'.acquired[s] = drain.acquired[s] + 1
        BY <1>0, <3>1, <3>3, <3>5
      <4> QED BY <1>3, <1>7, <1>8, <2>0, <2>01, <3>4, <4>1
    <3>6. CASE t # s
      <4>1. lb'[s] = lb[s] /\ drain'.acquired[s] = drain.acquired[s]
        BY <1>0, <3>1, <3>3, <3>6
      <4> QED BY <1>7, <1>8, <2>0, <3>4, <4>1
    <3> QED BY <3>5, <3>6
  <2>3. CASE DrainEnd
    <3>1. releases'[s] = releases[s] + drain.acquired[s] /\ UNCHANGED lb /\ drain' = Idle
      BY <2>3 DEF DrainEnd
    <3>2. drain'.acquired[s] = 0
      BY <3>1 DEF Idle, Zero
    <3> QED BY <1>7, <1>8, <2>0, <2>01, <3>1, <3>2
  <2>4. CASE DrainRaises
    BY <1>2, <2>4 DEF DrainRaises
  <2>5. ASSUME NEW t \in Servers, RunRelease(t) PROVE Balanced(s)'
    <3>1. /\ releases' = [releases EXCEPT ![t] = @ - 1] /\ lb' = [lb EXCEPT ![t] = @ - 1]
          /\ UNCHANGED drain
      BY <2>5 DEF RunRelease, actor
    <3>2. CASE t = s
      <4>1. releases'[s] = releases[s] - 1 /\ lb'[s] = lb[s] - 1
        BY <1>0, <3>1, <3>2
      <4> QED BY <1>3, <1>7, <1>8, <2>0, <2>01, <3>1, <4>1
    <3>3. CASE t # s
      <4>1. releases'[s] = releases[s] /\ lb'[s] = lb[s]
        BY <1>0, <3>1, <3>3
      <4> QED BY <1>7, <1>8, <2>0, <3>1, <4>1
    <3> QED BY <3>2, <3>3
  <2> QED BY <1>11, <2>1, <2>2, <2>3, <2>4, <2>5 DEF Discovery
<1>12. CASE UNCHANGED vars
  BY <1>6, <1>9, <1>12 DEF vars, actor, balancer, locals
<1> QED BY <1>10, <1>11, <1>12 DEF Next

----------------------------------------------------------------------------
(* How many calls a cut leaves *)

LEMMA CutsAre ==
    /\ Start0 \in [Workers -> Nat]
    /\ \A k \in [Workers -> Nat] : \A w \in Workers :
         Further(k, w) \in [Workers -> Nat] /\ Further(k, w)[w] = k[w] + 1
         /\ \A v \in Workers : v # w => Further(k, w)[v] = k[v]
BY DEF Start0, Further

LEMMA LaterFinite ==
    ASSUME NEW q, NEW c, NEW W, NEW k \in [Workers -> Nat], Finite(q, c)
    PROVE  IsFiniteSet(Later(q, c, W, k)) /\ Count(q, c, W, k) \in Nat
<1>1. Later(q, c, W, k) \subseteq Later(q, c, Workers, Start0)
  BY DEF Later, Start0
<1> QED BY <1>1, FS_Subset, FS_CardinalityType DEF Finite, Count

\* From queues to queues2, a call more is left if the new call d of w hits.
Counted(queues, queues2, w, d, c, W, k) ==
    /\ Hits(queues, w, d, c, W, k) => Count(queues2, c, W, k) = Count(queues, c, W, k) + 1
    /\ ~Hits(queues, w, d, c, W, k) => Count(queues2, c, W, k) = Count(queues, c, W, k)

LEMMA AddedCount ==
    ASSUME NEW q \in [Workers -> Seq(Calls)], NEW w \in Workers, NEW d \in Calls,
           NEW c, NEW W, NEW k \in [Workers -> Nat], Finite(q, c)
    PROVE  /\ Finite(WithCall(q, w, d), c)
           /\ Counted(q, WithCall(q, w, d), w, d, c, W, k)
<1> DEFINE r == WithCall(q, w, d)
<1>1. ASSUME NEW X, NEW l \in [Workers -> Nat]
      PROVE  /\ IsFiniteSet(Later(r, c, X, l))
             /\ Counted(q, r, w, d, c, X, l)
  <2> DEFINE A == Later(q, c, X, l)
             B == Later(r, c, X, l)
             p == Place(q, w)
  <2>1. IsFiniteSet(A)
    BY LaterFinite
  <2>2. /\ Hits(q, w, d, c, X, l) => Grown(A, B, p)
        /\ ~Hits(q, w, d, c, X, l) => B = A
    <3>1. Added(q, w, d, c, X, l)
      BY LaterAdded
    <3> QED BY <3>1 DEF Added
  <2> HIDE DEF A, B, p
  <2>3. CASE Hits(q, w, d, c, X, l)
    <3>1. IsFiniteSet(B) /\ Cardinality(B) = Cardinality(A) + 1
      BY <2>1, <2>2, <2>3, CountMore DEF Grown
    <3> QED BY <2>3, <3>1 DEF Count, A, B, Counted
  <2>4. CASE ~Hits(q, w, d, c, X, l)
    BY <2>1, <2>2, <2>4 DEF Count, A, B, Counted
  <2> QED BY <2>3, <2>4
<1> HIDE DEF r
<1>2. Finite(r, c)
  BY <1>1, CutsAre DEF Finite
<1> QED BY <1>1, <1>2 DEF r

LEMMA RunCount ==
    ASSUME NEW q \in [Workers -> Seq(Calls)], NEW w \in Workers, q[w] # << >>,
           NEW c, NEW W, NEW k \in [Workers -> Nat], Finite(q, c)
    PROVE  /\ Finite(WithoutFirst(q, w), c)
           /\ Count(WithoutFirst(q, w), c, W, k) = Count(q, c, W, Further(k, w))
<1>1. ASSUME NEW X, NEW l \in [Workers -> Nat]
      PROVE  /\ IsFiniteSet(Later(WithoutFirst(q, w), c, X, l))
             /\ Count(WithoutFirst(q, w), c, X, l) = Count(q, c, X, Further(l, w))
  <2>1. IsFiniteSet(Later(q, c, X, Further(l, w)))
    BY LaterFinite, CutsAre
  <2>2. SameNumber(Later(q, c, X, Further(l, w)), Later(WithoutFirst(q, w), c, X, l))
    BY <2>1, LaterRun
  <2> QED BY <2>2 DEF Count, SameNumber
<1>2. Finite(WithoutFirst(q, w), c)
  BY <1>1, CutsAre DEF Finite
<1> QED BY <1>1, <1>2

LEMMA FirstCount ==
    ASSUME NEW q \in [Workers -> Seq(Calls)], NEW w \in Workers, q[w] # << >>,
           NEW c, Finite(q, c)
    PROVE  /\ Head(q[w]) = c =>
                Count(q, c, Workers, Start0) = Count(q, c, Workers, Further(Start0, w)) + 1
           /\ Head(q[w]) # c =>
                Count(q, c, Workers, Start0) = Count(q, c, Workers, Further(Start0, w))
<1> DEFINE A == Later(q, c, Workers, Further(Start0, w))
           B == Later(q, c, Workers, Start0)
           p == <<w, 1>>
<1>1. Start0 \in [Workers -> Nat] /\ Start0[w] = 0
  BY DEF Start0
<1>2. IsFiniteSet(A)
  BY LaterFinite, CutsAre
<1>3. /\ Head(q[w]) = c /\ w \in Workers => Grown(A, B, p)
      /\ ~(Head(q[w]) = c /\ w \in Workers) => B = A
  BY <1>1, LaterFirst
<1> HIDE DEF A, B, p
<1>4. ASSUME Head(q[w]) = c PROVE Cardinality(B) = Cardinality(A) + 1
  BY <1>2, <1>3, <1>4, CountMore DEF Grown
<1> QED BY <1>3, <1>4 DEF Count, A, B

\* Cuts behind all calls of w.
LEMMA BeyondCount ==
    ASSUME NEW q \in [Workers -> Seq(Calls)], NEW w \in Workers, NEW c, NEW W,
           NEW k \in [Workers -> Nat], k[w] >= Len(q[w])
    PROVE  Count(q, c, W, k) = Count(q, c, Others(W, w), k)
<1>1. Later(q, c, W, k) = Later(q, c, Others(W, w), k)
  BY LaterBeyond
<1> QED BY <1>1 DEF Count

LEMMA OnTheWayIs ==
    ASSUME Types, NEW name, NEW s
    PROVE  OnTheWay(name, s) = Later(calls, [call |-> name, arg |-> s], Workers, Start0)
<1> DEFINE c == [call |-> name, arg |-> s]
           places(w) == {i \in DOMAIN calls[w] : calls[w][i] = c}
<1>1. OnTheWay(name, s) = UNION {{w} \X places(w) : w \in Workers}
  BY DEF OnTheWay
<1>2. \A w \in Workers : calls[w] \in Seq(Calls) /\ Start0[w] = 0
  BY DEF Types, Shape, Start0
<1>3. \A w \in Workers : DOMAIN calls[w] \subseteq Nat \ {0}
  BY <1>2, LenProperties
<1> HIDE DEF c
<1>4. ASSUME NEW p \in Later(calls, c, Workers, Start0) PROVE p \in UNION {{w} \X places(w) : w \in Workers}
  <2>1. PICK v \in Workers, i \in Nat \ {0} : p = <<v, i>>
    BY LaterIsPair
  <2>2. i \in places(v)
    BY <2>1, InLater DEF Left
  <2> QED BY <2>1, <2>2
<1>5. ASSUME NEW p \in UNION {{w} \X places(w) : w \in Workers} PROVE p \in Later(calls, c, Workers, Start0)
  <2>1. PICK v \in Workers : p \in {v} \X places(v)
    OBVIOUS
  <2>2. PICK i \in places(v) : p = <<v, i>>
    BY <2>1
  <2>3. i \in Nat \ {0} /\ i > Start0[v]
    BY <1>2, <1>3, <2>2
  <2> QED BY <2>2, <2>3, InLater DEF Left
<1>6. UNION {{w} \X places(w) : w \in Workers} = Later(calls, c, Workers, Start0)
  BY <1>4, <1>5
<1> QED BY <1>1, <1>6 DEF c

----------------------------------------------------------------------------
(* The counts *)

AllAwaited(V, k) == \A w \in V : Awaited(w, k[w])

\* The dispatches of w's scheduler on s.
Own(s, w) == {q \in RunningOn(s) : WorkerOf[q] = w /\ ~fellBack[q]}

Conserved(s) ==
    inflight[s] + Count(calls, Increment(s), Workers, Start0) =
        Cardinality(RunningOn(s)) + Count(calls, Decrement(s), Workers, Start0)

Counts == FiniteCalls /\ IncrementsBacked /\ CountsConserved /\ OwnDispatchesSeen

LEMMA ConservedIs == Types => (CountsConserved <=> \A s \in Servers : Conserved(s))
<1> SUFFICES ASSUME Types PROVE CountsConserved <=> \A s \in Servers : Conserved(s)
  OBVIOUS
<1>1. ASSUME NEW s \in Servers
      PROVE  /\ Cardinality(OnTheWay("increment", s)) = Count(calls, Increment(s), Workers, Start0)
             /\ Cardinality(OnTheWay("decrement", s)) = Count(calls, Decrement(s), Workers, Start0)
  BY OnTheWayIs DEF Count, Increment, Decrement
<1> QED BY <1>1 DEF CountsConserved, Conserved

LEMMA ConservedNext == Types' => (CountsConserved' <=> (\A s \in Servers : Conserved(s))')
BY ConservedIs, PTL

\* Everything that is counted is a natural number.
LEMMA NumbersAre ==
    ASSUME Types, FiniteCalls, NEW s \in Servers, NEW W, NEW V, NEW k \in [Workers -> Nat]
    PROVE  /\ Count(calls, Increment(s), W, k) \in Nat
           /\ Count(calls, Decrement(s), W, k) \in Nat
           /\ IsFiniteSet(Backing(s, W, V)) /\ Cardinality(Backing(s, W, V)) \in Nat
           /\ IsFiniteSet(RunningOn(s)) /\ Cardinality(RunningOn(s)) \in Nat
           /\ inflight[s] \in Nat
<1>1. Backing(s, W, V) \subseteq Requests /\ RunningOn(s) \subseteq Requests
  BY DEF Backing, RunningOn
<1>2. inflight[s] \in Nat
  BY DEF Types, CountersTyped
<1> QED BY <1>1, <1>2, CountIs, LaterFinite DEF FiniteCalls

\* A decrement is no increment.
LEMMA CallsDiffer ==
    /\ \A s, t : Increment(s) # Decrement(t)
    /\ \A s, t : Increment(s) = Increment(t) => s = t
    /\ \A s, t : Decrement(s) = Decrement(t) => s = t
<1>1. \A s : Increment(s).call = "increment" /\ Increment(s).arg = s
  BY DEF Increment
<1>2. \A s : Decrement(s).call = "decrement" /\ Decrement(s).arg = s
  BY DEF Decrement
<1> QED BY <1>1, <1>2

\* What waits for a snapshot, waited for it before.
NoNewWaits == \A r \in Requests : pc'[r] = "asking" => pc[r] = "asking"

LEMMA QuietCounts ==
    ASSUME Types, Counts, UNCHANGED <<calls, winner, fellBack, inflight>>, NoNewWaits,
           \A r \in Requests : pc'[r] = "deciding" => pc[r] = "deciding" /\ snapshot'[r] = snapshot[r]
    PROVE  Counts'
<1>1. FiniteCalls'
  BY DEF Counts, FiniteCalls
<1>2. \A s : RunningOn(s)' = RunningOn(s)
  BY DEF RunningOn
<1>3. \A s, W, V : Backing(s, W, V)' = Backing(s, W, V)
  BY <1>2 DEF Backing
<1>4. \A w \in Workers : \A n : Awaited(w, n)' => Awaited(w, n)
  <2> TAKE w \in Workers
  <2> TAKE n
  <2> HAVE Awaited(w, n)'
  <2>1. PICK j \in DOMAIN calls[w] : j <= n /\ calls[w][j].call = "snapshot" /\ pc'[calls[w][j].arg] = "asking"
    BY DEF Awaited
  <2>2. calls[w][j].arg \in Requests
    BY <2>1 DEF Types, CallsTyped, Typed
  <2> QED BY <2>1, <2>2 DEF NoNewWaits, Awaited
<1>5. IncrementsBacked'
  BY <1>3, <1>4 DEF Counts, IncrementsBacked, Backed
<1>6. CountsConserved'
  BY <1>2 DEF Counts, CountsConserved, OnTheWay
<1>7. OwnDispatchesSeen'
  BY <1>2 DEF Counts, OwnDispatchesSeen
<1> QED BY <1>1, <1>5, <1>6, <1>7 DEF Counts

\* A new call of w that is not for a snapshot makes nothing awaited.
LEMMA AwaitedNewCall ==
    ASSUME Types, NEW w, NEW c, NewCall(w, c), NEW v \in Workers, NEW n \in Nat, Awaited(v, n)',
           \A r \in Requests : pc'[r] = "asking" => pc[r] = "asking" \/ (Asks(c, r) /\ SnapshotsOnce /\ pc[r] = "locking")
    PROVE  Awaited(v, n) \/ (v = w /\ c.call = "snapshot" /\ n > Len(calls[w]))
<1>1. calls \in [Workers -> Seq(Calls)] /\ w \in Workers /\ c \in Calls /\ CallsTyped
  BY DEF Types, Shape, NewCall
<1> DEFINE q == WithCall(calls, w, c)
           m == Len(calls[w])
<1>2. /\ \A u \in Workers : u # w => q[u] = calls[u]
      /\ m \in Nat /\ DOMAIN calls[w] = 1..m
      /\ DOMAIN q[w] = 1..(m + 1)
      /\ \A i \in 1..m : q[w][i] = calls[w][i]
      /\ q[w][m + 1] = c
  BY <1>1, CallAdded
<1>3. calls' = q
  BY DEF NewCall
<1> HIDE DEF q, m
<1>4. PICK j \in DOMAIN q[v] : j <= n /\ q[v][j].call = "snapshot" /\ pc'[q[v][j].arg] = "asking"
  BY <1>3 DEF Awaited
<1>5. CASE v = w /\ j = m + 1
  <2>1. n > m /\ c.call = "snapshot"
    BY <1>2, <1>4, <1>5
  <2> QED BY <1>5, <2>1 DEF m
<1>6. CASE ~(v = w /\ j = m + 1)
  <2>1. j \in DOMAIN calls[v] /\ q[v][j] = calls[v][j]
    BY <1>2, <1>6
  <2>2. PICK r \in Requests : r = calls[v][j].arg
    BY <1>1, <1>4, <2>1 DEF CallsTyped, Typed
  <2>3. Asks(calls[v][j], r)
    BY <1>4, <2>1, <2>2 DEF Asks
  <2>4. pc[r] = "asking"
    <3>1. CASE SnapshotsOnce
      <4>1. pc[r] \in {"asking", "done"}
        BY <2>1, <2>3, <3>1, SnapshotsAre
      <4> QED BY <1>4, <2>1, <2>2, <4>1
    <3> QED BY <1>4, <2>1, <2>2, <3>1
  <2> QED BY <1>4, <2>1, <2>2, <2>4 DEF Awaited
<1> QED BY <1>5, <1>6

\* The counts of a cut after a new call.
LEMMA NewCallCount ==
    ASSUME Types, FiniteCalls, NEW w, NEW d, NewCall(w, d), NEW s \in Servers,
           NEW c \in {Increment(s), Decrement(s)}, NEW W, NEW k \in [Workers -> Nat]
    PROVE  /\ Finite(calls', c)
           /\ Counted(calls, calls', w, d, c, W, k)
<1>1. calls \in [Workers -> Seq(Calls)] /\ w \in Workers /\ d \in Calls /\ Finite(calls, c)
  BY DEF Types, Shape, NewCall, FiniteCalls
<1> DEFINE q == WithCall(calls, w, d)
<1>2. Finite(q, c) /\ Counted(calls, q, w, d, c, W, k)
  BY <1>1, AddedCount
<1>3. calls' = q
  BY DEF NewCall
<1> HIDE DEF q
<1> QED BY <1>2, <1>3

\* A generation asks the actor for something that is no increment and no decrement.
LEMMA AskCounts ==
    ASSUME Types, Types', Counts, SnapshotsOnce, NEW w, NEW d, NewCall(w, d),
           \A s : d # Increment(s) /\ d # Decrement(s),
           UNCHANGED <<winner, fellBack, inflight, snapshot>>,
           \A r \in Requests : pc'[r] = "asking" => pc[r] = "asking" \/ (Asks(d, r) /\ SnapshotsOnce /\ pc[r] = "locking"),
           \A r \in Requests : pc'[r] = "deciding" => pc[r] = "deciding"
    PROVE  Counts'
<1>0. /\ FiniteCalls /\ IncrementsBacked /\ CountsConserved /\ OwnDispatchesSeen
      /\ w \in Workers /\ calls \in [Workers -> Seq(Calls)]
  BY DEF Counts, NewCall, Types, Shape
<1>1. \A s \in Servers : \A c \in {Increment(s), Decrement(s)} : \A W : \A k \in [Workers -> Nat] :
        Finite(calls', c) /\ Count(calls', c, W, k) = Count(calls, c, W, k)
  <2> SUFFICES ASSUME NEW s \in Servers, NEW c \in {Increment(s), Decrement(s)}, NEW W,
                      NEW k \in [Workers -> Nat]
               PROVE  Finite(calls', c) /\ Count(calls', c, W, k) = Count(calls, c, W, k)
    OBVIOUS
  <2>1. Finite(calls', c) /\ Counted(calls, calls', w, d, c, W, k)
    BY <1>0, NewCallCount
  <2>2. ~Hits(calls, w, d, c, W, k)
    BY DEF Hits
  <2> QED BY <2>1, <2>2 DEF Counted
<1>2. FiniteCalls'
  BY <1>1, CutsAre DEF FiniteCalls
<1>3. \A s : RunningOn(s)' = RunningOn(s)
  BY DEF RunningOn
<1>4. \A s, W, V : Backing(s, W, V)' = Backing(s, W, V)
  BY <1>3 DEF Backing
<1>5. ASSUME NEW s \in Servers, NEW W \in SUBSET Workers, NEW V \in SUBSET W, NEW k \in [Workers -> Nat],
             AllAwaited(V, k)'
      PROVE  Backed(s, W, V, k)'
  <2>1. SUFFICES Backed(s, W, V, k)
    BY <1>1, <1>4 DEF Backed
  <2>2. \A v \in V : Awaited(v, k[v]) \/ (v = w /\ k[w] > Len(calls[w]))
    BY <1>5, AwaitedNewCall DEF AllAwaited
  <2>3. CASE \A v \in V : Awaited(v, k[v])
    BY <1>0, <2>3 DEF IncrementsBacked
  <2>4. CASE ~\A v \in V : Awaited(v, k[v])
    <3>a. k[w] > Len(calls[w])
      BY <2>2, <2>4
    <3>4. k[w] >= Len(calls[w])
      BY <1>0, <3>a, LenProperties
    <3>b. w \in Workers /\ calls \in [Workers -> Seq(Calls)]
      BY <1>0
    <3>c. ASSUME NEW c PROVE Count(calls, c, W, k) = Count(calls, c, Others(W, w), k)
      BY ONLY <3>4, <3>b, k \in [Workers -> Nat], BeyondCount
    <3> DEFINE X == Others(W, w)
               U == V \ {w}
    <3>1. \A v \in U : Awaited(v, k[v])
      BY <2>2, <2>4
    <3>2. X \in SUBSET Workers /\ U \in SUBSET X
      BY DEF Others
    <3>3. Backed(s, X, U, k)
      BY <1>0, <3>1, <3>2 DEF IncrementsBacked
    <3>5. /\ Count(calls, Increment(s), W, k) = Count(calls, Increment(s), X, k)
          /\ Count(calls, Decrement(s), W, k) = Count(calls, Decrement(s), X, k)
      BY <3>c
    <3>6. Backing(s, X, U) \subseteq Backing(s, W, V)
      BY DEF Backing, Others
    <3> HIDE DEF X, U
    <3>7. /\ Cardinality(Backing(s, X, U)) <= Cardinality(Backing(s, W, V))
          /\ Cardinality(Backing(s, X, U)) \in Nat /\ Cardinality(Backing(s, W, V)) \in Nat
          /\ Count(calls, Increment(s), X, k) \in Nat /\ Count(calls, Decrement(s), X, k) \in Nat
      BY <1>0, <3>6, NumbersAre, FS_Subset
    <3> QED BY <3>3, <3>5, <3>7 DEF Backed
  <2> QED BY <2>3, <2>4
<1>6. IncrementsBacked'
  BY <1>5 DEF IncrementsBacked, AllAwaited
<1>7. CountsConserved'
  <2>1. \A s \in Servers : Conserved(s)'
    BY <1>0, <1>1, <1>3, ConservedIs, CutsAre DEF Conserved
  <2> QED BY <2>1, ConservedNext
<1>8. OwnDispatchesSeen'
  BY <1>0, <1>3 DEF OwnDispatchesSeen
<1> QED BY <1>2, <1>6, <1>7, <1>8 DEF Counts

\* Two generations of one worker do not both hold its lock.
LEMMA OneHolder ==
    ASSUME Locks, NEW q \in Requests, NEW r \in Requests, WorkerOf[q] = WorkerOf[r],
           pc[q] \in {"asking", "deciding"}, pc[r] \in {"asking", "deciding"}
    PROVE  q = r
BY DEF Locks, LockDiscipline, HoldsLock

LEMMA AwaitedIs ==
    ASSUME Types, NEW w \in Workers, NEW n, Awaited(w, n)
    PROVE  \E q \in Requests : WorkerOf[q] = w /\ pc[q] = "asking"
<1>1. PICK j \in DOMAIN calls[w] : calls[w][j].call = "snapshot" /\ pc[calls[w][j].arg] = "asking"
  BY DEF Awaited
<1> QED BY <1>1 DEF Types, CallsTyped, Typed

\* A generation starts to run: its increment is on its way.  The scheduler's holds the
\* lock, so nobody of its worker waits for a snapshot.
Dispatch(r, s, balancers) ==
    /\ NewCall(WorkerOf[r], Increment(s))
    /\ winner' = [winner EXCEPT ![r] = s]
    /\ IF balancers THEN fellBack' = [fellBack EXCEPT ![r] = TRUE] ELSE UNCHANGED fellBack
    /\ balancers \/ (pc[r] = "deciding" /\ ~fellBack[r])
    /\ winner[r] \notin Servers
    /\ pc'[r] = "running"
    /\ UNCHANGED inflight
    /\ \A x \in Requests : x # r => pc'[x] = pc[x] /\ snapshot'[x] = snapshot[x]

LEMMA DispatchCounts ==
    ASSUME Types, Types', Locks, Counts, NEW r \in Requests, NEW t \in Servers,
           NEW balancers \in {TRUE, FALSE}, Dispatch(r, t, balancers)
    PROVE  Counts'
<1> DEFINE w == WorkerOf[r]
           d == Increment(t)
<1>0. /\ FiniteCalls /\ IncrementsBacked /\ CountsConserved /\ OwnDispatchesSeen
      /\ w \in Workers /\ calls \in [Workers -> Seq(Calls)] /\ NewCall(w, d)
      /\ winner \in [Requests -> Servers \cup {None}] /\ fellBack \in [Requests -> BOOLEAN]
      /\ None \notin Servers
  BY FleetAssumption DEF Counts, NewCall, Types, Shape, Dispatch, None
<1>a. /\ winner' = [winner EXCEPT ![r] = t] /\ winner[r] \notin Servers
      /\ balancers => fellBack' = [fellBack EXCEPT ![r] = TRUE]
      /\ ~balancers => fellBack' = fellBack /\ pc[r] = "deciding" /\ ~fellBack[r]
      /\ pc'[r] = "running" /\ inflight' = inflight
      /\ \A x \in Requests : x # r => pc'[x] = pc[x] /\ snapshot'[x] = snapshot[x]
  BY DEF Dispatch
<1> HIDE DEF w, d
<1>1. ASSUME NEW s \in Servers, NEW c \in {Increment(s), Decrement(s)}, NEW W, NEW k \in [Workers -> Nat]
      PROVE  /\ Finite(calls', c)
             /\ Counted(calls, calls', w, d, c, W, k)
  BY <1>0, NewCallCount
<1>2. FiniteCalls'
  BY <1>1, CutsAre DEF FiniteCalls
<1>3. ASSUME NEW s \in Servers, NEW W, NEW k \in [Workers -> Nat]
      PROVE  Count(calls', Decrement(s), W, k) = Count(calls, Decrement(s), W, k)
  <2>1. ~Hits(calls, w, d, Decrement(s), W, k)
    BY CallsDiffer DEF Hits, d
  <2> QED BY <1>1, <2>1 DEF Counted
<1>4. ASSUME NEW s \in Servers, NEW W, NEW k \in [Workers -> Nat], s # t \/ w \notin W
      PROVE  Count(calls', Increment(s), W, k) = Count(calls, Increment(s), W, k)
  <2>1. ~Hits(calls, w, d, Increment(s), W, k)
    BY <1>4, CallsDiffer DEF Hits, d
  <2> QED BY <1>1, <2>1 DEF Counted
<1>5. ASSUME NEW W, NEW k \in [Workers -> Nat]
      PROVE  Count(calls', Increment(t), W, k) \in {Count(calls, Increment(t), W, k), Count(calls, Increment(t), W, k) + 1}
  BY <1>1 DEF Counted
<1>6. Count(calls', Increment(t), Workers, Start0) = Count(calls, Increment(t), Workers, Start0) + 1
  <2>1. Start0 \in [Workers -> Nat] /\ Start0[w] = 0
    BY <1>0 DEF Start0
  <2>2. Start0[w] <= Len(calls[w])
    BY <1>0, <2>1, LenProperties
  <2>3. Hits(calls, w, d, Increment(t), Workers, Start0)
    BY <1>0, <2>2 DEF Hits, d
  <2> QED BY <1>1, <2>1, <2>3 DEF Counted
<1>7. /\ \A s \in Servers : s # t => RunningOn(s)' = RunningOn(s)
      /\ RunningOn(t)' = RunningOn(t) \cup {r} /\ r \notin RunningOn(t)
  BY <1>0, <1>a DEF RunningOn
<1>8. ASSUME NEW s \in Servers, NEW W, NEW V, s # t \/ w \notin W
      PROVE  Backing(s, W, V)' = Backing(s, W, V)
  <2>1. CASE s # t
    <3>1. r \notin RunningOn(s)
      BY <1>a DEF RunningOn
    <3>2. \A q \in RunningOn(s) : q # r /\ fellBack'[q] = fellBack[q]
      BY <1>0, <1>a, <3>1 DEF RunningOn
    <3> QED BY <1>7, <2>1, <3>2 DEF Backing
  <2>2. CASE s = t /\ w \notin W
    <3>1. \A q \in RunningOn(s) : q # r /\ fellBack'[q] = fellBack[q]
      BY <1>0, <1>a, <1>7, <2>2 DEF RunningOn
    <3> QED BY <1>7, <2>2, <3>1 DEF Backing, w
  <2> QED BY <1>8, <2>1, <2>2
<1>9. ASSUME NEW W, NEW V, w \in W, w \in V => balancers
      PROVE  Backing(t, W, V)' = Backing(t, W, V) \cup {r} /\ r \notin Backing(t, W, V)
  <2>1. \A q \in RunningOn(t) : q # r /\ fellBack'[q] = fellBack[q]
    BY <1>0, <1>a, <1>7 DEF RunningOn
  <2>2. WorkerOf[r] \in W /\ (WorkerOf[r] \in V => fellBack'[r])
    BY <1>0, <1>a, <1>9 DEF w
  <2> QED BY <1>7, <2>1, <2>2 DEF Backing
<1>10. ASSUME NEW v \in Workers, NEW n \in Nat, Awaited(v, n)'
       PROVE  Awaited(v, n) /\ (v = w => balancers)
  <2>1. \A x \in Requests : pc'[x] = "asking" => pc[x] = "asking" \/ (Asks(d, x) /\ SnapshotsOnce /\ pc[x] = "locking")
    BY <1>a
  <2>2. d.call # "snapshot"
    BY DEF d, Increment
  <2>3. Awaited(v, n)
    BY <1>0, <1>10, <2>1, <2>2, AwaitedNewCall
  <2>4. ASSUME v = w, ~balancers PROVE FALSE
    <3>1. PICK q \in Requests : WorkerOf[q] = v /\ pc[q] = "asking"
      BY <2>3, AwaitedIs
    <3>2. q = r
      BY <1>a, <2>4, <3>1, OneHolder DEF w
    <3> QED BY <1>a, <2>4, <3>1, <3>2
  <2> QED BY <2>3, <2>4
<1>11. ASSUME NEW s \in Servers, NEW W \in SUBSET Workers, NEW V \in SUBSET W, NEW k \in [Workers -> Nat],
             AllAwaited(V, k)'
       PROVE  Backed(s, W, V, k)'
  <2>1. \A v \in V : Awaited(v, k[v]) /\ (v = w => balancers)
    BY <1>10, <1>11 DEF AllAwaited
  <2>2. Backed(s, W, V, k)
    BY <1>0, <2>1 DEF IncrementsBacked
  <2>3. CASE s # t \/ w \notin W
    BY <1>3, <1>4, <1>8, <2>2, <2>3 DEF Backed
  <2>4. CASE s = t /\ w \in W
    <3>1. Backing(t, W, V)' = Backing(t, W, V) \cup {r} /\ r \notin Backing(t, W, V)
      BY <1>9, <2>1, <2>4
    <3>2. /\ IsFiniteSet(Backing(t, W, V)) /\ Cardinality(Backing(t, W, V)) \in Nat
          /\ Count(calls, Increment(t), W, k) \in Nat /\ Count(calls, Decrement(t), W, k) \in Nat
      BY <1>0, NumbersAre
    <3>3. Cardinality(Backing(t, W, V)') = Cardinality(Backing(t, W, V)) + 1
      BY <3>1, <3>2, CountMore
    <3>4. Count(calls', Increment(t), W, k) <= Count(calls, Increment(t), W, k) + 1
      BY <1>5, <3>2
    <3>5. Count(calls', Increment(t), W, k) \in Nat
      BY <1>5, <3>2
    <3>6. Count(calls', Increment(t), W, k) <= Cardinality(Backing(t, W, V)') + Count(calls', Decrement(t), W, k)
      BY <1>3, <2>2, <2>4, <3>2, <3>3, <3>4, <3>5 DEF Backed
    <3> QED BY <2>4, <3>6 DEF Backed
  <2> QED BY <2>3, <2>4
<1>12. IncrementsBacked'
  BY <1>11 DEF IncrementsBacked, AllAwaited
<1>13. CountsConserved'
  <2>1. ASSUME NEW s \in Servers PROVE Conserved(s)'
    <3>1. Conserved(s)
      BY <1>0, ConservedIs
    <3>2. CASE s # t
      BY <1>a, <1>3, <1>4, <1>7, <3>1, <3>2, CutsAre DEF Conserved
    <3>3. CASE s = t
      <4>1. /\ IsFiniteSet(RunningOn(t)) /\ Cardinality(RunningOn(t)) \in Nat /\ inflight[t] \in Nat
            /\ Count(calls, Increment(t), Workers, Start0) \in Nat
            /\ Count(calls, Decrement(t), Workers, Start0) \in Nat
        BY <1>0, NumbersAre, CutsAre
      <4>2. Cardinality(RunningOn(t)') = Cardinality(RunningOn(t)) + 1
        BY <1>7, <4>1, CountMore
      <4>3. Count(calls', Decrement(t), Workers, Start0) = Count(calls, Decrement(t), Workers, Start0)
        BY <1>3, CutsAre
      <4> QED BY <1>a, <1>6, <3>1, <3>3, <4>1, <4>2, <4>3 DEF Conserved
    <3> QED BY <3>2, <3>3
  <2> QED BY <2>1, ConservedNext
<1>14. OwnDispatchesSeen'
  <2> SUFFICES ASSUME NEW x \in Requests, pc'[x] = "deciding", NEW s \in Servers
               PROVE  snapshot'[x][s] >= Cardinality(Own(s, WorkerOf[x])')
    BY DEF OwnDispatchesSeen, Own
  <2>1. x # r /\ pc[x] = "deciding" /\ snapshot'[x] = snapshot[x]
    BY <1>a
  <2>2. snapshot[x][s] >= Cardinality(Own(s, WorkerOf[x]))
    BY <1>0, <2>1 DEF OwnDispatchesSeen, Own
  <2>3. WorkerOf[x] = w => balancers
    <3>1. ASSUME WorkerOf[x] = w, ~balancers PROVE FALSE
      BY <1>a, <2>1, <3>1, OneHolder DEF w
    <3> QED BY <3>1
  <2>4. ~(WorkerOf[r] = WorkerOf[x] /\ ~fellBack'[r])
    BY <1>0, <1>a, <2>3 DEF w
  <2>5. r \notin RunningOn(s)
    BY <1>a DEF RunningOn
  <2>6. \A q \in RunningOn(s) : q # r /\ fellBack'[q] = fellBack[q]
    BY <1>0, <1>a, <2>5 DEF RunningOn
  <2>7. Own(s, WorkerOf[x])' = Own(s, WorkerOf[x])
    <3>1. CASE s # t
      BY <1>7, <2>6, <3>1 DEF Own
    <3>2. CASE s = t
      BY <1>7, <2>4, <2>6, <3>2 DEF Own
    <3> QED BY <3>1, <3>2
  <2> QED BY <2>1, <2>2, <2>7
<1> QED BY <1>2, <1>12, <1>13, <1>14 DEF Counts

\* A generation ends: its decrement is on its way.
LEMMA CompleteCounts ==
    ASSUME Types, Types', Counts, NEW r \in Requests, Complete(r)
    PROVE  Counts'
<1>b. PICK t \in Servers : t = winner[r]
  BY DEF Complete, Types, WinnersTyped
<1> DEFINE w == WorkerOf[r]
           d == Decrement(t)
<1>0. /\ FiniteCalls /\ IncrementsBacked /\ CountsConserved /\ OwnDispatchesSeen
      /\ w \in Workers /\ calls \in [Workers -> Seq(Calls)]
      /\ winner \in [Requests -> Servers \cup {None}] /\ fellBack \in [Requests -> BOOLEAN]
      /\ pc \in [Requests -> Stages] /\ None \notin Servers
  BY FleetAssumption DEF Counts, Types, Shape, None
<1>a. /\ winner' = [winner EXCEPT ![r] = None] /\ pc[r] = "running"
      /\ fellBack' = [fellBack EXCEPT ![r] = FALSE]
      /\ pc' = [pc EXCEPT ![r] = "done"] /\ inflight' = inflight /\ snapshot' = snapshot
  BY DEF Complete, Goto, actor
<1>c. NewCall(w, d)
  <2>1. calls' = WithCall(calls, w, d)
    BY <1>b DEF Complete, ReleaseServer, Call, WithCall, Decrement
  <2> QED BY <1>0, <1>b, <2>1 DEF NewCall, Typed, Calls, Decrement
<1>d. t = winner[r] /\ w = WorkerOf[r]
  BY <1>b
<1> HIDE DEF w, d
<1>1. ASSUME NEW s \in Servers, NEW c \in {Increment(s), Decrement(s)}, NEW W, NEW k \in [Workers -> Nat]
      PROVE  /\ Finite(calls', c)
             /\ Counted(calls, calls', w, d, c, W, k)
  BY <1>0, <1>c, NewCallCount
<1>2. FiniteCalls'
  BY <1>1, CutsAre DEF FiniteCalls
<1>3. ASSUME NEW s \in Servers, NEW W, NEW k \in [Workers -> Nat]
      PROVE  Count(calls', Increment(s), W, k) = Count(calls, Increment(s), W, k)
  <2>1. ~Hits(calls, w, d, Increment(s), W, k)
    BY CallsDiffer DEF Hits, d
  <2> QED BY <1>1, <2>1 DEF Counted
<1>4. ASSUME NEW s \in Servers, NEW W, NEW k \in [Workers -> Nat], s # t \/ w \notin W \/ ~(k[w] <= Len(calls[w]))
      PROVE  Count(calls', Decrement(s), W, k) = Count(calls, Decrement(s), W, k)
  <2>1. ~Hits(calls, w, d, Decrement(s), W, k)
    BY <1>4, CallsDiffer DEF Hits, d
  <2> QED BY <1>1, <2>1 DEF Counted
<1>5. ASSUME NEW W, NEW k \in [Workers -> Nat], w \in W, k[w] <= Len(calls[w])
      PROVE  Count(calls', Decrement(t), W, k) = Count(calls, Decrement(t), W, k) + 1
  <2>1. Hits(calls, w, d, Decrement(t), W, k)
    BY <1>5 DEF Hits, d
  <2> QED BY <1>1, <1>b, <2>1 DEF Counted
<1>6. /\ \A s \in Servers : s # t => RunningOn(s)' = RunningOn(s)
      /\ RunningOn(t)' = RunningOn(t) \ {r} /\ r \in RunningOn(t)
  <2>1. winner'[r] = None /\ \A x \in Requests : x # r => winner'[x] = winner[x]
    BY <1>0, <1>a
  <2>2. \A s \in Servers : None # s
    BY <1>0
  <2>3. ASSUME NEW s \in Servers, s # t PROVE RunningOn(s)' = RunningOn(s)
    BY <1>d, <2>1, <2>2, <2>3 DEF RunningOn
  <2>4. RunningOn(t)' = RunningOn(t) \ {r}
    BY <1>b, <2>1, <2>2 DEF RunningOn
  <2>5. r \in RunningOn(t)
    BY <1>d DEF RunningOn
  <2> QED BY <2>3, <2>4, <2>5
<1>7. ASSUME NEW s \in Servers PROVE \A q \in RunningOn(s)' : q \in RunningOn(s) /\ q # r /\ fellBack'[q] = fellBack[q]
  BY <1>0, <1>a, <1>d, <1>6 DEF RunningOn
<1>8. ASSUME NEW s \in Servers PROVE \A q \in RunningOn(s) : q # r => q \in RunningOn(s)' /\ fellBack'[q] = fellBack[q]
  BY <1>0, <1>a, <1>d, <1>6 DEF RunningOn
<1>9. ASSUME NEW s \in Servers, NEW W, NEW V, s # t \/ w \notin W
      PROVE  Backing(s, W, V)' = Backing(s, W, V)
  <2>1. \A q \in RunningOn(s) : WorkerOf[q] \in W => q # r
    BY <1>0, <1>9, <1>d DEF RunningOn
  <2> QED BY <1>7, <1>8, <2>1 DEF Backing
<1>10. ASSUME NEW v \in Workers, NEW n \in Nat, Awaited(v, n)'
       PROVE  Awaited(v, n)
  <2>1. \A x \in Requests : pc'[x] = "asking" => pc[x] = "asking" \/ (Asks(d, x) /\ SnapshotsOnce /\ pc[x] = "locking")
    BY <1>0, <1>a
  <2>2. d.call # "snapshot"
    BY DEF d, Decrement
  <2> QED BY <1>c, <1>10, <2>1, <2>2, AwaitedNewCall
<1>11. ASSUME NEW s \in Servers, NEW W \in SUBSET Workers, NEW V \in SUBSET W, NEW k \in [Workers -> Nat],
             AllAwaited(V, k)'
       PROVE  Backed(s, W, V, k)'
  <2>1. \A v \in V : Awaited(v, k[v])
    BY <1>10, <1>11 DEF AllAwaited
  <2>2. Backed(s, W, V, k)
    BY <1>0, <2>1 DEF IncrementsBacked
  <2>3. CASE s # t \/ w \notin W
    BY <1>3, <1>4, <1>9, <2>2, <2>3 DEF Backed
  <2>4. /\ Count(calls, Increment(s), W, k) \in Nat /\ Count(calls, Decrement(s), W, k) \in Nat
        /\ IsFiniteSet(Backing(s, W, V)) /\ Cardinality(Backing(s, W, V)) \in Nat
    BY <1>0, NumbersAre
  <2>5. IsFiniteSet(Backing(s, W, V)') /\ Cardinality(Backing(s, W, V)') \in Nat
    <3>1. Backing(s, W, V)' \subseteq Requests
      BY DEF Backing, RunningOn
    <3> QED BY <3>1, CountIs
  <2>6. CASE s = t /\ w \in W /\ k[w] <= Len(calls[w])
    <3>1. Backing(s, W, V) \subseteq Backing(s, W, V)' \cup {r}
      BY <1>8 DEF Backing
    <3> DEFINE A == Backing(s, W, V)
               B == Backing(s, W, V)'
    <3> HIDE DEF A, B
    <3>2. IsFiniteSet(B) /\ Cardinality(B) \in Nat /\ Cardinality(A) \in Nat /\ A \subseteq B \cup {r}
      BY <2>4, <2>5, <3>1 DEF A, B
    <3> DEFINE C == B \cup {r}
    <3>3. IsFiniteSet(C) /\ Cardinality(C) <= Cardinality(B) + 1
      <4>1. CASE r \in B
        <5>1. C = B
          BY <4>1
        <5> HIDE DEF C
        <5> QED BY <3>2, <5>1
      <4>2. CASE r \notin B
        <5>1. IsFiniteSet(C) /\ Cardinality(C) = Cardinality(B) + 1
          BY <3>2, <4>2, CountMore
        <5> HIDE DEF C
        <5> QED BY <3>2, <5>1
      <4> QED BY <4>1, <4>2
    <3>a. A \subseteq C
      BY <3>2
    <3> HIDE DEF C
    <3>4. Cardinality(A) <= Cardinality(C) /\ Cardinality(C) \in Nat
      BY <3>3, <3>a, FS_Subset, FS_CardinalityType
    <3>5. Cardinality(A) <= Cardinality(B) + 1
      BY <3>2, <3>3, <3>4
    <3>6. Count(calls', Decrement(s), W, k) = Count(calls, Decrement(s), W, k) + 1
      BY <1>5, <2>6
    <3>7. Count(calls', Increment(s), W, k) = Count(calls, Increment(s), W, k)
      BY <1>3
    <3>8. Count(calls, Increment(s), W, k) <= Cardinality(A) + Count(calls, Decrement(s), W, k)
      BY <2>2 DEF Backed, A
    <3>9. Count(calls', Increment(s), W, k) <= Cardinality(B) + Count(calls', Decrement(s), W, k)
      BY <2>4, <3>2, <3>5, <3>6, <3>7, <3>8
    <3> QED BY <3>9 DEF Backed, B
  <2>7. CASE s = t /\ w \in W /\ ~(k[w] <= Len(calls[w]))
    <3>3. k[w] >= Len(calls[w])
      BY <1>0, <2>7, LenProperties
    <3>4. /\ Count(calls, Increment(s), W, k) = Count(calls, Increment(s), Others(W, w), k)
          /\ Count(calls, Decrement(s), W, k) = Count(calls, Decrement(s), Others(W, w), k)
      <4>1. w \in Workers /\ calls \in [Workers -> Seq(Calls)]
        BY <1>0
      <4>2. ASSUME NEW c PROVE Count(calls, c, W, k) = Count(calls, c, Others(W, w), k)
        BY ONLY <3>3, <4>1, k \in [Workers -> Nat], BeyondCount
      <4> QED BY <4>2
    <3> DEFINE X == Others(W, w)
               U == V \ {w}
    <3>1. X \in SUBSET Workers /\ U \in SUBSET X
      BY DEF Others
    <3>2. Backed(s, X, U, k)
      BY <1>0, <2>1, <3>1 DEF IncrementsBacked
    <3>5. Backing(s, X, U) \subseteq Backing(s, W, V)'
      <4>1. \A q \in Backing(s, X, U) : q # r
        BY <1>d DEF Backing, Others
      <4> QED BY <1>8, <4>1 DEF Backing, Others
    <3>6. /\ Count(calls', Increment(s), W, k) = Count(calls, Increment(s), W, k)
          /\ Count(calls', Decrement(s), W, k) = Count(calls, Decrement(s), W, k)
      BY <1>3, <1>4, <2>7
    <3>7. Cardinality(Backing(s, X, U)) \in Nat
      BY <1>0, NumbersAre
    <3>9. /\ Count(calls, Increment(s), W, k) = Count(calls, Increment(s), X, k)
          /\ Count(calls, Decrement(s), W, k) = Count(calls, Decrement(s), X, k)
      BY <3>4
    <3> HIDE DEF X, U
    <3>8. Cardinality(Backing(s, X, U)) <= Cardinality(Backing(s, W, V)')
      BY <2>5, <3>5, FS_Subset
    <3> QED BY <2>4, <2>5, <3>2, <3>9, <3>6, <3>7, <3>8 DEF Backed
  <2> QED BY <2>3, <2>6, <2>7
<1>12. IncrementsBacked'
  BY <1>11 DEF IncrementsBacked, AllAwaited
<1>13. CountsConserved'
  <2>1. ASSUME NEW s \in Servers PROVE Conserved(s)'
    <3>1. Conserved(s)
      BY <1>0, ConservedIs
    <3>2. CASE s # t
      <4>1. RunningOn(s)' = RunningOn(s) /\ inflight' = inflight
        BY <1>a, <1>6, <3>2
      <4>2. /\ Count(calls', Increment(s), Workers, Start0) = Count(calls, Increment(s), Workers, Start0)
            /\ Count(calls', Decrement(s), Workers, Start0) = Count(calls, Decrement(s), Workers, Start0)
        BY <1>3, <1>4, <3>2, CutsAre
      <4> QED BY <3>1, <4>1, <4>2 DEF Conserved
    <3>3. CASE s = t
      <4>1. /\ IsFiniteSet(RunningOn(t)) /\ Cardinality(RunningOn(t)) \in Nat /\ inflight[t] \in Nat
            /\ Count(calls, Increment(t), Workers, Start0) \in Nat
            /\ Count(calls, Decrement(t), Workers, Start0) \in Nat
        BY <1>0, <1>b, NumbersAre, CutsAre
      <4>2. Cardinality(RunningOn(t)') = Cardinality(RunningOn(t)) - 1
        BY <1>6, <4>1, CountLess
      <4>3. Count(calls', Increment(t), Workers, Start0) = Count(calls, Increment(t), Workers, Start0)
        BY <1>3, <1>b, CutsAre
      <4>4. Start0 \in [Workers -> Nat] /\ Start0[w] <= Len(calls[w])
        BY <1>0, LenProperties DEF Start0
      <4>5. Count(calls', Decrement(t), Workers, Start0) = Count(calls, Decrement(t), Workers, Start0) + 1
        BY <1>0, <1>5, <4>4
      <4>6. inflight[t] + Count(calls, Increment(t), Workers, Start0) =
              Cardinality(RunningOn(t)) + Count(calls, Decrement(t), Workers, Start0)
        BY <3>1, <3>3 DEF Conserved
      <4>7. inflight[t] + Count(calls', Increment(t), Workers, Start0) =
              Cardinality(RunningOn(t)') + Count(calls', Decrement(t), Workers, Start0)
        BY <4>1, <4>2, <4>3, <4>5, <4>6
      <4> QED BY <1>a, <3>3, <4>7 DEF Conserved
    <3> QED BY <3>2, <3>3
  <2> QED BY <2>1, ConservedNext
<1>14. OwnDispatchesSeen'
  <2> SUFFICES ASSUME NEW x \in Requests, pc'[x] = "deciding", NEW s \in Servers
               PROVE  snapshot'[x][s] >= Cardinality(Own(s, WorkerOf[x])')
    BY DEF OwnDispatchesSeen, Own
  <2>1. pc[x] = "deciding" /\ snapshot'[x] = snapshot[x] /\ snapshot[x][s] \in Nat
    BY <1>0, <1>a DEF Types, Shape
  <2>2. snapshot[x][s] >= Cardinality(Own(s, WorkerOf[x]))
    BY <1>0, <2>1 DEF OwnDispatchesSeen, Own
  <2>3. Own(s, WorkerOf[x])' \subseteq Own(s, WorkerOf[x]) /\ Own(s, WorkerOf[x]) \subseteq Requests
    BY <1>7 DEF Own, RunningOn
  <2>4. /\ IsFiniteSet(Own(s, WorkerOf[x])) /\ Cardinality(Own(s, WorkerOf[x])) \in Nat
        /\ Cardinality(Own(s, WorkerOf[x])') \in Nat
    BY <2>3, CountIs
  <2>5. Cardinality(Own(s, WorkerOf[x])') <= Cardinality(Own(s, WorkerOf[x]))
    BY <2>3, <2>4, FS_Subset
  <2> QED BY <2>1, <2>2, <2>4, <2>5
<1> QED BY <1>2, <1>12, <1>13, <1>14 DEF Counts

\* The actor runs the first call of w.
LEMMA RanCounts ==
    ASSUME Types, Types', Counts, NEW w \in Workers, RunCall(w)
    PROVE  Counts'
<1> DEFINE first == Head(calls[w])
<1>0. /\ FiniteCalls /\ IncrementsBacked /\ CountsConserved /\ OwnDispatchesSeen
      /\ calls \in [Workers -> Seq(Calls)] /\ calls[w] # << >>
      /\ pc \in [Requests -> Stages]
      /\ inflight \in [Servers -> Nat]
      /\ first \in Calls /\ Typed(w, first)
      /\ calls' = WithoutFirst(calls, w)
  BY RunCalls DEF Counts, Types, Shape, CountersTyped, Ran
<1>a. UNCHANGED <<winner, fellBack>>
  BY DEF RunCall, RunWatch, RunIncrement, RunDecrement, RunSnapshot, RunDiscover, locals
<1>b. NoNewWaits
  <2>1. \/ UNCHANGED pc
        \/ \E v \in Workers : \E r \in Requests : pc' = [pc EXCEPT ![r] = "deciding"]
        \/ \E r \in Requests : \E stage \in {"found", "done"} : pc' = [pc EXCEPT ![r] = stage]
    BY ActorMoves
  <2> QED BY <1>0, <2>1 DEF NoNewWaits
<1> HIDE DEF first
<1>1. ASSUME NEW s \in Servers, NEW c \in {Increment(s), Decrement(s)}
      PROVE  /\ Finite(calls', c)
             /\ \A W : \A k \in [Workers -> Nat] : Count(calls', c, W, k) = Count(calls, c, W, Further(k, w))
             /\ first = c =>
                  Count(calls, c, Workers, Start0) = Count(calls, c, Workers, Further(Start0, w)) + 1
             /\ first # c =>
                  Count(calls, c, Workers, Start0) = Count(calls, c, Workers, Further(Start0, w))
  <2>1. Finite(calls, c)
    BY <1>0 DEF FiniteCalls
  <2>2. Finite(calls', c)
    BY <1>0, <2>1, RunCount, CutsAre
  <2>3. ASSUME NEW W, NEW k \in [Workers -> Nat]
        PROVE  Count(calls', c, W, k) = Count(calls, c, W, Further(k, w))
    BY <1>0, <2>1, RunCount
  <2>4. /\ first = c =>
             Count(calls, c, Workers, Start0) = Count(calls, c, Workers, Further(Start0, w)) + 1
        /\ first # c =>
             Count(calls, c, Workers, Start0) = Count(calls, c, Workers, Further(Start0, w))
    BY <1>0, <2>1, FirstCount DEF first
  <2> QED BY <2>2, <2>3, <2>4
<1>2. FiniteCalls'
  BY <1>1 DEF FiniteCalls
<1>3. \A s : RunningOn(s)' = RunningOn(s)
  BY <1>a DEF RunningOn
<1>4. \A s, W, V : Backing(s, W, V)' = Backing(s, W, V)
  BY <1>3, <1>a DEF Backing
<1>5. ASSUME NEW v \in Workers, NEW n \in Nat, Awaited(v, n)'
      PROVE  Awaited(v, IF v = w THEN n + 1 ELSE n)
  <2> DEFINE q == WithoutFirst(calls, w)
             m == Len(calls[w])
  <2>1. /\ \A u \in Workers : u # w => q[u] = calls[u]
        /\ m \in Nat /\ m # 0 /\ DOMAIN calls[w] = 1..m
        /\ DOMAIN q[w] = 1..(m - 1)
        /\ \A i \in 1..(m - 1) : q[w][i] = calls[w][i + 1]
    BY <1>0, CallRun
  <2>2. calls' = q
    BY <1>0
  <2> HIDE DEF q, m
  <2>3. PICK j \in DOMAIN q[v] : j <= n /\ q[v][j].call = "snapshot" /\ pc'[q[v][j].arg] = "asking"
    BY <1>5, <2>2 DEF Awaited
  <2>4. CASE v = w
    <3>1. j + 1 \in DOMAIN calls[w] /\ j + 1 <= n + 1 /\ q[w][j] = calls[w][j + 1]
      BY <2>1, <2>3, <2>4
    <3>2. calls[w][j + 1].arg \in Requests
      BY <2>3, <2>4, <3>1 DEF Types, CallsTyped, Typed
    <3>3. pc[calls[w][j + 1].arg] = "asking"
      BY <1>b, <2>3, <2>4, <3>1, <3>2 DEF NoNewWaits
    <3> QED BY <2>3, <2>4, <3>1, <3>3 DEF Awaited
  <2>5. CASE v # w
    <3>1. q[v] = calls[v]
      BY <2>1, <2>5
    <3>2. calls[v][j].arg \in Requests
      BY <2>3, <3>1 DEF Types, CallsTyped, Typed
    <3>3. pc[calls[v][j].arg] = "asking"
      BY <1>b, <2>3, <3>1, <3>2 DEF NoNewWaits
    <3> QED BY <2>3, <2>5, <3>1, <3>3 DEF Awaited
  <2> QED BY <2>4, <2>5
<1>6. ASSUME NEW s \in Servers, NEW W \in SUBSET Workers, NEW V \in SUBSET W, NEW k \in [Workers -> Nat],
             AllAwaited(V, k)'
      PROVE  Backed(s, W, V, k)'
  <2> DEFINE l == Further(k, w)
  <2>1. l \in [Workers -> Nat] /\ l[w] = k[w] + 1 /\ \A v \in Workers : v # w => l[v] = k[v]
    BY CutsAre
  <2>2. ASSUME NEW v \in V PROVE Awaited(v, l[v])
    <3>1. Awaited(v, IF v = w THEN k[v] + 1 ELSE k[v])
      BY <1>5, <1>6 DEF AllAwaited
    <3> QED BY <2>1, <3>1
  <2> HIDE DEF l
  <2>3. Backed(s, W, V, l)
    BY <1>0, <2>1, <2>2 DEF IncrementsBacked
  <2>4. /\ Count(calls', Increment(s), W, k) = Count(calls, Increment(s), W, l)
        /\ Count(calls', Decrement(s), W, k) = Count(calls, Decrement(s), W, l)
    BY <1>1 DEF l
  <2> QED BY <1>4, <2>3, <2>4 DEF Backed
<1>7. IncrementsBacked'
  BY <1>6 DEF IncrementsBacked, AllAwaited
<1> DEFINE l == Further(Start0, w)
<1>8. l \in [Workers -> Nat] /\ l[w] = 1 /\ Start0 \in [Workers -> Nat]
  BY CutsAre DEF Start0
<1> HIDE DEF l
<1>9. ASSUME NEW s \in Servers
      PROVE  /\ Count(calls, Increment(s), Workers, l) \in Nat
             /\ Count(calls, Decrement(s), Workers, l) \in Nat
             /\ Count(calls', Increment(s), Workers, Start0) = Count(calls, Increment(s), Workers, l)
             /\ Count(calls', Decrement(s), Workers, Start0) = Count(calls, Decrement(s), Workers, l)
             /\ Count(calls, Increment(s), Workers, Start0) = Count(calls, Increment(s), Workers, l)
                    + (IF first = Increment(s) THEN 1 ELSE 0)
             /\ Count(calls, Decrement(s), Workers, Start0) = Count(calls, Decrement(s), Workers, l)
                    + (IF first = Decrement(s) THEN 1 ELSE 0)
             /\ Cardinality(RunningOn(s)) \in Nat /\ inflight[s] \in Nat
  <2>1. /\ Count(calls, Increment(s), Workers, l) \in Nat
        /\ Count(calls, Decrement(s), Workers, l) \in Nat
        /\ Cardinality(RunningOn(s)) \in Nat /\ inflight[s] \in Nat
    BY <1>0, <1>8, NumbersAre
  <2>2. /\ Count(calls', Increment(s), Workers, Start0) = Count(calls, Increment(s), Workers, l)
        /\ Count(calls', Decrement(s), Workers, Start0) = Count(calls, Decrement(s), Workers, l)
    BY <1>1, <1>8 DEF l
  <2>3. /\ first = Increment(s) => Count(calls, Increment(s), Workers, Start0) = Count(calls, Increment(s), Workers, l) + 1
        /\ first # Increment(s) => Count(calls, Increment(s), Workers, Start0) = Count(calls, Increment(s), Workers, l)
    BY <1>1 DEF l
  <2>4. /\ first = Decrement(s) => Count(calls, Decrement(s), Workers, Start0) = Count(calls, Decrement(s), Workers, l) + 1
        /\ first # Decrement(s) => Count(calls, Decrement(s), Workers, Start0) = Count(calls, Decrement(s), Workers, l)
    BY <1>1 DEF l
  <2> QED BY <2>1, <2>2, <2>3, <2>4
<1>10. ASSUME NEW s \in Servers
       PROVE  inflight[s] + Count(calls, Increment(s), Workers, Start0) =
                  Cardinality(RunningOn(s)) + Count(calls, Decrement(s), Workers, Start0)
  BY <1>0, ConservedIs DEF Conserved
\* A decrement that is run has been counted up: all that lies before it was run.
<1>11. ASSUME NEW s \in Servers, first = Decrement(s) PROVE inflight[s] > 0
  <2>1. Backed(s, Workers, {}, l)
    BY <1>0, <1>8 DEF IncrementsBacked
  <2>2. Backing(s, Workers, {}) = RunningOn(s)
    BY FleetAssumption DEF Backing, RunningOn
  <2>3. Count(calls, Increment(s), Workers, l) <= Cardinality(RunningOn(s)) + Count(calls, Decrement(s), Workers, l)
    BY <2>1, <2>2 DEF Backed
  <2>4. first # Increment(s)
    BY <1>11, CallsDiffer
  <2>5. Count(calls, Increment(s), Workers, Start0) = Count(calls, Increment(s), Workers, l)
    BY <1>9, <2>4
  <2>6. Count(calls, Decrement(s), Workers, Start0) = Count(calls, Decrement(s), Workers, l) + 1
    BY <1>9, <1>11
  <2> QED BY <1>9, <1>10, <2>3, <2>5, <2>6
<1>12. CountsConserved'
  <2>1. ASSUME NEW s \in Servers PROVE Conserved(s)'
    <3> SUFFICES inflight'[s] + Count(calls, Increment(s), Workers, l) =
                     Cardinality(RunningOn(s)) + Count(calls, Decrement(s), Workers, l)
      BY <1>3, <1>9 DEF Conserved
    <3>1. CASE RunIncrement(w)
      <4>1. inflight' = [inflight EXCEPT ![first.arg] = @ + 1] /\ first.call = "increment"
        BY <3>1 DEF RunIncrement, NextCall, first
      <4>2. first.arg \in Servers /\ first = Increment(first.arg)
        BY <1>0, <4>1 DEF Typed, Increment, Calls
      <4>3. first # Decrement(s)
        BY <4>2, CallsDiffer
      <4>4. CASE first.arg = s
        <5>1. inflight'[s] = inflight[s] + 1 /\ first = Increment(s)
          BY <1>0, <4>1, <4>2, <4>4
        <5> QED BY <1>9, <1>10, <4>3, <5>1
      <4>5. CASE first.arg # s
        <5>1. inflight'[s] = inflight[s] /\ first # Increment(s)
          BY <1>0, <4>1, <4>2, <4>5 DEF Increment
        <5> QED BY <1>9, <1>10, <4>3, <5>1
      <4> QED BY <4>4, <4>5
    <3>2. CASE RunDecrement(w)
      <4>1. inflight' = [inflight EXCEPT ![first.arg] = IF @ > 0 THEN @ - 1 ELSE @] /\ first.call = "decrement"
        BY <3>2 DEF RunDecrement, NextCall, first
      <4>2. first.arg \in Servers /\ first = Decrement(first.arg)
        BY <1>0, <4>1 DEF Typed, Decrement, Calls
      <4>3. first # Increment(s)
        BY <4>2, CallsDiffer
      <4>4. CASE first.arg = s
        <5>1. inflight[s] > 0 /\ first = Decrement(s)
          BY <1>11, <4>2, <4>4
        <5>2. inflight'[s] = inflight[s] - 1
          BY <1>0, <4>1, <4>2, <4>4, <5>1
        <5> QED BY <1>9, <1>10, <4>3, <5>1, <5>2
      <4>5. CASE first.arg # s
        <5>1. inflight'[s] = inflight[s] /\ first # Decrement(s)
          BY <1>0, <4>1, <4>2, <4>5 DEF Decrement
        <5> QED BY <1>9, <1>10, <4>3, <5>1
      <4> QED BY <4>4, <4>5
    <3>3. CASE RunWatch(w) \/ RunSnapshot(w) \/ RunDiscover(w)
      <4>1. inflight' = inflight /\ first.call \in {"watch", "snapshot", "discover"}
        BY <3>3 DEF RunWatch, RunSnapshot, RunDiscover, NextCall, actor, first
      <4>2. first # Increment(s) /\ first # Decrement(s)
        BY <4>1 DEF Increment, Decrement
      <4> QED BY <1>9, <1>10, <4>1, <4>2
    <3> QED BY <3>1, <3>2, <3>3 DEF RunCall
  <2> QED BY <2>1, ConservedNext
<1>13. OwnDispatchesSeen'
  <2> SUFFICES ASSUME NEW x \in Requests, pc'[x] = "deciding", NEW s \in Servers
               PROVE  snapshot'[x][s] >= Cardinality(Own(s, WorkerOf[x]))
    BY <1>3, <1>a DEF OwnDispatchesSeen, Own
  <2>1. CASE pc[x] = "deciding" /\ snapshot'[x] = snapshot[x]
    BY <1>0, <2>1 DEF OwnDispatchesSeen, Own
  <2>2. CASE RunSnapshot(w) /\ first.arg = x /\ pc[x] = "asking"
    <3>1. first.call = "snapshot" /\ snapshot'[x] = inflight /\ WorkerOf[x] = w
      BY <1>0, <2>2 DEF RunSnapshot, NextCall, first, Typed, Types, Shape
    <3>2. Awaited(w, 1)
      <4>1. 1 \in DOMAIN calls[w] /\ calls[w][1] = first
        BY <1>0, CallRun DEF first
      <4> QED BY <2>2, <3>1, <4>1 DEF Awaited
    <3>3. Backed(s, Workers, {w}, l)
      BY <1>0, <1>8, <3>2 DEF IncrementsBacked
    <3> DEFINE A == Backing(s, Workers, {w})
               B == Own(s, w)
    <3>4. RunningOn(s) = A \cup B /\ A \cap B = {}
      BY FleetAssumption DEF Backing, Own, RunningOn
    <3>5. A \subseteq Requests /\ B \subseteq Requests
      BY DEF Backing, Own, RunningOn
    <3>6. Count(calls, Increment(s), Workers, l) <= Cardinality(A) + Count(calls, Decrement(s), Workers, l)
      BY <3>3 DEF Backed
    <3> HIDE DEF A, B
    <3>7. /\ IsFiniteSet(A) /\ Cardinality(A) \in Nat /\ IsFiniteSet(B) /\ Cardinality(B) \in Nat
      BY <3>5, CountIs
    <3>8. Cardinality(RunningOn(s)) = Cardinality(A) + Cardinality(B)
      <4>1. Cardinality(A \cup B) = Cardinality(A) + Cardinality(B) - Cardinality(A \cap B)
        BY <3>7, FS_Union
      <4>2. Cardinality(A \cap B) = 0
        BY <3>4, FS_EmptySet
      <4> QED BY <3>4, <3>7, <4>1, <4>2
    <3>9. first # Increment(s) /\ first # Decrement(s)
      BY <3>1 DEF Increment, Decrement
    <3>10. inflight[s] >= Cardinality(B)
      BY <1>9, <1>10, <3>6, <3>7, <3>8, <3>9
    <3> QED BY <3>1, <3>10 DEF B
  <2>3. CASE ~RunSnapshot(w)
    <3>1. UNCHANGED <<pc, snapshot>>
      BY <2>3 DEF RunCall, RunWatch, RunIncrement, RunDecrement, RunDiscover, locals
    <3> QED BY <2>1, <3>1
  <2>4. CASE RunSnapshot(w) /\ ~(first.arg = x /\ pc[x] = "asking")
    <3>1. first.arg \in Requests
      BY <1>0, <2>4 DEF RunSnapshot, NextCall, first, Typed
    <3>2. \/ UNCHANGED <<pc, snapshot>>
          \/ /\ pc' = [pc EXCEPT ![first.arg] = "deciding"] /\ snapshot' = [snapshot EXCEPT ![first.arg] = inflight]
             /\ pc[first.arg] = "asking"
      BY <2>4 DEF RunSnapshot, first
    <3>3. pc[x] = "deciding" /\ snapshot'[x] = snapshot[x]
      BY <1>0, <2>4, <3>1, <3>2 DEF Types, Shape
    <3> QED BY <2>1, <3>3
  <2> QED BY <2>2, <2>3, <2>4
<1> QED BY <1>2, <1>7, <1>12, <1>13 DEF Counts


\* The generation's own steps.
LEMMA GenerationCounts ==
    ASSUME Types, Types', Locks, SnapshotsOnce, Marks, Counts,
           NEW r \in Requests, Generate(r) \/ GiveUp(r)
    PROVE  Counts'
<1>0. /\ pc \in [Requests -> Stages] /\ WorkerOf[r] \in Workers
      /\ snapshot \in [Requests -> [Servers -> Nat]]
  BY FleetAssumption DEF Types, Shape
<1>1. CASE Start(r)
  <2>1. PICK stage \in {"locking", "listing"} : pc' = [pc EXCEPT ![r] = stage]
    BY <1>1 DEF Start, Goto
  <2>2. UNCHANGED <<calls, winner, fellBack, inflight, snapshot>>
    BY <1>1 DEF Start, actor, locals
  <2>3. NoNewWaits /\ \A x \in Requests : pc'[x] = "deciding" => pc[x] = "deciding"
    BY <1>0, <2>1 DEF NoNewWaits
  <2> QED BY <2>2, <2>3, QuietCounts
<1>9. CASE AskToDiscover(r)
  <2> DEFINE d == [call |-> "discover", arg |-> r]
  <2>1. /\ UNCHANGED <<winner, fellBack, inflight, snapshot>> /\ pc' = [pc EXCEPT ![r] = "discovering"]
    BY <1>9 DEF AskToDiscover, Goto, actor, locals
  <2>2. NewCall(WorkerOf[r], d)
    BY <1>0, <1>9 DEF AskToDiscover, Call, WithCall, NewCall, Typed, Calls
  <2>3. d.call # "increment" /\ d.call # "decrement"
    OBVIOUS
  <2> HIDE DEF d
  <2>4. \A s : d # Increment(s) /\ d # Decrement(s)
    BY <2>3 DEF Increment, Decrement
  <2>5. \A x \in Requests : pc'[x] = "asking" => pc[x] = "asking" \/ (Asks(d, x) /\ SnapshotsOnce /\ pc[x] = "locking")
    BY <1>0, <2>1
  <2>6. \A x \in Requests : pc'[x] = "deciding" => pc[x] = "deciding"
    BY <1>0, <2>1
  <2> QED BY <2>1, <2>2, <2>4, <2>5, <2>6, AskCounts
<1>2. CASE SetEndpoints(r)
  <2>1. UNCHANGED <<calls, winner, fellBack, inflight, snapshot>> /\ pc' = [pc EXCEPT ![r] = "locking"]
    BY <1>2 DEF SetEndpoints, Goto, actor
  <2>2. NoNewWaits /\ \A x \in Requests : pc'[x] = "deciding" => pc[x] = "deciding"
    BY <1>0, <2>1 DEF NoNewWaits
  <2> QED BY <2>1, <2>2, QuietCounts
<1>3. CASE AskForSnapshot(r)
  <2> DEFINE d == [call |-> "snapshot", arg |-> r]
  <2>1. /\ UNCHANGED <<winner, fellBack, inflight, snapshot>> /\ pc' = [pc EXCEPT ![r] = "asking"]
        /\ pc[r] = "locking"
    BY <1>3 DEF AskForSnapshot, Goto, actor, locals
  <2>2. NewCall(WorkerOf[r], d)
    BY <1>0, <1>3 DEF AskForSnapshot, Call, WithCall, NewCall, Typed, Calls
  <2>3. d.call # "increment" /\ d.call # "decrement" /\ Asks(d, r)
    BY DEF Asks
  <2> HIDE DEF d
  <2>4. \A s : d # Increment(s) /\ d # Decrement(s)
    BY <2>3 DEF Increment, Decrement
  <2>5. \A x \in Requests : pc'[x] = "asking" => pc[x] = "asking" \/ (Asks(d, x) /\ SnapshotsOnce /\ pc[x] = "locking")
    BY <1>0, <2>1, <2>3
  <2>6. \A x \in Requests : pc'[x] = "deciding" => pc[x] = "deciding"
    BY <1>0, <2>1
  <2> QED BY <2>1, <2>2, <2>4, <2>5, <2>6, AskCounts
<1>4. CASE Schedule(r)
  <2>1. PICK s \in endpoints[WorkerOf[r]] :
          winner' = [winner EXCEPT ![r] = s] /\ Call(WorkerOf[r], "increment", s)
    BY <1>4 DEF Schedule
  <2>2. s \in Servers
    BY <1>0, <2>1 DEF Types, CountersTyped
  <2>3. NewCall(WorkerOf[r], Increment(s))
    BY <1>0, <2>1, <2>2 DEF Call, WithCall, NewCall, Typed, Calls, Increment
  <2>4. /\ pc[r] = "deciding" /\ pc' = [pc EXCEPT ![r] = "running"] /\ UNCHANGED <<inflight, fellBack>>
        /\ snapshot' = [snapshot EXCEPT ![r] = Zero]
    BY <1>4 DEF Schedule, Goto, actor
  <2>5. ~fellBack[r] /\ winner[r] \notin Servers
    BY <2>4 DEF Marks, Types, WinnersTyped
  <2>6. pc'[r] = "running" /\ \A x \in Requests : x # r => pc'[x] = pc[x] /\ snapshot'[x] = snapshot[x]
    BY <1>0, <2>4
  <2>7. Dispatch(r, s, FALSE)
    BY <2>1, <2>3, <2>4, <2>5, <2>6 DEF Dispatch
  <2> QED BY <2>2, <2>7, DispatchCounts
<1>5. CASE FallBack(r) \/ GiveUp(r)
  <2>1. PICK stage \in {"acquiring", "done"} : pc' = [pc EXCEPT ![r] = stage]
    BY <1>5 DEF FallBack, GiveUp, Goto
  <2>2. UNCHANGED <<calls, winner, fellBack, inflight>> /\ snapshot' = [snapshot EXCEPT ![r] = Zero]
    BY <1>5 DEF FallBack, GiveUp, actor
  <2>3. NoNewWaits /\ \A x \in Requests : pc'[x] = "deciding" => pc[x] = "deciding" /\ snapshot'[x] = snapshot[x]
    BY <1>0, <2>1, <2>2 DEF NoNewWaits
  <2> QED BY <2>2, <2>3, QuietCounts
<1>6. CASE Acquire(r)
  <2>1. PICK s \in Servers :
          winner' = [winner EXCEPT ![r] = s] /\ Call(WorkerOf[r], "increment", s)
    BY <1>6 DEF Acquire
  <2>2. NewCall(WorkerOf[r], Increment(s))
    BY <1>0, <2>1 DEF Call, WithCall, NewCall, Typed, Calls, Increment
  <2>3. /\ pc[r] = "acquiring" /\ pc' = [pc EXCEPT ![r] = "running"] /\ UNCHANGED <<inflight, snapshot>>
        /\ fellBack' = [fellBack EXCEPT ![r] = TRUE]
    BY <1>6 DEF Acquire, Goto, actor
  <2>4. winner[r] \notin Servers
    BY <2>3 DEF Types, WinnersTyped
  <2>5. pc'[r] = "running" /\ \A x \in Requests : x # r => pc'[x] = pc[x] /\ snapshot'[x] = snapshot[x]
    BY <1>0, <2>3
  <2>6. Dispatch(r, s, TRUE)
    BY <2>1, <2>2, <2>3, <2>4, <2>5 DEF Dispatch
  <2> QED BY <2>6, DispatchCounts
<1>7. CASE AcquireRaises(r)
  <2>1. UNCHANGED <<calls, winner, fellBack, inflight, snapshot>> /\ pc' = [pc EXCEPT ![r] = "done"]
    BY <1>7 DEF AcquireRaises, Goto, actor, locals
  <2>2. NoNewWaits /\ \A x \in Requests : pc'[x] = "deciding" => pc[x] = "deciding"
    BY <1>0, <2>1 DEF NoNewWaits
  <2> QED BY <2>1, <2>2, QuietCounts
<1>8. CASE Complete(r)
  BY <1>8, CompleteCounts
<1> QED BY <1>1, <1>2, <1>3, <1>4, <1>5, <1>6, <1>7, <1>8, <1>9 DEF Generate

LEMMA CountsStep ==
    Types /\ Types' /\ Locks /\ SnapshotsOnce /\ Marks /\ Counts /\ [Next]_vars => Counts'
<1> SUFFICES ASSUME Types, Types', Locks, SnapshotsOnce, Marks, Counts, [Next]_vars PROVE Counts'
  OBVIOUS
<1>0. pc \in [Requests -> Stages]
  BY DEF Types, Shape
<1>1. ASSUME NEW r \in Requests, Generate(r) \/ GiveUp(r) PROVE Counts'
  BY <1>1, GenerationCounts
<1>2. ASSUME NEW w \in Workers, RunCall(w) PROVE Counts'
  BY <1>2, RanCounts
<1>3. ASSUME Discovery \/ \E s \in Servers : RunRelease(s) PROVE Counts'
  <2>1. UNCHANGED <<calls, winner, fellBack, inflight, snapshot>>
    BY <1>3 DEF Discovery, DrainAcquire, DrainEnd, DrainRaises, RunRelease, Answer, actor, locals
  <2>2. ASSUME NEW x \in Requests, pc'[x] \in {"asking", "deciding"} PROVE pc[x] = pc'[x]
    <3>1. CASE UNCHANGED pc
      BY <3>1
    <3>2. CASE DrainEnd \/ DrainRaises
      <4>1. UNCHANGED pc \/ \E r : \E stage \in {"found", "done"} : pc' = [pc EXCEPT ![r] = stage]
        BY <3>2 DEF DrainEnd, DrainRaises, Answer, Goto
      <4> QED BY <1>0, <2>2, <4>1
    <3> QED BY <1>3, <3>1, <3>2 DEF Discovery, DrainAcquire, RunRelease
  <2>3. NoNewWaits /\ \A x \in Requests : pc'[x] = "deciding" => pc[x] = "deciding"
    BY <2>2 DEF NoNewWaits
  <2> QED BY <2>1, <2>3, QuietCounts
<1>4. CASE UNCHANGED vars
  <2>1. UNCHANGED <<calls, winner, fellBack, inflight, snapshot, pc>>
    BY <1>4 DEF vars, actor, locals
  <2>2. NoNewWaits
    BY <2>1 DEF NoNewWaits
  <2> QED BY <2>1, <2>2, QuietCounts
<1> QED BY <1>1, <1>2, <1>3, <1>4 DEF Next

----------------------------------------------------------------------------
(* The inductive invariant *)

FleetInv ==
    /\ Types
    /\ Locks
    /\ SnapshotsOnce
    /\ OneTurn
    /\ Marks
    /\ BalancerConserved
    /\ Counts

LEMMA FirstCalls ==
    ASSUME Init
    PROVE  \A w \in Workers : calls[w] = << >> \/ calls[w] = <<[call |-> "watch", arg |-> None]>>
BY DEF Init

LEMMA FirstTypes == Init => Types
<1> SUFFICES ASSUME Init PROVE Types
  OBVIOUS
<1>0. Zero \in [Servers -> Nat]
  BY DEF Zero
<1>1. calls \in [Workers -> Seq(Calls)]
  <2> DEFINE watch == [call |-> "watch", arg |-> None]
  <2>1. watch \in Calls
    BY DEF Calls
  <2>2. calls = [w \in Workers |-> IF setting.layout = "legacy" THEN <<watch>> ELSE << >>]
    BY DEF Init
  <2> HIDE DEF watch
  <2>3. <<watch>> \in Seq(Calls) /\ << >> \in Seq(Calls)
    BY <2>1
  <2> QED BY <2>2, <2>3
<1>2. drain \in Drains /\ drain = Idle
  BY <1>0 DEF Init, Idle, Drains
<1>3. lbAcquired \in [Workers -> SUBSET {Trajectory[r] : r \in Requests}]
  BY DEF Init
<1>4. pc \in [Requests -> Stages] /\ \A r \in Requests : pc[r] = "new"
  BY DEF Init, Stages
<1>5. winner \in [Requests -> Servers \cup {None}] /\ \A r \in Requests : winner[r] = None
  BY DEF Init
<1>6. /\ found \in [Requests -> SUBSET Servers] /\ snapshot \in [Requests -> [Servers -> Nat]]
      /\ fellBack \in [Requests -> BOOLEAN]
  BY <1>0 DEF Init
<1>7. CallsTyped
  <2> SUFFICES ASSUME NEW w \in Workers, NEW i \in DOMAIN calls[w] PROVE calls[w][i].call = "watch"
    BY DEF CallsTyped, Typed
  <2> QED BY FirstCalls
<1>8. CountersTyped
  <2>1. setting \in Settings /\ setting \in Setting
    BY FleetAssumption DEF Init
  <2>2. setting.load \in [Servers -> Nat]
    BY <2>1 DEF Setting
  <2>3. lb \in [Servers -> Int]
    BY <2>2 DEF Init
  <2>4. endpoints \in [Workers -> SUBSET Servers] /\ viewComplete \in [Workers -> BOOLEAN]
    BY DEF Init
  <2>5. drain.tries \in 0..(TriesPerServer * Expected)
    <3>1. drain.tries = 0
      BY <1>2 DEF Idle
    <3> QED BY <3>1, DrainTries
  <2>6. inflight \in [Servers -> Nat] /\ known \subseteq Servers /\ releases \in [Servers -> Nat]
    BY <1>0 DEF Init
  <2> QED BY <1>2, <2>1, <2>3, <2>4, <2>5, <2>6 DEF CountersTyped
<1>9. WinnersTyped
  BY <1>4, <1>5, FleetAssumption DEF WinnersTyped, None
<1> QED BY <1>1, <1>2, <1>3, <1>4, <1>5, <1>6, <1>7, <1>8, <1>9 DEF Types, Shape

LEMMA FirstLocks == Init => Locks
<1> SUFFICES ASSUME Init PROVE Locks
  OBVIOUS
<1>1. /\ lock = [w \in Workers |-> << >>] /\ \A r \in Requests : pc[r] = "new" /\ WorkerOf[r] \in Workers
  BY FleetAssumption DEF Init
<1>2. \A w \in Workers : lock[w] = << >> /\ DOMAIN lock[w] = {}
  BY <1>1
<1>3. lock \in [Workers -> Seq(Requests)]
  BY <1>1
<1>4. \A w \in Workers : Distinct(lock[w]) /\ \A r : ~Queued(lock[w], r)
  BY <1>2 DEF Distinct, Queued
<1>5. LockTyped
  BY <1>1, <1>4 DEF LockTyped, Waiting
<1>6. LockDiscipline
  BY <1>1, <1>3, <1>4 DEF LockDiscipline
<1> QED BY <1>5, <1>6 DEF Locks

LEMMA FirstCounts == Init => Counts
<1> SUFFICES ASSUME Init PROVE Counts
  OBVIOUS
<1>1. Types
  BY FirstTypes
<1>2. ASSUME NEW c, c.call # "watch", NEW W, NEW k PROVE Later(calls, c, W, k) = {}
  <2> SUFFICES ASSUME NEW p \in Later(calls, c, W, k) PROVE FALSE
    OBVIOUS
  <2>1. PICK v \in Workers, i \in Nat \ {0} : p = <<v, i>>
    BY LaterIsPair
  <2>2. Left(calls, c, W, k, v, i)
    BY <2>1, InLater
  <2>3. calls[v][i].call = "watch"
    BY <2>2, FirstCalls DEF Left
  <2> QED BY <1>2, <2>2, <2>3 DEF Left
<1>3. \A s : Increment(s).call # "watch" /\ Decrement(s).call # "watch"
  BY DEF Increment, Decrement
<1>4. ASSUME NEW s, NEW W, NEW k
      PROVE  /\ Later(calls, Increment(s), W, k) = {} /\ Later(calls, Decrement(s), W, k) = {}
             /\ Count(calls, Increment(s), W, k) = 0 /\ Count(calls, Decrement(s), W, k) = 0
  BY <1>2, <1>3, FS_EmptySet DEF Count
<1>5. FiniteCalls
  BY <1>4, FS_EmptySet DEF FiniteCalls, Finite
<1>6. \A r \in Requests : winner[r] = None /\ pc[r] = "new"
  BY DEF Init
<1>7. \A s \in Servers : RunningOn(s) = {} /\ inflight[s] = 0
  BY <1>6, FleetAssumption DEF RunningOn, None, Init, Zero
<1>8. IncrementsBacked
  <2> SUFFICES ASSUME NEW s \in Servers, NEW W \in SUBSET Workers, NEW V \in SUBSET W,
                      NEW k \in [Workers -> Nat]
               PROVE  Backed(s, W, V, k)
    BY DEF IncrementsBacked
  <2>1. Cardinality(Backing(s, W, V)) \in Nat
    BY <1>1, <1>5, NumbersAre
  <2> QED BY <1>4, <2>1 DEF Backed
<1>9. CountsConserved
  <2>1. ASSUME NEW s \in Servers PROVE Conserved(s)
    <3>1. Cardinality(RunningOn(s)) = 0
      BY <1>7, FS_EmptySet
    <3> QED BY <1>4, <1>7, <3>1 DEF Conserved
  <2> QED BY <1>1, <2>1, ConservedIs
<1>10. OwnDispatchesSeen
  BY <1>6 DEF OwnDispatchesSeen
<1> QED BY <1>5, <1>8, <1>9, <1>10 DEF Counts

LEMMA FleetInvInit == Init => FleetInv
<1> SUFFICES ASSUME Init PROVE FleetInv
  OBVIOUS
<1>1. Types /\ Locks /\ Counts
  BY FirstTypes, FirstLocks, FirstCounts
<1>2. SnapshotsOnce
  <2>1. \A w \in Workers : \A i \in DOMAIN calls[w] : calls[w][i].call = "watch"
    BY FirstCalls
  <2> QED BY <2>1 DEF SnapshotsOnce
<1>3. \A r \in Requests : pc[r] = "new" /\ fellBack[r] = FALSE /\ winner[r] = None
  BY DEF Init
<1>4. OneTurn
  BY <1>3 DEF OneTurn
<1>5. \A w \in Workers : lbAcquired[w] = {}
  BY DEF Init
<1>6. Marks
  BY <1>3, <1>5 DEF Marks, AcquiredMarked, MarkedAcquired, FromBalancer
<1>7. BalancerConserved
  <2> SUFFICES ASSUME NEW s \in Servers PROVE Balanced(s)
    BY DEF BalancerConserved, Balanced, Taken
  <2>1. Taken(s) = {}
    BY <1>3 DEF Taken, RunningOn
  <2>2. Cardinality(Taken(s)) = 0
    BY <2>1, FS_EmptySet
  <2>3. setting.load[s] \in Nat
    BY FleetAssumption DEF Init, Setting
  <2>4. lb[s] = setting.load[s] /\ drain.acquired[s] = 0 /\ releases[s] = 0
    BY DEF Init, Idle, Zero
  <2> QED BY <2>2, <2>3, <2>4 DEF Balanced
<1> QED BY <1>1, <1>2, <1>4, <1>6, <1>7 DEF FleetInv

LEMMA FleetInvStep == FleetInv /\ [Next]_vars => FleetInv'
<1> SUFFICES ASSUME FleetInv, [Next]_vars PROVE FleetInv'
  OBVIOUS
<1>0. Types /\ Locks /\ SnapshotsOnce /\ OneTurn /\ Marks /\ BalancerConserved /\ Counts
  BY DEF FleetInv
<1>1. Types'
  BY <1>0, TypesStep
<1>2. Locks' /\ SnapshotsOnce' /\ OneTurn' /\ Marks' /\ BalancerConserved'
  BY <1>0, LocksStep, SnapshotsStep, OneTurnStep, MarksStep, BalancerStep
<1>3. Counts'
  BY <1>0, <1>1, CountsStep
<1> QED BY <1>1, <1>2, <1>3 DEF FleetInv

LEMMA FleetInvAlways == Spec => []FleetInv
BY FleetInvInit, FleetInvStep, PTL DEF Spec

----------------------------------------------------------------------------
(* The theorems *)

\* Every call to the actor, counter, view, lock and generation of the fleet has its type; a
\* generation has a server exactly while it runs, and stands in its worker's lock queue
\* exactly between _ensure_endpoints and its dispatch (verl_hook.py, generate).
THEOREM FleetTyped == Spec => []TypeOK
<1>1. FleetInv => TypeOK
  BY TypesAre DEF FleetInv, Types, Locks
<1> QED BY <1>1, FleetInvAlways, PTL

\* What the actor counts in flight (InflightStore) and the increments on their way are the
\* generations that run and the decrements on their way: none is counted twice, lost, or
\* swallowed by the clamp of a decrement at 0.
THEOREM CountsKept == Spec => []CountsConserved
<1>1. FleetInv => CountsConserved
  BY DEF FleetInv, Counts
<1> QED BY <1>1, FleetInvAlways, PTL

\* verl's balancer counts, beside what others run, what fell back to it, what a discovery
\* drained from it and what is being released to it, unless one of its calls was lost.
THEOREM BalancerKept == Spec => []BalancerConserved
<1>1. FleetInv => BalancerConserved
  BY DEF FleetInv
<1> QED BY <1>1, FleetInvAlways, PTL

\* A snapshot that a generation decides on counts every dispatch that its worker's scheduler
\* has made before and that still runs: the lock is held from the snapshot to the dispatch,
\* and the actor runs a worker's calls in their order.
THEOREM DispatchesSeen == Spec => []OwnDispatchesSeen
<1>1. FleetInv => OwnDispatchesSeen
  BY DEF FleetInv, Counts
<1> QED BY <1>1, FleetInvAlways, PTL
=============================================================================
