--------------------------- MODULE Admission_proofs ---------------------------
(***************************************************************************)
(* Admission to engines: the kv_saturation plugin, and the router over it, *)
(* for every value of their constants.                                     *)
(*                                                                         *)
(* First the plugin's methods: dropping, booking and releasing keep a      *)
(* sound ledger sound.  Balanced speaks of a sum.  It is counted as the    *)
(* cardinality of the set of booked slots, so the argument is one about    *)
(* disjoint finite sets: a booking of n tokens adds, and dropping it       *)
(* removes, a row of n slots.  Then KVSaturation: IInv is inductive, each  *)
(* action preserves it by the lemma about the method it calls.  Then its   *)
(* history: what is remembered is the end of the order of finishing.       *)
(*                                                                         *)
(* Last RayServeRouter, by the lemmas about the methods: RInv is inductive *)
(* under every fault, config edit and cold start.  What needs a hypothesis *)
(* on the environment (the books' soundness, where a placed request is     *)
(* booked, the refinement of KVSaturation) is proved above it, each by an  *)
(* invariant of its own.  The variables ledger and recency, which are the  *)
(* plugin's when it runs alone, do not occur there.                        *)
(***************************************************************************)
EXTENDS RayServeRouter, KVRecency, FiniteSetTheorems, SequenceTheorems, TLAPS

\* A ledger that accounts for every booking and promises no engine too much.
Sound(L) == L \in Ledger /\ Balanced(L) /\ BookingsInRange(L) /\ WithinBudget(L)

----------------------------------------------------------------------------
\* budget_fraction of the capacity is a whole number of tokens, at most the capacity.
LEMMA BudgetRange ==
    ASSUME NEW e \in Engines
    PROVE  KvTokenBudget(e, "capacity") \in 0..Capacity[e]
<1> DEFINE c == Capacity[e]
<1>1. c \in Nat /\ FractionNum \in Nat /\ FractionDen \in Nat \ {0} /\ FractionNum <= FractionDen
  BY KVLedgerAssumption
<1>2. KvTokenBudget(e, "capacity") = (c * FractionNum) \div FractionDen
  BY <1>1 DEF KvTokenBudget, ReportedCapacity
<1> HIDE DEF c
<1>3. c * FractionNum \in Nat /\ c * FractionNum <= c * FractionDen
  BY <1>1
<1>4. \A x, n, d \in Nat : d # 0 /\ x <= n * d => x \div d \in 0..n
  OBVIOUS
<1> QED BY <1>1, <1>2, <1>3, <1>4 DEF c

\* A candidate whose stats carry no capacity has no positive budget, so it never fits.
LEMMA BudgetOfUnknown ==
    ASSUME NEW e \in Engines, NEW report \in Reports, KvTokenBudget(e, report) > 0
    PROVE  report = "capacity"
<1> SUFFICES ASSUME report # "capacity" PROVE FALSE
  OBVIOUS
<1>1. ReportedCapacity(e, report) = -1
  BY DEF ReportedCapacity
<1>2. KvTokenBudget(e, report) = -((1 * FractionNum) \div FractionDen)
  BY <1>1 DEF KvTokenBudget
<1>3. \A n, d \in Nat : d # 0 => -((1 * n) \div d) <= 0
  OBVIOUS
<1> QED BY <1>2, <1>3, KVLedgerAssumption

\* The tokens a turn needs are a natural number.
LEMMA NeedIsNat ==
    ASSUME NEW L \in Ledger, NEW t \in Ids, NEW prompt \in Nat
    PROVE  KvTokensNeeded(L, t, prompt) \in Nat
<1>1. CASE TurnAt(L, t) = {}
  BY <1>1, KVLedgerAssumption DEF KvTokensNeeded
<1>2. CASE TurnAt(L, t) # {}
  <2>1. PICK i \in TurnAt(L, t) : i = (CHOOSE j \in TurnAt(L, t) : TRUE)
    BY <1>2
  <2> DEFINE turns == L.lastTurns
  <2>2. turns \in Seq(LastTurn) /\ i \in DOMAIN turns
    BY <2>1 DEF TurnAt, Ledger
  <2> HIDE DEF turns
  <2>3. turns[i] \in LastTurn
    BY <2>2
  <2>4. L.lastTurns[i].output \in Nat
    BY <2>3 DEF turns, LastTurn
  <2> QED BY <1>2, <2>1, <2>4 DEF KvTokensNeeded
<1> QED BY <1>1, <1>2

----------------------------------------------------------------------------
\* Booked slots are finitely many.
LEMMA SlotsFinite ==
    ASSUME NEW L, NEW e \in Engines
    PROVE  IsFiniteSet(BookedSlots(L, e)) /\ Cardinality(BookedSlots(L, e)) \in Nat
<1>1. Capacity[e] \in Nat /\ IsFiniteSet(Ids)
  BY KVLedgerAssumption
<1>2. IsFiniteSet(1..Capacity[e])
  BY <1>1, FS_Interval
<1>3. IsFiniteSet(Ids \X (1..Capacity[e]))
  BY <1>1, <1>2, FS_Product
<1>4. BookedSlots(L, e) \subseteq Ids \X (1..Capacity[e])
  BY DEF BookedSlots
<1> QED BY <1>3, <1>4, FS_Subset, FS_CardinalityType

\* The slots of one booking of n tokens.
LEMMA RowSize ==
    ASSUME NEW t, NEW n \in Nat
    PROVE  IsFiniteSet({t} \X (1..n)) /\ Cardinality({t} \X (1..n)) = n
<1>1. IsFiniteSet(1..n) /\ Cardinality(1..n) = n
  BY FS_Interval
<1>2. IsFiniteSet({t}) /\ Cardinality({t}) = 1
  BY FS_Singleton
<1> QED BY <1>1, <1>2, FS_Product

\* L and D differ in t's booking only: t holds n tokens of e in L and nothing in D.
\* Then L has n booked slots more on e and the same slots everywhere else.
LEMMA OneMoreBooking ==
    ASSUME NEW L, NEW D, NEW t \in Ids, NEW e \in Engines,
           NEW n \in 0..Capacity[e],
           D.reservation[t] = NoReservation,
           L.reservation[t] = [engine |-> e, tokens |-> n],
           \A u \in Ids \ {t} : L.reservation[u] = D.reservation[u]
    PROVE  \A d \in Engines : Cardinality(BookedSlots(L, d)) =
              Cardinality(BookedSlots(D, d)) + (IF d = e THEN n ELSE 0)
<1> TAKE d \in Engines
<1>0. L.reservation[t] # NoReservation
  BY KVLedgerAssumption
<1>1. CASE d # e
  <2>1. BookedSlots(L, d) = BookedSlots(D, d)
    BY <1>1, <1>0 DEF BookedSlots
  <2> QED BY <1>1, <2>1, SlotsFinite
<1>2. CASE d = e
  <2> DEFINE row == {t} \X (1..n)
  <2>1. Capacity[e] \in Nat /\ n \in Nat /\ n <= Capacity[e]
    BY KVLedgerAssumption
  <2>2. BookedSlots(L, e) = BookedSlots(D, e) \cup row
    <3>1. ASSUME NEW s \in BookedSlots(L, e) PROVE s \in BookedSlots(D, e) \cup row
      BY <3>1, <1>0 DEF BookedSlots
    <3>2. ASSUME NEW s \in BookedSlots(D, e) PROVE s \in BookedSlots(L, e)
      BY <3>2 DEF BookedSlots
    <3>3. ASSUME NEW s \in row PROVE s \in BookedSlots(L, e)
      BY <3>3, <2>1, <1>0 DEF BookedSlots
    <3> QED BY <3>1, <3>2, <3>3
  <2>3. BookedSlots(D, e) \cap row = {}
    BY DEF BookedSlots
  <2>4. IsFiniteSet(row) /\ Cardinality(row) = n
    BY <2>1, RowSize
  <2> HIDE DEF row
  <2>5. Cardinality(BookedSlots(L, e)) = Cardinality(BookedSlots(D, e)) + n - Cardinality({})
    BY <2>2, <2>3, <2>4, SlotsFinite, FS_Union
  <2> QED BY <1>2, <2>1, <2>5, FS_EmptySet, SlotsFinite
<1> QED BY <1>1, <1>2

----------------------------------------------------------------------------
\* _drop_reservation keeps the books: the freed tokens are the dropped booking's.
LEMMA DropSound ==
    ASSUME NEW L, Sound(L), NEW t \in Ids
    PROVE  Sound(DropReservation(L, t)) /\ DropReservation(L, t).reservation[t] = NoReservation
<1> DEFINE D == DropReservation(L, t)
           r == L.reservation[t]
<1>1. CASE r = NoReservation
  BY <1>1 DEF DropReservation
<1>2. CASE r # NoReservation
  <2>1. r \in Reservation /\ r.engine \in Engines /\ r.tokens \in Int
    BY <1>2 DEF Sound, Ledger, Reservation
  <2>2. D = [reserved    |-> [L.reserved EXCEPT ![r.engine] = @ - r.tokens],
             reservation |-> [L.reservation EXCEPT ![t] = NoReservation],
             lastTurns   |-> L.lastTurns]
    BY <1>2 DEF DropReservation
  <2>3. D \in Ledger
    BY <2>1, <2>2 DEF Sound, Ledger
  <2>4. D.reservation[t] = NoReservation /\ \A u \in Ids \ {t} : D.reservation[u] = L.reservation[u]
    BY <2>1, <2>2 DEF Sound, Ledger
  <2>5. \A e \in Engines : D.reserved[e] = L.reserved[e] - (IF e = r.engine THEN r.tokens ELSE 0)
    BY <2>1, <2>2 DEF Sound, Ledger
  <2>6. r.tokens \in 0..KvTokenBudget(r.engine, "capacity")
    BY <1>2 DEF Sound, BookingsInRange
  <2>7. r.tokens \in 0..Capacity[r.engine]
    BY <2>1, <2>6, BudgetRange, KVLedgerAssumption
  <2>8. r = [engine |-> r.engine, tokens |-> r.tokens]
    BY <2>1 DEF Reservation
  <2> HIDE DEF D, r
  <2>9. \A e \in Engines : Cardinality(BookedSlots(L, e)) =
            Cardinality(BookedSlots(D, e)) + (IF e = r.engine THEN r.tokens ELSE 0)
    <3>1. L.reservation[t] = [engine |-> r.engine, tokens |-> r.tokens]
      BY <2>8 DEF r
    <3> QED BY <3>1, <2>1, <2>4, <2>7, OneMoreBooking
  <2>10. Balanced(D)
    BY <2>1, <2>5, <2>9, SlotsFinite DEF Sound, Balanced
  <2>11. BookingsInRange(D)
    BY <2>4 DEF Sound, BookingsInRange
  <2>12. WithinBudget(D)
    <3> SUFFICES ASSUME NEW e \in Engines
                 PROVE  D.reserved[e] \in 0..KvTokenBudget(e, "capacity")
      BY DEF WithinBudget
    <3>1. D.reserved[e] \in Nat
      BY <2>10, SlotsFinite DEF Balanced
    <3>2. L.reserved[e] \in Int /\ L.reserved[e] <= KvTokenBudget(e, "capacity")
      BY BudgetRange, KVLedgerAssumption DEF Sound, WithinBudget, Ledger
    <3>3. D.reserved[e] <= L.reserved[e]
      BY <2>1, <2>5, <2>7, <3>2
    <3> QED BY <3>1, <3>2, <3>3, BudgetRange, KVLedgerAssumption
  <2> QED BY <2>3, <2>4, <2>10, <2>11, <2>12 DEF Sound, D
<1> QED BY <1>1, <1>2

\* Booking n tokens of e for a request that holds nothing keeps the books, and the budget
\* when they fit.
LEMMA BookSound ==
    ASSUME NEW D, Sound(D), NEW t \in Ids, D.reservation[t] = NoReservation,
           NEW e \in Engines, NEW n \in Nat, D.reserved[e] + n <= KvTokenBudget(e, "capacity")
    PROVE  Sound([reserved    |-> [D.reserved EXCEPT ![e] = @ + n],
                  reservation |-> [D.reservation EXCEPT ![t] = [engine |-> e, tokens |-> n]],
                  lastTurns   |-> D.lastTurns])
<1> DEFINE budget == KvTokenBudget(e, "capacity")
           R == [reserved    |-> [D.reserved EXCEPT ![e] = @ + n],
                 reservation |-> [D.reservation EXCEPT ![t] = [engine |-> e, tokens |-> n]],
                 lastTurns   |-> D.lastTurns]
<1>1. D \in Ledger
  BY DEF Sound
<1>2. R \in Ledger
  BY <1>1 DEF Ledger, Reservation
<1>3. /\ R.reservation[t] = [engine |-> e, tokens |-> n]
      /\ \A u \in Ids \ {t} : R.reservation[u] = D.reservation[u]
  BY <1>1 DEF Ledger
<1>4. \A d \in Engines : R.reserved[d] = D.reserved[d] + (IF d = e THEN n ELSE 0)
  BY <1>1 DEF Ledger
<1>5. budget \in Nat /\ budget <= Capacity[e] /\ Capacity[e] \in Nat
  BY BudgetRange, KVLedgerAssumption
<1>6. D.reserved[e] \in 0..budget
  BY DEF Sound, WithinBudget
<1> HIDE DEF budget, R
<1>7. D.reserved[e] + n <= budget
  BY DEF budget
<1>8. n <= budget /\ n \in 0..Capacity[e]
  BY <1>5, <1>6, <1>7
<1>9. Balanced(R)
  <2>1. \A d \in Engines : Cardinality(BookedSlots(R, d)) =
            Cardinality(BookedSlots(D, d)) + (IF d = e THEN n ELSE 0)
    BY <1>3, <1>8, OneMoreBooking
  <2> QED BY <2>1, <1>4 DEF Balanced, Sound
<1>10. BookingsInRange(R)
  BY <1>3, <1>5, <1>8 DEF BookingsInRange, Sound, budget
<1>11. WithinBudget(R)
  <2> SUFFICES ASSUME NEW d \in Engines
               PROVE  R.reserved[d] \in 0..KvTokenBudget(d, "capacity")
    BY DEF WithinBudget
  <2>1. D.reserved[d] \in 0..KvTokenBudget(d, "capacity")
    BY DEF Sound, WithinBudget
  <2>2. CASE d # e
    BY <2>1, <2>2, <1>4, BudgetRange, KVLedgerAssumption
  <2>3. CASE d = e
    BY <2>3, <1>4, <1>5, <1>6, <1>7 DEF budget
  <2> QED BY <2>2, <2>3
<1> QED BY <1>2, <1>9, <1>10, <1>11 DEF Sound, R

\* reserve keeps the books and the budget when it follows a check that found room:
\* the old booking is out of the count on both sides.
LEMMA ReserveSound ==
    ASSUME NEW L, Sound(L), NEW t \in Ids, NEW prompt \in Nat,
           NEW e \in Engines, NEW report \in Reports, Fits(L, t, prompt, e, report)
    PROVE  Sound(Reserve(L, t, prompt, e, report))
<1> DEFINE D == DropReservation(L, t)
           budget == KvTokenBudget(e, "capacity")
           n == Smaller(KvTokensNeeded(L, t, prompt), budget)
           R == Reserve(L, t, prompt, e, report)
<1>1. report = "capacity"
  BY BudgetOfUnknown DEF Fits
<1>2. Sound(D) /\ D.reservation[t] = NoReservation
  BY DropSound
<1>3. n \in Nat
  BY NeedIsNat, BudgetRange, KVLedgerAssumption DEF Smaller, Sound
<1>4. R = [reserved    |-> [D.reserved EXCEPT ![e] = @ + n],
           reservation |-> [D.reservation EXCEPT ![t] = [engine |-> e, tokens |-> n]],
           lastTurns   |-> D.lastTurns]
  BY <1>1 DEF Reserve
<1>5. L.reserved[e] - OwnTokens(L, t, e) + n <= budget
  BY <1>1 DEF Fits
<1>6. D.reserved[e] = L.reserved[e] - OwnTokens(L, t, e)
  BY DEF Sound, Ledger, Reservation, DropReservation, OwnTokens
<1>7. D.reserved[e] + n <= budget
  BY <1>5, <1>6
<1> HIDE DEF D, n, R
<1>8. Sound(R)
  BY <1>2, <1>3, <1>4, <1>7, BookSound
<1> QED BY <1>8 DEF R

\* The first booking of a new plugin is sound without a check when the engine reports its
\* capacity, and when the budget is less than the whole capacity: an engine that reports
\* none is then booked with 0 tokens.
LEMMA FirstReserveSound ==
    ASSUME Sound(EmptyLedger), NEW t \in Ids, NEW prompt \in Nat,
           NEW e \in Engines, NEW report \in Reports,
           report = "capacity" \/ FractionNum < FractionDen
    PROVE  Sound(Reserve(EmptyLedger, t, prompt, e, report))
<1> DEFINE n == Smaller(KvTokensNeeded(EmptyLedger, t, prompt), KvTokenBudget(e, report))
           R == Reserve(EmptyLedger, t, prompt, e, report)
<1>1. EmptyLedger.reservation[t] = NoReservation /\ EmptyLedger.reserved[e] = 0
  BY DEF EmptyLedger
<1>2. n \in Nat /\ 0 + n <= KvTokenBudget(e, "capacity")
  <2>1. /\ KvTokensNeeded(EmptyLedger, t, prompt) \in Nat
        /\ KvTokenBudget(e, "capacity") \in Nat
    BY NeedIsNat, BudgetRange, KVLedgerAssumption DEF Sound
  <2>2. CASE report = "capacity"
    BY <2>1, <2>2 DEF Smaller
  <2>3. CASE report # "capacity"
    <3>1. KvTokenBudget(e, report) = -((1 * FractionNum) \div FractionDen)
      BY <2>3 DEF KvTokenBudget, ReportedCapacity
    <3>2. \A a, d \in Nat : a < d => (1 * a) \div d = 0
      OBVIOUS
    <3>3. KvTokenBudget(e, report) = 0
      BY <2>3, <3>1, <3>2, KVLedgerAssumption
    <3> QED BY <2>1, <3>3 DEF Smaller
  <2> QED BY <2>2, <2>3
<1>3. R = [reserved    |-> [EmptyLedger.reserved EXCEPT ![e] = @ + n],
           reservation |-> [EmptyLedger.reservation EXCEPT ![t] = [engine |-> e, tokens |-> n]],
           lastTurns   |-> EmptyLedger.lastTurns]
  BY <1>1 DEF Reserve, DropReservation
<1> HIDE DEF n, R
<1>4. Sound(R)
  BY <1>1, <1>2, <1>3, BookSound
<1> QED BY <1>4 DEF R

----------------------------------------------------------------------------
\* Each trajectory once.
DistinctIds(turns) == \A i, j \in DOMAIN turns : turns[i].id = turns[j].id => i = j

\* Taking one element out of a sequence moves those behind it up by one.
LEMMA RemovedAt ==
    ASSUME NEW S, NEW seq \in Seq(S), NEW i \in DOMAIN seq
    PROVE  /\ RemoveAt(seq, i) \in Seq(S) /\ Len(RemoveAt(seq, i)) = Len(seq) - 1
           /\ \A k \in 1..(Len(seq) - 1) : k < i => RemoveAt(seq, i)[k] = seq[k]
           /\ \A k \in 1..(Len(seq) - 1) : k >= i => RemoveAt(seq, i)[k] = seq[k + 1]
<1> DEFINE n == Len(seq)
           front == SubSeq(seq, 1, i - 1)
           back == SubSeq(seq, i + 1, n)
           rest == RemoveAt(seq, i)
<1>1. n \in Nat /\ i \in 1..n /\ DOMAIN seq = 1..n /\ \A k \in 1..n : seq[k] \in S
  BY LenProperties, ElementOfSeq
<1>2. front \in Seq(S) /\ Len(front) = i - 1 /\ \A k \in 1..(i - 1) : front[k] = seq[k]
  BY <1>1, SubSeqProperties
<1>3. back \in Seq(S) /\ Len(back) = n - i /\ \A k \in 1..(n - i) : back[k] = seq[i + k]
  BY <1>1, SubSeqProperties
<1>4. rest = front \o back
  BY DEF RemoveAt
<1> HIDE DEF front, back, rest, n
<1>5. rest \in Seq(S) /\ Len(rest) = n - 1
  <2>1. rest \in Seq(S) /\ Len(rest) = Len(front) + Len(back)
    BY <1>2, <1>3, <1>4, ConcatProperties
  <2> QED BY <2>1, <1>1, <1>2, <1>3
<1>6. ASSUME NEW k \in 1..(n - 1), k < i PROVE rest[k] = seq[k]
  <2>1. rest[k] = front[k]
    BY <1>6, <1>1, <1>2, <1>3, <1>4, ConcatProperties
  <2> QED BY <1>6, <2>1, <1>1, <1>2
<1>7. ASSUME NEW k \in 1..(n - 1), k >= i PROVE rest[k] = seq[k + 1]
  <2>1. k - (i - 1) \in 1..(n - i) /\ i + (k - (i - 1)) = k + 1
    BY <1>7, <1>1
  <2>2. Len(front) = i - 1 /\ i - 1 \in Nat /\ Len(back) = n - i /\ n - i \in Nat
    BY <1>1, <1>2, <1>3
  <2>3. k \in 1..(Len(front) + Len(back)) /\ ~(k <= Len(front))
    BY <1>7, <1>1, <2>2
  <2>4. (front \o back)[k] = back[k - Len(front)]
    BY <1>2, <1>3, <2>3, ConcatProperties
  <2>5. rest[k] = back[k - (i - 1)]
    BY <1>4, <2>2, <2>4
  <2> QED BY <2>5, <2>1, <1>1, <1>3
<1> QED BY <1>5, <1>6, <1>7 DEF rest, n

\* What move_to_end does before the append: the trajectory's old entry is taken out and
\* no other entry is lost, doubled or left without its place.
LEMMA RemovedTurn ==
    ASSUME NEW turns \in Seq(LastTurn), DistinctIds(turns), NEW i \in DOMAIN turns
    PROVE  /\ RemoveAt(turns, i) \in Seq(LastTurn)
           /\ Len(RemoveAt(turns, i)) = Len(turns) - 1
           /\ DistinctIds(RemoveAt(turns, i))
           /\ \A k \in DOMAIN RemoveAt(turns, i) : RemoveAt(turns, i)[k].id # turns[i].id
<1> DEFINE n == Len(turns)
           rest == RemoveAt(turns, i)
           old(k) == IF k < i THEN k ELSE k + 1
<1>1. n \in Nat /\ i \in 1..n /\ DOMAIN turns = 1..n
  BY LenProperties
<1>2. /\ rest \in Seq(LastTurn) /\ Len(rest) = n - 1
      /\ \A k \in 1..(n - 1) : k < i => rest[k] = turns[k]
      /\ \A k \in 1..(n - 1) : k >= i => rest[k] = turns[k + 1]
  BY RemovedAt
<1> HIDE DEF rest, n
<1>3. DOMAIN rest = 1..(n - 1)
  BY <1>2, LenProperties
<1>4. ASSUME NEW k \in 1..(n - 1) PROVE old(k) \in 1..n /\ old(k) # i /\ rest[k] = turns[old(k)]
  BY <1>1, <1>2
<1>5. DistinctIds(rest)
  <2> SUFFICES ASSUME NEW j \in 1..(n - 1), NEW k \in 1..(n - 1), rest[j].id = rest[k].id
               PROVE  j = k
    BY <1>3 DEF DistinctIds
  <2>1. old(j) = old(k)
    <3>1. rest[j] = turns[old(j)] /\ rest[k] = turns[old(k)] /\ old(j) \in 1..n /\ old(k) \in 1..n
      BY <1>4
    <3> HIDE DEF old
    <3> QED BY <3>1, <1>1 DEF DistinctIds
  <2> QED BY <2>1, <1>1
<1>6. \A k \in DOMAIN rest : rest[k].id # turns[i].id
  <2> SUFFICES ASSUME NEW k \in 1..(n - 1) PROVE rest[k].id # turns[i].id
    BY <1>3
  <2>1. rest[k] = turns[old(k)] /\ old(k) \in 1..n /\ old(k) # i
    BY <1>4
  <2> HIDE DEF old
  <2> QED BY <2>1, <1>1 DEF DistinctIds
<1> QED BY <1>2, <1>5, <1>6 DEF rest, n

\* The memory of last turns holds each trajectory once and stays within its bound.
LEMMA RememberBounded ==
    ASSUME NEW turns \in Seq(LastTurn), DistinctIds(turns), Len(turns) <= MaxRemembered,
           NEW turn \in LastTurn
    PROVE  /\ Remember(turns, turn) \in Seq(LastTurn)
           /\ DistinctIds(Remember(turns, turn))
           /\ Len(Remember(turns, turn)) <= MaxRemembered
<1> DEFINE known == \E i \in DOMAIN turns : turns[i].id = turn.id
           others == IF known
                     THEN RemoveAt(turns, CHOOSE i \in DOMAIN turns : turns[i].id = turn.id)
                     ELSE turns
           moved == Append(others, turn)
<1>1. /\ others \in Seq(LastTurn)
      /\ Len(others) <= MaxRemembered
      /\ DistinctIds(others)
      /\ \A k \in DOMAIN others : others[k].id # turn.id
  <2>1. CASE known
    <3>1. PICK i \in DOMAIN turns :
             turns[i].id = turn.id /\ i = (CHOOSE j \in DOMAIN turns : turns[j].id = turn.id)
      BY <2>1
    <3>2. others = RemoveAt(turns, i)
      BY <2>1, <3>1
    <3> HIDE DEF others, known
    <3>3. /\ others \in Seq(LastTurn) /\ Len(others) = Len(turns) - 1
          /\ DistinctIds(others)
          /\ \A k \in DOMAIN others : others[k].id # turns[i].id
      <4>1. /\ RemoveAt(turns, i) \in Seq(LastTurn) /\ Len(RemoveAt(turns, i)) = Len(turns) - 1
            /\ DistinctIds(RemoveAt(turns, i))
            /\ \A k \in DOMAIN RemoveAt(turns, i) : RemoveAt(turns, i)[k].id # turns[i].id
        BY <3>1, RemovedTurn
      <4> QED BY <3>2, <4>1
    <3>4. Len(turns) \in Nat /\ MaxRemembered \in Nat
      BY LenProperties, KVLedgerAssumption
    <3>5. turns[i].id = turn.id
      BY <3>1
    <3>6. Len(others) <= MaxRemembered
      BY <3>3, <3>4
    <3> QED BY <3>3, <3>5, <3>6
  <2>2. CASE ~known
    BY <2>2
  <2> QED BY <2>1, <2>2
<1>2. Remember(turns, turn) = IF Len(moved) > MaxRemembered THEN Tail(moved) ELSE moved
  BY DEF Remember
<1> HIDE DEF others, known
<1>3. /\ moved \in Seq(LastTurn)
      /\ Len(moved) = Len(others) + 1
      /\ \A k \in 1..Len(others) : moved[k] = others[k]
      /\ moved[Len(others) + 1] = turn
  BY <1>1, AppendProperties
<1>4. Len(others) \in Nat /\ DOMAIN others = 1..Len(others) /\ DOMAIN moved = 1..(Len(others) + 1)
  BY <1>1, <1>3, LenProperties
<1> HIDE DEF moved
<1>5. DistinctIds(moved)
  BY <1>1, <1>3, <1>4 DEF DistinctIds
<1>6. CASE Len(moved) > MaxRemembered
  <2>1. /\ Tail(moved) \in Seq(LastTurn)
        /\ Len(Tail(moved)) = Len(others)
        /\ \A k \in 1..Len(others) : Tail(moved)[k] = moved[k + 1]
    BY <1>3, <1>4, HeadTailProperties, EmptySeq
  <2>2. DOMAIN Tail(moved) = 1..Len(others)
    BY <2>1, <1>4, LenProperties
  <2>3. DistinctIds(Tail(moved))
    BY <2>1, <2>2, <1>4, <1>5 DEF DistinctIds
  <2> QED BY <1>1, <1>2, <1>6, <2>1, <2>3
<1>7. CASE Len(moved) <= MaxRemembered
  BY <1>2, <1>3, <1>4, <1>5, <1>7, KVLedgerAssumption
<1> QED BY <1>3, <1>4, <1>6, <1>7, KVLedgerAssumption

\* release keeps a sound ledger sound, whether or not the output length is reported.
LEMMA ReleaseSound ==
    ASSUME NEW L, Sound(L), DistinctIds(L.lastTurns), Len(L.lastTurns) <= MaxRemembered,
           NEW t \in Ids, NEW output, output = {} \/ \E o \in Nat : output = {o}
    PROVE  /\ Sound(Release(L, t, output))
           /\ DistinctIds(Release(L, t, output).lastTurns)
           /\ Len(Release(L, t, output).lastTurns) <= MaxRemembered
<1> DEFINE D == DropReservation(L, t)
<1>1. Sound(D) /\ D.lastTurns = L.lastTurns
  BY DropSound DEF DropReservation
<1>2. CASE L.reservation[t] = NoReservation \/ output = {}
  BY <1>1, <1>2 DEF Release
<1>3. CASE L.reservation[t] # NoReservation /\ output # {}
  <2> DEFINE turn == [id |-> t, engine |-> L.reservation[t].engine,
                      output |-> CHOOSE o \in output : TRUE]
             R == Release(L, t, output)
  <2>1. R = [reserved |-> D.reserved, reservation |-> D.reservation,
             lastTurns |-> Remember(D.lastTurns, turn)]
    BY <1>3 DEF Release
  <2>2. turn \in LastTurn
    <3>1. L.reservation[t].engine \in Engines
      BY <1>3 DEF Sound, Ledger, Reservation
    <3>2. (CHOOSE o \in output : TRUE) \in Nat
      BY <1>3
    <3> QED BY <3>1, <3>2 DEF LastTurn
  <2> HIDE DEF D, turn, R
  <2>3. D.lastTurns \in Seq(LastTurn)
    BY <1>1 DEF Sound, Ledger
  <2>4. /\ R.lastTurns \in Seq(LastTurn)
        /\ DistinctIds(R.lastTurns)
        /\ Len(R.lastTurns) <= MaxRemembered
    BY <1>1, <2>1, <2>2, <2>3, RememberBounded
  <2>5. R \in Ledger
    BY <1>1, <2>1, <2>4 DEF Sound, Ledger
  <2>6. Balanced(R) /\ BookingsInRange(R) /\ WithinBudget(R)
    <3>1. R.reserved = D.reserved /\ R.reservation = D.reservation
      BY <2>1
    <3>2. \A e \in Engines : BookedSlots(R, e) = BookedSlots(D, e)
      BY <3>1 DEF BookedSlots
    <3> QED BY <1>1, <3>1, <3>2 DEF Sound, Balanced, BookingsInRange, WithinBudget
  <2> QED BY <2>4, <2>5, <2>6 DEF Sound, R
<1> QED BY <1>2, <1>3

\* A new plugin object is sound.
LEMMA EmptySound == Sound(EmptyLedger) /\ DistinctIds(EmptyLedger.lastTurns)
                    /\ Len(EmptyLedger.lastTurns) <= MaxRemembered
<1>1. EmptyLedger \in Ledger
  BY EmptySeq DEF EmptyLedger, Ledger
<1>2. \A e \in Engines : BookedSlots(EmptyLedger, e) = {}
  BY DEF BookedSlots, EmptyLedger
<1>3. Balanced(EmptyLedger)
  BY <1>2, FS_EmptySet DEF Balanced, EmptyLedger
<1>4. WithinBudget(EmptyLedger)
  <2> SUFFICES ASSUME NEW e \in Engines PROVE 0 \in 0..KvTokenBudget(e, "capacity")
    BY DEF WithinBudget, EmptyLedger
  <2> QED BY BudgetRange, KVLedgerAssumption
<1>5. BookingsInRange(EmptyLedger)
  BY DEF BookingsInRange, EmptyLedger
<1>6. EmptyLedger.lastTurns = << >>
  BY DEF EmptyLedger
<1> QED BY <1>1, <1>3, <1>4, <1>5, <1>6, EmptySeq, KVLedgerAssumption DEF Sound, DistinctIds

----------------------------------------------------------------------------
(* The plugin as a state machine. *)

IInv == /\ Sound(ledger)
        /\ DistinctIds(ledger.lastTurns)
        /\ Len(ledger.lastTurns) <= MaxRemembered

LEMMA InitIInv == PluginInit => IInv
  BY EmptySound DEF PluginInit, IInv

\* Admission: the engine is chosen among those that fit, so reserve keeps the budget.
LEMMA AdmitIInv ==
    ASSUME NEW t \in Ids, NEW prompt \in Prompts, NEW view \in Views,
           IInv, Admit(t, prompt, view)
    PROVE  IInv'
<1>1. PICK e \in AllowedCandidates(ledger, t, prompt, view) :
         ledger' = Reserve(ledger, t, prompt, e, view[e])
  BY DEF Admit
<1>2. e \in DOMAIN view /\ Fits(ledger, t, prompt, e, view[e])
  BY DEF AllowedCandidates
<1>3. e \in Engines /\ view[e] \in Reports
  <2>1. PICK named \in SUBSET Engines : view \in [named -> Reports]
    BY DEF Views
  <2> QED BY <1>2, <2>1
<1>4. Sound(ledger')
  BY <1>1, <1>2, <1>3, ReserveSound, KVSaturationAssumption DEF IInv
<1>5. ledger'.lastTurns = ledger.lastTurns
  BY <1>1 DEF Reserve, DropReservation
<1> QED BY <1>4, <1>5 DEF IInv

LEMMA FinishIInv ==
    ASSUME NEW t \in Ids, NEW output \in ReportedOutputs, IInv, FinishTurn(t, output)
    PROVE  IInv'
<1>1. output = {} \/ \E o \in Nat : output = {o}
  BY KVSaturationAssumption DEF ReportedOutputs
<1> QED BY <1>1, ReleaseSound DEF IInv, FinishTurn

LEMMA Inductive == IInv /\ [PluginNext]_ledger => IInv'
<1> SUFFICES ASSUME IInv, [PluginNext]_ledger PROVE IInv'
  OBVIOUS
<1>1. CASE UNCHANGED ledger
  BY <1>1 DEF IInv
<1>2. CASE \E t \in Ids, prompt \in Prompts, view \in Views : Admit(t, prompt, view)
  BY <1>2, AdmitIInv
<1>3. CASE \E t \in Ids, output \in ReportedOutputs : FinishTurn(t, output)
  BY <1>3, FinishIInv
<1> QED BY <1>1, <1>2, <1>3 DEF PluginNext

LEMMA IInvAlways == PluginSpec => []IInv
  BY InitIInv, Inductive, PTL DEF PluginSpec

----------------------------------------------------------------------------
\* The ledger keeps the shape of the plugin's dicts; the memory of last turns keeps each
\* trajectory once and no more than its bound of them.
THEOREM TypeCorrect == PluginSpec => []PluginTypeOK
<1>1. IInv => PluginTypeOK
  BY DEF IInv, Sound, PluginTypeOK, DistinctIds
<1> QED BY <1>1, IInvAlways, PTL

\* _reserved_by_engine always equals the sum of the live reservations of each engine.
THEOREM BooksBalance == PluginSpec => []LedgerBalanced
<1>1. IInv => LedgerBalanced
  BY DEF IInv, Sound, LedgerBalanced
<1> QED BY <1>1, IInvAlways, PTL

\* No engine is ever promised more than its budget, nor less than nothing.
THEOREM BudgetRespected == PluginSpec => []NeverOverBudget
<1>1. IInv => NeverOverBudget
  BY DEF IInv, Sound, NeverOverBudget
<1> QED BY <1>1, IInvAlways, PTL

\* Two bookings on one engine together hold no more than is reserved there.
LEMMA TwoBookings ==
    ASSUME NEW L, Sound(L), NEW t \in Ids, NEW u \in Ids, t # u,
           L.reservation[t] # NoReservation, L.reservation[u] # NoReservation,
           L.reservation[t].engine = L.reservation[u].engine
    PROVE  L.reservation[t].tokens + L.reservation[u].tokens
               <= L.reserved[L.reservation[t].engine]
<1> DEFINE e == L.reservation[t].engine
           m == L.reservation[t].tokens
           n == L.reservation[u].tokens
           rowt == {t} \X (1..m)
           rowu == {u} \X (1..n)
<1>1. e \in Engines /\ m \in 0..KvTokenBudget(e, "capacity") /\ n \in 0..KvTokenBudget(e, "capacity")
  BY DEF Sound, BookingsInRange, Ledger, Reservation
<1>2. m \in 0..Capacity[e] /\ n \in 0..Capacity[e] /\ Capacity[e] \in Nat
  BY <1>1, BudgetRange, KVLedgerAssumption
<1>3. rowt \cup rowu \subseteq BookedSlots(L, e)
  BY <1>2 DEF BookedSlots
<1>4. rowt \cap rowu = {}
  OBVIOUS
<1>5. /\ IsFiniteSet(rowt) /\ Cardinality(rowt) = m
      /\ IsFiniteSet(rowu) /\ Cardinality(rowu) = n
  <2> HIDE DEF m, n, e
  <2>1. m \in Nat /\ n \in Nat
    BY <1>2
  <2> QED BY <2>1, RowSize
<1>6. L.reserved[e] = Cardinality(BookedSlots(L, e))
  BY <1>1 DEF Sound, Balanced
<1> HIDE DEF rowt, rowu, m, n, e
<1>7. Cardinality(rowt \cup rowu) = m + n
  <2>1. Cardinality(rowt \cup rowu) = m + n - Cardinality({})
    BY <1>4, <1>5, FS_Union
  <2> QED BY <2>1, <1>2, FS_EmptySet
<1>8. Cardinality(rowt \cup rowu) <= Cardinality(BookedSlots(L, e))
  BY <1>1, <1>3, SlotsFinite, FS_Subset
<1> QED BY <1>6, <1>7, <1>8 DEF e, m, n

\* A request that holds an engine's whole budget shares it with no other token.
THEOREM OversizeAlone == PluginSpec => []OversizeRunsAlone
<1>1. IInv => OversizeRunsAlone
  <2> SUFFICES ASSUME IInv, NEW t \in Ids, NEW u \in Ids, t # u,
                      ledger.reservation[t] # NoReservation,
                      ledger.reservation[u] # NoReservation,
                      ledger.reservation[t].engine = ledger.reservation[u].engine,
                      ledger.reservation[t].tokens =
                          KvTokenBudget(ledger.reservation[t].engine, "capacity")
               PROVE  ledger.reservation[u].tokens = 0
    BY DEF OversizeRunsAlone
  <2> DEFINE e == ledger.reservation[t].engine
             m == ledger.reservation[t].tokens
             n == ledger.reservation[u].tokens
  <2>1. e \in Engines /\ n \in 0..KvTokenBudget(e, "capacity")
    BY DEF IInv, Sound, BookingsInRange, Ledger, Reservation
  <2>2. m + n <= ledger.reserved[e]
    BY TwoBookings DEF IInv
  <2>3. ledger.reserved[e] \in 0..KvTokenBudget(e, "capacity")
    BY <2>1 DEF IInv, Sound, WithinBudget
  <2>4. KvTokenBudget(e, "capacity") \in Nat
    BY <2>1, BudgetRange, KVLedgerAssumption
  <2>5. m = KvTokenBudget(e, "capacity")
    OBVIOUS
  <2> HIDE DEF e, m, n
  <2>6. n = 0
    BY <2>1, <2>2, <2>3, <2>4, <2>5
  <2> QED BY <2>6 DEF n
<1> QED BY <1>1, IInvAlways, PTL

----------------------------------------------------------------------------
(* What is remembered. *)

\* The turns remembered are of the last of the ids, in their order.
EndOf(ids, turns) ==
    /\ Len(turns) = Smaller(MaxRemembered, Len(ids))
    /\ \A k \in 1..Len(turns) : turns[k].id = ids[Len(ids) - Len(turns) + k]

\* The ids without one, and the turns without its turn.
Without(ids, t) ==
    IF \E i \in DOMAIN ids : ids[i] = t
    THEN RemoveAt(ids, CHOOSE i \in DOMAIN ids : ids[i] = t) ELSE ids
TurnsWithout(turns, t) ==
    IF \E i \in DOMAIN turns : turns[i].id = t
    THEN RemoveAt(turns, CHOOSE i \in DOMAIN turns : turns[i].id = t) ELSE turns

\* The rest of the turns is still of the last of the rest of the ids; and as many turns as
\* are to be remembered with one more id are there with one more turn, or already.
RestEnds(rest, others) ==
    /\ Len(others) <= Len(rest)
    /\ \A k \in 1..Len(others) : others[k].id = rest[Len(rest) - Len(others) + k]
    /\ Len(others) + 1 > MaxRemembered => Smaller(MaxRemembered, Len(rest) + 1) = Len(others)
    /\ Len(others) + 1 <= MaxRemembered => Smaller(MaxRemembered, Len(rest) + 1) = Len(others) + 1

\* Taking an id out leaves the others once each.
LEMMA WithoutSpec ==
    ASSUME NEW ids \in Seq(Ids), IsInjective(ids), NEW t
    PROVE  /\ Without(ids, t) \in Seq(Ids) /\ IsInjective(Without(ids, t))
           /\ \A k \in DOMAIN Without(ids, t) : Without(ids, t)[k] # t
<1> DEFINE n == Len(ids)
           rest == Without(ids, t)
<1>1. n \in Nat /\ DOMAIN ids = 1..n
  BY LenProperties
<1>2. CASE \E i \in DOMAIN ids : ids[i] = t
  <2> DEFINE old(k, i) == IF k < i THEN k ELSE k + 1
  <2>1. PICK i \in 1..n : ids[i] = t /\ rest = RemoveAt(ids, i)
    BY <1>1, <1>2 DEF Without
  <2> HIDE DEF rest
  <2>2. /\ rest \in Seq(Ids) /\ Len(rest) = n - 1
        /\ \A k \in 1..(n - 1) : k < i => rest[k] = ids[k]
        /\ \A k \in 1..(n - 1) : k >= i => rest[k] = ids[k + 1]
    <3>1. i \in DOMAIN ids
      BY <1>1
    <3>2. /\ RemoveAt(ids, i) \in Seq(Ids) /\ Len(RemoveAt(ids, i)) = Len(ids) - 1
          /\ \A k \in 1..(Len(ids) - 1) : k < i => RemoveAt(ids, i)[k] = ids[k]
          /\ \A k \in 1..(Len(ids) - 1) : k >= i => RemoveAt(ids, i)[k] = ids[k + 1]
      BY <3>1, RemovedAt
    <3> QED BY <2>1, <3>2
  <2>3. DOMAIN rest = 1..(n - 1)
    BY <2>2, LenProperties
  <2> HIDE DEF n
  <2>4. ASSUME NEW k \in 1..(n - 1)
        PROVE  old(k, i) \in 1..n /\ old(k, i) # i /\ rest[k] = ids[old(k, i)]
    BY <1>1, <2>2
  <2>5. IsInjective(rest)
    <3> SUFFICES ASSUME NEW j \in 1..(n - 1), NEW k \in 1..(n - 1), rest[j] = rest[k] PROVE j = k
      BY <2>3 DEF IsInjective
    <3>1. old(j, i) = old(k, i)
      <4>1. /\ rest[j] = ids[old(j, i)] /\ rest[k] = ids[old(k, i)]
            /\ old(j, i) \in 1..n /\ old(k, i) \in 1..n
        BY <2>4
      <4> HIDE DEF old
      <4> QED BY <4>1, <1>1 DEF IsInjective
    <3> QED BY <3>1, <1>1
  <2>6. ASSUME NEW k \in DOMAIN rest PROVE rest[k] # t
    <3>1. rest[k] = ids[old(k, i)] /\ old(k, i) \in 1..n /\ old(k, i) # i
      BY <2>3, <2>4
    <3> HIDE DEF old
    <3> QED BY <3>1, <1>1, <2>1 DEF IsInjective
  <2> QED BY <2>2, <2>5, <2>6 DEF rest
<1>3. CASE ~\E i \in DOMAIN ids : ids[i] = t
  BY <1>3 DEF Without
<1> QED BY <1>2, <1>3

\* The id of a remembered turn is taken out in the same place from the end.
LEMMA RestOfKnown ==
    ASSUME NEW turns \in Seq(LastTurn), DistinctIds(turns),
           NEW ids \in Seq(Ids), IsInjective(ids), EndOf(ids, turns),
           NEW t, \E i \in DOMAIN turns : turns[i].id = t
    PROVE  RestEnds(Without(ids, t), TurnsWithout(turns, t))
<1> DEFINE n == Len(turns)
           m == Len(ids)
           others == TurnsWithout(turns, t)
           rest == Without(ids, t)
<1>1. /\ n \in Nat /\ DOMAIN turns = 1..n /\ m \in Nat /\ DOMAIN ids = 1..m
      /\ MaxRemembered \in Nat
  BY LenProperties, KVLedgerAssumption
<1>2. /\ n = Smaller(MaxRemembered, m)
      /\ \A k \in 1..n : turns[k].id = ids[m - n + k]
  BY DEF EndOf
<1>3. n <= m /\ n <= MaxRemembered
  BY <1>1, <1>2 DEF Smaller
<1>4. PICK i \in 1..n : turns[i].id = t /\ others = RemoveAt(turns, i)
  BY <1>1 DEF TurnsWithout
<1> HIDE DEF others, n, m
<1>5. m - n + i \in 1..m /\ ids[m - n + i] = t
  BY <1>1, <1>2, <1>3, <1>4
<1>6. rest = RemoveAt(ids, m - n + i)
  <2>1. PICK p \in 1..m : ids[p] = t /\ rest = RemoveAt(ids, p)
    BY <1>1, <1>5 DEF Without
  <2>2. p = m - n + i
    BY <1>1, <1>5, <2>1 DEF IsInjective
  <2> QED BY <2>1, <2>2
<1> HIDE DEF rest
<1>7. /\ Len(others) = n - 1
      /\ \A k \in 1..(n - 1) : k < i => others[k] = turns[k]
      /\ \A k \in 1..(n - 1) : k >= i => others[k] = turns[k + 1]
  <2>1. i \in DOMAIN turns
    BY <1>1
  <2>2. /\ RemoveAt(turns, i) \in Seq(LastTurn) /\ Len(RemoveAt(turns, i)) = Len(turns) - 1
        /\ \A k \in 1..(Len(turns) - 1) : k < i => RemoveAt(turns, i)[k] = turns[k]
        /\ \A k \in 1..(Len(turns) - 1) : k >= i => RemoveAt(turns, i)[k] = turns[k + 1]
    BY <2>1, RemovedAt
  <2> QED BY <1>4, <2>2 DEF n
<1>8. /\ Len(rest) = m - 1
      /\ \A k \in 1..(m - 1) : k < m - n + i => rest[k] = ids[k]
      /\ \A k \in 1..(m - 1) : k >= m - n + i => rest[k] = ids[k + 1]
  <2> DEFINE q == m - n + i
  <2>1. q \in DOMAIN ids
    BY <1>1, <1>5
  <2> HIDE DEF q
  <2>2. /\ RemoveAt(ids, q) \in Seq(Ids) /\ Len(RemoveAt(ids, q)) = Len(ids) - 1
        /\ \A k \in 1..(Len(ids) - 1) : k < q => RemoveAt(ids, q)[k] = ids[k]
        /\ \A k \in 1..(Len(ids) - 1) : k >= q => RemoveAt(ids, q)[k] = ids[k + 1]
    BY <2>1, RemovedAt
  <2> QED BY <1>6, <2>2 DEF m, q
<1>9. ASSUME NEW k \in 1..(n - 1) PROVE others[k].id = rest[(m - 1) - (n - 1) + k]
  <2>1. m - n + k \in 1..(m - 1) /\ (m - 1) - (n - 1) + k = m - n + k /\ k \in 1..n /\ k + 1 \in 1..n
    BY <1>1, <1>3
  <2>2. CASE k < i
    <3>1. others[k] = turns[k] /\ rest[m - n + k] = ids[m - n + k]
      BY <1>1, <1>7, <1>8, <2>1, <2>2
    <3> QED BY <1>2, <2>1, <3>1
  <2>3. CASE k >= i
    <3>1. others[k] = turns[k + 1] /\ rest[m - n + k] = ids[(m - n + k) + 1]
      <4>1. others[k] = turns[k + 1]
        BY <1>7, <2>3
      <4>2. m - n + k >= m - n + i
        BY <1>1, <2>3
      <4>3. rest[m - n + k] = ids[(m - n + k) + 1]
        BY <1>8, <2>1, <4>2
      <4> QED BY <4>1, <4>3
    <3>2. (m - n + k) + 1 = m - n + (k + 1)
      BY <1>1
    <3> QED BY <1>2, <2>1, <3>1, <3>2
  <2> QED BY <1>1, <2>2, <2>3
<1>10. Smaller(MaxRemembered, m) = n /\ (n - 1) + 1 = n /\ (m - 1) + 1 = m /\ n - 1 <= m - 1
  BY <1>1, <1>2, <1>3
<1>11. ~((n - 1) + 1 > MaxRemembered)
  BY <1>1, <1>3, <1>10
<1>12. RestEnds(rest, others)
  BY <1>7, <1>8, <1>9, <1>10, <1>11 DEF RestEnds
<1> QED BY <1>12 DEF rest, others

\* An id that is not remembered any more leaves from before the others.
LEMMA RestOfForgotten ==
    ASSUME NEW turns \in Seq(LastTurn), NEW ids \in Seq(Ids), IsInjective(ids),
           EndOf(ids, turns), NEW t, ~\E i \in DOMAIN turns : turns[i].id = t
    PROVE  RestEnds(Without(ids, t), TurnsWithout(turns, t))
<1> DEFINE n == Len(turns)
           m == Len(ids)
           rest == Without(ids, t)
<1>1. /\ n \in Nat /\ DOMAIN turns = 1..n /\ m \in Nat /\ DOMAIN ids = 1..m
      /\ MaxRemembered \in Nat
  BY LenProperties, KVLedgerAssumption
<1>2. /\ n = Smaller(MaxRemembered, m)
      /\ \A k \in 1..n : turns[k].id = ids[m - n + k]
  BY DEF EndOf
<1>3. n <= m /\ n <= MaxRemembered /\ (n < m => n = MaxRemembered) /\ (n < MaxRemembered => n = m)
  <2>1. \A x, y \in Nat : /\ Smaller(x, y) <= x /\ Smaller(x, y) <= y
                          /\ Smaller(x, y) < y => Smaller(x, y) = x
                          /\ Smaller(x, y) < x => Smaller(x, y) = y
    BY DEF Smaller
  <2> HIDE DEF n, m
  <2> QED BY <1>1, <1>2, <2>1
<1>4. TurnsWithout(turns, t) = turns
  BY DEF TurnsWithout
<1> HIDE DEF n, m, rest
<1>5. CASE \E i \in DOMAIN ids : ids[i] = t
  <2>1. PICK p \in 1..m : ids[p] = t /\ rest = RemoveAt(ids, p)
    BY <1>1, <1>5 DEF Without, rest
  <2>2. ~(p > m - n)
    <3>1. ASSUME p > m - n PROVE FALSE
      <4>1. p - (m - n) \in 1..n /\ m - n + (p - (m - n)) = p
        BY <1>1, <1>3, <3>1
      <4>2. turns[p - (m - n)].id = t
        BY <1>2, <2>1, <4>1
      <4> QED BY <1>1, <4>1, <4>2
    <3> QED BY <3>1
  <2>3. /\ Len(rest) = m - 1
        /\ \A k \in 1..(m - 1) : k >= p => rest[k] = ids[k + 1]
    <3>1. p \in DOMAIN ids
      BY <1>1, <2>1
    <3>2. /\ RemoveAt(ids, p) \in Seq(Ids) /\ Len(RemoveAt(ids, p)) = Len(ids) - 1
          /\ \A k \in 1..(Len(ids) - 1) : k < p => RemoveAt(ids, p)[k] = ids[k]
          /\ \A k \in 1..(Len(ids) - 1) : k >= p => RemoveAt(ids, p)[k] = ids[k + 1]
      BY <3>1, RemovedAt
    <3> QED BY <2>1, <3>2 DEF m
  <2>4. p <= m - n /\ n < m /\ n = MaxRemembered
    BY <1>1, <1>3, <2>1, <2>2
  <2>5. ASSUME NEW k \in 1..n PROVE turns[k].id = rest[(m - 1) - n + k]
    <3>1. (m - 1) - n + k \in 1..(m - 1) /\ (m - 1) - n + k >= p /\ ((m - 1) - n + k) + 1 = m - n + k
      BY <1>1, <2>1, <2>4
    <3>2. rest[(m - 1) - n + k] = ids[((m - 1) - n + k) + 1]
      BY <2>3, <3>1
    <3> QED BY <1>2, <3>1, <3>2
  <2>6. (m - 1) + 1 = m /\ Smaller(MaxRemembered, m) = n /\ n <= m - 1 /\ ~(n + 1 <= MaxRemembered)
    BY <1>1, <1>2, <2>4
  <2> QED BY <1>4, <2>3, <2>5, <2>6 DEF RestEnds, n, rest
<1>6. CASE ~\E i \in DOMAIN ids : ids[i] = t
  <2>1. rest = ids
    BY <1>6 DEF Without, rest
  <2>2. /\ n + 1 > MaxRemembered => Smaller(MaxRemembered, m + 1) = n
        /\ n + 1 <= MaxRemembered => Smaller(MaxRemembered, m + 1) = n + 1
    BY <1>1, <1>3 DEF Smaller
  <2> QED BY <1>2, <1>3, <1>4, <2>1, <2>2 DEF RestEnds, n, m, rest
<1> QED BY <1>5, <1>6

\* Remembering a turn keeps the turns remembered those of the last ids.
LEMMA RememberEnd ==
    ASSUME NEW turns \in Seq(LastTurn), DistinctIds(turns),
           NEW ids \in Seq(Ids), IsInjective(ids), EndOf(ids, turns), NEW turn \in LastTurn
    PROVE  /\ MovedToEnd(ids, turn.id) \in Seq(Ids) /\ IsInjective(MovedToEnd(ids, turn.id))
           /\ EndOf(MovedToEnd(ids, turn.id), Remember(turns, turn))
<1> DEFINE t == turn.id
           others == TurnsWithout(turns, t)
           rest == Without(ids, t)
           a == Len(others)
           b == Len(rest)
           moved == Append(others, turn)
           last == Append(rest, t)
<1>1. t \in Ids
  BY DEF LastTurn
<1>2. RestEnds(rest, others)
  BY RestOfKnown, RestOfForgotten
<1>3. others \in Seq(LastTurn)
  <2>1. CASE \E i \in DOMAIN turns : turns[i].id = t
    <3>1. PICK i \in DOMAIN turns : others = RemoveAt(turns, i)
      BY <2>1 DEF TurnsWithout
    <3> QED BY <3>1, RemovedAt
  <2>2. CASE ~\E i \in DOMAIN turns : turns[i].id = t
    BY <2>2 DEF TurnsWithout
  <2> QED BY <2>1, <2>2
<1>4. rest \in Seq(Ids) /\ IsInjective(rest) /\ \A k \in DOMAIN rest : rest[k] # t
  BY WithoutSpec
<1>5. Remember(turns, turn) = IF Len(moved) > MaxRemembered THEN Tail(moved) ELSE moved
  BY DEF Remember, TurnsWithout
<1>6. MovedToEnd(ids, t) = last
  BY DEF MovedToEnd, Without
<1> HIDE DEF others, rest, t
<1>7. /\ a \in Nat /\ b \in Nat /\ MaxRemembered \in Nat
      /\ DOMAIN others = 1..a /\ DOMAIN rest = 1..b
  BY <1>3, <1>4, LenProperties, KVLedgerAssumption
<1>8. /\ moved \in Seq(LastTurn) /\ Len(moved) = a + 1
      /\ \A k \in 1..a : moved[k] = others[k]
      /\ moved[a + 1] = turn
  BY <1>3, AppendProperties
<1>9. /\ last \in Seq(Ids) /\ Len(last) = b + 1
      /\ \A k \in 1..b : last[k] = rest[k]
      /\ last[b + 1] = t
  BY <1>1, <1>4, AppendProperties
<1>10. /\ a <= b /\ \A k \in 1..a : others[k].id = rest[b - a + k]
       /\ a + 1 > MaxRemembered => Smaller(MaxRemembered, b + 1) = a
       /\ a + 1 <= MaxRemembered => Smaller(MaxRemembered, b + 1) = a + 1
  BY <1>2 DEF RestEnds
<1> HIDE DEF moved, last, a, b
<1>11. IsInjective(last)
  <2>1. DOMAIN last = 1..(b + 1)
    BY <1>9, LenProperties
  <2> SUFFICES ASSUME NEW j \in 1..(b + 1), NEW k \in 1..(b + 1), last[j] = last[k] PROVE j = k
    BY <2>1 DEF IsInjective
  <2>2. CASE j \in 1..b /\ k \in 1..b
    BY <1>4, <1>7, <1>9, <2>2 DEF IsInjective
  <2>3. CASE j = b + 1 \/ k = b + 1
    <3>1. \A l \in 1..b : last[l] # t
      BY <1>4, <1>7, <1>9
    <3> QED BY <1>7, <1>9, <2>3, <3>1
  <2> QED BY <1>7, <2>2, <2>3
<1>12. ASSUME NEW k \in 1..(a + 1) PROVE moved[k].id = last[b - a + k]
  <2>1. CASE k \in 1..a
    <3>1. b - a + k \in 1..b
      BY <1>7, <1>10, <2>1
    <3> QED BY <1>8, <1>9, <1>10, <2>1, <3>1
  <2>2. CASE k = a + 1
    <3>1. b - a + k = b + 1
      BY <1>7, <2>2
    <3> QED BY <1>8, <1>9, <2>2, <3>1 DEF t
  <2> QED BY <1>7, <2>1, <2>2
<1>13. CASE a + 1 > MaxRemembered
  <2>1. Remember(turns, turn) = Tail(moved)
    BY <1>5, <1>8, <1>13
  <2>2. moved # << >>
    <3>1. Len(moved) # 0
      BY <1>7, <1>8
    <3> QED BY <1>8, <3>1, EmptySeq
  <2>3. Len(Tail(moved)) = a /\ \A k \in 1..a : Tail(moved)[k] = moved[k + 1]
    <3>1. /\ Len(Tail(moved)) = Len(moved) - 1
          /\ \A k \in 1..(Len(moved) - 1) : Tail(moved)[k] = moved[k + 1]
      BY <1>8, <2>2, HeadTailProperties
    <3>2. Len(moved) - 1 = a
      BY <1>7, <1>8
    <3> QED BY <3>1, <3>2
  <2>4. ASSUME NEW k \in 1..a PROVE Tail(moved)[k].id = last[(b + 1) - a + k]
    <3>1. k + 1 \in 1..(a + 1) /\ (b + 1) - a + k = b - a + (k + 1)
      BY <1>7
    <3> QED BY <1>12, <2>3, <3>1
  <2>5. EndOf(last, Tail(moved))
    BY <1>9, <1>10, <1>13, <2>3, <2>4 DEF EndOf
  <2> QED BY <1>6, <1>9, <1>11, <2>1, <2>5 DEF t
<1>14. CASE a + 1 <= MaxRemembered
  <2>1. Remember(turns, turn) = moved
    BY <1>5, <1>7, <1>8, <1>14
  <2>2. ASSUME NEW k \in 1..(a + 1) PROVE moved[k].id = last[(b + 1) - (a + 1) + k]
    <3>1. (b + 1) - (a + 1) + k = b - a + k
      BY <1>7
    <3> QED BY <1>12, <3>1
  <2>3. EndOf(last, moved)
    BY <1>8, <1>9, <1>10, <1>14, <2>2 DEF EndOf
  <2> QED BY <1>6, <1>9, <1>11, <2>1, <2>3 DEF t
<1> QED BY <1>7, <1>13, <1>14

RecencyInv ==
    /\ IInv
    /\ recency \in Seq(Ids) /\ IsInjective(recency)
    /\ EndOf(recency, ledger.lastTurns)

LEMMA RecencyStart == RecencyInit => RecencyInv
<1> SUFFICES ASSUME RecencyInit PROVE RecencyInv
  OBVIOUS
<1>1. IInv /\ recency = << >> /\ ledger.lastTurns = << >>
  BY InitIInv DEF RecencyInit, PluginInit, EmptyLedger
<1>2. << >> \in Seq(Ids) /\ Len(<< >>) = 0 /\ DOMAIN << >> = {}
  OBVIOUS
<1>3. IsInjective(<< >>)
  BY <1>2 DEF IsInjective
<1>4. EndOf(<< >>, << >>)
  BY <1>2, KVLedgerAssumption DEF EndOf, Smaller
<1> QED BY <1>1, <1>2, <1>3, <1>4 DEF RecencyInv

\* A finish moves the id to the end exactly when it remembers its turn.
LEMMA RecencyFinishStep ==
    ASSUME NEW t \in Ids, NEW output \in ReportedOutputs, RecencyInv, RecencyFinish(t, output)
    PROVE  RecencyInv'
<1>1. IInv'
  BY FinishIInv DEF RecencyInv, RecencyFinish
<1>2. ledger' = Release(ledger, t, output)
  BY DEF RecencyFinish, FinishTurn
<1> DEFINE D == DropReservation(ledger, t)
<1>3. D.lastTurns = ledger.lastTurns
  BY DEF DropReservation
<1>4. CASE ledger.reservation[t] # NoReservation /\ output # {}
  <2> DEFINE turn == [id |-> t, engine |-> ledger.reservation[t].engine,
                      output |-> CHOOSE o \in output : TRUE]
  <2>1. ledger'.lastTurns = Remember(ledger.lastTurns, turn)
    BY <1>2, <1>3, <1>4 DEF Release
  <2>2. recency' = MovedToEnd(recency, turn.id)
    BY <1>4 DEF RecencyFinish
  <2>3. turn \in LastTurn
    <3>1. ledger.reservation[t].engine \in Engines
      BY <1>4 DEF RecencyInv, IInv, Sound, Ledger, Reservation
    <3>2. (CHOOSE o \in output : TRUE) \in Nat
      BY <1>4, KVSaturationAssumption DEF ReportedOutputs
    <3> QED BY <3>1, <3>2 DEF LastTurn
  <2>4. /\ ledger.lastTurns \in Seq(LastTurn) /\ DistinctIds(ledger.lastTurns)
        /\ recency \in Seq(Ids) /\ IsInjective(recency) /\ EndOf(recency, ledger.lastTurns)
    BY DEF RecencyInv, IInv, Sound, Ledger
  <2> HIDE DEF turn
  <2>5. /\ recency' \in Seq(Ids) /\ IsInjective(recency')
        /\ EndOf(recency', ledger'.lastTurns)
    BY <2>1, <2>2, <2>3, <2>4, RememberEnd
  <2> QED BY <1>1, <2>5 DEF RecencyInv, EndOf
<1>5. CASE ~(ledger.reservation[t] # NoReservation /\ output # {})
  <2>1. ledger'.lastTurns = ledger.lastTurns
    BY <1>2, <1>3, <1>5 DEF Release
  <2>2. recency' = recency
    BY <1>5 DEF RecencyFinish
  <2> QED BY <1>1, <2>1, <2>2 DEF RecencyInv, EndOf
<1> QED BY <1>4, <1>5

LEMMA RecencyStep == RecencyInv /\ [RecencyNext]_<<ledger, recency>> => RecencyInv'
<1> SUFFICES ASSUME RecencyInv, [RecencyNext]_<<ledger, recency>> PROVE RecencyInv'
  OBVIOUS
<1>1. CASE UNCHANGED <<ledger, recency>>
  BY <1>1 DEF RecencyInv, IInv, EndOf
<1>2. CASE RecencyAdmit
  <2>1. PICK t \in Ids, prompt \in Prompts, view \in Views : Admit(t, prompt, view)
    BY <1>2 DEF RecencyAdmit
  <2>2. IInv'
    BY <2>1, AdmitIInv DEF RecencyInv
  <2>3. ledger'.lastTurns = ledger.lastTurns
    BY <2>1 DEF Admit, Reserve, DropReservation
  <2>4. recency' = recency
    BY <1>2 DEF RecencyAdmit
  <2> QED BY <2>2, <2>3, <2>4 DEF RecencyInv, EndOf
<1>3. ASSUME NEW t \in Ids, NEW output \in ReportedOutputs, RecencyFinish(t, output)
      PROVE  RecencyInv'
  BY <1>3, RecencyFinishStep
<1> QED BY <1>1, <1>2, <1>3 DEF RecencyNext

\* However trajectories come back, the turns remembered are those of the trajectories that
\* finished most recently, in that order.
THEOREM MostRecentRemembered == RecencySpec => []RemembersMostRecent
<1>1. RecencyInv => RemembersMostRecent
  <2> SUFFICES ASSUME RecencyInv PROVE RemembersMostRecent
    OBVIOUS
  <2> DEFINE turns == ledger.lastTurns
             n == Len(turns)
             m == Len(recency)
             ids == [i \in DOMAIN turns |-> turns[i].id]
             end == SubSeq(recency, m - n + 1, m)
  <2>1. /\ turns \in Seq(LastTurn) /\ recency \in Seq(Ids)
        /\ n = Smaller(MaxRemembered, m)
        /\ \A k \in 1..n : turns[k].id = recency[m - n + k]
    BY DEF RecencyInv, IInv, Sound, Ledger, EndOf
  <2>2. /\ n \in Nat /\ m \in Nat /\ MaxRemembered \in Nat /\ DOMAIN turns = 1..n
        /\ \A k \in 1..m : recency[k] \in Ids
    BY <2>1, LenProperties, ElementOfSeq, KVLedgerAssumption
  <2>3. n <= m
    BY <2>1, <2>2 DEF Smaller
  <2> HIDE DEF n, m, turns
  <2>4. ids \in Seq(Ids) /\ Len(ids) = n /\ \A k \in 1..n : ids[k] = recency[m - n + k]
    <3>1. ids = [k \in 1..n |-> recency[m - n + k]]
      BY <2>1, <2>2
    <3>2. \A k \in 1..n : recency[m - n + k] \in Ids
      BY <2>2, <2>3
    <3> DEFINE f == [k \in 1..n |-> recency[m - n + k]]
    <3>3. f \in [1..n -> Ids]
      BY <3>2
    <3>4. \A k \in 1..n : f[k] = recency[m - n + k]
      OBVIOUS
    <3>5. f \in Seq(Ids) /\ Len(f) = n
      <4> HIDE DEF f
      <4> QED BY <2>2, <3>3
    <3>6. ids = f
      BY <3>1
    <3> HIDE DEF f, ids
    <3> QED BY <3>4, <3>5, <3>6
  <2>5. end \in Seq(Ids) /\ Len(end) = n /\ \A k \in 1..n : end[k] = recency[m - n + k]
    <3>1. m - n + 1 \in Int /\ m \in Int /\ \A k \in (m - n + 1)..m : recency[k] \in Ids
      BY <2>2, <2>3
    <3>2. /\ end \in Seq(Ids)
          /\ Len(end) = (IF m - n + 1 <= m THEN m - (m - n + 1) + 1 ELSE 0)
          /\ \A k \in 1..(m - (m - n + 1) + 1) : end[k] = recency[(m - n + 1) + k - 1]
      BY <3>1, SubSeqProperties
    <3> HIDE DEF end
    <3>3. Len(end) = n
      BY <2>2, <2>3, <3>2
    <3>4. ASSUME NEW k \in 1..n PROVE end[k] = recency[m - n + k]
      <4>1. k \in 1..(m - (m - n + 1) + 1) /\ (m - n + 1) + k - 1 = m - n + k
        BY <2>2, <2>3
      <4> QED BY <3>2, <4>1
    <3> QED BY <3>2, <3>3, <3>4
  <2> HIDE DEF ids, end
  <2>6. ids = end
    BY <2>4, <2>5, SeqEqual
  <2> QED BY <2>1, <2>6 DEF RemembersMostRecent, ids, end, turns, m
<1> QED BY <1>1, RecencyStart, RecencyStep, PTL DEF RecencySpec

----------------------------------------------------------------------------
(* The router *)

Shape ==
    /\ pc \in [Requests -> Stages]
    /\ cands \in [Requests -> SUBSET Engines]
    /\ plug \in [Requests -> 0..MaxEdits]
    /\ target \in [Requests -> Engines \cup {NoReplica}]
    /\ hooked \subseteq Requests
    /\ queue \in Seq(Requests)
    /\ ledgers \in [1..MaxEdits -> Ledger]
    /\ loaded \in 0..MaxEdits
    /\ edited \in 1..MaxEdits
    /\ up \subseteq Engines
    /\ dead \subseteq Engines \ up
    /\ faults \in 0..MaxFaults

\* Each future once; its owner waits for it or was cancelled.
QueueInv ==
    /\ \A i, j \in DOMAIN queue : queue[i] = queue[j] => i = j
    /\ \A i \in DOMAIN queue : pc[queue[i]] \in {"waiting", "cancelled"}
    /\ \A r \in Requests : pc[r] = "waiting" => \E i \in DOMAIN queue : queue[i] = r

\* A call has candidates; one that waited holds plugins, never newer than the loaded ones.
CallInv ==
    \A r \in Requests :
        /\ pc[r] \in {"fetching", "waiting", "refetching"} => cands[r] # {}
        /\ pc[r] \in {"waiting", "refetching"} => plug[r] > 0
        /\ plug[r] <= loaded
        /\ "death" \notin FaultKinds => cands[r] \subseteq up

\* No plugin is booked before its config is loaded.
ConfigInv ==
    /\ loaded <= edited
    /\ ~ColdStart => loaded > 0
    /\ \A v \in 1..MaxEdits : v > loaded => ledgers[v] = EmptyLedger

\* A request that nothing will release holds nothing.
HookInv ==
    /\ hooked # {} => loaded > 0
    /\ \A r \in Requests : pc[r] = "running" /\ r \notin hooked => ~Booked(r)
    /\ FinishedHoldsNothing

RInv == Shape /\ QueueInv /\ CallInv /\ ConfigInv /\ HookInv

----------------------------------------------------------------------------
(* What the plugin's methods do to any ledger, sound or not. *)

LEMMA BudgetIsInt ==
    ASSUME NEW e \in Engines, NEW report \in Reports
    PROVE  KvTokenBudget(e, report) \in Int
<1>1. CASE report = "capacity"
  BY <1>1, BudgetRange, KVLedgerAssumption
<1>2. CASE report # "capacity"
  <2>1. ReportedCapacity(e, report) = -1
    BY <1>2 DEF ReportedCapacity
  <2>2. KvTokenBudget(e, report) = -((1 * FractionNum) \div FractionDen)
    BY <2>1 DEF KvTokenBudget
  <2>3. \A n, d \in Nat : d # 0 => -((1 * n) \div d) \in Int
    OBVIOUS
  <2> QED BY <2>2, <2>3, KVLedgerAssumption
<1> QED BY <1>1, <1>2

LEMMA DropTyped ==
    ASSUME NEW L \in Ledger, NEW t \in Ids
    PROVE  /\ DropReservation(L, t) \in Ledger
           /\ DropReservation(L, t).reservation = [L.reservation EXCEPT ![t] = NoReservation]
           /\ DropReservation(L, t).lastTurns = L.lastTurns
<1>1. CASE L.reservation[t] = NoReservation
  BY <1>1 DEF DropReservation, Ledger
<1>2. CASE L.reservation[t] # NoReservation
  <2>1. L.reservation[t].engine \in Engines /\ L.reservation[t].tokens \in Int
    BY <1>2 DEF Ledger, Reservation
  <2> QED BY <1>2, <2>1 DEF DropReservation, Ledger
<1> QED BY <1>1, <1>2

LEMMA ReleaseTyped ==
    ASSUME NEW L \in Ledger, NEW t \in Ids
    PROVE  /\ Release(L, t, {}) = DropReservation(L, t)
           /\ Release(L, t, {}) \in Ledger
           /\ Release(L, t, {}).reservation = [L.reservation EXCEPT ![t] = NoReservation]
           /\ Release(L, t, {}).lastTurns = L.lastTurns
  BY DropTyped DEF Release

LEMMA ReserveTyped ==
    ASSUME NEW L \in Ledger, NEW t \in Ids, NEW prompt \in Nat, NEW e \in Engines,
           NEW report \in Reports
    PROVE  /\ Reserve(L, t, prompt, e, report) \in Ledger
           /\ Reserve(L, t, prompt, e, report).reservation =
                  [L.reservation EXCEPT ![t] =
                      [engine |-> e,
                       tokens |-> Smaller(KvTokensNeeded(L, t, prompt), KvTokenBudget(e, report))]]
           /\ Reserve(L, t, prompt, e, report).lastTurns = L.lastTurns
<1> DEFINE D == DropReservation(L, t)
           n == Smaller(KvTokensNeeded(L, t, prompt), KvTokenBudget(e, report))
<1>1. D \in Ledger /\ D.reservation = [L.reservation EXCEPT ![t] = NoReservation]
      /\ D.lastTurns = L.lastTurns
  BY DropTyped
<1>2. n \in Int
  BY NeedIsNat, BudgetIsInt DEF Smaller
<1>3. Reserve(L, t, prompt, e, report) =
        [reserved    |-> [D.reserved EXCEPT ![e] = @ + n],
         reservation |-> [D.reservation EXCEPT ![t] = [engine |-> e, tokens |-> n]],
         lastTurns   |-> D.lastTurns]
  BY DEF Reserve
<1> HIDE DEF D, n
<1>4. [engine |-> e, tokens |-> n] \in Reservation
  BY <1>2 DEF Reservation
<1>5. [D.reservation EXCEPT ![t] = [engine |-> e, tokens |-> n]]
        = [L.reservation EXCEPT ![t] = [engine |-> e, tokens |-> n]]
  BY <1>1 DEF Ledger
<1> QED BY <1>1, <1>2, <1>3, <1>4, <1>5 DEF Ledger, n

LEMMA ReserveOthers ==
    ASSUME NEW L \in Ledger, NEW t \in Ids, NEW prompt \in Nat, NEW e \in Engines,
           NEW report \in Reports, NEW u \in Ids \ {t}
    PROVE  Reserve(L, t, prompt, e, report).reservation[u] = L.reservation[u]
<1>1. L.reservation \in [Ids -> Reservation \cup {NoReservation}]
  BY DEF Ledger
<1> DEFINE R == Reserve(L, t, prompt, e, report)
           b == [engine |-> e,
                 tokens |-> Smaller(KvTokensNeeded(L, t, prompt), KvTokenBudget(e, report))]
<1>2. R.reservation = [L.reservation EXCEPT ![t] = b]
  BY ReserveTyped
<1> HIDE DEF R, b
<1>3. R.reservation[u] = L.reservation[u]
  BY <1>1, <1>2
<1> QED BY <1>3 DEF R

LEMMA ReserveBooks ==
    ASSUME NEW L \in Ledger, NEW t \in Ids, NEW prompt \in Nat, NEW e \in Engines,
           NEW report \in Reports
    PROVE  /\ Reserve(L, t, prompt, e, report).reservation[t] =
                  [engine |-> e,
                   tokens |-> Smaller(KvTokensNeeded(L, t, prompt), KvTokenBudget(e, report))]
           /\ Reserve(L, t, prompt, e, report).lastTurns = L.lastTurns
<1> DEFINE R == Reserve(L, t, prompt, e, report)
           b == [engine |-> e,
                 tokens |-> Smaller(KvTokensNeeded(L, t, prompt), KvTokenBudget(e, report))]
<1>1. L.reservation \in [Ids -> Reservation \cup {NoReservation}]
  BY DEF Ledger
<1>2. R.reservation = [L.reservation EXCEPT ![t] = b] /\ R.lastTurns = L.lastTurns
  BY ReserveTyped
<1> HIDE DEF R, b
<1>3. R.reservation[t] = b
  BY <1>1, <1>2
<1> QED BY <1>2, <1>3 DEF R, b

\* The replicas admission leaves are those of the endpoints it leaves, and the search for the
\* replica of a selected endpoint finds it there and no other.
LEMMA SelectedIsFound ==
    ASSUME Shape, NEW r \in Requests, NEW lost \in SUBSET (cands[r] \cap up)
    PROVE  /\ AllowedReplicas(r, View(r, lost)) = Admitted(r, View(r, lost))
           /\ \A selected \in Admitted(r, View(r, lost)) :
                 TargetReplicas(AllowedReplicas(r, View(r, lost)), selected) = {selected}
<1>1. Admitted(r, View(r, lost)) \subseteq cands[r]
  BY DEF Admitted, AllowedCandidates, View
<1>2. AllowedReplicas(r, View(r, lost)) = Admitted(r, View(r, lost))
  BY <1>1 DEF AllowedReplicas
<1> DEFINE A == Admitted(r, View(r, lost))
<1> HIDE DEF A
<1>3. ASSUME NEW selected \in A PROVE TargetReplicas(A, selected) = {selected}
  BY DEF TargetReplicas, Matching
<1> QED BY <1>2, <1>3 DEF A

\* What Choose does: it books one admitted candidate with the plugins it loads, and places
\* the request on its replica.
LEMMA ChooseBooks ==
    ASSUME Shape, CallInv, NEW r \in Requests, Choose(r)
    PROVE  \E lost \in SUBSET (cands[r] \cap up), e \in cands[r] :
             /\ LostStats(r, lost)
             /\ ~AdmissionRaises(r, View(r, lost))
             /\ e \in Admitted(r, View(r, lost)) /\ e \in Engines
             /\ View(r, lost)[e] \in Reports
             /\ PlaceAt(r, e)
             /\ ledgers' = [ledgers EXCEPT
                   ![edited] = Reserve(@, r, Prompt[r], e, View(r, lost)[e])]
<1>0. PICK lost \in SUBSET (cands[r] \cap up) :
             /\ LostStats(r, lost)
             /\ ~AdmissionRaises(r, View(r, lost))
             /\ \E selected \in Admitted(r, View(r, lost)) :
                   /\ \E e \in TargetReplicas(AllowedReplicas(r, View(r, lost)), selected) :
                         PlaceAt(r, e)
                   /\ Commit(edited, r, selected, View(r, lost)[selected])
  BY DEF Choose
<1>1. PICK e \in Admitted(r, View(r, lost)) :
             /\ PlaceAt(r, e)
             /\ ledgers' = [ledgers EXCEPT
                   ![edited] = Reserve(@, r, Prompt[r], e, View(r, lost)[e])]
  <2>1. PICK selected \in Admitted(r, View(r, lost)) :
             /\ \E e \in TargetReplicas(AllowedReplicas(r, View(r, lost)), selected) : PlaceAt(r, e)
             /\ Commit(edited, r, selected, View(r, lost)[selected])
    BY <1>0
  <2>2. TargetReplicas(AllowedReplicas(r, View(r, lost)), selected) = {selected}
    BY SelectedIsFound
  <2>3. PlaceAt(r, selected)
    BY <2>1, <2>2
  <2> QED BY <2>1, <2>3 DEF Commit
<1>2. e \in cands[r]
  BY <1>1 DEF Admitted, AllowedCandidates, View, RecordedStats
<1>3. View(r, lost)[e] \in Reports
  BY <1>2 DEF View, RecordedStats, Reports
<1> QED BY <1>0, <1>1, <1>2, <1>3 DEF Shape

LEMMA ChooseReserves ==
    ASSUME Shape, CallInv, NEW r \in Requests, Choose(r)
    PROVE  \E e \in Engines, report \in Reports :
             ledgers' = [ledgers EXCEPT ![edited] = Reserve(@, r, Prompt[r], e, report)]
<1>1. PICK lost \in SUBSET (cands[r] \cap up), e \in cands[r] :
             /\ e \in Engines /\ View(r, lost)[e] \in Reports
             /\ ledgers' = [ledgers EXCEPT
                   ![edited] = Reserve(@, r, Prompt[r], e, View(r, lost)[e])]
  BY ChooseBooks
<1> DEFINE report == View(r, lost)[e]
<1>2. report \in Reports /\ e \in Engines
      /\ ledgers' = [ledgers EXCEPT ![edited] = Reserve(@, r, Prompt[r], e, report)]
  BY <1>1
<1> HIDE DEF report
<1> QED BY <1>2

\* What Finish does to the books: a hooked request is released by the loaded plugin.
LEMMA FinishFrees ==
    ASSUME Shape, HookInv, NEW r \in Requests, Finish(r)
    PROVE  \/ r \notin hooked /\ ledgers' = ledgers
           \/ /\ r \in hooked /\ loaded \in 1..MaxEdits /\ ledgers[loaded] \in Ledger
              /\ ledgers' = [ledgers EXCEPT ![loaded] = Release(@, r, {})]
<1>1. CASE r \notin hooked
  BY <1>1 DEF Finish
<1>2. CASE r \in hooked
  <2>1. loaded \in 1..MaxEdits
    BY <1>2, RouterAssumption DEF Shape, HookInv
  <2>2. ledgers' = [ledgers EXCEPT ![loaded] = Release(@, r, {})]
    BY <1>2 DEF Finish
  <2> QED BY <1>2, <2>1, <2>2 DEF Shape
<1> QED BY <1>1, <1>2

\* Waiting takes a check that failed, so a call that waits holds plugins.
LEMMA WaitsWithPlugins ==
    ASSUME Shape, CallInv, NEW r \in Requests, Wait(r)
    PROVE  AdmitPlugins(r) \in 1..MaxEdits /\ AdmitPlugins(r) <= loaded
<1>1. PICK lost \in SUBSET (cands[r] \cap up) : Admitted(r, View(r, lost)) = {}
  BY DEF Wait
<1>2. cands[r] # {}
  BY DEF Wait, Fetching, CallInv
<1>3. AdmitPlugins(r) # 0
  BY <1>1, <1>2 DEF Admitted, View, RecordedStats
<1> QED BY <1>3 DEF AdmitPlugins, CallInv, Shape

----------------------------------------------------------------------------
(* RInv is inductive, part by part. *)

LEMMA RouterInit == Init => RInv
<1> SUFFICES ASSUME Init PROVE RInv
  OBVIOUS
<1>1. EmptyLedger \in Ledger /\ \A r \in Requests : EmptyLedger.reservation[r] = NoReservation
  BY EmptySound DEF EmptyLedger, Sound, Requests
<1>2. Shape
  BY <1>1, EmptySeq, RouterAssumption DEF Init, Shape, Stages
<1>3. QueueInv
  BY DEF Init, QueueInv
<1>4. CallInv
  BY RouterAssumption DEF Init, CallInv
<1>5. ConfigInv
  BY RouterAssumption DEF Init, ConfigInv
<1>6. HookInv
  BY DEF Init, HookInv, FinishedHoldsNothing
<1> QED BY <1>2, <1>3, <1>4, <1>5, <1>6 DEF RInv

LEMMA FaultCount ==
    ASSUME faults \in 0..MaxFaults, faults' = faults \/ \E kind : Fault(kind)
    PROVE  faults' \in 0..MaxFaults
  BY RouterAssumption DEF Fault

LEMMA ShapeStep == RInv /\ [Next]_vars => Shape'
<1> SUFFICES ASSUME RInv, [Next]_vars PROVE Shape'
  OBVIOUS
<1> USE DEF RInv, Shape
<1>1. ASSUME NEW r \in Requests, ChooseForBodyless(r) PROVE Shape'
  BY <1>1 DEF ChooseForBodyless, PlaceAtRandom, PlaceAt, Stages, ray
<1>2. ASSUME NEW r \in Requests, StartChoosing(r) PROVE Shape'
  BY <1>2 DEF StartChoosing, Stages, ray
<1>3. ASSUME NEW r \in Requests, ChooseAfterError(r) PROVE Shape'
  <2>1. faults' \in 0..MaxFaults
    BY <1>3, FaultCount DEF ChooseAfterError, LostStats
  <2> QED BY <1>3, <2>1 DEF ChooseAfterError, PlaceAtRandom, PlaceAt, Stages, ray
<1>4. ASSUME NEW r \in Requests, Wait(r) PROVE Shape'
  <2>1. faults' \in 0..MaxFaults
    BY <1>4, FaultCount DEF Wait, LostStats
  <2>2. plug' \in [Requests -> 0..MaxEdits]
    <3>1. AdmitPlugins(r) \in 0..MaxEdits
      BY <1>4, WaitsWithPlugins, RouterAssumption
    <3>2. plug' = [plug EXCEPT ![r] = AdmitPlugins(r)]
      BY <1>4 DEF Wait
    <3> QED BY <3>1, <3>2
  <2>3. queue' \in Seq(Requests)
    BY <1>4, AppendProperties DEF Wait
  <2> QED BY <1>4, <2>1, <2>2, <2>3 DEF Wait, Stages, ray
<1>5. ASSUME NEW r \in Requests, Choose(r) PROVE Shape'
  <2>1. PICK lost \in SUBSET (cands[r] \cap up), e \in cands[r] :
             /\ LostStats(r, lost)
             /\ e \in Engines
             /\ View(r, lost)[e] \in Reports
             /\ PlaceAt(r, e)
             /\ ledgers' = [ledgers EXCEPT
                   ![edited] = Reserve(@, r, Prompt[r], e, View(r, lost)[e])]
    BY <1>5, ChooseBooks
  <2>2. faults' \in 0..MaxFaults
    BY <2>1, FaultCount DEF LostStats
  <2>3. ledgers' \in [1..MaxEdits -> Ledger]
    <3>1. Reserve(ledgers[edited], r, Prompt[r], e, View(r, lost)[e]) \in Ledger
      BY <2>1, ReserveTyped, RouterAssumption DEF Requests
    <3> QED BY <2>1, <3>1
  <2> QED BY <1>5, <2>1, <2>2, <2>3 DEF Choose, Commit, PlaceAt, Stages, ray
<1>6. ASSUME NEW r \in Requests, ChooseUnbooked(r) PROVE Shape'
  <2>1. faults' \in 0..MaxFaults /\ loaded' \in 0..MaxEdits
    BY <1>6, FaultCount DEF ChooseUnbooked, LostStats
  <2>2. \E e \in Engines : PlaceAt(r, e)
    BY <1>6 DEF ChooseUnbooked, PlaceAtRandom, AllowedReplicas
  <2> QED BY <1>6, <2>1, <2>2 DEF ChooseUnbooked, PlaceAt, Stages, ray
<1>7. ASSUME NEW r \in Requests, OnRequestRouted(r) PROVE Shape'
  BY <1>7 DEF OnRequestRouted, Stages
<1>8. ASSUME NEW r \in Requests, TurnedAway(r) PROVE Shape'
  <2>1. faults' \in 0..MaxFaults
    BY <1>8, FaultCount DEF TurnedAway
  <2> QED BY <1>8, <2>1 DEF TurnedAway, Stages, ray
<1>9. ASSUME NEW r \in Requests, Finish(r) PROVE Shape'
  <2>1. pc' \in [Requests -> Stages]
    BY <1>9 DEF Finish, Stages
  <2>2. ledgers' \in [1..MaxEdits -> Ledger]
    <3>1. CASE r \in hooked
      <4>1. /\ loaded \in 1..MaxEdits /\ ledgers[loaded] \in Ledger
            /\ ledgers' = [ledgers EXCEPT ![loaded] = Release(@, r, {})]
        BY <1>9, <3>1, FinishFrees
      <4>2. Release(ledgers[loaded], r, {}) \in Ledger
        BY <4>1, ReleaseTyped DEF Requests
      <4> QED BY <4>1, <4>2
    <3>2. CASE r \notin hooked
      BY <1>9, <3>2 DEF Finish
    <3> QED BY <3>1, <3>2
  <2>3. queue' \in Seq(Requests)
    <3>1. queue # << >> => Tail(queue) \in Seq(Requests)
      BY HeadTailProperties
    <3> QED BY <1>9, <3>1 DEF Finish
  <2> QED BY <1>9, <2>1, <2>2, <2>3 DEF Finish, ray
<1>10. ASSUME NEW r \in Requests, Cancel(r) \/ Abandon(r) PROVE Shape'
  <2>1. faults' \in 0..MaxFaults
    BY <1>10, FaultCount DEF Cancel, Abandon
  <2> QED BY <1>10, <2>1 DEF Cancel, Abandon, Stages, ray
<1>11. CASE EditConfig
  <2>1. faults' \in 0..MaxFaults
    BY <1>11, FaultCount DEF EditConfig
  <2> QED BY <1>11, <2>1, RouterAssumption DEF EditConfig
<1>12. ASSUME NEW e \in Engines, ReplicaDies(e) \/ ReplicaJoins(e) PROVE Shape'
  <2>1. faults' \in 0..MaxFaults
    BY <1>12, FaultCount DEF ReplicaDies, ReplicaJoins
  <2> QED BY <1>12, <2>1 DEF ReplicaDies, ReplicaJoins
<1>13. CASE UNCHANGED vars
  BY <1>13 DEF vars
<1> QED BY <1>1, <1>2, <1>3, <1>4, <1>5, <1>6, <1>7, <1>8, <1>9, <1>10, <1>11, <1>12, <1>13
        DEF Next, Step, AllOver

LEMMA QueueOwners ==
    ASSUME Shape, QueueInv, NEW i \in DOMAIN queue
    PROVE  queue[i] \in Requests /\ pc[queue[i]] \in {"waiting", "cancelled"}
<1>1. queue[i] \in Requests
  BY DEF Shape
<1> QED BY <1>1 DEF QueueInv

\* A step that only moves one request to a stage other than "waiting".
LEMMA MoveKeepsQueue ==
    ASSUME Shape, QueueInv, NEW r \in Requests, NEW stage, stage # "waiting",
           pc[r] \notin {"waiting", "cancelled"} \/ stage = "cancelled",
           pc' = [pc EXCEPT ![r] = stage], queue' = queue
    PROVE  QueueInv'
<1>1. \A i \in DOMAIN queue : queue[i] \in Requests
  BY DEF Shape
<1>2. \A i \in DOMAIN queue : pc'[queue[i]] \in {"waiting", "cancelled"}
  BY <1>1 DEF Shape, QueueInv
<1>3. \A q \in Requests : pc'[q] = "waiting" => pc[q] = "waiting"
  BY DEF Shape
<1> QED BY <1>2, <1>3 DEF QueueInv

LEMMA WaitKeepsQueue ==
    ASSUME Shape, QueueInv, NEW r \in Requests, Wait(r)
    PROVE  QueueInv'
<1> DEFINE n == Len(queue)
<1>1. /\ n \in Nat /\ DOMAIN queue = 1..n /\ DOMAIN queue' = 1..(n + 1)
      /\ \A i \in 1..n : queue'[i] = queue[i]
      /\ queue'[n + 1] = r
  BY AppendProperties, LenProperties DEF Wait, Shape
<1>2. pc' = [pc EXCEPT ![r] = "waiting"] /\ pc[r] \in {"fetching", "refetching"}
  BY DEF Wait, Fetching
<1>3. \A i \in 1..n : queue[i] \in Requests /\ queue[i] # r
  BY <1>1, <1>2, QueueOwners
<1> HIDE DEF n
<1>4. \A i, j \in DOMAIN queue' : queue'[i] = queue'[j] => i = j
  BY <1>1, <1>3 DEF QueueInv
<1>5. \A i \in DOMAIN queue' : pc'[queue'[i]] \in {"waiting", "cancelled"}
  <2>1. ASSUME NEW i \in 1..n PROVE pc'[queue'[i]] \in {"waiting", "cancelled"}
    BY <1>1, <1>2, <1>3 DEF QueueInv, Shape
  <2>2. pc'[queue'[n + 1]] = "waiting"
    BY <1>1, <1>2 DEF Shape
  <2> QED BY <1>1, <2>1, <2>2
<1>6. ASSUME NEW q \in Requests, pc'[q] = "waiting" PROVE \E i \in DOMAIN queue' : queue'[i] = q
  <2>1. CASE q = r
    BY <1>1, <2>1
  <2>2. CASE q # r
    <3>1. PICK i \in DOMAIN queue : queue[i] = q
      BY <1>2, <1>6, <2>2 DEF QueueInv, Shape
    <3> QED BY <1>1, <3>1
  <2> QED BY <2>1, <2>2
<1> QED BY <1>4, <1>5, <1>6 DEF QueueInv

\* release takes the oldest future out of the queue and wakes its owner, if that waits.
LEMMA FinishKeepsQueue ==
    ASSUME Shape, QueueInv, NEW r \in Requests, Finish(r)
    PROVE  QueueInv'
<1>1. CASE r \notin hooked
  BY <1>1, MoveKeepsQueue DEF Finish
<1>2. CASE r \in hooked /\ queue = << >>
  <2>1. pc' = [pc EXCEPT ![r] = "done"] /\ queue' = queue /\ pc[r] = "running"
    BY <1>2 DEF Finish, Woken, Shape
  <2> QED BY <2>1, MoveKeepsQueue
<1>3. CASE r \in hooked /\ queue # << >>
  <2> DEFINE n == Len(queue)
             h == Head(queue)
  <2>1. /\ n \in Nat /\ n > 0 /\ DOMAIN queue = 1..n /\ DOMAIN queue' = 1..(n - 1)
        /\ \A i \in 1..(n - 1) : queue'[i] = queue[i + 1]
        /\ h = queue[1]
    <3>1. queue' = Tail(queue) /\ queue \in Seq(Requests)
      BY <1>3 DEF Finish, Shape
    <3> QED BY <1>3, <3>1, HeadTailProperties, LenProperties, EmptySeq
  <2>2. /\ pc[r] = "running"
        /\ \A q \in Requests : pc'[q] = IF q = r THEN "done"
                                        ELSE IF q = h /\ pc[h] = "waiting" THEN "refetching"
                                        ELSE pc[q]
    BY <1>3 DEF Finish, Woken, Shape
  <2>3. \A i \in 1..n : queue[i] \in Requests /\ queue[i] # r
    BY <2>1, <2>2, QueueOwners
  <2> HIDE DEF n, h
  <2>4. \A i \in 1..(n - 1) : i + 1 \in 1..n /\ queue[i + 1] # h
    BY <2>1 DEF QueueInv
  <2>5. \A i, j \in DOMAIN queue' : queue'[i] = queue'[j] => i = j
    BY <2>1, <2>4 DEF QueueInv
  <2>6. \A i \in DOMAIN queue' : pc'[queue'[i]] \in {"waiting", "cancelled"}
    BY <2>1, <2>2, <2>3, <2>4 DEF QueueInv
  <2>7. ASSUME NEW q \in Requests, pc'[q] = "waiting" PROVE \E i \in DOMAIN queue' : queue'[i] = q
    <3>1. pc[q] = "waiting" /\ q # h
      BY <2>2, <2>7
    <3>2. PICK i \in 1..n : queue[i] = q
      BY <2>1, <3>1 DEF QueueInv
    <3>3. i # 1 /\ i - 1 \in 1..(n - 1) /\ (i - 1) + 1 = i
      BY <2>1, <3>1, <3>2
    <3> QED BY <2>1, <3>2, <3>3
  <2> QED BY <2>5, <2>6, <2>7 DEF QueueInv
<1> QED BY <1>1, <1>2, <1>3

LEMMA QueueStep == RInv /\ [Next]_vars => QueueInv'
<1> SUFFICES ASSUME RInv, [Next]_vars PROVE QueueInv'
  OBVIOUS
<1> USE DEF RInv
<1>1. ASSUME NEW r \in Requests,
             \/ ChooseForBodyless(r) \/ StartChoosing(r) \/ ChooseAfterError(r)
             \/ Choose(r) \/ ChooseUnbooked(r) \/ OnRequestRouted(r) \/ TurnedAway(r)
      PROVE  QueueInv'
  <2>1. /\ queue' = queue
        /\ pc[r] \in {"new", "fetching", "refetching", "routing"}
        /\ \E stage \in {"new", "fetching", "routing", "running"} : pc' = [pc EXCEPT ![r] = stage]
    BY <1>1 DEF ChooseForBodyless, StartChoosing, ChooseAfterError, Choose, Commit, ChooseUnbooked,
                OnRequestRouted, TurnedAway, PlaceAtRandom, PlaceAt, Fetching
  <2> QED BY <2>1, MoveKeepsQueue
<1>2. ASSUME NEW r \in Requests, Wait(r) PROVE QueueInv'
  BY <1>2, WaitKeepsQueue
<1>3. ASSUME NEW r \in Requests, Finish(r) PROVE QueueInv'
  BY <1>3, FinishKeepsQueue
<1>4. ASSUME NEW r \in Requests, Cancel(r) \/ Abandon(r) PROVE QueueInv'
  BY <1>4, MoveKeepsQueue DEF Cancel, Abandon
<1>5. ASSUME EditConfig \/ (\E e \in Engines : ReplicaDies(e) \/ ReplicaJoins(e)) \/ UNCHANGED vars
      PROVE  QueueInv'
  <2>1. UNCHANGED <<pc, queue>>
    BY <1>5 DEF EditConfig, ReplicaDies, ReplicaJoins, vars
  <2> QED BY <2>1 DEF QueueInv
<1> QED BY <1>1, <1>2, <1>3, <1>4, <1>5 DEF Next, Step, AllOver

----------------------------------------------------------------------------
\* Configs are loaded in the order of their edits.
LEMMA LoadedGrows ==
    ASSUME Shape, ConfigInv, [Next]_vars
    PROVE  /\ loaded' \in {loaded, edited} /\ loaded <= loaded' /\ loaded' <= edited'
           /\ edited <= edited'
<1> USE RouterAssumption DEF Shape, ConfigInv
<1>1. ASSUME NEW r \in Requests, Choose(r) \/ ChooseUnbooked(r)
      PROVE  loaded' \in {loaded, edited} /\ edited' = edited
  BY <1>1 DEF Choose, Commit, ChooseUnbooked, ray
<1>2. ASSUME NEW r \in Requests,
             \/ ChooseForBodyless(r) \/ StartChoosing(r) \/ ChooseAfterError(r) \/ Wait(r)
             \/ OnRequestRouted(r) \/ TurnedAway(r) \/ Finish(r) \/ Cancel(r) \/ Abandon(r)
      PROVE  loaded' = loaded /\ edited' = edited
  BY <1>2 DEF ChooseForBodyless, StartChoosing, ChooseAfterError, Wait, OnRequestRouted,
              TurnedAway, Finish, Cancel, Abandon, ray
<1>3. ASSUME NEW e \in Engines, ReplicaDies(e) \/ ReplicaJoins(e)
      PROVE  loaded' = loaded /\ edited' = edited
  BY <1>3 DEF ReplicaDies, ReplicaJoins
<1>4. CASE EditConfig
  BY <1>4 DEF EditConfig
<1>5. CASE UNCHANGED vars
  BY <1>5 DEF vars
<1> QED BY <1>1, <1>2, <1>3, <1>4, <1>5 DEF Next, Step, AllOver

LEMMA CallStep == RInv /\ [Next]_vars => CallInv'
<1> SUFFICES ASSUME RInv, [Next]_vars PROVE CallInv'
  OBVIOUS
<1> USE DEF RInv
<1>1. loaded <= loaded' /\ loaded \in Nat /\ loaded' \in Nat
  BY LoadedGrows, RouterAssumption DEF Shape
<1>2. ASSUME NEW r \in Requests,
             \/ ChooseForBodyless(r) \/ ChooseAfterError(r) \/ Choose(r) \/ ChooseUnbooked(r)
             \/ OnRequestRouted(r) \/ TurnedAway(r) \/ Cancel(r) \/ Abandon(r)
      PROVE  CallInv'
  <2>1. /\ UNCHANGED <<cands, plug, up>>
        /\ \E stage \in {"new", "routing", "running", "cancelled"} : pc' = [pc EXCEPT ![r] = stage]
    BY <1>2 DEF ChooseForBodyless, ChooseAfterError, Choose, Commit, ChooseUnbooked, OnRequestRouted,
                TurnedAway, Cancel, Abandon, PlaceAtRandom, PlaceAt, ray
  <2> QED BY <2>1, <1>1 DEF CallInv, Shape
<1>3. ASSUME NEW r \in Requests, StartChoosing(r) PROVE CallInv'
  BY <1>1, <1>3 DEF StartChoosing, CallInv, Shape, ray
<1>4. ASSUME NEW r \in Requests, Wait(r) PROVE CallInv'
  <2>1. AdmitPlugins(r) \in 1..MaxEdits /\ AdmitPlugins(r) <= loaded /\ cands[r] # {}
    BY <1>4, WaitsWithPlugins DEF Wait, Fetching, CallInv
  <2>2. /\ plug' = [plug EXCEPT ![r] = AdmitPlugins(r)]
        /\ pc' = [pc EXCEPT ![r] = "waiting"]
        /\ UNCHANGED <<cands, loaded, up>>
    BY <1>4 DEF Wait, ray
  <2> QED BY <2>1, <2>2, RouterAssumption DEF CallInv, Shape
<1>5. ASSUME NEW r \in Requests, Finish(r) PROVE CallInv'
  <2>1. /\ UNCHANGED <<cands, plug, loaded, up>>
        /\ \A q \in Requests : \/ pc'[q] \in {"done", pc[q]}
                               \/ pc'[q] = "refetching" /\ pc[q] = "waiting"
    BY <1>5 DEF Finish, Woken, Shape, ray
  <2> QED BY <2>1 DEF CallInv
<1>6. ASSUME NEW e \in Engines, ReplicaDies(e) \/ ReplicaJoins(e) PROVE CallInv'
  <2>1. /\ UNCHANGED <<pc, cands, plug, loaded>>
        /\ "death" \notin FaultKinds => up \subseteq up'
    BY <1>6 DEF ReplicaDies, ReplicaJoins, Fault
  <2> QED BY <2>1 DEF CallInv
<1>7. ASSUME EditConfig \/ UNCHANGED vars PROVE CallInv'
  <2>1. UNCHANGED <<pc, cands, plug, loaded, up>>
    BY <1>7 DEF EditConfig, vars
  <2> QED BY <2>1 DEF CallInv
<1> QED BY <1>2, <1>3, <1>4, <1>5, <1>6, <1>7 DEF Next, Step, AllOver

\* Only Choose books, with the plugin of the config it loads; only Finish releases.
LEMMA LedgerChanges ==
    ASSUME RInv, [Next]_vars,
           \A r \in Requests : ~Choose(r) /\ ~(Finish(r) /\ r \in hooked)
    PROVE  ledgers' = ledgers
<1>1. ASSUME NEW r \in Requests, Step(r) \/ Cancel(r) \/ Abandon(r) PROVE ledgers' = ledgers
  BY <1>1 DEF Step, ChooseForBodyless, StartChoosing, ChooseAfterError, Wait, ChooseUnbooked,
              OnRequestRouted, TurnedAway, Finish, Cancel, Abandon
<1>2. ASSUME NEW e \in Engines, ReplicaDies(e) \/ ReplicaJoins(e) PROVE ledgers' = ledgers
  BY <1>2 DEF ReplicaDies, ReplicaJoins
<1>3. CASE EditConfig
  BY <1>3 DEF EditConfig
<1>4. CASE UNCHANGED vars
  BY <1>4 DEF vars
<1> QED BY <1>1, <1>2, <1>3, <1>4 DEF Next, AllOver

LEMMA ConfigStep == RInv /\ [Next]_vars => ConfigInv'
<1> SUFFICES ASSUME RInv, [Next]_vars PROVE ConfigInv'
  OBVIOUS
<1>1. /\ loaded <= loaded' /\ loaded' <= edited' /\ loaded' \in {loaded, edited}
      /\ loaded \in Nat /\ edited \in Nat
  BY LoadedGrows, RouterAssumption DEF RInv, Shape
<1>2. ASSUME NEW v \in 1..MaxEdits, v > loaded' PROVE ledgers'[v] = EmptyLedger
  <2>1. ledgers[v] = EmptyLedger /\ v # loaded
    BY <1>1, <1>2 DEF RInv, ConfigInv
  <2>2. ASSUME NEW r \in Requests, Choose(r) PROVE ledgers'[v] = ledgers[v]
    <3>1. v # edited
      BY <1>1, <1>2, <2>2 DEF Choose, Commit
    <3> QED BY <2>2, <3>1, ChooseReserves DEF RInv, Shape
  <2>3. ASSUME NEW r \in Requests, Finish(r), r \in hooked PROVE ledgers'[v] = ledgers[v]
    BY <2>1, <2>3, FinishFrees DEF RInv, Shape
  <2> QED BY <2>1, <2>2, <2>3, LedgerChanges
<1> QED BY <1>1, <1>2 DEF RInv, ConfigInv

----------------------------------------------------------------------------
\* A request that is not booked is booked by nothing but its own Choose: neither another
\* request's step nor a reload gives it a reservation.
LEMMA NoForeignBooking ==
    ASSUME RInv, [Next]_vars, NEW q \in Requests, ~Booked(q), ~Choose(q)
    PROVE  ~Booked(q)'
<1> DEFINE held(v) == ledgers[v].reservation[q]
<1>1. /\ loaded' \in {loaded, edited} /\ loaded <= edited
      /\ loaded \in 0..MaxEdits /\ edited \in 1..MaxEdits /\ MaxEdits \in Nat
      /\ ledgers \in [1..MaxEdits -> Ledger]
  BY LoadedGrows, RouterAssumption DEF RInv, Shape, ConfigInv
<1>2. ASSUME NEW v \in {loaded, edited}, v > 0 PROVE held(v) = NoReservation
  <2>1. CASE v = loaded
    BY <1>2, <2>1 DEF Booked, Booking
  <2>2. CASE v > loaded
    <3>1. ledgers[v] = EmptyLedger
      BY <1>1, <2>2 DEF RInv, ConfigInv
    <3> QED BY <3>1 DEF EmptyLedger, Requests
  <2> QED BY <1>1, <2>1, <2>2
<1>3. CASE ledgers' = ledgers
  BY <1>1, <1>2, <1>3 DEF Booked, Booking
<1>4. ASSUME NEW r \in Requests, Choose(r) PROVE ~Booked(q)'
  <2>1. loaded' = edited /\ q # r
    BY <1>4 DEF Choose, Commit
  <2>2. PICK e \in Engines, report \in Reports :
          ledgers' = [ledgers EXCEPT ![edited] = Reserve(@, r, Prompt[r], e, report)]
    BY <1>4, ChooseReserves DEF RInv
  <2> DEFINE R == Reserve(ledgers[edited], r, Prompt[r], e, report)
  <2>3. R.reservation[q] = held(edited)
    <3>1. ledgers[edited] \in Ledger /\ r \in Ids /\ q \in Ids \ {r} /\ Prompt[r] \in Nat
      BY <1>1, <2>1, RouterAssumption DEF Requests
    <3> QED BY <3>1, ReserveOthers
  <2>4. ledgers'[edited] = R
    BY <1>1, <2>2
  <2> HIDE DEF R
  <2> QED BY <1>1, <1>2, <2>1, <2>3, <2>4 DEF Booked, Booking
<1>5. ASSUME NEW r \in Requests, Finish(r), r \in hooked PROVE ~Booked(q)'
  <2>1. /\ loaded \in 1..MaxEdits /\ ledgers[loaded] \in Ledger /\ loaded' = loaded
        /\ ledgers' = [ledgers EXCEPT ![loaded] = Release(@, r, {})]
    BY <1>5, FinishFrees DEF RInv, Finish
  <2>2. Release(ledgers[loaded], r, {}).reservation
          = [ledgers[loaded].reservation EXCEPT ![r] = NoReservation]
    BY <2>1, ReleaseTyped DEF Requests
  <2>3. ledgers'[loaded].reservation = [ledgers[loaded].reservation EXCEPT ![r] = NoReservation]
    BY <1>1, <2>1, <2>2
  <2>4. ledgers'[loaded].reservation[q] = NoReservation
    BY <1>2, <2>1, <2>3 DEF Ledger, Requests
  <2> QED BY <2>1, <2>4 DEF Booked, Booking
<1> QED BY <1>3, <1>4, <1>5, LedgerChanges

\* The releasing Finish leaves its request without a booking.
LEMMA FinishUnbooks ==
    ASSUME RInv, NEW r \in Requests, Finish(r), r \in hooked
    PROVE  ~Booked(r)'
<1>1. /\ loaded \in 1..MaxEdits /\ ledgers[loaded] \in Ledger /\ loaded' = loaded
      /\ ledgers' = [ledgers EXCEPT ![loaded] = Release(@, r, {})]
  BY FinishFrees DEF RInv, Finish
<1>2. Release(ledgers[loaded], r, {}).reservation
        = [ledgers[loaded].reservation EXCEPT ![r] = NoReservation]
  BY <1>1, ReleaseTyped DEF Requests
<1>3. ledgers'[loaded].reservation = [ledgers[loaded].reservation EXCEPT ![r] = NoReservation]
  BY <1>1, <1>2 DEF RInv, Shape
<1>4. ledgers'[loaded].reservation[r] = NoReservation
  BY <1>1, <1>3 DEF Ledger, Requests
<1> QED BY <1>1, <1>4 DEF Booked, Booking

\* How a request comes to run, and how it ends.
LEMMA StageChanges ==
    ASSUME RInv, [Next]_vars
    PROVE  /\ \A q \in Requests :
                /\ pc'[q] = "running" => pc[q] = "running" \/ OnRequestRouted(q)
                /\ pc'[q] = "done" => pc[q] = "done" \/ Finish(q)
           /\ hooked \subseteq hooked'
           /\ hooked' # hooked => loaded > 0 /\ loaded' = loaded
<1> USE DEF RInv, Shape
<1>1. ASSUME NEW r \in Requests,
             \/ ChooseForBodyless(r) \/ StartChoosing(r) \/ ChooseAfterError(r) \/ Wait(r)
             \/ Choose(r) \/ ChooseUnbooked(r) \/ TurnedAway(r) \/ Cancel(r) \/ Abandon(r)
      PROVE  /\ hooked' = hooked
             /\ \E stage \in {"new", "fetching", "waiting", "routing", "cancelled"} :
                   pc' = [pc EXCEPT ![r] = stage]
  BY <1>1 DEF ChooseForBodyless, StartChoosing, ChooseAfterError, Wait, Choose, Commit, ChooseUnbooked,
              TurnedAway, Cancel, Abandon, PlaceAtRandom, PlaceAt, ray
<1>2. ASSUME NEW r \in Requests, OnRequestRouted(r)
      PROVE  /\ hooked \subseteq hooked' /\ loaded' = loaded
             /\ hooked' # hooked => loaded > 0
             /\ pc' = [pc EXCEPT ![r] = "running"]
  BY <1>2 DEF OnRequestRouted, HasFlowControl
<1>3. ASSUME NEW r \in Requests, Finish(r)
      PROVE  /\ hooked' = hooked
             /\ \A p \in Requests \ {r} : pc'[p] \in {pc[p], "refetching"}
             /\ pc'[r] = "done"
  BY <1>3 DEF Finish, ray
<1>4. ASSUME EditConfig \/ (\E e \in Engines : ReplicaDies(e) \/ ReplicaJoins(e)) \/ UNCHANGED vars
      PROVE  UNCHANGED <<pc, hooked>>
  BY <1>4 DEF EditConfig, ReplicaDies, ReplicaJoins, vars
<1> QED BY <1>1, <1>2, <1>3, <1>4 DEF Next, Step, AllOver

LEMMA HookStep == RInv /\ [Next]_vars => HookInv'
<1> SUFFICES ASSUME RInv, [Next]_vars PROVE HookInv'
  OBVIOUS
<1>1. (hooked # {} => loaded > 0)'
  <2>1. loaded \in Nat /\ loaded' \in Nat /\ loaded <= loaded'
    BY LoadedGrows, RouterAssumption DEF RInv, Shape
  <2>3. hooked' # {} => loaded > 0
    BY StageChanges DEF RInv, HookInv
  <2> QED BY <2>1, <2>3
<1>2. ASSUME NEW q \in Requests, pc'[q] = "running", q \notin hooked' PROVE ~Booked(q)'
  <2>1. CASE pc[q] = "running"
    <3>1. ~Booked(q) /\ ~Choose(q)
      BY <1>2, <2>1, StageChanges DEF RInv, HookInv, Choose, Commit, Fetching
    <3> QED BY <3>1, NoForeignBooking
  <2>2. CASE OnRequestRouted(q)
    <3>1. ~HasFlowControl /\ loaded' = loaded
      BY <1>2, <2>2 DEF OnRequestRouted
    <3> QED BY <3>1 DEF HasFlowControl, Booked
  <2> QED BY <1>2, <2>1, <2>2, StageChanges
<1>3. ASSUME NEW q \in Requests, pc'[q] = "done" PROVE ~Booked(q)'
  <2>1. CASE pc[q] = "done" \/ (Finish(q) /\ q \notin hooked)
    <3>1. ~Booked(q) /\ ~Choose(q)
      BY <2>1 DEF RInv, HookInv, FinishedHoldsNothing, Choose, Commit, Fetching, Finish
    <3> QED BY <3>1, NoForeignBooking
  <2>2. CASE Finish(q) /\ q \in hooked
    BY <2>2, FinishUnbooks
  <2>3. pc[q] = "done" \/ Finish(q)
    BY <1>3, StageChanges
  <2> QED BY <2>1, <2>2, <2>3
<1> QED BY <1>1, <1>2, <1>3 DEF HookInv, FinishedHoldsNothing

LEMMA RInvAlways == Spec => []RInv
<1>1. RInv /\ [Next]_vars => RInv'
  BY ShapeStep, QueueStep, CallStep, ConfigStep, HookStep DEF RInv
<1> QED BY <1>1, RouterInit, PTL DEF Spec

----------------------------------------------------------------------------
\* The router's state keeps its shape, and a waiting request has exactly one future in
\* the admission queue: through cancels, reloads and every other fault.
THEOREM RouterTypeCorrect == Spec => []TypeOK
<1>1. RInv => TypeOK
  <2> SUFFICES ASSUME RInv PROVE TypeOK
    OBVIOUS
  <2>1. ASSUME NEW r \in Requests, pc[r] = "waiting"
        PROVE  Cardinality({i \in DOMAIN queue : queue[i] = r}) = 1
    <3>1. PICK i \in DOMAIN queue : queue[i] = r
      BY <2>1 DEF RInv, QueueInv
    <3>2. {j \in DOMAIN queue : queue[j] = r} = {i}
      BY <3>1 DEF RInv, QueueInv
    <3> QED BY <3>2, FS_Singleton
  <2> QED BY <2>1 DEF RInv, Shape, TypeOK
<1> QED BY <1>1, RInvAlways, PTL

\* "When a request finishes, its reservation is freed": whatever faults, reroutes and
\* reloads came before, a finished request holds nothing in the loaded plugin.
THEOREM FinishedIsFreed == Spec => []FinishedHoldsNothing
<1>1. RInv => FinishedHoldsNothing
  BY DEF RInv, HookInv
<1> QED BY <1>1, RInvAlways, PTL

----------------------------------------------------------------------------
(* The books of the first plugin.  It is the one the router checks and     *)
(* books with until a reload; only on a cold start does the first request  *)
(* get a booking that was not checked.                                     *)

SoundInv == loaded = 1 => Sound(ledgers[1])

\* No engine's capacity is ever unknown to the router.
EveryEngineReports ==
    SilentEngines = {} /\ "death" \notin FaultKinds /\ "statsLost" \notin FaultKinds

\* What makes the first booking sound although nothing checked it.
FirstBookingSound == ~ColdStart \/ FractionNum < FractionDen \/ EveryEngineReports

LEMMA ReportsCapacity ==
    ASSUME RInv, EveryEngineReports, NEW r \in Requests, NEW lost \in SUBSET (cands[r] \cap up),
           LostStats(r, lost)
    PROVE  View(r, lost) = [e \in cands[r] |-> "capacity"]
<1>1. lost = {} /\ cands[r] \subseteq up
  BY DEF EveryEngineReports, LostStats, Fault, RInv, CallInv
<1> QED BY <1>1 DEF View, RecordedStats, EveryEngineReports

\* A call that fetched its stats while version 1 is loaded is checked by its plugin.
LEMMA CheckedByLoaded ==
    ASSUME RInv, NEW r \in Requests, Fetching(r), loaded = 1
    PROVE  AdmitPlugins(r) = 1
  BY DEF RInv, Shape, CallInv, AdmitPlugins, Fetching

LEMMA ChooseKeepsSound ==
    ASSUME FirstBookingSound,
           RInv, SoundInv, NEW r \in Requests, Choose(r), loaded' = 1
    PROVE  Sound(ledgers'[1])
<1>1. edited = 1 /\ loaded \in {0, 1} /\ 1 \in 1..MaxEdits
  BY RouterAssumption DEF Choose, Commit, RInv, Shape, ConfigInv
<1>2. r \in Ids /\ Prompt[r] \in Nat
  BY RouterAssumption DEF Requests
<1>3. CASE loaded = 0
  <2>1. ledgers[1] = EmptyLedger /\ (FractionNum < FractionDen \/ EveryEngineReports)
    BY <1>1, <1>3 DEF RInv, ConfigInv, FirstBookingSound
  <2>2. PICK lost \in SUBSET (cands[r] \cap up), e \in cands[r] :
             /\ LostStats(r, lost) /\ e \in Engines
             /\ View(r, lost)[e] \in Reports
             /\ ledgers' = [ledgers EXCEPT
                   ![edited] = Reserve(@, r, Prompt[r], e, View(r, lost)[e])]
    BY ChooseBooks DEF RInv
  <2> DEFINE report == View(r, lost)[e]
  <2>3. report \in Reports /\ e \in Engines
    BY <2>2
  <2>4. report = "capacity" \/ FractionNum < FractionDen
    BY <2>1, <2>2, ReportsCapacity
  <2>5. ledgers'[1] = Reserve(EmptyLedger, r, Prompt[r], e, report)
    BY <1>1, <2>1, <2>2 DEF RInv, Shape
  <2> HIDE DEF report
  <2>6. Sound(Reserve(EmptyLedger, r, Prompt[r], e, report))
    BY <1>2, <2>3, <2>4, FirstReserveSound, EmptySound
  <2> QED BY <2>5, <2>6
<1>4. CASE loaded = 1
  <2>1. PICK lost \in SUBSET (cands[r] \cap up), e \in cands[r] :
             /\ e \in Admitted(r, View(r, lost)) /\ e \in Engines
             /\ View(r, lost)[e] \in Reports
             /\ ledgers' = [ledgers EXCEPT
                   ![edited] = Reserve(@, r, Prompt[r], e, View(r, lost)[e])]
    BY ChooseBooks DEF RInv
  <2> DEFINE report == View(r, lost)[e]
  <2>2. Fits(ledgers[1], r, Prompt[r], e, report)
    <3>1. AdmitPlugins(r) = 1
      BY <1>4, CheckedByLoaded DEF Choose, Commit
    <3> QED BY <2>1, <3>1 DEF Admitted, AllowedCandidates
  <2>3. ledgers'[1] = Reserve(ledgers[1], r, Prompt[r], e, report)
    BY <1>1, <2>1 DEF RInv, Shape
  <2>4. report \in Reports /\ e \in Engines
    BY <2>1
  <2> HIDE DEF report
  <2>5. Sound(Reserve(ledgers[1], r, Prompt[r], e, report))
    BY <1>2, <1>4, <2>2, <2>4, ReserveSound DEF SoundInv
  <2> QED BY <2>3, <2>5
<1> QED BY <1>1, <1>3, <1>4

LEMMA SoundStep ==
    ASSUME FirstBookingSound, RInv, SoundInv, [Next]_vars
    PROVE  SoundInv'
<1> SUFFICES ASSUME loaded' = 1 PROVE Sound(ledgers'[1])
  BY DEF SoundInv
<1>1. /\ loaded \in {0, 1} /\ 1 \in 1..MaxEdits
      /\ loaded = 0 => ledgers[1] = EmptyLedger
  BY LoadedGrows, RouterAssumption DEF RInv, Shape, ConfigInv
<1>2. Sound(ledgers[1])
  BY <1>1, EmptySound DEF SoundInv
<1>3. CASE ledgers' = ledgers
  BY <1>2, <1>3
<1>4. ASSUME NEW r \in Requests, Choose(r) PROVE Sound(ledgers'[1])
  BY <1>4, ChooseKeepsSound
<1>5. ASSUME NEW r \in Requests, Finish(r), r \in hooked PROVE Sound(ledgers'[1])
  <2>1. loaded = 1 /\ ledgers' = [ledgers EXCEPT ![1] = Release(@, r, {})]
    BY <1>1, <1>5, FinishFrees DEF RInv, Finish
  <2>2. ledgers'[1] = DropReservation(ledgers[1], r)
    BY <1>1, <2>1 DEF RInv, Shape, Release
  <2> QED BY <1>2, <2>2, DropSound DEF Requests
<1> QED BY <1>3, <1>4, <1>5, LedgerChanges

LEMMA SoundAlways ==
    ASSUME FirstBookingSound
    PROVE  Spec => []SoundInv
<1>1. Init => SoundInv
  <2>1. Init => ledgers = [v \in 1..MaxEdits |-> EmptyLedger]
    BY DEF Init
  <2> QED BY <2>1, EmptySound, RouterAssumption DEF SoundInv
<1>2. RInv /\ SoundInv /\ [Next]_vars => SoundInv'
  BY SoundStep
<1> QED BY <1>1, <1>2, RInvAlways, PTL DEF Spec

\* Until a reload the books are right and within every budget, under every fault.  A cold
\* start needs a budget below the whole capacity, or every capacity known: else the first
\* request, which nothing checks, may be booked with the budget -1 of an unknown capacity.
THEOREM BooksSoundUntilReload ==
    ASSUME FirstBookingSound
    PROVE  Spec => []SoundUntilReload
<1>1. SoundInv => SoundUntilReload
  BY DEF SoundInv, Sound, SoundUntilReload
<1> QED BY <1>1, SoundAlways, PTL

----------------------------------------------------------------------------
(* The router implements KVSaturation: while one config is loaded every    *)
(* booking is one the plugin allowed at that moment.                       *)

\* The plugin's operators, as KVSaturation's instance has them.
LEMMA SameOperators ==
    ASSUME NEW L, NEW t, NEW prompt, NEW view, NEW e, NEW report
    PROVE  /\ KV!AllowedCandidates(L, t, prompt, view) = AllowedCandidates(L, t, prompt, view)
           /\ KV!NoCapacityReported(view) = NoCapacityReported(view)
           /\ KV!Reserve(L, t, prompt, e, report) = Reserve(L, t, prompt, e, report)
           /\ KV!Release(L, t, {}) = Release(L, t, {})
<1>1. KV!AllowedCandidates(L, t, prompt, view) = AllowedCandidates(L, t, prompt, view)
  BY DEF KV!AllowedCandidates, KV!Fits, KV!Home, KV!KvTokenBudget, KV!ReportedCapacity, KV!OwnTokens,
         KV!KvTokensNeeded, KV!TurnAt, KV!Smaller,
         AllowedCandidates, Fits, Home, KvTokenBudget, ReportedCapacity, OwnTokens,
         KvTokensNeeded, TurnAt, Smaller
<1>2. KV!NoCapacityReported(view) = NoCapacityReported(view)
  BY DEF KV!NoCapacityReported, KV!ReportsNoCapacity, NoCapacityReported, ReportsNoCapacity
<1>3. KV!DropReservation(L, t) = DropReservation(L, t)
  BY DEF KV!DropReservation, DropReservation
<1>4. KV!Reserve(L, t, prompt, e, report) = Reserve(L, t, prompt, e, report)
  BY <1>3 DEF KV!Reserve, KV!KvTokenBudget, KV!ReportedCapacity, KV!KvTokensNeeded, KV!TurnAt, KV!Smaller,
         Reserve, KvTokenBudget, ReportedCapacity, KvTokensNeeded, TurnAt, Smaller
<1>5. KV!Release(L, t, {}) = Release(L, t, {})
  BY <1>3 DEF KV!Release, Release
<1> QED BY <1>1, <1>2, <1>4, <1>5

\* An empty plugin allows every candidate whose capacity and budget are known.
LEMMA EmptyAllowsAll ==
    ASSUME NEW cs \in SUBSET Engines, \A e \in cs : KvTokenBudget(e, "capacity") > 0,
           NEW t \in Ids, NEW prompt \in Nat
    PROVE  /\ AllowedCandidates(EmptyLedger, t, prompt, [e \in cs |-> "capacity"]) = cs
           /\ ~NoCapacityReported([e \in cs |-> "capacity"])
<1> DEFINE view == [e \in cs |-> "capacity"]
<1>1. EmptyLedger.lastTurns = << >> /\ EmptyLedger \in Ledger
  BY EmptySound DEF EmptyLedger, Sound
<1>2. Home(EmptyLedger, t) = {}
  BY <1>1 DEF Home, TurnAt
<1>3. ASSUME NEW e \in cs PROVE Fits(EmptyLedger, t, prompt, e, "capacity")
  <2>1. EmptyLedger.reserved[e] = 0 /\ OwnTokens(EmptyLedger, t, e) = 0
    BY DEF EmptyLedger, OwnTokens
  <2>2. KvTokenBudget(e, "capacity") \in Int /\ KvTokensNeeded(EmptyLedger, t, prompt) \in Nat
    BY <1>1, NeedIsNat, BudgetIsInt DEF Reports
  <2> QED BY <2>1, <2>2 DEF Fits, Smaller
<1>4. AllowedCandidates(EmptyLedger, t, prompt, view) = cs
  BY <1>2, <1>3 DEF AllowedCandidates
<1>5. ~NoCapacityReported(view)
  BY DEF NoCapacityReported, ReportsNoCapacity
<1> QED BY <1>4, <1>5

\* What makes the first booking one that the plugin would have allowed.
FirstBookingAllowed ==
    ~ColdStart \/ (EveryEngineReports /\ \A e \in Engines : KvTokenBudget(e, "capacity") > 0)

LEMMA ChooseIsAdmit ==
    ASSUME FirstBookingAllowed, MaxEdits = 1, RInv, NEW r \in Requests, Choose(r)
    PROVE  KV!PluginNext
<1>1. edited = 1 /\ loaded \in {0, 1} /\ r \in Ids /\ Prompt[r] \in Nat
  BY RouterAssumption DEF RInv, Shape, ConfigInv, Requests, Choose, Commit
<1>2. PICK lost \in SUBSET (cands[r] \cap up), e \in cands[r] :
             /\ LostStats(r, lost)
             /\ ~AdmissionRaises(r, View(r, lost))
             /\ e \in Admitted(r, View(r, lost)) /\ e \in Engines
             /\ ledgers' = [ledgers EXCEPT
                   ![edited] = Reserve(@, r, Prompt[r], e, View(r, lost)[e])]
  BY ChooseBooks DEF RInv
<1> DEFINE view == View(r, lost)
<1>3. view \in KV!Views
  <2>1. view \in [cands[r] -> Reports] /\ cands[r] \in SUBSET Engines
    BY DEF View, RecordedStats, Reports, RInv, Shape
  <2> HIDE DEF view
  <2> QED BY <2>1 DEF KV!Views, KV!Reports, Reports
<1>4. ~NoCapacityReported(view) /\ e \in AllowedCandidates(ledgers[1], r, Prompt[r], view)
  <2>1. CASE loaded = 1
    <3>1. AdmitPlugins(r) = 1
      BY <2>1, CheckedByLoaded DEF Choose, Commit
    <3> QED BY <1>2, <3>1 DEF AdmissionRaises, Admitted
  <2>2. CASE loaded = 0
    <3>1. /\ ledgers[1] = EmptyLedger /\ EveryEngineReports
          /\ \A d \in cands[r] : KvTokenBudget(d, "capacity") > 0
      BY <2>2, <1>1 DEF RInv, Shape, ConfigInv, FirstBookingAllowed
    <3>2. view = [d \in cands[r] |-> "capacity"] /\ cands[r] \in SUBSET Engines
      BY <1>2, <3>1, ReportsCapacity DEF RInv, Shape
    <3> HIDE DEF view
    <3> QED BY <1>1, <1>2, <3>1, <3>2, EmptyAllowsAll
  <2> QED BY <1>1, <2>1, <2>2
<1>5. ledgers'[1] = Reserve(ledgers[1], r, Prompt[r], e, view[e])
  BY <1>1, <1>2 DEF RInv, Shape
<1> HIDE DEF view
<1>6. KV!Admit(r, Prompt[r], view)
  BY <1>4, <1>5, SameOperators DEF KV!Admit
<1> QED BY <1>1, <1>3, <1>6 DEF KV!PluginNext

LEMMA RefinesStep ==
    ASSUME FirstBookingAllowed, MaxEdits = 1, RInv, [Next]_vars
    PROVE  [KV!PluginNext]_(ledgers[1])
<1>1. CASE ledgers' = ledgers
  BY <1>1
<1>2. ASSUME NEW r \in Requests, Choose(r) PROVE KV!PluginNext
  BY <1>2, ChooseIsAdmit
<1>3. ASSUME NEW r \in Requests, Finish(r), r \in hooked PROVE KV!PluginNext
  <2>1. loaded = 1 /\ ledgers' = [ledgers EXCEPT ![1] = Release(@, r, {})]
    BY <1>3, FinishFrees DEF RInv
  <2>2. ledgers'[1] = Release(ledgers[1], r, {})
    BY <2>1 DEF RInv, Shape
  <2>3. KV!FinishTurn(r, {}) /\ {} \in KV!ReportedOutputs
    BY <2>2, SameOperators DEF KV!FinishTurn, KV!ReportedOutputs
  <2> QED BY <2>3 DEF KV!PluginNext, Requests
<1> QED BY <1>1, <1>2, <1>3, LedgerChanges

\* While one config is loaded the router keeps the protocol the plugin is written for,
\* whatever the faults: it books only what the plugin allowed at that very moment, and
\* changes the books otherwise only by a release.  On a cold start the first request is
\* not checked; the plugin would have allowed it if every engine reports its capacity.
THEOREM RouterImplementsKVSaturation ==
    ASSUME FirstBookingAllowed, MaxEdits = 1
    PROVE  Spec => ImplementsKVSaturation
<1>1. Init => KV!PluginInit
  BY DEF Init, KV!PluginInit, EmptyLedger, KV!EmptyLedger
<1>2. RInv /\ [Next]_vars => [KV!PluginNext]_(ledgers[1])
  BY RefinesStep
<1> QED BY <1>1, <1>2, RInvAlways, PTL DEF Spec, ImplementsKVSaturation, KV!PluginSpec

----------------------------------------------------------------------------
(* Where every placement is booked the engines themselves stay within      *)
(* their budgets: the books count what runs.                               *)

\* The environment in which no request is placed without a booking.  Rejections, cancels,
\* abandoned requests and new replicas are allowed, and after a warm start also deaths and
\* lost stats.
EveryPlacementBooked ==
    /\ MaxEdits = 1 /\ BadConfigs = {} /\ SilentEngines = {}
    /\ "buildFails" \notin FaultKinds /\ "noPick" \notin FaultKinds
    /\ ~ColdStart \/ EveryEngineReports

FullBooking(r, e) ==
    [engine |-> e, tokens |-> Smaller(Prompt[r] + DefaultOsl, KvTokenBudget(e, "capacity"))]

BookedInv ==
    /\ ledgers[1].lastTurns = << >>
    /\ \A r \in Requests \ Bodyless :
          pc[r] \in {"routing", "running"} =>
              /\ loaded = 1 /\ target[r] \in Engines
              /\ ledgers[1].reservation[r] = FullBooking(r, target[r])

LEMMA ChooseBooksFully ==
    ASSUME EveryPlacementBooked, RInv, BookedInv, NEW r \in Requests, Choose(r)
    PROVE  /\ loaded' = 1 /\ target'[r] \in Engines
           /\ ledgers'[1].reservation[r] = FullBooking(r, target'[r])
           /\ ledgers'[1].lastTurns = << >>
<1>1. /\ edited = 1 /\ loaded \in {0, 1} /\ loaded' = 1
      /\ ledgers[1] \in Ledger /\ r \in Ids /\ Prompt[r] \in Nat
  BY RouterAssumption DEF EveryPlacementBooked, RInv, Shape, ConfigInv, Requests, Choose, Commit
<1>2. PICK lost \in SUBSET (cands[r] \cap up), e \in cands[r] :
             /\ LostStats(r, lost)
             /\ e \in Admitted(r, View(r, lost)) /\ e \in Engines
             /\ View(r, lost)[e] \in Reports
             /\ PlaceAt(r, e)
             /\ ledgers' = [ledgers EXCEPT
                   ![edited] = Reserve(@, r, Prompt[r], e, View(r, lost)[e])]
  BY ChooseBooks DEF RInv
<1>3. View(r, lost)[e] = "capacity"
  <2>1. CASE loaded = 1
    <3>1. AdmitPlugins(r) = 1
      BY <2>1, CheckedByLoaded DEF Choose, Commit
    <3>2. Fits(ledgers[1], r, Prompt[r], e, View(r, lost)[e])
      BY <1>2, <3>1 DEF Admitted, AllowedCandidates
    <3> QED BY <1>2, <3>2, BudgetOfUnknown DEF Fits
  <2>2. CASE loaded = 0
    BY <1>2, <2>2, ReportsCapacity DEF EveryPlacementBooked, RInv, ConfigInv
  <2> QED BY <1>1, <2>1, <2>2
<1>4. target'[r] = e
  BY <1>2 DEF PlaceAt, RInv, Shape
<1>5. ledgers'[1] = Reserve(ledgers[1], r, Prompt[r], e, "capacity")
  BY <1>1, <1>2, <1>3, RouterAssumption DEF RInv, Shape
<1>6. KvTokensNeeded(ledgers[1], r, Prompt[r]) = Prompt[r] + DefaultOsl
  BY DEF BookedInv, KvTokensNeeded, TurnAt
<1>7. \E report \in Reports : report = "capacity"
  BY DEF Reports
<1>8. /\ ledgers'[1].reservation[r] =
            [engine |-> e, tokens |-> Smaller(KvTokensNeeded(ledgers[1], r, Prompt[r]),
                                              KvTokenBudget(e, "capacity"))]
      /\ ledgers'[1].lastTurns = ledgers[1].lastTurns
  BY <1>1, <1>2, <1>5, <1>7, ReserveBooks
<1> QED BY <1>1, <1>2, <1>4, <1>6, <1>8 DEF FullBooking, BookedInv

\* The other requests' bookings, and the memory of last turns, stay as they are.
LEMMA OthersKeepBookings ==
    ASSUME MaxEdits = 1, RInv, [Next]_vars, NEW q \in Requests, ~Choose(q), ~Finish(q)
    PROVE  ledgers'[1].reservation[q] = ledgers[1].reservation[q]
<1>1. /\ edited = 1 /\ loaded \in {0, 1} /\ ledgers[1] \in Ledger /\ q \in Ids
      /\ ledgers \in [1..MaxEdits -> Ledger]
  BY RouterAssumption DEF RInv, Shape, Requests
<1>2. CASE ledgers' = ledgers
  BY <1>2
<1>3. ASSUME NEW r \in Requests, Choose(r)
      PROVE  ledgers'[1].reservation[q] = ledgers[1].reservation[q]
  <2>1. r \in Ids /\ Prompt[r] \in Nat /\ q \in Ids \ {r}
    BY <1>1, <1>3, RouterAssumption DEF Requests
  <2>2. PICK e \in Engines, report \in Reports :
          ledgers' = [ledgers EXCEPT ![edited] = Reserve(@, r, Prompt[r], e, report)]
    BY <1>3, ChooseReserves DEF RInv
  <2>3. ledgers'[1] = Reserve(ledgers[1], r, Prompt[r], e, report)
    BY <1>1, <2>2
  <2> QED BY <1>1, <2>1, <2>3, ReserveOthers
<1>4. ASSUME NEW r \in Requests, Finish(r), r \in hooked
      PROVE  ledgers'[1].reservation[q] = ledgers[1].reservation[q]
  <2>1. loaded = 1 /\ ledgers' = [ledgers EXCEPT ![1] = Release(@, r, {})] /\ r \in Ids
    BY <1>1, <1>4, FinishFrees DEF RInv, Requests
  <2>2. ledgers'[1] = Release(ledgers[1], r, {}) /\ q # r
    BY <1>1, <1>4, <2>1
  <2>3. ledgers'[1].reservation = [ledgers[1].reservation EXCEPT ![r] = NoReservation]
    BY <1>1, <2>1, <2>2, ReleaseTyped
  <2> QED BY <1>1, <2>2, <2>3 DEF Ledger
<1> QED BY <1>2, <1>3, <1>4, LedgerChanges

\* How a request comes to be placed, where no request is placed without a booking.
LEMMA PlacementChanges ==
    ASSUME EveryPlacementBooked, RInv, [Next]_vars, NEW q \in Requests \ Bodyless,
           pc'[q] \in {"routing", "running"}
    PROVE  \/ Choose(q)
           \/ /\ pc[q] \in {"routing", "running"} /\ target'[q] = target[q]
              /\ ~Choose(q) /\ ~Finish(q)
<1> USE DEF RInv, Shape
<1>1. pc[q] \in {"routing", "running"} => ~Choose(q)
  BY DEF Choose, Commit, Fetching
<1>2. ~Finish(q)
  BY DEF Finish
<1>3. ASSUME NEW r \in Requests,
             \/ StartChoosing(r) \/ Wait(r) \/ OnRequestRouted(r) \/ TurnedAway(r)
             \/ Cancel(r) \/ Abandon(r)
      PROVE  pc[q] \in {"routing", "running"} /\ target'[q] = target[q]
  BY <1>3 DEF StartChoosing, Wait, OnRequestRouted, TurnedAway, Cancel, Abandon
<1>4. ASSUME NEW r \in Requests, Finish(r)
      PROVE  pc[q] \in {"routing", "running"} /\ target'[q] = target[q]
  BY <1>4 DEF Finish
<1>5. ASSUME NEW r \in Requests, ChooseForBodyless(r)
      PROVE  pc[q] \in {"routing", "running"} /\ target'[q] = target[q]
  BY <1>5 DEF ChooseForBodyless, PlaceAtRandom, PlaceAt
<1>6. ASSUME NEW r \in Requests PROVE ~ChooseAfterError(r)
  <2>1. ASSUME NEW lost \in SUBSET (cands[r] \cap up), AdmissionRaises(r, View(r, lost))
        PROVE  FALSE
    BY <2>1 DEF AdmissionRaises, NoCapacityReported, ReportsNoCapacity, View, RecordedStats, EveryPlacementBooked
  <2> QED BY <2>1 DEF ChooseAfterError, Fault, EveryPlacementBooked
<1>7. ASSUME NEW r \in Requests PROVE ~ChooseUnbooked(r)
  BY DEF ChooseUnbooked, Fault, ReloadRaises, EveryPlacementBooked
<1>8. ASSUME NEW r \in Requests \ {q}, Choose(r)
      PROVE  pc[q] \in {"routing", "running"} /\ target'[q] = target[q]
  BY <1>8 DEF Choose, Commit, PlaceAt
<1>9. ASSUME EditConfig \/ (\E e \in Engines : ReplicaDies(e) \/ ReplicaJoins(e)) \/ UNCHANGED vars
      PROVE  pc[q] \in {"routing", "running"} /\ target'[q] = target[q]
  BY <1>9 DEF EditConfig, ReplicaDies, ReplicaJoins, vars
<1> QED BY <1>1, <1>2, <1>3, <1>4, <1>5, <1>6, <1>7, <1>8, <1>9 DEF Next, Step, AllOver

LEMMA NothingRemembered ==
    ASSUME EveryPlacementBooked, RInv, BookedInv, [Next]_vars
    PROVE  ledgers'[1].lastTurns = << >>
<1>1. CASE ledgers' = ledgers
  BY <1>1 DEF BookedInv
<1>2. ASSUME NEW r \in Requests, Choose(r) PROVE ledgers'[1].lastTurns = << >>
  BY <1>2, ChooseBooksFully
<1>3. ASSUME NEW r \in Requests, Finish(r), r \in hooked PROVE ledgers'[1].lastTurns = << >>
  <2>1. /\ loaded = 1 /\ ledgers[1] \in Ledger /\ r \in Ids
        /\ ledgers' = [ledgers EXCEPT ![1] = Release(@, r, {})]
    BY <1>3, FinishFrees DEF RInv, Requests, EveryPlacementBooked
  <2>2. ledgers'[1] = Release(ledgers[1], r, {})
    BY <2>1 DEF RInv, Shape, EveryPlacementBooked
  <2>3. Release(ledgers[1], r, {}).lastTurns = ledgers[1].lastTurns
    BY <2>1, ReleaseTyped
  <2> QED BY <2>2, <2>3 DEF BookedInv
<1> QED BY <1>1, <1>2, <1>3, LedgerChanges

LEMMA BookedStep ==
    ASSUME EveryPlacementBooked, RInv, BookedInv, [Next]_vars
    PROVE  BookedInv'
<1>1. ASSUME NEW q \in Requests \ Bodyless, pc'[q] \in {"routing", "running"}
      PROVE  /\ loaded' = 1 /\ target'[q] \in Engines
             /\ ledgers'[1].reservation[q] = FullBooking(q, target'[q])
  <2>1. CASE Choose(q)
    BY <2>1, ChooseBooksFully
  <2>2. CASE /\ pc[q] \in {"routing", "running"} /\ target'[q] = target[q]
             /\ ~Choose(q) /\ ~Finish(q)
    <3>1. /\ loaded = 1 /\ target[q] \in Engines
          /\ ledgers[1].reservation[q] = FullBooking(q, target[q])
      BY <2>2 DEF BookedInv
    <3>2. loaded' = 1
      BY <3>1, LoadedGrows, RouterAssumption DEF RInv, Shape, EveryPlacementBooked
    <3>3. ledgers'[1].reservation[q] = ledgers[1].reservation[q]
      BY <2>2, OthersKeepBookings DEF EveryPlacementBooked
    <3> QED BY <2>2, <3>1, <3>2, <3>3
  <2> QED BY <1>1, <2>1, <2>2, PlacementChanges
<1> QED BY <1>1, NothingRemembered DEF BookedInv, FullBooking

LEMMA BookedAlways ==
    ASSUME EveryPlacementBooked
    PROVE  Spec => []BookedInv
<1>1. Init => BookedInv
  BY RouterAssumption DEF Init, BookedInv, EmptyLedger
<1>2. RInv /\ BookedInv /\ [Next]_vars => BookedInv'
  BY BookedStep
<1> QED BY <1>1, <1>2, RInvAlways, PTL DEF Spec

\* Where every placement is booked, it is booked on the replica it was sent to, whatever
\* the rejections, cancels and new replicas before.
THEOREM PlacementsAreBooked ==
    ASSUME EveryPlacementBooked
    PROVE  Spec => []PlacedWhereBooked
<1>1. RInv /\ BookedInv => PlacedWhereBooked
  <2> SUFFICES ASSUME RInv, BookedInv, NEW r \in Requests \ Bodyless,
                      pc[r] \in {"routing", "running"}
               PROVE  Booked(r) /\ Booking(r).engine = target[r]
    BY DEF PlacedWhereBooked
  <2>1. /\ loaded = 1 /\ target[r] \in Engines
        /\ ledgers[1].reservation[r] = FullBooking(r, target[r])
    BY DEF BookedInv
  <2>2. FullBooking(r, target[r]) \in [engine : Engines, tokens : Int]
    <3>1. Prompt[r] \in Nat /\ DefaultOsl \in Nat /\ KvTokenBudget(target[r], "capacity") \in Int
      BY <2>1, BudgetIsInt, RouterAssumption, KVLedgerAssumption DEF Reports
    <3> QED BY <2>1, <3>1 DEF FullBooking, Smaller
  <2> QED BY <2>1, <2>2, KVLedgerAssumption DEF Booked, Booking, FullBooking
<1> QED BY <1>1, RInvAlways, BookedAlways, PTL

\* "Engines are never asked to hold more context than fits": there the requests placed on
\* an engine never need more of its KV cache than its budget.
THEOREM EnginesWithinBudget ==
    ASSUME EveryPlacementBooked
    PROVE  Spec => []EnginesNeverOverfilled
<1>1. RInv /\ BookedInv /\ SoundInv => EnginesNeverOverfilled
  <2> SUFFICES ASSUME RInv, BookedInv, SoundInv, NEW e \in Engines
               PROVE  Cardinality(PlacedSlots(e)) <= KvTokenBudget(e, "capacity")
    BY DEF EnginesNeverOverfilled
  <2>1. KvTokenBudget(e, "capacity") \in Nat /\ Capacity[e] \in Nat
    BY BudgetRange, KVLedgerAssumption
  <2>2. CASE PlacedSlots(e) = {}
    BY <2>1, <2>2, FS_EmptySet
  <2>3. CASE PlacedSlots(e) # {}
    <3>1. loaded = 1
      BY <2>3 DEF PlacedSlots, BookedInv
    <3>2. PlacedSlots(e) \subseteq BookedSlots(ledgers[1], e)
      <4> SUFFICES ASSUME NEW s \in PlacedSlots(e) PROVE s \in BookedSlots(ledgers[1], e)
        OBVIOUS
      <4>1. /\ s \in (Requests \ Bodyless) \X (1..Capacity[e])
            /\ pc[s[1]] \in {"routing", "running"} /\ target[s[1]] = e
            /\ s[2] <= Prompt[s[1]] + DefaultOsl
            /\ s[2] <= KvTokenBudget(e, "capacity")
        BY DEF PlacedSlots
      <4>2. ledgers[1].reservation[s[1]] = FullBooking(s[1], e)
        BY <4>1 DEF BookedInv
      <4>3. /\ FullBooking(s[1], e) # NoReservation /\ FullBooking(s[1], e).engine = e
            /\ s[2] <= FullBooking(s[1], e).tokens
        <5>1. Prompt[s[1]] \in Nat /\ DefaultOsl \in Nat
          BY <4>1, RouterAssumption, KVLedgerAssumption
        <5>2. FullBooking(s[1], e) \in [engine : Engines, tokens : Int]
          BY <2>1, <5>1 DEF FullBooking, Smaller
        <5> QED BY <2>1, <4>1, <5>1, <5>2, KVLedgerAssumption DEF FullBooking, Smaller
      <4> QED BY <4>1, <4>2, <4>3 DEF BookedSlots, Requests
    <3>3. Cardinality(PlacedSlots(e)) <= Cardinality(BookedSlots(ledgers[1], e))
      BY <3>2, SlotsFinite, FS_Subset
    <3>4. /\ Cardinality(BookedSlots(ledgers[1], e)) = ledgers[1].reserved[e]
          /\ ledgers[1].reserved[e] \in 0..KvTokenBudget(e, "capacity")
      BY <3>1 DEF SoundInv, Sound, Balanced, WithinBudget
    <3>5. Cardinality(PlacedSlots(e)) \in Nat
      BY <3>2, SlotsFinite, FS_Subset, FS_CardinalityType
    <3> QED BY <2>1, <3>3, <3>4, <3>5
  <2> QED BY <2>2, <2>3
<1>2. FirstBookingSound
  BY DEF FirstBookingSound, EveryPlacementBooked
<1> QED BY <1>1, <1>2, RInvAlways, BookedAlways, SoundAlways, PTL
=============================================================================
