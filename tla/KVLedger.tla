------------------------------ MODULE KVLedger ------------------------------
(***************************************************************************)
(* The data of one kv_saturation plugin object and its methods, as pure    *)
(* operators on a ledger value.  KVSaturation gives the ledger a state     *)
(* machine of its own; RayServeRouter holds one ledger per loaded config,  *)
(* because a config reload builds a new plugin object.                     *)
(*                                                                         *)
(* A ledger is a record                                                    *)
(*   reserved     tokens booked per engine     (_reserved_by_engine)       *)
(*   reservation  each request id's booking    (_reservations)             *)
(*   lastTurns    remembered turns, the most recently finished at the end  *)
(*                                             (_last_turns)               *)
(* A missing key of _reserved_by_engine reads as 0 and a missing key of    *)
(* _reservations is NoReservation.                                         *)
(***************************************************************************)
EXTENDS Integers, FiniteSets, SequencesExt

CONSTANTS
    Engines,        \* the replicas a request can run on
    Ids,            \* request ids: a trajectory keeps one id over its turns
    Capacity,       \* KV cache tokens of each engine
    FractionNum,    \* budget_fraction = FractionNum / FractionDen
    FractionDen,
    DefaultOsl,     \* output tokens assumed for a first turn
    MaxRemembered,  \* _MAX_REMEMBERED_TRAJECTORIES
    NoReservation

ASSUME KVLedgerAssumption ==
    /\ IsFiniteSet(Engines)
    /\ IsFiniteSet(Ids)
    /\ Capacity \in [Engines -> Nat \ {0}]
    /\ FractionDen \in Nat \ {0}
    /\ FractionNum \in 1..FractionDen
    /\ DefaultOsl \in Nat
    /\ MaxRemembered \in Nat \ {0}
    /\ NoReservation \notin [engine : Engines, tokens : Int]

Reservation == [engine : Engines, tokens : Int]
LastTurn == [id : Ids, engine : Engines, output : Nat]
Ledger == [reserved    : [Engines -> Int],
           reservation : [Ids -> Reservation \cup {NoReservation}],
           lastTurns   : Seq(LastTurn)]

EmptyLedger == [reserved    |-> [e \in Engines |-> 0],
                reservation |-> [i \in Ids |-> NoReservation],
                lastTurns   |-> << >>]

----------------------------------------------------------------------------
(* What the caller reports of a candidate: its stats carry the capacity,   *)
(* they are empty (not polled yet, or the poll failed), or they came back  *)
(* without a capacity (an engine that reports none).                       *)

Reports == {"capacity", "empty", "nocapacity"}

\* A view maps every candidate of a call to what was reported of it.
Views == UNION {[cands -> Reports] : cands \in SUBSET Engines}

ReportedCapacity(e, report) == IF report = "capacity" THEN Capacity[e] ELSE -1

ReportsNoCapacity(report) == report = "nocapacity"

\* int(capacity * budget_fraction): int() truncates towards zero.
KvTokenBudget(e, report) ==
    LET c == ReportedCapacity(e, report)
    IN  IF c >= 0 THEN (c * FractionNum) \div FractionDen
                  ELSE -(((-c) * FractionNum) \div FractionDen)

Smaller(a, b) == IF a <= b THEN a ELSE b

----------------------------------------------------------------------------
(* Reading the ledger. *)

TurnAt(L, t) == {i \in DOMAIN L.lastTurns : L.lastTurns[i].id = t}

\* The engines that served t's last turn: one, or none when t is not remembered.
Home(L, t) == {L.lastTurns[i].engine : i \in TurnAt(L, t)}

KvTokensNeeded(L, t, prompt) ==
    prompt + (IF TurnAt(L, t) = {}
              THEN DefaultOsl
              ELSE L.lastTurns[CHOOSE i \in TurnAt(L, t) : TRUE].output)

\* Mutant of OwnTokens: leaves out the engine test, so a reroute discounts a booking
\* that lies on another engine.
OwnTokensAnywhere(L, t, e) ==
    IF L.reservation[t] # NoReservation THEN L.reservation[t].tokens ELSE 0

OwnTokens(L, t, e) ==
    IF L.reservation[t] # NoReservation /\ L.reservation[t].engine = e
    THEN L.reservation[t].tokens
    ELSE 0

\* Mutant of Fits: lets a request in wherever any room is left.
FitsWhereAnyRoom(L, t, prompt, e, report) ==
    L.reserved[e] - OwnTokens(L, t, e) < KvTokenBudget(e, report)

Fits(L, t, prompt, e, report) ==
    LET budget == KvTokenBudget(e, report)
    IN  /\ budget > 0
        /\ L.reserved[e] - OwnTokens(L, t, e)
             + Smaller(KvTokensNeeded(L, t, prompt), budget) <= budget

\* get_allowed_candidates raises when every candidate reports no capacity.
NoCapacityReported(view) ==
    DOMAIN view # {} /\ \A e \in DOMAIN view : ReportsNoCapacity(view[e])

AllowedCandidates(L, t, prompt, view) ==
    LET fitting == {e \in DOMAIN view : Fits(L, t, prompt, e, view[e])}
    IN  IF fitting \cap Home(L, t) # {} THEN fitting \cap Home(L, t) ELSE fitting

----------------------------------------------------------------------------
(* Changing the ledger. *)

\* Mutant of DropReservation: forgets the booking and keeps its tokens.
DropKeepsTokens(L, t) == [L EXCEPT !.reservation[t] = NoReservation]

DropReservation(L, t) ==
    IF L.reservation[t] = NoReservation
    THEN L
    ELSE [reserved    |-> [L.reserved EXCEPT
                              ![L.reservation[t].engine] = @ - L.reservation[t].tokens],
          reservation |-> [L.reservation EXCEPT ![t] = NoReservation],
          lastTurns   |-> L.lastTurns]

\* Mutant of Reserve: a request that is booked already keeps its first booking.
ReserveOnce(L, t, prompt, e, report) ==
    IF L.reservation[t] # NoReservation
    THEN L
    ELSE LET tokens == Smaller(KvTokensNeeded(L, t, prompt), KvTokenBudget(e, report))
         IN  [L EXCEPT !.reserved[e] = @ + tokens,
                       !.reservation[t] = [engine |-> e, tokens |-> tokens]]

Reserve(L, t, prompt, e, report) ==
    LET D == DropReservation(L, t)
        tokens == Smaller(KvTokensNeeded(L, t, prompt), KvTokenBudget(e, report))
    IN  [reserved    |-> [D.reserved EXCEPT ![e] = @ + tokens],
         reservation |-> [D.reservation EXCEPT ![t] = [engine |-> e, tokens |-> tokens]],
         lastTurns   |-> D.lastTurns]

\* Mutant of Remember: no move_to_end, a remembered trajectory keeps its old place.
RememberInPlace(turns, turn) ==
    IF \E i \in DOMAIN turns : turns[i].id = turn.id
    THEN [i \in DOMAIN turns |-> IF turns[i].id = turn.id THEN turn ELSE turns[i]]
    ELSE LET grown == Append(turns, turn)
         IN  IF Len(grown) > MaxRemembered THEN Tail(grown) ELSE grown

\* Mutant of Remember: an id that is remembered already is entered a second time.
RememberTwice(turns, turn) ==
    LET grown == Append(turns, turn)
    IN  IF Len(grown) > MaxRemembered THEN Tail(grown) ELSE grown

\* move_to_end, then the oldest entry leaves when the memory is over its bound.
Remember(turns, turn) ==
    LET others == IF \E i \in DOMAIN turns : turns[i].id = turn.id
                  THEN RemoveAt(turns, CHOOSE i \in DOMAIN turns : turns[i].id = turn.id)
                  ELSE turns
        moved == Append(others, turn)
    IN  IF Len(moved) > MaxRemembered THEN Tail(moved) ELSE moved

\* output = {} is a release without output_tokens (None), as Ray Serve makes it.
Release(L, t, output) ==
    LET D == DropReservation(L, t)
    IN  IF L.reservation[t] = NoReservation \/ output = {}
        THEN D
        ELSE [reserved    |-> D.reserved,
              reservation |-> D.reservation,
              lastTurns   |-> Remember(D.lastTurns,
                                       [id     |-> t,
                                        engine |-> L.reservation[t].engine,
                                        output |-> CHOOSE o \in output : TRUE])]

----------------------------------------------------------------------------
(* What makes a ledger sound. *)

\* The tokens booked on e, one pair <<request, token>> for each.
BookedSlots(L, e) ==
    {s \in Ids \X (1..Capacity[e]) :
        /\ L.reservation[s[1]] # NoReservation
        /\ L.reservation[s[1]].engine = e
        /\ s[2] <= L.reservation[s[1]].tokens}

Balanced(L) == \A e \in Engines : L.reserved[e] = Cardinality(BookedSlots(L, e))

BookingsInRange(L) ==
    \A t \in Ids : L.reservation[t] # NoReservation =>
        L.reservation[t].tokens \in 0..KvTokenBudget(L.reservation[t].engine, "capacity")

WithinBudget(L) == \A e \in Engines : L.reserved[e] \in 0..KvTokenBudget(e, "capacity")

=============================================================================
