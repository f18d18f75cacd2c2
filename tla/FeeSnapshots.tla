----------------------------- MODULE FeeSnapshots ----------------------------
(***************************************************************************)
(* The fee snapshots behind the leader board's "accrued fees": a refresh   *)
(* reads an actor's positions and, under one lock of the database, records *)
(* every known pool as zero, clears the current rows and writes the        *)
(* positions, one after another, into the current rows and the history     *)
(* (handlers.rs 2475-2510).  Each statement commits on its own and its     *)
(* error is dropped, and a crash cuts the refresh off: any of them may be  *)
(* missing.                                                                *)
(*                                                                         *)
(* One actor.  A row is its unclaimed fee, None when the venue did not     *)
(* report one ('fee_unavailable').  A pool may hold several positions: the *)
(* Sushi reader returns one per range (handlers.rs 2583-2593).  They share *)
(* one current row, which the last of them overwrites (index_db.rs 1310),  *)
(* and of the history the rules below read only the last row of a pool.    *)
(* History is kept per refresh: the last row a pool got in it.             *)
(***************************************************************************)
EXTENDS Values, FiniteSets, FiniteSetsExt

CONSTANTS
  FeePools,
  Reads,           \* what the readers may return: per pool, the fees of its positions in turn
  MaxPositions,    \* of one pool
  MaxRefreshes,
  MaxPartial       \* bound on refreshes that do not complete

IsFees(rows) == \E ps \in SUBSET FeePools : rows \in [ps -> Nat \cup {None}]
IsRead(read) ==
  \E ps \in SUBSET FeePools :
    /\ read \in [ps -> Seq(Nat \cup {None})]
    /\ \A p \in ps : Len(read[p]) \in 1 .. MaxPositions
ASSUME FeeAssumption == /\ (\A read \in Reads : IsRead(read)) /\ None \notin Nat
                        /\ IsFiniteSet(FeePools) /\ MaxPositions \in Nat

VARIABLES
  fees,            \* actor_fee_snapshots
  history,         \* actor_fee_snapshot_history, refresh by refresh
  reads,           \* history: what each refresh read
  complete,        \* history: the refreshes that left what one without a failure leaves
  forgot           \* history: a failure left a history row that no later refresh will zero
feeVars == <<fees, history, reads, complete, forgot>>

FeeTypeOK ==
  /\ IsFees(fees) /\ forgot \in BOOLEAN /\ complete \subseteq 1 .. Len(reads)
  /\ Len(history) = Len(reads)
  /\ \A t \in DOMAIN reads : reads[t] \in Reads /\ IsFees(history[t])

FeeInit == fees = <<>> /\ history = <<>> /\ reads = <<>> /\ complete = {} /\ forgot = FALSE

Only(rows, ps) == [p \in DOMAIN rows \cap ps |-> rows[p]]
Over(new, old) == [p \in DOMAIN new \cup DOMAIN old |-> IF p \in DOMAIN new THEN new[p] ELSE old[p]]

(* The statements that took effect: per pool the last of its positions that *)
(* was written, 0 when none was; and the rows they leave.                  *)
Statements(read) ==
  {last \in [DOMAIN read -> 0 .. MaxPositions] : \A p \in DOMAIN read : last[p] <= Len(read[p])}
Every(read) == [p \in DOMAIN read |-> Len(read[p])]
Kept(read, last) == [p \in {q \in DOMAIN read : last[q] > 0} |-> read[p][last[p]]]

(* record_actor_fee_snapshot_history_zeroed: a verified fee becomes zero,   *)
(* one that was not known stays unknown.                                   *)
NothingZeroed(rows, ps) == Only(rows, {})
record_history_zeroed(rows, ps) ==
  [p \in DOMAIN rows \cap ps |-> IF Some(rows[p]) THEN 0 ELSE None]
clear(rows, done) == IF done THEN <<>> ELSE rows

(* What took effect: the pools zeroed, whether the current rows were        *)
(* cleared, the positions upserted, those added to the history.            *)
refresh(read, zeroed, cleared, upserted, recorded) ==
  LET current == Kept(read, upserted)
      logged == Kept(read, recorded)
  IN
  /\ fees' = Over(current, clear(fees, cleared))
  /\ history' = Append(history, Over(logged, record_history_zeroed(fees, zeroed)))
  /\ reads' = Append(reads, read)
  /\ LET all == /\ zeroed = DOMAIN fees /\ cleared
                /\ upserted = Every(read) /\ recorded = Every(read)
     IN complete' = IF all THEN complete \cup {Len(reads')} ELSE complete
  /\ forgot' = \/ forgot
               \/ cleared /\ zeroed # DOMAIN fees
               \/ ~(DOMAIN logged \subseteq DOMAIN current \cup DOMAIN clear(fees, cleared))

CompleteRefresh(read) == refresh(read, DOMAIN fees, TRUE, Every(read), Every(read))
PartialRefresh(read) ==
  \E zeroed \in SUBSET DOMAIN fees, cleared \in BOOLEAN,
     upserted \in Statements(read), recorded \in Statements(read) :
       refresh(read, zeroed, cleared, upserted, recorded)
FeeNext ==
  /\ Len(reads) < MaxRefreshes
  /\ \E read \in Reads :
       \/ CompleteRefresh(read)
       \/ Len(reads) - Cardinality(complete) < MaxPartial /\ PartialRefresh(read)

-----------------------------------------------------------------------------
Total(rows, ps) == MapThenSumSet(LAMBDA p : rows[p], ps)

(* The boundary: per pool, its last history row up to refresh `since`.      *)
Recorded(since) == UNION {DOMAIN history[t] : t \in 1 .. since}
Boundary(since) ==
  [p \in Recorded(since) |->
     history[CHOOSE t \in 1 .. since : /\ p \in DOMAIN history[t]
                                       /\ \A u \in t + 1 .. since : p \notin DOMAIN history[u]][p]]
Verified(rows) == \A p \in DOMAIN rows : Some(rows[p])

(* actor_fee_snapshot_deltas, as the board computes it for all actors.      *)
board_delta(since) ==
  LET base == Boundary(since)
      leftover == DOMAIN base \ DOMAIN fees
  IN IF ~Verified(base) \/ ~Verified(fees) \/ ~(DOMAIN fees \subseteq DOMAIN base)
          \/ DOMAIN base = {}
     THEN None
     ELSE Total([p \in DOMAIN fees |-> fees[p] - base[p]], DOMAIN fees) - Total(base, leftover)

(* actor_fee_snapshot_delta, as a profile computes it for one actor: a pool *)
(* that is no longer held makes it unavailable, unless none is held.       *)
profile_delta(since) ==
  LET base == Boundary(since) IN
  IF \/ ~Verified(base) \/ ~Verified(fees) \/ ~(DOMAIN fees \subseteq DOMAIN base)
     \/ DOMAIN base = {} \/ DOMAIN fees \notin {{}, DOMAIN base}
  THEN None
  ELSE Total(fees, DOMAIN fees) - Total(base, DOMAIN base)

-----------------------------------------------------------------------------
(* index_db.rs 1362-1365, 1412-1423: accrued fees, on the board and in the  *)
(* profile, are what the fees the two refreshes kept grew by, however pools *)
(* were opened and closed between them: a missing value makes the sum      *)
(* unavailable, never smaller.  An incomplete refresh in between costs     *)
(* nothing unless it lost a row for good.                                  *)
(*                                                                         *)
(* Kept is one fee per pool, the last position's.  Of a pool with several  *)
(* positions the others' fees are in neither sum and nothing says so,      *)
(* although docs/architecture.md:409-418 means the actor's whole fee: only *)
(* where no pool holds two is this the growth of all positions.            *)
LastFees(read) == [p \in DOMAIN read |-> read[p][Len(read[p])]]
DeltaIsGrowth ==
  \A since \in complete :
    Len(reads) \in complete /\ ~forgot =>
      \A delta \in {board_delta(since), profile_delta(since)} :
        Some(delta) =>
          LET first == LastFees(reads[since])
              last == LastFees(reads[Len(reads)])
          IN /\ Verified(first) /\ Verified(last)
             /\ delta = Total(last, DOMAIN last) - Total(first, DOMAIN first)
=============================================================================
