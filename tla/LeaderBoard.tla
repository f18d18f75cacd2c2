----------------------------- MODULE LeaderBoard -----------------------------
(***************************************************************************)
(* The leader board (lp_leaders, handlers.rs 2053-2386): the actors of     *)
(* top_liquidity_actors and those known from fee snapshots only, ranked by *)
(* their claimed fees plus the growth of the unclaimed ones, these per     *)
(* deposit, or by their activity, the first of them cached and cut into    *)
(* pages.  The rows arrive in the order of a HashMap, which is any order.  *)
(*                                                                         *)
(* A snapshot is [unclaimed, positions, pools, observed_at], a delta is    *)
(* missing when the growth is unavailable.                                 *)
(***************************************************************************)
EXTENDS ActivityQueries, SequencesExt

CONSTANTS AddressOrder,   \* the rank of the addresses as strings
          BoardSize       \* rows of the canonical board
ASSUME BoardAssumption ==
  /\ BoardSize \in Nat
  /\ \A a, b \in DOMAIN AddressOrder :
       AddressOrder[a] \in Nat /\ (AddressOrder[a] = AddressOrder[b] => a = b)

(* What the board is made of: finitely many ranked addresses, those of the *)
(* indexed events with the time of the last, in the window or before it,   *)
(* sums that are not negative and growth that may be; and an order of      *)
(* arrival.                                                                *)
IsBoard(active, snapshots, deltas) ==
  /\ DOMAIN active \cup DOMAIN snapshots \subseteq DOMAIN AddressOrder
  /\ IsFiniteSet(DOMAIN active \cup DOMAIN snapshots)
  /\ \A a \in DOMAIN active :
       /\ {active[a].sums.claim_quote_xlm, active[a].sums.deposit_quote_xlm} \subseteq Nat
       /\ {active[a].event_count, active[a].distinct_pools} \subseteq Nat
       /\ Some(active[a].last_activity_at)
  /\ \A a \in DOMAIN deltas : deltas[a] \in Int
IsOrder(order) ==
  \A a, b \in DOMAIN AddressOrder : order[a] \in Nat /\ (order[a] = order[b] => a = b)

NoActivity(pools) ==
  [sums |-> NoSums, event_count |-> 0, distinct_pools |-> pools, last_activity_at |-> None]
leaders(active, snapshots) ==
  [a \in DOMAIN active \cup DOMAIN snapshots |->
     IF a \in DOMAIN active THEN active[a] ELSE NoActivity(snapshots[a].pools)]

(* The two metrics, fee_cap as a fraction; no deposit counts as -1.         *)
Accrued(row, delta) == row.sums.claim_quote_xlm + OrZero(delta)
Metric(row, delta, sort) ==
  IF sort = "fees" THEN <<Accrued(row, delta), 1>>
  ELSE IF row.sums.deposit_quote_xlm > 0 THEN <<Accrued(row, delta), row.sums.deposit_quote_xlm>>
  ELSE <<-1, 1>>
Above(m, n) == m[1] * n[2] > n[1] * m[2]

(* The comparator: the rows a key finds equal are left to the next one.     *)
then_with(first, second, next) == first \/ (~second /\ next)
Compared(rows, deltas, sort, a, b, last) ==
  LET m == Metric(rows[a], Get(deltas, a), sort)
      n == Metric(rows[b], Get(deltas, b), sort)
      p == rows[a].sums
      q == rows[b].sums
  IN then_with(Above(m, n), Above(n, m),
     then_with(p.claim_quote_xlm > q.claim_quote_xlm, q.claim_quote_xlm > p.claim_quote_xlm,
     then_with(p.deposit_quote_xlm > q.deposit_quote_xlm, q.deposit_quote_xlm > p.deposit_quote_xlm,
     then_with(rows[a].event_count > rows[b].event_count, rows[b].event_count > rows[a].event_count,
               last))))
ByQuotes(rows, deltas, sort, a, b) == Compared(rows, deltas, sort, a, b, FALSE)
Ahead(rows, deltas, sort, a, b) ==
  Compared(rows, deltas, sort, a, b, AddressOrder[a] < AddressOrder[b])

(* By activity, rows that tie are left as they came, and so are the actors  *)
(* known from snapshots only, appended after the sort (2188-2209, 2231).   *)
Indexed(r) == Some(r.last_activity_at)
MoreActive(r, q) ==
  IF Indexed(r) /\ Indexed(q)
  THEN then_with(r.event_count > q.event_count, q.event_count > r.event_count,
       then_with(r.distinct_pools > q.distinct_pools, q.distinct_pools > r.distinct_pools,
                 r.sums.deposit_quote_xlm > q.sums.deposit_quote_xlm))
  ELSE Indexed(r) /\ ~Indexed(q)
InFront(rows, deltas, sort, a, b) ==
  IF sort = "activity" THEN MoreActive(rows[a], rows[b]) ELSE Ahead(rows, deltas, sort, a, b)

(* The stable sort of the rows in the order they came in.                   *)
Ranked(rows, deltas, sort, order) ==
  LET before(a, b) == \/ InFront(rows, deltas, sort, a, b)
                      \/ ~InFront(rows, deltas, sort, b, a) /\ order[a] < order[b]
      place(a) == 1 + Cardinality({b \in DOMAIN rows \ {a} : before(b, a)})
  IN [i \in 1 .. Cardinality(DOMAIN rows) |-> CHOOSE a \in DOMAIN rows : place(a) = i]

(* What a row shows: fees that are not known stay unknown, and the ratio    *)
(* falls back to the claimed fees.                                         *)
Shown(a, row, snapshot, delta) ==
  [address |-> a, row |-> row,
   unclaimed |-> IF Some(snapshot) /\ Some(snapshot.observed_at) THEN snapshot.unclaimed ELSE None,
   accrued |-> IF Some(delta) THEN row.sums.claim_quote_xlm + delta ELSE None,
   ratio |-> IF row.sums.deposit_quote_xlm > 0
             THEN <<IF Some(delta) THEN row.sums.claim_quote_xlm + delta ELSE row.sums.claim_quote_xlm,
                    row.sums.deposit_quote_xlm>>
             ELSE None,
   fee_status |-> CASE snapshot = None -> "not_verified"
                    [] Some(snapshot.observed_at) -> "verified"
                    [] OTHER -> "unavailable"]
lp_leaders(active, snapshots, deltas, sort, order) ==
  LET rows == leaders(active, snapshots)
      ranked == Ranked(rows, deltas, sort, order)
      kept == SubSeq(ranked, 1, MinOf(BoardSize, Len(ranked)))
  IN [total |-> Len(ranked),
      leaders |-> [i \in DOMAIN kept |->
                     Shown(kept[i], rows[kept[i]], Get(snapshots, kept[i]), Get(deltas, kept[i]))]]

Pages(total, limit) == (total + limit - 1) \div limit
page_leader_response(board, page, limit) ==
  LET start == MinOf((page - 1) * limit, Len(board.leaders))
  IN [leaders |-> SubSeq(board.leaders, start + 1, MinOf(start + limit, Len(board.leaders))),
      total |-> board.total, pages |-> Pages(board.total, limit)]

-----------------------------------------------------------------------------
(* handlers.rs 2240-2243: a board by fees does not reshuffle between two     *)
(* refreshes of the same data, whatever order the rows came in.  A board   *)
(* by activity may: it shows as many rows, and at every place one of the   *)
(* same activity, but not the same actor.  Either is sorted by what it     *)
(* shows, and its pages are the board, cut.                                *)
Activity(r) ==
  IF Indexed(r) THEN <<r.event_count, r.distinct_pools, r.sums.deposit_quote_xlm>> ELSE <<>>
SamePlaces(board, other) ==
  /\ board.total = other.total /\ Len(board.leaders) = Len(other.leaders)
  /\ \A i \in DOMAIN board.leaders : Activity(board.leaders[i].row) = Activity(other.leaders[i].row)
SortedAsShown(rows, sort) ==
  \A i, j \in DOMAIN rows : i < j =>
    CASE sort = "fees" ->
           Some(rows[i].accrued) /\ Some(rows[j].accrued) => rows[i].accrued >= rows[j].accrued
      [] sort = "fee_cap" ->
           Some(rows[i].ratio) /\ Some(rows[j].ratio) => ~Above(rows[j].ratio, rows[i].ratio)
      [] sort = "activity" -> ~MoreActive(rows[j].row, rows[i].row)
PagesAreBoard(board) ==
  \A limit \in 1 .. BoardSize + 1 :
    FlattenSeq([page \in 1 .. Pages(board.total, limit) |->
                  page_leader_response(board, page, limit).leaders]) = board.leaders
BoardIsStable(active, snapshots, deltas, orders) ==
  \A sort \in {"fees", "fee_cap", "activity"}, first, second \in orders :
    LET board == lp_leaders(active, snapshots, deltas, sort, first)
        other == lp_leaders(active, snapshots, deltas, sort, second)
    IN /\ IF sort = "activity" THEN SamePlaces(board, other) ELSE board = other
       /\ SortedAsShown(board.leaders, sort)
       /\ PagesAreBoard(board)
=============================================================================
