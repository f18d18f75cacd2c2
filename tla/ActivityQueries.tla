--------------------------- MODULE ActivityQueries ---------------------------
(***************************************************************************)
(* What the API reads out of the indexed events (index_db.rs 1077-2512):   *)
(* an actor's activity in a window, its lifetime totals, the leader board, *)
(* and a pool's summary alone and for all pools at once.  The same sums    *)
(* are written several times, in SQL and in Rust.                          *)
(*                                                                         *)
(* An event is [id, pool, kind, actor, venue, total, fee, reserves, at]:   *)
(* the last fields but one are its derived venue and quotes, None where    *)
(* missing.  An account's address is long and starts with G, a contract's  *)
(* does not.                                                               *)
(***************************************************************************)
EXTENDS Values, FiniteSets, FiniteSetsExt

CONSTANTS Leaders,        \* the account addresses
          EventLimit      \* the most events an activity window returns
ASSUME LimitAssumption == EventLimit \in Nat

(* The events of the table: numbered, in the order they were stored, and    *)
(* quoted, if they are, by what cannot be negative.                        *)
IsHistory(events) ==
  /\ IsFiniteSet(events) /\ (\A e, f \in events : e.id = f.id => e = f)
  /\ \A e \in events : e.id \in Nat /\ e.at \in Nat /\ {e.total, e.fee} \subseteq Nat \cup {None}

ClaimKinds  == {"claim_fees", "claim_protocol_fee"}
LpKinds     == {"deposit_liquidity", "withdraw_liquidity"} \cup ClaimKinds
UpdateKinds == {"update_reserves", "reserves_sync"}
Lp(events, actor) == {e \in events : e.kind \in LpKinds /\ e.actor = actor}
From(events, since) == {e \in events : e.at >= since}
OfKind(events, kinds) == {e \in events : e.kind \in kinds}
SumOf(events, quote) == MapThenSumSet(LAMBDA e : quote[e], events)
Counted(events, kinds) == Cardinality(OfKind(events, kinds))
PoolsOf(events) == {e.pool : e \in events}
MaxAt(events) == IF events = {} THEN None ELSE Max({e.at : e \in events})
MinAt(events) == IF events = {} THEN None ELSE Min({e.at : e \in events})

(* The quote in SQL; a claim of another venue than Aquarius has none.       *)
AnyVenueQuote(e) == IF e.kind \in ClaimKinds THEN OrZero(e.fee) ELSE OrZero(e.total)
SqlQuote(e) ==
  IF e.kind \in ClaimKinds
  THEN IF e.venue \in {None, "aquarius"} THEN OrZero(e.fee) ELSE 0
  ELSE OrZero(e.total)
SqlQuotes(events) == [e \in events |-> SqlQuote(e)]
AnyVenueQuotes(events) == [e \in events |-> AnyVenueQuote(e)]

Sums(events, quote) ==
  [deposit_count |-> Counted(events, {"deposit_liquidity"}),
   withdraw_count |-> Counted(events, {"withdraw_liquidity"}),
   claim_count |-> Counted(events, ClaimKinds),
   deposit_quote_xlm |-> SumOf(OfKind(events, {"deposit_liquidity"}), quote),
   withdraw_quote_xlm |-> SumOf(OfKind(events, {"withdraw_liquidity"}), quote),
   claim_quote_xlm |-> SumOf(OfKind(events, ClaimKinds), quote)]
NoSums == Sums({}, <<>>)

(* actor_liquidity_activity: the newest events of the window, quoted in     *)
(* Rust; nothing negative counts.                                          *)
RustQuote(e) ==
  LET key == IF e.kind \in ClaimKinds THEN e.fee ELSE e.total
      unsupported_claim == Some(e.venue) /\ e.venue # "aquarius" /\ e.kind \in ClaimKinds
      quote == IF unsupported_claim THEN None ELSE key
  IN IF Some(quote) THEN MaxOf(quote, 0) ELSE 0
RustQuotes(events) == [e \in events |-> RustQuote(e)]
Newest(events, n) ==
  {r \in SUBSET events : /\ Cardinality(r) = MinOf(n, Cardinality(events))
                         /\ \A e \in r, f \in events \ r : e.at >= f.at}
actor_liquidity_activity(events, actor, since) ==
  LET window == From(Lp(events, actor), since) IN
  {[sums |-> Sums(rows, RustQuotes(rows)), event_count |-> Cardinality(rows),
    distinct_pools |-> Cardinality(PoolsOf(rows)), last_activity_at |-> MaxAt(rows)] :
     rows \in Newest(window, EventLimit)}

(* actor_lifetime_totals, actor_pool_addresses, known_liquidity_actors.     *)
actor_lifetime_totals(events, actor) ==
  LET mine == Lp(events, actor) IN
  [sums |-> Sums(mine, SqlQuotes(mine)), distinct_pools |-> Cardinality(PoolsOf(mine)),
   first_activity_at |-> MinAt(mine), last_activity_at |-> MaxAt(mine)]
actor_pool_addresses(events, actor, since) == PoolsOf(From(Lp(events, actor), since))
known_liquidity_actors(events) == {a \in Leaders : Lp(events, a) # {}}

(* top_liquidity_actors: everybody ever seen, with the sums of the window.  *)
top_liquidity_actors(events, since) ==
  [a \in known_liquidity_actors(events) |->
     LET window == From(Lp(events, a), since)
     IN [sums |-> Sums(window, SqlQuotes(window)), event_count |-> Cardinality(window),
         distinct_pools |-> Cardinality(PoolsOf(Lp(events, a))), last_activity_at |-> MaxAt(Lp(events, a))]]

(* cadence_from_times: the mean gap telescopes to the whole span; kept as   *)
(* the span and the number of gaps.                                        *)
cadence_from_times(updates) ==
  [latest |-> MaxAt(updates),
   span |-> IF Cardinality(updates) < 2 THEN None ELSE MaxAt(updates) - MinAt(updates),
   gaps |-> Cardinality(updates) - 1]

(* pool_activity_summary and, built table by table, its map.  Here claims   *)
(* of every venue count.                                                   *)
Volumes(swaps)  == [s \in swaps |-> OrZero(s.volume)]
SwapFees(swaps) == [s \in swaps |-> OrZero(s.fee)]
NoSummary == [event_count |-> 0, update_count |-> 0, swap_count |-> 0, volume |-> 0, fees |-> 0,
              sums |-> NoSums, cadence |-> cadence_from_times({})]
pool_activity_summary(events, swaps, pool, since) ==
  LET es == {e \in From(events, since) : e.pool = pool}
      ss == {s \in From(swaps, since) : s.pool = pool}
  IN [event_count |-> Cardinality(es), update_count |-> Counted(es, UpdateKinds),
      swap_count |-> Cardinality(ss), volume |-> SumOf(ss, Volumes(ss)),
      fees |-> SumOf(ss, SwapFees(ss)),
      sums |-> Sums(es, AnyVenueQuotes(es)), cadence |-> cadence_from_times(OfKind(es, UpdateKinds))]
Entry(map, pool) == IF pool \in DOMAIN map THEN map[pool] ELSE NoSummary
Counts(es) ==
  [pool \in PoolsOf(es) |->
     LET mine == {e \in es : e.pool = pool} IN
     [NoSummary EXCEPT !.event_count = Cardinality(mine), !.update_count = Counted(mine, UpdateKinds),
                       !.sums = Sums(mine, [e \in mine |-> 0])]]
WithSwaps(map, ss) ==
  [pool \in DOMAIN map \cup PoolsOf(ss) |->
     LET mine == {s \in ss : s.pool = pool} IN
     IF mine = {} THEN map[pool]
     ELSE [Entry(map, pool) EXCEPT !.swap_count = Cardinality(mine),
                                   !.volume = SumOf(mine, Volumes(mine)),
                                   !.fees = SumOf(mine, SwapFees(mine))]]
WithQuotes(map, es) ==
  [pool \in DOMAIN map |->
     LET mine == {e \in es : e.pool = pool}
         quotes == Sums(mine, AnyVenueQuotes(mine))
     IN [map[pool] EXCEPT !.sums = [@ EXCEPT !.deposit_quote_xlm = quotes.deposit_quote_xlm,
                                             !.withdraw_quote_xlm = quotes.withdraw_quote_xlm,
                                             !.claim_quote_xlm = quotes.claim_quote_xlm],
                          !.cadence = cadence_from_times(OfKind(mine, UpdateKinds))]]
pool_activity_summary_map(events, swaps, since) ==
  LET es == From(events, since) IN WithQuotes(WithSwaps(Counts(es), From(swaps, since)), es)

(* pool_activity and latest_reserves_quote_xlm_map: a zero or missing       *)
(* quote is passed over for the newest valid one.                          *)
pool_activity(events, swaps, pool) ==
  LET es == {e \in events : e.pool = pool} IN
  IF es = {} THEN None
  ELSE [first_event_at |-> MinAt(es), last_event_at |-> MaxAt(es), event_count |-> Cardinality(es),
        swap_count |-> Cardinality({s \in swaps : s.pool = pool})]
latest_reserves(events) ==
  LET valid == {e \in OfKind(events, UpdateKinds) : Some(e.reserves) /\ e.reserves > 0}
      Later(e, f) == e.at > f.at \/ (e.at = f.at /\ e.id > f.id)
  IN [pool \in PoolsOf(valid) |->
        LET e == CHOOSE e \in valid : e.pool = pool /\ \A f \in valid \ {e} : f.pool = pool => Later(e, f)
        IN [at |-> e.at, reserves |-> e.reserves]]

-----------------------------------------------------------------------------
(* The board, the profile and the lifetime totals agree on an actor: within *)
(* the event limit the window's activity is the board's row, and once the  *)
(* window holds the whole history both are the lifetime totals.            *)
ActorViewsAgree(events, since) ==
  \A actor \in Leaders :
    LET board == top_liquidity_actors(events, since)
        total == actor_lifetime_totals(events, actor)
    IN \A profile \in actor_liquidity_activity(events, actor, since) :
         /\ profile.event_count > 0 => actor \in DOMAIN board
         /\ actor \in DOMAIN board =>
              /\ board[actor].last_activity_at = total.last_activity_at
              /\ board[actor].distinct_pools = total.distinct_pools
              /\ profile.event_count < EventLimit =>
                   /\ profile.sums = board[actor].sums /\ profile.event_count = board[actor].event_count
                   /\ profile.distinct_pools = Cardinality(actor_pool_addresses(events, actor, since))
              /\ profile.sums.claim_quote_xlm <= board[actor].sums.claim_quote_xlm
              /\ since <= total.first_activity_at => board[actor].sums = total.sums

(* A pool's summary does not depend on whether it is asked for alone or     *)
(* with every other pool, though the map is built table by table; over the *)
(* whole history it is the pool's activity, and no quote of the reserves   *)
(* is newer than its last update.                                          *)
PoolViewsAgree(events, swaps, since) ==
  LET map == pool_activity_summary_map(events, swaps, since) IN
  \A pool \in PoolsOf(events) \cup PoolsOf(swaps) :
    LET summary == pool_activity_summary(events, swaps, pool, since)
        activity == pool_activity(events, swaps, pool)
    IN /\ summary = Entry(map, pool)
       /\ From(events, since) = events /\ From(swaps, since) = swaps /\ Some(activity) =>
            /\ summary.event_count = activity.event_count /\ summary.swap_count = activity.swap_count
            /\ pool \in DOMAIN latest_reserves(events) =>
                 latest_reserves(events)[pool].at <= summary.cadence.latest

ViewsAgree(events, swaps, since) == ActorViewsAgree(events, since) /\ PoolViewsAgree(events, swaps, since)
=============================================================================
