----------------------------- MODULE VenueEvents -----------------------------
(***************************************************************************)
(* What the pool contracts of each venue publish for a swap or a liquidity *)
(* change, in the shapes the indexer's own tests record, and that the      *)
(* indexer recovers from it what took place.                               *)
(***************************************************************************)
EXTENDS EventDerivation, TLC

CONSTANTS
  PoolTokens,     \* the two tokens of the pool, in the pool's order
  Manager         \* a position-manager contract

(* A pool's tokens are two contracts; a user, whose address starts with G,  *)
(* is none of them, and no address reads like the name of an event.        *)
EventNames == {"swap", "SoroswapPair", "POOL"}
Labels     == {"aquarius", "soroswap", "soroswap_amm", "phoenix", "comet", "sushi", "sushi_v3"}
ASSUME VenueAssumption ==
  /\ PoolTokens \in Tokens \X Tokens /\ PoolTokens[1] # PoolTokens[2]
  /\ None \notin Int \cup Labels \cup Accounts \cup Tokens
  /\ EventNames \cap (Accounts \cup Tokens) = {}

VenueNames == {"aquarius"} \cup LpVenues
Label == [aquarius |-> "aquarius", soroswap |-> "soroswap_amm", phoenix |-> "phoenix",
          comet |-> "comet", sushi |-> "sushi_v3"]

EventOf(venue, topics, data, tx) == [venue |-> venue, topics |-> topics, data |-> data, tx |-> tx]
Vector(values) ==         \* a body without field names
  [f \in {"0", "1", "2"} |-> Nth(values, IF f = "0" THEN 1 ELSE IF f = "1" THEN 2 ELSE 3)]
Slot(token, i, amount) == IF token = PoolTokens[i] THEN amount ELSE 0

(* A swap s is [venue, user, in, out, amount_in, amount_out, fee].  A       *)
(* Phoenix pool reports what it received and what it returned.             *)
SwapEvent(s) ==
  CASE s.venue = "aquarius" ->
         EventOf("aquarius", <<"trade", s.in, s.out, s.user>>,
                 Vector(<<s.amount_in, s.amount_out, s.fee>>), None)
    [] s.venue = "soroswap" ->
         EventOf("soroswap", <<"SoroswapPair", "swap">>,
                 [amount_0_in  |-> Slot(s.in, 1, s.amount_in),   amount_1_in  |-> Slot(s.in, 2, s.amount_in),
                  amount_0_out |-> Slot(s.out, 1, s.amount_out), amount_1_out |-> Slot(s.out, 2, s.amount_out),
                  to |-> s.user], None)
    [] s.venue = "phoenix" ->
         EventOf("phoenix", <<"swap">>,
                 [sell_token |-> s.in, buy_token |-> s.out, offer_amount |-> s.amount_in,
                  actual_received_amount |-> s.amount_in, return_amount |-> s.amount_out,
                  sender |-> s.user], None)
    [] s.venue = "comet" ->
         EventOf("comet", <<"POOL", "swap">>,
                 [caller |-> s.user, token_in |-> s.in, token_out |-> s.out,
                  token_amount_in |-> s.amount_in, token_amount_out |-> s.amount_out], None)
    [] s.venue = "sushi" ->
         EventOf("sushi", <<"swap">>,
                 [amount0 |-> Slot(s.in, 1, s.amount_in) - Slot(s.out, 1, s.amount_out),
                  amount1 |-> Slot(s.in, 2, s.amount_in) - Slot(s.out, 2, s.amount_out),
                  sender |-> s.user, recipient |-> Manager], None)

(* A liquidity change l is [venue, user, kind, amounts, share]: a deposit   *)
(* or a withdrawal, tx being what the transaction lookup gave.             *)
Deposits(l) == l.kind = "deposit_liquidity"
LiquidityEvent(l, tx) ==
  CASE l.venue = "aquarius" ->
         EventOf("aquarius", <<l.kind, PoolTokens[1], PoolTokens[2]>>,
                 Vector(<<l.share, l.amounts[1], l.amounts[2]>>), tx)
    [] l.venue = "soroswap" ->
         EventOf("soroswap", <<"SoroswapPair", IF Deposits(l) THEN "deposit" ELSE "withdraw">>,
                 [liquidity |-> l.share, amount_0 |-> l.amounts[1], amount_1 |-> l.amounts[2],
                  to |-> l.user], tx)
    [] l.venue = "phoenix" /\ Deposits(l) ->
         EventOf("phoenix", <<"provide_liquidity">>,
                 [token_a_amount |-> l.amounts[1], token_b_amount |-> l.amounts[2], sender |-> l.user], tx)
    [] l.venue = "phoenix" /\ ~Deposits(l) ->
         EventOf("phoenix", <<"withdraw_liquidity">>,
                 [shares_amount |-> l.share, return_amount_a |-> l.amounts[1],
                  return_amount_b |-> l.amounts[2], sender |-> l.user], tx)
    [] l.venue = "comet" /\ Deposits(l) ->
         EventOf("comet", <<"POOL", "join_pool">>,
                 [caller |-> l.user, token_in |-> PoolTokens[1], token_amount_in |-> l.amounts[1]], tx)
    [] l.venue = "comet" /\ ~Deposits(l) ->
         EventOf("comet", <<"POOL", "exit_pool">>,
                 [caller |-> l.user, token_out |-> PoolTokens[1], token_amount_out |-> l.amounts[1],
                  pool_amount_in |-> l.share], tx)
    [] l.venue = "sushi" ->
         EventOf("sushi", <<IF Deposits(l) THEN "mint" ELSE "burn">>,
                 [amount |-> l.share, amount0 |-> l.amounts[1], amount1 |-> l.amounts[2],
                  owner |-> Manager, sender |-> l.user], tx)

(* A claim c is [venue, kind, user, amounts]: fees of the pool's tokens, or  *)
(* the protocol's share of the first one.                                  *)
ClaimEvent(c) ==
  IF c.kind = "claim_fees"
  THEN EventOf(c.venue, <<c.kind, c.user, PoolTokens[1], PoolTokens[2]>>,
               Vector(c.amounts), None)
  ELSE EventOf(c.venue, <<c.kind, PoolTokens[1], c.user>>, Vector(<<c.amounts[1]>>), None)

(* Every trade, change and claim of the pool, what a transaction lookup may *)
(* give, and what the scanner may know of the pool: its tokens, its fee,   *)
(* the prices of some tokens.                                              *)
Trades == {s \in [venue : VenueNames, user : Accounts, in : {PoolTokens[1], PoolTokens[2]},
                  out : {PoolTokens[1], PoolTokens[2]}, amount_in : Nat \ {0},
                  amount_out : Nat \ {0}, fee : Nat] : s.in # s.out}
AllChanges == [venue : VenueNames, user : Accounts, kind : {"deposit_liquidity", "withdraw_liquidity"},
               amounts : Nat \X Nat, share : Nat]
AllClaims == [venue : VenueNames, user : Accounts, kind : {"claim_fees", "claim_protocol_fee"},
              amounts : Nat \X Nat]
Lookups == {None} \cup Accounts
IsContext(ctx) == /\ ctx.tokens \in {<<>>, PoolTokens} /\ ctx.fee_bps \in {None} \cup Nat
                  /\ DOMAIN ctx.book \subseteq Tokens
                  /\ \A t \in DOMAIN ctx.book : ctx.book[t] \in Nat \ {0}

-----------------------------------------------------------------------------
Hydrated(ctx) == ctx.tokens = PoolTokens
Price(ctx, token) == IF token \in DOMAIN ctx.book THEN ctx.book[token] ELSE 0

(* Every venue's trade becomes a swap row: direction, tokens, input, venue  *)
(* and actor are the trade's, a pool without known tokens leaves a token   *)
(* open, never wrong, and the volume is one leg of the row at its price.   *)
(* The output is the trade's for every venue but Phoenix, whose row holds  *)
(* what the pool received, its input, and names nobody.                    *)
NamesTokens(venue) == venue \in {"aquarius", "phoenix", "comet"}
SwapRecovered(s, ctx) ==
  LET event == parse_pool_event(SwapEvent(s), ctx)
      row == pool_swap_from_event(SwapEvent(s), ctx)
      legs == {Price(ctx, s.in) * s.amount_in, Price(ctx, s.out) * row.amount_out}
  IN /\ event.kind = "trade" /\ row.dex = Label[s.venue]
     /\ event.actor = (IF s.venue = "phoenix" THEN None ELSE s.user)
     /\ row.amount_in = s.amount_in
     /\ row.amount_out = IF s.venue = "phoenix" THEN s.amount_in ELSE s.amount_out
     /\ IF NamesTokens(s.venue) \/ Hydrated(ctx)
        THEN row.token_in = s.in /\ row.token_out = s.out
        ELSE row.token_in = None /\ row.token_out = None
     /\ Some(row.volume) => row.volume \in legs \ {0}
     /\ Price(ctx, s.in) > 0 /\ Some(row.token_in) => row.volume = Price(ctx, s.in) * s.amount_in

(* A liquidity change keeps its kind, its provider and, for a pool with     *)
(* known tokens, its amounts by token; its quote never exceeds the priced  *)
(* legs and is all of them when both are priced.                           *)
Provider(l, tx) ==
  CASE l.venue = "aquarius" -> tx
    [] l.venue = "phoenix" -> IF Deposits(l) THEN None ELSE tx
    [] OTHER -> l.user
Moved(l) == IF l.venue = "comet" THEN {<<PoolTokens[1], l.amounts[1]>>}
            ELSE {<<PoolTokens[i], l.amounts[i]>> : i \in 1 .. 2}
Worth(l, ctx) ==
  Price(ctx, PoolTokens[1]) * l.amounts[1]
    + (IF l.venue = "comet" THEN 0 ELSE Price(ctx, PoolTokens[2]) * l.amounts[2])
LiquidityRecovered(l, tx, ctx) ==
  LET event == parse_pool_event(LiquidityEvent(l, tx), ctx)
      d == event.derived
      legs == {<<d.token_amounts[i].token, d.token_amounts[i].amount>> : i \in DOMAIN d.token_amounts}
  IN /\ event.kind = l.kind /\ d.venue = Label[l.venue]
     /\ event.actor = Provider(l, tx)
     /\ Hydrated(ctx) \/ l.venue = "comet" => legs = Moved(l)
     /\ \A leg \in legs : Some(leg[1]) => leg \in Moved(l)
     /\ Some(d.total) => d.total = Worth(l, ctx)
     /\ (Hydrated(ctx) \/ l.venue = "comet") /\ Worth(l, ctx) > 0 => d.total = Worth(l, ctx)
     /\ ~Deposits(l) /\ l.venue # "comet" => d.share_amount = l.share
=============================================================================
