--------------------------- MODULE EventDerivation ---------------------------
(***************************************************************************)
(* How the indexer reads one contract event: its kind, its actor, the      *)
(* derived fields of each venue and the swap row of a trade                *)
(* (crates/pool-indexer/src/events.rs).                                    *)
(*                                                                         *)
(* An event is [venue, topics, data, tx]: the venue its pool was           *)
(* discovered under, the decoded topics, the decoded body (fields "0",     *)
(* "1", ... when the body is a vector) and the actor its transaction       *)
(* lookup gave.  A context is what the scanner knows of the pool:          *)
(* [tokens, fee_bps, book], the book being a price in XLM per token.       *)
(* Accounts and contracts are told apart by the sets below; fees are in    *)
(* 1/10000 XLM.                                                            *)
(***************************************************************************)
EXTENDS Values

CONSTANTS Accounts, Tokens     \* G... and C... addresses

FeeUnit == 10000
LpVenues == {"soroswap", "phoenix", "comet", "sushi"}

-----------------------------------------------------------------------------
(* Kinds *)
parse(name) ==
  IF name \in {"trade", "deposit_liquidity", "withdraw_liquidity", "update_reserves",
               "claim_fees", "claim_protocol_fee", "reserves_sync"}
  THEN name ELSE "unknown"

KindName(e) ==
  IF <<e.venue, e.topics[1]>> \in {<<"soroswap", "SoroswapPair">>, <<"comet", "POOL">>}
  THEN Nth(e.topics, 2) ELSE e.topics[1]

KindOf(e) ==
  LET name == KindName(e) IN
  IF e.venue \notin LpVenues THEN parse(name)
  ELSE CASE name \in {"deposit", "provide_liquidity", "deposit_liquidity", "join_pool", "mint"} -> "deposit_liquidity"
         [] name \in {"withdraw", "withdraw_liquidity", "exit_pool", "burn"} -> "withdraw_liquidity"
         [] name = "collect" -> "claim_fees"
         [] name = "swap" -> "trade"
         [] name = "sync" -> "reserves_sync"
         [] OTHER -> parse(name)

event_needs_tx_actor(e) == e.topics[1] \in {"deposit_liquidity", "withdraw_liquidity"}

Account(v) == IF v \in Accounts THEN v ELSE None
Address(v) == IF v \in Accounts \cup Tokens THEN v ELSE None

actor_from_topics(e) ==
  LET named == SelectSeq(e.topics, LAMBDA t : t \in Accounts) IN
  CASE KindOf(e) \in {"claim_fees", "claim_protocol_fee"} -> Nth(named, 1)
    [] KindOf(e) = "trade" -> Account(Nth(e.topics, 4))
    [] OTHER -> None

(* The actor the event names, else the one its transaction lookup gave.  A   *)
(* Sushi owner may be the position manager, its sender is the wallet.      *)
SushiActor(data) == Address(Else(Get(data, "sender"), Else(Get(data, "recipient"), Get(data, "owner"))))
ActorOf(e) ==
  LET named ==
        CASE e.venue \in {"soroswap", "phoenix"} -> Account(Get(e.data, "to"))
          [] e.venue = "comet" -> Address(Get(e.data, "caller"))
          [] e.venue = "sushi" -> SushiActor(e.data)
          [] OTHER -> actor_from_topics(e)
  IN Else(named, IF event_needs_tx_actor(e) THEN e.tx ELSE None)

-----------------------------------------------------------------------------
(* Quotes *)
Quote(ctx, token, amount) ==
  IF token \in DOMAIN ctx.book /\ Some(amount) THEN ctx.book[token] * amount ELSE None
TwoQuotes(ctx, legs) ==
  LET q1 == Quote(ctx, legs[1].token, legs[1].amount)
      q2 == Quote(ctx, legs[2].token, legs[2].amount)
  IN IF Some(q1) /\ Some(q2) THEN q1 + q2 ELSE Else(q1, q2)
BpsFee(ctx, volume) ==
  IF Some(ctx.fee_bps) /\ Some(volume) THEN volume * ctx.fee_bps ELSE None
Leg(token, amount) == [token |-> token, amount |-> amount]
Magnitude(a) == IF Some(a) /\ a < 0 THEN -a ELSE a
Positive(a)  == IF Some(a) THEN Keep(a, a > 0) ELSE None
Negative(a)  == IF Some(a) THEN Keep(-a, a < 0) ELSE None

-----------------------------------------------------------------------------
(* Trades: [legs in and out, volume, fee]. *)
Swap(label, in, out, volume, fee) ==
  [venue |-> label, in |-> in, out |-> out, volume |-> volume, fee |-> fee]

derive_aquarius_swap(e, ctx) ==
  LET in  == Leg(Address(Nth(e.topics, 2)), Get(e.data, "0"))
      out == Leg(Address(Nth(e.topics, 3)), Get(e.data, "1"))
      volume == Else(Quote(ctx, in.token, in.amount), Quote(ctx, out.token, out.amount))
      charged == Quote(ctx, in.token, Get(e.data, "2"))
  IN Swap("aquarius", in, out, volume,
          IF Some(charged) THEN charged * FeeUnit ELSE BpsFee(ctx, volume))

derive_soroswap_swap(e, ctx) ==
  LET Side(a0, a1) == IF Some(Positive(a0)) THEN Leg(Nth(ctx.tokens, 1), a0)
                      ELSE Leg(Nth(ctx.tokens, 2), Positive(a1))
      in  == Side(Get(e.data, "amount_0_in"), Get(e.data, "amount_1_in"))
      out == Side(Get(e.data, "amount_0_out"), Get(e.data, "amount_1_out"))
      volume == Quote(ctx, in.token, in.amount)
  IN Swap("soroswap_amm", in, out, volume, BpsFee(ctx, volume))

derive_phoenix_swap(e, ctx) ==
  LET in  == Leg(Address(Get(e.data, "sell_token")), Get(e.data, "offer_amount"))
      out == Leg(Address(Get(e.data, "buy_token")), Get(e.data, "actual_received_amount"))
      volume == Quote(ctx, in.token, in.amount)
  IN Swap("phoenix", in, out, volume,
          BpsFee(ctx, Else(Quote(ctx, out.token, out.amount), volume)))

derive_comet_swap(e, ctx) ==
  LET in  == Leg(Address(Get(e.data, "token_in")), Get(e.data, "token_amount_in"))
      out == Leg(Address(Get(e.data, "token_out")), Get(e.data, "token_amount_out"))
      volume == Else(Quote(ctx, in.token, in.amount), Quote(ctx, out.token, out.amount))
  IN Swap("comet", in, out, volume, BpsFee(ctx, volume))

(* Signed amounts: the pool received the positive one, paid the negative.   *)
SignedLeg(e, ctx, Side(_)) ==
  IF Some(Side(Get(e.data, "amount0"))) THEN Leg(Nth(ctx.tokens, 1), Side(Get(e.data, "amount0")))
  ELSE IF Some(Side(Get(e.data, "amount1"))) THEN Leg(Nth(ctx.tokens, 2), Side(Get(e.data, "amount1")))
  ELSE Leg(None, None)
SushiSwap(in, out, ctx) ==
  LET volume == Quote(ctx, in.token, in.amount)
  IN Swap("sushi_v3", in, out, volume, BpsFee(ctx, volume))
PaidIsReceived(e, ctx)    == SushiSwap(SignedLeg(e, ctx, Negative), SignedLeg(e, ctx, Positive), ctx)
derive_sushi_swap(e, ctx) == SushiSwap(SignedLeg(e, ctx, Positive), SignedLeg(e, ctx, Negative), ctx)

DeriveSwap(e, ctx) ==
  CASE e.venue = "soroswap" -> derive_soroswap_swap(e, ctx)
    [] e.venue = "phoenix" -> derive_phoenix_swap(e, ctx)
    [] e.venue = "comet" -> derive_comet_swap(e, ctx)
    [] e.venue = "sushi" -> derive_sushi_swap(e, ctx)
    [] OTHER -> derive_aquarius_swap(e, ctx)

(* The swap row of a trade; what the derivation left open is read from the  *)
(* topics and the positional body.                                         *)
pool_swap_from_event(e, ctx) ==
  LET d == DeriveSwap(e, ctx) IN
  [dex        |-> d.venue,
   token_in   |-> Else(d.in.token, Address(Nth(e.topics, 2))),
   token_out  |-> Else(d.out.token, Address(Nth(e.topics, 3))),
   amount_in  |-> Else(d.in.amount, Get(e.data, "0")),
   amount_out |-> Else(d.out.amount, Get(e.data, "1")),
   volume     |-> d.volume, fee |-> d.fee]

-----------------------------------------------------------------------------
(* Liquidity: [venue, pool_type, share_amount, token_amounts, total]. *)
Liquidity(label, type, share, legs, total) ==
  [venue |-> label, pool_type |-> type, share_amount |-> share,
   token_amounts |-> legs, total |-> total]
PoolLegs(ctx, a0, a1) == <<Leg(Nth(ctx.tokens, 1), a0), Leg(Nth(ctx.tokens, 2), a1)>>
Pair(label, type, share, ctx, a0, a1) ==
  Liquidity(label, type, share, PoolLegs(ctx, a0, a1), TwoQuotes(ctx, PoolLegs(ctx, a0, a1)))

derive_aquarius_liquidity(e, ctx) ==
  LET legs == PoolLegs(ctx, Get(e.data, "1"), Get(e.data, "2"))
      Paid(l) == Some(l.token) /\ Some(l.amount)
      quote == TwoQuotes(ctx, legs)
  IN Liquidity("aquarius", None, Get(e.data, "0"), Those(legs[1], legs[2], Paid),
               IF Some(quote) THEN Keep(quote, quote > 0) ELSE None)

derive_soroswap_liquidity(e, ctx) ==
  Pair("soroswap_amm", "constant_product", Get(e.data, "liquidity"), ctx,
       Get(e.data, "amount_0"), Get(e.data, "amount_1"))

derive_phoenix_liquidity(e, ctx) ==
  IF KindOf(e) = "deposit_liquidity"
  THEN Pair("phoenix", None, None, ctx, Get(e.data, "token_a_amount"), Get(e.data, "token_b_amount"))
  ELSE Pair("phoenix", None, Get(e.data, "shares_amount"), ctx,
            Get(e.data, "return_amount_a"), Get(e.data, "return_amount_b"))

derive_comet_liquidity(e, ctx) ==
  LET leg == IF KindOf(e) = "deposit_liquidity"
             THEN Leg(Address(Get(e.data, "token_in")), Get(e.data, "token_amount_in"))
             ELSE Leg(Address(Get(e.data, "token_out")), Get(e.data, "token_amount_out"))
  IN Liquidity("comet", "weighted", Get(e.data, "pool_amount_in"), <<leg>>,
               Quote(ctx, leg.token, leg.amount))

derive_sushi_liquidity(e, ctx) ==
  Pair("sushi_v3", "concentrated", Get(e.data, "amount"), ctx,
       Magnitude(Get(e.data, "amount0")), Magnitude(Get(e.data, "amount1")))

DeriveLiquidity(e, ctx) ==
  CASE e.venue = "soroswap" -> derive_soroswap_liquidity(e, ctx)
    [] e.venue = "phoenix" -> derive_phoenix_liquidity(e, ctx)
    [] e.venue = "comet" -> derive_comet_liquidity(e, ctx)
    [] e.venue = "sushi" -> derive_sushi_liquidity(e, ctx)
    [] OTHER -> derive_aquarius_liquidity(e, ctx)

-----------------------------------------------------------------------------
(* Claims and reserves. *)
derive_claim(e, ctx) ==
  IF e.venue = "sushi"
  THEN LET legs == PoolLegs(ctx, Get(e.data, "amount0"), Get(e.data, "amount1")) IN
       [venue |-> "sushi_v3", token_amounts |-> legs, total |-> TwoQuotes(ctx, legs)]
  ELSE LET legs == <<Leg(Address(Nth(e.topics, 3)), Get(e.data, "0")),
                     Leg(Address(Nth(e.topics, 4)), Get(e.data, "1"))>>
       IN [venue |-> Else(e.venue, "aquarius"),
           token0 |-> legs[1].token, amount0 |-> legs[1].amount,
           token1 |-> legs[2].token, amount1 |-> legs[2].amount,
           fee |-> IF e.venue \in LpVenues THEN None ELSE TwoQuotes(ctx, legs)]

derive_protocol_claim(e, ctx) ==
  LET leg == Leg(Address(Nth(e.topics, 2)), Get(e.data, "0")) IN
  [venue |-> "aquarius", token |-> leg.token, amount |-> leg.amount,
   fee |-> Quote(ctx, leg.token, leg.amount)]

(* reserves: the amounts that were decoded, zipped with the pool's tokens.  *)
derive_reserves(e, ctx) ==
  LET fields == IF e.venue = "soroswap" THEN <<"new_reserve_0", "new_reserve_1">> ELSE <<"0", "1">>
      amounts == Those(Get(e.data, fields[1]), Get(e.data, fields[2]), Some)
      rows == IF e.venue # "soroswap" /\ Len(amounts) < 2 THEN <<>> ELSE amounts
      legs == [i \in 1 .. MinOf(Len(rows), Len(ctx.tokens)) |-> Leg(ctx.tokens[i], rows[i])]
      quotes == [i \in DOMAIN legs |-> Quote(ctx, legs[i].token, legs[i].amount)]
  IN [reserves |-> legs,
      total |-> IF Len(legs) = 2 /\ Len(rows) = Len(ctx.tokens) /\ \A i \in 1 .. 2 : Some(quotes[i])
                THEN quotes[1] + quotes[2] ELSE None]

Derive(e, ctx) ==
  CASE KindOf(e) = "trade" -> DeriveSwap(e, ctx)
    [] KindOf(e) \in {"deposit_liquidity", "withdraw_liquidity"} -> DeriveLiquidity(e, ctx)
    [] KindOf(e) = "claim_fees" -> derive_claim(e, ctx)
    [] KindOf(e) = "claim_protocol_fee" -> derive_protocol_claim(e, ctx)
    [] KindOf(e) \in {"update_reserves", "reserves_sync"} -> derive_reserves(e, ctx)
    [] OTHER -> None

(* parse_pool_event: nothing for an unknown kind.                           *)
parse_pool_event(e, ctx) ==
  IF KindOf(e) = "unknown" THEN None
  ELSE [kind |-> KindOf(e), topics |-> e.topics, actor |-> ActorOf(e), derived |-> Derive(e, ctx)]
=============================================================================
