--------------------------- MODULE DataPathProofs ----------------------------
(***************************************************************************)
(* Theorems about the data path, for every amount, price and context: what *)
(* the indexer stores of a venue's event is what took place; what the API  *)
(* drafts and prepares for a follower the policy contract executes; what   *)
(* the recorder attests is what the leader did.                            *)
(***************************************************************************)
EXTENDS CopyAdmission, TLAPS

-----------------------------------------------------------------------------
(* Products, addresses, quotes *)

(* The product of two positive numbers is one.                              *)
LEMMA PositiveProduct == \A m, n \in Nat \ {0} : m * n \in Nat \ {0}
<1> SUFFICES ASSUME NEW m \in Nat \ {0}, NEW n \in Nat \ {0} PROVE m * n \in Nat \ {0}
  OBVIOUS
<1>1. m * n >= 1
  BY SMT
<1> QED
  BY <1>1

(* The addresses of the pool and of a user are what they are.               *)
LEMMA Addresses ==
  /\ Address(PoolTokens[1]) = PoolTokens[1] /\ Address(PoolTokens[2]) = PoolTokens[2]
  /\ \A u \in Accounts : Address(u) = u /\ Account(u) = u /\ Some(u)
  /\ Some(PoolTokens[1]) /\ Some(PoolTokens[2]) /\ PoolTokens[1] # PoolTokens[2]
  /\ Address(None) = None /\ \A name \in EventNames : Address(name) = None
BY VenueAssumption DEF Address, Account, Some

(* A quote is the price times the amount, and never zero.                   *)
LEMMA QuoteIsWorth ==
  ASSUME NEW ctx, IsContext(ctx), NEW token, NEW n \in Nat \ {0}
  PROVE  /\ Quote(ctx, token, n) = IF token \in DOMAIN ctx.book THEN Price(ctx, token) * n ELSE None
         /\ Some(Quote(ctx, token, n)) => Quote(ctx, token, n) \in Nat \ {0}
         /\ Some(Quote(ctx, token, n)) <=> token \in DOMAIN ctx.book
         /\ token \in DOMAIN ctx.book <=> Price(ctx, token) > 0
         /\ Price(ctx, token) \in Nat
<1>1. n # None
  BY VenueAssumption
<1>2. \A t \in DOMAIN ctx.book : ctx.book[t] \in Nat \ {0}
  BY DEF IsContext
<1>3. token \in DOMAIN ctx.book => ctx.book[token] * n \in Nat \ {0}
  BY <1>2, PositiveProduct
<1> QED
  BY <1>1, <1>2, <1>3, VenueAssumption DEF Quote, Some, Price

-----------------------------------------------------------------------------
(* Trades *)

(* What makes a trade recovered: its legs, whichever venue named them.      *)
LEMMA LegsMakeTheRow ==
  ASSUME NEW s \in Trades, NEW ctx, IsContext(ctx), NEW in, NEW out, NEW fee,
         parse_pool_event(SwapEvent(s), ctx).kind = "trade",
         parse_pool_event(SwapEvent(s), ctx).actor = (IF s.venue = "phoenix" THEN None ELSE s.user),
         NEW volume, NEW paid \in Nat \ {0},
         DeriveSwap(SwapEvent(s), ctx) = Swap(Label[s.venue], in, out, volume, fee),
         in.amount = s.amount_in, out.amount = paid,
         paid = IF s.venue = "phoenix" THEN s.amount_in ELSE s.amount_out,
         IF NamesTokens(s.venue) \/ Hydrated(ctx) THEN in.token = s.in /\ out.token = s.out
         ELSE /\ in.token = None /\ out.token = None
              /\ Address(Nth(SwapEvent(s).topics, 2)) = None
              /\ Address(Nth(SwapEvent(s).topics, 3)) = None,
         \/ volume = Quote(ctx, in.token, in.amount)
         \/ volume = Else(Quote(ctx, in.token, in.amount), Quote(ctx, out.token, out.amount))
  PROVE  SwapRecovered(s, ctx)
<1> DEFINE row == pool_swap_from_event(SwapEvent(s), ctx)
<1>1. /\ s.amount_in \in Nat \ {0} /\ s.amount_in # None /\ paid # None
      /\ s.in # None /\ s.out # None
  BY VenueAssumption DEF Trades
<1>2. /\ row.dex = Label[s.venue] /\ row.amount_in = s.amount_in /\ row.amount_out = paid
      /\ row.volume = volume
  BY <1>1 DEF pool_swap_from_event, Swap, Else
<1>3. IF NamesTokens(s.venue) \/ Hydrated(ctx) THEN row.token_in = s.in /\ row.token_out = s.out
      ELSE row.token_in = None /\ row.token_out = None
  BY <1>1 DEF pool_swap_from_event, Swap, Else
<1>4. None \notin DOMAIN ctx.book
  BY VenueAssumption DEF IsContext
<1>5. in.token \in {s.in, None} /\ out.token \in {s.out, None}
  BY <1>3
<1>6. Some(volume) => volume \in {Price(ctx, s.in) * s.amount_in, Price(ctx, s.out) * paid} \ {0}
  BY <1>1, <1>4, <1>5, QuoteIsWorth DEF Else, Some
<1>7. Price(ctx, s.in) > 0 /\ Some(row.token_in) => volume = Price(ctx, s.in) * s.amount_in
  BY <1>1, <1>3, <1>4, <1>5, QuoteIsWorth DEF Else, Some
<1> HIDE DEF row
<1> QED
  BY <1>2, <1>3, <1>6, <1>7 DEF SwapRecovered, row

(* A trade in an Aquarius pool is stored as it was.                         *)
LEMMA AquariusTrade ==
  ASSUME NEW s \in Trades, NEW ctx, IsContext(ctx), s.venue = "aquarius" PROVE SwapRecovered(s, ctx)
<1> DEFINE e == EventOf("aquarius", <<"trade", s.in, s.out, s.user>>,
                        Vector(<<s.amount_in, s.amount_out, s.fee>>), None)
           in  == Leg(s.in, s.amount_in)
           out == Leg(s.out, s.amount_out)
<1>1. SwapEvent(s) = e
  BY DEF SwapEvent
<1>2. /\ e.venue = "aquarius" /\ e.venue \notin LpVenues /\ e.topics = <<"trade", s.in, s.out, s.user>>
      /\ Get(e.data, "0") = s.amount_in /\ Get(e.data, "1") = s.amount_out
  BY DEF EventOf, LpVenues, Vector, Get, Nth
<1>3. /\ Nth(e.topics, 2) = s.in /\ Nth(e.topics, 3) = s.out /\ Nth(e.topics, 4) = s.user
      /\ e.topics[1] = "trade" /\ s.in \in {PoolTokens[1], PoolTokens[2]}
      /\ s.out \in {PoolTokens[1], PoolTokens[2]} /\ s.user \in Accounts
      /\ s.amount_in \in Nat \ {0} /\ s.amount_out \in Nat \ {0}
  BY <1>2 DEF Nth, Trades
<1> HIDE DEF e
<1>4. KindOf(e) = "trade"
  BY <1>2, <1>3 DEF KindOf, KindName, parse
<1>5. actor_from_topics(e) = s.user
  BY <1>3, <1>4, Addresses DEF actor_from_topics
<1>6. ActorOf(e) = s.user
  BY <1>2, <1>3, <1>5, Addresses DEF ActorOf, Else, Some
<1>7. Address(Nth(e.topics, 2)) = s.in /\ Address(Nth(e.topics, 3)) = s.out
  BY <1>3, Addresses
<1>8. PICK fee : derive_aquarius_swap(e, ctx) =
                   Swap("aquarius", in, out,
                        Else(Quote(ctx, in.token, in.amount), Quote(ctx, out.token, out.amount)), fee)
  BY <1>2, <1>7 DEF derive_aquarius_swap
<1>9. DeriveSwap(e, ctx) = derive_aquarius_swap(e, ctx)
  BY <1>2 DEF DeriveSwap
<1>10. parse_pool_event(e, ctx).kind = "trade" /\ parse_pool_event(e, ctx).actor = s.user
  BY <1>4, <1>6 DEF parse_pool_event
<1>11. /\ Label[s.venue] = "aquarius" /\ NamesTokens(s.venue)
       /\ in.token = s.in /\ in.amount = s.amount_in /\ out.token = s.out /\ out.amount = s.amount_out
  BY DEF Label, NamesTokens, Leg
<1> HIDE DEF in, out
<1> QED
  BY <1>1, <1>3, <1>8, <1>9, <1>10, <1>11, LegsMakeTheRow

(* So is one in a Soroswap pool, whichever of its amounts are zero.         *)
LEMMA SoroswapTrade ==
  ASSUME NEW s \in Trades, NEW ctx, IsContext(ctx), s.venue = "soroswap" PROVE SwapRecovered(s, ctx)
<1> DEFINE e == EventOf("soroswap", <<"SoroswapPair", "swap">>,
                        [amount_0_in  |-> Slot(s.in, 1, s.amount_in),   amount_1_in  |-> Slot(s.in, 2, s.amount_in),
                         amount_0_out |-> Slot(s.out, 1, s.amount_out), amount_1_out |-> Slot(s.out, 2, s.amount_out),
                         to |-> s.user], None)
           Side(a0, a1) == IF Some(Positive(a0)) THEN Leg(Nth(ctx.tokens, 1), a0)
                           ELSE Leg(Nth(ctx.tokens, 2), Positive(a1))
           in  == Side(Slot(s.in, 1, s.amount_in), Slot(s.in, 2, s.amount_in))
           out == Side(Slot(s.out, 1, s.amount_out), Slot(s.out, 2, s.amount_out))
<1>1. SwapEvent(s) = e
  BY DEF SwapEvent
<1>2. /\ e.venue = "soroswap" /\ e.venue \in LpVenues /\ e.topics = <<"SoroswapPair", "swap">>
      /\ Get(e.data, "amount_0_in") = Slot(s.in, 1, s.amount_in)
      /\ Get(e.data, "amount_1_in") = Slot(s.in, 2, s.amount_in)
      /\ Get(e.data, "amount_0_out") = Slot(s.out, 1, s.amount_out)
      /\ Get(e.data, "amount_1_out") = Slot(s.out, 2, s.amount_out)
      /\ Get(e.data, "to") = s.user
  BY DEF EventOf, LpVenues, Get
<1>3. /\ Nth(e.topics, 2) = "swap" /\ Nth(e.topics, 3) = None /\ e.topics[1] = "SoroswapPair"
      /\ s.user \in Accounts /\ s.amount_in \in Nat \ {0} /\ s.amount_out \in Nat \ {0}
      /\ \/ s.in = PoolTokens[1] /\ s.out = PoolTokens[2]
         \/ s.in = PoolTokens[2] /\ s.out = PoolTokens[1]
  BY <1>2 DEF Nth, Trades
<1> HIDE DEF e
<1>4. KindOf(e) = "trade"
  <2>1. KindName(e) = "swap"
    BY <1>2, <1>3 DEF KindName
  <2> QED
    BY <1>2, <2>1 DEF KindOf
<1>5. ActorOf(e) = s.user
  BY <1>2, <1>3, Addresses DEF ActorOf, Else, Some
<1>6. Address(Nth(e.topics, 2)) = None /\ Address(Nth(e.topics, 3)) = None
  BY <1>3, Addresses DEF EventNames
<1>7. /\ in = Leg(IF s.in = PoolTokens[1] THEN Nth(ctx.tokens, 1) ELSE Nth(ctx.tokens, 2), s.amount_in)
      /\ out = Leg(IF s.out = PoolTokens[1] THEN Nth(ctx.tokens, 1) ELSE Nth(ctx.tokens, 2), s.amount_out)
  BY <1>3, Addresses, VenueAssumption DEF Slot, Positive, Keep, Some, Leg
<1>8. /\ in.amount = s.amount_in /\ out.amount = s.amount_out
      /\ IF Hydrated(ctx) THEN in.token = s.in /\ out.token = s.out ELSE in.token = None /\ out.token = None
  <2>1. ctx.tokens = <<>> \/ ctx.tokens = PoolTokens
    BY DEF IsContext
  <2>2. PoolTokens = <<PoolTokens[1], PoolTokens[2]>> /\ PoolTokens # <<>>
    BY VenueAssumption
  <2> QED
    BY <1>3, <1>7, <2>1, <2>2, Addresses DEF Hydrated, Nth, Leg
<1>9. PICK fee : derive_soroswap_swap(e, ctx) =
                   Swap("soroswap_amm", in, out, Quote(ctx, in.token, in.amount), fee)
  BY <1>2 DEF derive_soroswap_swap
<1>10. DeriveSwap(e, ctx) = derive_soroswap_swap(e, ctx)
  BY <1>2 DEF DeriveSwap
<1>11. parse_pool_event(e, ctx).kind = "trade" /\ parse_pool_event(e, ctx).actor = s.user
  BY <1>4, <1>5 DEF parse_pool_event
<1>12. Label[s.venue] = "soroswap_amm" /\ ~NamesTokens(s.venue)
  BY DEF Label, NamesTokens
<1> HIDE DEF in, out
<1> QED
  BY <1>1, <1>3, <1>6, <1>8, <1>9, <1>10, <1>11, <1>12, LegsMakeTheRow

(* One in a Phoenix pool is stored with its input in place of its output,   *)
(* and without its trader.                                                  *)
LEMMA PhoenixTrade ==
  ASSUME NEW s \in Trades, NEW ctx, IsContext(ctx), s.venue = "phoenix" PROVE SwapRecovered(s, ctx)
<1> DEFINE e == EventOf("phoenix", <<"swap">>,
                        [sell_token |-> s.in, buy_token |-> s.out, offer_amount |-> s.amount_in,
                         actual_received_amount |-> s.amount_in, return_amount |-> s.amount_out,
                         sender |-> s.user], None)
           in  == Leg(s.in, s.amount_in)
           out == Leg(s.out, s.amount_in)
<1>1. SwapEvent(s) = e
  BY DEF SwapEvent
<1>2. /\ e.venue = "phoenix" /\ e.venue \in LpVenues /\ e.topics = <<"swap">> /\ e.topics[1] = "swap"
      /\ e.tx = None
      /\ Get(e.data, "sell_token") = s.in /\ Get(e.data, "buy_token") = s.out
      /\ Get(e.data, "offer_amount") = s.amount_in
      /\ Get(e.data, "actual_received_amount") = s.amount_in /\ Get(e.data, "to") = None
  BY DEF EventOf, LpVenues, Get
<1>3. /\ s.in \in {PoolTokens[1], PoolTokens[2]} /\ s.out \in {PoolTokens[1], PoolTokens[2]}
      /\ s.amount_in \in Nat \ {0}
  BY DEF Trades
<1> HIDE DEF e
<1>4. KindOf(e) = "trade"
  <2>1. KindName(e) = "swap"
    BY <1>2 DEF KindName
  <2> QED
    BY <1>2, <2>1 DEF KindOf
<1>5. ActorOf(e) = None
  <2>1. Account(None) = None
    BY DEF Account
  <2> QED
    BY <1>2, <2>1 DEF ActorOf, Else
<1>6. Address(s.in) = s.in /\ Address(s.out) = s.out
  BY <1>3, Addresses
<1>7. PICK fee : derive_phoenix_swap(e, ctx) =
                   Swap("phoenix", in, out, Quote(ctx, in.token, in.amount), fee)
  BY <1>2, <1>6 DEF derive_phoenix_swap
<1>8. DeriveSwap(e, ctx) = derive_phoenix_swap(e, ctx)
  BY <1>2 DEF DeriveSwap
<1>9. parse_pool_event(e, ctx).kind = "trade" /\ parse_pool_event(e, ctx).actor = None
  BY <1>4, <1>5 DEF parse_pool_event
<1>10. /\ Label[s.venue] = "phoenix" /\ NamesTokens(s.venue)
       /\ in.token = s.in /\ in.amount = s.amount_in /\ out.token = s.out /\ out.amount = s.amount_in
  BY DEF Label, NamesTokens, Leg
<1> HIDE DEF in, out
<1> QED
  BY <1>1, <1>3, <1>7, <1>8, <1>9, <1>10, LegsMakeTheRow

(* So is one in a Comet pool.                                               *)
LEMMA CometTrade ==
  ASSUME NEW s \in Trades, NEW ctx, IsContext(ctx), s.venue = "comet" PROVE SwapRecovered(s, ctx)
<1> DEFINE e == EventOf("comet", <<"POOL", "swap">>,
                        [caller |-> s.user, token_in |-> s.in, token_out |-> s.out,
                         token_amount_in |-> s.amount_in, token_amount_out |-> s.amount_out], None)
           in  == Leg(s.in, s.amount_in)
           out == Leg(s.out, s.amount_out)
<1>1. SwapEvent(s) = e
  BY DEF SwapEvent
<1>2. /\ e.venue = "comet" /\ e.venue \in LpVenues /\ e.topics = <<"POOL", "swap">>
      /\ Get(e.data, "token_in") = s.in /\ Get(e.data, "token_out") = s.out
      /\ Get(e.data, "token_amount_in") = s.amount_in /\ Get(e.data, "token_amount_out") = s.amount_out
      /\ Get(e.data, "caller") = s.user
  BY DEF EventOf, LpVenues, Get
<1>3. /\ Nth(e.topics, 2) = "swap" /\ e.topics[1] = "POOL" /\ s.user \in Accounts
      /\ s.in \in {PoolTokens[1], PoolTokens[2]} /\ s.out \in {PoolTokens[1], PoolTokens[2]}
      /\ s.amount_in \in Nat \ {0} /\ s.amount_out \in Nat \ {0}
  BY <1>2 DEF Nth, Trades
<1> HIDE DEF e
<1>4. KindOf(e) = "trade"
  <2>1. KindName(e) = "swap"
    BY <1>2, <1>3 DEF KindName
  <2> QED
    BY <1>2, <2>1 DEF KindOf
<1>5. ActorOf(e) = s.user
  BY <1>2, <1>3, Addresses DEF ActorOf, Else, Some
<1>6. Address(s.in) = s.in /\ Address(s.out) = s.out
  BY <1>3, Addresses
<1>7. PICK fee : derive_comet_swap(e, ctx) =
                   Swap("comet", in, out,
                        Else(Quote(ctx, in.token, in.amount), Quote(ctx, out.token, out.amount)), fee)
  BY <1>2, <1>6 DEF derive_comet_swap
<1>8. DeriveSwap(e, ctx) = derive_comet_swap(e, ctx)
  BY <1>2 DEF DeriveSwap
<1>9. parse_pool_event(e, ctx).kind = "trade" /\ parse_pool_event(e, ctx).actor = s.user
  BY <1>4, <1>5 DEF parse_pool_event
<1>10. /\ Label[s.venue] = "comet" /\ NamesTokens(s.venue)
       /\ in.token = s.in /\ in.amount = s.amount_in /\ out.token = s.out /\ out.amount = s.amount_out
  BY DEF Label, NamesTokens, Leg
<1> HIDE DEF in, out
<1> QED
  BY <1>1, <1>3, <1>7, <1>8, <1>9, <1>10, LegsMakeTheRow

(* A pool of signed amounts: what it received is positive.                  *)
LEMMA SushiTrade ==
  ASSUME NEW s \in Trades, NEW ctx, IsContext(ctx), s.venue = "sushi" PROVE SwapRecovered(s, ctx)
<1> DEFINE a0 == Slot(s.in, 1, s.amount_in) - Slot(s.out, 1, s.amount_out)
           a1 == Slot(s.in, 2, s.amount_in) - Slot(s.out, 2, s.amount_out)
           e == EventOf("sushi", <<"swap">>,
                        [amount0 |-> a0, amount1 |-> a1, sender |-> s.user, recipient |-> Manager], None)
           in  == SignedLeg(e, ctx, Positive)
           out == SignedLeg(e, ctx, Negative)
<1>1. SwapEvent(s) = e
  BY DEF SwapEvent
<1>2. /\ e.venue = "sushi" /\ e.venue \in LpVenues /\ e.topics = <<"swap">> /\ e.topics[1] = "swap"
      /\ Get(e.data, "amount0") = a0 /\ Get(e.data, "amount1") = a1 /\ Get(e.data, "sender") = s.user
  BY DEF EventOf, LpVenues, Get
<1>3. /\ s.user \in Accounts /\ s.amount_in \in Nat \ {0} /\ s.amount_out \in Nat \ {0}
      /\ \/ s.in = PoolTokens[1] /\ s.out = PoolTokens[2]
         \/ s.in = PoolTokens[2] /\ s.out = PoolTokens[1]
  BY DEF Trades
<1>4. \/ s.in = PoolTokens[1] /\ s.out = PoolTokens[2] /\ a0 = s.amount_in /\ a1 = -s.amount_out
      \/ s.in = PoolTokens[2] /\ s.out = PoolTokens[1] /\ a0 = -s.amount_out /\ a1 = s.amount_in
  BY <1>3, Addresses DEF Slot
<1>5. Nth(e.topics, 2) = None /\ Nth(e.topics, 3) = None
  BY <1>2 DEF Nth
<1> HIDE DEF e, a0, a1
<1>6. KindOf(e) = "trade"
  <2>1. KindName(e) = "swap"
    BY <1>2 DEF KindName
  <2> QED
    BY <1>2, <2>1 DEF KindOf
<1>7. ActorOf(e) = s.user
  <2>1. SushiActor(e.data) = s.user
    BY <1>2, <1>3, Addresses DEF SushiActor, Else, Some
  <2> QED
    BY <1>2, <1>3, <2>1, Addresses DEF ActorOf, Else, Some
<1>8. /\ in = Leg(IF s.in = PoolTokens[1] THEN Nth(ctx.tokens, 1) ELSE Nth(ctx.tokens, 2), s.amount_in)
      /\ out = Leg(IF s.out = PoolTokens[1] THEN Nth(ctx.tokens, 1) ELSE Nth(ctx.tokens, 2), s.amount_out)
  BY <1>2, <1>3, <1>4, Addresses, VenueAssumption DEF SignedLeg, Positive, Negative, Keep, Some, Leg
<1>9. /\ in.amount = s.amount_in /\ out.amount = s.amount_out
      /\ IF Hydrated(ctx) THEN in.token = s.in /\ out.token = s.out ELSE in.token = None /\ out.token = None
  <2>1. ctx.tokens = <<>> \/ ctx.tokens = PoolTokens
    BY DEF IsContext
  <2>2. PoolTokens = <<PoolTokens[1], PoolTokens[2]>> /\ PoolTokens # <<>>
    BY VenueAssumption
  <2> QED
    BY <1>3, <1>8, <2>1, <2>2, Addresses DEF Hydrated, Nth, Leg
<1>10. PICK fee : derive_sushi_swap(e, ctx) =
                    Swap("sushi_v3", in, out, Quote(ctx, in.token, in.amount), fee)
  BY DEF derive_sushi_swap, SushiSwap
<1>11. DeriveSwap(e, ctx) = derive_sushi_swap(e, ctx)
  BY <1>2 DEF DeriveSwap
<1>12. parse_pool_event(e, ctx).kind = "trade" /\ parse_pool_event(e, ctx).actor = s.user
  BY <1>6, <1>7 DEF parse_pool_event
<1>13. Label[s.venue] = "sushi_v3" /\ ~NamesTokens(s.venue)
  BY DEF Label, NamesTokens
<1> HIDE DEF in, out
<1> QED
  BY <1>1, <1>3, <1>5, <1>9, <1>10, <1>11, <1>12, <1>13, Addresses, LegsMakeTheRow

(* Every trade of every venue but Phoenix is stored as what it was; a       *)
(* Phoenix trade with what the pool received as its output and no trader.  *)
THEOREM TradesRecovered ==
  ASSUME NEW s \in Trades, NEW ctx, IsContext(ctx) PROVE SwapRecovered(s, ctx)
<1>1. s.venue \in VenueNames
  BY DEF Trades
<1> QED
  BY <1>1, AquariusTrade, SoroswapTrade, PhoenixTrade, CometTrade, SushiTrade DEF VenueNames, LpVenues

-----------------------------------------------------------------------------
(* Liquidity *)

(* The lists that Those makes.                                              *)
LEMMA Joined ==
  /\ \A x, y : <<x>> \o <<y>> = <<x, y>>
  /\ \A x : <<x>> \o <<>> = <<x>> /\ <<>> \o <<x>> = <<x>>
  /\ <<>> \o <<>> = <<>>
<1>1. ASSUME NEW x, NEW y PROVE <<x>> \o <<y>> = <<x, y>>
  <2> DEFINE both == <<x>> \o <<y>>
  <2>1. <<x>> \in Seq({x, y}) /\ <<y>> \in Seq({x, y}) /\ <<x, y>> \in Seq({x, y})
    OBVIOUS
  <2>2. both \in Seq({x, y}) /\ Len(both) = 2 /\ both[1] = x /\ both[2] = y
    BY <2>1
  <2> HIDE DEF both
  <2>3. both = <<x, y>>
    BY <2>1, <2>2
  <2> QED
    BY <2>3 DEF both
<1>2. ASSUME NEW x PROVE <<x>> \o <<>> = <<x>> /\ <<>> \o <<x>> = <<x>>
  <2>1. <<x>> \in Seq({x}) /\ <<>> \in Seq({x})
    OBVIOUS
  <2> QED
    BY <2>1
<1>3. <<>> \o <<>> = <<>>
  <2>1. <<>> \in Seq({})
    OBVIOUS
  <2> QED
    BY <2>1
<1> QED
  BY <1>1, <1>2, <1>3

(* The quote of the pool's legs is their worth, or missing when no token of *)
(* theirs is priced.                                                       *)
LEMMA QuotesAreWorth ==
  ASSUME NEW ctx, IsContext(ctx), NEW a \in Nat, NEW b \in Nat
  PROVE  LET t1 == PoolTokens[1]
             t2 == PoolTokens[2]
             total == TwoQuotes(ctx, PoolLegs(ctx, a, b))
         IN /\ ~Hydrated(ctx) => total = None
            /\ Hydrated(ctx) => /\ Some(total) => total = Price(ctx, t1) * a + Price(ctx, t2) * b
                                /\ total = None => Price(ctx, t1) * a + Price(ctx, t2) * b = 0
<1> DEFINE legs == PoolLegs(ctx, a, b)
<1>1. \A t \in DOMAIN ctx.book : ctx.book[t] \in Nat \ {0}
  BY DEF IsContext
<1>2. None \notin DOMAIN ctx.book /\ a # None /\ b # None
  BY VenueAssumption DEF IsContext
<1>3. CASE ~Hydrated(ctx)
  <2>1. ctx.tokens = <<>>
    BY <1>3 DEF IsContext, Hydrated
  <2>2. legs[1].token = None /\ legs[2].token = None
    BY <2>1 DEF PoolLegs, Leg, Nth
  <2> QED
    BY <1>2, <1>3, <2>2 DEF TwoQuotes, Quote, Else, Some
<1>4. CASE Hydrated(ctx)
  <2>1. /\ legs[1].token = PoolTokens[1] /\ legs[1].amount = a
        /\ legs[2].token = PoolTokens[2] /\ legs[2].amount = b
    BY <1>4, VenueAssumption DEF PoolLegs, Leg, Nth, Hydrated
  <2> DEFINE q1 == Quote(ctx, legs[1].token, legs[1].amount)
             q2 == Quote(ctx, legs[2].token, legs[2].amount)
             w1 == Price(ctx, PoolTokens[1]) * a
             w2 == Price(ctx, PoolTokens[2]) * b
  <2>2. w1 \in Nat /\ q1 = (IF PoolTokens[1] \in DOMAIN ctx.book THEN w1 ELSE None)
        /\ (PoolTokens[1] \notin DOMAIN ctx.book => w1 = 0)
    BY <1>1, <1>2, <2>1 DEF Quote, Some, Price
  <2>3. w2 \in Nat /\ q2 = (IF PoolTokens[2] \in DOMAIN ctx.book THEN w2 ELSE None)
        /\ (PoolTokens[2] \notin DOMAIN ctx.book => w2 = 0)
    BY <1>1, <1>2, <2>1 DEF Quote, Some, Price
  <2>4. TwoQuotes(ctx, legs) = IF Some(q1) /\ Some(q2) THEN q1 + q2 ELSE Else(q1, q2)
    BY DEF TwoQuotes
  <2> HIDE DEF q1, q2, w1, w2, legs
  <2>5. w1 # None /\ w2 # None /\ w1 + w2 # None
    BY <2>2, <2>3, VenueAssumption
  <2>6. /\ Some(TwoQuotes(ctx, legs)) => TwoQuotes(ctx, legs) = w1 + w2
        /\ TwoQuotes(ctx, legs) = None => w1 + w2 = 0
    <3>1. CASE q1 = w1 /\ q2 = w2
      BY <2>4, <2>5, <3>1 DEF Some
    <3>2. CASE q1 = w1 /\ q2 = None /\ w2 = 0
      BY <2>2, <2>4, <2>5, <3>2 DEF Some, Else
    <3>3. CASE q1 = None /\ w1 = 0 /\ q2 = w2
      BY <2>3, <2>4, <2>5, <3>3 DEF Some, Else
    <3>4. CASE q1 = None /\ w1 = 0 /\ q2 = None /\ w2 = 0
      BY <2>4, <2>5, <3>4 DEF Some, Else
    <3> QED
      BY <2>2, <2>3, <3>1, <3>2, <3>3, <3>4
  <2> QED
    BY <1>4, <2>6 DEF w1, w2, legs
<1> QED
  BY <1>3, <1>4

(* What makes a change of two legs recovered.                               *)
LEMMA LegsMakeTheChange ==
  ASSUME NEW l \in AllChanges, NEW tx \in Lookups, NEW ctx, IsContext(ctx),
         NEW type, NEW share, NEW legs, NEW total, l.venue # "comet",
         LET event == parse_pool_event(LiquidityEvent(l, tx), ctx) IN
         /\ event.kind = l.kind /\ event.actor = Provider(l, tx)
         /\ event.derived = Liquidity(Label[l.venue], type, share, legs, total),
         ~Deposits(l) => share = l.share,
         \/ legs = PoolLegs(ctx, l.amounts[1], l.amounts[2])
         \/ legs = <<>> /\ ~Hydrated(ctx),
         LET quote == TwoQuotes(ctx, PoolLegs(ctx, l.amounts[1], l.amounts[2])) IN
         total \in {quote, IF Some(quote) THEN Keep(quote, quote > 0) ELSE None}
  PROVE  LiquidityRecovered(l, tx, ctx)
<1> DEFINE d == parse_pool_event(LiquidityEvent(l, tx), ctx).derived
           a == l.amounts[1]
           b == l.amounts[2]
           pairs == {<<d.token_amounts[i].token, d.token_amounts[i].amount>> : i \in DOMAIN d.token_amounts}
           quote == TwoQuotes(ctx, PoolLegs(ctx, a, b))
<1>1. /\ d.venue = Label[l.venue] /\ d.share_amount = share /\ d.token_amounts = legs /\ d.total = total
  BY DEF Liquidity
<1>2. a \in Nat /\ b \in Nat
  BY DEF AllChanges
<1>3. ctx.tokens = <<>> \/ Hydrated(ctx)
  BY DEF IsContext, Hydrated
<1>4. Moved(l) = {<<PoolTokens[1], a>>, <<PoolTokens[2], b>>}
  <2>1. Moved(l) = {<<PoolTokens[i], l.amounts[i]>> : i \in {1, 2}}
    BY DEF Moved
  <2> QED
    BY <2>1
<1>5. Hydrated(ctx) => Nth(ctx.tokens, 1) = PoolTokens[1] /\ Nth(ctx.tokens, 2) = PoolTokens[2]
  BY VenueAssumption DEF Hydrated, Nth
<1>6. ~Hydrated(ctx) => Nth(ctx.tokens, 1) = None /\ Nth(ctx.tokens, 2) = None
  BY <1>3 DEF Nth
<1>7. \/ pairs = {<<Nth(ctx.tokens, 1), a>>, <<Nth(ctx.tokens, 2), b>>}
      \/ pairs = {} /\ ~Hydrated(ctx)
  <2>1. CASE legs = PoolLegs(ctx, a, b)
    <3>1. DOMAIN legs = 1 .. 2 /\ legs[1] = Leg(Nth(ctx.tokens, 1), a) /\ legs[2] = Leg(Nth(ctx.tokens, 2), b)
      BY <2>1 DEF PoolLegs
    <3>2. pairs = {<<legs[i].token, legs[i].amount>> : i \in {1, 2}}
      BY <1>1, <3>1
    <3> HIDE DEF pairs, d
    <3> QED
      BY <3>1, <3>2 DEF Leg
  <2>2. CASE legs = <<>> /\ ~Hydrated(ctx)
    BY <1>1, <2>2
  <2> QED
    BY <2>1, <2>2
<1>8. Hydrated(ctx) => pairs = Moved(l)
  <2>1. ASSUME Hydrated(ctx) PROVE pairs = Moved(l)
    <3>1. pairs = {<<Nth(ctx.tokens, 1), a>>, <<Nth(ctx.tokens, 2), b>>}
      BY <1>7, <2>1
    <3> HIDE DEF pairs
    <3> QED
      BY <1>4, <1>5, <2>1, <3>1
  <2> QED
    BY <2>1
<1>9. \A leg \in pairs : Some(leg[1]) => leg \in Moved(l)
  <2>1. CASE Hydrated(ctx)
    BY <1>8, <2>1
  <2>2. CASE ~Hydrated(ctx)
    <3> HIDE DEF pairs
    <3> QED
      BY <1>6, <1>7, <2>2 DEF Some
  <2> QED
    BY <2>1, <2>2
<1>10. Worth(l, ctx) = Price(ctx, PoolTokens[1]) * a + Price(ctx, PoolTokens[2]) * b
  BY DEF Worth
<1> HIDE DEF pairs
<1>11. /\ Some(quote) => quote = Worth(l, ctx)
       /\ Hydrated(ctx) /\ quote = None => Worth(l, ctx) = 0
  BY <1>2, <1>10, QuotesAreWorth DEF Some
<1>12. total = quote \/ total = (IF Some(quote) THEN Keep(quote, quote > 0) ELSE None)
  OBVIOUS
<1> HIDE DEF quote
<1>13. /\ Some(total) => total = Worth(l, ctx)
       /\ Hydrated(ctx) /\ Worth(l, ctx) > 0 => total = Worth(l, ctx)
  BY <1>11, <1>12 DEF Some, Keep
<1> HIDE DEF d
<1> QED
  BY <1>1, <1>8, <1>9, <1>13 DEF LiquidityRecovered, d, pairs

(* A change of liquidity in an Aquarius pool is stored as it was.           *)
LEMMA AquariusChange ==
  ASSUME NEW l \in AllChanges, NEW tx \in Lookups, NEW ctx, IsContext(ctx), l.venue = "aquarius"
  PROVE  LiquidityRecovered(l, tx, ctx)
<1> DEFINE a == l.amounts[1]
           b == l.amounts[2]
           e == EventOf("aquarius", <<l.kind, PoolTokens[1], PoolTokens[2]>>, Vector(<<l.share, a, b>>), tx)
           pool == PoolLegs(ctx, a, b)
           quote == TwoQuotes(ctx, pool)
           Paid(leg) == Some(leg.token) /\ Some(leg.amount)
           legs == Those(pool[1], pool[2], Paid)
           total == IF Some(quote) THEN Keep(quote, quote > 0) ELSE None
<1>1. LiquidityEvent(l, tx) = e
  BY DEF LiquidityEvent
<1>2. /\ e.venue = "aquarius" /\ e.venue \notin LpVenues /\ e.tx = tx /\ e.topics[1] = l.kind
      /\ Get(e.data, "0") = l.share /\ Get(e.data, "1") = a /\ Get(e.data, "2") = b
  BY DEF EventOf, LpVenues, Vector, Get, Nth
<1>3. /\ a \in Nat /\ b \in Nat /\ a # None /\ b # None
      /\ l.kind \in {"deposit_liquidity", "withdraw_liquidity"}
  BY VenueAssumption DEF AllChanges
<1> HIDE DEF e
<1>4. KindOf(e) = l.kind
  BY <1>2, <1>3 DEF KindOf, KindName, parse
<1>5. ActorOf(e) = tx
  <2>1. actor_from_topics(e) = None
    BY <1>3, <1>4 DEF actor_from_topics
  <2> QED
    BY <1>2, <1>3, <2>1 DEF ActorOf, Else, event_needs_tx_actor
<1>6. derive_aquarius_liquidity(e, ctx) = Liquidity("aquarius", None, l.share, legs, total)
  BY <1>2 DEF derive_aquarius_liquidity
<1>7. Derive(e, ctx) = derive_aquarius_liquidity(e, ctx)
  <2>1. DeriveLiquidity(e, ctx) = derive_aquarius_liquidity(e, ctx)
    BY <1>2 DEF DeriveLiquidity
  <2> QED
    BY <1>3, <1>4, <2>1 DEF Derive
<1>8. legs = pool \/ (legs = <<>> /\ ~Hydrated(ctx))
  <2>1. pool = <<Leg(Nth(ctx.tokens, 1), a), Leg(Nth(ctx.tokens, 2), b)>>
    BY DEF PoolLegs
  <2>2. CASE Hydrated(ctx)
    <3>1. Nth(ctx.tokens, 1) = PoolTokens[1] /\ Nth(ctx.tokens, 2) = PoolTokens[2]
      BY <2>2, VenueAssumption DEF Hydrated, Nth
    <3>2. Paid(pool[1]) /\ Paid(pool[2])
      BY <1>3, <2>1, <3>1, Addresses DEF Leg, Some
    <3>3. legs = <<pool[1]>> \o <<pool[2]>>
      BY <3>2 DEF Those
    <3>4. pool = <<pool[1], pool[2]>>
      BY <2>1
    <3> HIDE DEF legs, pool
    <3> QED
      BY <3>3, <3>4, Joined
  <2>3. CASE ~Hydrated(ctx)
    <3>1. ctx.tokens = <<>>
      BY <2>3 DEF IsContext, Hydrated
    <3>2. ~Paid(pool[1]) /\ ~Paid(pool[2])
      BY <2>1, <3>1 DEF Leg, Some, Nth
    <3>3. legs = <<>> \o <<>>
      BY <3>2 DEF Those
    <3> QED
      BY <2>3, <3>3, Joined
  <2> QED
    BY <2>2, <2>3
<1>9. /\ parse_pool_event(e, ctx).kind = l.kind /\ parse_pool_event(e, ctx).actor = tx
      /\ parse_pool_event(e, ctx).derived = Liquidity("aquarius", None, l.share, legs, total)
  BY <1>3, <1>4, <1>5, <1>6, <1>7 DEF parse_pool_event
<1>10. Label[l.venue] = "aquarius" /\ Provider(l, tx) = tx
  BY DEF Label, Provider
<1> HIDE DEF legs, total
<1>11. total \in {quote, IF Some(quote) THEN Keep(quote, quote > 0) ELSE None}
  BY DEF total
<1> HIDE DEF quote
<1> QED
  BY <1>1, <1>8, <1>9, <1>10, <1>11, LegsMakeTheChange DEF quote

(* So is one in a Soroswap pool.                                            *)
LEMMA SoroswapChange ==
  ASSUME NEW l \in AllChanges, NEW tx \in Lookups, NEW ctx, IsContext(ctx), l.venue = "soroswap"
  PROVE  LiquidityRecovered(l, tx, ctx)
<1> DEFINE a == l.amounts[1]
           b == l.amounts[2]
           name == IF Deposits(l) THEN "deposit" ELSE "withdraw"
           e == EventOf("soroswap", <<"SoroswapPair", name>>,
                        [liquidity |-> l.share, amount_0 |-> a, amount_1 |-> b, to |-> l.user], tx)
           total == TwoQuotes(ctx, PoolLegs(ctx, a, b))
<1>1. LiquidityEvent(l, tx) = e
  BY DEF LiquidityEvent
<1>2. /\ e.venue = "soroswap" /\ e.venue \in LpVenues /\ e.topics = <<"SoroswapPair", name>>
      /\ Get(e.data, "liquidity") = l.share /\ Get(e.data, "amount_0") = a
      /\ Get(e.data, "amount_1") = b /\ Get(e.data, "to") = l.user
  BY DEF EventOf, LpVenues, Get
<1>3. /\ e.topics[1] = "SoroswapPair" /\ Nth(e.topics, 2) = name /\ l.user \in Accounts
      /\ l.kind \in {"deposit_liquidity", "withdraw_liquidity"}
  BY <1>2 DEF AllChanges, Nth
<1>4. IF Deposits(l) THEN name = "deposit" /\ l.kind = "deposit_liquidity"
      ELSE name = "withdraw" /\ l.kind = "withdraw_liquidity"
  BY <1>3 DEF Deposits
<1> HIDE DEF e, name
<1>5. KindOf(e) = l.kind
  <2>1. KindName(e) = name
    BY <1>2, <1>3 DEF KindName
  <2> QED
    BY <1>2, <1>4, <2>1 DEF KindOf
<1>6. ActorOf(e) = l.user
  BY <1>2, <1>3, Addresses DEF ActorOf, Else, Some
<1>7. derive_soroswap_liquidity(e, ctx) =
        Liquidity("soroswap_amm", "constant_product", l.share, PoolLegs(ctx, a, b), total)
  BY <1>2 DEF derive_soroswap_liquidity, Pair
<1>8. Derive(e, ctx) = derive_soroswap_liquidity(e, ctx)
  <2>1. DeriveLiquidity(e, ctx) = derive_soroswap_liquidity(e, ctx)
    BY <1>2 DEF DeriveLiquidity
  <2> QED
    BY <1>3, <1>5, <2>1 DEF Derive
<1>9. /\ parse_pool_event(e, ctx).kind = l.kind /\ parse_pool_event(e, ctx).actor = l.user
      /\ parse_pool_event(e, ctx).derived =
           Liquidity("soroswap_amm", "constant_product", l.share, PoolLegs(ctx, a, b), total)
  BY <1>3, <1>5, <1>6, <1>7, <1>8 DEF parse_pool_event
<1>10. Label[l.venue] = "soroswap_amm" /\ Provider(l, tx) = l.user
  BY DEF Label, Provider
<1> QED
  BY <1>1, <1>9, <1>10, LegsMakeTheChange

(* So is a deposit in a Phoenix pool.                                       *)
LEMMA PhoenixDeposit ==
  ASSUME NEW l \in AllChanges, NEW tx \in Lookups, NEW ctx, IsContext(ctx),
         l.venue = "phoenix", Deposits(l)
  PROVE  LiquidityRecovered(l, tx, ctx)
<1> DEFINE a == l.amounts[1]
           b == l.amounts[2]
           e == EventOf("phoenix", <<"provide_liquidity">>,
                        [token_a_amount |-> a, token_b_amount |-> b, sender |-> l.user], tx)
           total == TwoQuotes(ctx, PoolLegs(ctx, a, b))
<1>1. LiquidityEvent(l, tx) = e
  BY DEF LiquidityEvent
<1>2. /\ e.venue = "phoenix" /\ e.venue \in LpVenues /\ e.topics[1] = "provide_liquidity"
      /\ Get(e.data, "token_a_amount") = a /\ Get(e.data, "token_b_amount") = b
      /\ Get(e.data, "to") = None /\ l.kind = "deposit_liquidity"
  BY DEF EventOf, LpVenues, Get, Deposits
<1> HIDE DEF e
<1>3. KindOf(e) = l.kind
  <2>1. KindName(e) = "provide_liquidity"
    BY <1>2 DEF KindName
  <2> QED
    BY <1>2, <2>1 DEF KindOf
<1>4. ActorOf(e) = None
  <2>1. Account(None) = None
    BY DEF Account
  <2> QED
    BY <1>2, <2>1 DEF ActorOf, Else, event_needs_tx_actor
<1>5. derive_phoenix_liquidity(e, ctx) = Liquidity("phoenix", None, None, PoolLegs(ctx, a, b), total)
  BY <1>2, <1>3 DEF derive_phoenix_liquidity, Pair
<1>6. Derive(e, ctx) = derive_phoenix_liquidity(e, ctx)
  <2>1. DeriveLiquidity(e, ctx) = derive_phoenix_liquidity(e, ctx)
    BY <1>2 DEF DeriveLiquidity
  <2> QED
    BY <1>2, <1>3, <2>1 DEF Derive
<1>7. /\ parse_pool_event(e, ctx).kind = l.kind /\ parse_pool_event(e, ctx).actor = None
      /\ parse_pool_event(e, ctx).derived =
           Liquidity("phoenix", None, None, PoolLegs(ctx, a, b), total)
  BY <1>2, <1>3, <1>4, <1>5, <1>6 DEF parse_pool_event
<1>8. Label[l.venue] = "phoenix" /\ Provider(l, tx) = None
  BY DEF Label, Provider
<1> QED
  BY <1>1, <1>7, <1>8, LegsMakeTheChange

(* So is a withdrawal from a Phoenix pool.                                  *)
LEMMA PhoenixWithdrawal ==
  ASSUME NEW l \in AllChanges, NEW tx \in Lookups, NEW ctx, IsContext(ctx),
         l.venue = "phoenix", ~Deposits(l)
  PROVE  LiquidityRecovered(l, tx, ctx)
<1> DEFINE a == l.amounts[1]
           b == l.amounts[2]
           e == EventOf("phoenix", <<"withdraw_liquidity">>,
                        [shares_amount |-> l.share, return_amount_a |-> a, return_amount_b |-> b,
                         sender |-> l.user], tx)
           total == TwoQuotes(ctx, PoolLegs(ctx, a, b))
<1>1. LiquidityEvent(l, tx) = e
  BY DEF LiquidityEvent
<1>2. /\ e.venue = "phoenix" /\ e.venue \in LpVenues /\ e.topics[1] = "withdraw_liquidity" /\ e.tx = tx
      /\ Get(e.data, "return_amount_a") = a /\ Get(e.data, "return_amount_b") = b
      /\ Get(e.data, "shares_amount") = l.share /\ Get(e.data, "to") = None
      /\ l.kind = "withdraw_liquidity"
  BY DEF EventOf, LpVenues, Get, Deposits, AllChanges
<1> HIDE DEF e
<1>3. KindOf(e) = l.kind
  <2>1. KindName(e) = "withdraw_liquidity"
    BY <1>2 DEF KindName
  <2> QED
    BY <1>2, <2>1 DEF KindOf
<1>4. ActorOf(e) = tx
  <2>1. Account(None) = None
    BY DEF Account
  <2> QED
    BY <1>2, <2>1 DEF ActorOf, Else, event_needs_tx_actor
<1>5. derive_phoenix_liquidity(e, ctx) = Liquidity("phoenix", None, l.share, PoolLegs(ctx, a, b), total)
  BY <1>2, <1>3 DEF derive_phoenix_liquidity, Pair
<1>6. Derive(e, ctx) = derive_phoenix_liquidity(e, ctx)
  <2>1. DeriveLiquidity(e, ctx) = derive_phoenix_liquidity(e, ctx)
    BY <1>2 DEF DeriveLiquidity
  <2> QED
    BY <1>2, <1>3, <2>1 DEF Derive
<1>7. /\ parse_pool_event(e, ctx).kind = l.kind /\ parse_pool_event(e, ctx).actor = tx
      /\ parse_pool_event(e, ctx).derived =
           Liquidity("phoenix", None, l.share, PoolLegs(ctx, a, b), total)
  BY <1>2, <1>3, <1>4, <1>5, <1>6 DEF parse_pool_event
<1>8. Label[l.venue] = "phoenix" /\ Provider(l, tx) = tx
  BY DEF Label, Provider
<1> QED
  BY <1>1, <1>7, <1>8, LegsMakeTheChange

(* So is one in a Sushi pool, whose amounts are those of its transaction.   *)
LEMMA SushiChange ==
  ASSUME NEW l \in AllChanges, NEW tx \in Lookups, NEW ctx, IsContext(ctx), l.venue = "sushi"
  PROVE  LiquidityRecovered(l, tx, ctx)
<1> DEFINE a == l.amounts[1]
           b == l.amounts[2]
           name == IF Deposits(l) THEN "mint" ELSE "burn"
           e == EventOf("sushi", <<name>>,
                        [amount |-> l.share, amount0 |-> a, amount1 |-> b,
                         owner |-> Manager, sender |-> l.user], tx)
           total == TwoQuotes(ctx, PoolLegs(ctx, a, b))
<1>1. LiquidityEvent(l, tx) = e
  BY DEF LiquidityEvent
<1>2. /\ e.venue = "sushi" /\ e.venue \in LpVenues /\ e.topics[1] = name
      /\ Get(e.data, "amount") = l.share /\ Get(e.data, "amount0") = a
      /\ Get(e.data, "amount1") = b /\ Get(e.data, "sender") = l.user
  BY DEF EventOf, LpVenues, Get
<1>3. /\ l.user \in Accounts /\ a \in Nat /\ b \in Nat
      /\ l.kind \in {"deposit_liquidity", "withdraw_liquidity"}
  BY DEF AllChanges
<1>4. IF Deposits(l) THEN name = "mint" /\ l.kind = "deposit_liquidity"
      ELSE name = "burn" /\ l.kind = "withdraw_liquidity"
  BY <1>3 DEF Deposits
<1> HIDE DEF e, name
<1>5. KindOf(e) = l.kind
  <2>1. KindName(e) = name
    BY <1>2 DEF KindName
  <2> QED
    BY <1>2, <1>4, <2>1 DEF KindOf
<1>6. ActorOf(e) = l.user
  <2>1. SushiActor(e.data) = l.user
    BY <1>2, <1>3, Addresses DEF SushiActor, Else, Some
  <2> QED
    BY <1>2, <1>3, <2>1, Addresses DEF ActorOf, Else, Some
<1>7. Magnitude(a) = a /\ Magnitude(b) = b
  BY <1>3 DEF Magnitude
<1>8. derive_sushi_liquidity(e, ctx) =
        Liquidity("sushi_v3", "concentrated", l.share, PoolLegs(ctx, a, b), total)
  BY <1>2, <1>7 DEF derive_sushi_liquidity, Pair
<1>9. Derive(e, ctx) = derive_sushi_liquidity(e, ctx)
  <2>1. DeriveLiquidity(e, ctx) = derive_sushi_liquidity(e, ctx)
    BY <1>2 DEF DeriveLiquidity
  <2> QED
    BY <1>3, <1>5, <2>1 DEF Derive
<1>10. /\ parse_pool_event(e, ctx).kind = l.kind /\ parse_pool_event(e, ctx).actor = l.user
       /\ parse_pool_event(e, ctx).derived =
            Liquidity("sushi_v3", "concentrated", l.share, PoolLegs(ctx, a, b), total)
  BY <1>3, <1>5, <1>6, <1>8, <1>9 DEF parse_pool_event
<1>11. Label[l.venue] = "sushi_v3" /\ Provider(l, tx) = l.user
  BY DEF Label, Provider
<1> QED
  BY <1>1, <1>10, <1>11, LegsMakeTheChange

(* A Comet change moves one token, which its event names.                   *)
LEMMA CometChange ==
  ASSUME NEW l \in AllChanges, NEW tx \in Lookups, NEW ctx, IsContext(ctx), l.venue = "comet"
  PROVE  LiquidityRecovered(l, tx, ctx)
<1> DEFINE a == l.amounts[1]
           e == LiquidityEvent(l, tx)
           leg == Leg(PoolTokens[1], a)
           total == Quote(ctx, leg.token, leg.amount)
<1>1. /\ e.venue = "comet" /\ e.venue \in LpVenues /\ e.topics[1] = "POOL" /\ e.data.caller = l.user
      /\ "caller" \in DOMAIN e.data
      /\ Nth(e.topics, 2) = IF Deposits(l) THEN "join_pool" ELSE "exit_pool"
  BY DEF LiquidityEvent, EventOf, LpVenues, Nth
<1>2. /\ Deposits(l) => Get(e.data, "token_in") = PoolTokens[1] /\ Get(e.data, "token_amount_in") = a
      /\ ~Deposits(l) => Get(e.data, "token_out") = PoolTokens[1] /\ Get(e.data, "token_amount_out") = a
      /\ Get(e.data, "caller") = l.user
  BY DEF LiquidityEvent, EventOf, Get
<1>3. /\ l.user \in Accounts /\ a \in Nat /\ a # None
      /\ IF Deposits(l) THEN l.kind = "deposit_liquidity" ELSE l.kind = "withdraw_liquidity"
  BY VenueAssumption DEF AllChanges, Deposits
<1> HIDE DEF e
<1>4. KindOf(e) = l.kind
  <2>1. KindName(e) = IF Deposits(l) THEN "join_pool" ELSE "exit_pool"
    BY <1>1 DEF KindName
  <2> QED
    BY <1>1, <1>3, <2>1 DEF KindOf
<1>5. ActorOf(e) = l.user
  BY <1>1, <1>2, <1>3, Addresses DEF ActorOf, Else, Some
<1>6. PICK share : derive_comet_liquidity(e, ctx) = Liquidity("comet", "weighted", share, <<leg>>, total)
  BY <1>2, <1>3, <1>4, Addresses DEF derive_comet_liquidity
<1>7. Derive(e, ctx) = derive_comet_liquidity(e, ctx)
  <2>1. DeriveLiquidity(e, ctx) = derive_comet_liquidity(e, ctx)
    BY <1>1 DEF DeriveLiquidity
  <2> QED
    BY <1>3, <1>4, <2>1 DEF Derive
<1> DEFINE event == parse_pool_event(e, ctx)
           d == event.derived
           pairs == {<<d.token_amounts[i].token, d.token_amounts[i].amount>> : i \in DOMAIN d.token_amounts}
<1>8. event.kind = l.kind /\ event.actor = l.user /\ d = Liquidity("comet", "weighted", share, <<leg>>, total)
  BY <1>3, <1>4, <1>5, <1>6, <1>7 DEF parse_pool_event
<1> HIDE DEF event
<1>9. d.venue = Label[l.venue] /\ d.token_amounts = <<leg>> /\ d.total = total
  BY <1>8 DEF Liquidity, Label
<1>10. pairs = Moved(l)
  <2>1. pairs = {<<leg.token, leg.amount>> : i \in {1}}
    BY <1>9
  <2> QED
    BY <2>1 DEF Moved, Leg
<1>11. /\ Some(total) => total = Worth(l, ctx)
       /\ Worth(l, ctx) > 0 => total = Worth(l, ctx)
  <2>1. \A t \in DOMAIN ctx.book : ctx.book[t] \in Nat \ {0}
    BY DEF IsContext
  <2>2. Worth(l, ctx) = Price(ctx, PoolTokens[1]) * a
    BY <1>3, <2>1 DEF Worth, Price
  <2>3. total = IF PoolTokens[1] \in DOMAIN ctx.book THEN Price(ctx, PoolTokens[1]) * a ELSE None
    BY <1>3 DEF Quote, Leg, Price, Some
  <2>4. PoolTokens[1] \notin DOMAIN ctx.book => Price(ctx, PoolTokens[1]) * a = 0
    BY <1>3 DEF Price
  <2> QED
    BY <2>2, <2>3, <2>4 DEF Some
<1>12. Provider(l, tx) = l.user
  BY DEF Provider
<1> HIDE DEF d, pairs, total
<1> QED
  BY <1>8, <1>9, <1>10, <1>11, <1>12 DEF LiquidityRecovered, pairs, d, event, e

(* Every change of liquidity of every venue is stored as what it was.       *)
THEOREM ChangesRecovered ==
  ASSUME NEW l \in AllChanges, NEW tx \in Lookups, NEW ctx, IsContext(ctx)
  PROVE  LiquidityRecovered(l, tx, ctx)
<1>1. l.venue \in VenueNames
  BY DEF AllChanges
<1> QED
  BY <1>1, AquariusChange, SoroswapChange, PhoenixDeposit, PhoenixWithdrawal, CometChange, SushiChange
     DEF VenueNames, LpVenues

-----------------------------------------------------------------------------
(* Division *)

(* A quotient lies between its two bounds, and only one number does.        *)
LEMMA DivBounds ==
  ASSUME NEW n \in Int, NEW m \in Nat \ {0}
  PROVE  n \div m \in Int /\ m * (n \div m) <= n /\ n < m * (n \div m) + m
BY SMT

(* A factor greater by one at least adds the other factor at least.         *)
LEMMA Times ==
  ASSUME NEW m \in Nat \ {0}, NEW x \in Int, NEW y \in Int, x + 1 <= y
  PROVE  m * x + m <= m * y
<1>1. PICK d \in Nat : y = x + 1 + d
  <2>1. y - x - 1 \in Nat
    OBVIOUS
  <2> QED
    BY <2>1
<1>2. m * y = m * x + m + m * d
  BY <1>1, SMT
<1>3. m * d >= 0
  BY SMT
<1> QED
  BY <1>2, <1>3

(* The one number between the two bounds is the quotient.                   *)
LEMMA DivIs ==
  ASSUME NEW n \in Int, NEW m \in Nat \ {0}, NEW k \in Int, m * k <= n, n < m * k + m
  PROVE  n \div m = k
<1> DEFINE q == n \div m
<1>1. q \in Int /\ m * q <= n /\ n < m * q + m
  BY DivBounds
<1> HIDE DEF q
<1>2. ~(q + 1 <= k) /\ ~(k + 1 <= q)
  BY <1>1, Times
<1> QED
  BY <1>1, <1>2 DEF q

(* The API scales the whole part and the rest apart, so as not to overflow; *)
(* the contract scales at once.  Both give the same amount.                *)
LEMMA ScaledApart ==
  ASSUME NEW a \in Nat, NEW p \in Nat
  PROVE  (a \div Scale) * p + ((a % Scale) * p) \div Scale = (a * p) \div Scale
<1> DEFINE x == a \div Scale
           r == a % Scale
           w == (r * p) \div Scale
<1>1. Scale \in Nat \ {0}
  BY AdmissionAssumption
<1>2. x \in Nat /\ r \in Nat /\ a = Scale * x + r
  BY <1>1
<1> HIDE DEF x, r
<1>3. r * p \in Int
  BY <1>2
<1>4. w \in Int /\ Scale * w <= r * p /\ r * p < Scale * w + Scale
  BY <1>1, <1>3, DivBounds
<1> HIDE DEF w
<1>5. a * p = Scale * (x * p) + r * p
  BY <1>1, <1>2, SMT
<1>6. Scale * (x * p + w) = Scale * (x * p) + Scale * w
  BY <1>1, <1>2, <1>4, SMT
<1>7. x * p \in Int /\ a * p \in Int /\ Scale * (x * p) \in Int /\ Scale * w \in Int
  BY <1>1, <1>2, <1>4
<1>8. Scale * (x * p + w) <= a * p /\ a * p < Scale * (x * p + w) + Scale
  BY <1>1, <1>3, <1>4, <1>5, <1>6, <1>7
<1>9. (a * p) \div Scale = x * p + w
  BY <1>1, <1>4, <1>7, <1>8, DivIs
<1> QED
  BY <1>9 DEF x, r, w

(* What fits a limit of the API, in half stroops and half units, fits the   *)
(* contract's in stroops and whole ppm, with what was used before.         *)
LEMMA LimitsAgree ==
  ASSUME NEW q \in Int, NEW c \in Nat, NEW max \in Nat, NEW before \in Nat, NEW used \in Nat,
         c % 2 # 1, q \div 2 > 0, before * 4 * Scale <= used, used + q * c <= Limit(max)
  PROVE  before + ContractScale(q \div 2, c \div 2) <= (max + 1) \div 2
<1> DEFINE a == q \div 2
           b == c \div 2
           k == (a * b) \div Scale
           h == (max + 1) \div 2
<1>1. Scale \in Nat \ {0}
  BY AdmissionAssumption
<1>2. a \in Nat /\ 2 * a <= q /\ b \in Nat /\ c = 2 * b /\ h \in Nat /\ max <= 2 * h
  OBVIOUS
<1> HIDE DEF a, b, h
<1>3. PICK d \in Nat : q = 2 * a + d
  <2>1. q - 2 * a \in Nat
    BY <1>2
  <2> QED
    BY <1>2, <2>1
<1>4. q * c = 4 * (a * b) + 2 * (d * b) /\ d * b >= 0 /\ a * b \in Nat
  BY <1>2, <1>3, SMT
<1>5. 4 * (a * b) <= q * c
  BY <1>2, <1>4
<1>6. k \in Int /\ Scale * k <= a * b
  <2> DEFINE n == a * b
  <2>1. n \in Int
    BY <1>4
  <2> HIDE DEF n
  <2>2. n \div Scale \in Int /\ Scale * (n \div Scale) <= n
    BY <1>1, <2>1, DivBounds
  <2> QED
    BY <2>2 DEF n
<1> HIDE DEF k
<1>7. 4 * (Scale * k) <= q * c
  BY <1>1, <1>4, <1>5, <1>6
<1>8. Limit(max) = 2 * (Scale * max) /\ Scale * max \in Nat /\ before * 4 * Scale = 4 * (Scale * before)
      /\ Scale * before \in Nat /\ Scale * k \in Int /\ q * c \in Int
  BY <1>1, <1>2, <1>6, SMT DEF Limit
<1>9. 2 * (Scale * before + Scale * k) <= Scale * max
  BY <1>7, <1>8
<1>10. Scale * before + Scale * k = Scale * (before + k)
  BY <1>1, <1>6, SMT
<1>11. ~(h + 1 <= before + k)
  <2>1. SUFFICES ASSUME h + 1 <= before + k PROVE FALSE
    OBVIOUS
  <2>2. max + 1 <= 2 * (before + k)
    BY <1>2, <1>6, <2>1
  <2>3. Scale * max + Scale <= Scale * (2 * (before + k))
    BY <1>1, <1>6, <2>2, Times
  <2>4. Scale * (2 * (before + k)) = 2 * (Scale * (before + k))
    BY <1>1, <1>6, SMT
  <2> QED
    BY <1>1, <1>8, <1>9, <1>10, <2>3, <2>4
<1>12. before + k <= h
  BY <1>2, <1>6, <1>11
<1> QED
  BY <1>12 DEF k, a, b, h, ContractScale

(* Rounded to the next ppm, a quote is at most half a unit per stroop of   *)
(* the record above what the API counted.                                  *)
LEMMA QuoteBound ==
  ASSUME NEW q \in Int, NEW c \in Nat, q \div 2 > 0
  PROVE  /\ ContractScale(q \div 2, (c + 1) \div 2) \in Nat
         /\ 4 * Scale * ContractScale(q \div 2, (c + 1) \div 2) <= q * c + 2 * (q \div 2)
<1> DEFINE a == q \div 2
           p == (c + 1) \div 2
           k == (a * p) \div Scale
<1>1. Scale \in Nat \ {0}
  BY AdmissionAssumption
<1>2. a \in Nat /\ 2 * a <= q /\ p \in Nat /\ 2 * p <= c + 1
  OBVIOUS
<1> HIDE DEF a, p
<1>3. PICK d \in Nat : q = 2 * a + d
  <2>1. q - 2 * a \in Nat
    BY <1>2
  <2> QED
    BY <1>2, <2>1
<1>4. PICK x \in Nat : c + 1 = 2 * p + x
  <2>1. c + 1 - 2 * p \in Nat
    BY <1>2
  <2> QED
    BY <1>2, <2>1
<1>5. a * p \in Nat /\ a * c \in Nat /\ a * x \in Nat /\ d * c \in Nat
  <2>1. \A i, j \in Nat : i * j \in Nat
    OBVIOUS
  <2> QED
    BY <1>2, <2>1
<1>6. k \in Int /\ Scale * k <= a * p /\ a * p < Scale * k + Scale
  <2> DEFINE n == a * p
  <2>1. n \in Int
    BY <1>5
  <2> HIDE DEF n
  <2>2. n \div Scale \in Int /\ Scale * (n \div Scale) <= n /\ n < Scale * (n \div Scale) + Scale
    BY <1>1, <2>1, DivBounds
  <2> QED
    BY <2>2 DEF n
<1> HIDE DEF k
<1>7. k \in Nat
  <2>1. SUFFICES ASSUME k <= -1 PROVE FALSE
    BY <1>6
  <2>2. Scale * k <= Scale * (-1)
    BY <1>1, <1>6, <2>1, Times
  <2> QED
    BY <1>1, <1>5, <1>6, <2>2
<1>8. q * c = 2 * (a * c) + d * c /\ a * c + a = 2 * (a * p) + a * x
  <2>1. q * c = (2 * a + d) * c /\ (2 * a + d) * c = 2 * (a * c) + d * c
    BY <1>2, <1>3, SMT
  <2>2. a * c + a = a * (c + 1) /\ a * (2 * p + x) = 2 * (a * p) + a * x
    BY <1>2, <1>4, SMT
  <2> QED
    BY <1>4, <2>1, <2>2
<1>9. 4 * Scale * k = 4 * (Scale * k) /\ Scale * k \in Int
  BY <1>1, <1>6, SMT
<1>10. 4 * Scale * k <= q * c + 2 * a
  BY <1>2, <1>5, <1>6, <1>8, <1>9
<1> QED
  BY <1>7, <1>10 DEF k, a, p, ContractScale

-----------------------------------------------------------------------------
(* Admission *)

(* An event the indexer stored: of a known kind, the fields of its body     *)
(* numbers where they are amounts, the rewards of a claim in tokens.        *)
Amounts(e) == \A field \in {"0", "1", "2"} : Get(e.data, field) \in Int \cup {None}
Rewards(e) ==
  /\ e.topics[1] = "claim_fees" => Nth(e.topics, 3) \in Tokens /\ Nth(e.topics, 4) \in Tokens
  /\ e.topics[1] = "claim_protocol_fee" => Nth(e.topics, 2) \in Tokens
Stored(e) == KindOf(e) # "unknown" /\ Amounts(e) /\ Rewards(e)

(* What the limits let through.                                             *)
LEMMA Validated ==
  ASSUME NEW s, NEW venue, NEW kind, NEW pool, NEW quote, NEW now, NEW used,
         validate_copy_op(s, venue, kind, pool, quote, now, used) = "ok"
  PROVE  /\ ~(Some(s.expires_at) /\ now >= s.expires_at)
         /\ venue = "aquarius"
         /\ s.pools # {} => pool \in s.pools
         /\ s.max_per_op > 0 => ~((IF Some(quote) THEN quote ELSE 0) > Limit(s.max_per_op))
         /\ s.max_daily > 0 => ~(used + (IF Some(quote) THEN quote ELSE 0) > Limit(s.max_daily))
<1> DEFINE amount == IF Some(quote) THEN quote ELSE 0
<1>1. /\ ~(Some(s.expires_at) /\ now >= s.expires_at)
      /\ ~(VenueId(venue) = None \/ ~copy_execution_enabled(VenueId(venue)))
      /\ ~(s.pools # {} /\ pool \notin s.pools)
      /\ ~(s.max_per_op > 0 /\ amount > Limit(s.max_per_op))
      /\ ~(s.max_daily > 0 /\ used + amount > Limit(s.max_daily))
  BY DEF validate_copy_op
<1>2. VenueId(venue) = "aquarius"
  BY <1>1 DEF copy_execution_enabled, Capabilities
<1>3. venue = "aquarius"
  <2>1. CASE venue \in {"sushi_v3", "sushi"}
    BY <1>2, <2>1 DEF VenueId
  <2>2. CASE venue \in {"soroswap_amm", "soroswap"}
    BY <1>2, <2>2 DEF VenueId
  <2>3. CASE venue \in {"aquarius", "phoenix", "comet"}
    <3>1. VenueId(venue) = venue
      BY <2>3 DEF VenueId
    <3> QED
      BY <1>2, <3>1
  <2>4. CASE venue \notin {"sushi_v3", "sushi", "soroswap_amm", "soroswap", "aquarius", "phoenix", "comet"}
    <3>1. VenueId(venue) = None
      BY <2>4 DEF VenueId
    <3> QED
      BY <1>1, <3>1
  <2> QED
    BY <2>1, <2>2, <2>3, <2>4
<1> QED
  BY <1>1, <1>3

(* The first topic and the row agree on what is copied.                     *)
LEMMA KindsAgree ==
  ASSUME NEW e, NEW wanted \in BOOLEAN,
         copy_kind_from_event(e.topics[1], wanted) # None
  PROVE  /\ KindOf(e) = e.topics[1]
         /\ e.topics[1] \in {"deposit_liquidity", "withdraw_liquidity", "claim_fees", "claim_protocol_fee"}
         /\ copy_kind_from_event(KindOf(e), TRUE) = copy_kind_from_event(e.topics[1], wanted)
         /\ copy_kind_from_event(e.topics[1], wanted) \in {"deposit", "withdraw", "claim"}
         /\ copy_kind_from_event(e.topics[1], wanted) = "claim" => wanted
<1>1. \/ e.topics[1] \in {"deposit_liquidity", "withdraw_liquidity"}
      \/ e.topics[1] \in {"claim_fees", "claim_protocol_fee"} /\ wanted
  BY DEF copy_kind_from_event
<1>2. KindName(e) = e.topics[1]
  BY <1>1 DEF KindName
<1>3. KindOf(e) = e.topics[1]
  <2>1. CASE e.venue \notin LpVenues
    BY <1>1, <1>2, <2>1 DEF KindOf, parse
  <2>2. CASE e.venue \in LpVenues /\ e.topics[1] = "deposit_liquidity"
    BY <1>2, <2>2 DEF KindOf
  <2>3. CASE e.venue \in LpVenues /\ e.topics[1] = "withdraw_liquidity"
    BY <1>2, <2>3 DEF KindOf
  <2>4. CASE e.venue \in LpVenues /\ e.topics[1] \in {"claim_fees", "claim_protocol_fee"}
    <3>1. parse(e.topics[1]) = e.topics[1]
      BY <2>4 DEF parse
    <3>2. KindOf(e) = parse(e.topics[1])
      BY <1>2, <2>4 DEF KindOf
    <3> QED
      BY <3>1, <3>2
  <2> QED
    BY <1>1, <2>1, <2>2, <2>3, <2>4
<1>4. CASE e.topics[1] = "deposit_liquidity"
  BY <1>3, <1>4 DEF copy_kind_from_event
<1>5. CASE e.topics[1] = "withdraw_liquidity"
  BY <1>3, <1>5 DEF copy_kind_from_event
<1>6. CASE e.topics[1] \in {"claim_fees", "claim_protocol_fee"} /\ wanted
  <2>1. copy_kind_from_event(e.topics[1], wanted) = "claim" /\ copy_kind_from_event(e.topics[1], TRUE) = "claim"
    BY <1>6 DEF copy_kind_from_event
  <2> QED
    BY <1>3, <1>6, <2>1
<1> QED
  BY <1>1, <1>4, <1>5, <1>6

(* A quote is a number or missing.                                          *)
LEMMA QuotesAreNumbers ==
  ASSUME NEW ctx, IsContext(ctx), NEW legs,
         legs[1].amount \in Int \cup {None}, legs[2].amount \in Int \cup {None}
  PROVE  /\ Quote(ctx, legs[1].token, legs[1].amount) \in Int \cup {None}
         /\ TwoQuotes(ctx, legs) \in Int \cup {None}
<1> DEFINE q1 == Quote(ctx, legs[1].token, legs[1].amount)
           q2 == Quote(ctx, legs[2].token, legs[2].amount)
<1>1. \A t \in DOMAIN ctx.book : ctx.book[t] \in Nat \ {0}
  BY DEF IsContext
<1>2. q1 \in Int \cup {None}
  BY <1>1 DEF Quote, Some
<1>3. q2 \in Int \cup {None}
  BY <1>1 DEF Quote, Some
<1>4. TwoQuotes(ctx, legs) = IF Some(q1) /\ Some(q2) THEN q1 + q2 ELSE Else(q1, q2)
  BY DEF TwoQuotes
<1> HIDE DEF q1, q2
<1>5. TwoQuotes(ctx, legs) \in Int \cup {None}
  BY <1>2, <1>3, <1>4 DEF Some, Else
<1> QED
  BY <1>2, <1>5 DEF q1

(* What is queued is a draft with a record of the same event, of Aquarius.  *)
LEMMA QueuedIsRecorded ==
  ASSUME NEW event, NEW pool, NEW s, NEW now, NEW used,
         LET op == Admit(event, pool, s, now, used) IN op # None /\ op.status = "pending"
  PROVE  LET op == Admit(event, pool, s, now, used) IN
         /\ op.draft = build_scaled_op_payload(event, s.coefficient, s.include_claims)
         /\ op.record = canonical_event(event)
         /\ op.draft # None /\ op.record # None
         /\ Else(Get(event.derived, "venue"), "aquarius") = "aquarius"
<1> DEFINE op == Admit(event, pool, s, now, used)
           draft == build_scaled_op_payload(event, s.coefficient, s.include_claims)
           venue == Else(Get(event.derived, "venue"), "aquarius")
           verdict == validate_copy_op(s, venue, draft.kind, pool, draft.scaled_quote, now, used)
<1>1. draft # None /\ op = [draft |-> draft, record |-> canonical_event(event),
                            status |-> copy_op_status(verdict, Some(canonical_event(event)))]
  BY DEF Admit
<1>2. op.draft = draft /\ op.record = canonical_event(event)
      /\ op.status = copy_op_status(verdict, Some(canonical_event(event)))
  BY <1>1
<1>3. verdict = "ok" /\ Some(canonical_event(event))
  BY <1>2 DEF copy_op_status
<1>4. venue = "aquarius"
  <2> HIDE DEF venue, draft
  <2> QED
    BY <1>3, Validated
<1> QED
  BY <1>1, <1>2, <1>3, <1>4 DEF Some

(* A draft has legs, each scaled.                                           *)
LEMMA DraftsAreScaled ==
  ASSUME NEW event, NEW c, NEW wanted,
         build_scaled_op_payload(event, c, wanted) # None
  PROVE  LET draft == build_scaled_op_payload(event, c, wanted)
             topic == event.topics[1]
             legs == leader_amounts_for_kind(topic, event.derived)
             quote == leader_quote_for_kind(topic, event.derived)
         IN /\ draft.kind = copy_kind_from_event(topic, wanted) /\ draft.kind # None
            /\ legs # None /\ DOMAIN draft.scaled = DOMAIN legs
            /\ \A i \in DOMAIN legs :
                 /\ draft.scaled[i].token = legs[i].token
                 /\ draft.scaled[i].amount = scale_amount_str(legs[i].amount, c)
                 /\ draft.scaled[i].amount # None
            /\ draft.scaled_quote = IF Some(quote) THEN quote * c ELSE None
<1> DEFINE draft == build_scaled_op_payload(event, c, wanted)
           topic == event.topics[1]
           kind == copy_kind_from_event(topic, wanted)
           legs == leader_amounts_for_kind(topic, event.derived)
           quote == leader_quote_for_kind(topic, event.derived)
           scaled == scale_token_amounts(legs, c)
<1>1. /\ kind # None /\ legs # None /\ scaled # None
      /\ draft = [kind |-> kind, scaled |-> scaled,
                  scaled_quote |-> IF Some(quote) THEN quote * c ELSE None]
  BY DEF build_scaled_op_payload
<1> HIDE DEF kind, legs, quote
<1>2. /\ draft.kind = kind /\ draft.scaled = scaled
      /\ draft.scaled_quote = IF Some(quote) THEN quote * c ELSE None
  BY <1>1
<1>3. /\ scaled = [i \in DOMAIN legs |-> Leg(legs[i].token, scale_amount_str(legs[i].amount, c))]
      /\ \A i \in DOMAIN scaled : Some(scaled[i].token) /\ Some(scaled[i].amount)
  BY <1>1 DEF scale_token_amounts
<1> HIDE DEF scaled
<1>4. /\ DOMAIN scaled = DOMAIN legs
      /\ \A i \in DOMAIN legs : /\ scaled[i].token = legs[i].token
                                /\ scaled[i].amount = scale_amount_str(legs[i].amount, c)
                                /\ scaled[i].amount # None
  BY <1>3 DEF Leg, Some
<1> HIDE DEF draft
<1> QED
  BY <1>1, <1>2, <1>4 DEF draft, kind, legs, quote, topic

(* A scaled amount is what the contract computes, within its integers.      *)
LEMMA ScalesLikeTheContract ==
  ASSUME NEW a, NEW c \in Int, scale_amount_str(a, c) # None
  PROVE  /\ a \in 0 .. MaxAmount /\ coefficient_ppm(c) \in 1 .. MaxPpm /\ c > 0
         /\ coefficient_ppm(c) = (c + 1) \div 2
         /\ scale_amount_str(a, c) = ContractScale(a, coefficient_ppm(c))
         /\ scale_amount_str(a, c) <= MaxAmount
<1> DEFINE p == coefficient_ppm(c)
           whole == (a \div Scale) * p
           rest == ((a % Scale) * p) \div Scale
<1>1. /\ RawAmount(a) # None /\ p # None
      /\ scale_amount_str(a, c) = Keep(whole + rest, whole <= MaxAmount /\ whole + rest <= MaxAmount)
  BY DEF scale_amount_str
<1>2. a \in 0 .. MaxAmount
  BY <1>1 DEF RawAmount, Keep
<1>3. c > 0 /\ p = (c + 1) \div 2 /\ p \in 1 .. MaxPpm
  BY <1>1 DEF coefficient_ppm, Keep
<1>4. p \in Nat /\ a \in Nat
  BY <1>2, <1>3, AdmissionAssumption
<1> HIDE DEF p
<1>5. whole + rest = ContractScale(a, p)
  BY <1>4, ScaledApart DEF ContractScale
<1> HIDE DEF whole, rest
<1>6. scale_amount_str(a, c) = whole + rest /\ whole + rest <= MaxAmount
  BY <1>1 DEF Keep
<1> QED
  BY <1>2, <1>3, <1>5, <1>6 DEF p

(* No name of a venue is the missing value.                                 *)
LEMMA VenuesAreNamed ==
  None \notin {"aquarius", "soroswap", "soroswap_amm", "phoenix", "comet", "sushi", "sushi_v3"}
BY VenueAssumption DEF Labels

(* What the derived fields of an event are that may be copied: those of an  *)
(* Aquarius pool, or the protocol's claim, which always is one.            *)
LEMMA CopiedShapes ==
  ASSUME NEW e, NEW ctx, IsContext(ctx), Stored(e), NEW wanted \in BOOLEAN,
         copy_kind_from_event(e.topics[1], wanted) # None,
         Else(Get(parse_pool_event(e, ctx).derived, "venue"), "aquarius") = "aquarius"
  PROVE  LET event == parse_pool_event(e, ctx)
             topic == e.topics[1]
             d == event.derived
         IN /\ event.kind = topic /\ event.topics = e.topics /\ event.actor = ActorOf(e)
            /\ topic \in {"deposit_liquidity", "withdraw_liquidity"} =>
                 d = derive_aquarius_liquidity(e, ctx) /\ e.venue \notin LpVenues
            /\ topic = "claim_fees" => d = derive_claim(e, ctx) /\ e.venue \notin LpVenues
            /\ topic = "claim_protocol_fee" => d = derive_protocol_claim(e, ctx)
<1> DEFINE event == parse_pool_event(e, ctx)
           topic == e.topics[1]
<1>1. /\ KindOf(e) = topic
      /\ topic \in {"deposit_liquidity", "withdraw_liquidity", "claim_fees", "claim_protocol_fee"}
  BY KindsAgree
<1>2. event = [kind |-> KindOf(e), topics |-> e.topics, actor |-> ActorOf(e), derived |-> Derive(e, ctx)]
  BY DEF parse_pool_event, Stored
<1>3. event.kind = topic /\ event.topics = e.topics /\ event.actor = ActorOf(e)
      /\ event.derived = Derive(e, ctx)
  BY <1>1, <1>2
<1>4. Get(Derive(e, ctx), "venue") \in {None, "aquarius"}
  BY <1>3 DEF Else
<1> HIDE DEF event
<1>5. ASSUME topic \in {"deposit_liquidity", "withdraw_liquidity"}
      PROVE  Derive(e, ctx) = derive_aquarius_liquidity(e, ctx) /\ e.venue \notin LpVenues
  <2>1. Derive(e, ctx) = DeriveLiquidity(e, ctx)
    BY <1>1, <1>5 DEF Derive
  <2>2. e.venue # "soroswap"
    <3>1. SUFFICES ASSUME e.venue = "soroswap" PROVE FALSE
      OBVIOUS
    <3>2. DeriveLiquidity(e, ctx) = derive_soroswap_liquidity(e, ctx)
      BY <3>1 DEF DeriveLiquidity
    <3>3. Get(derive_soroswap_liquidity(e, ctx), "venue") = "soroswap_amm"
      BY DEF derive_soroswap_liquidity, Pair, Liquidity, Get
    <3> QED
      BY <1>4, <2>1, <3>2, <3>3, VenuesAreNamed
  <2>3. e.venue # "phoenix"
    <3>1. SUFFICES ASSUME e.venue = "phoenix" PROVE FALSE
      OBVIOUS
    <3>2. DeriveLiquidity(e, ctx) = derive_phoenix_liquidity(e, ctx)
      BY <3>1 DEF DeriveLiquidity
    <3>3. Get(derive_phoenix_liquidity(e, ctx), "venue") = "phoenix"
      BY DEF derive_phoenix_liquidity, Pair, Liquidity, Get
    <3> QED
      BY <1>4, <2>1, <3>2, <3>3, VenuesAreNamed
  <2>4. e.venue # "comet"
    <3>1. SUFFICES ASSUME e.venue = "comet" PROVE FALSE
      OBVIOUS
    <3>2. DeriveLiquidity(e, ctx) = derive_comet_liquidity(e, ctx)
      BY <3>1 DEF DeriveLiquidity
    <3>3. Get(derive_comet_liquidity(e, ctx), "venue") = "comet"
      BY DEF derive_comet_liquidity, Liquidity, Get
    <3> QED
      BY <1>4, <2>1, <3>2, <3>3, VenuesAreNamed
  <2>5. e.venue # "sushi"
    <3>1. SUFFICES ASSUME e.venue = "sushi" PROVE FALSE
      OBVIOUS
    <3>2. DeriveLiquidity(e, ctx) = derive_sushi_liquidity(e, ctx)
      BY <3>1 DEF DeriveLiquidity
    <3>3. Get(derive_sushi_liquidity(e, ctx), "venue") = "sushi_v3"
      BY DEF derive_sushi_liquidity, Pair, Liquidity, Get
    <3> QED
      BY <1>4, <2>1, <3>2, <3>3, VenuesAreNamed
  <2>6. DeriveLiquidity(e, ctx) = derive_aquarius_liquidity(e, ctx)
    BY <2>2, <2>3, <2>4, <2>5 DEF DeriveLiquidity
  <2> QED
    BY <2>1, <2>2, <2>3, <2>4, <2>5, <2>6 DEF LpVenues
<1>6. ASSUME topic = "claim_fees"
      PROVE  Derive(e, ctx) = derive_claim(e, ctx) /\ e.venue \notin LpVenues
  <2>1. Derive(e, ctx) = derive_claim(e, ctx)
    BY <1>1, <1>6 DEF Derive
  <2>2. e.venue # "sushi"
    <3>1. SUFFICES ASSUME e.venue = "sushi" PROVE FALSE
      OBVIOUS
    <3>2. Get(derive_claim(e, ctx), "venue") = "sushi_v3"
      BY <3>1 DEF derive_claim, Get
    <3> QED
      BY <1>4, <2>1, <3>2, VenuesAreNamed
  <2>3. Get(derive_claim(e, ctx), "venue") = Else(e.venue, "aquarius")
    BY <2>2 DEF derive_claim, Get
  <2>4. "aquarius" # None
    BY VenuesAreNamed
  <2>5. e.venue \in {None, "aquarius"}
    BY <1>4, <2>1, <2>3, <2>4 DEF Else
  <2> QED
    BY <2>1, <2>5, VenuesAreNamed DEF LpVenues
<1>7. ASSUME topic = "claim_protocol_fee" PROVE Derive(e, ctx) = derive_protocol_claim(e, ctx)
  BY <1>1, <1>7 DEF Derive
<1> QED
  BY <1>3, <1>5, <1>6, <1>7 DEF event

(* What Those gives of two: nothing, one of them, or both in order.         *)
LEMMA ThoseAre ==
  ASSUME NEW a, NEW b, NEW list,
         list = (<<>>) \/ list = <<a>> \/ list = <<b>> \/ list = <<a, b>>
  PROVE  list # <<>> => 1 \in DOMAIN list /\ list[1] \in {a, b}
OBVIOUS

(* What is recorded of an event.                                            *)
LEMMA RecordsAre ==
  ASSUME NEW event, canonical_event(event) # None
  PROVE  LET d == event.derived
             kind == copy_kind_from_event(event.kind, TRUE)
             quote == IF "total" \in DOMAIN d THEN d.total ELSE Get(d, "fee")
             record == canonical_event(event)
         IN /\ record.kind = kind /\ record.leader = event.actor
            /\ record.amounts = PayloadAmounts(event.kind, d) /\ record.amounts # <<>>
            /\ quote # None /\ record.quote = quote \div 2 /\ record.quote > 0
            /\ kind = "claim" => record.claim_token = claim_token(event.kind, d)
                                 /\ record.claim_token # None
<1> DEFINE d == event.derived
           kind == copy_kind_from_event(event.kind, TRUE)
           amounts == PayloadAmounts(event.kind, d)
           quote == IF "total" \in DOMAIN d THEN d.total ELSE Get(d, "fee")
           token == claim_token(event.kind, d)
           record == [kind |-> kind, amounts |-> amounts, quote |-> quote \div 2,
                      claim_token |-> IF kind = "claim" THEN token ELSE None, leader |-> event.actor]
<1>1. canonical_event(event) =
        IF \/ kind = None \/ amounts = <<>> \/ \E i \in DOMAIN amounts : RawAmount(amounts[i]) = None
           \/ kind = "claim" /\ token = None
           \/ quote = None
        THEN None ELSE Keep(record, quote \div 2 > 0)
  BY DEF canonical_event
<1> HIDE DEF kind, amounts, quote, token
<1>2. /\ amounts # <<>> /\ quote # None
      /\ kind = "claim" => token # None
      /\ canonical_event(event) = Keep(record, quote \div 2 > 0)
  BY <1>1
<1>3. canonical_event(event) = record /\ quote \div 2 > 0
  BY <1>2 DEF Keep
<1>4. /\ record.kind = kind /\ record.leader = event.actor /\ record.amounts = amounts
      /\ record.quote = quote \div 2
      /\ kind = "claim" => record.claim_token = token
  OBVIOUS
<1> HIDE DEF record
<1> QED
  BY <1>2, <1>3, <1>4 DEF d, kind, amounts, quote, token

(* A deposit that is queued: its draft scales the amounts it records.       *)
LEMMA DepositIsBound ==
  ASSUME NEW e, NEW ctx, IsContext(ctx), Stored(e), NEW s, IsSession(s),
         e.topics[1] = "deposit_liquidity",
         NEW event, event = parse_pool_event(e, ctx), event.topics = e.topics, event.kind = e.topics[1],
         event.derived = derive_aquarius_liquidity(e, ctx),
         NEW draft, draft = build_scaled_op_payload(event, s.coefficient, s.include_claims), draft # None,
         NEW record, record = canonical_event(event), record # None
  PROVE  /\ draft.kind = "deposit" /\ record.kind = "deposit"
         /\ Get(event.derived, "total") \in Int
         /\ "total" \in DOMAIN event.derived
         /\ coefficient_ppm(s.coefficient) \in 1 .. MaxPpm
         /\ coefficient_ppm(s.coefficient) = (s.coefficient + 1) \div 2 /\ s.coefficient > 0
         /\ DOMAIN draft.scaled = DOMAIN record.amounts
         /\ \A i \in DOMAIN record.amounts :
              /\ ContractScale(record.amounts[i], coefficient_ppm(s.coefficient)) <= MaxAmount
              /\ draft.scaled[i].amount = ContractScale(record.amounts[i], coefficient_ppm(s.coefficient))
<1> DEFINE d == event.derived
           legs == PoolLegs(ctx, Get(e.data, "1"), Get(e.data, "2"))
           Paid(l) == Some(l.token) /\ Some(l.amount)
           list == Those(legs[1], legs[2], Paid)
           quote == TwoQuotes(ctx, legs)
           total == IF Some(quote) THEN Keep(quote, quote > 0) ELSE None
           c == s.coefficient
           p == coefficient_ppm(c)
<1>1. d = Liquidity("aquarius", None, Get(e.data, "0"), list, total)
  BY DEF derive_aquarius_liquidity
<1>2. d.token_amounts = list /\ d.total = total /\ "total" \in DOMAIN d /\ Get(d, "total") = total
  BY <1>1 DEF Liquidity, Get
<1>3. legs[1].amount \in Int \cup {None} /\ legs[2].amount \in Int \cup {None}
  BY DEF PoolLegs, Leg, Stored, Amounts
<1>4. list = (<<>>) \/ list = <<legs[1]>> \/ list = <<legs[2]>> \/ list = <<legs[1], legs[2]>>
  BY Joined DEF Those
<1> HIDE DEF legs, list
<1>5. quote \in Int \cup {None}
  BY <1>3, QuotesAreNumbers
<1> HIDE DEF d, quote
<1>6. total \in Int \cup {None}
  BY <1>5 DEF Keep
<1>7. /\ record.amounts = PayloadAmounts("deposit_liquidity", d) /\ record.amounts # <<>>
      /\ total # None /\ record.kind = copy_kind_from_event("deposit_liquidity", TRUE)
  BY <1>2, RecordsAre DEF d
<1> HIDE DEF total
<1>8. record.amounts = [i \in DOMAIN list |-> list[i].amount]
  BY <1>2, <1>7 DEF PayloadAmounts
<1>9. /\ draft.kind = copy_kind_from_event("deposit_liquidity", s.include_claims)
      /\ LET amounts == leader_amounts_for_kind("deposit_liquidity", d) IN
         /\ amounts # None /\ DOMAIN draft.scaled = DOMAIN amounts
         /\ \A i \in DOMAIN amounts :
              /\ draft.scaled[i].amount = scale_amount_str(amounts[i].amount, c)
              /\ draft.scaled[i].amount # None
  BY DraftsAreScaled DEF d
<1>10. leader_amounts_for_kind("deposit_liquidity", d) = NonEmpty(list)
  BY <1>2 DEF leader_amounts_for_kind
<1>11. list # <<>> /\ NonEmpty(list) = list
  BY <1>9, <1>10 DEF NonEmpty
<1>12. \A i \in DOMAIN list : /\ draft.scaled[i].amount = scale_amount_str(list[i].amount, c)
                              /\ draft.scaled[i].amount # None
  BY <1>9, <1>10, <1>11
<1>13. c \in Int
  BY DEF IsSession
<1>14. \A i \in DOMAIN list :
         /\ draft.scaled[i].amount = ContractScale(list[i].amount, p)
         /\ ContractScale(list[i].amount, p) <= MaxAmount
         /\ p \in 1 .. MaxPpm /\ p = (c + 1) \div 2 /\ c > 0
  <2> SUFFICES ASSUME NEW i \in DOMAIN list
               PROVE  /\ draft.scaled[i].amount = ContractScale(list[i].amount, p)
                      /\ ContractScale(list[i].amount, p) <= MaxAmount
                      /\ p \in 1 .. MaxPpm /\ p = (c + 1) \div 2 /\ c > 0
    OBVIOUS
  <2> DEFINE a == list[i].amount
  <2>1. scale_amount_str(a, c) # None /\ draft.scaled[i].amount = scale_amount_str(a, c)
    BY <1>12
  <2> HIDE DEF a, p, c
  <2> QED
    BY <1>13, <2>1, ScalesLikeTheContract DEF a, p
<1>15. 1 \in DOMAIN list
  BY <1>4, <1>11
<1>16. draft.kind = "deposit" /\ record.kind = "deposit"
  BY <1>7, <1>9 DEF copy_kind_from_event
<1> HIDE DEF p
<1>17. DOMAIN record.amounts = DOMAIN list /\ \A i \in DOMAIN list : record.amounts[i] = list[i].amount
  BY <1>8
<1>18. DOMAIN draft.scaled = DOMAIN list
  BY <1>9, <1>10, <1>11
<1>19. p \in 1 .. MaxPpm /\ p = (c + 1) \div 2 /\ c > 0
  BY <1>14, <1>15
<1>20. \A i \in DOMAIN record.amounts :
         /\ ContractScale(record.amounts[i], p) <= MaxAmount
         /\ draft.scaled[i].amount = ContractScale(record.amounts[i], p)
  BY <1>14, <1>17
<1>21. Get(d, "total") \in Int
  BY <1>2, <1>6, <1>7
<1> QED
  BY <1>2, <1>16, <1>17, <1>18, <1>19, <1>20, <1>21 DEF d, p

(* A withdrawal that is queued: its draft scales the shares it records.     *)
LEMMA WithdrawalIsBound ==
  ASSUME NEW e, NEW ctx, IsContext(ctx), Stored(e), NEW s, IsSession(s),
         e.topics[1] = "withdraw_liquidity",
         NEW event, event.topics = e.topics, event.kind = e.topics[1],
         event.derived = derive_aquarius_liquidity(e, ctx),
         NEW draft, draft = build_scaled_op_payload(event, s.coefficient, s.include_claims), draft # None,
         NEW record, record = canonical_event(event), record # None
  PROVE  /\ draft.kind = "withdraw" /\ record.kind = "withdraw"
         /\ Get(event.derived, "total") \in Int
         /\ "total" \in DOMAIN event.derived
         /\ coefficient_ppm(s.coefficient) \in 1 .. MaxPpm
         /\ coefficient_ppm(s.coefficient) = (s.coefficient + 1) \div 2 /\ s.coefficient > 0
         /\ draft.scaled[1].amount = ContractScale(record.amounts[1], coefficient_ppm(s.coefficient))
         /\ draft.scaled[1].token = "lp_shares" /\ Len(record.amounts) = 1
<1> DEFINE d == event.derived
           legs == PoolLegs(ctx, Get(e.data, "1"), Get(e.data, "2"))
           Paid(l) == Some(l.token) /\ Some(l.amount)
           list == Those(legs[1], legs[2], Paid)
           quote == TwoQuotes(ctx, legs)
           total == IF Some(quote) THEN Keep(quote, quote > 0) ELSE None
           share == Get(e.data, "0")
           c == s.coefficient
           p == coefficient_ppm(c)
<1>1. d = Liquidity("aquarius", None, share, list, total)
  BY DEF derive_aquarius_liquidity
<1>2. /\ d.share_amount = share /\ d.total = total /\ "total" \in DOMAIN d /\ Get(d, "total") = total
  BY <1>1 DEF Liquidity, Get
<1>3. legs[1].amount \in Int \cup {None} /\ legs[2].amount \in Int \cup {None}
  BY DEF PoolLegs, Leg, Stored, Amounts
<1> HIDE DEF legs, list, share
<1>4. quote \in Int \cup {None}
  BY <1>3, QuotesAreNumbers
<1> HIDE DEF d, quote
<1>5. total \in Int \cup {None}
  BY <1>4 DEF Keep
<1>6. /\ record.amounts = PayloadAmounts("withdraw_liquidity", d) /\ record.amounts # <<>>
      /\ total # None /\ record.kind = copy_kind_from_event("withdraw_liquidity", TRUE)
  BY <1>2, RecordsAre DEF d
<1> HIDE DEF total
<1>7. record.amounts = <<share>>
  BY <1>2, <1>6 DEF PayloadAmounts
<1>8. /\ draft.kind = copy_kind_from_event("withdraw_liquidity", s.include_claims)
      /\ LET amounts == leader_amounts_for_kind("withdraw_liquidity", d) IN
         /\ amounts # None
         /\ \A i \in DOMAIN amounts :
              /\ draft.scaled[i].token = amounts[i].token
              /\ draft.scaled[i].amount = scale_amount_str(amounts[i].amount, c)
              /\ draft.scaled[i].amount # None
  BY DraftsAreScaled DEF d
<1>9. leader_amounts_for_kind("withdraw_liquidity", d) = <<Leg("lp_shares", share)>>
  BY <1>2, <1>8 DEF leader_amounts_for_kind
<1>10. /\ draft.scaled[1].amount = scale_amount_str(share, c) /\ scale_amount_str(share, c) # None
       /\ draft.scaled[1].token = "lp_shares"
  BY <1>8, <1>9 DEF Leg
<1>11. c \in Int
  BY DEF IsSession
<1>12. /\ draft.scaled[1].amount = ContractScale(share, p)
       /\ p \in 1 .. MaxPpm /\ p = (c + 1) \div 2 /\ c > 0
  <2> HIDE DEF p, c
  <2> QED
    BY <1>10, <1>11, ScalesLikeTheContract DEF p
<1>13. draft.kind = "withdraw" /\ record.kind = "withdraw"
  BY <1>6, <1>8 DEF copy_kind_from_event
<1> HIDE DEF p
<1>14. record.amounts[1] = share /\ Len(record.amounts) = 1
  BY <1>7
<1>15. Get(d, "total") \in Int
  BY <1>2, <1>5, <1>6
<1> QED
  BY <1>2, <1>10, <1>12, <1>13, <1>14, <1>15 DEF d, p

(* A claim that is queued: it is wanted and names the token that was paid.  *)
LEMMA ClaimIsBound ==
  ASSUME NEW e, NEW ctx, IsContext(ctx), Stored(e), NEW s, IsSession(s),
         e.topics[1] \in {"claim_fees", "claim_protocol_fee"},
         NEW event, event.topics = e.topics, event.kind = e.topics[1],
         e.topics[1] = "claim_fees" => event.derived = derive_claim(e, ctx) /\ e.venue \notin LpVenues,
         e.topics[1] = "claim_protocol_fee" => event.derived = derive_protocol_claim(e, ctx),
         NEW draft, draft = build_scaled_op_payload(event, s.coefficient, s.include_claims), draft # None,
         NEW record, record = canonical_event(event), record # None
  PROVE  /\ draft.kind = "claim" /\ record.kind = "claim" /\ s.include_claims
         /\ Get(event.derived, "fee") \in Int
         /\ "total" \notin DOMAIN event.derived
         /\ coefficient_ppm(s.coefficient) \in 1 .. MaxPpm
         /\ coefficient_ppm(s.coefficient) = (s.coefficient + 1) \div 2 /\ s.coefficient > 0
         /\ record.claim_token \in Tokens
<1> DEFINE d == event.derived
           topic == e.topics[1]
           c == s.coefficient
           p == coefficient_ppm(c)
           fields == <<Leg(Address(Nth(e.topics, 3)), Get(e.data, "0")),
                       Leg(Address(Nth(e.topics, 4)), Get(e.data, "1"))>>
           leg == Leg(Address(Nth(e.topics, 2)), Get(e.data, "0"))
<1>1. /\ Get(e.data, "0") \in Int \cup {None} /\ Get(e.data, "1") \in Int \cup {None}
  BY DEF Stored, Amounts
<1>2. Get(d, "fee") \in Int \cup {None} /\ "total" \notin DOMAIN d
  <2>1. CASE topic = "claim_fees"
    <3>1. e.venue # "sushi"
      BY <2>1 DEF LpVenues
    <3>2. "total" \notin DOMAIN d /\ Get(d, "fee") = TwoQuotes(ctx, fields)
      BY <2>1, <3>1 DEF derive_claim, Get
    <3>3. fields[1].amount \in Int \cup {None} /\ fields[2].amount \in Int \cup {None}
      BY <1>1 DEF Leg
    <3> HIDE DEF fields, d
    <3> QED
      BY <3>2, <3>3, QuotesAreNumbers
  <2>2. CASE topic = "claim_protocol_fee"
    <3>1. "total" \notin DOMAIN d /\ Get(d, "fee") = Quote(ctx, leg.token, leg.amount)
      BY <2>2 DEF derive_protocol_claim, Get
    <3> DEFINE twice == <<leg, leg>>
    <3>2. twice[1] = leg /\ twice[2] = leg /\ leg.amount \in Int \cup {None}
      BY <1>1 DEF Leg
    <3> HIDE DEF leg, d, twice
    <3> QED
      BY <3>1, <3>2, QuotesAreNumbers
  <2> QED
    BY <2>1, <2>2
<1> HIDE DEF d
<1>3. /\ record.kind = copy_kind_from_event(topic, TRUE)
      /\ Get(d, "fee") # None
      /\ copy_kind_from_event(topic, TRUE) = "claim" =>
           record.claim_token = claim_token(topic, d) /\ record.claim_token # None
  BY <1>2, RecordsAre DEF d
<1>4. copy_kind_from_event(topic, TRUE) = "claim"
  <2>1. topic \in {"claim_fees", "claim_protocol_fee"}
    OBVIOUS
  <2> HIDE DEF topic
  <2> QED
    BY <2>1 DEF copy_kind_from_event
<1>5. /\ draft.kind = copy_kind_from_event(topic, s.include_claims) /\ draft.kind # None
      /\ LET amounts == leader_amounts_for_kind(topic, d) IN
         /\ amounts # None
         /\ \A i \in DOMAIN amounts :
              /\ draft.scaled[i].amount = scale_amount_str(amounts[i].amount, c)
              /\ draft.scaled[i].amount # None
  BY DraftsAreScaled DEF d
<1>6. s.include_claims /\ draft.kind = "claim"
  <2>1. s.include_claims \in BOOLEAN
    BY DEF IsSession
  <2>2. ~s.include_claims => copy_kind_from_event(topic, s.include_claims) = None
    <3>1. topic \in {"claim_fees", "claim_protocol_fee"}
      OBVIOUS
    <3> HIDE DEF topic
    <3> QED
      BY <3>1 DEF copy_kind_from_event
  <2>3. s.include_claims = TRUE
    BY <1>5, <2>1, <2>2
  <2> QED
    BY <1>4, <1>5, <2>3
<1>7. 1 \in DOMAIN leader_amounts_for_kind(topic, d)
  <2>1. CASE topic = "claim_fees"
    <3> DEFINE a == Leg(Get(d, "token0"), Get(d, "amount0"))
               b == Leg(Get(d, "token1"), Get(d, "amount1"))
               legs == ClaimLegs(d)
    <3>1. legs = (<<>>) \/ legs = <<a>> \/ legs = <<b>> \/ legs = <<a, b>>
      BY Joined DEF ClaimLegs, Those
    <3>2. leader_amounts_for_kind(topic, d) = NonEmpty(legs)
      BY <2>1 DEF leader_amounts_for_kind
    <3> HIDE DEF legs, a, b
    <3>3. legs # <<>> /\ NonEmpty(legs) = legs
      BY <1>5, <3>2 DEF NonEmpty
    <3> QED
      BY <3>1, <3>2, <3>3, ThoseAre
  <2>2. CASE topic = "claim_protocol_fee"
    <3>1. leader_amounts_for_kind(topic, d) =
            IF Some(d.token) /\ Some(d.amount) THEN <<Leg(d.token, d.amount)>> ELSE None
      BY <2>2 DEF leader_amounts_for_kind
    <3> QED
      BY <1>5, <3>1
  <2> QED
    BY <2>1, <2>2
<1>8. c \in Int
  BY DEF IsSession
<1>10. record.claim_token \in Tokens
  <2>1. record.claim_token = claim_token(topic, d) /\ record.claim_token # None
    BY <1>3, <1>4
  <2>2. CASE topic = "claim_fees"
    <3> DEFINE a == Leg(Get(d, "token0"), RawAmount(Get(d, "amount0")))
               b == Leg(Get(d, "token1"), RawAmount(Get(d, "amount1")))
               Paid(l) == Some(l.amount) /\ l.amount > 0
               paid == Those(a, b, Paid)
    <3>1. Nth(e.topics, 3) \in Tokens /\ Nth(e.topics, 4) \in Tokens
      BY <2>2 DEF Stored, Rewards
    <3>2. Get(d, "token0") \in Tokens /\ Get(d, "token1") \in Tokens
      <4>1. e.venue # "sushi"
        BY <2>2 DEF LpVenues
      <4>2. Get(d, "token0") = Nth(e.topics, 3) /\ Get(d, "token1") = Nth(e.topics, 4)
        BY <2>2, <3>1, <4>1 DEF derive_claim, Get, Leg, Address, d
      <4> QED
        BY <3>1, <4>2
    <3>3. a.token \in Tokens /\ b.token \in Tokens
      BY <3>2 DEF Leg
    <3>4. claim_token(topic, d) # None => paid # <<>> /\ claim_token(topic, d) = paid[1].token
      BY <2>2 DEF claim_token
    <3>5. paid = (<<>>) \/ paid = <<a>> \/ paid = <<b>> \/ paid = <<a, b>>
      BY Joined DEF Those
    <3> HIDE DEF paid, a, b
    <3> QED
      BY <2>1, <3>3, <3>4, <3>5, ThoseAre
  <2>3. CASE topic = "claim_protocol_fee"
    <3>1. Nth(e.topics, 2) \in Tokens
      BY <2>3 DEF Stored, Rewards
    <3>2. claim_token(topic, d) = Nth(e.topics, 2)
      BY <2>3, <3>1 DEF claim_token, derive_protocol_claim, Address, Leg, d
    <3> QED
      BY <2>1, <3>1, <3>2
  <2> QED
    BY <2>2, <2>3
<1>9. p \in 1 .. MaxPpm /\ p = (c + 1) \div 2 /\ c > 0
  <2> DEFINE a == leader_amounts_for_kind(topic, d)[1].amount
  <2>1. scale_amount_str(a, c) # None
    BY <1>5, <1>7
  <2> HIDE DEF a, p, c
  <2> QED
    BY <1>8, <2>1, ScalesLikeTheContract DEF p
<1> HIDE DEF p
<1> QED
  BY <1>2, <1>3, <1>4, <1>6, <1>9, <1>10 DEF d, p, c

(* A drafted operation with a record, of an Aquarius pool: what its parts   *)
(* are, whatever its kind.                                                 *)
LEMMA QueuedFacts ==
  ASSUME NEW e, NEW ctx, IsContext(ctx), Stored(e), NEW s, IsSession(s),
         NEW event, event = parse_pool_event(e, ctx),
         Else(Get(event.derived, "venue"), "aquarius") = "aquarius",
         NEW op, op.draft = build_scaled_op_payload(event, s.coefficient, s.include_claims), op.draft # None,
         op.record = canonical_event(event), op.record # None
  PROVE  /\ op.draft.kind = op.record.kind /\ op.draft.kind \in {"deposit", "withdraw", "claim"}
         /\ op.draft.kind = "claim" =>
              s.include_claims /\ Some(op.record.claim_token) /\ op.record.claim_token \in Tokens
         /\ op.draft.kind = "withdraw" =>
              Len(op.record.amounts) = 1 /\ op.draft.scaled[1].token = "lp_shares"
         /\ op.record.leader = event.actor /\ op.record.amounts # <<>> /\ op.record.quote > 0
         /\ coefficient_ppm(s.coefficient) \in 1 .. MaxPpm
         /\ coefficient_ppm(s.coefficient) = (s.coefficient + 1) \div 2
         /\ s.coefficient \in Nat
         /\ \E q \in Int : op.draft.scaled_quote = q * s.coefficient /\ op.record.quote = q \div 2
         /\ \A o : o.ppm = coefficient_ppm(s.coefficient) => BindsDraft(op, o)
<1> DEFINE d == event.derived
           topic == e.topics[1]
           c == s.coefficient
           p == coefficient_ppm(c)
           quote == leader_quote_for_kind(topic, d)
<1>1. event.topics = e.topics
  BY DEF parse_pool_event, Stored
<1>2. copy_kind_from_event(topic, s.include_claims) # None /\ s.include_claims \in BOOLEAN /\ c \in Int
  BY <1>1, DraftsAreScaled DEF IsSession
<1>3. /\ event.kind = topic
      /\ topic \in {"deposit_liquidity", "withdraw_liquidity"} =>
           d = derive_aquarius_liquidity(e, ctx) /\ e.venue \notin LpVenues
      /\ topic = "claim_fees" => d = derive_claim(e, ctx) /\ e.venue \notin LpVenues
      /\ topic = "claim_protocol_fee" => d = derive_protocol_claim(e, ctx)
      /\ topic \in {"deposit_liquidity", "withdraw_liquidity", "claim_fees", "claim_protocol_fee"}
  <2>1. topic \in {"deposit_liquidity", "withdraw_liquidity", "claim_fees", "claim_protocol_fee"}
    BY <1>2, KindsAgree
  <2> QED
    BY <1>2, <2>1, CopiedShapes
<1>4. op.draft.scaled_quote = IF Some(quote) THEN quote * c ELSE None
  BY <1>1, DraftsAreScaled
<1>5. /\ op.record.leader = event.actor /\ op.record.amounts # <<>> /\ op.record.quote > 0
      /\ op.record.quote = (IF "total" \in DOMAIN d THEN d.total ELSE Get(d, "fee")) \div 2
  BY RecordsAre
<1> DEFINE Facts == /\ op.draft.kind = op.record.kind /\ op.draft.kind \in {"deposit", "withdraw", "claim"}
                    /\ op.draft.kind = "claim" => s.include_claims /\ op.record.claim_token \in Tokens
                    /\ op.draft.kind = "withdraw" =>
                         Len(op.record.amounts) = 1 /\ op.draft.scaled[1].token = "lp_shares"
                    /\ p \in 1 .. MaxPpm /\ p = (c + 1) \div 2 /\ c > 0
                    /\ quote \in Int /\ op.record.quote = quote \div 2
                    /\ \A o : o.ppm = p => BindsDraft(op, o)
<1>6. ASSUME topic = "deposit_liquidity" PROVE Facts
  <2> HIDE DEF p
  <2>1. /\ op.draft.kind = "deposit" /\ op.record.kind = "deposit"
        /\ Get(d, "total") \in Int /\ "total" \in DOMAIN d
        /\ p \in 1 .. MaxPpm /\ p = (c + 1) \div 2 /\ c > 0
        /\ DOMAIN op.draft.scaled = DOMAIN op.record.amounts
        /\ \A i \in DOMAIN op.record.amounts :
             /\ ContractScale(op.record.amounts[i], p) <= MaxAmount
             /\ op.draft.scaled[i].amount = ContractScale(op.record.amounts[i], p)
    BY <1>1, <1>3, <1>6, DepositIsBound DEF p
  <2>2. \A o : o.ppm = p => BindsDraft(op, o)
    BY <2>1 DEF BindsDraft
  <2>3. quote = Get(d, "total") /\ d.total = Get(d, "total")
    BY <1>6, <2>1 DEF leader_quote_for_kind, Get
  <2> QED
    BY <1>5, <2>1, <2>2, <2>3
<1>7. ASSUME topic = "withdraw_liquidity" PROVE Facts
  <2> HIDE DEF p
  <2>1. /\ op.draft.kind = "withdraw" /\ op.record.kind = "withdraw"
        /\ Get(d, "total") \in Int /\ "total" \in DOMAIN d
        /\ p \in 1 .. MaxPpm /\ p = (c + 1) \div 2 /\ c > 0
        /\ op.draft.scaled[1].amount = ContractScale(op.record.amounts[1], p)
        /\ op.draft.scaled[1].token = "lp_shares" /\ Len(op.record.amounts) = 1
    BY <1>1, <1>3, <1>7, WithdrawalIsBound DEF p
  <2>2. \A o : o.ppm = p => BindsDraft(op, o)
    BY <2>1 DEF BindsDraft
  <2>3. quote = Get(d, "total") /\ d.total = Get(d, "total")
    BY <1>7, <2>1 DEF leader_quote_for_kind, Get
  <2> QED
    BY <1>5, <2>1, <2>2, <2>3
<1>8. ASSUME topic \in {"claim_fees", "claim_protocol_fee"} PROVE Facts
  <2> HIDE DEF p
  <2>1. /\ op.draft.kind = "claim" /\ op.record.kind = "claim" /\ s.include_claims
        /\ Get(d, "fee") \in Int /\ "total" \notin DOMAIN d
        /\ p \in 1 .. MaxPpm /\ p = (c + 1) \div 2 /\ c > 0
        /\ op.record.claim_token \in Tokens
    BY <1>1, <1>3, <1>8, ClaimIsBound DEF p
  <2>2. \A o : o.ppm = p => BindsDraft(op, o)
    BY <2>1 DEF BindsDraft
  <2>3. quote = Get(d, "fee")
    BY <1>8 DEF leader_quote_for_kind
  <2> QED
    BY <1>5, <2>1, <2>2, <2>3
<1>9. Facts
  BY <1>3, <1>6, <1>7, <1>8
<1> HIDE DEF p, quote
<1>10. op.draft.scaled_quote = quote * c
  BY <1>4, <1>9, VenueAssumption DEF Some
<1>11. /\ \E q \in Int : op.draft.scaled_quote = q * c /\ op.record.quote = q \div 2
       /\ None \notin Tokens
  BY <1>9, <1>10, VenueAssumption
<1>12. c \in Nat
  BY <1>2, <1>9
<1> HIDE DEF c
<1> QED
  BY <1>2, <1>5, <1>9, <1>11, <1>12 DEF Some, p, c

(* What passes the limits of the API today passes those of the contract     *)
(* today, and everything else the script and the contract ask, or one of   *)
(* the named reasons is met; `checked` is the row the limits are read from. *)
LEMMA AdmittedExecutes ==
  ASSUME NEW e, NEW ctx, IsContext(ctx), Stored(e), NEW row, IsSession(row), NEW s, IsSession(s),
         Patched(row, s), NEW o, IsBound(o), NEW pool,
         NEW now \in Nat, NEW used \in Nat, NEW event, event = parse_pool_event(e, ctx),
         Else(Get(event.derived, "venue"), "aquarius") = "aquarius",
         NEW op, op.draft = build_scaled_op_payload(event, row.coefficient, row.include_claims),
         op.draft # None, op.record = canonical_event(event), op.record # None,
         NEW venue, NEW checked \in {row, s},
         validate_copy_op(checked, venue, op.draft.kind, pool, op.draft.scaled_quote, now, used) = "ok",
         validate_policy_binding(s, o), event.actor = s.leader
  PROVE  Recordable(op.record) /\ AcceptedOrNamed(op, row, s, o, pool, now, used)
<1> DEFINE c == row.coefficient
           p == coefficient_ppm(c)
           quote == RelayerQuote(op, s)
<1>1. /\ op.draft.kind = op.record.kind /\ op.draft.kind \in {"deposit", "withdraw", "claim"}
      /\ op.draft.kind = "claim" => Some(op.record.claim_token) /\ op.record.claim_token \in Tokens
      /\ op.draft.kind = "withdraw" =>
           Len(op.record.amounts) = 1 /\ op.draft.scaled[1].token = "lp_shares"
      /\ op.record.leader = event.actor /\ op.record.amounts # <<>> /\ op.record.quote > 0
      /\ p \in 1 .. MaxPpm /\ p = (c + 1) \div 2 /\ c \in Nat
      /\ \A bound : bound.ppm = p => BindsDraft(op, bound)
  BY QueuedFacts
<1>2. PICK q \in Int : op.draft.scaled_quote = q * c /\ op.record.quote = q \div 2
  BY QueuedFacts
<1>3. p # None
  BY <1>1, VenueAssumption, AdmissionAssumption
<1>4. /\ o.leader = s.leader /\ o.ppm = OrZero(coefficient_ppm(s.coefficient))
      /\ o.follow_claims = s.include_claims
      /\ s.pools # {} /\ o.pools = s.pools
      /\ o.max_per_op = OrZero(xlm_to_stroops(s.max_per_op))
      /\ o.max_daily = OrZero(xlm_to_stroops(s.max_daily))
      /\ o.expires_at = s.expires_at /\ ~o.paused
  BY DEF validate_policy_binding
<1>5. /\ checked.pools = s.pools /\ checked.expires_at = s.expires_at
      /\ checked.max_per_op = s.max_per_op /\ checked.max_daily = s.max_daily
  BY DEF Patched
<1> SUFFICES ASSUME ~PatchedSince(op, row, s)
             PROVE  /\ Recordable(op.record)
                    /\ \/ RelayerAccepts(op, s) /\ Executes(op, s, o, pool, now)
                       \/ MayBeRefused(op, row, s, o, used)
                    /\ 4 * Scale * quote <= op.draft.scaled_quote + 2 * op.record.quote
  BY <1>1 DEF AcceptedOrNamed, MayBeRefused, Recordable
<1>6. coefficient_ppm(s.coefficient) = p /\ op.draft.kind = "claim" => s.include_claims
  BY DEF PatchedSince
<1>7. coefficient_ppm(s.coefficient) = p
  BY DEF PatchedSince
<1> HIDE DEF p
<1>8. o.ppm = p
  BY <1>3, <1>4, <1>7 DEF OrZero
<1>9. quote = ContractScale(op.record.quote, p)
  BY <1>7 DEF RelayerQuote, ContractScale
<1>10. quote \in Nat /\ 4 * Scale * quote <= op.draft.scaled_quote + 2 * op.record.quote
  BY <1>1, <1>2, <1>9, QuoteBound
<1>11. /\ ~(Some(s.expires_at) /\ now >= s.expires_at)
       /\ s.pools # {} => pool \in s.pools
       /\ s.max_per_op > 0 => ~(q * c > Limit(s.max_per_op))
       /\ s.max_daily > 0 => ~(used + q * c > Limit(s.max_daily))
  <2> DEFINE amount == IF Some(op.draft.scaled_quote) THEN op.draft.scaled_quote ELSE 0
  <2>1. q * c \in Int
    BY <1>1, <1>2
  <2>2. amount = q * c
    BY <1>2, <2>1, VenueAssumption DEF Some
  <2> HIDE DEF amount
  <2>3. /\ ~(Some(checked.expires_at) /\ now >= checked.expires_at)
        /\ checked.pools # {} => pool \in checked.pools
        /\ checked.max_per_op > 0 => ~(amount > Limit(checked.max_per_op))
        /\ checked.max_daily > 0 => ~(used + amount > Limit(checked.max_daily))
    BY Validated DEF amount
  <2> QED
    BY <1>5, <2>2, <2>3
<1>12. now < o.expires_at
  <2>1. o.expires_at \in Nat
    BY DEF IsBound
  <2>2. o.expires_at # None
    BY <2>1, VenueAssumption
  <2> QED
    BY <1>4, <1>11, <2>1, <2>2 DEF Some
<1>13. pool \in o.pools
  BY <1>4, <1>11
<1>14. /\ s.max_per_op \in Nat /\ s.max_per_op > 0 /\ o.max_per_op = (s.max_per_op + 1) \div 2
       /\ s.max_daily \in Nat /\ s.max_daily > 0 /\ o.max_daily = (s.max_daily + 1) \div 2
  <2>1. \A max \in Nat : OrZero(xlm_to_stroops(max)) = IF max > 0 THEN (max + 1) \div 2 ELSE 0
    <3> SUFFICES ASSUME NEW max \in Nat
                 PROVE  OrZero(xlm_to_stroops(max)) = IF max > 0 THEN (max + 1) \div 2 ELSE 0
      OBVIOUS
    <3>1. (max + 1) \div 2 \in Int
      OBVIOUS
    <3>2. (max + 1) \div 2 # None
      BY <3>1, VenueAssumption
    <3> QED
      BY <3>2 DEF OrZero, xlm_to_stroops
  <2>2. s.max_per_op \in Nat /\ s.max_daily \in Nat /\ o.max_per_op # 0 /\ o.max_daily # 0
    BY DEF IsSession, IsBound
  <2> QED
    BY <1>4, <2>1, <2>2
<1>15. Limit(s.max_per_op) \in Int /\ Limit(s.max_daily) \in Int /\ q * c \in Int
  <2>1. Scale \in Nat
    BY AdmissionAssumption
  <2>2. s.max_per_op * 2 * Scale \in Int /\ s.max_daily * 2 * Scale \in Int
    BY <1>14, <2>1
  <2> QED
    BY <1>1, <2>2 DEF Limit
<1>16. ASSUME c % 2 # 1 PROVE quote <= o.max_per_op
  <2>1. 0 + q * c <= Limit(s.max_per_op)
    BY <1>11, <1>14, <1>15
  <2>2. 0 * 4 * Scale <= 0
    BY AdmissionAssumption
  <2>3. 0 + ContractScale(q \div 2, c \div 2) <= (s.max_per_op + 1) \div 2
    BY <1>1, <1>2, <1>14, <1>16, <2>1, <2>2, LimitsAgree
  <2>4. p = c \div 2
    BY <1>1, <1>16
  <2>5. ContractScale(q \div 2, c \div 2) = quote
    BY <1>2, <1>9, <2>4
  <2> HIDE DEF quote
  <2> QED
    BY <1>10, <1>14, <2>3, <2>5
<1>17. ASSUME c % 2 # 1, o.used * 4 * Scale <= used PROVE o.used + quote <= o.max_daily
  <2>1. used + q * c <= Limit(s.max_daily)
    BY <1>11, <1>14, <1>15
  <2>2. o.used \in Nat
    BY DEF IsBound
  <2>3. o.used + ContractScale(q \div 2, c \div 2) <= (s.max_daily + 1) \div 2
    BY <1>1, <1>2, <1>14, <1>17, <2>1, <2>2, LimitsAgree
  <2>4. p = c \div 2
    BY <1>1, <1>17
  <2> QED
    BY <1>2, <1>9, <1>14, <2>3, <2>4
<1>18. o.used \in Nat /\ o.used * 4 * Scale \in Int /\ o.max_per_op \in Nat /\ o.max_daily \in Nat
  <2>1. Scale \in Nat
    BY AdmissionAssumption
  <2> QED
    BY <2>1 DEF IsBound
<1>19. BindsDraft(op, o)
  BY <1>1, <1>8 DEF p
<1>20. /\ op.record.leader = o.leader /\ quote = ContractScale(op.record.quote, o.ppm)
       /\ op.draft.kind = "claim" => o.follow_claims
  BY <1>1, <1>4, <1>6, <1>8, <1>9 DEF PatchedSince
<1> HIDE DEF quote
<1>21. ASSUME quote # 0, quote <= o.max_per_op, o.used + quote <= o.max_daily
       PROVE  RelayerAccepts(op, s) /\ Executes(op, s, o, pool, now)
  <2>1. quote > 0
    BY <1>10, <1>21
  <2>2. RelayerAccepts(op, s)
    BY <1>1, <2>1 DEF RelayerAccepts, quote
  <2>3. Executes(op, s, o, pool, now)
    BY <1>1, <1>4, <1>12, <1>13, <1>19, <1>20, <1>21, <2>1 DEF Executes, quote
  <2> QED
    BY <2>2, <2>3
<1>22. ASSUME ~MayBeRefused(op, row, s, o, used)
       PROVE  quote # 0 /\ quote <= o.max_per_op /\ o.used + quote <= o.max_daily
  <2>1. /\ quote # 0
        /\ ~(c % 2 = 1 /\ (quote > o.max_per_op \/ o.used + quote > o.max_daily))
        /\ ~(o.used * 4 * Scale > used /\ o.used + quote > o.max_daily)
    BY <1>22 DEF MayBeRefused, Dust, RoundedUp, DayDiffers, PastDay, quote
  <2>2. CASE c % 2 = 1
    BY <1>10, <1>18, <2>1, <2>2
  <2>3. CASE c % 2 # 1
    BY <1>10, <1>16, <1>17, <1>18, <2>1, <2>3
  <2> QED
    BY <2>1, <2>2, <2>3
<1>23. Recordable(op.record)
  BY <1>1 DEF Recordable
<1> QED
  BY <1>10, <1>21, <1>22, <1>23 DEF quote

(* What is queued passed every limit.                                       *)
LEMMA QueuedVerdict ==
  ASSUME NEW event, NEW pool, NEW s, NEW now, NEW used,
         Admit(event, pool, s, now, used) # None, Admit(event, pool, s, now, used).status = "pending"
  PROVE  LET op == Admit(event, pool, s, now, used) IN
         validate_copy_op(s, Else(Get(event.derived, "venue"), "aquarius"), op.draft.kind, pool,
                          op.draft.scaled_quote, now, used) = "ok"
<1> DEFINE draft == build_scaled_op_payload(event, s.coefficient, s.include_claims)
           venue == Else(Get(event.derived, "venue"), "aquarius")
           verdict == validate_copy_op(s, venue, draft.kind, pool, draft.scaled_quote, now, used)
           status == copy_op_status(verdict, Some(canonical_event(event)))
<1>1. Admit(event, pool, s, now, used) = [draft |-> draft, record |-> canonical_event(event), status |-> status]
  BY DEF Admit
<1> HIDE DEF status
<1>2. Admit(event, pool, s, now, used).draft = draft /\ status = "pending"
  BY <1>1
<1>3. verdict = "ok"
  BY <1>2 DEF copy_op_status, status
<1> QED
  BY <1>2, <1>3

(* An operation the API queues is recorded and executed: the record is one  *)
(* the contract takes, and its limits, pools, expiry and quote let it      *)
(* through, unless its quote is dust, its coefficient was rounded up past  *)
(* a limit, the contract's day is fuller or the row was patched            *)
(* (PendingIsExecutable).                                                  *)
THEOREM QueuedExecutes ==
  ASSUME NEW e, NEW ctx, IsContext(ctx), Stored(e), NEW row, IsSession(row), NEW s, IsSession(s),
         Patched(row, s), NEW o, IsBound(o), NEW pool, NEW now \in Nat, NEW used \in Nat
  PROVE  PendingIsExecutable(parse_pool_event(e, ctx), pool, row, s, o, now, used)
<1> DEFINE event == parse_pool_event(e, ctx)
           op == Admit(event, pool, row, now, used)
           venue == Else(Get(event.derived, "venue"), "aquarius")
<1> SUFFICES ASSUME op # None, op.status = "pending", validate_policy_binding(s, o),
                    event.actor = s.leader
             PROVE  Recordable(op.record) /\ AcceptedOrNamed(op, row, s, o, pool, now, used)
  BY DEF PendingIsExecutable
<1>1. /\ op.draft = build_scaled_op_payload(event, row.coefficient, row.include_claims)
      /\ op.record = canonical_event(event) /\ op.draft # None /\ op.record # None
      /\ venue = "aquarius"
  <2> HIDE DEF event
  <2> QED
    BY QueuedIsRecorded
<1>2. validate_copy_op(row, venue, op.draft.kind, pool, op.draft.scaled_quote, now, used) = "ok"
  BY QueuedVerdict
<1> HIDE DEF op, venue
<1> QED
  BY <1>1, <1>2, AdmittedExecutes DEF venue

(* An operation the API prepares, whenever and from whatever row it was     *)
(* drafted, is one the contract executes today, unless one of the same     *)
(* reasons is met (PreparedIsExecutable).                                  *)
THEOREM PreparedExecutes ==
  ASSUME NEW e, NEW ctx, IsContext(ctx), Stored(e), NEW row, IsSession(row), NEW s, IsSession(s),
         Patched(row, s), NEW o, IsBound(o), NEW pool, NEW now \in Nat, NEW used \in Nat
  PROVE  PreparedIsExecutable(parse_pool_event(e, ctx), pool, row, s, o, now, used)
<1> DEFINE event == parse_pool_event(e, ctx)
           op == Admit(event, pool, row, 0, 0)
           venue == Else(Get(event.derived, "venue"), "aquarius")
<1> SUFFICES ASSUME op # None,
                    prepare_copy_op(op, s, o, TRUE, pool, event.derived.venue, now, used) = "prepared",
                    event.actor = s.leader
             PROVE  AcceptedOrNamed(op, row, s, o, pool, now, used)
  BY DEF PreparedIsExecutable
<1>1. /\ op.status = "pending" /\ validate_policy_binding(s, o)
      /\ validate_copy_op(s, "aquarius", op.draft.kind, pool, op.draft.scaled_quote, now, used) = "ok"
  <2> HIDE DEF op, event
  <2> QED
    BY DEF prepare_copy_op
<1>2. /\ op.draft = build_scaled_op_payload(event, row.coefficient, row.include_claims)
      /\ op.record = canonical_event(event) /\ op.draft # None /\ op.record # None
      /\ venue = "aquarius"
  <2> HIDE DEF event
  <2> QED
    BY <1>1, QueuedIsRecorded
<1> HIDE DEF op, venue
<1> QED
  BY <1>1, <1>2, AdmittedExecutes DEF venue

-----------------------------------------------------------------------------
(* What is recorded *)

(* A change of liquidity elsewhere is stored, under names of its own.       *)
LEMMA ForeignChange ==
  ASSUME NEW l \in AllChanges, NEW tx \in Lookups, l.venue # "aquarius"
  PROVE  LET e == LiquidityEvent(l, tx) IN
         Stored(e) /\ e.venue \in LpVenues /\ e.topics[1] # "claim_protocol_fee"
<1> DEFINE e == LiquidityEvent(l, tx)
<1>1. l.venue \in {"soroswap", "phoenix", "comet", "sushi"}
  BY DEF AllChanges, VenueNames, LpVenues
<1>2. CASE l.venue = "soroswap"
  <2> DEFINE name == IF Deposits(l) THEN "deposit" ELSE "withdraw"
             body == [liquidity |-> l.share, amount_0 |-> l.amounts[1], amount_1 |-> l.amounts[2], to |-> l.user]
  <2>1. e = EventOf("soroswap", <<"SoroswapPair", name>>, body, tx)
    BY <1>2 DEF LiquidityEvent
  <2>2. /\ e.venue = "soroswap" /\ e.topics[1] = "SoroswapPair" /\ Nth(e.topics, 2) = name
        /\ Get(e.data, "0") = None /\ Get(e.data, "1") = None /\ Get(e.data, "2") = None
        /\ name \in {"deposit", "withdraw"}
    BY <2>1 DEF EventOf, Nth, Get
  <2> HIDE DEF e, name
  <2>3. KindName(e) = name
    BY <2>2 DEF KindName
  <2>4. KindOf(e) # "unknown"
    BY <2>2, <2>3 DEF KindOf, LpVenues
  <2> QED
    BY <2>2, <2>4 DEF Stored, Amounts, Rewards, LpVenues, e
<1>3. CASE l.venue = "phoenix"
  <2>1. /\ e.venue = "phoenix" /\ e.topics[1] \in {"provide_liquidity", "withdraw_liquidity"}
        /\ Get(e.data, "0") = None /\ Get(e.data, "1") = None /\ Get(e.data, "2") = None
    BY <1>3 DEF LiquidityEvent, EventOf, Get
  <2> HIDE DEF e
  <2>2. KindName(e) = e.topics[1]
    BY <2>1 DEF KindName
  <2>3. KindOf(e) # "unknown"
    BY <2>1, <2>2 DEF KindOf, LpVenues
  <2> QED
    BY <2>1, <2>3 DEF Stored, Amounts, Rewards, LpVenues, e
<1>4. CASE l.venue = "comet"
  <2>1. /\ e.venue = "comet" /\ e.topics[1] = "POOL" /\ Nth(e.topics, 2) \in {"join_pool", "exit_pool"}
        /\ Get(e.data, "0") = None /\ Get(e.data, "1") = None /\ Get(e.data, "2") = None
    BY <1>4 DEF LiquidityEvent, EventOf, Get, Nth
  <2> HIDE DEF e
  <2>2. KindName(e) = Nth(e.topics, 2)
    BY <2>1 DEF KindName
  <2>3. KindOf(e) # "unknown"
    BY <2>1, <2>2 DEF KindOf, LpVenues
  <2> QED
    BY <2>1, <2>3 DEF Stored, Amounts, Rewards, LpVenues, e
<1>5. CASE l.venue = "sushi"
  <2>1. /\ e.venue = "sushi" /\ e.topics[1] \in {"mint", "burn"}
        /\ Get(e.data, "0") = None /\ Get(e.data, "1") = None /\ Get(e.data, "2") = None
    BY <1>5 DEF LiquidityEvent, EventOf, Get
  <2> HIDE DEF e
  <2>2. KindName(e) = e.topics[1]
    BY <2>1 DEF KindName
  <2>3. KindOf(e) # "unknown"
    BY <2>1, <2>2 DEF KindOf, LpVenues
  <2> QED
    BY <2>1, <2>3 DEF Stored, Amounts, Rewards, LpVenues, e
<1> QED
  BY <1>1, <1>2, <1>3, <1>4, <1>5

(* What an Aquarius pool says of a change, and that it is stored.           *)
LEMMA AquariusFields ==
  ASSUME NEW l \in AllChanges, NEW tx \in Lookups, l.venue = "aquarius"
  PROVE  LET e == LiquidityEvent(l, tx) IN
         /\ e.venue = "aquarius" /\ e.topics[1] = l.kind
         /\ Get(e.data, "0") = l.share /\ Get(e.data, "1") = l.amounts[1] /\ Get(e.data, "2") = l.amounts[2]
         /\ Stored(e)
<1> DEFINE e == LiquidityEvent(l, tx)
<1>1. e = EventOf("aquarius", <<l.kind, PoolTokens[1], PoolTokens[2]>>,
                  Vector(<<l.share, l.amounts[1], l.amounts[2]>>), tx)
  BY DEF LiquidityEvent
<1> HIDE DEF e
<1>2. /\ e.venue = "aquarius" /\ e.topics[1] = l.kind
      /\ Get(e.data, "0") = l.share /\ Get(e.data, "1") = l.amounts[1] /\ Get(e.data, "2") = l.amounts[2]
  BY <1>1 DEF EventOf, Vector, Get, Nth
<1>3. /\ l.kind \in {"deposit_liquidity", "withdraw_liquidity"} /\ l.share \in Nat
      /\ l.amounts[1] \in Nat /\ l.amounts[2] \in Nat
  BY DEF AllChanges
<1>4. KindName(e) = l.kind
  BY <1>2, <1>3 DEF KindName
<1>5. KindOf(e) = l.kind
  BY <1>2, <1>3, <1>4 DEF KindOf, LpVenues, parse
<1>6. Stored(e)
  BY <1>2, <1>3, <1>5 DEF Stored, Amounts, Rewards
<1> QED
  BY <1>2, <1>6 DEF e

(* What is queued of a stored event: its record, and the derived fields it  *)
(* was made from.                                                          *)
LEMMA QueuedShapes ==
  ASSUME NEW e, NEW ctx, IsContext(ctx), Stored(e), NEW s, IsSession(s), NEW pool, NEW now, NEW used,
         NEW event, event = parse_pool_event(e, ctx), NEW op, op = Admit(event, pool, s, now, used),
         op # None, op.status = "pending"
  PROVE  LET topic == e.topics[1]
             d == event.derived
         IN /\ op.record = canonical_event(event) /\ op.record # None
            /\ event.kind = topic
            /\ leader_amounts_for_kind(topic, d) # None
            /\ copy_kind_from_event(topic, s.include_claims) # None
            /\ topic \in {"deposit_liquidity", "withdraw_liquidity"} =>
                 d = derive_aquarius_liquidity(e, ctx) /\ e.venue \notin LpVenues
            /\ topic = "claim_fees" => d = derive_claim(e, ctx) /\ e.venue \notin LpVenues
            /\ topic = "claim_protocol_fee" => d = derive_protocol_claim(e, ctx)
            /\ topic \in {"deposit_liquidity", "withdraw_liquidity", "claim_fees", "claim_protocol_fee"}
<1>1. /\ op.draft = build_scaled_op_payload(event, s.coefficient, s.include_claims)
      /\ op.record = canonical_event(event) /\ op.draft # None /\ op.record # None
      /\ Else(Get(event.derived, "venue"), "aquarius") = "aquarius"
  BY QueuedIsRecorded
<1>2. event.topics = e.topics
  BY DEF parse_pool_event, Stored
<1>3. /\ copy_kind_from_event(e.topics[1], s.include_claims) # None
      /\ leader_amounts_for_kind(e.topics[1], event.derived) # None
  BY <1>1, <1>2, DraftsAreScaled
<1>4. s.include_claims \in BOOLEAN
  BY DEF IsSession
<1>5. e.topics[1] \in {"deposit_liquidity", "withdraw_liquidity", "claim_fees", "claim_protocol_fee"}
  BY <1>3, <1>4, KindsAgree
<1> QED
  BY <1>1, <1>3, <1>4, <1>5, CopiedShapes

(* A queued change of liquidity records the amounts that moved.             *)
LEMMA ChangeIsTrue ==
  ASSUME NEW l \in AllChanges, NEW tx \in Lookups, NEW ctx, IsContext(ctx), NEW s, IsSession(s),
         NEW pool, NEW now, NEW used
  PROVE  RecordIsTruth(parse_pool_event(LiquidityEvent(l, tx), ctx), ChangeSource(l, tx), pool, s, now, used)
<1> DEFINE e == LiquidityEvent(l, tx)
           event == parse_pool_event(e, ctx)
           d == event.derived
           op == Admit(event, pool, s, now, used)
           source == ChangeSource(l, tx)
<1> SUFFICES ASSUME op # None, op.status = "pending"
             PROVE  /\ d.venue = "aquarius" /\ op.record.kind = source.kind
                    /\ op.record.amounts = source.amounts
                    /\ source.kind = "claim" => op.record.claim_token = source.token /\ s.include_claims
  BY DEF RecordIsTruth
<1>1. l.venue = "aquarius"
  <2>1. SUFFICES ASSUME l.venue # "aquarius" PROVE FALSE
    OBVIOUS
  <2>2. Stored(e) /\ e.venue \in LpVenues /\ e.topics[1] # "claim_protocol_fee"
    BY <2>1, ForeignChange
  <2> HIDE DEF e, op
  <2> QED
    BY <2>2, QueuedShapes DEF op
<1>2. /\ e.venue = "aquarius" /\ e.topics[1] = l.kind
      /\ Get(e.data, "0") = l.share /\ Get(e.data, "1") = l.amounts[1] /\ Get(e.data, "2") = l.amounts[2]
  BY <1>1, AquariusFields
<1>3. /\ l.kind \in {"deposit_liquidity", "withdraw_liquidity"} /\ l.share \in Nat
      /\ l.amounts[1] \in Nat /\ l.amounts[2] \in Nat /\ l.amounts = <<l.amounts[1], l.amounts[2]>>
  BY DEF AllChanges
<1>4. Stored(e)
  BY <1>1, AquariusFields
<1> HIDE DEF e
<1> DEFINE legs == PoolLegs(ctx, l.amounts[1], l.amounts[2])
           Paid(leg) == Some(leg.token) /\ Some(leg.amount)
           list == Those(legs[1], legs[2], Paid)
<1>5. /\ op.record = canonical_event(event) /\ op.record # None /\ event.kind = l.kind
      /\ leader_amounts_for_kind(l.kind, d) # None
      /\ d = derive_aquarius_liquidity(e, ctx)
  <2> HIDE DEF op, event
  <2> QED
    BY <1>2, <1>3, <1>4, QueuedShapes DEF op, event
<1>6. d.venue = "aquarius" /\ d.token_amounts = list /\ d.share_amount = l.share
  BY <1>2, <1>5 DEF derive_aquarius_liquidity, Liquidity
<1> HIDE DEF op, event, d
<1>7. /\ op.record.kind = copy_kind_from_event(l.kind, TRUE)
      /\ op.record.amounts = PayloadAmounts(l.kind, d)
  BY <1>5, RecordsAre DEF d
<1>8. CASE l.kind = "deposit_liquidity"
  <2>1. op.record.kind = "deposit" /\ source.kind = "deposit" /\ source.amounts = l.amounts
    BY <1>7, <1>8 DEF copy_kind_from_event, ChangeSource, Deposits
  <2>2. list # <<>>
    <3>1. leader_amounts_for_kind(l.kind, d) = NonEmpty(list)
      BY <1>6, <1>8 DEF leader_amounts_for_kind
    <3> QED
      BY <1>5, <3>1 DEF NonEmpty
  <2>3. list = <<legs[1], legs[2]>>
    <3>1. ctx.tokens = <<>> \/ ctx.tokens = PoolTokens
      BY DEF IsContext
    <3>2. ctx.tokens # <<>>
      <4>1. SUFFICES ASSUME ctx.tokens = <<>> PROVE list = <<>>
        BY <2>2
      <4>2. legs[1].token = None /\ legs[2].token = None
        BY <4>1 DEF PoolLegs, Leg, Nth
      <4> HIDE DEF legs
      <4> QED
        BY <4>2, Joined DEF Those, Some
    <3>3. PoolTokens = <<PoolTokens[1], PoolTokens[2]>>
      BY VenueAssumption
    <3>4. ctx.tokens[1] = PoolTokens[1] /\ ctx.tokens[2] = PoolTokens[2] /\ {1, 2} \subseteq DOMAIN ctx.tokens
      BY <3>1, <3>2, <3>3
    <3>5. Some(legs[1].token) /\ Some(legs[2].token) /\ Some(legs[1].amount) /\ Some(legs[2].amount)
      BY <1>3, <3>4, Addresses, VenueAssumption DEF PoolLegs, Leg, Nth, Some
    <3> HIDE DEF legs
    <3> QED
      BY <3>5, Joined DEF Those
  <2>4. legs[1].amount = l.amounts[1] /\ legs[2].amount = l.amounts[2]
    BY DEF PoolLegs, Leg
  <2>5. op.record.amounts = [i \in DOMAIN list |-> list[i].amount]
    BY <1>6, <1>7, <1>8 DEF PayloadAmounts
  <2> HIDE DEF list, legs, source
  <2>6. op.record.amounts = <<legs[1].amount, legs[2].amount>>
    BY <2>3, <2>5
  <2> QED
    BY <1>3, <1>6, <2>1, <2>4, <2>6
<1>9. CASE l.kind = "withdraw_liquidity"
  <2>1. op.record.kind = "withdraw" /\ source.kind = "withdraw" /\ source.amounts = <<l.share>>
    BY <1>7, <1>9 DEF copy_kind_from_event, ChangeSource, Deposits
  <2>2. op.record.amounts = <<l.share>>
    BY <1>6, <1>7, <1>9 DEF PayloadAmounts
  <2> HIDE DEF source
  <2> QED
    BY <1>6, <2>1, <2>2
<1> QED
  BY <1>3, <1>8, <1>9

(* A claim of the pool's fees: two legs, and the one that paid is named.    *)
LEMMA FeesClaimed ==
  ASSUME NEW a \in Nat, NEW b \in Nat, NEW d, NEW venue,
         NEW fee, d = [venue |-> venue, token0 |-> PoolTokens[1], amount0 |-> a,
                       token1 |-> PoolTokens[2], amount1 |-> b, fee |-> fee]
  PROVE  /\ PayloadAmounts("claim_fees", d) = <<a, b>>
         /\ claim_token("claim_fees", d) # None =>
              claim_token("claim_fees", d) =
                IF b = 0 THEN PoolTokens[1] ELSE IF a = 0 THEN PoolTokens[2] ELSE None
<1>1. /\ Get(d, "amount0") = a /\ Get(d, "amount1") = b
      /\ Get(d, "token0") = PoolTokens[1] /\ Get(d, "token1") = PoolTokens[2]
  BY DEF Get
<1>2. Some(a) /\ Some(b)
  BY VenueAssumption DEF Some
<1>3. PayloadAmounts("claim_fees", d) = <<a, b>>
  <2>1. ClaimAmounts(d) = <<a, b>>
    BY <1>1, <1>2, Joined DEF ClaimAmounts, Those
  <2> QED
    BY <2>1 DEF PayloadAmounts
<1>4. ASSUME claim_token("claim_fees", d) # None
      PROVE  claim_token("claim_fees", d) = IF b = 0 THEN PoolTokens[1] ELSE IF a = 0 THEN PoolTokens[2] ELSE None
  <2> DEFINE l1 == Leg(PoolTokens[1], RawAmount(a))
             l2 == Leg(PoolTokens[2], RawAmount(b))
             Paid(l) == Some(l.amount) /\ l.amount > 0
             paid == Those(l1, l2, Paid)
  <2>1. claim_token("claim_fees", d) =
          IF Len(paid) = 1 /\ Some(l1.amount) /\ Some(l2.amount) THEN paid[1].token ELSE None
    BY <1>1 DEF claim_token
  <2> HIDE DEF paid
  <2>2. Len(paid) = 1 /\ Some(l1.amount) /\ Some(l2.amount) /\ claim_token("claim_fees", d) = paid[1].token
    BY <1>4, <2>1
  <2>3. l1.amount = a /\ l2.amount = b /\ l1.token = PoolTokens[1] /\ l2.token = PoolTokens[2]
    BY <2>2 DEF Leg, RawAmount, Keep, Some
  <2> HIDE DEF l1, l2
  <2>4. paid = (IF a > 0 THEN <<l1>> ELSE <<>>) \o (IF b > 0 THEN <<l2>> ELSE <<>>)
    BY <1>2, <2>3 DEF paid, Those
  <2>5. CASE a > 0 /\ b > 0
    <3>1. paid = <<l1, l2>>
      BY <2>4, <2>5, Joined
    <3> QED
      BY <2>2, <3>1
  <2>6. CASE ~(a > 0) /\ b > 0
    <3>1. paid = <<l2>>
      BY <2>4, <2>6, Joined
    <3> QED
      BY <2>2, <2>3, <2>6, <3>1
  <2>7. CASE a > 0 /\ ~(b > 0)
    <3>1. paid = <<l1>>
      BY <2>4, <2>7, Joined
    <3> QED
      BY <2>2, <2>3, <2>7, <3>1
  <2>8. CASE ~(a > 0) /\ ~(b > 0)
    <3>1. paid = <<>>
      BY <2>4, <2>8, Joined
    <3> QED
      BY <2>2, <3>1
  <2> QED
    BY <2>5, <2>6, <2>7, <2>8
<1> QED
  BY <1>3, <1>4

(* What a pool says of a claim, and that it is stored.                      *)
LEMMA ClaimFields ==
  ASSUME NEW c \in AllClaims
  PROVE  LET e == ClaimEvent(c) IN
         /\ e.venue = c.venue /\ e.topics[1] = c.kind /\ Get(e.data, "0") = c.amounts[1]
         /\ c.kind = "claim_fees" =>
              Nth(e.topics, 3) = PoolTokens[1] /\ Nth(e.topics, 4) = PoolTokens[2]
              /\ Get(e.data, "1") = c.amounts[2]
         /\ c.kind = "claim_protocol_fee" => Nth(e.topics, 2) = PoolTokens[1] /\ Get(e.data, "1") = None
         /\ Get(e.data, "2") = None
         /\ Stored(e)
<1> DEFINE e == ClaimEvent(c)
           a == c.amounts[1]
           b == c.amounts[2]
<1>1. /\ c.kind \in {"claim_fees", "claim_protocol_fee"} /\ a \in Nat /\ b \in Nat /\ c.amounts = <<a, b>>
  BY DEF AllClaims
<1>2. /\ e.venue = c.venue /\ e.topics[1] = c.kind /\ Get(e.data, "0") = a
      /\ c.kind = "claim_fees" =>
           Nth(e.topics, 3) = PoolTokens[1] /\ Nth(e.topics, 4) = PoolTokens[2] /\ Get(e.data, "1") = b
      /\ c.kind = "claim_protocol_fee" => Nth(e.topics, 2) = PoolTokens[1] /\ Get(e.data, "1") = None
      /\ Get(e.data, "2") = None
  <2>1. CASE c.kind = "claim_fees"
    <3>1. e = EventOf(c.venue, <<c.kind, c.user, PoolTokens[1], PoolTokens[2]>>, Vector(c.amounts), None)
      BY <2>1 DEF ClaimEvent
    <3> HIDE DEF e
    <3> QED
      BY <1>1, <2>1, <3>1 DEF EventOf, Vector, Get, Nth
  <2>2. CASE c.kind = "claim_protocol_fee"
    <3>1. e = EventOf(c.venue, <<c.kind, PoolTokens[1], c.user>>, Vector(<<a>>), None)
      BY <2>2 DEF ClaimEvent
    <3> HIDE DEF e
    <3> QED
      BY <1>1, <2>2, <3>1 DEF EventOf, Vector, Get, Nth
  <2> QED
    BY <1>1, <2>1, <2>2
<1> HIDE DEF e, a, b
<1>3. Stored(e)
  <2>1. KindName(e) = c.kind
    BY <1>1, <1>2 DEF KindName
  <2>2. parse(c.kind) = c.kind
    BY <1>1 DEF parse
  <2>3. KindOf(e) = c.kind
    <3>1. CASE c.kind = "claim_fees"
      BY <2>1, <2>2, <3>1 DEF KindOf
    <3>2. CASE c.kind = "claim_protocol_fee"
      BY <2>1, <2>2, <3>2 DEF KindOf
    <3> QED
      BY <1>1, <3>1, <3>2
  <2> QED
    BY <1>1, <1>2, <2>3, VenueAssumption DEF Stored, Amounts, Rewards
<1> QED
  BY <1>2, <1>3 DEF e, a, b

(* A queued claim records what was paid, and the one token it was paid in.  *)
LEMMA ClaimIsTrue ==
  ASSUME NEW c \in AllClaims, NEW ctx, IsContext(ctx), NEW s, IsSession(s), NEW pool, NEW now, NEW used
  PROVE  RecordIsTruth(parse_pool_event(ClaimEvent(c), ctx), ClaimSource(c), pool, s, now, used)
<1> DEFINE e == ClaimEvent(c)
           event == parse_pool_event(e, ctx)
           d == event.derived
           op == Admit(event, pool, s, now, used)
           source == ClaimSource(c)
           a == c.amounts[1]
           b == c.amounts[2]
<1> SUFFICES ASSUME op # None, op.status = "pending"
             PROVE  /\ d.venue = "aquarius" /\ op.record.kind = source.kind
                    /\ op.record.amounts = source.amounts
                    /\ source.kind = "claim" => op.record.claim_token = source.token /\ s.include_claims
  BY DEF RecordIsTruth
<1>1. /\ c.kind \in {"claim_fees", "claim_protocol_fee"} /\ a \in Nat /\ b \in Nat /\ c.amounts = <<a, b>>
      /\ c.venue \in VenueNames
  BY DEF AllClaims
<1>2. /\ e.venue = c.venue /\ e.topics[1] = c.kind /\ Get(e.data, "0") = a
      /\ c.kind = "claim_fees" =>
           Nth(e.topics, 3) = PoolTokens[1] /\ Nth(e.topics, 4) = PoolTokens[2] /\ Get(e.data, "1") = b
      /\ c.kind = "claim_protocol_fee" => Nth(e.topics, 2) = PoolTokens[1] /\ Get(e.data, "1") = None
      /\ Get(e.data, "2") = None
  BY ClaimFields
<1>3. Stored(e)
  BY ClaimFields
<1> HIDE DEF e, a, b
<1>4. /\ op.record = canonical_event(event) /\ op.record # None /\ event.kind = c.kind
      /\ copy_kind_from_event(c.kind, s.include_claims) # None
      /\ c.kind = "claim_fees" => d = derive_claim(e, ctx) /\ e.venue \notin LpVenues
      /\ c.kind = "claim_protocol_fee" => d = derive_protocol_claim(e, ctx)
  <2> HIDE DEF op, event
  <2> QED
    BY <1>1, <1>2, <1>3, QueuedShapes DEF op, event
<1> HIDE DEF op, event, d
<1>5. copy_kind_from_event(c.kind, TRUE) = "claim" /\ s.include_claims
  <2>1. copy_kind_from_event(c.kind, TRUE) = "claim"
    BY <1>1 DEF copy_kind_from_event
  <2>2. ~s.include_claims => copy_kind_from_event(c.kind, s.include_claims) = None
    <3>1. CASE c.kind = "claim_fees"
      BY <3>1 DEF copy_kind_from_event
    <3>2. CASE c.kind = "claim_protocol_fee"
      BY <3>2 DEF copy_kind_from_event
    <3> QED
      BY <1>1, <3>1, <3>2
  <2> QED
    BY <1>4, <2>1, <2>2
<1>6. /\ op.record.kind = "claim" /\ op.record.amounts = PayloadAmounts(c.kind, d)
      /\ op.record.claim_token = claim_token(c.kind, d) /\ op.record.claim_token # None
  BY <1>4, <1>5, RecordsAre DEF d
<1>7. CASE c.kind = "claim_fees"
  <2>1. e.venue = "aquarius"
    BY <1>1, <1>2, <1>4, <1>7 DEF VenueNames
  <2>2. PICK fee : d = [venue |-> "aquarius", token0 |-> PoolTokens[1], amount0 |-> a,
                        token1 |-> PoolTokens[2], amount1 |-> b, fee |-> fee]
    <3>1. /\ Address(Nth(e.topics, 3)) = PoolTokens[1] /\ Address(Nth(e.topics, 4)) = PoolTokens[2]
          /\ Get(e.data, "0") = a /\ Get(e.data, "1") = b
      BY <1>2, <1>7, Addresses
    <3>2. Else(e.venue, "aquarius") = "aquarius" /\ e.venue # "sushi"
      BY <2>1 DEF Else
    <3> QED
      BY <1>4, <1>7, <3>1, <3>2 DEF derive_claim, Leg
  <2>3. /\ PayloadAmounts(c.kind, d) = <<a, b>>
        /\ claim_token(c.kind, d) = IF b = 0 THEN PoolTokens[1] ELSE IF a = 0 THEN PoolTokens[2] ELSE None
    BY <1>1, <1>6, <1>7, <2>2, FeesClaimed
  <2>4. d.venue = "aquarius"
    BY <2>2
  <2>5. /\ source.kind = "claim" /\ source.amounts = c.amounts
        /\ source.token = IF b = 0 THEN PoolTokens[1] ELSE IF a = 0 THEN PoolTokens[2] ELSE None
    BY <1>7 DEF ClaimSource, a, b
  <2> HIDE DEF source
  <2> QED
    BY <1>1, <1>5, <1>6, <2>3, <2>4, <2>5
<1>8. CASE c.kind = "claim_protocol_fee"
  <2>1. d.venue = "aquarius" /\ d.token = PoolTokens[1] /\ d.amount = a
    <3>1. Address(Nth(e.topics, 2)) = PoolTokens[1]
      BY <1>2, <1>8, Addresses
    <3> QED
      BY <1>2, <1>4, <1>8, <3>1 DEF derive_protocol_claim, Leg
  <2>2. PayloadAmounts(c.kind, d) = <<a>> /\ claim_token(c.kind, d) = PoolTokens[1]
    <3>1. PayloadAmounts(c.kind, d) = <<d.amount>>
      BY <1>8 DEF PayloadAmounts
    <3>2. claim_token(c.kind, d) = d.token
      BY <1>8 DEF claim_token
    <3> QED
      BY <2>1, <3>1, <3>2
  <2>3. source.kind = "claim" /\ source.amounts = <<a>> /\ source.token = PoolTokens[1]
    BY <1>8 DEF ClaimSource, a, b
  <2> HIDE DEF source
  <2> QED
    BY <1>5, <1>6, <2>1, <2>2, <2>3
<1> QED
  BY <1>1, <1>7, <1>8

(* What the recorder attests is what the leader did: nothing but an         *)
(* Aquarius event of a wanted kind is queued, with the amounts that moved  *)
(* and the one token a claim paid (RecordIsTruth).                         *)
THEOREM RecordsTrue ==
  ASSUME NEW ctx, IsContext(ctx), NEW s, IsSession(s), NEW pool, NEW now, NEW used
  PROVE  /\ \A l \in AllChanges, tx \in Lookups :
              RecordIsTruth(parse_pool_event(LiquidityEvent(l, tx), ctx), ChangeSource(l, tx),
                            pool, s, now, used)
         /\ \A c \in AllClaims :
              RecordIsTruth(parse_pool_event(ClaimEvent(c), ctx), ClaimSource(c), pool, s, now, used)
BY ChangeIsTrue, ClaimIsTrue

(* Every change of liquidity is stored, whichever venue reports it.         *)
LEMMA ChangesAreStored ==
  ASSUME NEW l \in AllChanges, NEW tx \in Lookups
  PROVE  Stored(LiquidityEvent(l, tx))
BY AquariusFields, ForeignChange

(* And so is every claim.                                                   *)
LEMMA ClaimsAreStored ==
  ASSUME NEW c \in AllClaims
  PROVE  Stored(ClaimEvent(c))
BY ClaimFields
=============================================================================
