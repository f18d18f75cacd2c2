------------------------------ MODULE MCServices ------------------------------
(* A small instance of the services.                                         *)
EXTENDS Services

CONSTANTS G1, G2, G3, CA, CB, CM, P, Q

(* The chain and the snapshots.                                              *)
MCChain == <<1, 1, 2, 3, 3, 3, 4, 5>>
MCReads == {<<>>, P :> <<1>>, P :> <<2>> @@ Q :> <<1>>, P :> <<None>> @@ Q :> <<1>>, Q :> <<3>>,
            P :> <<1>> @@ Q :> <<3, 2>>}
MCOrder == P :> 1 @@ Q :> 2
MCAddresses == G1 :> 1 @@ G2 :> 2 @@ G3 :> 3

(* Swaps and liquidity events of every venue, and what is known of the pool. *)
PoolPair == <<CA, CB>>
Books == {<<>>, CA :> 2, CB :> 3, CA :> 2 @@ CB :> 3}
Contexts == [tokens : {<<>>, PoolPair}, fee_bps : {None, 30}, book : Books]
Swaps == {s \in [venue : VenueNames, user : {G1}, in : {CA, CB}, out : {CA, CB},
                 amount_in : {1, 5}, amount_out : {2, 7}, fee : {1}] : s.in # s.out}
Changes == [venue : VenueNames, user : {G1}, kind : {"deposit_liquidity", "withdraw_liquidity"},
              amounts : {<<1, 5>>, <<3, 4>>}, share : {2}]
MCSwapInputs == [swap : Swaps, ctx : Contexts]
MCLiquidityInputs == [change : Changes, tx : {None, G1}, ctx : Contexts]

(* Leader operations, sessions at their limits, and what the chain binds.    *)
Copied == {[venue |-> v, user |-> G1, kind |-> k, amounts |-> a, share |-> 7] :
             v \in {"aquarius", "phoenix"}, k \in {"deposit_liquidity", "withdraw_liquidity"},
             a \in {<<3, 5>>, <<20, 0>>, <<200, 1>>}}
Claims == [venue : {"aquarius", "comet"}, user : {G1}, kind : ClaimKinds,
           amounts : {<<3, 0>>, <<0, 20>>, <<2, 2>>}]
Base == [leader |-> G1, coefficient |-> 12, include_claims |-> TRUE, pools |-> {P},
         max_per_op |-> 39, max_daily |-> 60, expires_at |-> 5]
Sessions ==
  {[Base EXCEPT !.coefficient = c, !.max_per_op = m] : c \in {1, 5, 8, 12, 80}, m \in {0, 39, 81}}
  \cup {[Base EXCEPT !.max_daily = 0]}
  \cup {[Base EXCEPT !.include_claims = FALSE, !.pools = ps, !.expires_at = e] :
          ps \in {{}, {P}, {Q}}, e \in {None, 5}}
Bound(s) ==
  [leader |-> s.leader, ppm |-> coefficient_ppm(s.coefficient), follow_claims |-> s.include_claims,
   pools |-> s.pools, max_per_op |-> MaxOf(1, (s.max_per_op + 1) \div 2),
   max_daily |-> MaxOf(1, (s.max_daily + 1) \div 2), expires_at |-> 5, paused |-> FALSE, used |-> 0]
OnChain(s) == {Bound(s), [Bound(s) EXCEPT !.used = 10], [Bound(s) EXCEPT !.max_daily = @ + 1],
               [Bound(s) EXCEPT !.paused = TRUE]}
CopyContexts == {[tokens |-> PoolPair, fee_bps |-> 30, book |-> CA :> 2 @@ CB :> 3],
                 [tokens |-> PoolPair, fee_bps |-> None, book |-> CA :> 1],
                 [tokens |-> <<>>, fee_bps |-> None, book |-> CA :> 2]}
(* The row may have had another coefficient, of the same ppm or not, or have *)
(* copied claims, when it was drafted from.                                  *)
DraftRows(s) == {s, [s EXCEPT !.coefficient = MaxOf(1, @ - 1)], [s EXCEPT !.include_claims = TRUE]}
MCAdmissionInputs ==
  UNION {[did : Copied \cup Claims, tx : {G1}, ctx : CopyContexts, pool : {P}, row : DraftRows(s),
          session : {s}, chain : OnChain(s), now : {4, 5}, used : {0, 10 * 4 * Scale}] :
            s \in Sessions}

(* Events of two pools and three accounts, and small boards.                 *)
Ev(id, pool, kind, actor, venue, total, fee, reserves, time) ==
  [id |-> id, pool |-> pool, kind |-> kind, actor |-> actor, venue |-> venue, total |-> total,
   fee |-> fee, reserves |-> reserves, at |-> time]
EventRows == {
  Ev(1, P, "deposit_liquidity", G1, None, 4, None, None, 1),
  Ev(2, Q, "withdraw_liquidity", G1, "phoenix", 3, None, None, 2),
  Ev(3, P, "deposit_liquidity", G2, None, None, None, None, 2),
  Ev(4, P, "claim_fees", G1, None, 9, 2, None, 3),
  Ev(5, Q, "claim_fees", G1, "comet", 2, 2, None, 3),
  Ev(6, P, "claim_protocol_fee", G2, "aquarius", None, 1, None, 2),
  Ev(7, P, "claim_fees", CM, None, None, 5, None, 3),
  Ev(8, P, "update_reserves", None, None, None, None, 7, 1),
  Ev(9, P, "update_reserves", None, None, None, None, 0, 3),
  Ev(10, Q, "reserves_sync", None, "soroswap", None, None, 5, 3),
  Ev(11, Q, "trade", None, "phoenix", None, None, None, 2)}
SwapRows == {[id |-> 1, pool |-> Q, at |-> 1, volume |-> 3, fee |-> None],
             [id |-> 2, pool |-> P, at |-> 3, volume |-> 2, fee |-> 1]}
MCViewInputs == [events : kSubset(4, EventRows) \cup kSubset(2, EventRows),
               swaps : SUBSET SwapRows, since : {1, 2}]
Active == [sums : {[NoSums EXCEPT !.deposit_quote_xlm = d, !.claim_quote_xlm = c] :
                     d \in {0, 2}, c \in {0, 1}},
           event_count : {0, 2}, distinct_pools : {1, 2}, last_activity_at : {1}]
Snap == [unclaimed |-> 1, positions |-> 1, pools |-> 1, observed_at |-> 3]
MCBoardInputs ==
  [active : [{G1, G2} -> Active] \cup [{G1} -> Active],
   snapshots : {<<>>, G3 :> Snap, G1 :> Snap @@ G3 :> [Snap EXCEPT !.observed_at = None],
                G2 :> Snap @@ G3 :> [Snap EXCEPT !.pools = 2]},
   deltas : {<<>>, G1 :> 1, G2 :> -3, G1 :> 1 @@ G3 :> 1, G3 :> 2}]
MCOrders == {MCAddresses, [a \in Leaders |-> 4 - MCAddresses[a]]}

(* The readers and the refresh threads of the lists are interchangeable.     *)
Symmetry == Permutations(Readers) \cup Permutations(Refreshers)
=============================================================================
