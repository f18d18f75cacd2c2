---------------------------- MODULE CopyAdmission ----------------------------
(***************************************************************************)
(* From an indexed event to a copy operation: the API scales the event     *)
(* into a draft, checks the session's limits, builds the payload the       *)
(* recorder attests and gives the operation its status; a follower may     *)
(* prepare it, the relayer submits it, and the policy contract decides     *)
(* from the recorded event and its own copy of the session.  Four pieces   *)
(* of code in three languages compute the same amounts and limits.         *)
(*                                                                         *)
(* Fixed point: quotes and limits of the API are in half stroops, a        *)
(* coefficient in half units of 1/Scale, so that what the contract's       *)
(* integers cannot express is there to be rounded.                         *)
(***************************************************************************)
EXTENDS VenueEvents

CONSTANTS
  Scale,           \* COEFFICIENT_SCALE
  MaxPpm,          \* MAX_COEFFICIENT_PPM
  MaxAmount        \* u128::MAX

ASSUME AdmissionAssumption ==
  /\ {Scale, MaxPpm, MaxAmount} \subseteq Nat \ {0}
  /\ MaxAmount >= Scale * MaxPpm

-----------------------------------------------------------------------------
(* Scaling, copy_lp.rs *)
coefficient_ppm(c) == LET ppm == (c + 1) \div 2 IN IF c > 0 THEN Keep(ppm, ppm \in 1 .. MaxPpm) ELSE None
RawAmount(a) == IF Some(a) THEN Keep(a, a \in 0 .. MaxAmount) ELSE None     \* parse::<u128>

scale_amount_str(amount, c) ==
  IF RawAmount(amount) = None \/ coefficient_ppm(c) = None THEN None
  ELSE LET whole == (amount \div Scale) * coefficient_ppm(c)
           rest == ((amount % Scale) * coefficient_ppm(c)) \div Scale
       IN Keep(whole + rest, whole <= MaxAmount /\ whole + rest <= MaxAmount)

scale_token_amounts(legs, c) ==
  LET scaled == [i \in DOMAIN legs |-> Leg(legs[i].token, scale_amount_str(legs[i].amount, c))]
  IN IF \A i \in DOMAIN scaled : Some(scaled[i].token) /\ Some(scaled[i].amount) THEN scaled ELSE None

(* The kind is read from the body's first topic, not from the row.          *)
copy_kind_from_event(kind, include_claims) ==
  CASE kind = "deposit_liquidity" -> "deposit"
    [] kind = "withdraw_liquidity" -> "withdraw"
    [] kind \in {"claim_fees", "claim_protocol_fee"} /\ include_claims -> "claim"
    [] OTHER -> None

ClaimLegs(d) ==
  LET Paid(l) == Some(l.token) /\ Some(l.amount)
  IN Those(Leg(Get(d, "token0"), Get(d, "amount0")), Leg(Get(d, "token1"), Get(d, "amount1")), Paid)
NonEmpty(legs) == IF legs = <<>> THEN None ELSE legs
leader_amounts_for_kind(kind, d) ==
  CASE kind = "deposit_liquidity" -> NonEmpty(d.token_amounts)
    [] kind = "withdraw_liquidity" -> IF Some(d.share_amount) THEN <<Leg("lp_shares", d.share_amount)>> ELSE None
    [] kind = "claim_fees" -> NonEmpty(ClaimLegs(d))
    [] OTHER -> IF Some(d.token) /\ Some(d.amount) THEN <<Leg(d.token, d.amount)>> ELSE None
leader_quote_for_kind(kind, d) ==
  IF kind \in {"deposit_liquidity", "withdraw_liquidity"} THEN Get(d, "total") ELSE Get(d, "fee")
is_copyable_pool_type(d) == Get(d, "pool_type") # "concentrated"

(* The quote is scaled by the raw coefficient: half stroops times half      *)
(* units, 4 * Scale of them to the stroop.                                 *)
build_scaled_op_payload(event, c, include_claims) ==
  LET topic == event.topics[1]
      kind == copy_kind_from_event(topic, include_claims)
      legs == leader_amounts_for_kind(topic, event.derived)
      quote == leader_quote_for_kind(topic, event.derived)
  IN IF kind = None \/ ~is_copyable_pool_type(event.derived) \/ legs = None THEN None
     ELSE LET scaled == scale_token_amounts(legs, c) IN
          IF scaled = None THEN None
          ELSE [kind |-> kind, scaled |-> scaled,
                scaled_quote |-> IF Some(quote) THEN quote * c ELSE None]

-----------------------------------------------------------------------------
(* The recorder's payload, recorder.rs *)
ClaimAmounts(d) == Those(Get(d, "amount0"), Get(d, "amount1"), Some)
claim_token(kind, d) ==
  IF kind = "claim_protocol_fee" THEN d.token
  ELSE LET legs == <<Leg(Get(d, "token0"), RawAmount(Get(d, "amount0"))),
                     Leg(Get(d, "token1"), RawAmount(Get(d, "amount1")))>>
           Paid(l) == Some(l.amount) /\ l.amount > 0
           paid == Those(legs[1], legs[2], Paid)
       IN IF Len(paid) = 1 /\ \A i \in 1 .. 2 : Some(legs[i].amount) THEN paid[1].token ELSE None

PayloadAmounts(kind, d) ==
  CASE kind = "deposit_liquidity" -> [i \in DOMAIN d.token_amounts |-> d.token_amounts[i].amount]
    [] kind = "withdraw_liquidity" -> <<d.share_amount>>
    [] kind = "claim_protocol_fee" -> <<d.amount>>
    [] OTHER -> ClaimAmounts(d)

UncheckedToken(event) ==
  LET d == event.derived
      kind == copy_kind_from_event(event.kind, TRUE)
      amounts == PayloadAmounts(event.kind, d)
      quote == IF "total" \in DOMAIN d THEN d.total ELSE Get(d, "fee")
  IN IF kind = None THEN None
     ELSE Keep([kind |-> kind, amounts |-> amounts, quote |-> IF Some(quote) THEN quote \div 2 ELSE None,
                claim_token |-> IF kind = "claim" THEN Else(Get(d, "token0"), Get(d, "token")) ELSE None,
                leader |-> event.actor],
               Some(quote) /\ amounts # <<>>)
canonical_event(event) ==
  LET d == event.derived
      kind == copy_kind_from_event(event.kind, TRUE)
      amounts == PayloadAmounts(event.kind, d)
      quote == IF "total" \in DOMAIN d THEN d.total ELSE Get(d, "fee")
      token == claim_token(event.kind, d)
  IN IF \/ kind = None \/ amounts = <<>> \/ \E i \in DOMAIN amounts : RawAmount(amounts[i]) = None
        \/ kind = "claim" /\ token = None
        \/ quote = None
     THEN None
     ELSE Keep([kind |-> kind, amounts |-> amounts, quote |-> quote \div 2,
                claim_token |-> IF kind = "claim" THEN token ELSE None,
                leader |-> event.actor], quote \div 2 > 0)

-----------------------------------------------------------------------------
(* The venue matrix, adaptor.rs *)
VenueId(name) ==
  CASE name \in {"sushi_v3", "sushi"} -> "sushi_v3"
    [] name \in {"soroswap_amm", "soroswap"} -> "soroswap_amm"
    [] name \in {"aquarius", "phoenix", "comet"} -> name
    [] OTHER -> None
Capabilities(v) ==
  IF v = "aquarius" THEN [production |-> TRUE, scaled |-> TRUE, ops |-> {"deposit", "withdraw", "claim"}]
  ELSE [production |-> FALSE, scaled |-> FALSE, ops |-> {"deposit", "withdraw"}]
supports(v, op) == op \in Capabilities(v).ops
copy_execution_enabled(v) ==
  Capabilities(v).production /\ Capabilities(v).scaled /\ supports(v, "deposit") /\ supports(v, "withdraw")

(* copy_policy.rs; a limit of zero is not configured.  A session is         *)
(* [leader, coefficient, include_claims, pools, max_per_op, max_daily,     *)
(* expires_at], used is what the day's operations of the session sum to.   *)
Limit(max) == max * 2 * Scale
AdmitAnyDay(s, venue, op, pool, quote, now, used) ==
  LET amount == IF Some(quote) THEN quote ELSE 0 IN
  CASE Some(s.expires_at) /\ now >= s.expires_at -> "policy_expired"
    [] VenueId(venue) = None \/ ~copy_execution_enabled(VenueId(venue)) -> "venue_not_enabled"
    [] ~supports(VenueId(venue), op) -> "operation_not_enabled"
    [] s.pools # {} /\ pool \notin s.pools -> "pool_not_allowed"
    [] s.max_per_op > 0 /\ amount > Limit(s.max_per_op) -> "per_operation_limit"
    [] OTHER -> "ok"
validate_copy_op(s, venue, op, pool, quote, now, used) ==
  LET amount == IF Some(quote) THEN quote ELSE 0 IN
  CASE Some(s.expires_at) /\ now >= s.expires_at -> "policy_expired"
    [] VenueId(venue) = None \/ ~copy_execution_enabled(VenueId(venue)) -> "venue_not_enabled"
    [] ~supports(VenueId(venue), op) -> "operation_not_enabled"
    [] s.pools # {} /\ pool \notin s.pools -> "pool_not_allowed"
    [] s.max_per_op > 0 /\ amount > Limit(s.max_per_op) -> "per_operation_limit"
    [] s.max_daily > 0 /\ used + amount > Limit(s.max_daily) -> "daily_limit"
    [] OTHER -> "ok"

(* xlm_to_stroops rounds; the contract's session is [leader, ppm,           *)
(* follow_claims, pools, max_per_op, max_daily, expires_at, paused, used]. *)
xlm_to_stroops(half) == IF half > 0 THEN (half + 1) \div 2 ELSE None
validate_policy_binding(s, o) ==
  /\ o.leader = s.leader /\ o.ppm = OrZero(coefficient_ppm(s.coefficient))
  /\ o.follow_claims = s.include_claims /\ s.pools # {} /\ o.pools = s.pools
  /\ o.max_per_op = OrZero(xlm_to_stroops(s.max_per_op))
  /\ o.max_daily = OrZero(xlm_to_stroops(s.max_daily))
  /\ o.expires_at = s.expires_at /\ ~o.paused

(* reconcile_copy_ops for one event of the leader. *)
copy_op_status(verdict, recordable) == IF verdict = "ok" /\ recordable THEN "pending" ELSE "rejected"
Admit(event, pool, s, now, used) ==
  LET draft == build_scaled_op_payload(event, s.coefficient, s.include_claims)
      record == canonical_event(event)
      venue == Else(Get(event.derived, "venue"), "aquarius")
  IN IF draft = None THEN None
     ELSE [draft |-> draft, record |-> record,
           status |-> copy_op_status(validate_copy_op(s, venue, draft.kind, pool, draft.scaled_quote, now, used),
                                     Some(record))]

(* prepare_copy_op, for a session that names its contract session if        *)
(* `bound`; the checks of the caller and of the decoded amounts are left    *)
(* out.                                                                    *)
valid_stellar_address(a) == a \in Accounts
prepare_copy_op(op, s, o, bound, pool, pool_venue, now, used) ==
  CASE op.draft.kind = "claim" /\ (op.record = None \/ ~valid_stellar_address(op.record.claim_token))
         -> "claim_token_missing"
    [] pool_venue # "aquarius" -> "venue_not_enabled"
    [] op.status # "pending" -> "invalid_status"
    [] ~bound -> "policy_session_missing"
    [] op.draft.scaled_quote = None \/ op.draft.scaled_quote <= 0 -> "quote_missing"
    [] validate_copy_op(s, "aquarius", op.draft.kind, pool, op.draft.scaled_quote, now, used) # "ok" -> "policy"
    [] ~validate_policy_binding(s, o) -> "policy_binding_mismatch"
    [] OTHER -> "prepared"

(* What the relayer sends: the draft's amounts, the recorded quote scaled   *)
(* by the rounded coefficient.                                             *)
RelayerQuote(op, s) == (op.record.quote * coefficient_ppm(s.coefficient)) \div Scale
RelayerAccepts(op, s) ==
  /\ op.draft.kind = "claim" => op.record.claim_token \in Tokens
  /\ op.draft.kind = "withdraw" => Len(op.record.amounts) = 1 /\ op.draft.scaled[1].token = "lp_shares"
  /\ RelayerQuote(op, s) > 0

(* The contract, fed with the record and the relayer's call at time `now`.  *)
Recordable(r) == r.amounts # <<>> /\ r.quote > 0 /\ (r.kind = "claim" => Some(r.claim_token))
ContractScale(v, ppm) == (v * ppm) \div Scale
BindsDraft(op, o) ==
  LET record == op.record IN
  CASE op.draft.kind = "deposit" ->
         /\ DOMAIN op.draft.scaled = DOMAIN record.amounts
         /\ \A i \in DOMAIN record.amounts :
              /\ ContractScale(record.amounts[i], o.ppm) <= MaxAmount
              /\ op.draft.scaled[i].amount = ContractScale(record.amounts[i], o.ppm)
    [] op.draft.kind = "withdraw" -> op.draft.scaled[1].amount = ContractScale(record.amounts[1], o.ppm)
    [] OTHER -> TRUE
Executes(op, s, o, pool, now) ==
  LET quote == RelayerQuote(op, s) IN
  /\ op.record.kind = op.draft.kind /\ op.record.leader = o.leader
  /\ quote = ContractScale(op.record.quote, o.ppm) /\ BindsDraft(op, o)
  /\ ~o.paused /\ now < o.expires_at /\ pool \in o.pools
  /\ op.draft.kind = "claim" => o.follow_claims
  /\ quote > 0 /\ quote <= o.max_per_op /\ o.used + quote <= o.max_daily

(* A session of the API, and one of the contract, which has no zero limit   *)
(* and always expires; and what update_copy_session leaves of a row.        *)
IsSession(s) == /\ s.coefficient \in Int /\ s.include_claims \in BOOLEAN
                /\ s.max_per_op \in Nat /\ s.max_daily \in Nat
IsBound(o) == /\ o.max_per_op \in Nat \ {0} /\ o.max_daily \in Nat \ {0}
              /\ o.expires_at \in Nat /\ o.used \in Nat
Patched(row, s) == /\ s.leader = row.leader /\ s.pools = row.pools /\ s.expires_at = row.expires_at
                   /\ s.max_per_op = row.max_per_op /\ s.max_daily = row.max_daily

-----------------------------------------------------------------------------
(* Why the contract may refuse, today or for good, what the API let through *)
(* for a session bound to it: the quote rounds to zero and the script gives *)
(* up; a coefficient between two ppm was rounded up, or the contract's day  *)
(* holds more than the API's sum, and the copy is past a limit; the row was *)
(* patched after it was drafted from.                                      *)
Dust(op, s) == RelayerQuote(op, s) = 0
PastDay(op, s, o) == o.used + RelayerQuote(op, s) > o.max_daily
RoundedUp(op, row, s, o) ==
  /\ row.coefficient % 2 = 1
  /\ RelayerQuote(op, s) > o.max_per_op \/ PastDay(op, s, o)
DayDiffers(op, s, o, used) == o.used * 4 * Scale > used /\ PastDay(op, s, o)
PatchedSince(op, row, s) ==
  \/ coefficient_ppm(row.coefficient) # coefficient_ppm(s.coefficient)
  \/ op.draft.kind = "claim" /\ ~s.include_claims
MayBeRefused(op, row, s, o, used) ==
  Dust(op, s) \/ RoundedUp(op, row, s, o) \/ DayDiffers(op, s, o, used) \/ PatchedSince(op, row, s)

(* What the script submits is accepted; else one of these is the reason. Of *)
(* the recorded quote, rounding up takes at most half a unit more than the  *)
(* API counted.                                                            *)
AcceptedOrNamed(op, row, s, o, pool, now, used) ==
  /\ \/ RelayerAccepts(op, s) /\ Executes(op, s, o, pool, now)
     \/ MayBeRefused(op, row, s, o, used)
  /\ ~PatchedSince(op, row, s) =>
       4 * Scale * RelayerQuote(op, s) <= op.draft.scaled_quote + 2 * op.record.quote

(* What the API admits the contract executes: an operation drafted from     *)
(* `row` that is pending when the row, now `s`, is bound to the contract is *)
(* one the recorder can attest, and executed under the same limits on the  *)
(* same day, unless one of the named reasons is met.                       *)
PendingIsExecutable(event, pool, row, s, o, now, used) ==
  LET op == Admit(event, pool, row, now, used) IN
  op # None /\ op.status = "pending" /\ validate_policy_binding(s, o) /\ event.actor = s.leader
  => Recordable(op.record) /\ AcceptedOrNamed(op, row, s, o, pool, now, used)

(* What the API prepares the contract executes, however long ago and from   *)
(* whatever row it was drafted, unless one of the named reasons is met:    *)
(* preparing repeats every limit against the present day.                  *)
PreparedIsExecutable(event, pool, row, s, o, now, used) ==
  LET op == Admit(event, pool, row, 0, 0) IN
  op # None /\ prepare_copy_op(op, s, o, TRUE, pool, event.derived.venue, now, used) = "prepared"
    /\ event.actor = s.leader
  => AcceptedOrNamed(op, row, s, o, pool, now, used)

(* What a leader did: a change of liquidity, or a claim of the fees of one   *)
(* token of the pool.                                                      *)
ChangeSource(l, tx) ==
  [kind |-> IF Deposits(l) THEN "deposit" ELSE "withdraw", event |-> LiquidityEvent(l, tx),
   amounts |-> IF Deposits(l) THEN l.amounts ELSE <<l.share>>, token |-> None]
ClaimSource(c) ==
  [kind |-> "claim", event |-> ClaimEvent(c),
   amounts |-> IF c.kind = "claim_fees" THEN c.amounts ELSE <<c.amounts[1]>>,
   token |-> IF c.kind # "claim_fees" \/ c.amounts[2] = 0 THEN PoolTokens[1]
             ELSE IF c.amounts[1] = 0 THEN PoolTokens[2] ELSE None]

(* What is recorded is what the leader did: nothing but an Aquarius event   *)
(* of a wanted kind is ever queued, with the amounts that moved, in the    *)
(* pool's order, and the one token a claim paid.                           *)
RecordIsTruth(event, source, pool, s, now, used) ==
  LET op == Admit(event, pool, s, now, used) IN
  op # None /\ op.status = "pending" =>
    /\ event.derived.venue = "aquarius" /\ op.record.kind = source.kind
    /\ op.record.amounts = source.amounts
    /\ source.kind = "claim" => op.record.claim_token = source.token /\ s.include_claims
=============================================================================
