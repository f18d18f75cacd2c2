----------------------------- MODULE CopyPolicy -----------------------------
(***************************************************************************)
(* The Soroban contract contracts/copy-policy: the on-chain authority that *)
(* decides which Leader events a follower's session copies, how often, and *)
(* for how much.  One action per contract entry point.  A transaction is   *)
(* atomic: an entry point that returns an error, or whose venue call       *)
(* fails, is rolled back by the host and changes nothing.                  *)
(*                                                                         *)
(* Addresses, symbols and ids are members of small sets.  Ledger time is a *)
(* counter; DAY units make a UTC day.  Token amounts stand for the u128    *)
(* amounts of the source, quotes for its i128 quotes.  Omitted: the ledger *)
(* of an event, which only the retry of a record compares (a payload       *)
(* stands for it too), its recording time, and the time-to-live of every   *)
(* entry but the replay markers.                                           *)
(***************************************************************************)
EXTENDS Integers, Sequences, FiniteSets

CONSTANTS
  Accounts,      \* addresses that sign transactions
  SessionIds, EventIds, Leaders, Pools, Tokens, Routers,
  Payloads,      \* leader-event payloads the recorder may submit
  Terms,         \* session terms the owner may register
  Quotes,        \* quotes a relayer may submit
  AmountLists,   \* token or share amounts a relayer may submit
  None,          \* an absent storage entry or option
  COEFFICIENT_SCALE, MAX_COEFFICIENT_PPM, MAX_POOLS,
  MAX_SESSION_DURATION_SECS,
  POLICY_TTL,    \* lifetime of a replay marker (POLICY_TTL_EXTEND_TO ledgers)
  DAY,           \* 86_400 seconds
  I128_MAX,
  MaxTime        \* bound of the model: the clock stops here

Kinds  == {"deposit", "withdraw", "claim"}
Routed == {"soroswap", "soroswap_amm"}
Venues == Routed \cup {"phoenix_xyk", "phoenix_stable", "aquarius"}
Pairs  == SessionIds \X EventIds
Times  == 0 .. MaxTime
Payload == [leader : Leaders, pool : Pools, kind : STRING,
            claim_token : Tokens \cup {None}, amounts : Seq(Nat), quote : Int]
Term    == [leader : Leaders, allowed_pools : SUBSET Pools,
            coefficient_ppm : Nat, follow_claims : BOOLEAN,
            max_per_op_quote : Int, max_daily_quote : Int]

\* A stored session has passed the checks of its registration.
Session == [leader : Leaders, allowed_pools : SUBSET Pools,
            coefficient_ppm : 1 .. MAX_COEFFICIENT_PPM, follow_claims : BOOLEAN,
            max_per_op_quote : Nat \ {0}, max_daily_quote : Nat \ {0},
            expires_at : Nat, paused : BOOLEAN,
            daily_day : Nat, daily_used_quote : Nat]

\* What a CopyExecuted event tells, with the terms in force and the token
\* amounts whose transfer out of the policy the execution authorised.
Execution == [pool : Pools, kind : Kinds, quote : Int, outflow : Seq(Nat),
              leader : Leaders, coefficient_ppm : Nat]

ASSUME ConstantsAssumption ==
  /\ COEFFICIENT_SCALE \in Nat \ {0}
  /\ MAX_COEFFICIENT_PPM \in Nat /\ MAX_POOLS \in Nat
  /\ MAX_SESSION_DURATION_SECS \in Nat
  /\ POLICY_TTL \in Nat \ {0} /\ DAY \in Nat \ {0}
  /\ I128_MAX \in Nat /\ MaxTime \in Nat
  /\ Payloads \subseteq Payload
  /\ Terms \subseteq Term
  /\ Quotes \subseteq Int
  /\ AmountLists \subseteq Seq(Nat)
  /\ None \notin Accounts \cup Routers \cup Tokens \cup Payload \cup Session

VARIABLES
  owner, relayer, recorder,  \* instance storage: accounts or None
  routers,    \* venue symbol -> configured router or None
  events,     \* event id -> recorded payload or None
  sessions,   \* session id -> Session or None
  replay,     \* (session, event) -> 0, or the end of the marker's lifetime
  published,  \* (session, event) -> CopyExecuted events emitted so far
  now,        \* ledger timestamp
  spent       \* history: session -> day -> quote copied in this registration

config == <<owner, relayer, recorder, routers>>
vars   == <<config, events, sessions, replay, published, now, spent>>

TypeOK ==
  /\ owner \in Accounts \cup {None}
  /\ relayer \in Accounts \cup {None}
  /\ recorder \in Accounts \cup {None}
  /\ routers \in [Routed -> Routers \cup {None}]
  /\ events \in [EventIds -> Payloads \cup {None}]
  /\ sessions \in [SessionIds -> Session \cup {None}]
  /\ replay \in [Pairs -> Nat]
  /\ published \in [Pairs -> Seq(Execution)]
  /\ now \in Times
  /\ spent \in [SessionIds -> [Times -> Int]]

day(t) == t \div DAY

-----------------------------------------------------------------------------
(* Coefficient arithmetic: fixed point, rounded down, failing on overflow. *)

Scale(value, ppm) == (value * ppm) \div COEFFICIENT_SCALE

ScalesQuote(value, ppm, quote) ==
  /\ value >= 0
  /\ value * ppm <= I128_MAX
  /\ Scale(value, ppm) = quote

scale_amounts(amounts, ppm) == [i \in DOMAIN amounts |-> Scale(amounts[i], ppm)]

\* Withdrawals bind the LP shares to the first recorded amount.
ExpectedShares(amounts, ppm) ==
  IF amounts = <<>> THEN 0 ELSE Scale(amounts[1], ppm)

\* A result past u128 traps; a token moves at most an i128, to which a
\* larger amount is cast.
Transferable(amounts, indices, ppm) ==
  \A i \in indices \cap DOMAIN amounts : Scale(amounts[i], ppm) <= I128_MAX

-----------------------------------------------------------------------------
(* Set-up by the owner. *)

initialize(signer, r) ==
  /\ owner = None
  /\ owner' = signer
  /\ relayer' = r
  /\ UNCHANGED <<recorder, routers, events, sessions, replay, published, now, spent>>

OwnerAuth(signer) == owner # None /\ signer = owner

set_event_recorder(signer, r) ==
  /\ OwnerAuth(signer)
  /\ recorder' = r
  /\ UNCHANGED <<owner, relayer, routers, events, sessions, replay, published, now, spent>>

set_venue_router(signer, venue, r) ==
  /\ OwnerAuth(signer)
  /\ venue \in Routed
  /\ routers' = [routers EXCEPT ![venue] = r]
  /\ UNCHANGED <<owner, relayer, recorder, events, sessions, replay, published, now, spent>>

-----------------------------------------------------------------------------
(* Notarising Leader events.  Both entry points share the write-once rule: *)
(* an identical retry succeeds without a write, a conflicting one fails.   *)

\* Mutant of StoreEvent: the last writer wins.
StoreEventOverwrites(e, p) ==
  /\ events' = [events EXCEPT ![e] = p]
  /\ UNCHANGED <<config, sessions, replay, published, now, spent>>

StoreEvent(e, p) ==
  /\ events[e] \in {None, p}
  /\ events' = [events EXCEPT ![e] = p]
  /\ UNCHANGED <<config, sessions, replay, published, now, spent>>

ValidEvent(signer, p) ==
  /\ recorder # None /\ signer = recorder
  /\ p.amounts # <<>> /\ p.quote > 0

record_leader_event(signer, e, p) ==
  /\ ValidEvent(signer, p)
  /\ p.kind \in Kinds /\ p.claim_token = None
  /\ StoreEvent(e, p)

record_claim_event(signer, e, p) ==
  /\ ValidEvent(signer, p)
  /\ p.kind = "claim" /\ p.claim_token # None
  /\ StoreEvent(e, p)

-----------------------------------------------------------------------------
(* The owner's session controls. *)

NewSession(t, expires_at) ==
  [leader |-> t.leader, allowed_pools |-> t.allowed_pools,
   coefficient_ppm |-> t.coefficient_ppm, follow_claims |-> t.follow_claims,
   max_per_op_quote |-> t.max_per_op_quote,
   max_daily_quote |-> t.max_daily_quote,
   expires_at |-> expires_at, paused |-> FALSE,
   daily_day |-> day(now), daily_used_quote |-> 0]

\* Mutant of register_session: the coefficient is checked for zero only.
RegisterAnyCoefficient(signer, s, t, expires_at) ==
  /\ OwnerAuth(signer)
  /\ Cardinality(t.allowed_pools) <= MAX_POOLS
  /\ t.coefficient_ppm > 0
  /\ t.max_per_op_quote > 0 /\ t.max_daily_quote > 0
  /\ expires_at > now /\ expires_at <= now + MAX_SESSION_DURATION_SECS
  /\ sessions' = [sessions EXCEPT ![s] = NewSession(t, expires_at)]
  /\ spent' = [spent EXCEPT ![s] = [d \in Times |-> 0]]
  /\ UNCHANGED <<config, events, replay, published, now>>

\* register_session is this with coefficient_ppm = COEFFICIENT_SCALE.
\* A registration replaces the session under its id, budget included; the
\* replay markers of that id stay.
register_session(signer, s, t, expires_at) ==
  /\ OwnerAuth(signer)
  /\ Cardinality(t.allowed_pools) <= MAX_POOLS
  /\ t.coefficient_ppm \in 1 .. MAX_COEFFICIENT_PPM
  /\ t.max_per_op_quote > 0 /\ t.max_daily_quote > 0
  /\ expires_at > now /\ expires_at <= now + MAX_SESSION_DURATION_SECS
  /\ sessions' = [sessions EXCEPT ![s] = NewSession(t, expires_at)]
  /\ spent' = [spent EXCEPT ![s] = [d \in Times |-> 0]]
  /\ UNCHANGED <<config, events, replay, published, now>>

pause_session(signer, s) ==
  /\ OwnerAuth(signer)
  /\ sessions[s] # None
  /\ sessions' = [sessions EXCEPT ![s] = [@ EXCEPT !.paused = TRUE]]
  /\ UNCHANGED <<config, events, replay, published, now, spent>>

\* Mutant of resume_session: resuming hands out a fresh daily budget.
ResumeRefills(signer, s) ==
  /\ OwnerAuth(signer)
  /\ sessions[s] # None
  /\ now < sessions[s].expires_at
  /\ sessions' = [sessions EXCEPT ![s] = [@ EXCEPT !.paused = FALSE, !.daily_used_quote = 0]]
  /\ UNCHANGED <<config, events, replay, published, now, spent>>

resume_session(signer, s) ==
  /\ OwnerAuth(signer)
  /\ sessions[s] # None
  /\ now < sessions[s].expires_at
  /\ sessions' = [sessions EXCEPT ![s] = [@ EXCEPT !.paused = FALSE]]
  /\ UNCHANGED <<config, events, replay, published, now, spent>>

\* Mutant of disarm_session: the replay markers go with the session.
DisarmForgetsMarkers(signer, s) ==
  /\ OwnerAuth(signer)
  /\ sessions' = [sessions EXCEPT ![s] = None]
  /\ replay' = [p \in Pairs |-> IF p[1] = s THEN 0 ELSE replay[p]]
  /\ UNCHANGED <<config, events, published, now, spent>>

disarm_session(signer, s) ==
  /\ OwnerAuth(signer)
  /\ sessions' = [sessions EXCEPT ![s] = None]
  /\ UNCHANGED <<config, events, replay, published, now, spent>>

-----------------------------------------------------------------------------
(* Execution.  Each entry point below runs under MatchesRecord. *)

\* Mutant of UsedToday: the counter is reset on its own day as well.
UsedTodayNever(session) ==
  IF day(now) >= session.daily_day THEN 0 ELSE session.daily_used_quote

\* The day's usage an operation starts from: a new UTC day starts at zero.
UsedToday(session) ==
  IF day(now) # session.daily_day THEN 0 ELSE session.daily_used_quote

\* Mutant of Charge: the counter's day is left behind.
ChargeKeepsDay(session, quote) ==
  [session EXCEPT !.daily_used_quote = UsedToday(session) + quote]

Charge(session, quote) ==
  [session EXCEPT !.daily_day = day(now),
                  !.daily_used_quote = UsedToday(session) + quote]

\* Mutant of authorize_copy_op: the replay marker is written, never read.
AuthorizeReplayed(signer, s, e, pool, kind, quote) ==
  /\ relayer # None /\ signer = relayer
  /\ sessions[s] # None /\ ~sessions[s].paused /\ now < sessions[s].expires_at
  /\ pool \in sessions[s].allowed_pools
  /\ kind = "claim" => sessions[s].follow_claims
  /\ quote > 0 /\ quote <= sessions[s].max_per_op_quote
  /\ UsedToday(sessions[s]) + quote <= sessions[s].max_daily_quote
  /\ sessions' = [sessions EXCEPT ![s] = Charge(@, quote)]
  /\ replay' = [replay EXCEPT ![<<s, e>>] = now + POLICY_TTL]

authorize_copy_op(signer, s, e, pool, kind, quote) ==
  /\ relayer # None /\ signer = relayer
  /\ replay[<<s, e>>] = 0
  /\ sessions[s] # None
  /\ ~sessions[s].paused
  /\ now < sessions[s].expires_at
  /\ pool \in sessions[s].allowed_pools
  /\ kind = "claim" => sessions[s].follow_claims
  /\ kind \in Kinds
  /\ quote > 0 /\ quote <= sessions[s].max_per_op_quote
  /\ UsedToday(sessions[s]) + quote <= sessions[s].max_daily_quote
  /\ sessions' = [sessions EXCEPT ![s] = Charge(@, quote)]
  /\ replay' = [replay EXCEPT ![<<s, e>>] = now + POLICY_TTL]

\* The event a successful operation emits, and the history it leaves.
PublishCopyExecuted(s, e, pool, kind, quote, outflow) ==
  /\ published' = [published EXCEPT ![<<s, e>>] = Append(@,
        [pool |-> pool, kind |-> kind, quote |-> quote, outflow |-> outflow,
         leader |-> sessions[s].leader,
         coefficient_ppm |-> sessions[s].coefficient_ppm])]
  /\ spent' = [spent EXCEPT ![s][day(now)] = @ + quote]

\* Mutant of MatchesRecord: any Leader's event will do.
MatchesAnyLeader(s, e, pool, kind, quote) ==
  /\ events[e] # None /\ sessions[s] # None
  /\ events[e].pool = pool /\ events[e].kind = kind
  /\ ScalesQuote(events[e].quote, sessions[s].coefficient_ppm, quote)

\* The binding of an operation to its recorded event and session, which
\* every execution entry point checks before authorize_copy_op.
MatchesRecord(s, e, pool, kind, quote) ==
  /\ events[e] # None
  /\ sessions[s] # None
  /\ events[e].pool = pool /\ events[e].kind = kind
  /\ events[e].leader = sessions[s].leader
  /\ ScalesQuote(events[e].quote, sessions[s].coefficient_ppm, quote)

execute_copy_op(signer, s, e, pool, kind, quote) ==
  /\ authorize_copy_op(signer, s, e, pool, kind, quote)
  /\ PublishCopyExecuted(s, e, pool, kind, quote, <<>>)
  /\ UNCHANGED <<config, events, now>>

\* Mutant of BindsAmounts: deposits move the Leader's amounts, unscaled.
BindsUnscaled(s, e, kind, amounts) ==
  /\ kind = "deposit" => amounts = events[e].amounts
  /\ kind = "withdraw" =>
       amounts = <<ExpectedShares(events[e].amounts, sessions[s].coefficient_ppm)>>

\* The relayer submits token amounts with a deposit and one LP-share amount
\* with a withdrawal; either must be the recorded amounts, scaled.
BindsAmounts(s, e, kind, amounts) ==
  LET recorded == events[e].amounts
      ppm      == sessions[s].coefficient_ppm
  IN /\ kind = "deposit" =>
          Transferable(recorded, DOMAIN recorded, ppm) /\ amounts = scale_amounts(recorded, ppm)
     /\ kind = "withdraw" =>
          Transferable(recorded, {1}, ppm) /\ amounts = <<ExpectedShares(recorded, ppm)>>

\* Mutant of CallVenue: a failed venue call leaves the authorisation behind.
CallVenueKeepsMarker(signer, s, e, pool, kind, quote, outflow) ==
  /\ authorize_copy_op(signer, s, e, pool, kind, quote)
  /\ PublishCopyExecuted(s, e, pool, kind, quote, outflow) \/ UNCHANGED <<published, spent>>
  /\ UNCHANGED <<config, events, now>>

\* The tail every venue entry point shares: authorise, call the venue,
\* publish.  The venue accepts, or it fails (an error, too few shares minted,
\* a minimum not met, a trap) and the host reverts the transaction.  Minima
\* are not followed: Phoenix's own check of them is one more way to fail.
CallVenue(signer, s, e, pool, kind, quote, outflow) ==
  \/ /\ authorize_copy_op(signer, s, e, pool, kind, quote)
     /\ PublishCopyExecuted(s, e, pool, kind, quote, outflow)
     /\ UNCHANGED <<config, events, now>>
  \/ UNCHANGED vars

\* Phoenix and Soroswap: two-token pools, deposits and withdrawals only, each
\* with authorisation entries for exactly the submitted amounts.
PairOp(signer, s, e, pool, kind, quote, amounts) ==
  /\ kind \in {"deposit", "withdraw"}
  /\ kind = "deposit" => Len(amounts) = 2
  /\ BindsAmounts(s, e, kind, amounts)
  /\ CallVenue(signer, s, e, pool, kind, quote, amounts)

execute_soroswap_standard_op(signer, venue, s, e, pool, kind, quote, amounts) ==
  /\ routers[venue] # None
  /\ PairOp(signer, s, e, pool, kind, quote, amounts)

execute_phoenix_xyk_standard_op(signer, s, e, pool, kind, quote, amounts) ==
  PairOp(signer, s, e, pool, kind, quote, amounts)

execute_phoenix_stable_op(signer, s, e, pool, kind, quote, amounts) ==
  PairOp(signer, s, e, pool, kind, quote, amounts)

\* A claim must name the recorded reward token, so one without is refused;
\* nothing leaves the policy.  Aquarius adds no authorisation entry when the
\* pool lists another number of tokens than it expects.
execute_aquarius_standard_op(signer, s, e, pool, kind, quote, amounts) ==
  /\ kind \in Kinds
  /\ kind = "claim" => events[e].claim_token # None
  /\ BindsAmounts(s, e, kind, amounts)
  /\ \E outflow \in {amounts, <<>>} :
       /\ kind = "claim" => outflow = <<>>
       /\ CallVenue(signer, s, e, pool, kind, quote, outflow)

\* Explicit dispatch on the venue symbol; any other symbol is rejected.
execute_standard_op(signer, venue, s, e, pool, kind, quote, amounts) ==
  \/ /\ venue = "phoenix_xyk"
     /\ execute_phoenix_xyk_standard_op(signer, s, e, pool, kind, quote, amounts)
  \/ /\ venue = "phoenix_stable"
     /\ execute_phoenix_stable_op(signer, s, e, pool, kind, quote, amounts)
  \/ /\ venue \in Routed
     /\ execute_soroswap_standard_op(signer, venue, s, e, pool, kind, quote, amounts)
  \/ /\ venue = "aquarius"
     /\ execute_aquarius_standard_op(signer, s, e, pool, kind, quote, amounts)

-----------------------------------------------------------------------------

Tick ==
  /\ now < MaxTime
  /\ now' = now + 1
  /\ UNCHANGED <<config, events, sessions, replay, published, spent>>

Init ==
  /\ owner = None /\ relayer = None /\ recorder = None
  /\ routers = [v \in Routed |-> None]
  /\ events = [e \in EventIds |-> None]
  /\ sessions = [s \in SessionIds |-> None]
  /\ replay = [p \in Pairs |-> 0]
  /\ published = [p \in Pairs |-> <<>>]
  /\ now = 0
  /\ spent = [s \in SessionIds |-> [d \in Times |-> 0]]

Configure(signer) ==
  \/ \E r \in Accounts : initialize(signer, r) \/ set_event_recorder(signer, r)
  \/ \E v \in Venues, r \in Routers : set_venue_router(signer, v, r)

Record(signer) ==
  \E e \in EventIds, p \in Payloads :
    record_leader_event(signer, e, p) \/ record_claim_event(signer, e, p)

Control(signer) ==
  \E s \in SessionIds :
    \/ \E t \in Terms, x \in 0 .. MaxTime + MAX_SESSION_DURATION_SECS :
         register_session(signer, s, t, x)
    \/ pause_session(signer, s)
    \/ resume_session(signer, s)
    \/ disarm_session(signer, s)

\* MatchesRecord heads every execution entry point, so it stands here once.
Execute(signer) ==
  \E s \in SessionIds, e \in EventIds, pool \in Pools, kind \in Kinds, q \in Quotes :
    /\ MatchesRecord(s, e, pool, kind, q)
    /\ \/ execute_copy_op(signer, s, e, pool, kind, q)
       \/ \E venue \in Venues, amounts \in AmountLists :
            execute_standard_op(signer, venue, s, e, pool, kind, q, amounts)

Next ==
  \/ \E signer \in Accounts :
       Configure(signer) \/ Record(signer) \/ Control(signer) \/ Execute(signer)
  \/ Tick

Spec == Init /\ [][Next]_vars

-----------------------------------------------------------------------------
(* Properties. *)

\* "Source-event identifiers are replay-protected": whatever the sequence of
\* registrations, disarms, pauses and retries, a session id copies a Leader
\* event at most once.
AtMostOnce == \A p \in Pairs : Len(published[p]) <= 1

\* The receipt copy_executed that a relayer relies on after losing a response
\* is exact: a marker exists if and only if a CopyExecuted event was emitted,
\* so no failed venue call leaves one behind.
ReceiptExact == \A p \in Pairs : replay[p] # 0 <=> published[p] # <<>>

\* The quote copied under one registration within one UTC day never exceeds
\* the session's daily limit, across lazy day rollovers, pauses and resumes.
DailyCap ==
  \A s \in SessionIds : sessions[s] # None =>
    \A d \in Times : spent[s][d] <= sessions[s].max_daily_quote

Agrees(x, ev) ==
  /\ ev # None
  /\ x.leader = ev.leader /\ x.pool = ev.pool /\ x.kind = ev.kind
  /\ x.quote = Scale(ev.quote, x.coefficient_ppm)
  /\ \A j \in DOMAIN x.outflow : x.outflow[j] = Scale(ev.amounts[j], x.coefficient_ppm)

\* Whatever was executed, at any time and under terms since replaced, still
\* agrees with the recorded event: its Leader, pool and kind, its quote scaled
\* by the coefficient of that time, and no token amount above the Leader's
\* scaled one.
ExecutedAsRecorded ==
  \A p \in Pairs : \A i \in DOMAIN published[p] : Agrees(published[p][i], events[p[2]])

\* What the session's own counter means: it is the quote copied on its day
\* under this registration, no later day has been charged, and its day is
\* not in the future.  DailyCap rests on it.
BudgetLedger ==
  \A s \in SessionIds : sessions[s] # None =>
    LET x == sessions[s] IN
      /\ x.daily_day <= day(now)
      /\ x.max_daily_quote > 0
      /\ spent[s][x.daily_day] = x.daily_used_quote
      /\ x.daily_used_quote >= 0
      /\ \A d \in Times : d > x.daily_day => spent[s][d] = 0

\* Only events with amounts and a positive quote are on record.
RecordedEvents ==
  \A e \in EventIds : events[e] # None =>
    events[e].amounts # <<>> /\ events[e].quote > 0

\* The inductive invariant behind the safety theorems.
PolicyInv ==
  AtMostOnce /\ ReceiptExact /\ BudgetLedger /\ DailyCap /\ RecordedEvents /\ ExecutedAsRecorded

\* A recorded event is never replaced, by a retry, a claim record under the
\* same id, or anything else.
EventsImmutable ==
  [][\A e \in EventIds : events[e] # None => events'[e] = events[e]]_vars

\* The policy keeps the follower's promise of CopyAllowance: the lazy daily
\* counter is an allowance refilled at midnight, the replay marker a
\* once-only copy, whatever the owner's controls and the clock do between.
Allowance == INSTANCE CopyAllowance WITH
  today    <- day(now),
  cap      <- [s \in SessionIds |->
                IF sessions[s] = None THEN 0 ELSE sessions[s].max_daily_quote],
  left     <- [s \in SessionIds |->
                IF sessions[s] = None THEN 0
                ELSE sessions[s].max_daily_quote - UsedToday(sessions[s])],
  attested <- events,
  copied   <- [p \in Pairs |->
                IF published[p] = <<>> THEN 0 ELSE published[p][1].quote]
ImplementsAllowance == Allowance!Spec

\* "prevents a replay marker from quietly expiring while its session is still
\* expected to enforce it" (docs/architecture.md): every marker of a session
\* lives at least as long as the session may execute.
MarkerOutlivesSession ==
  \A s \in SessionIds, e \in EventIds :
    sessions[s] # None /\ replay[<<s, e>>] # 0 =>
      replay[<<s, e>>] >= sessions[s].expires_at
=============================================================================
