---------------------------- MODULE ServicesProofs ----------------------------
(***************************************************************************)
(* Theorems about the API's services and the indexer's derivations side by *)
(* side: each service behaves as its own module says, for any constants,   *)
(* and what is derived from an event, an operation or a table is right for *)
(* every input the program may meet.                                       *)
(***************************************************************************)
EXTENDS Services, ApiStateProofs, DataPathProofs, SetProofs

-----------------------------------------------------------------------------
(* Each service runs as its module says *)

(* Every service starts as its module says.                                 *)
LEMMA InitParts ==
  Init => /\ WalletInit /\ FlightInit /\ FeeInit /\ PagesInit /\ RollupInit /\ ListInit
BY DEF Init

(* A step of the whole is a step of a service or leaves it alone.           *)
LEMMA StepParts ==
  [Next]_servicesVars =>
    /\ [WalletNext]_walletVars /\ [FlightNext]_flightVars /\ [FeeNext]_feeVars
    /\ [PagesNext]_pageVars /\ [RollupNext]_rollupVars /\ [ListNext]_listVars
    /\ UNCHANGED <<focus, input>>
<1> SUFFICES ASSUME [Next]_servicesVars
             PROVE  /\ [WalletNext]_walletVars /\ [FlightNext]_flightVars /\ [FeeNext]_feeVars
                    /\ [PagesNext]_pageVars /\ [RollupNext]_rollupVars /\ [ListNext]_listVars
                    /\ UNCHANGED <<focus, input>>
  OBVIOUS
<1>1. CASE UNCHANGED servicesVars
  BY <1>1 DEF servicesVars
<1>2. CASE WalletRuns
  BY <1>2 DEF WalletRuns
<1>3. CASE FlightRuns
  BY <1>3 DEF FlightRuns
<1>4. CASE FeesRun
  BY <1>4 DEF FeesRun
<1>5. CASE PagesRun
  BY <1>5 DEF PagesRun
<1>6. CASE RollupsRun
  BY <1>6 DEF RollupsRun
<1>7. CASE ListsRun
  BY <1>7 DEF ListsRun
<1> QED
  BY <1>1, <1>2, <1>3, <1>4, <1>5, <1>6, <1>7 DEF Next

(* So a behaviour of the whole is a behaviour of each service.              *)
THEOREM EachServiceRuns ==
  ServicesSpec => /\ WalletSpec /\ ListSpec /\ FlightInit /\ [][FlightNext]_flightVars
                  /\ FeeInit /\ [][FeeNext]_feeVars /\ PagesInit /\ [][PagesNext]_pageVars
                  /\ RollupInit /\ [][RollupNext]_rollupVars
BY InitParts, StepParts, PTL DEF ServicesSpec, WalletSpec, ListSpec

-----------------------------------------------------------------------------
(* The derivations: what a behaviour works on never changes *)

(* The input is one of those the behaviour may be given.                    *)
InputInv == focus \in DOMAIN Inputs => input \in Inputs[focus]

(* The input is never another.                                              *)
LEMMA InputStays == ServicesSpec => []InputInv
<1>1. Init => InputInv
  BY DEF Init, InputInv, Inputs, Running
<1>2. InputInv /\ [Next]_servicesVars => InputInv'
  BY StepParts DEF InputInv, Inputs
<1> QED
  BY <1>1, <1>2, PTL DEF ServicesSpec

(* Every swap and every change of liquidity of every venue is stored as     *)
(* what it was, whatever the indexer knows of the pool: but for a Phoenix  *)
(* swap, whose row holds what the pool received as its output, and no      *)
(* trader.                                                                 *)
THEOREM EventsAreRecovered == ServicesSpec => []EventsRecovered
<1>1. InputInv => EventsRecovered
  <2> SUFFICES ASSUME InputInv PROVE EventsRecovered
    OBVIOUS
  <2>1. ASSUME focus = "swap" PROVE SwapRecovered(input.swap, input.ctx)
    <3>1. input \in SwapInputs
      BY <2>1 DEF InputInv, Inputs
    <3> QED
      BY <3>1, InputsAssumption, TradesRecovered
  <2>2. ASSUME focus = "liquidity" PROVE LiquidityRecovered(input.change, input.tx, input.ctx)
    <3>1. input \in LiquidityInputs
      BY <2>2 DEF InputInv, Inputs
    <3> QED
      BY <3>1, InputsAssumption, ChangesRecovered
  <2> QED
    BY <2>1, <2>2 DEF EventsRecovered
<1> QED
  BY <1>1, InputStays, PTL

(* What an operation was made of is a change or a claim as a venue records  *)
(* it, known to the admission's theorems.                                  *)
LEMMA SourcesAreStored ==
  ASSUME NEW i \in AdmissionInputs
  PROVE  /\ Stored(Source(i).event) /\ IsContext(i.ctx) /\ IsSession(i.row) /\ IsSession(i.session)
         /\ Patched(i.row, i.session) /\ IsBound(i.chain) /\ i.now \in Nat /\ i.used \in Nat
<1>1. /\ i.did \in AllChanges \cup AllClaims /\ i.tx \in Lookups /\ IsContext(i.ctx)
      /\ IsSession(i.row) /\ IsSession(i.session) /\ Patched(i.row, i.session)
      /\ IsBound(i.chain) /\ i.now \in Nat /\ i.used \in Nat
  BY InputsAssumption
<1>2. CASE i.did \in AllClaims
  <2>1. Source(i).event = ClaimEvent(i.did)
    BY <1>2 DEF Source, ClaimSource
  <2> QED
    BY <1>1, <1>2, <2>1, ClaimsAreStored
<1>3. CASE i.did \notin AllClaims
  <2>1. Source(i).event = LiquidityEvent(i.did, i.tx)
    BY <1>3 DEF Source, ChangeSource
  <2> QED
    BY <1>1, <1>3, <2>1, ChangesAreStored
<1> QED
  BY <1>2, <1>3

(* What the API queues or prepares, the contract executes.                  *)
THEOREM DraftsDoExecute == ServicesSpec => []DraftsExecute
<1>1. InputInv => DraftsExecute
  <2> SUFFICES ASSUME InputInv, focus = "admission" PROVE DraftsExecute
    BY DEF DraftsExecute
  <2>1. input \in AdmissionInputs
    BY DEF InputInv, Inputs
  <2>2. /\ Stored(Source(input).event) /\ IsContext(input.ctx) /\ IsSession(input.row)
        /\ IsSession(input.session) /\ Patched(input.row, input.session)
        /\ IsBound(input.chain) /\ input.now \in Nat /\ input.used \in Nat
    BY <2>1, SourcesAreStored
  <2>3. PendingIsExecutable(Drafted(input), input.pool, input.row, input.session, input.chain,
                            input.now, input.used)
    BY <2>2, QueuedExecutes DEF Drafted
  <2>4. PreparedIsExecutable(Drafted(input), input.pool, input.row, input.session, input.chain,
                            input.now, input.used)
    BY <2>2, PreparedExecutes DEF Drafted
  <2> QED
    BY <2>3, <2>4 DEF DraftsExecute
<1> QED
  BY <1>1, InputStays, PTL

(* What the recorder attests is what the leader did.                        *)
THEOREM RecordsAreTheTruth == ServicesSpec => []RecordsAreTrue
<1>1. InputInv => RecordsAreTrue
  <2> SUFFICES ASSUME InputInv, focus = "admission" PROVE RecordsAreTrue
    BY DEF RecordsAreTrue
  <2>1. input \in AdmissionInputs
    BY DEF InputInv, Inputs
  <2>2. /\ input.did \in AllChanges \cup AllClaims /\ input.tx \in Lookups /\ IsContext(input.ctx)
        /\ IsSession(input.row)
    BY <2>1, InputsAssumption
  <2>3. CASE input.did \in AllClaims
    <3>1. Source(input) = ClaimSource(input.did) /\ Drafted(input) = parse_pool_event(ClaimEvent(input.did), input.ctx)
      BY <2>3 DEF Drafted, Source, ClaimSource
    <3> QED
      BY <2>2, <2>3, <3>1, RecordsTrue DEF RecordsAreTrue
  <2>4. CASE input.did \notin AllClaims
    <3>1. /\ Source(input) = ChangeSource(input.did, input.tx)
          /\ Drafted(input) = parse_pool_event(LiquidityEvent(input.did, input.tx), input.ctx)
      BY <2>4 DEF Drafted, Source, ChangeSource
    <3> QED
      BY <2>2, <2>4, <3>1, RecordsTrue DEF RecordsAreTrue
  <2> QED
    BY <2>3, <2>4
<1> QED
  BY <1>1, InputStays, PTL

-----------------------------------------------------------------------------
(* What the API reads out of the events *)

(* Both ways a quote is read, in SQL and in Rust, agree on what is stored.  *)
LEMMA QuotesAgree ==
  ASSUME NEW events, IsHistory(events), NEW e \in events
  PROVE  RustQuote(e) = SqlQuote(e) /\ SqlQuote(e) \in Nat
<1>1. {e.total, e.fee} \subseteq Nat \cup {None} /\ 0 \in Nat
  BY DEF IsHistory
<1>2. ASSUME NEW q \in Nat \cup {None}
      PROVE  (IF q # None THEN MaxOf(q, 0) ELSE 0) = OrZero(q) /\ OrZero(q) \in Nat
  BY <1>2 DEF MaxOf, OrZero
<1>3. CASE e.kind \in ClaimKinds
  BY <1>1, <1>2, <1>3 DEF RustQuote, SqlQuote, Some
<1>4. CASE e.kind \notin ClaimKinds
  BY <1>1, <1>2, <1>4 DEF RustQuote, SqlQuote, Some
<1> QED
  BY <1>3, <1>4

(* So their sums do, and more events never sum to less.                     *)
LEMMA SumsAgree ==
  ASSUME NEW events, IsHistory(events), NEW window \in SUBSET events
  PROVE  /\ Sums(window, RustQuotes(window)) = Sums(window, SqlQuotes(window))
         /\ \A rows \in SUBSET window :
              Sums(rows, RustQuotes(rows)).claim_quote_xlm <= Sums(window, SqlQuotes(window)).claim_quote_xlm
<1>1. /\ IsFiniteSet(window)
      /\ \A e \in window : RustQuotes(window)[e] = SqlQuotes(window)[e] /\ SqlQuotes(window)[e] \in Nat
  <2>1. IsFiniteSet(window)
    BY FS_Subset DEF IsHistory
  <2> QED
    BY <2>1, QuotesAgree DEF RustQuotes, SqlQuotes
<1>2. ASSUME NEW rows \in SUBSET window, NEW kinds
      PROVE  /\ SumOf(OfKind(rows, kinds), RustQuotes(rows)) = SumOf(OfKind(rows, kinds), SqlQuotes(window))
             /\ OfKind(rows, kinds) \in SUBSET OfKind(window, kinds)
  <2> DEFINE some == OfKind(rows, kinds)
  <2>1. some \in SUBSET rows /\ IsFiniteSet(some)
    BY <1>1, FS_Subset DEF OfKind
  <2>2. \A e \in some : RustQuotes(rows)[e] \in Int /\ RustQuotes(rows)[e] = SqlQuotes(window)[e]
    BY <1>1, <2>1 DEF RustQuotes
  <2> HIDE DEF some
  <2>3. SumOver(RustQuotes(rows), some) = SumOver(SqlQuotes(window), some)
    BY <2>1, <2>2, SumSame
  <2>4. SumOf(some, RustQuotes(rows)) = SumOf(some, SqlQuotes(window))
    BY <2>3 DEF SumOf, SumOver
  <2> QED
    BY <2>4 DEF some, OfKind
<1>3. Sums(window, RustQuotes(window)) = Sums(window, SqlQuotes(window))
  BY <1>2 DEF Sums
<1>4. ASSUME NEW rows \in SUBSET window
      PROVE  Sums(rows, RustQuotes(rows)).claim_quote_xlm <= Sums(window, SqlQuotes(window)).claim_quote_xlm
  <2> DEFINE claims == OfKind(window, ClaimKinds)
             some == OfKind(rows, ClaimKinds)
  <2>1. IsFiniteSet(claims) /\ \A e \in claims : SqlQuotes(window)[e] \in Nat
    BY <1>1, FS_Subset DEF OfKind
  <2>2. some \in SUBSET claims
    BY <1>2
  <2>3. /\ Sums(rows, RustQuotes(rows)).claim_quote_xlm = SumOf(some, SqlQuotes(window))
        /\ Sums(window, SqlQuotes(window)).claim_quote_xlm = SumOf(claims, SqlQuotes(window))
    BY <1>2 DEF Sums
  <2> HIDE DEF claims, some
  <2>4. SumOver(SqlQuotes(window), some) <= SumOver(SqlQuotes(window), claims)
    BY <2>1, <2>2, SumGrows
  <2> QED
    BY <2>3, <2>4 DEF SumOf, SumOver
<1> QED
  BY <1>3, <1>4

(* Fewer of the newest than the limit are all there are.                    *)
LEMMA NewestAreAll ==
  ASSUME NEW window, IsFiniteSet(window), NEW rows \in Newest(window, EventLimit),
         Cardinality(rows) < EventLimit
  PROVE  rows = window
<1>1. /\ rows \in SUBSET window /\ Cardinality(rows) = MinOf(EventLimit, Cardinality(window))
  BY DEF Newest
<1>2. Cardinality(rows) = Cardinality(window)
  <2>1. Cardinality(window) \in Nat /\ Cardinality(rows) \in Nat
    BY <1>1, FS_CardinalityType, FS_Subset
  <2> QED
    BY <1>1, <2>1, LimitAssumption DEF MinOf
<1> QED
  BY <1>1, <1>2, FS_Subset

(* The board, the profile and the lifetime totals agree on every actor.     *)
LEMMA ActorsAgree ==
  ASSUME NEW events, IsHistory(events), NEW since \in Nat
  PROVE  ActorViewsAgree(events, since)
<1> DEFINE board == top_liquidity_actors(events, since)
<1> SUFFICES ASSUME NEW actor \in Leaders, NEW profile \in actor_liquidity_activity(events, actor, since)
             PROVE  LET total == actor_lifetime_totals(events, actor) IN
                    /\ profile.event_count > 0 => actor \in DOMAIN board
                    /\ actor \in DOMAIN board =>
                         /\ board[actor].last_activity_at = total.last_activity_at
                         /\ board[actor].distinct_pools = total.distinct_pools
                         /\ profile.event_count < EventLimit =>
                              /\ profile.sums = board[actor].sums
                              /\ profile.event_count = board[actor].event_count
                              /\ profile.distinct_pools = Cardinality(actor_pool_addresses(events, actor, since))
                         /\ profile.sums.claim_quote_xlm <= board[actor].sums.claim_quote_xlm
                         /\ since <= total.first_activity_at => board[actor].sums = total.sums
  BY DEF ActorViewsAgree
<1> DEFINE own == Lp(events, actor)
           window == From(own, since)
           total == actor_lifetime_totals(events, actor)
<1>1. PICK rows \in Newest(window, EventLimit) :
        profile = [sums |-> Sums(rows, RustQuotes(rows)), event_count |-> Cardinality(rows),
                   distinct_pools |-> Cardinality(PoolsOf(rows)), last_activity_at |-> MaxAt(rows)]
  BY DEF actor_liquidity_activity
<1>2. own \in SUBSET events /\ window \in SUBSET own /\ rows \in SUBSET window /\ IsFiniteSet(window)
      /\ IsFiniteSet(own)
  <2>1. own \in SUBSET events /\ window \in SUBSET own /\ rows \in SUBSET window
    BY DEF Lp, From, Newest
  <2> QED
    BY <2>1, FS_Subset DEF IsHistory
<1>3. /\ total.last_activity_at = MaxAt(own) /\ total.distinct_pools = Cardinality(PoolsOf(own))
      /\ total.first_activity_at = MinAt(own) /\ total.sums = Sums(own, SqlQuotes(own))
  BY DEF actor_lifetime_totals
<1>4. actor \in DOMAIN board <=> own # {}
  BY DEF top_liquidity_actors, known_liquidity_actors
<1>5. actor \in DOMAIN board =>
        /\ board[actor].sums = Sums(window, SqlQuotes(window))
        /\ board[actor].event_count = Cardinality(window)
        /\ board[actor].distinct_pools = Cardinality(PoolsOf(own))
        /\ board[actor].last_activity_at = MaxAt(own)
  BY DEF top_liquidity_actors
<1>6. actor_pool_addresses(events, actor, since) = PoolsOf(window)
  BY DEF actor_pool_addresses
<1> HIDE DEF board, total, own, window
<1>7. profile.event_count > 0 => actor \in DOMAIN board
  <2>1. rows = {} => Cardinality(rows) = 0
    BY FS_EmptySet
  <2> QED
    BY <1>1, <1>2, <1>4, <2>1
<1>8. profile.event_count < EventLimit =>
        /\ profile.sums = Sums(window, SqlQuotes(window)) /\ profile.event_count = Cardinality(window)
        /\ profile.distinct_pools = Cardinality(PoolsOf(window))
  <2>1. Cardinality(rows) < EventLimit => rows = window
    BY <1>2, NewestAreAll
  <2>2. Sums(window, RustQuotes(window)) = Sums(window, SqlQuotes(window))
    BY <1>2, SumsAgree
  <2> QED
    BY <1>1, <2>1, <2>2
<1>9. profile.sums.claim_quote_xlm <= Sums(window, SqlQuotes(window)).claim_quote_xlm
  <2>1. window \in SUBSET events
    BY <1>2
  <2> QED
    BY <1>1, <1>2, <2>1, SumsAgree
<1>10. own # {} /\ since <= MinAt(own) => window = own
  <2> SUFFICES ASSUME own # {}, since <= MinAt(own), NEW e \in own PROVE e.at >= since
    BY <1>2 DEF window, From
  <2> DEFINE times == {f.at : f \in own}
  <2>1. times \in SUBSET Nat /\ times # {} /\ e.at \in times /\ MinAt(own) = Min(times)
    BY <1>2 DEF MinAt, IsHistory
  <2> HIDE DEF times
  <2>2. Min(times) \in Nat /\ Min(times) <= e.at /\ e.at \in Nat
    BY <2>1, MinIs
  <2> QED
    BY <2>1, <2>2
<1>11. actor \in DOMAIN board /\ since <= total.first_activity_at => board[actor].sums = total.sums
  BY <1>3, <1>4, <1>5, <1>10
<1> QED
  BY <1>3, <1>5, <1>6, <1>7, <1>8, <1>9, <1>11 DEF board, total

(* Nothing counts and sums to nothing.                                      *)
LEMMA NothingSums ==
  /\ \A q : SumOf({}, q) = 0 /\ Sums({}, q) = NoSums
  /\ \A kinds : OfKind({}, kinds) = {} /\ Counted({}, kinds) = 0
  /\ Cardinality({}) = 0
<1>1. ASSUME NEW q PROVE SumOf({}, q) = 0
  <2>1. IsFiniteSet({}) /\ \A x \in {} : q[x] \in Int
    BY FS_EmptySet
  <2>2. SumOver(q, {}) = 0
    BY <2>1, SumStep
  <2> QED
    BY <2>2 DEF SumOf, SumOver
<1>2. \A kinds : OfKind({}, kinds) = {} /\ Counted({}, kinds) = 0
  BY FS_EmptySet DEF OfKind, Counted
<1>3. \A q : Sums({}, q) = NoSums
  BY <1>1, <1>2 DEF Sums, NoSums
<1> QED
  BY <1>1, <1>2, <1>3, FS_EmptySet

(* A row of the summary, and the row of its sums.                           *)
SummaryRow(n, u, k, v, f, s, c) ==
  [event_count |-> n, update_count |-> u, swap_count |-> k, volume |-> v, fees |-> f, sums |-> s, cadence |-> c]
SumsRow(nd, nw, nc, d, w, c) ==
  [deposit_count |-> nd, withdraw_count |-> nw, claim_count |-> nc,
   deposit_quote_xlm |-> d, withdraw_quote_xlm |-> w, claim_quote_xlm |-> c]

(* A pool's summary, asked for alone, is its entry in the map that is built *)
(* table by table: events, then swaps, then quotes.                        *)
LEMMA SummaryIsEntry ==
  ASSUME NEW events, NEW swaps, NEW since, NEW pool
  PROVE  pool_activity_summary(events, swaps, pool, since)
           = Entry(pool_activity_summary_map(events, swaps, since), pool)
<1> DEFINE es == From(events, since)
           ss == From(swaps, since)
           E == {e \in es : e.pool = pool}
           S == {s \in ss : s.pool = pool}
           counts == Counts(es)
           both == WithSwaps(counts, ss)
           map == WithQuotes(both, es)
           summary == [event_count |-> Cardinality(E), update_count |-> Counted(E, UpdateKinds),
                       swap_count |-> Cardinality(S), volume |-> SumOf(S, Volumes(S)),
                       fees |-> SumOf(S, SwapFees(S)),
                       sums |-> Sums(E, AnyVenueQuotes(E)),
                       cadence |-> cadence_from_times(OfKind(E, UpdateKinds))]
<1>1. /\ pool_activity_summary(events, swaps, pool, since) = summary
      /\ pool_activity_summary_map(events, swaps, since) = map
  BY DEF pool_activity_summary, pool_activity_summary_map
<1>2. /\ pool \in PoolsOf(es) <=> E # {}
      /\ pool \in PoolsOf(ss) <=> S # {}
  BY DEF PoolsOf
<1>3. /\ DOMAIN counts = PoolsOf(es)
      /\ pool \in PoolsOf(es) =>
           counts[pool] = [NoSummary EXCEPT !.event_count = Cardinality(E),
                                            !.update_count = Counted(E, UpdateKinds),
                                            !.sums = Sums(E, [e \in E |-> 0])]
  BY DEF Counts
<1>4. /\ DOMAIN both = PoolsOf(es) \cup PoolsOf(ss)
      /\ pool \in DOMAIN both =>
           both[pool] = IF S = {} THEN counts[pool]
                        ELSE [Entry(counts, pool) EXCEPT !.swap_count = Cardinality(S),
                                                         !.volume = SumOf(S, Volumes(S)),
                                                         !.fees = SumOf(S, SwapFees(S))]
  BY <1>3 DEF WithSwaps
<1>5. /\ DOMAIN map = DOMAIN both
      /\ pool \in DOMAIN both =>
           map[pool] = [both[pool] EXCEPT
                          !.sums = [both[pool].sums EXCEPT
                             !.deposit_quote_xlm = Sums(E, AnyVenueQuotes(E)).deposit_quote_xlm,
                             !.withdraw_quote_xlm = Sums(E, AnyVenueQuotes(E)).withdraw_quote_xlm,
                             !.claim_quote_xlm = Sums(E, AnyVenueQuotes(E)).claim_quote_xlm],
                          !.cadence = cadence_from_times(OfKind(E, UpdateKinds))]
  BY DEF WithQuotes
<1> HIDE DEF es, ss, E, S, counts, both, map
<1>6. /\ NoSummary = [event_count |-> 0, update_count |-> 0, swap_count |-> 0, volume |-> 0, fees |-> 0,
                      sums |-> NoSums, cadence |-> cadence_from_times({})]
      /\ E = {} => /\ Cardinality(E) = 0 /\ Counted(E, UpdateKinds) = 0
                   /\ Sums(E, AnyVenueQuotes(E)) = NoSums /\ Sums(E, [e \in E |-> 0]) = NoSums
                   /\ OfKind(E, UpdateKinds) = {}
      /\ S = {} => Cardinality(S) = 0 /\ SumOf(S, Volumes(S)) = 0 /\ SumOf(S, SwapFees(S)) = 0
  BY NothingSums DEF NoSummary
<1> DEFINE c == cadence_from_times(OfKind(E, UpdateKinds))
           n == Cardinality(E)
           u == Counted(E, UpdateKinds)
           z == Sums(E, [e \in E |-> 0])
           q == Sums(E, AnyVenueQuotes(E))
           v == SumOf(S, Volumes(S))
           f == SumOf(S, SwapFees(S))
           k == Cardinality(S)
           c0 == cadence_from_times({})
<1>7. CASE pool \notin DOMAIN both
  <2>1. E = {} /\ S = {}
    BY <1>2, <1>4, <1>7
  <2> QED
    BY <1>1, <1>5, <1>6, <1>7, <2>1 DEF Entry
<1>8. CASE pool \in DOMAIN both
  <2>1. Entry(counts, pool) = SummaryRow(n, u, 0, 0, 0, z, c0)
    <3>1. CASE pool \in PoolsOf(es)
      BY <1>3, <1>6, <3>1 DEF Entry, SummaryRow
    <3>2. CASE pool \notin PoolsOf(es)
      BY <1>2, <1>3, <1>6, <3>2 DEF Entry, SummaryRow
    <3> QED
      BY <3>1, <3>2
  <2>2. both[pool] = SummaryRow(n, u, k, v, f, z, c0)
    <3>1. CASE S = {}
      <4>1. Entry(counts, pool) = counts[pool] /\ k = 0 /\ v = 0 /\ f = 0
        BY <1>2, <1>3, <1>4, <1>6, <1>8, <3>1 DEF Entry
      <4> QED
        BY <1>4, <1>8, <2>1, <3>1, <4>1
    <3>2. CASE S # {}
      <4>1. both[pool] = [Entry(counts, pool) EXCEPT !.swap_count = k, !.volume = v, !.fees = f]
        BY <1>4, <1>8, <3>2
      <4> HIDE DEF c, n, u, z, q, v, f, k, c0
      <4>2. [SummaryRow(n, u, 0, 0, 0, z, c0) EXCEPT !.swap_count = k, !.volume = v, !.fees = f]
              = SummaryRow(n, u, k, v, f, z, c0)
        <5>1. [SummaryRow(n, u, 0, 0, 0, z, c0) EXCEPT !.swap_count = k] = SummaryRow(n, u, k, 0, 0, z, c0)
          BY DEF SummaryRow
        <5>2. [SummaryRow(n, u, k, 0, 0, z, c0) EXCEPT !.volume = v] = SummaryRow(n, u, k, v, 0, z, c0)
          BY DEF SummaryRow
        <5>3. [SummaryRow(n, u, k, v, 0, z, c0) EXCEPT !.fees = f] = SummaryRow(n, u, k, v, f, z, c0)
          BY DEF SummaryRow
        <5> QED
          BY ONLY <5>1, <5>2, <5>3, Zenon
      <4> QED
        BY ONLY <2>1, <4>1, <4>2, Zenon
    <3> QED
      BY <3>1, <3>2
  <2>3. [z EXCEPT !.deposit_quote_xlm = q.deposit_quote_xlm, !.withdraw_quote_xlm = q.withdraw_quote_xlm,
                  !.claim_quote_xlm = q.claim_quote_xlm] = q
    <3> DEFINE nd == Counted(E, {"deposit_liquidity"})
               nw == Counted(E, {"withdraw_liquidity"})
               nc == Counted(E, ClaimKinds)
    <3>1. PICK d0, w0, s0 : z = SumsRow(nd, nw, nc, d0, w0, s0)
      BY Zenon DEF Sums, SumsRow
    <3>2. PICK d, w, s : q = SumsRow(nd, nw, nc, d, w, s)
      BY Zenon DEF Sums, SumsRow
    <3> HIDE DEF c, n, u, z, q, v, f, k, c0, nd, nw, nc
    <3>3. q.deposit_quote_xlm = d /\ q.withdraw_quote_xlm = w /\ q.claim_quote_xlm = s
      BY <3>2 DEF SumsRow
    <3>4. [SumsRow(nd, nw, nc, d0, w0, s0) EXCEPT !.deposit_quote_xlm = d, !.withdraw_quote_xlm = w,
                                                  !.claim_quote_xlm = s] = SumsRow(nd, nw, nc, d, w, s)
      <4>1. [SumsRow(nd, nw, nc, d0, w0, s0) EXCEPT !.deposit_quote_xlm = d] = SumsRow(nd, nw, nc, d, w0, s0)
        BY DEF SumsRow
      <4>2. [SumsRow(nd, nw, nc, d, w0, s0) EXCEPT !.withdraw_quote_xlm = w] = SumsRow(nd, nw, nc, d, w, s0)
        BY DEF SumsRow
      <4>3. [SumsRow(nd, nw, nc, d, w, s0) EXCEPT !.claim_quote_xlm = s] = SumsRow(nd, nw, nc, d, w, s)
        BY DEF SumsRow
      <4> QED
        BY ONLY <4>1, <4>2, <4>3, Zenon
    <3> QED
      BY ONLY <3>1, <3>2, <3>3, <3>4, Zenon
  <2>4. map[pool] = [both[pool] EXCEPT !.sums = [both[pool].sums EXCEPT
                                          !.deposit_quote_xlm = q.deposit_quote_xlm,
                                          !.withdraw_quote_xlm = q.withdraw_quote_xlm,
                                          !.claim_quote_xlm = q.claim_quote_xlm],
                                       !.cadence = c]
    BY <1>5, <1>8, Zenon
  <2> HIDE DEF c, n, u, z, q, v, f, k, c0
  <2>5. map[pool] = SummaryRow(n, u, k, v, f, q, c)
    <3>1. both[pool].sums = z
      BY <2>2 DEF SummaryRow
    <3>2. [SummaryRow(n, u, k, v, f, z, c0) EXCEPT !.sums = q, !.cadence = c] = SummaryRow(n, u, k, v, f, q, c)
      <4>1. [SummaryRow(n, u, k, v, f, z, c0) EXCEPT !.sums = q] = SummaryRow(n, u, k, v, f, q, c0)
        BY DEF SummaryRow
      <4>2. [SummaryRow(n, u, k, v, f, q, c0) EXCEPT !.cadence = c] = SummaryRow(n, u, k, v, f, q, c)
        BY DEF SummaryRow
      <4> QED
        BY ONLY <4>1, <4>2, Zenon
    <3> QED
      BY ONLY <2>2, <2>3, <2>4, <3>1, <3>2, Zenon
  <2>6. summary = SummaryRow(n, u, k, v, f, q, c)
    BY DEF SummaryRow, c, n, u, q, v, f, k
  <2> QED
    BY <1>1, <1>5, <1>8, <2>5, <2>6 DEF Entry
<1> QED
  BY <1>7, <1>8

(* Finitely many events have finitely many times and numbers.               *)
LEMMA FieldsFinite ==
  ASSUME NEW S, IsFiniteSet(S)
  PROVE  IsFiniteSet({e.at : e \in S}) /\ IsFiniteSet({e.id : e \in S})
<1> DEFINE f == [x \in S |-> x.at]
           g == [x \in S |-> x.id]
<1>1. \A e \in S : f[e] = e.at /\ g[e] = e.id
  OBVIOUS
<1> HIDE DEF f, g
<1>2. {e.at : e \in S} = {f[e] : e \in S}
  BY <1>1
<1>3. {e.id : e \in S} = {g[e] : e \in S}
  BY <1>1
<1>4. IsFiniteSet({f[e] : e \in S}) /\ IsFiniteSet({g[e] : e \in S})
  BY FiniteImage
<1> QED
  BY ONLY <1>2, <1>3, <1>4, Zenon

(* The newest valid quote of a pool's reserves is one of its updates.       *)
LEMMA LatestIsAnUpdate ==
  ASSUME NEW events, IsHistory(events), NEW pool \in DOMAIN latest_reserves(events)
  PROVE  \E e \in OfKind(events, UpdateKinds) : e.pool = pool /\ latest_reserves(events)[pool].at = e.at
<1> DEFINE valid == {e \in OfKind(events, UpdateKinds) : Some(e.reserves) /\ e.reserves > 0}
           mine == {e \in valid : e.pool = pool}
           Later(e, f) == e.at > f.at \/ (e.at = f.at /\ e.id > f.id)
           IsLatest(e) == e.pool = pool /\ \A f \in valid \ {e} : f.pool = pool => Later(e, f)
           times == {e.at : e \in mine}
           last == {e \in mine : e.at = Max(times)}
           ids == {e.id : e \in last}
<1>1. pool \in PoolsOf(valid)
      /\ latest_reserves(events)[pool].at = (CHOOSE e \in valid : IsLatest(e)).at
  BY DEF latest_reserves
<1>2. /\ valid \in SUBSET events /\ mine \in SUBSET events /\ mine # {} /\ IsFiniteSet(mine)
      /\ \A e \in mine : e.at \in Nat /\ e.id \in Nat /\ e.pool = pool /\ e \in valid
      /\ \A e, f \in mine : e.id = f.id => e = f
  <2>1. valid \in SUBSET events /\ mine \in SUBSET events /\ mine # {}
    BY <1>1 DEF OfKind, PoolsOf
  <2>2. IsFiniteSet(mine)
    BY <2>1, FS_Subset DEF IsHistory
  <2> QED
    BY <2>1, <2>2 DEF IsHistory
<1>3. \A f \in valid : f.pool = pool => f \in mine
  OBVIOUS
<1> HIDE DEF valid, mine
<1>4. Max(times) \in times /\ \A t \in times : t <= Max(times)
  <2>1. times \in SUBSET Nat /\ times # {}
    BY <1>2
  <2>2. IsFiniteSet(times)
    BY ONLY <1>2, FieldsFinite, Zenon
  <2> HIDE DEF times
  <2> QED
    BY <2>1, <2>2, MaxIs
<1>5. last # {} /\ last \in SUBSET mine /\ IsFiniteSet(last)
  BY <1>2, <1>4, FS_Subset
<1> DEFINE top == Max(times)
<1>6. \A e \in mine : e.at <= top
  BY <1>4
<1>7. \A e \in last : e.at = top
  OBVIOUS
<1>8. \A e \in mine : e.at = top => e \in last
  OBVIOUS
<1> HIDE DEF last, top, times
<1>9. Max(ids) \in ids /\ \A i \in ids : i <= Max(ids)
  <2>1. ids \in SUBSET Nat /\ ids # {}
    BY <1>2, <1>5
  <2>2. IsFiniteSet(ids)
    BY ONLY <1>5, FieldsFinite, Zenon
  <2> HIDE DEF ids
  <2> QED
    BY <2>1, <2>2, MaxIs
<1>10. PICK e \in last : \A f \in last : f.id <= e.id
  BY <1>9
<1>11. e \in valid /\ IsLatest(e)
  <2> SUFFICES ASSUME NEW f \in valid \ {e}, f.pool = pool PROVE Later(e, f)
    BY <1>2, <1>5, <1>10
  <2>1. f \in mine /\ e \in mine /\ e.at = top /\ f.at <= top /\ f.at \in Nat /\ e.id \in Nat /\ f.id \in Nat
        /\ top \in Nat /\ e.id # f.id
    BY <1>2, <1>3, <1>5, <1>6, <1>7, <1>10
  <2>2. f.at = top => f.id <= e.id
    BY <1>8, <1>10, <2>1
  <2> QED
    BY <2>1, <2>2
<1> DEFINE chosen == CHOOSE g \in valid : IsLatest(g)
<1>12. chosen \in valid /\ IsLatest(chosen)
  <2> HIDE DEF IsLatest
  <2> QED
    BY <1>11
<1>13. chosen \in OfKind(events, UpdateKinds) /\ chosen.pool = pool
  BY <1>12 DEF valid
<1>14. latest_reserves(events)[pool].at = chosen.at
  BY <1>1
<1> QED
  BY <1>13, <1>14

(* A pool's views agree.                                                    *)
LEMMA PoolsAgree ==
  ASSUME NEW events, IsHistory(events), NEW swaps, NEW since
  PROVE  PoolViewsAgree(events, swaps, since)
<1> SUFFICES ASSUME NEW pool, From(events, since) = events, From(swaps, since) = swaps,
                    Some(pool_activity(events, swaps, pool))
             PROVE  LET summary == pool_activity_summary(events, swaps, pool, since)
                        activity == pool_activity(events, swaps, pool)
                    IN /\ summary.event_count = activity.event_count
                       /\ summary.swap_count = activity.swap_count
                       /\ pool \in DOMAIN latest_reserves(events) =>
                            latest_reserves(events)[pool].at <= summary.cadence.latest
  BY SummaryIsEntry DEF PoolViewsAgree
<1> DEFINE es == {e \in events : e.pool = pool}
           updates == OfKind(es, UpdateKinds)
           times == {e.at : e \in updates}
<1>1. /\ pool_activity_summary(events, swaps, pool, since).event_count = Cardinality(es)
      /\ pool_activity_summary(events, swaps, pool, since).swap_count = Cardinality({s \in swaps : s.pool = pool})
      /\ pool_activity_summary(events, swaps, pool, since).cadence.latest = MaxAt(updates)
  BY DEF pool_activity_summary, cadence_from_times
<1>2. /\ pool_activity(events, swaps, pool).event_count = Cardinality(es)
      /\ pool_activity(events, swaps, pool).swap_count = Cardinality({s \in swaps : s.pool = pool})
  BY DEF pool_activity, Some
<1>3. ASSUME pool \in DOMAIN latest_reserves(events)
      PROVE  latest_reserves(events)[pool].at <= MaxAt(updates)
  <2>1. PICK e \in OfKind(events, UpdateKinds) : e.pool = pool /\ latest_reserves(events)[pool].at = e.at
    BY <1>3, LatestIsAnUpdate
  <2>2. e \in updates /\ updates \in SUBSET events
    BY <2>1 DEF OfKind
  <2>3. e.at \in times /\ times \in SUBSET Nat /\ IsFiniteSet(times)
    <3>1. IsFiniteSet(updates)
      BY <2>2, FS_Subset DEF IsHistory
    <3>2. e.at \in times /\ times \in SUBSET Nat
      BY <2>2 DEF IsHistory
    <3> HIDE DEF updates
    <3> QED
      BY <3>1, <3>2, FieldsFinite
  <2>4. MaxAt(updates) = Max(times)
    BY <2>2 DEF MaxAt
  <2> HIDE DEF times
  <2>5. e.at <= Max(times)
    BY <2>3, MaxIs
  <2> QED
    BY <2>1, <2>4, <2>5
<1> QED
  BY <1>1, <1>2, <1>3

(* Whatever is read out of the same events agrees: the board, the profile   *)
(* and the lifetime totals on an actor, a pool asked for alone and with    *)
(* all others, at any window.                                              *)
THEOREM ViewsDoAgree == ServicesSpec => []AllViewsAgree
<1>1. InputInv => AllViewsAgree
  <2> SUFFICES ASSUME InputInv, focus = "views"
               PROVE  ViewsAgree(input.events, input.swaps, input.since)
    BY DEF AllViewsAgree
  <2>1. input \in ViewInputs
    BY DEF InputInv, Inputs
  <2>2. IsHistory(input.events) /\ input.since \in Nat
    BY <2>1, InputsAssumption
  <2> QED
    BY <2>2, ActorsAgree, PoolsAgree DEF ViewsAgree
<1> QED
  BY <1>1, InputStays, PTL

-----------------------------------------------------------------------------
(* The board *)

(* Fractions compare like numbers.                                          *)
IsFraction(m) == m[1] \in Int /\ m[2] \in Nat \ {0}
LEMMA Fractions ==
  ASSUME NEW m, IsFraction(m), NEW n, IsFraction(n), NEW k, IsFraction(k)
  PROVE  /\ ~(Above(m, n) /\ Above(n, m))
         /\ ~Above(m, n) /\ ~Above(n, k) => ~Above(m, k)
<1>1. ~(Above(m, n) /\ Above(n, m))
  BY DEF Above, IsFraction
<1>2. ASSUME NEW a \in Int, NEW b \in Nat \ {0}, NEW c \in Int, NEW d \in Nat \ {0},
             NEW e \in Int, NEW f \in Nat \ {0}, a * d <= c * b, c * f <= e * d
      PROVE  a * f <= e * b
  BY <1>2
<1>3. ~Above(m, n) /\ ~Above(n, k) => ~Above(m, k)
  <2> SUFFICES ASSUME ~Above(m, n), ~Above(n, k) PROVE ~Above(m, k)
    OBVIOUS
  <2> DEFINE a == m[1]
             b == m[2]
             c == n[1]
             d == n[2]
             e == k[1]
             f == k[2]
  <2>1. /\ a \in Int /\ b \in Nat \ {0} /\ c \in Int /\ d \in Nat \ {0} /\ e \in Int /\ f \in Nat \ {0}
        /\ ~(a * d > c * b) /\ ~(c * f > e * d)
    BY DEF Above, IsFraction
  <2>2. ~(a * f > e * b) => ~Above(m, k)
    BY DEF Above
  <2> HIDE DEF a, b, c, d, e, f
  <2>3. a * d <= c * b /\ c * f <= e * d
    BY <2>1
  <2>4. a * f <= e * b
    BY <1>2, <2>1, <2>3
  <2> QED
    BY <2>1, <2>2, <2>4
<1> QED
  BY <1>1, <1>3

(* Of three rows: a key that finds some equal, and one that orders them.    *)
Weak(ab, ba, bc, cb, ac, ca) ==
  /\ ~(ab /\ ba) /\ ~(bc /\ cb) /\ ~(ac /\ ca)
  /\ (ab => ac \/ cb) /\ (ac => ab \/ bc) /\ (bc => ba \/ ac)
  /\ (ba => bc \/ ca) /\ (cb => ca \/ ab) /\ (ca => cb \/ ba)
Orders(ab, ba, bc, cb, ac, ca) == (ab <=> ~ba) /\ (bc <=> ~cb) /\ (ac <=> ~ca) /\ (ab /\ bc => ac)

(* The rows of a board can be compared.                                     *)
LEMMA RowsCompare ==
  ASSUME NEW active, NEW snaps, NEW deltas, IsBoard(active, snaps, deltas),
         NEW a \in DOMAIN leaders(active, snaps)
  PROVE  LET row == leaders(active, snaps)[a] IN
         /\ row.sums.claim_quote_xlm \in Nat /\ row.sums.deposit_quote_xlm \in Nat /\ row.event_count \in Nat
         /\ \A sort : IsFraction(Metric(row, Get(deltas, a), sort))
         /\ a \in DOMAIN AddressOrder
<1> DEFINE row == leaders(active, snaps)[a]
<1>1. a \in DOMAIN active \cup DOMAIN snaps
      /\ row = IF a \in DOMAIN active THEN active[a] ELSE NoActivity(snaps[a].pools)
  BY DEF leaders
<1>2. row.sums.claim_quote_xlm \in Nat /\ row.sums.deposit_quote_xlm \in Nat /\ row.event_count \in Nat
  <2>1. CASE a \in DOMAIN active
    BY <1>1, <2>1 DEF IsBoard
  <2>2. CASE a \notin DOMAIN active
    <3>1. row.sums = NoSums /\ row.event_count = 0
      BY <1>1, <2>2 DEF NoActivity
    <3>2. NoSums.claim_quote_xlm = 0 /\ NoSums.deposit_quote_xlm = 0
      BY NothingSums DEF NoSums, Sums
    <3> QED
      BY <3>1, <3>2
  <2> QED
    BY <2>1, <2>2
<1> HIDE DEF row
<1>3. Accrued(row, Get(deltas, a)) \in Int
  <2>1. Get(deltas, a) # None => Get(deltas, a) \in Int
    BY DEF IsBoard, Get
  <2> QED
    BY <1>2, <2>1 DEF Accrued, OrZero
<1>4. ASSUME NEW sort PROVE IsFraction(Metric(row, Get(deltas, a), sort))
  <2> HIDE DEF row
  <2> QED
    BY <1>2, <1>3 DEF IsFraction, Metric
<1>5. a \in DOMAIN AddressOrder
  BY <1>1 DEF IsBoard
<1> QED
  BY <1>2, <1>4, <1>5 DEF row

(* The comparator is a strict total order: the address decides in the end.  *)
LEMMA AheadOrders ==
  ASSUME NEW active, NEW snaps, NEW deltas, IsBoard(active, snaps, deltas), NEW sort,
         NEW rows, rows = leaders(active, snaps)
  PROVE  /\ \A a, b \in DOMAIN rows : a # b =>
              (Ahead(rows, deltas, sort, a, b) <=> ~Ahead(rows, deltas, sort, b, a))
         /\ \A a, b, c \in DOMAIN rows :
              a # b /\ b # c /\ a # c /\ Ahead(rows, deltas, sort, a, b) /\ Ahead(rows, deltas, sort, b, c)
                => Ahead(rows, deltas, sort, a, c)
<1> DEFINE m(x) == Metric(rows[x], Get(deltas, x), sort)
           k1(x, y) == Above(m(x), m(y))
           k2(x, y) == rows[x].sums.claim_quote_xlm > rows[y].sums.claim_quote_xlm
           k3(x, y) == rows[x].sums.deposit_quote_xlm > rows[y].sums.deposit_quote_xlm
           k4(x, y) == rows[x].event_count > rows[y].event_count
           k5(x, y) == AddressOrder[x] < AddressOrder[y]
           t4(x, y) == then_with(k4(x, y), k4(y, x), k5(x, y))
           t3(x, y) == then_with(k3(x, y), k3(y, x), t4(x, y))
           t2(x, y) == then_with(k2(x, y), k2(y, x), t3(x, y))
           t1(x, y) == then_with(k1(x, y), k1(y, x), t2(x, y))
<1>1. \A x, y : Ahead(rows, deltas, sort, x, y) <=> t1(x, y)
  BY DEF Ahead, Compared
<1>2. \A x \in DOMAIN rows :
        /\ rows[x].sums.claim_quote_xlm \in Nat /\ rows[x].sums.deposit_quote_xlm \in Nat
        /\ rows[x].event_count \in Nat /\ x \in DOMAIN AddressOrder /\ IsFraction(m(x))
  BY RowsCompare
<1>3. \A x, y : /\ k1(x, y) \in BOOLEAN /\ k2(x, y) \in BOOLEAN /\ k3(x, y) \in BOOLEAN
                /\ k4(x, y) \in BOOLEAN /\ k5(x, y) \in BOOLEAN
  BY DEF Above
<1>4. \A x, y : /\ t4(x, y) \in BOOLEAN /\ t3(x, y) \in BOOLEAN /\ t2(x, y) \in BOOLEAN /\ t1(x, y) \in BOOLEAN
  BY DEF then_with
<1>5. \A x, y, z \in DOMAIN rows :
        /\ Weak(k2(x, y), k2(y, x), k2(y, z), k2(z, y), k2(x, z), k2(z, x))
        /\ Weak(k3(x, y), k3(y, x), k3(y, z), k3(z, y), k3(x, z), k3(z, x))
        /\ Weak(k4(x, y), k4(y, x), k4(y, z), k4(z, y), k4(x, z), k4(z, x))
  BY <1>2 DEF Weak
<1>6. \A x, y, z \in DOMAIN rows : Weak(k1(x, y), k1(y, x), k1(y, z), k1(z, y), k1(x, z), k1(z, x))
  <2> HIDE DEF m
  <2> QED
    BY <1>2, Fractions DEF Weak
<1>7. \A x, y \in DOMAIN rows : x # y => (k5(x, y) <=> ~k5(y, x))
  BY <1>2, BoardAssumption
<1>8. \A x, y, z \in DOMAIN rows : k5(x, y) /\ k5(y, z) => k5(x, z)
  BY <1>2, BoardAssumption
<1> HIDE DEF k1, k2, k3, k4, k5
<1>9. ASSUME NEW a \in DOMAIN rows, NEW b \in DOMAIN rows, a # b PROVE t1(a, b) <=> ~t1(b, a)
  <2>1. ~(k1(a, b) /\ k1(b, a)) /\ ~(k2(a, b) /\ k2(b, a)) /\ ~(k3(a, b) /\ k3(b, a)) /\ ~(k4(a, b) /\ k4(b, a))
    BY <1>5, <1>6 DEF Weak
  <2>2. k5(a, b) <=> ~k5(b, a)
    BY <1>7, <1>9
  <2> QED
    BY <1>3, <2>1, <2>2 DEF then_with
<1>10. ASSUME NEW a \in DOMAIN rows, NEW b \in DOMAIN rows, NEW c \in DOMAIN rows,
              a # b, b # c, a # c, t1(a, b), t1(b, c)
       PROVE  t1(a, c)
  <2>1. Orders(k5(a, b), k5(b, a), k5(b, c), k5(c, b), k5(a, c), k5(c, a))
    BY <1>7, <1>8, <1>10 DEF Orders
  <2>2. Weak(k1(a, b), k1(b, a), k1(b, c), k1(c, b), k1(a, c), k1(c, a))
    BY <1>6
  <2>3. /\ Weak(k2(a, b), k2(b, a), k2(b, c), k2(c, b), k2(a, c), k2(c, a))
        /\ Weak(k3(a, b), k3(b, a), k3(b, c), k3(c, b), k3(a, c), k3(c, a))
        /\ Weak(k4(a, b), k4(b, a), k4(b, c), k4(c, b), k4(a, c), k4(c, a))
    BY <1>5
  <2>4. Orders(t4(a, b), t4(b, a), t4(b, c), t4(c, b), t4(a, c), t4(c, a))
    BY ONLY <1>3, <2>1, <2>3, SMTT(30) DEF Orders, Weak, then_with
  <2> HIDE DEF t4
  <2>5. Orders(t3(a, b), t3(b, a), t3(b, c), t3(c, b), t3(a, c), t3(c, a))
    BY ONLY <1>3, <1>4, <2>3, <2>4, SMTT(30) DEF Orders, Weak, then_with
  <2> HIDE DEF t3
  <2>6. Orders(t2(a, b), t2(b, a), t2(b, c), t2(c, b), t2(a, c), t2(c, a))
    BY ONLY <1>3, <1>4, <2>3, <2>5, SMTT(30) DEF Orders, Weak, then_with
  <2> HIDE DEF t2
  <2>7. Orders(t1(a, b), t1(b, a), t1(b, c), t1(c, b), t1(a, c), t1(c, a))
    BY ONLY <1>3, <1>4, <2>2, <2>6, SMTT(30) DEF Orders, Weak, then_with
  <2> HIDE DEF t1
  <2> QED
    BY <1>10, <2>7 DEF Orders
<1> HIDE DEF t1
<1> QED
  BY <1>1, <1>9, <1>10

(* The ranking that any order of arrival leads to.                          *)
AheadPairs(rows, deltas, sort) ==
  {r \in (DOMAIN rows) \X (DOMAIN rows) : Ahead(rows, deltas, sort, r[1], r[2])}
Rank(rows, deltas, sort) ==
  [i \in 1 .. Cardinality(DOMAIN rows) |->
     CHOOSE a \in DOMAIN rows : Place(DOMAIN rows, AheadPairs(rows, deltas, sort), a) = i]
LEMMA RankStands ==
  ASSUME NEW active, NEW snaps, NEW deltas, IsBoard(active, snaps, deltas), NEW sort,
         NEW rows, rows = leaders(active, snaps)
  PROVE  LET rank == Rank(rows, deltas, sort)
             n == Cardinality(DOMAIN rows)
             m(a) == Metric(rows[a], Get(deltas, a), sort)
         IN sort # "activity" =>
            /\ \A order : Ranked(rows, deltas, sort, order) = rank
            /\ n \in Nat /\ rank \in [1 .. n -> DOMAIN rows]
            /\ \A i, j \in 1 .. n : i < j => ~Above(m(rank[j]), m(rank[i]))
<1> DEFINE S == DOMAIN rows
           R == AheadPairs(rows, deltas, sort)
           rank == Rank(rows, deltas, sort)
           n == Cardinality(S)
           m(a) == Metric(rows[a], Get(deltas, a), sort)
<1> SUFFICES ASSUME sort # "activity"
             PROVE  /\ \A order : Ranked(rows, deltas, sort, order) = rank
                    /\ n \in Nat /\ rank \in [1 .. n -> S]
                    /\ \A i, j \in 1 .. n : i < j => ~Above(m(rank[j]), m(rank[i]))
  OBVIOUS
<1>1. IsFiniteSet(S) /\ n \in Nat
  <2>1. S = DOMAIN active \cup DOMAIN snaps
    BY DEF leaders
  <2> QED
    BY <2>1, FS_CardinalityType DEF IsBoard
<1>2. /\ \A a, b \in S : a # b => (Ahead(rows, deltas, sort, a, b) <=> ~Ahead(rows, deltas, sort, b, a))
      /\ \A a, b, c \in S :
           a # b /\ b # c /\ a # c /\ Ahead(rows, deltas, sort, a, b) /\ Ahead(rows, deltas, sort, b, c)
             => Ahead(rows, deltas, sort, a, c)
  BY AheadOrders
<1>3. \A a, b \in S : <<a, b>> \in R <=> Ahead(rows, deltas, sort, a, b)
  BY DEF AheadPairs
<1> HIDE DEF S, R
<1>4. /\ \A i \in 1 .. n : \E a \in S : Place(S, R, a) = i
      /\ \A a, b \in S : a # b /\ <<a, b>> \in R => Place(S, R, a) < Place(S, R, b)
  <2>1. /\ \A a, b \in S : a # b => (<<a, b>> \in R <=> <<b, a>> \notin R)
        /\ \A a, b, c \in S : a # b /\ b # c /\ a # c /\ <<a, b>> \in R /\ <<b, c>> \in R => <<a, c>> \in R
    BY <1>2, <1>3
  <2> QED
    BY <1>1, <2>1, Placed
<1>5. rank = [i \in 1 .. n |-> CHOOSE a \in S : Place(S, R, a) = i]
  BY DEF Rank, S, R
<1>6. \A i \in 1 .. n : rank[i] \in S /\ Place(S, R, rank[i]) = i
  BY <1>4, <1>5
<1>7. ASSUME NEW order PROVE Ranked(rows, deltas, sort, order) = rank
  <2> DEFINE before(a, b) == \/ Ahead(rows, deltas, sort, a, b)
                             \/ ~Ahead(rows, deltas, sort, b, a) /\ order[a] < order[b]
             place(a) == 1 + Cardinality({b \in S \ {a} : before(b, a)})
  <2>1. Ranked(rows, deltas, sort, order) = [i \in 1 .. n |-> CHOOSE a \in S : place(a) = i]
    BY DEF Ranked, InFront, S
  <2>2. ASSUME NEW a \in S PROVE place(a) = Place(S, R, a)
    <3>1. \A b \in S \ {a} : before(b, a) <=> <<b, a>> \in R
      BY <1>2, <1>3
    <3> HIDE DEF before
    <3>2. {b \in S \ {a} : before(b, a)} = {b \in S \ {a} : <<b, a>> \in R}
      BY <3>1
    <3> QED
      BY <3>2 DEF Place
  <2> HIDE DEF place
  <2>3. ASSUME NEW i PROVE (CHOOSE a \in S : place(a) = i) = (CHOOSE a \in S : Place(S, R, a) = i)
    BY <2>2
  <2> QED
    BY <1>5, <2>1, <2>3
<1>8. ASSUME NEW i \in 1 .. n, NEW j \in 1 .. n, i < j PROVE ~Above(m(rank[j]), m(rank[i]))
  <2> SUFFICES ASSUME Above(m(rank[j]), m(rank[i])) PROVE FALSE
    OBVIOUS
  <2>1. rank[j] # rank[i]
    BY <1>1, <1>6, <1>8
  <2>2. Ahead(rows, deltas, sort, rank[j], rank[i])
    BY DEF Ahead, Compared, then_with
  <2>3. Place(S, R, rank[j]) < Place(S, R, rank[i])
    BY <1>3, <1>4, <1>6, <2>1, <2>2
  <2> QED
    BY <1>1, <1>6, <1>8, <2>3
<1>9. rank \in [1 .. n -> S]
  BY <1>5, <1>6
<1> QED
  BY <1>1, <1>7, <1>8, <1>9 DEF S

(* By activity rows are in a weak order.                                    *)
LEMMA ActivityIsWeak ==
  ASSUME NEW active, NEW snaps, NEW deltas, IsBoard(active, snaps, deltas),
         NEW rows, rows = leaders(active, snaps)
  PROVE  \A a, b, c \in DOMAIN rows :
           /\ ~(MoreActive(rows[a], rows[b]) /\ MoreActive(rows[b], rows[a]))
           /\ MoreActive(rows[a], rows[c]) => MoreActive(rows[a], rows[b]) \/ MoreActive(rows[b], rows[c])
           /\ ~MoreActive(rows[a], rows[b]) /\ ~MoreActive(rows[b], rows[a])
                => Activity(rows[a]) = Activity(rows[b])
<1> DEFINE e(x) == rows[x].event_count
           p(x) == rows[x].distinct_pools
           d(x) == rows[x].sums.deposit_quote_xlm
           known(x) == Indexed(rows[x])
<1>1. \A x \in DOMAIN rows : e(x) \in Nat /\ d(x) \in Nat
  BY RowsCompare
<1>2. \A x \in DOMAIN rows : known(x) => p(x) \in Nat
  <2> SUFFICES ASSUME NEW x \in DOMAIN rows, known(x) PROVE p(x) \in Nat
    OBVIOUS
  <2>1. x \in DOMAIN active \cup DOMAIN snaps
        /\ rows[x] = IF x \in DOMAIN active THEN active[x] ELSE NoActivity(snaps[x].pools)
    BY DEF leaders
  <2>2. x \in DOMAIN active
    BY <2>1 DEF NoActivity, Indexed, Some
  <2> QED
    BY <2>1, <2>2 DEF IsBoard
<1>3. \A x, y : MoreActive(rows[x], rows[y]) <=>
        IF known(x) /\ known(y)
        THEN e(x) > e(y) \/ (~(e(y) > e(x)) /\ (p(x) > p(y) \/ (~(p(y) > p(x)) /\ d(x) > d(y))))
        ELSE known(x) /\ ~known(y)
  BY DEF MoreActive, then_with
<1>4. \A x : Activity(rows[x]) = IF known(x) THEN <<e(x), p(x), d(x)>> ELSE <<>>
  BY DEF Activity
<1> HIDE DEF e, p, d, known
<1> DEFINE k(x) == IF known(x) THEN e(x) + 1 ELSE 0
           q(x) == IF known(x) THEN p(x) ELSE 0
           c(x) == IF known(x) THEN d(x) ELSE 0
           after(x, y) == k(x) > k(y) \/ (k(x) = k(y) /\ (q(x) > q(y) \/ (q(x) = q(y) /\ c(x) > c(y))))
<1>5. \A x \in DOMAIN rows : k(x) \in Nat /\ q(x) \in Nat /\ c(x) \in Nat
  BY <1>1, <1>2
<1>6. ASSUME NEW x \in DOMAIN rows, NEW y \in DOMAIN rows
      PROVE  MoreActive(rows[x], rows[y]) <=> after(x, y)
  <2>1. /\ e(x) \in Nat /\ d(x) \in Nat /\ (known(x) => p(x) \in Nat)
        /\ e(y) \in Nat /\ d(y) \in Nat /\ (known(y) => p(y) \in Nat)
    BY <1>1, <1>2
  <2>2. CASE known(x) /\ known(y)
    BY ONLY <1>3, <2>1, <2>2
  <2>3. CASE ~(known(x) /\ known(y))
    BY ONLY <1>3, <2>1, <2>3
  <2> QED
    BY <2>2, <2>3
<1>7. ASSUME NEW x \in DOMAIN rows, NEW y \in DOMAIN rows, ~after(x, y), ~after(y, x)
      PROVE  Activity(rows[x]) = Activity(rows[y])
  <2>1. k(x) = k(y) /\ q(x) = q(y) /\ c(x) = c(y)
    <3> HIDE DEF k, q, c
    <3> QED
      BY <1>5, <1>7
  <2>2. e(x) \in Nat /\ e(y) \in Nat
    BY <1>1
  <2>3. CASE ~known(x)
    <3>1. ~known(y)
      BY ONLY <2>1, <2>2, <2>3
    <3>2. Activity(rows[x]) = <<>> /\ Activity(rows[y]) = <<>>
      BY ONLY <1>4, <2>3, <3>1, Zenon
    <3> QED
      BY ONLY <3>2
  <2>4. CASE known(x)
    <3>1. known(y) /\ e(x) = e(y)
      BY ONLY <2>1, <2>2, <2>4
    <3>2. p(x) = p(y) /\ d(x) = d(y)
      BY <2>1, <2>4, <3>1
    <3> QED
      BY ONLY <1>4, <2>4, <3>1, <3>2
  <2> QED
    BY <2>3, <2>4
<1>8. \A x, y, z \in DOMAIN rows :
        ~(after(x, y) /\ after(y, x)) /\ (after(x, z) => after(x, y) \/ after(y, z))
  <2> HIDE DEF k, q, c
  <2> QED
    BY ONLY <1>5
<1> HIDE DEF after
<1> QED
  BY <1>6, <1>7, <1>8

(* The ranking by activity, for one order of arrival: every actor once, in  *)
(* the order of their activity.                                            *)
LEMMA ActivityStands ==
  ASSUME NEW active, NEW snaps, NEW deltas, IsBoard(active, snaps, deltas), NEW order, IsOrder(order),
         NEW rows, rows = leaders(active, snaps)
  PROVE  LET rank == Ranked(rows, deltas, "activity", order)
             n == Cardinality(DOMAIN rows)
         IN /\ n \in Nat /\ rank \in [1 .. n -> DOMAIN rows]
            /\ \A i, j \in 1 .. n : i # j => rank[i] # rank[j]
            /\ \A a \in DOMAIN rows : \E i \in 1 .. n : rank[i] = a
            /\ \A i, j \in 1 .. n : i <= j => ~MoreActive(rows[rank[j]], rows[rank[i]])
<1> DEFINE S == DOMAIN rows
           n == Cardinality(S)
           more(a, b) == MoreActive(rows[a], rows[b])
           before(a, b) == more(a, b) \/ (~more(b, a) /\ order[a] < order[b])
           R == {r \in S \X S : before(r[1], r[2])}
           rank == Ranked(rows, deltas, "activity", order)
<1>1. IsFiniteSet(S) /\ n \in Nat
  <2>1. S = DOMAIN active \cup DOMAIN snaps
    BY DEF leaders
  <2> QED
    BY <2>1, FS_CardinalityType DEF IsBoard
<1>2. \A a, b \in S : order[a] \in Nat /\ (order[a] = order[b] => a = b)
  <2>1. \A a \in S : a \in DOMAIN AddressOrder
    BY RowsCompare
  <2> QED
    BY <2>1 DEF IsOrder
<1>3. \A a, b, c \in S : ~(more(a, b) /\ more(b, a)) /\ (more(a, c) => more(a, b) \/ more(b, c))
  BY ActivityIsWeak
<1>4. \A a, b \in S : <<a, b>> \in R <=> before(a, b)
  OBVIOUS
<1> HIDE DEF R
<1>5. /\ rank = [i \in 1 .. n |-> rank[i]]
      /\ \A i \in 1 .. n : rank[i] = CHOOSE a \in S : Place(S, R, a) = i
  <2> DEFINE place(a) == 1 + Cardinality({b \in S \ {a} : before(b, a)})
  <2>1. rank = [i \in 1 .. n |-> CHOOSE a \in S : place(a) = i]
    BY DEF Ranked, InFront
  <2> HIDE DEF S, n, rank
  <2>2. ASSUME NEW a \in S PROVE place(a) = Place(S, R, a)
    <3> HIDE DEF before
    <3>1. {b \in S \ {a} : before(b, a)} = {b \in S \ {a} : <<b, a>> \in R}
      BY <1>4
    <3> QED
      BY <3>1 DEF Place
  <2> HIDE DEF place
  <2>3. ASSUME NEW i PROVE (CHOOSE a \in S : place(a) = i) = (CHOOSE a \in S : Place(S, R, a) = i)
    BY <2>2
  <2>4. rank = [i \in 1 .. n |-> rank[i]] /\ \A i \in 1 .. n : rank[i] = CHOOSE a \in S : place(a) = i
    BY ONLY <2>1
  <2> QED
    BY ONLY <2>3, <2>4
<1> HIDE DEF S, n, rank, more
<1>6. /\ \A i \in 1 .. n : \E a \in S : Place(S, R, a) = i
      /\ \A a, b \in S : a # b /\ <<a, b>> \in R => Place(S, R, a) < Place(S, R, b)
  <2>1. \A a, b \in S : a # b => (before(a, b) <=> ~before(b, a))
    BY <1>2, <1>3
  <2>2. \A a, b, c \in S : before(a, b) /\ before(b, c) => before(a, c)
    <3> SUFFICES ASSUME NEW a \in S, NEW b \in S, NEW c \in S, before(a, b), before(b, c)
                 PROVE  before(a, c)
      OBVIOUS
    <3>1. /\ more(a, b) => more(a, c) \/ more(c, b)
          /\ more(b, c) => more(b, a) \/ more(a, c)
          /\ more(c, a) => more(c, b) \/ more(b, a)
          /\ ~(more(a, b) /\ more(b, a)) /\ ~(more(b, c) /\ more(c, b))
      BY <1>3
    <3>2. order[a] < order[b] /\ order[b] < order[c] => order[a] < order[c]
      BY <1>2
    <3> QED
      BY <3>1, <3>2
  <2> HIDE DEF before
  <2>3. /\ \A a, b \in S : a # b => (<<a, b>> \in R <=> <<b, a>> \notin R)
        /\ \A a, b, c \in S : a # b /\ b # c /\ a # c /\ <<a, b>> \in R /\ <<b, c>> \in R => <<a, c>> \in R
    BY <1>4, <2>1, <2>2
  <2> QED
    BY <1>1, <2>3, Placed DEF n
<1>7. \A i \in 1 .. n : rank[i] \in S /\ Place(S, R, rank[i]) = i
  BY <1>5, <1>6
<1>8. rank \in [1 .. n -> S]
  BY <1>5, <1>7
<1>9. \A i, j \in 1 .. n : i # j => rank[i] # rank[j]
  BY <1>7
<1>10. \A a \in S : \E i \in 1 .. n : rank[i] = a
  <2>1. rank \in Injection(1 .. n, S)
    BY <1>8, <1>9, Zenon DEF Injection, IsInjective
  <2>2. Cardinality(1 .. n) = n
    BY <1>1, FS_Interval
  <2>3. rank \in Surjection(1 .. n, S)
    BY <1>1, <2>1, <2>2, FS_Injection DEF n
  <2> QED
    BY <2>3, Zenon DEF Surjection
<1>11. ASSUME NEW i \in 1 .. n, NEW j \in 1 .. n, i <= j PROVE ~more(rank[j], rank[i])
  <2> SUFFICES ASSUME more(rank[j], rank[i]) PROVE FALSE
    OBVIOUS
  <2>1. rank[i] \in S /\ rank[j] \in S /\ Place(S, R, rank[i]) = i /\ Place(S, R, rank[j]) = j
    BY <1>7
  <2>2. rank[i] # rank[j] /\ <<rank[j], rank[i]>> \in R
    BY <1>3, <1>4, <2>1
  <2>3. j < i
    BY <1>6, <2>1, <2>2
  <2> QED
    BY <1>1, <1>11, <2>3
<1> QED
  BY <1>1, <1>8, <1>9, <1>10, <1>11 DEF rank, S, n, more

(* What a board shows of a ranking: its first rows.                         *)
LEMMA BoardIsListed ==
  ASSUME NEW active, NEW snaps, NEW deltas, NEW sort, NEW order,
         NEW rows, rows = leaders(active, snaps), NEW n \in Nat,
         NEW rank, rank = Ranked(rows, deltas, sort, order), rank \in [1 .. n -> DOMAIN rows],
         NEW board, board = lp_leaders(active, snaps, deltas, sort, order),
         NEW size, size = MinOf(BoardSize, n)
  PROVE  /\ size \in 0 .. n /\ board.total = n
         /\ board.leaders = [i \in 1 .. size |->
                               Shown(rank[i], rows[rank[i]], Get(snaps, rank[i]), Get(deltas, rank[i]))]
         /\ \E S : board.leaders \in Seq(S) /\ Len(board.leaders) = size
<1> DEFINE kept == SubSeq(rank, 1, size)
           Row(i) == Shown(kept[i], rows[kept[i]], Get(snaps, kept[i]), Get(deltas, kept[i]))
<1>1. rank \in Seq(DOMAIN rows) /\ Len(rank) = n
  OBVIOUS
<1>2. size \in 0 .. n
  BY BoardAssumption DEF MinOf
<1>3. board.total = n /\ board.leaders = [i \in DOMAIN kept |-> Row(i)]
  BY <1>1 DEF lp_leaders
<1>4. DOMAIN kept = 1 .. size /\ \A i \in 1 .. size : kept[i] = rank[i]
  <2>1. \A i \in 1 .. size : rank[i] \in DOMAIN rows
    BY <1>2
  <2>2. 1 \in Int /\ size \in Int /\ size - 1 + 1 = size
    BY <1>2
  <2>3. /\ kept \in Seq(DOMAIN rows) /\ Len(kept) = (IF 1 <= size THEN size - 1 + 1 ELSE 0)
        /\ \A i \in 1 .. size - 1 + 1 : kept[i] = rank[1 + i - 1]
    BY ONLY <2>1, <2>2, SubSeqProperties
  <2> HIDE DEF kept
  <2>4. DOMAIN kept = 1 .. Len(kept) /\ Len(kept) = size
    BY <1>2, <2>3
  <2>5. ASSUME NEW i \in 1 .. size PROVE kept[i] = rank[i]
    <3>1. 1 + i - 1 = i /\ i \in 1 .. size - 1 + 1
      BY <1>2
    <3>2. kept[i] = rank[1 + i - 1]
      BY <2>3, <3>1
    <3> QED
      BY <3>1, <3>2
  <2> QED
    BY <2>4, <2>5
<1> HIDE DEF kept
<1>5. board.leaders = [i \in 1 .. size |->
                         Shown(rank[i], rows[rank[i]], Get(snaps, rank[i]), Get(deltas, rank[i]))]
  BY <1>3, <1>4
<1>6. \E S : board.leaders \in Seq(S) /\ Len(board.leaders) = size
  <2> DEFINE Of(i) == Shown(rank[i], rows[rank[i]], Get(snaps, rank[i]), Get(deltas, rank[i]))
             S == {Of(i) : i \in 1 .. size}
             listed == board.leaders
  <2>1. listed \in [1 .. size -> S]
    BY <1>5
  <2> HIDE DEF S, listed
  <2>2. listed \in Seq(S) /\ Len(listed) = size
    BY <1>2, <2>1
  <2> QED
    BY <2>2 DEF listed
<1> QED
  BY <1>2, <1>3, <1>5, <1>6

(* The pages of a list, one after the other, are the list, if they are as   *)
(* many as a total that is no less than its length asks for.               *)
LEMMA PagesFlatten ==
  ASSUME NEW S, NEW listed \in Seq(S), NEW total \in Nat, Len(listed) <= total, NEW limit \in Nat \ {0},
         NEW board, board.leaders = listed
  PROVE  FlattenSeq([pg \in 1 .. Pages(total, limit) |->
                       page_leader_response(board, pg, limit).leaders]) = listed
<1> DEFINE P == Pages(total, limit)
           m == Len(listed)
           End(p) == MinOf(p * limit, m)
           pages == [pg \in 1 .. P |-> page_leader_response(board, pg, limit).leaders]
           g == [pg \in 1 .. P |-> SubSeq(listed, 1, End(pg))]
<1>1. m \in Nat /\ m <= total
  BY LenProperties
<1>2. P \in Nat /\ P * limit >= total /\ (P = 0 => total = 0)
  BY DEF Pages
<1> HIDE DEF P, m
<1>3. ASSUME NEW pg \in 1 .. P
      PROVE  pages[pg] = SubSeq(listed, End(pg - 1) + 1, End(pg))
  <2>1. pages[pg] = SubSeq(listed, MinOf((pg - 1) * limit, m) + 1,
                                   MinOf(MinOf((pg - 1) * limit, m) + limit, m))
    BY DEF page_leader_response, m
  <2>2. (pg - 1) * limit = pg * limit - limit /\ pg * limit \in Nat /\ (pg - 1) * limit \in Nat
    BY <1>2
  <2>3. MinOf(MinOf((pg - 1) * limit, m) + limit, m) = End(pg)
    <3> DEFINE x == pg * limit
               y == (pg - 1) * limit
    <3>1. y = x - limit /\ x \in Nat /\ y \in Nat
      BY <2>2
    <3> HIDE DEF x, y
    <3>2. MinOf(MinOf(y, m) + limit, m) = MinOf(x, m)
      BY <1>1, <3>1 DEF MinOf
    <3> QED
      BY <3>2 DEF x, y
  <2> QED
    BY <2>1, <2>3
<1>4. ASSUME NEW pg \in 1 .. P
      PROVE  End(pg) \in 0 .. m /\ End(pg - 1) \in 0 .. End(pg) /\ End(0) = 0
  <2>1. (pg - 1) * limit = pg * limit - limit /\ pg * limit \in Nat /\ (pg - 1) * limit \in Nat
        /\ 0 * limit = 0
    BY <1>2
  <2> QED
    BY <1>1, <2>1 DEF MinOf
<1>5. End(P) = m
  BY <1>1, <1>2 DEF MinOf
<1> HIDE DEF End, pages
<1>6. CASE P = 0
  <2>1. total = 0 /\ m = 0
    BY <1>1, <1>2, <1>6
  <2>2. listed = <<>>
    BY <2>1, EmptySeq DEF m
  <2>3. pages = <<>>
    BY <1>6 DEF pages
  <2>4. FlattenSeq(<<>>) = <<>>
    BY DEF FlattenSeq
  <2> QED
    BY <2>2, <2>3, <2>4 DEF pages, P
<1>7. CASE P # 0
  <2>1. P \in Nat \ {0} /\ Len(pages) = P
    BY <1>2, <1>7 DEF pages
  <2>2. ASSUME NEW pg \in 1 .. P, pg # 1
        PROVE  SubSeq(listed, 1, End(pg)) = SubSeq(listed, 1, End(pg - 1)) \o pages[pg]
    <3>1. End(pg - 1) \in 0 .. m /\ End(pg) \in End(pg - 1) .. m
      BY <1>1, <1>4
    <3>2. SubSeq(listed, 1, End(pg - 1)) \o SubSeq(listed, End(pg - 1) + 1, End(pg)) = SubSeq(listed, 1, End(pg))
      <4>1. ASSUME NEW k \in 0 .. Len(listed), NEW n \in k .. Len(listed)
            PROVE  SubSeq(listed, 1, k) \o SubSeq(listed, k + 1, n) = SubSeq(listed, 1, n)
        <5>1. 1 \in 1 .. Len(listed) + 1 /\ k \in 1 - 1 .. Len(listed)
          BY <1>1 DEF m
        <5> QED
          BY ONLY <5>1, <4>1, ConcatAdjacentSubSeq, listed \in Seq(S)
      <4> QED
        BY <3>1, <4>1 DEF m
    <3> QED
      BY <1>3, <3>2
  <2>3. pages[1] = SubSeq(listed, 1, End(1))
    <3>1. PICK first \in 1 .. P : first = 1 /\ first - 1 = 0
      BY <2>1
    <3>2. pages[first] = SubSeq(listed, End(first - 1) + 1, End(first))
      BY <1>3
    <3>3. End(0) = 0
      BY <1>4, <3>1
    <3>4. pages[1] = SubSeq(listed, 0 + 1, End(1))
      BY ONLY <3>1, <3>2, <3>3, Zenon
    <3> QED
      BY <3>4
  <2>4. IsFlat(pages, P, g)
    <3>1. \A i \in 1 .. P : g[i] = SubSeq(listed, 1, End(i))
      OBVIOUS
    <3>2. g = [i \in 1 .. P |-> g[i]]
      OBVIOUS
    <3> HIDE DEF g
    <3>3. ASSUME NEW i \in 1 .. P
          PROVE  g[i] = IF i = 1 THEN pages[i] ELSE g[i - 1] \o pages[i]
      <4>1. CASE i = 1
        BY <2>3, <3>1, <4>1
      <4>2. CASE i # 1
        <5>1. i - 1 \in 1 .. P
          BY <1>2, <4>2
        <5>2. g[i] = SubSeq(listed, 1, End(i)) /\ g[i - 1] = SubSeq(listed, 1, End(i - 1))
          BY <3>1, <5>1
        <5> QED
          BY <2>2, <4>2, <5>2
      <4> QED
        BY <4>1, <4>2
    <3>4. [i \in 1 .. P |-> g[i]] = [i \in 1 .. P |-> IF i = 1 THEN pages[i] ELSE g[i - 1] \o pages[i]]
      BY <3>3
    <3> QED
      BY ONLY <3>2, <3>4, Zenon DEF IsFlat
  <2>5. FlattenSeq(pages) = g[P]
    <3> HIDE DEF g
    <3> QED
      BY <2>1, <2>4, Flattened
  <2>6. g[P] = listed
    BY <1>5, <2>1, SubSeqFull DEF m
  <2> QED
    BY <2>5, <2>6 DEF pages, P
<1> QED
  BY <1>6, <1>7

(* A board by fees shows its rows in the order they are sorted by.          *)
LEMMA BoardIsSorted ==
  ASSUME NEW active, NEW snaps, NEW deltas, IsBoard(active, snaps, deltas),
         NEW sort \in {"fees", "fee_cap"}, NEW order,
         NEW board, board = lp_leaders(active, snaps, deltas, sort, order)
  PROVE  /\ SortedAsShown(board.leaders, sort)
         /\ \E S : board.leaders \in Seq(S)
         /\ board.total \in Nat /\ Len(board.leaders) <= board.total
<1>0. PICK rows, n, rank, size :
        /\ rows = leaders(active, snaps) /\ n = Cardinality(DOMAIN rows)
        /\ rank = Rank(rows, deltas, sort) /\ size = MinOf(BoardSize, n)
  OBVIOUS
<1> DEFINE m(a) == Metric(rows[a], Get(deltas, a), sort)
           Row(i) == Shown(rank[i], rows[rank[i]], Get(snaps, rank[i]), Get(deltas, rank[i]))
<1>1. /\ Ranked(rows, deltas, sort, order) = rank
      /\ n \in Nat /\ rank \in [1 .. n -> DOMAIN rows]
      /\ \A i, j \in 1 .. n : i < j => ~Above(m(rank[j]), m(rank[i]))
  BY <1>0, RankStands
<1>2. /\ size \in 0 .. n /\ board.total = n /\ board.leaders = [i \in 1 .. size |-> Row(i)]
      /\ \E S : board.leaders \in Seq(S) /\ Len(board.leaders) = size
  BY <1>0, <1>1, BoardIsListed
<1>3. ASSUME NEW i \in 1 .. size, NEW j \in 1 .. size, i < j
      PROVE  ~Above(m(rank[j]), m(rank[i]))
  BY <1>1, <1>2, <1>3
<1>4. \A i \in 1 .. size :
        /\ rows[rank[i]].sums.claim_quote_xlm \in Nat /\ rows[rank[i]].sums.deposit_quote_xlm \in Nat
        /\ Some(Get(deltas, rank[i])) => Get(deltas, rank[i]) \in Int
  <2>1. \A a : Some(Get(deltas, a)) => Get(deltas, a) \in Int
    BY DEF Some, Get, IsBoard
  <2> QED
    BY <1>0, <1>1, <1>2, <2>1, RowsCompare
<1>5. ASSUME NEW i \in 1 .. size
      PROVE  /\ sort = "fees" /\ Some(Row(i).accrued) => m(rank[i]) = <<Row(i).accrued, 1>> /\ Row(i).accrued \in Int
             /\ sort = "fee_cap" /\ Some(Row(i).ratio) => m(rank[i]) = Row(i).ratio
  BY <1>4 DEF Shown, Metric, Accrued, OrZero, Some
<1>6. SortedAsShown(board.leaders, sort)
  <2> DEFINE listed == board.leaders
  <2>1. DOMAIN listed = 1 .. size /\ \A i \in 1 .. size : listed[i] = Row(i)
    BY <1>2
  <2> HIDE DEF Row, listed, m
  <2> SUFFICES ASSUME NEW i \in 1 .. size, NEW j \in 1 .. size, i < j
               PROVE  /\ sort = "fees" =>
                           (Some(listed[i].accrued) /\ Some(listed[j].accrued) => listed[i].accrued >= listed[j].accrued)
                      /\ sort = "fee_cap" =>
                           (Some(listed[i].ratio) /\ Some(listed[j].ratio) => ~Above(listed[j].ratio, listed[i].ratio))
    BY <2>1 DEF SortedAsShown, listed
  <2>2. ~Above(m(rank[j]), m(rank[i]))
    BY <1>3
  <2>3. listed[i] = Row(i) /\ listed[j] = Row(j)
    BY <2>1
  <2>4. CASE sort = "fees"
    <3> SUFFICES ASSUME Some(Row(i).accrued), Some(Row(j).accrued) PROVE Row(i).accrued >= Row(j).accrued
      BY <2>3, <2>4
    <3>1. /\ m(rank[i]) = <<Row(i).accrued, 1>> /\ Row(i).accrued \in Int
          /\ m(rank[j]) = <<Row(j).accrued, 1>> /\ Row(j).accrued \in Int
      BY <1>5, <2>4
    <3> QED
      BY <2>2, <3>1 DEF Above
  <2>5. CASE sort = "fee_cap"
    <3> SUFFICES ASSUME Some(Row(i).ratio), Some(Row(j).ratio) PROVE ~Above(Row(j).ratio, Row(i).ratio)
      BY <2>3, <2>5
    <3>1. m(rank[i]) = Row(i).ratio /\ m(rank[j]) = Row(j).ratio
      BY <1>5, <2>5
    <3> QED
      BY <2>2, <3>1
  <2> QED
    BY <2>4, <2>5
<1> QED
  BY <1>1, <1>2, <1>6

(* A board by activity does too, and every order of arrival leads to the    *)
(* same activity at every place.                                           *)
LEMMA ActivityIsSorted ==
  ASSUME NEW active, NEW snaps, NEW deltas, IsBoard(active, snaps, deltas), NEW first, IsOrder(first),
         NEW second, IsOrder(second), NEW board, board = lp_leaders(active, snaps, deltas, "activity", first),
         NEW other, other = lp_leaders(active, snaps, deltas, "activity", second)
  PROVE  /\ SortedAsShown(board.leaders, "activity") /\ SamePlaces(board, other)
         /\ \E S : board.leaders \in Seq(S)
         /\ board.total \in Nat /\ Len(board.leaders) <= board.total
<1>0. PICK rows, n, f, g, size :
        /\ rows = leaders(active, snaps) /\ n = Cardinality(DOMAIN rows)
        /\ f = Ranked(rows, deltas, "activity", first) /\ g = Ranked(rows, deltas, "activity", second)
        /\ size = MinOf(BoardSize, n)
  OBVIOUS
<1> DEFINE S == DOMAIN rows
           R == {r \in S \X S : MoreActive(rows[r[1]], rows[r[2]])}
           Row(h, i) == Shown(h[i], rows[h[i]], Get(snaps, h[i]), Get(deltas, h[i]))
<1>1. /\ n \in Nat /\ f \in [1 .. n -> S] /\ g \in [1 .. n -> S]
      /\ \A i, j \in 1 .. n : i # j => f[i] # f[j] /\ g[i] # g[j]
      /\ \A a \in S : (\E i \in 1 .. n : f[i] = a) /\ (\E i \in 1 .. n : g[i] = a)
      /\ \A i, j \in 1 .. n : i <= j => /\ ~MoreActive(rows[f[j]], rows[f[i]])
                                       /\ ~MoreActive(rows[g[j]], rows[g[i]])
  BY <1>0, ActivityStands
<1>2. /\ size \in 0 .. n /\ board.total = n /\ board.leaders = [i \in 1 .. size |-> Row(f, i)]
      /\ \E T : board.leaders \in Seq(T) /\ Len(board.leaders) = size
      /\ other.total = n /\ other.leaders = [i \in 1 .. size |-> Row(g, i)]
      /\ \E T : other.leaders \in Seq(T) /\ Len(other.leaders) = size
  <2>0. n \in Nat /\ f \in [1 .. n -> DOMAIN rows] /\ g \in [1 .. n -> DOMAIN rows]
    BY <1>1
  <2>1. /\ board.total = n /\ board.leaders = [i \in 1 .. size |-> Row(f, i)] /\ size \in 0 .. n
        /\ \E T : board.leaders \in Seq(T) /\ Len(board.leaders) = size
    BY ONLY <1>0, <2>0, BoardIsListed, board = lp_leaders(active, snaps, deltas, "activity", first)
  <2>2. /\ other.total = n /\ other.leaders = [i \in 1 .. size |-> Row(g, i)]
        /\ \E T : other.leaders \in Seq(T) /\ Len(other.leaders) = size
    BY ONLY <1>0, <2>0, BoardIsListed, other = lp_leaders(active, snaps, deltas, "activity", second)
  <2> QED
    BY <2>1, <2>2
<1>3. \A h, i : Row(h, i).row = rows[h[i]]
  BY DEF Shown
<1>4. \A a, b, c \in S :
        /\ MoreActive(rows[a], rows[c]) => MoreActive(rows[a], rows[b]) \/ MoreActive(rows[b], rows[c])
        /\ ~MoreActive(rows[a], rows[b]) /\ ~MoreActive(rows[b], rows[a]) => Activity(rows[a]) = Activity(rows[b])
  BY <1>0, ActivityIsWeak
<1>5. \A a, b \in S : <<a, b>> \in R <=> MoreActive(rows[a], rows[b])
  OBVIOUS
<1> HIDE DEF S, R, Row
<1>6. /\ \A a, b, c \in S : <<a, c>> \in R => <<a, b>> \in R \/ <<b, c>> \in R
      /\ \A i, j \in 1 .. n : i <= j => <<f[j], f[i]>> \notin R /\ <<g[j], g[i]>> \notin R
  BY <1>1, <1>4, <1>5
<1>7. /\ \A i \in 1 .. n : <<f[i], g[i]>> \notin R
      /\ \A i \in 1 .. n : <<g[i], f[i]>> \notin R
  <2>1. n \in Nat /\ IsWeak(S, R)
    BY <1>1, <1>6 DEF IsWeak
  <2>2. Lists(f, n, S, R) /\ Lists(g, n, S, R)
    BY <1>1, <1>6, Zenon DEF Lists
  <2> QED
    BY <2>1, <2>2, SameRank
<1>8. ASSUME NEW i \in 1 .. n PROVE Activity(rows[f[i]]) = Activity(rows[g[i]])
  <2>1. f[i] \in S /\ g[i] \in S
    BY <1>1
  <2>2. <<f[i], g[i]>> \notin R /\ <<g[i], f[i]>> \notin R
    BY <1>7
  <2> QED
    BY ONLY <1>4, <1>5, <2>1, <2>2
<1>9. \A i \in 1 .. size : i \in 1 .. n
  BY <1>1, <1>2
<1>10. SamePlaces(board, other)
  <2>1. DOMAIN board.leaders = 1 .. size
    BY ONLY <1>2
  <2>2. board.total = other.total /\ Len(board.leaders) = Len(other.leaders)
    BY ONLY <1>2
  <2>3. ASSUME NEW i \in 1 .. size
        PROVE  Activity(board.leaders[i].row) = Activity(other.leaders[i].row)
    <3>1. board.leaders[i] = Row(f, i) /\ other.leaders[i] = Row(g, i)
      BY ONLY <1>2, i \in 1 .. size
    <3>2. board.leaders[i].row = rows[f[i]] /\ other.leaders[i].row = rows[g[i]]
      BY ONLY <1>3, <3>1
    <3>3. Activity(rows[f[i]]) = Activity(rows[g[i]])
      BY <1>8, <1>9
    <3> QED
      BY ONLY <3>2, <3>3
  <2> QED
    BY ONLY <2>1, <2>2, <2>3 DEF SamePlaces
<1>11. SortedAsShown(board.leaders, "activity")
  <2> DEFINE listed == board.leaders
  <2>1. DOMAIN listed = 1 .. size /\ \A i \in 1 .. size : listed[i].row = rows[f[i]]
    BY <1>2, <1>3
  <2>2. \A i, j \in 1 .. size : i < j => ~MoreActive(rows[f[j]], rows[f[i]])
    BY <1>1, <1>2
  <2> HIDE DEF listed
  <2>3. \A i, j \in DOMAIN listed : i < j => ~MoreActive(listed[j].row, listed[i].row)
    BY <2>1, <2>2
  <2> QED
    BY <2>3 DEF SortedAsShown, listed
<1> QED
  BY <1>1, <1>2, <1>10, <1>11

(* A board by fees does not depend on the order its rows came in, one by    *)
(* activity only among rows of the same, and the pages are the board.      *)
LEMMA BoardsStay ==
  ASSUME NEW active, NEW snaps, NEW deltas, IsBoard(active, snaps, deltas),
         NEW orders, \A order \in orders : IsOrder(order)
  PROVE  BoardIsStable(active, snaps, deltas, orders)
<1> SUFFICES ASSUME NEW sort \in {"fees", "fee_cap", "activity"}, NEW first \in orders, NEW second \in orders
             PROVE  LET board == lp_leaders(active, snaps, deltas, sort, first)
                        other == lp_leaders(active, snaps, deltas, sort, second)
                    IN /\ IF sort = "activity" THEN SamePlaces(board, other) ELSE board = other
                       /\ SortedAsShown(board.leaders, sort)
                       /\ PagesAreBoard(board)
  BY DEF BoardIsStable
<1>0. PICK board, other : /\ board = lp_leaders(active, snaps, deltas, sort, first)
                          /\ other = lp_leaders(active, snaps, deltas, sort, second)
  OBVIOUS
<1>1. ASSUME sort # "activity" PROVE board = other
  <2>0. PICK rows, rank : rows = leaders(active, snaps) /\ rank = Rank(rows, deltas, sort)
    OBVIOUS
  <2>1. Ranked(rows, deltas, sort, first) = rank /\ Ranked(rows, deltas, sort, second) = rank
    BY ONLY <1>1, <2>0, IsBoard(active, snaps, deltas), RankStands
  <2> DEFINE kept(r) == SubSeq(r, 1, MinOf(BoardSize, Len(r)))
             Shows(r) == [total |-> Len(r),
                         leaders |-> [i \in DOMAIN kept(r) |->
                           Shown(kept(r)[i], rows[kept(r)[i]], Get(snaps, kept(r)[i]),
                                 Get(deltas, kept(r)[i]))]]
  <2>2. \A order : lp_leaders(active, snaps, deltas, sort, order) = Shows(Ranked(rows, deltas, sort, order))
    BY <2>0, Zenon DEF lp_leaders
  <2> HIDE DEF Shows
  <2> QED
    BY ONLY <1>0, <2>1, <2>2, Zenon
<1>2. /\ sort = "activity" => SamePlaces(board, other)
      /\ SortedAsShown(board.leaders, sort)
      /\ \E S : board.leaders \in Seq(S)
      /\ board.total \in Nat /\ Len(board.leaders) <= board.total
  <2>1. CASE sort = "activity"
    <3>1. IsOrder(first) /\ IsOrder(second)
      OBVIOUS
    <3>2. /\ board = lp_leaders(active, snaps, deltas, "activity", first)
          /\ other = lp_leaders(active, snaps, deltas, "activity", second)
      BY <1>0, <2>1
    <3>3. /\ SortedAsShown(board.leaders, "activity") /\ SamePlaces(board, other)
          /\ \E S : board.leaders \in Seq(S)
          /\ board.total \in Nat /\ Len(board.leaders) <= board.total
      BY ONLY <3>1, <3>2, IsBoard(active, snaps, deltas), ActivityIsSorted
    <3> QED
      BY <2>1, <3>3
  <2>2. CASE sort # "activity"
    <3>1. sort \in {"fees", "fee_cap"}
      BY <2>2
    <3>2. /\ SortedAsShown(board.leaders, sort)
          /\ \E S : board.leaders \in Seq(S)
          /\ board.total \in Nat /\ Len(board.leaders) <= board.total
      BY ONLY <1>0, <3>1, IsBoard(active, snaps, deltas), BoardIsSorted
    <3> QED
      BY <2>2, <3>2
  <2> QED
    BY <2>1, <2>2
<1>3. PagesAreBoard(board)
  <2> SUFFICES ASSUME NEW limit \in 1 .. BoardSize + 1
               PROVE  FlattenSeq([pg \in 1 .. Pages(board.total, limit) |->
                                    page_leader_response(board, pg, limit).leaders]) = board.leaders
    BY DEF PagesAreBoard
  <2>1. limit \in Nat \ {0}
    BY BoardAssumption
  <2>2. PICK S : board.leaders \in Seq(S)
    BY <1>2
  <2> QED
    BY ONLY <1>2, <2>1, <2>2, PagesFlatten
<1> QED
  BY <1>0, <1>1, <1>2, <1>3

(* No board by fees depends on the order its rows came in, no board by      *)
(* activity but for which of the equally active it shows at a place.       *)
THEOREM BoardDoesStay == ServicesSpec => []BoardStays
<1>1. InputInv => BoardStays
  <2> SUFFICES ASSUME InputInv, focus = "board"
               PROVE  BoardIsStable(input.active, input.snapshots, input.deltas, BoardOrders)
    BY DEF BoardStays
  <2>1. input \in BoardInputs
    BY DEF InputInv, Inputs
  <2>2. /\ IsBoard(input.active, input.snapshots, input.deltas)
        /\ \A order \in BoardOrders : IsOrder(order)
    BY <2>1, InputsAssumption
  <2> QED
    BY <2>2, BoardsStay
<1> QED
  BY <1>1, InputStays, PTL

-----------------------------------------------------------------------------
(* Fee snapshots *)

(* No rows are rows.                                                        *)
LEMMA NoRows == IsFees(<<>>) /\ DOMAIN <<>> = {}
<1>1. <<>> \in [{} -> Nat \cup {None}] /\ DOMAIN <<>> = {}
  OBVIOUS
<1> QED
  BY <1>1 DEF IsFees

(* Replacing and zeroing rows gives rows; rows over none are themselves.    *)
LEMMA FeeRows ==
  ASSUME NEW new, IsFees(new), NEW old, IsFees(old), NEW ps
  PROVE  /\ IsFees(Over(new, old)) /\ IsFees(record_history_zeroed(new, ps))
         /\ IsFees(<<>>) /\ Over(new, <<>>) = new
<1>1. PICK qs \in SUBSET FeePools : new \in [qs -> Nat \cup {None}]
  BY DEF IsFees
<1>2. PICK rs \in SUBSET FeePools : old \in [rs -> Nat \cup {None}]
  BY DEF IsFees
<1>3. Over(new, old) \in [qs \cup rs -> Nat \cup {None}]
  BY <1>1, <1>2 DEF Over
<1>5. record_history_zeroed(new, ps) \in [qs \cap ps -> Nat \cup {None}]
  BY <1>1 DEF record_history_zeroed
<1>6. IsFees(<<>>) /\ DOMAIN <<>> = {}
  BY NoRows
<1>7. Over(new, <<>>) = new
  BY <1>1, <1>6 DEF Over
<1> QED
  BY <1>1, <1>2, <1>3, <1>5, <1>6, <1>7 DEF IsFees

(* The positions written leave rows of pools that were read; when all of    *)
(* them are, every pool its last position's.                               *)
LEMMA KeptRows ==
  ASSUME NEW read \in Reads
  PROVE  /\ \A last \in Statements(read) : IsFees(Kept(read, last)) /\ DOMAIN Kept(read, last) \subseteq DOMAIN read
         /\ Every(read) \in Statements(read) /\ Kept(read, Every(read)) = LastFees(read)
         /\ IsFees(LastFees(read)) /\ DOMAIN LastFees(read) = DOMAIN read
<1>1. PICK ps \in SUBSET FeePools :
        read \in [ps -> Seq(Nat \cup {None})] /\ \A p \in ps : Len(read[p]) \in 1 .. MaxPositions
  BY FeeAssumption DEF IsRead
<1>2. MaxPositions \in Nat
  BY FeeAssumption
<1>3. ASSUME NEW last \in Statements(read)
      PROVE  IsFees(Kept(read, last)) /\ DOMAIN Kept(read, last) \subseteq DOMAIN read
  <2> DEFINE qs == {q \in ps : last[q] > 0}
  <2>1. \A p \in ps : last[p] \in Nat /\ last[p] <= Len(read[p]) /\ read[p] \in Seq(Nat \cup {None})
    BY <1>1, <1>2 DEF Statements
  <2>2. \A p \in qs : read[p][last[p]] \in Nat \cup {None}
    BY <2>1
  <2>3. Kept(read, last) = [p \in qs |-> read[p][last[p]]]
    BY <1>1 DEF Kept
  <2>4. Kept(read, last) \in [qs -> Nat \cup {None}] /\ qs \in SUBSET FeePools /\ qs \subseteq DOMAIN read
    BY <1>1, <2>2, <2>3
  <2> QED
    BY <2>4, Zenon DEF IsFees
<1>4. Every(read) \in Statements(read)
  BY <1>1, <1>2 DEF Every, Statements
<1>5. Kept(read, Every(read)) = LastFees(read)
  <2>1. \A q \in DOMAIN read : Every(read)[q] = Len(read[q]) /\ Every(read)[q] > 0
    BY <1>1 DEF Every
  <2>2. {q \in DOMAIN read : Every(read)[q] > 0} = DOMAIN read
    BY <2>1
  <2> QED
    BY <2>1, <2>2 DEF Kept, LastFees
<1>6. DOMAIN LastFees(read) = DOMAIN read
  BY DEF LastFees
<1> QED
  BY <1>3, <1>4, <1>5, <1>6

(* The rows are typed, and after a complete refresh each pool's is its last *)
(* position's.                                                             *)
RowsAreLast == Len(reads) \in complete => fees = LastFees(reads[Len(reads)])
FeeRowSets == UNION {[ps -> Nat \cup {None}] : ps \in SUBSET FeePools}
FeeInv == /\ FeeTypeOK /\ reads \in Seq(Reads) /\ history \in Seq(FeeRowSets) /\ RowsAreLast

(* A refresh, whichever of its statements took effect, keeps the rows       *)
(* typed; and one that completed leaves every pool its last position.       *)
LEMMA RefreshKeeps ==
  ASSUME FeeInv, NEW read \in Reads, NEW zeroed \in SUBSET DOMAIN fees, NEW cleared \in BOOLEAN,
         NEW upserted \in Statements(read), NEW recorded \in Statements(read),
         refresh(read, zeroed, cleared, upserted, recorded)
  PROVE  FeeInv'
<1> DEFINE rows == Over(Kept(read, recorded), record_history_zeroed(fees, zeroed))
           whole == zeroed = DOMAIN fees /\ cleared /\ upserted = Every(read) /\ recorded = Every(read)
<1>1. IsFees(fees)
  BY DEF FeeInv, FeeTypeOK
<1>2. IsFees(clear(fees, cleared)) /\ IsFees(Kept(read, upserted)) /\ IsFees(Kept(read, recorded))
      /\ IsFees(record_history_zeroed(fees, zeroed))
  BY <1>1, FeeRows, KeptRows DEF clear
<1>3. IsFees(fees') /\ IsFees(rows)
  BY <1>2, FeeRows DEF refresh
<1>4. rows \in FeeRowSets
  BY <1>3 DEF IsFees, FeeRowSets
<1>5. /\ reads' = Append(reads, read) /\ history' = Append(history, rows)
      /\ complete' = IF whole THEN complete \cup {Len(reads')} ELSE complete
      /\ forgot' \in BOOLEAN
      /\ fees' = Over(Kept(read, upserted), clear(fees, cleared))
  BY DEF refresh, FeeInv, FeeTypeOK
<1>6. /\ complete \subseteq 1 .. Len(reads) /\ Len(history) = Len(reads)
      /\ reads \in Seq(Reads) /\ history \in Seq(FeeRowSets)
      /\ \A t \in DOMAIN reads : reads[t] \in Reads /\ IsFees(history[t])
  BY DEF FeeInv, FeeTypeOK
<1> HIDE DEF rows, whole
<1>7. /\ reads' \in Seq(Reads) /\ history' \in Seq(FeeRowSets) /\ Len(reads') = Len(reads) + 1
      /\ Len(history') = Len(reads') /\ reads'[Len(reads')] = read
  BY <1>4, <1>5, <1>6
<1>8. complete' \subseteq 1 .. Len(reads')
  <2>1. Len(reads) \in Nat
    BY <1>6
  <2>2. complete' \subseteq complete \cup {Len(reads) + 1}
    BY <1>5, <1>7
  <2> QED
    BY <1>6, <1>7, <2>1, <2>2
<1>9. \A t \in DOMAIN reads' : reads'[t] \in Reads /\ IsFees(history'[t])
  <2> SUFFICES ASSUME NEW t \in DOMAIN reads' PROVE reads'[t] \in Reads /\ IsFees(history'[t])
    OBVIOUS
  <2>1. CASE t = Len(reads) + 1
    BY <1>3, <1>5, <1>6, <2>1
  <2>2. CASE t # Len(reads) + 1
    BY <1>5, <1>6, <2>2
  <2> QED
    BY <2>1, <2>2
<1>10. RowsAreLast'
  <2> SUFFICES ASSUME Len(reads') \in complete' PROVE fees' = LastFees(read)
    BY <1>7 DEF RowsAreLast
  <2>1. whole
    BY <1>5, <1>6, <1>7
  <2>2. fees' = Over(LastFees(read), <<>>)
    BY <1>5, <2>1, KeptRows DEF whole, clear
  <2> QED
    BY <2>2, KeptRows, FeeRows
<1> QED
  BY <1>3, <1>5, <1>7, <1>8, <1>9, <1>10 DEF FeeInv, FeeTypeOK

(* Whatever took effect, a step is a refresh.                               *)
LEMMA EachIsARefresh ==
  ASSUME FeeNext
  PROVE  \E read \in Reads, zeroed \in SUBSET DOMAIN fees, cleared \in BOOLEAN :
           \E upserted \in Statements(read), recorded \in Statements(read) :
             refresh(read, zeroed, cleared, upserted, recorded)
<1>1. PICK read \in Reads : CompleteRefresh(read) \/ PartialRefresh(read)
  BY DEF FeeNext
<1>2. /\ DOMAIN fees \in SUBSET DOMAIN fees /\ Every(read) \in Statements(read)
      /\ TRUE \in BOOLEAN
  BY KeptRows
<1>3. CASE CompleteRefresh(read)
  BY <1>2, <1>3, Zenon DEF CompleteRefresh
<1>4. CASE PartialRefresh(read)
  BY <1>4, Zenon DEF PartialRefresh
<1> QED
  BY <1>1, <1>3, <1>4

(* So does every step.                                                      *)
LEMMA StepFees == FeeInv /\ [FeeNext]_feeVars => FeeInv'
<1> SUFFICES ASSUME FeeInv, [FeeNext]_feeVars PROVE FeeInv'
  OBVIOUS
<1>1. CASE UNCHANGED feeVars
  BY <1>1 DEF feeVars, FeeInv, FeeTypeOK, RowsAreLast, IsFees
<1>2. CASE FeeNext
  <2>1. PICK read \in Reads, zeroed \in SUBSET DOMAIN fees, cleared \in BOOLEAN :
          \E upserted \in Statements(read), recorded \in Statements(read) :
            refresh(read, zeroed, cleared, upserted, recorded)
    BY <1>2, EachIsARefresh
  <2> QED
    BY <2>1, RefreshKeeps, Zenon
<1> QED
  BY <1>1, <1>2

(* So the invariant holds.                                                  *)
LEMMA FeesAreTyped == ServicesSpec => []FeeInv
<1>1. FeeInit => FeeInv
  <2> SUFFICES ASSUME FeeInit PROVE FeeInv
    OBVIOUS
  <2>1. fees = <<>> /\ reads = <<>> /\ history = <<>> /\ complete = {} /\ forgot = FALSE
    BY DEF FeeInit
  <2>2. Len(reads) = 0 /\ DOMAIN reads = {} /\ reads \in Seq(Reads) /\ history \in Seq(FeeRowSets)
    BY <2>1
  <2>3. FeeTypeOK
    BY <2>1, <2>2, NoRows DEF FeeTypeOK
  <2> QED
    BY <2>1, <2>2, <2>3 DEF FeeInv, RowsAreLast
<1> QED
  BY <1>1, StepFees, EachServiceRuns, PTL

(* The last row a pool got in the history up to refresh n is in refresh t.  *)
LastRow(p, t, n) ==
  /\ t \in 1 .. n /\ p \in DOMAIN history[t]
  /\ \A u \in t + 1 .. n : p \notin DOMAIN history[u]
Nothing(row) == row = 0 \/ row = None

(* A complete refresh leaves every pool it read with what it read as its    *)
(* last row and, unless a failure lost a row for good, every other pool    *)
(* with nothing; and what is not in the current rows ended with nothing.   *)
BoundaryIsRead ==
  \A t \in complete :
    /\ DOMAIN reads[t] \subseteq DOMAIN history[t]
    /\ \A p \in FeePools, u \in 1 .. t : LastRow(p, u, t) =>
         IF p \in DOMAIN reads[t] THEN history[u][p] = LastFees(reads[t])[p]
                                  ELSE ~forgot => Nothing(history[u][p])
GoneEndedAtNothing ==
  ~forgot => \A p \in FeePools \ DOMAIN fees, u \in 1 .. Len(reads) :
               LastRow(p, u, Len(reads)) => Nothing(history[u][p])
GrowthInv == BoundaryIsRead /\ GoneEndedAtNothing

(* What a refresh adds to the history.                                      *)
LEMMA NewRows ==
  ASSUME FeeInv, NEW logged, NEW zeroed \in SUBSET DOMAIN fees
  PROVE  LET rows == Over(logged, record_history_zeroed(fees, zeroed)) IN
         /\ DOMAIN rows = DOMAIN logged \cup zeroed
         /\ \A p \in DOMAIN logged : rows[p] = logged[p]
         /\ \A p \in zeroed \ DOMAIN logged : Nothing(rows[p])
<1> DEFINE b == record_history_zeroed(fees, zeroed)
<1>1. DOMAIN b = zeroed /\ \A p \in zeroed : Nothing(b[p])
  BY DEF record_history_zeroed, Nothing
<1> HIDE DEF b
<1>2. /\ DOMAIN Over(logged, b) = DOMAIN logged \cup zeroed
      /\ \A p \in DOMAIN logged : Over(logged, b)[p] = logged[p]
      /\ \A p \in zeroed \ DOMAIN logged : Over(logged, b)[p] = b[p]
  BY <1>1 DEF Over
<1> QED
  BY <1>1, <1>2, Zenon DEF b

(* Earlier refreshes keep their last rows; a new one has the last row of    *)
(* the pools it wrote, and the others keep the one they had.               *)
LEMMA LastRowMoves ==
  ASSUME FeeInv, NEW rows, history' = Append(history, rows), NEW p, NEW n, n = Len(reads)
  PROVE  /\ \A t \in 1 .. n : history'[t] = history[t]
         /\ \A m \in 1 .. n : \A t \in 1 .. m : LastRow(p, t, m)' <=> LastRow(p, t, m)
         /\ \A t \in 1 .. n + 1 : LastRow(p, t, n + 1)' =>
              \/ t = n + 1 /\ p \in DOMAIN rows
              \/ p \notin DOMAIN rows /\ t \in 1 .. n /\ LastRow(p, t, n)
         /\ history'[n + 1] = rows
<1>1. /\ n \in Nat /\ Len(history) = n /\ history \in Seq(FeeRowSets)
      /\ DOMAIN history = 1 .. n
  BY DEF FeeInv, FeeTypeOK
<1>2. /\ \A t \in 1 .. n : history'[t] = history[t]
      /\ history'[n + 1] = rows
  BY <1>1
<1>3. \A m \in 1 .. n : \A t \in 1 .. m : LastRow(p, t, m)' <=> LastRow(p, t, m)
  BY <1>1, <1>2 DEF LastRow
<1>4. ASSUME NEW t \in 1 .. n + 1, LastRow(p, t, n + 1)'
      PROVE  \/ t = n + 1 /\ p \in DOMAIN rows
             \/ p \notin DOMAIN rows /\ t \in 1 .. n /\ LastRow(p, t, n)
  <2>1. CASE t = n + 1
    BY <1>1, <1>2, <1>4, <2>1 DEF LastRow
  <2>2. CASE t \in 1 .. n
    <3>1. n + 1 \in t + 1 .. n + 1 /\ \A u \in t + 1 .. n : u \in t + 1 .. n + 1 /\ u \in 1 .. n
      BY <1>1, <2>2
    <3>2. p \notin DOMAIN rows
      BY <1>2, <1>4, <3>1 DEF LastRow
    <3>3. p \in DOMAIN history[t] /\ \A u \in t + 1 .. n : p \notin DOMAIN history[u]
      BY <1>2, <1>4, <2>2, <3>1 DEF LastRow
    <3> QED
      BY <1>1, <2>2, <3>2, <3>3 DEF LastRow
  <2> QED
    BY <1>1, <2>1, <2>2
<1> QED
  BY <1>2, <1>3, <1>4

(* So both hold after any refresh, whichever of its statements took effect. *)
LEMMA RefreshKeepsGrowth ==
  ASSUME FeeInv, FeeInv', GrowthInv, NEW read \in Reads, NEW zeroed \in SUBSET DOMAIN fees,
         NEW cleared \in BOOLEAN, NEW upserted \in Statements(read),
         NEW recorded \in Statements(read),
         refresh(read, zeroed, cleared, upserted, recorded)
  PROVE  GrowthInv'
<1> DEFINE logged == Kept(read, recorded)
           rows == Over(logged, record_history_zeroed(fees, zeroed))
<1>0. PICK n : n = Len(reads)
  OBVIOUS
<1>1. /\ n \in Nat /\ Len(history) = n /\ reads \in Seq(Reads) /\ history \in Seq(FeeRowSets)
      /\ complete \subseteq 1 .. n /\ forgot \in BOOLEAN
      /\ DOMAIN fees \subseteq FeePools
  BY <1>0 DEF FeeInv, FeeTypeOK, IsFees
<1>2. /\ history' = Append(history, rows) /\ reads' = Append(reads, read)
      /\ Len(reads') = n + 1 /\ reads'[n + 1] = read /\ \A t \in 1 .. n : reads'[t] = reads[t]
  BY <1>0, <1>1 DEF refresh
<1>3. /\ DOMAIN rows = DOMAIN logged \cup zeroed
      /\ \A p \in DOMAIN logged : rows[p] = logged[p]
      /\ \A p \in zeroed \ DOMAIN logged : Nothing(rows[p])
  BY NewRows
<1>4. DOMAIN fees' = DOMAIN Kept(read, upserted) \cup DOMAIN clear(fees, cleared)
  BY DEF refresh, Over
<1>5. /\ ~forgot' => /\ ~forgot /\ (cleared => zeroed = DOMAIN fees)
                     /\ DOMAIN logged \subseteq DOMAIN fees'
      /\ complete' \subseteq complete \cup {n + 1}
      /\ n + 1 \in complete' => zeroed = DOMAIN fees /\ logged = LastFees(read)
  BY <1>0, <1>1, <1>2, <1>4, KeptRows DEF refresh
<1>6. \A p : /\ \A t \in 1 .. n : history'[t] = history[t]
             /\ \A m \in 1 .. n : \A t \in 1 .. m : LastRow(p, t, m)' <=> LastRow(p, t, m)
             /\ \A t \in 1 .. n + 1 : LastRow(p, t, n + 1)' =>
                  \/ t = n + 1 /\ p \in DOMAIN rows
                  \/ p \notin DOMAIN rows /\ t \in 1 .. n /\ LastRow(p, t, n)
             /\ history'[n + 1] = rows
  <2> HIDE DEF rows
  <2> QED
    BY <1>0, <1>2, LastRowMoves
<1>7. DOMAIN clear(fees, cleared) = IF cleared THEN {} ELSE DOMAIN fees
  BY NoRows DEF clear
<1> HIDE DEF rows, logged
<1>8. BoundaryIsRead'
  <2> SUFFICES ASSUME NEW t \in complete'
               PROVE  /\ DOMAIN reads'[t] \subseteq DOMAIN history'[t]
                      /\ \A p \in FeePools, u \in 1 .. t : LastRow(p, u, t)' =>
                           IF p \in DOMAIN reads'[t] THEN history'[u][p] = LastFees(reads'[t])[p]
                                                     ELSE ~forgot' => Nothing(history'[u][p])
    BY DEF BoundaryIsRead
  <2>1. CASE t \in complete
    <3>1. t \in 1 .. n /\ t \in Nat /\ \A u \in 1 .. t : u \in 1 .. n
      BY <1>1, <2>1
    <3>2. history'[t] = history[t] /\ reads'[t] = reads[t]
      BY <1>2, <1>6, <3>1
    <3>3. DOMAIN reads[t] \subseteq DOMAIN history[t]
      BY <2>1 DEF GrowthInv, BoundaryIsRead
    <3>4. ASSUME NEW p \in FeePools, NEW u \in 1 .. t, LastRow(p, u, t)'
          PROVE  IF p \in DOMAIN reads'[t] THEN history'[u][p] = LastFees(reads'[t])[p]
                                           ELSE ~forgot' => Nothing(history'[u][p])
      <4>1. LastRow(p, u, t) /\ history'[u] = history[u]
        BY <1>6, <3>1, <3>4
      <4>2. IF p \in DOMAIN reads[t] THEN history[u][p] = LastFees(reads[t])[p]
                                     ELSE ~forgot => Nothing(history[u][p])
        BY <2>1, <4>1 DEF GrowthInv, BoundaryIsRead
      <4> QED
        BY <1>5, <3>2, <4>1, <4>2
    <3> QED
      BY <3>2, <3>3, <3>4
  <2>2. CASE t = n + 1
    <3>1. /\ zeroed = DOMAIN fees /\ logged = LastFees(read)
          /\ DOMAIN logged = DOMAIN read
      BY <1>5, <2>2, KeptRows
    <3>2. history'[t] = rows /\ reads'[t] = read
      BY <1>2, <1>6, <2>2
    <3>3. ASSUME NEW p \in FeePools, NEW u \in 1 .. t, LastRow(p, u, t)'
          PROVE  IF p \in DOMAIN read THEN history'[u][p] = LastFees(read)[p]
                                      ELSE ~forgot' => Nothing(history'[u][p])
      <4>1. CASE u = n + 1 /\ p \in DOMAIN rows
        BY <1>3, <2>2, <3>1, <3>2, <4>1
      <4>2. CASE p \notin DOMAIN rows /\ u \in 1 .. n /\ LastRow(p, u, n)
        <5>1. p \notin DOMAIN read /\ p \notin DOMAIN fees
          BY <1>3, <3>1, <4>2
        <5>2. ~forgot => Nothing(history[u][p])
          BY <1>0, <4>2, <5>1 DEF GrowthInv, GoneEndedAtNothing
        <5>3. history'[u] = history[u]
          BY <1>6, <4>2
        <5> QED
          BY <1>5, <5>1, <5>2, <5>3
      <4>3. u \in 1 .. n + 1 /\ LastRow(p, u, n + 1)'
        BY <2>2, <3>3
      <4>4. \/ u = n + 1 /\ p \in DOMAIN rows
            \/ p \notin DOMAIN rows /\ u \in 1 .. n /\ LastRow(p, u, n)
        BY <1>6, <4>3, Zenon
      <4> QED
        BY <4>1, <4>2, <4>4
    <3> QED
      BY <1>3, <3>1, <3>2, <3>3
  <2> QED
    BY <1>5, <2>1, <2>2
<1>9. GoneEndedAtNothing'
  <2> SUFFICES ASSUME ~forgot', NEW p \in FeePools \ DOMAIN fees', NEW u \in 1 .. n + 1,
                      LastRow(p, u, n + 1)'
               PROVE  Nothing(history'[u][p])
    <3>1. Len(reads') = n + 1
      BY <1>2
    <3> QED
      BY <3>1, Zenon DEF GoneEndedAtNothing
  <2>1. ~forgot /\ p \notin DOMAIN logged /\ (p \in DOMAIN fees => cleared /\ p \in zeroed)
    BY <1>4, <1>5, <1>7
  <2>2. CASE u = n + 1 /\ p \in DOMAIN rows
    BY <1>3, <1>6, <2>1, <2>2
  <2>3. CASE p \notin DOMAIN rows /\ u \in 1 .. n /\ LastRow(p, u, n)
    <3>1. p \notin DOMAIN fees
      BY <1>3, <2>1, <2>3
    <3>2. Nothing(history[u][p])
      BY <1>0, <2>1, <2>3, <3>1 DEF GrowthInv, GoneEndedAtNothing
    <3> QED
      BY <1>6, <2>3, <3>2
  <2> QED
    BY <1>6, <2>2, <2>3
<1> QED
  BY <1>8, <1>9 DEF GrowthInv

(* So they do after any step.                                               *)
LEMMA StepGrowth == FeeInv /\ FeeInv' /\ GrowthInv /\ [FeeNext]_feeVars => GrowthInv'
<1> SUFFICES ASSUME FeeInv, FeeInv', GrowthInv, [FeeNext]_feeVars PROVE GrowthInv'
  OBVIOUS
<1>1. CASE UNCHANGED feeVars
  BY <1>1 DEF feeVars, GrowthInv, BoundaryIsRead, GoneEndedAtNothing, LastRow
<1>2. CASE FeeNext
  <2>1. PICK read \in Reads, zeroed \in SUBSET DOMAIN fees, cleared \in BOOLEAN :
          \E upserted \in Statements(read), recorded \in Statements(read) :
            refresh(read, zeroed, cleared, upserted, recorded)
    BY <1>2, EachIsARefresh
  <2> QED
    BY <2>1, RefreshKeepsGrowth, Zenon
<1> QED
  BY <1>1, <1>2

(* A boundary is the last rows of its pools.                                *)
LEMMA BoundaryRows ==
  ASSUME FeeInv, NEW n \in 1 .. Len(reads)
  PROVE  /\ DOMAIN Boundary(n) = Recorded(n) /\ Recorded(n) \subseteq FeePools
         /\ \A p \in Recorded(n) : \E t \in 1 .. n : LastRow(p, t, n) /\ Boundary(n)[p] = history[t][p]
         /\ \A p, t : LastRow(p, t, n) => p \in Recorded(n)
<1>1. /\ Len(reads) \in Nat /\ Len(history) = Len(reads) /\ n \in Nat
      /\ \A t \in 1 .. n : IsFees(history[t])
  <2>1. Len(reads) \in Nat /\ DOMAIN reads = 1 .. Len(reads)
    BY DEF FeeInv
  <2> QED
    BY <2>1 DEF FeeInv, FeeTypeOK
<1>2. DOMAIN Boundary(n) = Recorded(n)
  BY DEF Boundary
<1>3. Recorded(n) \subseteq FeePools
  BY <1>1 DEF Recorded, IsFees
<1>4. ASSUME NEW p \in Recorded(n)
      PROVE  \E t \in 1 .. n : LastRow(p, t, n) /\ Boundary(n)[p] = history[t][p]
  <2> DEFINE Ts == {t \in 1 .. n : p \in DOMAIN history[t]}
             IsIt(t) == /\ p \in DOMAIN history[t]
                        /\ \A u \in t + 1 .. n : p \notin DOMAIN history[u]
             last == CHOOSE t \in 1 .. n : IsIt(t)
  <2>1. Ts \in SUBSET Nat /\ Ts # {} /\ \A t \in Ts : t <= n
    BY <1>1 DEF Recorded
  <2>2. PICK t \in Ts : \A u \in Ts : u <= t
    <3> HIDE DEF Ts
    <3> QED
      BY <1>1, <2>1, Greatest
  <2>3. t \in 1 .. n /\ IsIt(t)
    BY <1>1, <2>2
  <2>4. last \in 1 .. n /\ IsIt(last)
    <3> HIDE DEF IsIt
    <3> QED
      BY <2>3
  <2>5. Boundary(n)[p] = history[last][p]
    BY DEF Boundary
  <2> HIDE DEF last
  <2> QED
    BY <2>4, <2>5 DEF LastRow
<1>5. \A p, t : LastRow(p, t, n) => p \in Recorded(n)
  BY DEF LastRow, Recorded
<1> QED
  BY <1>2, <1>3, <1>4, <1>5

(* A complete refresh is a boundary: verified, its sum is that of what it   *)
(* read, as long as no failure lost a row for good.                        *)
LEMMA BoundarySums ==
  ASSUME FeeInv, GrowthInv, NEW since \in complete, ~forgot, Verified(Boundary(since))
  PROVE  LET base == Boundary(since)
             read == LastFees(reads[since])
         IN /\ IsFiniteSet(DOMAIN base) /\ \A p \in DOMAIN base : base[p] \in Int
            /\ Verified(read) /\ Total(base, DOMAIN base) = Total(read, DOMAIN read)
<1> DEFINE base == Boundary(since)
           read == LastFees(reads[since])
<1>1. /\ since \in 1 .. Len(reads) /\ Len(reads) \in Nat /\ DOMAIN read = DOMAIN reads[since] /\ IsFees(read)
      /\ \A t \in 1 .. since : IsFees(history[t])
  <2>1. /\ Len(reads) \in Nat /\ DOMAIN reads = 1 .. Len(reads) /\ complete \subseteq 1 .. Len(reads)
        /\ \A t \in DOMAIN reads : reads[t] \in Reads /\ IsFees(history[t])
    BY DEF FeeInv, FeeTypeOK
  <2> QED
    BY <2>1, KeptRows
<1>2. /\ DOMAIN base = Recorded(since) /\ Recorded(since) \subseteq FeePools
      /\ \A p \in Recorded(since) : \E t \in 1 .. since : LastRow(p, t, since) /\ base[p] = history[t][p]
  BY <1>1, BoundaryRows
<1>3. IsFiniteSet(DOMAIN base)
  BY <1>2, FeeAssumption, FS_Subset
<1>4. DOMAIN read \subseteq DOMAIN base
  <2>1. DOMAIN reads[since] \subseteq DOMAIN history[since]
    BY DEF GrowthInv, BoundaryIsRead
  <2> QED
    BY <1>1, <1>2, <2>1 DEF Recorded
<1>5. ASSUME NEW p \in DOMAIN base
      PROVE  base[p] \in Int /\ base[p] = IF p \in DOMAIN read THEN read[p] ELSE 0
  <2>1. PICK t \in 1 .. since : LastRow(p, t, since) /\ base[p] = history[t][p]
    BY <1>2
  <2>2. base[p] # None
    BY DEF Verified, Some
  <2>3. p \in FeePools /\ p \in DOMAIN history[t] /\ IsFees(history[t])
    BY <1>1, <1>2, <2>1 DEF LastRow
  <2>4. history[t][p] \in Nat \cup {None}
    BY <2>3 DEF IsFees
  <2>5. IF p \in DOMAIN read THEN history[t][p] = read[p] ELSE Nothing(history[t][p])
    BY <1>1, <2>1, <2>3 DEF GrowthInv, BoundaryIsRead
  <2> QED
    BY <2>1, <2>2, <2>4, <2>5 DEF Nothing
<1> HIDE DEF base, read
<1>6. Verified(read)
  <2> SUFFICES ASSUME NEW p \in DOMAIN read PROVE read[p] # None
    BY DEF Verified, Some
  <2>1. read[p] \in Int /\ base[p] # None
    BY <1>4, <1>5 DEF base, Verified, Some
  <2> QED
    BY <1>4, <1>5, <2>1
<1>7. SumOver(base, DOMAIN base) = SumOver(base, DOMAIN read)
  BY <1>3, <1>4, <1>5, SumRest
<1>8. SumOver(base, DOMAIN read) = SumOver(read, DOMAIN read)
  <2>1. IsFiniteSet(DOMAIN read) /\ \A p \in DOMAIN read : base[p] \in Int /\ base[p] = read[p]
    BY <1>3, <1>4, <1>5, FS_Subset
  <2> QED
    BY <2>1, SumSame
<1>9. Total(base, DOMAIN base) = Total(read, DOMAIN read)
  BY <1>7, <1>8 DEF Total, SumOver
<1> QED
  BY <1>3, <1>5, <1>6, <1>9 DEF base, read

(* So the accrued fees, on the board and in the profile, are the growth.    *)
LEMMA DeltasGrow == FeeInv /\ GrowthInv => DeltaIsGrowth
<1> SUFFICES ASSUME FeeInv, GrowthInv, NEW since \in complete, Len(reads) \in complete, ~forgot,
                    NEW delta \in {board_delta(since), profile_delta(since)}, delta # None
             PROVE  LET first == LastFees(reads[since])
                        last == LastFees(reads[Len(reads)])
                    IN /\ Verified(first) /\ Verified(last)
                       /\ delta = Total(last, DOMAIN last) - Total(first, DOMAIN first)
  BY DEF DeltaIsGrowth, Some
<1> DEFINE base == Boundary(since)
           drop == DOMAIN base \ DOMAIN fees
           less == [p \in DOMAIN fees |-> fees[p] - base[p]]
           first == LastFees(reads[since])
<1>1. fees = LastFees(reads[Len(reads)])
  BY DEF FeeInv, RowsAreLast
<1>2. /\ Verified(base) /\ Verified(fees) /\ DOMAIN fees \subseteq DOMAIN base
      /\ delta \in {Total(less, DOMAIN fees) - Total(base, drop),
                    Total(fees, DOMAIN fees) - Total(base, DOMAIN base)}
  BY DEF board_delta, profile_delta
<1> HIDE DEF base
<1>3. /\ IsFiniteSet(DOMAIN base) /\ \A p \in DOMAIN base : base[p] \in Int
      /\ Verified(first) /\ Total(base, DOMAIN base) = Total(first, DOMAIN first)
  BY <1>2, BoundarySums DEF base
<1>4. \A p \in DOMAIN fees : fees[p] \in Int
  BY <1>2 DEF FeeInv, FeeTypeOK, IsFees, Verified, Some
<1>5. SumOver(less, DOMAIN fees) - SumOver(base, drop)
        = SumOver(fees, DOMAIN fees) - SumOver(base, DOMAIN base)
  BY <1>2, <1>3, <1>4, SumMinus
<1>6. delta = Total(fees, DOMAIN fees) - Total(base, DOMAIN base)
  <2> HIDE DEF less, drop
  <2> QED
    BY <1>2, <1>5 DEF Total, SumOver
<1> QED
  BY <1>1, <1>2, <1>3, <1>6

(* Whatever pools an actor opens and closes, and whatever refreshes fail in *)
(* between, the accrued fees of a window are what the kept fees, the last    *)
(* position of each pool, grew by, and are unavailable rather than smaller *)
(* when a value is missing.                                                *)
THEOREM DeltasAreGrowth == ServicesSpec => []DeltaIsGrowth
<1>1. FeeInit => GrowthInv
  <2> SUFFICES ASSUME FeeInit PROVE GrowthInv
    OBVIOUS
  <2>1. complete = {} /\ Len(reads) = 0
    BY DEF FeeInit
  <2> QED
    BY <2>1 DEF GrowthInv, BoundaryIsRead, GoneEndedAtNothing, LastRow
<1> QED
  BY <1>1, StepGrowth, FeesAreTyped, EachServiceRuns, DeltasGrow, PTL

-----------------------------------------------------------------------------
(* Event pages *)

(* The events of the ledgers before one are the chain's first ones.         *)
LEMMA EarlierEvents ==
  ASSUME NEW ledger \in Nat
  PROVE  /\ Earlier(ledger) \in 0 .. Len(Chain)
         /\ \A i \in DOMAIN Chain : i <= Earlier(ledger) <=> Chain[i] < ledger
<1> DEFINE n == Len(Chain)
           later == {i \in 1 .. n + 1 : i = n + 1 \/ Chain[i] >= ledger}
<1>1. /\ n \in Nat /\ DOMAIN Chain = 1 .. n /\ \A i \in 1 .. n : Chain[i] \in Nat
      /\ \A i, j \in 1 .. n : i < j => Chain[i] <= Chain[j]
  BY PagesAssumption
<1> HIDE DEF n
<1>2. PICK m \in later : \A i \in later : m <= i
  <2>1. later \in SUBSET Nat
    BY <1>1
  <2>2. n + 1 \in later
    BY <1>1
  <2> QED
    BY <2>1, <2>2, Least
<1>3. m \in 1 .. n + 1 /\ (m = n + 1 \/ Chain[m] >= ledger)
  OBVIOUS
<1>4. \A i \in 1 .. n : i <= m - 1 => Chain[i] < ledger
  BY <1>1, <1>2, <1>3
<1>5. \A i \in 1 .. n : i > m - 1 => ~(Chain[i] < ledger)
  <2> SUFFICES ASSUME NEW i \in 1 .. n, i > m - 1 PROVE Chain[i] >= ledger
    BY <1>1
  <2>1. m \in 1 .. n /\ Chain[m] >= ledger /\ m <= i
    BY <1>1, <1>3
  <2>2. Chain[m] <= Chain[i]
    BY <1>1, <2>1
  <2> QED
    BY <1>1, <2>1, <2>2
<1>6. \E k \in 0 .. n : \A i \in 1 .. n : i <= k <=> Chain[i] < ledger
  <2>1. m - 1 \in 0 .. n
    BY <1>1, <1>3
  <2>2. \A i \in 1 .. n : i <= m - 1 <=> Chain[i] < ledger
    BY <1>1, <1>3, <1>4, <1>5
  <2> QED
    BY <2>1, <2>2
<1> QED
  BY <1>1, <1>6 DEF Earlier, n

(* A later ledger has no fewer events before it.                            *)
LEMMA EarlierGrows ==
  ASSUME NEW a \in Nat, NEW b \in Nat, a <= b
  PROVE  Earlier(a) <= Earlier(b)
<1> DEFINE e == Earlier(a)
<1>1. /\ Len(Chain) \in Nat /\ DOMAIN Chain = 1 .. Len(Chain)
      /\ \A i \in DOMAIN Chain : Chain[i] \in Nat
  BY PagesAssumption
<1>2. e \in 0 .. Len(Chain) /\ \A i \in DOMAIN Chain : i <= e <=> Chain[i] < a
  BY EarlierEvents
<1>3. Earlier(b) \in 0 .. Len(Chain) /\ \A i \in DOMAIN Chain : i <= Earlier(b) <=> Chain[i] < b
  BY EarlierEvents
<1> HIDE DEF e
<1>4. CASE e = 0
  BY <1>1, <1>3, <1>4 DEF e
<1>5. CASE e # 0
  <2>1. e \in DOMAIN Chain /\ Chain[e] < a /\ Chain[e] \in Nat
    BY <1>1, <1>2, <1>5
  <2>2. e <= Earlier(b)
    BY <1>3, <2>1
  <2> QED
    BY <2>2 DEF e
<1> QED
  BY <1>4, <1>5

(* What has been collected is the chain from the range's first event on,    *)
(* without a gap and as far as the cursor, and nothing that does not exist  *)
(* yet; a search that ended well has passed the range or met the cap, or   *)
(* an answer listed no events.                                             *)
Start == Earlier(range[1])
PagesInv ==
  /\ head \in 1 .. MaxHead /\ range \in Nat \X Nat /\ range[1] <= range[2] /\ range[2] <= head + 1
  /\ page \in Nat /\ attempt \in 0 .. MaxAttempts - 1 /\ outcome \in {"idle", "running", "ok", "error"}
  /\ all \in Seq(Nat) /\ \A k \in DOMAIN all : all[k] = Start + k
  /\ page = (IF all = <<>> THEN 0 ELSE Start + Len(all)) \/ outcome # "running"
  /\ page <= Len(Chain) /\ Start + Len(all) <= Earlier(head + 1)
  /\ outcome = "idle" => all = <<>> /\ page = 0
  /\ unlisted \in BOOLEAN
  /\ outcome = "ok" /\ ~unlisted => Len(all) >= EventCap \/ Start + Len(all) >= Earlier(range[2])

(* An answer continues what was collected, reaches no event that does not   *)
(* exist yet, and is short only where the range ends.                       *)
LEMMA AnswerIsNext ==
  ASSUME PagesInv, outcome = "running"
  PROVE  /\ Answered \in Seq(Nat) /\ all \o Answered \in Seq(Nat)
         /\ Len(all \o Answered) = Len(all) + Len(Answered)
         /\ \A k \in DOMAIN (all \o Answered) : (all \o Answered)[k] = Start + k
         /\ Start + Len(all \o Answered) <= Earlier(head + 1)
         /\ Len(Answered) < PageLimit => Start + Len(all \o Answered) >= Earlier(range[2])
         /\ Answered # <<>> => Last(Answered) = Start + Len(all \o Answered)
<1> DEFINE skipped == IF page = 0 THEN Earlier(range[1]) ELSE page
           last    == IF page = 0 THEN Earlier(range[2]) ELSE Earlier(head + 1)
           n == MinOf(PageLimit, last - skipped)
<1>1. /\ head \in Nat /\ range[1] \in Nat /\ range[2] \in Nat /\ head + 1 \in Nat
      /\ range[1] <= range[2] /\ range[2] <= head + 1
      /\ all \in Seq(Nat) /\ Len(all) \in Nat /\ DOMAIN all = 1 .. Len(all)
  BY DEF PagesInv
<1>2. Start \in Nat /\ Earlier(range[2]) \in Nat /\ Earlier(head + 1) \in Nat
      /\ Start <= Earlier(range[2]) /\ Earlier(range[2]) <= Earlier(head + 1)
  <2>1. \A l \in Nat : Earlier(l) \in Nat
    BY EarlierEvents
  <2>2. Earlier(range[1]) <= Earlier(range[2])
    BY <1>1, EarlierGrows
  <2>3. Earlier(range[2]) <= Earlier(head + 1)
    BY <1>1, EarlierGrows
  <2>4. Earlier(range[1]) \in Nat /\ Earlier(range[2]) \in Nat /\ Earlier(head + 1) \in Nat
    BY <1>1, <2>1
  <2> QED
    BY <2>2, <2>3, <2>4 DEF Start
<1>3. skipped = Start + Len(all) /\ skipped \in Nat
  BY <1>1, <1>2 DEF PagesInv, Start
<1>4. last - skipped \in Nat /\ last \in {Earlier(range[2]), Earlier(head + 1)}
  <2>1. Start + Len(all) <= Earlier(head + 1)
    BY DEF PagesInv
  <2>2. page = 0 => skipped = Start /\ last = Earlier(range[2])
    BY DEF Start
  <2>3. page # 0 => last = Earlier(head + 1)
    OBVIOUS
  <2> HIDE DEF skipped, last
  <2> QED
    BY ONLY <1>1, <1>2, <1>3, <2>1, <2>2, <2>3
<1>5. PageLimit \in Nat \ {0} /\ n \in Nat /\ n <= last - skipped /\ n <= PageLimit
      /\ (n < PageLimit => n = last - skipped)
  BY <1>4, PagesAssumption DEF MinOf
<1>6. Answered = [k \in 1 .. n |-> skipped + k]
  BY DEF Answered
<1> HIDE DEF skipped, last, n
<1>7. Answered \in Seq(Nat) /\ Len(Answered) = n /\ \A k \in 1 .. n : Answered[k] = Start + Len(all) + k
  BY <1>1, <1>2, <1>3, <1>5, <1>6
<1>8. /\ all \o Answered \in Seq(Nat) /\ Len(all \o Answered) = Len(all) + n
      /\ \A k \in 1 .. Len(all) + n :
           (all \o Answered)[k] = IF k <= Len(all) THEN all[k] ELSE Answered[k - Len(all)]
  <2>1. all \in Seq(Nat) /\ Answered \in Seq(Nat) /\ Len(Answered) = n
    BY <1>1, <1>7
  <2> HIDE DEF PagesInv, Answered
  <2> QED
    BY <2>1
<1>9. \A k \in DOMAIN (all \o Answered) : (all \o Answered)[k] = Start + k
  <2> SUFFICES ASSUME NEW k \in 1 .. Len(all) + n PROVE (all \o Answered)[k] = Start + k
    BY <1>8
  <2>1. CASE k <= Len(all)
    <3>1. (all \o Answered)[k] = all[k] /\ k \in DOMAIN all
      BY <1>1, <1>8, <2>1
    <3> QED
      BY <3>1 DEF PagesInv
  <2>2. CASE k > Len(all)
    <3>1. (all \o Answered)[k] = Answered[k - Len(all)] /\ k - Len(all) \in 1 .. n
      BY <1>1, <1>5, <1>8, <2>2
    <3> QED
      BY <1>1, <1>2, <1>7, <3>1
  <2>3. k <= Len(all) \/ k > Len(all)
    BY <1>1, <1>5
  <2> QED
    BY <2>1, <2>2, <2>3
<1>10. Start + Len(all \o Answered) = skipped + n
  BY <1>1, <1>2, <1>3, <1>5, <1>8
<1>11. skipped + n <= Earlier(head + 1) /\ (n < PageLimit => skipped + n >= Earlier(range[2]))
  BY <1>2, <1>3, <1>4, <1>5
<1>12. ASSUME Answered # <<>> PROVE Last(Answered) = Start + Len(all \o Answered)
  <2>1. n # 0
    BY <1>5, <1>7, <1>12
  <2> QED
    BY <1>1, <1>2, <1>5, <1>7, <1>8, <2>1 DEF Last
<1> QED
  BY <1>7, <1>8, <1>9, <1>10, <1>11, <1>12

(* Every step keeps the invariant.                                          *)
LEMMA StepPages == PagesInv /\ [PagesNext]_pageVars => PagesInv'
<1> SUFFICES ASSUME PagesInv, [PagesNext]_pageVars PROVE PagesInv'
  OBVIOUS
<1> USE DEF PagesInv
<1>1. /\ Len(Chain) \in Nat /\ MaxAttempts \in Nat \ {0} /\ MaxHead \in Nat /\ EventCap \in Nat
  BY PagesAssumption
<1>2. \A l \in Nat : Earlier(l) \in Nat /\ Earlier(l) <= Len(Chain)
  <2> SUFFICES ASSUME NEW l \in Nat PROVE Earlier(l) \in Nat /\ Earlier(l) <= Len(Chain)
    OBVIOUS
  <2>1. Earlier(l) \in 0 .. Len(Chain)
    BY EarlierEvents
  <2> QED
    BY <1>1, <2>1
<1>3. head \in Nat /\ range[1] \in Nat /\ range[2] \in Nat /\ Len(all) \in Nat
  BY <1>1
<1>4. Start \in Nat
  BY <1>2, <1>3 DEF Start
<1>5. /\ head \in Nat /\ range[1] \in Nat /\ range[2] \in Nat /\ Len(all) \in Nat /\ Start \in Nat
      /\ \A l \in Nat : Earlier(l) \in Nat /\ Earlier(l) <= Len(Chain)
      /\ Len(Chain) \in Nat /\ MaxAttempts \in Nat \ {0} /\ MaxHead \in Nat /\ EventCap \in Nat
  BY <1>1, <1>2, <1>3, <1>4
<1>6. CASE Closes
  <2>1. /\ head' = head + 1 /\ head' \in 1 .. MaxHead
        /\ UNCHANGED <<range, page, attempt, all, outcome, unlisted>> /\ Start' = Start
    BY <1>5, <1>6 DEF Closes, Start
  <2>2. Earlier(head + 1) <= Earlier(head' + 1)
    BY <1>5, <2>1, EarlierGrows
  <2>3. Start + Len(all) <= Earlier(head' + 1)
    BY <1>5, <2>1, <2>2
  <2> QED
    BY <1>5, <2>1, <2>3
<1>7. CASE Asked
  <2>1. /\ all = <<>> /\ page = 0 /\ outcome' = "running" /\ UNCHANGED <<head, page, attempt, all, unlisted>>
        /\ range' \in Nat \X Nat /\ range'[1] <= range'[2] /\ range'[2] <= head + 1
    <3>1. PICK r \in (1 .. head) \X (2 .. head + 1) : r[1] < r[2] /\ range' = r
      BY <1>7 DEF Asked
    <3>2. r \in Nat \X Nat /\ r[1] <= r[2] /\ r[2] <= head + 1
      <4> HIDE DEF PagesInv
      <4>1. r = <<r[1], r[2]>> /\ r[1] \in 1 .. head /\ r[2] \in 2 .. head + 1 /\ r[1] < r[2]
        BY <3>1
      <4>2. head \in Nat
        BY <1>5
      <4>3. r[1] \in Nat /\ r[2] \in Nat /\ r[1] <= r[2] /\ r[2] <= head + 1
        BY <4>1, <4>2
      <4> QED
        BY <4>1, <4>3
    <3> QED
      BY <1>7, <3>1, <3>2 DEF Asked
  <2>2. Start' = Earlier(range'[1]) /\ Start' \in Nat /\ Start' <= Earlier(head + 1)
    <3>1. range'[1] \in Nat /\ range'[1] <= head + 1 /\ head + 1 \in Nat
      BY <1>5, <2>1
    <3> QED
      BY <1>5, <3>1, EarlierGrows DEF Start
  <2>3. Len(all) = 0 /\ DOMAIN all = {} /\ Start' + Len(all') <= Earlier(head' + 1)
    BY <1>5, <2>1, <2>2
  <2> QED
    BY <1>5, <2>1, <2>3
<1>8. CASE get_events
  <2>0. /\ head \in 1 .. MaxHead /\ range \in Nat \X Nat /\ range[1] <= range[2] /\ range[2] <= head + 1
        /\ page \in Nat /\ page <= Len(Chain) /\ unlisted \in BOOLEAN
    OBVIOUS
  <2> HIDE DEF PagesInv
  <2>1. outcome = "running" /\ attempt' = 0 /\ all' = all \o Answered /\ UNCHANGED <<head, range, unlisted>>
    BY <1>8 DEF get_events
  <2>2. Start' = Start
    BY <2>1 DEF Start
  <2>3. /\ Answered \in Seq(Nat) /\ all' \in Seq(Nat) /\ Len(all') = Len(all) + Len(Answered)
        /\ \A k \in DOMAIN all' : all'[k] = Start + k
        /\ Start + Len(all') <= Earlier(head + 1)
        /\ Len(Answered) < PageLimit => Start + Len(all') >= Earlier(range[2])
        /\ Answered # <<>> => Last(Answered) = Start + Len(all')
    BY <2>1, AnswerIsNext
  <2>4. Len(Answered) \in Nat /\ (Answered = <<>> <=> Len(Answered) = 0) /\ PageLimit \in Nat \ {0}
    <3>1. Answered \in Seq(Nat)
      BY <2>3
    <3> HIDE DEF Answered, PagesInv
    <3> QED
      BY <3>1, PagesAssumption
  <2> DEFINE cursor == IF Answered = <<>> THEN 0 ELSE Last(Answered)
  <2>5. CASE Exhausted(Answered, cursor, Len(all'))
    <3>1. outcome' = "ok" /\ UNCHANGED page
      BY <1>8, <2>5 DEF get_events
    <3>2. Len(all') >= EventCap \/ Start + Len(all') >= Earlier(range[2])
      <4>1. ASSUME cursor = 0 PROVE Answered = <<>>
        BY <1>5, <2>3, <2>4, <4>1
      <4> QED
        BY <2>3, <2>4, <2>5, <4>1 DEF Exhausted
    <3>3. attempt' \in 0 .. MaxAttempts - 1
      BY <1>5, <2>1
    <3>4. range'[2] <= head' + 1 /\ Start' + Len(all') <= Earlier(head' + 1)
      BY <2>0, <2>1, <2>2, <2>3
    <3>5. Len(all') >= EventCap \/ Start' + Len(all') >= Earlier(range'[2])
      BY <2>1, <2>2, <3>2
    <3> QED
      BY <2>0, <2>1, <2>2, <2>3, <3>1, <3>3, <3>4, <3>5 DEF PagesInv
  <2>6. CASE ~Exhausted(Answered, cursor, Len(all'))
    <3>1. page' = cursor /\ outcome' = "running"
      BY <1>8, <2>1, <2>6 DEF get_events
    <3>2. Answered # <<>>
      BY <2>6 DEF Exhausted
    <3>3. page' = Start + Len(all') /\ all' # <<>>
      <4>1. Len(all') > 0
        BY <1>5, <2>3, <2>4, <3>2
      <4> QED
        BY <2>3, <3>1, <3>2, <4>1
    <3>4. page' \in Nat /\ page' <= Len(Chain)
      <4>1. /\ Earlier(head + 1) <= Len(Chain) /\ Earlier(head + 1) \in Nat /\ Len(all') \in Nat
            /\ Start \in Nat /\ Len(Chain) \in Nat
        BY <1>5, <2>3, <2>4
      <4>2. page' = Start + Len(all') /\ Start + Len(all') <= Earlier(head + 1)
        BY <2>3, <3>3
      <4> QED
        BY <4>1, <4>2
    <3>5. attempt' \in 0 .. MaxAttempts - 1
      BY <1>5, <2>1
    <3>6. range'[2] <= head' + 1 /\ Start' + Len(all') <= Earlier(head' + 1)
      BY <2>0, <2>1, <2>2, <2>3
    <3> QED
      BY <2>0, <2>1, <2>2, <2>3, <3>1, <3>3, <3>4, <3>5, <3>6 DEF PagesInv
  <2> QED
    BY <2>5, <2>6
<1>9. CASE post_json_with_retry \/ RpcError
  <2>1. /\ outcome = "running" /\ outcome' \in {"running", "error"} /\ attempt' \in 0 .. MaxAttempts - 1
        /\ UNCHANGED <<head, range, page, all, unlisted>> /\ Start' = Start
    <3>1. CASE post_json_with_retry
      <4>1. attempt \in 0 .. MaxAttempts - 1
        OBVIOUS
      <4> HIDE DEF PagesInv
      <4>2. attempt' \in 0 .. MaxAttempts - 1 /\ outcome' \in {"running", "error"}
        BY <1>1, <3>1, <4>1 DEF post_json_with_retry
      <4> QED
        BY <3>1, <4>2 DEF post_json_with_retry, Start
    <3>2. CASE RpcError
      BY <1>5, <3>2 DEF RpcError, Start
    <3> QED
      BY <1>9, <3>1, <3>2
  <2> QED
    BY <2>1
<1>10. CASE Unlisted
  <2>1. /\ outcome = "running" /\ outcome' = "ok" /\ attempt' = 0 /\ unlisted' = TRUE
        /\ UNCHANGED <<head, range, page, all>> /\ Start' = Start
    BY <1>10 DEF Unlisted, Start
  <2> QED
    BY <1>1, <2>1
<1>11. CASE UNCHANGED pageVars
  BY <1>11 DEF pageVars, Start
<1> QED
  BY <1>6, <1>7, <1>8, <1>9, <1>10, <1>11 DEF PagesNext

(* So it holds.                                                             *)
LEMMA PagesAreCollected == ServicesSpec => []PagesInv
<1>1. PagesInit => PagesInv
  <2> SUFFICES ASSUME PagesInit PROVE PagesInv
    OBVIOUS
  <2>1. head = 1 /\ range = <<1, 1>> /\ page = 0 /\ attempt = 0 /\ all = <<>> /\ outcome = "idle"
        /\ unlisted = FALSE
    BY DEF PagesInit
  <2>2. Earlier(1) \in Nat /\ Earlier(1) <= Earlier(2) /\ Start = Earlier(1)
    BY <2>1, EarlierEvents, EarlierGrows DEF Start
  <2>3. all \in Seq(Nat) /\ Len(all) = 0 /\ DOMAIN all = {}
    BY <2>1
  <2>4. /\ head \in 1 .. MaxHead /\ range \in Nat \X Nat /\ range[1] = 1 /\ range[2] = 1
        /\ attempt \in 0 .. MaxAttempts - 1 /\ page \in Nat /\ page <= Len(Chain)
    BY <2>1, PagesAssumption
  <2>5. Start + Len(all) <= Earlier(head + 1)
    BY <2>1, <2>2, <2>3
  <2>6. \A k \in DOMAIN all : all[k] = Start + k
    BY <2>3
  <2>7. range[1] <= range[2] /\ range[2] <= head + 1 /\ all \in Seq(Nat)
    BY <2>1, <2>3, <2>4
  <2> HIDE DEF PagesInit
  <2> QED
    BY <2>1, <2>4, <2>5, <2>6, <2>7, Zenon DEF PagesInv
<1> QED
  BY <1>1, StepPages, EachServiceRuns, PTL

(* What is collected is a stretch of the chain that begins where the range  *)
(* does.                                                                    *)
LEMMA WhatIsCollected ==
  ASSUME PagesInv
  PROVE  /\ all \in Seq(Nat) /\ Len(all) \in Nat /\ DOMAIN all = 1 .. Len(all)
         /\ \A k \in 1 .. Len(all) : all[k] = Start + k
         /\ range[1] \in Nat /\ range[2] \in Nat /\ Start \in Nat /\ Len(Chain) \in Nat
         /\ Start + Len(all) <= Len(Chain) /\ DOMAIN Chain = 1 .. Len(Chain)
         /\ \A i \in DOMAIN Chain : i <= Start <=> Chain[i] < range[1]
<1>1. /\ all \in Seq(Nat) /\ range[1] \in Nat /\ head + 1 \in Nat /\ range[2] \in Nat
      /\ \A k \in DOMAIN all : all[k] = Start + k
      /\ Start + Len(all) <= Earlier(head + 1)
  BY DEF PagesInv
<1>2. Start \in 0 .. Len(Chain) /\ \A i \in DOMAIN Chain : i <= Start <=> Chain[i] < range[1]
  BY <1>1, EarlierEvents DEF Start
<1>3. Earlier(head + 1) \in 0 .. Len(Chain)
  BY <1>1, EarlierEvents
<1>4. Len(Chain) \in Nat /\ DOMAIN Chain = 1 .. Len(Chain)
  BY PagesAssumption
<1> QED
  BY <1>1, <1>2, <1>3, <1>4

(* Which is well typed.                                                     *)
LEMMA CollectedIsTyped == PagesInv => PagesTypeOK
<1> SUFFICES ASSUME PagesInv PROVE PagesTypeOK
  OBVIOUS
<1>1. \A k \in DOMAIN all : all[k] \in DOMAIN Chain
  BY WhatIsCollected
<1>2. ToSet(all) \subseteq DOMAIN Chain
  BY <1>1 DEF ToSet
<1>3. head \in 0 .. MaxHead /\ page \in 0 .. Len(Chain)
  BY WhatIsCollected, PagesAssumption DEF PagesInv
<1> QED
  BY <1>2, <1>3 DEF PagesInv, PagesTypeOK

(* A search that ends well returns every event of its range, each once and  *)
(* in order, unless the hard cap cut it or an answer listed no events;     *)
(* what is missing then is the end of the range.                           *)
THEOREM PagesAreComplete == ServicesSpec => []PagesComplete
<1>1. PagesInv => PagesComplete
  <2> SUFFICES ASSUME PagesInv, outcome = "ok" PROVE PagesComplete
    BY DEF PagesComplete
  <2>1. /\ Len(all) \in Nat /\ DOMAIN all = 1 .. Len(all) /\ Start \in Nat
        /\ \A k \in 1 .. Len(all) : all[k] = Start + k
        /\ Start + Len(all) <= Len(Chain) /\ DOMAIN Chain = 1 .. Len(Chain) /\ Len(Chain) \in Nat
        /\ \A i \in DOMAIN Chain : i <= Start <=> Chain[i] < range[1]
        /\ \A i \in DOMAIN Chain : Chain[i] \in Nat
        /\ range[1] \in Nat
    BY WhatIsCollected, PagesAssumption
  <2>2. \A i \in 1 .. Len(Chain) : i \in ToSet(all) <=> Start < i /\ i <= Start + Len(all)
    <3> SUFFICES ASSUME NEW i \in 1 .. Len(Chain)
                 PROVE  i \in ToSet(all) <=> Start < i /\ i <= Start + Len(all)
      OBVIOUS
    <3>1. ASSUME Start < i, i <= Start + Len(all) PROVE i \in ToSet(all)
      <4>1. i - Start \in DOMAIN all /\ all[i - Start] = i
        BY <2>1, <3>1
      <4> QED
        BY <4>1 DEF ToSet
    <3>2. ASSUME i \in ToSet(all) PROVE Start < i /\ i <= Start + Len(all)
      BY <2>1, <3>2 DEF ToSet
    <3> QED
      BY <3>1, <3>2
  <2>3. ToSet(all) \subseteq 1 .. Len(Chain)
    BY <2>1 DEF ToSet
  <2>4. \A i \in InRange : i \in 1 .. Len(Chain) /\ Start < i
    BY <2>1 DEF InRange
  <2>5. ASSUME Len(all) < EventCap, ~unlisted, NEW i \in InRange PROVE i <= Start + Len(all)
    <3>1. Start + Len(all) >= Earlier(range[2]) /\ range[2] \in Nat
      BY <2>1, <2>5, PagesAssumption DEF PagesInv
    <3>2. i \in DOMAIN Chain /\ Chain[i] < range[2]
      BY DEF InRange
    <3>3. Earlier(range[2]) \in 0 .. Len(Chain) /\ \A j \in DOMAIN Chain : j <= Earlier(range[2]) <=> Chain[j] < range[2]
      BY <3>1, EarlierEvents
    <3> QED
      BY <2>1, <3>1, <3>2, <3>3
  <2>6. \A k, l \in DOMAIN all : k < l => all[k] < all[l]
    BY <2>1
  <2>7. \A i \in ToSet(all) : Chain[i] >= range[1]
    BY <2>1, <2>2, <2>3
  <2>8. Len(all) < EventCap /\ ~unlisted => InRange \subseteq ToSet(all)
    BY <2>2, <2>4, <2>5
  <2>9. \A i \in InRange \ ToSet(all), j \in ToSet(all) : j < i
    BY <2>1, <2>2, <2>3, <2>4
  <2> QED
    BY <2>6, <2>7, <2>8, <2>9 DEF PagesComplete
<1> QED
  BY <1>1, PagesAreCollected, PTL

-----------------------------------------------------------------------------
(* Rollups *)

(* A bucket starts at or before its instants, and buckets follow each other *)
(* as their instants do.                                                   *)
LEMMA BucketStarts ==
  ASSUME NEW t \in Nat
  PROVE  bucket_of(t) \in 0 .. t
<1>1. t % Bucket \in 0 .. Bucket - 1 /\ t = Bucket * (t \div Bucket) + (t % Bucket) /\ t \div Bucket \in Nat
  BY RollupAssumption
<1>2. Bucket * (t \div Bucket) \in Nat
  BY <1>1, RollupAssumption
<1> QED
  BY <1>1, <1>2, RollupAssumption DEF bucket_of

(* A later instant is in no earlier bucket.                                 *)
LEMMA BucketsFollow ==
  ASSUME NEW s \in Nat, NEW t \in Nat, bucket_of(s) <= t
  PROVE  bucket_of(s) <= bucket_of(t)
<1> DEFINE p == s \div Bucket
           q == t \div Bucket
<1>1. /\ Bucket \in Nat \ {0} /\ p \in Nat /\ q \in Nat
      /\ s = Bucket * p + (s % Bucket) /\ t = Bucket * q + (t % Bucket)
      /\ s % Bucket \in 0 .. Bucket - 1 /\ t % Bucket \in 0 .. Bucket - 1
  BY RollupAssumption
<1>2. bucket_of(s) = Bucket * p /\ bucket_of(t) = Bucket * q
  BY <1>1 DEF bucket_of
<1> HIDE DEF p, q
<1>3. Bucket * p < Bucket * (q + 1)
  BY <1>1, <1>2
<1>4. p < q + 1
  BY <1>1, <1>3
<1>5. Bucket * p <= Bucket * q
  BY <1>1, <1>4
<1> QED
  BY <1>2, <1>5

(* Snapshots are told apart by their pool and time.                         *)
Rows == [pool : RollupPools, ts : 0 .. MaxInstant, tvl : Tvls]
AreRows(rows) == rows \subseteq Rows /\ \A s, t \in rows : s.pool = t.pool /\ s.ts = t.ts => s = t
IsIn(s, k) == s.pool = k[1] /\ bucket_of(s.ts) = k[2]
KeyOf(s) == <<s.pool, bucket_of(s.ts)>>

(* The value of a bucket is that of its one last snapshot.                  *)
IsLast(s, rows, k) == s \in rows /\ IsIn(s, k) /\ \A t \in rows : IsIn(t, k) => t.ts <= s.ts

(* A bucket that holds a snapshot has a last one.                           *)
LEMMA BucketHasLast ==
  ASSUME NEW rows, AreRows(rows), NEW k, NEW s \in rows, IsIn(s, k)
  PROVE  \E t : IsLast(t, rows, k)
<1> DEFINE times == {t.ts : t \in {u \in rows : IsIn(u, k)}}
<1>1. \A t \in rows : t.ts \in Nat /\ t.ts <= MaxInstant
  BY RollupAssumption DEF AreRows, Rows
<1>2. times \in SUBSET Nat /\ s.ts \in times /\ \A n \in times : n <= MaxInstant
  BY <1>1
<1>3. MaxInstant \in Nat
  BY RollupAssumption
<1> HIDE DEF times
<1>4. PICK m \in times : \A n \in times : n <= m
  BY <1>2, <1>3, Greatest
<1>5. PICK t \in rows : IsIn(t, k) /\ t.ts = m
  BY DEF times
<1>6. \A u \in rows : IsIn(u, k) => u.ts <= t.ts
  BY <1>4, <1>5 DEF times
<1> QED
  BY <1>5, <1>6 DEF IsLast

(* It gives the bucket its value.                                           *)
LEMMA BucketValue ==
  ASSUME NEW rows, AreRows(rows), NEW k, NEW s, IsLast(s, rows, k), k = <<k[1], k[2]>>
  PROVE  k \in DOMAIN Bucketed(rows) /\ Bucketed(rows)[k] = s.tvl
<1>1. LastOf(rows, k[1], k[2]) = s
  <2>1. \A t : /\ t \in rows /\ t.pool = k[1] /\ bucket_of(t.ts) = k[2]
               /\ \A u \in rows : u.pool = k[1] /\ bucket_of(u.ts) = k[2] => u.ts <= t.ts
               => t = s
    <3> SUFFICES ASSUME NEW t \in rows, IsIn(t, k), \A u \in rows : IsIn(u, k) => u.ts <= t.ts
                 PROVE  t = s
      BY DEF IsIn
    <3>1. t.ts \in Nat /\ s.ts \in Nat /\ t.ts <= s.ts /\ s.ts <= t.ts /\ s \in rows /\ IsIn(s, k)
      BY DEF IsLast, AreRows, Rows
    <3> QED
      BY <3>1 DEF AreRows, IsIn
  <2>2. /\ s \in rows /\ s.pool = k[1] /\ bucket_of(s.ts) = k[2]
        /\ \A u \in rows : u.pool = k[1] /\ bucket_of(u.ts) = k[2] => u.ts <= s.ts
    BY DEF IsLast, IsIn
  <2> QED
    BY <2>1, <2>2 DEF LastOf
<1>2. k \in {<<t.pool, bucket_of(t.ts)>> : t \in rows}
  BY DEF IsLast, IsIn
<1> QED
  BY <1>1, <1>2 DEF Bucketed

(* The keys of the buckets, and every one has a last snapshot.              *)
LEMMA BucketKeys ==
  ASSUME NEW rows, AreRows(rows)
  PROVE  /\ DOMAIN Bucketed(rows) = {KeyOf(s) : s \in rows}
         /\ \A k \in DOMAIN Bucketed(rows) :
              k = <<k[1], k[2]>> /\ k[2] \in 0 .. MaxInstant /\ k[1] \in RollupPools
              /\ \E s : IsLast(s, rows, k) /\ Bucketed(rows)[k] = s.tvl
<1>1. DOMAIN Bucketed(rows) = {KeyOf(s) : s \in rows}
  BY DEF Bucketed, KeyOf
<1> SUFFICES ASSUME NEW k \in DOMAIN Bucketed(rows)
             PROVE  k = <<k[1], k[2]>> /\ k[2] \in 0 .. MaxInstant /\ k[1] \in RollupPools
                    /\ \E s : IsLast(s, rows, k) /\ Bucketed(rows)[k] = s.tvl
  BY <1>1
<1>2. PICK s \in rows : k = KeyOf(s)
  BY <1>1
<1>3. k = <<k[1], k[2]>> /\ IsIn(s, k)
  BY <1>2 DEF KeyOf, IsIn
<1>4. k[2] \in 0 .. MaxInstant /\ k[1] \in RollupPools
  <2>1. s.ts \in Nat /\ s.ts <= MaxInstant /\ s.pool \in RollupPools /\ MaxInstant \in Nat
    BY RollupAssumption DEF AreRows, Rows
  <2>2. bucket_of(s.ts) \in 0 .. s.ts
    BY <2>1, BucketStarts
  <2> QED
    BY <1>3, <2>1, <2>2 DEF IsIn
<1>5. PICK t : IsLast(t, rows, k)
  BY <1>3, BucketHasLast
<1> QED
  BY <1>3, <1>4, <1>5, BucketValue

(* Where two tables hold the same snapshots of a bucket, they give it the   *)
(* same value.                                                             *)
LEMMA SameBucket ==
  ASSUME NEW a, AreRows(a), NEW b, AreRows(b), NEW k \in DOMAIN Bucketed(a),
         \A s : s \in a /\ IsIn(s, k) <=> s \in b /\ IsIn(s, k)
  PROVE  k \in DOMAIN Bucketed(b) /\ Bucketed(b)[k] = Bucketed(a)[k]
<1>1. PICK s : IsLast(s, a, k) /\ Bucketed(a)[k] = s.tvl /\ k = <<k[1], k[2]>>
  BY BucketKeys
<1>2. IsLast(s, b, k)
  BY <1>1 DEF IsLast
<1> QED
  BY <1>1, <1>2, BucketValue

-----------------------------------------------------------------------------
(* The inductive invariant of the rollups: every bucket stored has its      *)
(* snapshots, and the value of one there has been in it; without a cut the older ones are right; and after a sync the  *)
(* newest of all are, and the rollups are built from what is stored.       *)
Behind(k) == \E j \in DOMAIN five : k[2] < j[2]
Right(k) == k \in DOMAIN five /\ five[k] = Bucketed(snapshots)[k]
WasTaken(k) == \E s \in taken : IsIn(s, k) /\ five[k] = s.tvl
RollupInv ==
  /\ instant \in 0 .. MaxInstant /\ cuts \in 0 .. MaxCuts /\ synced \in BOOLEAN /\ AreRows(snapshots)
  /\ DOMAIN rollups \subseteq RollupPools \X Windows
  /\ DOMAIN five \subseteq DOMAIN Bucketed(snapshots)
  /\ snapshots \subseteq taken /\ \A k \in DOMAIN five : WasTaken(k)
  /\ cuts = 0 => \A k \in DOMAIN Bucketed(snapshots) : Behind(k) => Right(k)
  /\ synced => /\ five = [k \in DOMAIN five |-> five[k]]
               /\ rollups = rebuild_rollups(five, pool_swaps)
               /\ \A k \in DOMAIN Bucketed(snapshots) : ~Behind(k) => Right(k)

(* What the tables' keys say of the snapshots: one a stored bucket holds.   *)
LEMMA StoredBuckets ==
  ASSUME AreRows(snapshots), DOMAIN five \subseteq DOMAIN Bucketed(snapshots), NEW j \in DOMAIN five
  PROVE  \E s \in snapshots : j = KeyOf(s) /\ j[1] = s.pool /\ j[2] = bucket_of(s.ts) /\ s.ts \in Nat
                              /\ j[2] \in 0 .. s.ts
<1>1. PICK s \in snapshots : j = KeyOf(s)
  <2>1. DOMAIN Bucketed(snapshots) = {KeyOf(s) : s \in snapshots}
    BY BucketKeys
  <2> QED
    BY <2>1
<1>2. s.ts \in Nat
  BY DEF AreRows, Rows
<1> QED
  BY <1>1, <1>2, BucketStarts DEF KeyOf

(* A new snapshot is no older than the others: it leaves what lies behind   *)
(* a stored bucket as it was.                                              *)
LEMMA InsertSnapshotKeeps ==
  ASSUME RollupInv, insert_snapshot
  PROVE  RollupInv'
<1>1. PICK pool \in RollupPools, tvl \in Tvls, ts \in 0 .. instant :
        /\ \A s \in snapshots : s.ts <= ts
        /\ snapshots' = {s \in snapshots : s.pool # pool \/ s.ts # ts}
                        \cup {[pool |-> pool, ts |-> ts, tvl |-> tvl]}
        /\ taken' = taken \cup {[pool |-> pool, ts |-> ts, tvl |-> tvl]}
  BY DEF insert_snapshot
<1> DEFINE new == [pool |-> pool, ts |-> ts, tvl |-> tvl]
<1>2. /\ UNCHANGED <<instant, pool_swaps, five, rollups, cuts>> /\ synced' = FALSE
      /\ AreRows(snapshots) /\ DOMAIN five \subseteq DOMAIN Bucketed(snapshots)
      /\ instant \in 0 .. MaxInstant
  BY DEF insert_snapshot, RollupInv
<1>3. new \in Rows /\ ts \in Nat /\ new.pool = pool /\ new.ts = ts
  BY <1>2, RollupAssumption DEF Rows
<1>4. snapshots' = {s \in snapshots : s.pool # new.pool \/ s.ts # new.ts} \cup {new}
      /\ taken' = taken \cup {new}
  BY <1>1, <1>3
<1> HIDE DEF new
<1>5. AreRows(snapshots')
  BY <1>2, <1>3, <1>4 DEF AreRows
<1>6. \A s \in snapshots : KeyOf(s) \in {KeyOf(t) : t \in snapshots'}
  <2> SUFFICES ASSUME NEW s \in snapshots PROVE \E t \in snapshots' : KeyOf(s) = KeyOf(t)
    OBVIOUS
  <2>1. CASE s.pool # new.pool \/ s.ts # new.ts
    BY <2>1, <1>4
  <2>2. CASE s.pool = new.pool /\ s.ts = new.ts
    BY <2>2, <1>4 DEF KeyOf
  <2> QED
    BY <2>1, <2>2
<1>7. DOMAIN Bucketed(snapshots) \subseteq DOMAIN Bucketed(snapshots')
  <2>1. /\ DOMAIN Bucketed(snapshots) = {KeyOf(s) : s \in snapshots}
        /\ DOMAIN Bucketed(snapshots') = {KeyOf(s) : s \in snapshots'}
    BY <1>2, <1>5, BucketKeys
  <2> QED
    BY <2>1, <1>6
<1>8. ASSUME cuts = 0, NEW k \in DOMAIN Bucketed(snapshots'), Behind(k)
      PROVE  k \in DOMAIN five /\ five[k] = Bucketed(snapshots')[k]
  <2>1. PICK j \in DOMAIN five : k[2] < j[2]
    BY <1>8 DEF Behind
  <2>2. PICK s \in snapshots : j[2] = bucket_of(s.ts) /\ s.ts \in Nat /\ j[2] \in 0 .. s.ts
    BY <1>2, StoredBuckets
  <2>3. s.ts <= ts /\ bucket_of(s.ts) <= ts
    BY <1>1, <1>3, <2>2
  <2>4. bucket_of(s.ts) <= bucket_of(ts) /\ bucket_of(ts) \in 0 .. ts
    BY <1>3, <2>2, <2>3, BucketsFollow, BucketStarts
  <2>5. k[2] \in Nat
    <3>1. k[2] \in 0 .. MaxInstant
      BY <1>5, <1>8, BucketKeys
    <3> QED
      BY <3>1, RollupAssumption
  <2>6. bucket_of(ts) # k[2]
    BY <2>1, <2>2, <2>4, <2>5, <1>3
  <2>7. \A t : t \in snapshots' /\ IsIn(t, k) <=> t \in snapshots /\ IsIn(t, k)
    BY <1>3, <1>4, <2>6 DEF IsIn
  <2>8. k \in DOMAIN Bucketed(snapshots) /\ Bucketed(snapshots)[k] = Bucketed(snapshots')[k]
    BY <1>2, <1>5, <2>7, SameBucket
  <2>9. Right(k)
    BY <1>8, <2>8 DEF RollupInv
  <2> QED
    BY <2>8, <2>9 DEF Right
<1>9. cuts' \in 0 .. MaxCuts /\ synced' \in BOOLEAN /\ instant' \in 0 .. MaxInstant
      /\ DOMAIN rollups' \subseteq RollupPools \X Windows
  BY <1>2 DEF RollupInv
<1>10. cuts' = 0 => \A k \in DOMAIN Bucketed(snapshots') : Behind(k)' => Right(k)'
  BY <1>2, <1>8 DEF Behind, Right
<1>11. DOMAIN five' \subseteq DOMAIN Bucketed(snapshots)'
  BY <1>2, <1>7
<1>12. snapshots' \subseteq taken' /\ \A k \in DOMAIN five' : WasTaken(k)'
  <2>1. snapshots \subseteq taken /\ \A k \in DOMAIN five : WasTaken(k)
    BY DEF RollupInv
  <2> QED
    BY <1>2, <1>4, <2>1 DEF WasTaken
<1> QED
  BY <1>2, <1>5, <1>9, <1>10, <1>11, <1>12 DEF RollupInv

(* A swap or the passing of time changes no bucket.                         *)
LEMMA OthersKeep ==
  ASSUME RollupInv, \/ insert_swap \/ RollupTick \/ UNCHANGED rollupVars
  PROVE  RollupInv'
<1>1. /\ UNCHANGED <<snapshots, five, rollups, cuts, taken>>
      /\ \/ synced' = FALSE
         \/ UNCHANGED <<synced, pool_swaps>>
      /\ instant' \in 0 .. MaxInstant
  BY RollupAssumption DEF RollupInv, insert_swap, RollupTick, rollupVars
<1>2. /\ AreRows(snapshots') /\ cuts' \in 0 .. MaxCuts /\ synced' \in BOOLEAN
      /\ DOMAIN rollups' \subseteq RollupPools \X Windows
  BY <1>1 DEF RollupInv
<1>3. DOMAIN five' \subseteq DOMAIN Bucketed(snapshots)'
  BY <1>1 DEF RollupInv
<1>4. cuts' = 0 => \A k \in DOMAIN Bucketed(snapshots)' : Behind(k)' => Right(k)'
  BY <1>1 DEF RollupInv, Behind, Right
<1>5. synced' => /\ five' = [k \in DOMAIN five' |-> five'[k]]
                 /\ rollups' = rebuild_rollups(five', pool_swaps')
                 /\ \A k \in DOMAIN Bucketed(snapshots)' : ~Behind(k)' => Right(k)'
  BY <1>1 DEF RollupInv, Behind, Right
<1>6. snapshots' \subseteq taken' /\ \A k \in DOMAIN five' : WasTaken(k)'
  BY <1>1 DEF RollupInv, WasTaken
<1> QED
  BY <1>1, <1>2, <1>3, <1>4, <1>5, <1>6 DEF RollupInv

(* What a sync reads, it reads from the newest bucket on: all of it, and    *)
(* nothing of what lies behind.                                            *)
LEMMA FromNewestHolds ==
  ASSUME RollupInv
  PROVE  /\ AreRows(FromNewest)
         /\ \A k \in DOMAIN Bucketed(FromNewest) : ~Behind(k)
         /\ \A k \in DOMAIN Bucketed(snapshots) :
              ~Behind(k) => /\ k \in DOMAIN Bucketed(FromNewest)
                            /\ Bucketed(FromNewest)[k] = Bucketed(snapshots)[k]
<1>1. AreRows(snapshots) /\ DOMAIN five \subseteq DOMAIN Bucketed(snapshots)
  BY DEF RollupInv
<1>2. AreRows(FromNewest)
  BY <1>1 DEF AreRows, FromNewest
<1>3. ASSUME NEW k \in DOMAIN Bucketed(FromNewest), NEW j \in DOMAIN five PROVE ~(k[2] < j[2])
  <2>1. PICK s \in FromNewest : k = KeyOf(s)
    <3>1. DOMAIN Bucketed(FromNewest) = {KeyOf(s) : s \in FromNewest}
      BY <1>2, BucketKeys
    <3> QED
      BY <3>1
  <2>2. s.ts \in Nat /\ s.ts >= j[2]
    BY <1>2 DEF AreRows, Rows, FromNewest
  <2>3. PICK t \in snapshots : j[2] = bucket_of(t.ts) /\ t.ts \in Nat /\ j[2] \in 0 .. t.ts
    BY <1>1, StoredBuckets
  <2>4. bucket_of(t.ts) <= bucket_of(s.ts)
    BY <2>2, <2>3, BucketsFollow
  <2>5. k[2] = bucket_of(s.ts) /\ bucket_of(s.ts) \in 0 .. s.ts
    BY <2>1, <2>2, BucketStarts DEF KeyOf
  <2> QED
    BY <2>2, <2>3, <2>4, <2>5
<1>4. ASSUME NEW k \in DOMAIN Bucketed(snapshots), ~Behind(k)
      PROVE  k \in DOMAIN Bucketed(FromNewest) /\ Bucketed(FromNewest)[k] = Bucketed(snapshots)[k]
  <2>1. ASSUME NEW s \in snapshots, IsIn(s, k), NEW j \in DOMAIN five PROVE s.ts >= j[2]
    <3>1. s.ts \in Nat /\ bucket_of(s.ts) = k[2]
      BY <1>1, <2>1 DEF AreRows, Rows, IsIn
    <3>2. bucket_of(s.ts) \in 0 .. s.ts
      BY <3>1, BucketStarts
    <3>3. j[2] \in Nat
      BY <1>1, StoredBuckets
    <3>4. ~(k[2] < j[2])
      BY <1>4 DEF Behind
    <3> QED
      BY <3>1, <3>2, <3>3, <3>4
  <2>2. \A s : s \in snapshots /\ IsIn(s, k) <=> s \in FromNewest /\ IsIn(s, k)
    BY <2>1 DEF FromNewest
  <2> QED
    BY <1>1, <1>2, <2>2, SameBucket
<1>5. \A k \in DOMAIN Bucketed(FromNewest) : ~Behind(k)
  BY <1>3 DEF Behind
<1> QED
  BY <1>2, <1>4, <1>5

(* The keys of what was upserted, and those of its rollups.                 *)
LEMMA UpsertedKeys ==
  ASSUME RollupInv, NEW done \in SUBSET FromNewest, five' = Upserted(done, five)
  PROVE  /\ DOMAIN five' = DOMAIN Bucketed(done) \cup DOMAIN five
         /\ DOMAIN five' \subseteq DOMAIN Bucketed(snapshots)
         /\ \A swaps : DOMAIN rebuild_rollups(five', swaps) \subseteq RollupPools \X Windows
<1>1. AreRows(snapshots) /\ AreRows(done) /\ done \subseteq snapshots
      /\ DOMAIN five \subseteq DOMAIN Bucketed(snapshots)
  BY DEF RollupInv, AreRows, FromNewest
<1>2. DOMAIN five' = DOMAIN Bucketed(done) \cup DOMAIN five
  BY DEF Upserted
<1>3. /\ DOMAIN Bucketed(done) = {KeyOf(s) : s \in done}
      /\ DOMAIN Bucketed(snapshots) = {KeyOf(s) : s \in snapshots}
  BY <1>1, BucketKeys
<1>4. DOMAIN five' \subseteq DOMAIN Bucketed(snapshots)
  BY <1>1, <1>2, <1>3
<1>5. \A k \in DOMAIN five' : k[1] \in RollupPools
  BY <1>1, <1>4, BucketKeys
<1>6. ASSUME NEW swaps PROVE DOMAIN rebuild_rollups(five', swaps) \subseteq RollupPools \X Windows
  <2>1. DOMAIN rebuild_rollups(five', swaps) = {k[1] : k \in DOMAIN five'} \X Windows
    BY DEF rebuild_rollups
  <2>2. {k[1] : k \in DOMAIN five'} \subseteq RollupPools
    BY <1>5
  <2> QED
    BY <2>1, <2>2
<1> QED
  BY <1>2, <1>4, <1>6

(* What was upserted was the value of a snapshot.                           *)
LEMMA UpsertedWasTaken ==
  ASSUME RollupInv, NEW done \in SUBSET FromNewest, five' = Upserted(done, five), taken' = taken
  PROVE  \A k \in DOMAIN five' : WasTaken(k)'
<1>1. /\ AreRows(done) /\ done \subseteq taken /\ \A k \in DOMAIN five : WasTaken(k)
  BY DEF RollupInv, AreRows, FromNewest
<1> SUFFICES ASSUME NEW k \in DOMAIN five' PROVE \E s \in taken : IsIn(s, k) /\ five'[k] = s.tvl
  BY DEF WasTaken
<1>2. k \in DOMAIN Bucketed(done) \cup DOMAIN five
      /\ five'[k] = IF k \in DOMAIN Bucketed(done) THEN Bucketed(done)[k] ELSE five[k]
  BY DEF Upserted
<1>3. CASE k \in DOMAIN Bucketed(done)
  <2>1. PICK s : IsLast(s, done, k) /\ Bucketed(done)[k] = s.tvl
    BY <1>1, <1>3, BucketKeys
  <2> QED
    BY <1>1, <1>2, <1>3, <2>1 DEF IsLast
<1>4. CASE k \notin DOMAIN Bucketed(done)
  BY <1>1, <1>2, <1>4 DEF WasTaken
<1> QED
  BY <1>3, <1>4

(* A complete sync leaves every bucket from the newest on right.            *)
LEMMA SyncKeeps ==
  ASSUME RollupInv, sync_derived_tables
  PROVE  RollupInv'
<1>1. /\ five' = Upserted(FromNewest, five) /\ rollups' = rebuild_rollups(five', pool_swaps)
      /\ synced' = TRUE /\ UNCHANGED <<instant, snapshots, pool_swaps, cuts, taken>>
  BY DEF sync_derived_tables
<1>2. /\ AreRows(snapshots) /\ cuts \in 0 .. MaxCuts /\ instant \in 0 .. MaxInstant
  BY DEF RollupInv
<1>3. /\ DOMAIN five' = DOMAIN Bucketed(FromNewest) \cup DOMAIN five
      /\ DOMAIN five' \subseteq DOMAIN Bucketed(snapshots)
      /\ DOMAIN rollups' \subseteq RollupPools \X Windows
  BY <1>1, UpsertedKeys
<1>4. ASSUME NEW k \in DOMAIN Bucketed(snapshots), ~Behind(k)
      PROVE  k \in DOMAIN five' /\ five'[k] = Bucketed(snapshots)[k]
  <2>1. k \in DOMAIN Bucketed(FromNewest) /\ Bucketed(FromNewest)[k] = Bucketed(snapshots)[k]
    BY <1>4, FromNewestHolds
  <2> QED
    BY <1>1, <1>3, <2>1 DEF Upserted
<1>5. ASSUME NEW k \in DOMAIN Bucketed(snapshots), Behind(k), Right(k)
      PROVE  k \in DOMAIN five' /\ five'[k] = Bucketed(snapshots)[k]
  <2>1. k \notin DOMAIN Bucketed(FromNewest) /\ k \in DOMAIN five /\ five[k] = Bucketed(snapshots)[k]
    BY <1>5, FromNewestHolds DEF Right
  <2> QED
    BY <1>1, <1>3, <2>1 DEF Upserted
<1>6. cuts = 0 => \A k \in DOMAIN Bucketed(snapshots) :
                    k \in DOMAIN five' /\ five'[k] = Bucketed(snapshots)[k]
  BY <1>4, <1>5 DEF RollupInv
<1>7. \A k : Behind(k) => Behind(k)'
  BY <1>3 DEF Behind
<1>8. \A k \in DOMAIN Bucketed(snapshots)' : ~Behind(k)' => Right(k)'
  BY <1>1, <1>4, <1>7 DEF Right
<1>9. cuts' = 0 => \A k \in DOMAIN Bucketed(snapshots)' : Behind(k)' => Right(k)'
  BY <1>1, <1>6 DEF Right
<1>10. five' = [k \in DOMAIN five' |-> five'[k]]
  BY <1>1, <1>3 DEF Upserted
<1>11. /\ AreRows(snapshots') /\ cuts' \in 0 .. MaxCuts /\ instant' \in 0 .. MaxInstant
       /\ synced' \in BOOLEAN /\ rollups' = rebuild_rollups(five', pool_swaps')
       /\ DOMAIN five' \subseteq DOMAIN Bucketed(snapshots)'
  BY <1>1, <1>2, <1>3
<1>12. snapshots' \subseteq taken' /\ \A k \in DOMAIN five' : WasTaken(k)'
  BY <1>1, UpsertedWasTaken DEF RollupInv
<1> QED
  BY <1>3, <1>8, <1>9, <1>10, <1>11, <1>12 DEF RollupInv

(* A sync that is cut off stores rows of buckets that have their snapshots. *)
LEMMA SyncCutKeeps ==
  ASSUME RollupInv, SyncCut
  PROVE  RollupInv'
<1>1. PICK done \in SUBSET FromNewest :
        /\ five' = Upserted(done, five)
        /\ \/ UNCHANGED rollups
           \/ DOMAIN rollups' \subseteq DOMAIN rollups \cup DOMAIN rebuild_rollups(five', pool_swaps)
  BY DEF SyncCut, Cuts
<1>2. /\ synced' = FALSE /\ UNCHANGED <<instant, snapshots, pool_swaps, taken>>
      /\ cuts' = cuts + 1 /\ cuts < MaxCuts
  BY DEF SyncCut
<1>3. /\ AreRows(snapshots) /\ cuts \in 0 .. MaxCuts /\ instant \in 0 .. MaxInstant
      /\ DOMAIN rollups \subseteq RollupPools \X Windows
  BY DEF RollupInv
<1>4. /\ DOMAIN five' \subseteq DOMAIN Bucketed(snapshots)
      /\ DOMAIN rebuild_rollups(five', pool_swaps) \subseteq RollupPools \X Windows
  BY <1>1, UpsertedKeys
<1>5. cuts' \in 0 .. MaxCuts /\ cuts' # 0
  BY <1>2, <1>3, RollupAssumption
<1>6. /\ AreRows(snapshots') /\ instant' \in 0 .. MaxInstant
      /\ DOMAIN rollups' \subseteq RollupPools \X Windows
      /\ DOMAIN five' \subseteq DOMAIN Bucketed(snapshots)'
  BY <1>1, <1>2, <1>3, <1>4
<1>7. snapshots' \subseteq taken' /\ \A k \in DOMAIN five' : WasTaken(k)'
  BY <1>1, <1>2, UpsertedWasTaken DEF RollupInv
<1> QED
  BY <1>2, <1>5, <1>6, <1>7 DEF RollupInv

(* So the invariant holds.                                                  *)
LEMMA RollupsAreBuilt == RollupInit /\ [][RollupNext]_rollupVars => []RollupInv
<1>1. RollupInit => RollupInv
  <2> SUFFICES ASSUME RollupInit PROVE RollupInv
    OBVIOUS
  <2>1. DOMAIN five = {} /\ DOMAIN rollups = {} /\ snapshots = {} /\ synced = FALSE /\ taken = {}
    BY DEF RollupInit
  <2>2. AreRows(snapshots)
    BY <2>1 DEF AreRows
  <2>3. DOMAIN Bucketed(snapshots) = {}
    BY <2>1 DEF Bucketed
  <2>4. instant \in 0 .. MaxInstant /\ cuts \in 0 .. MaxCuts
    BY RollupAssumption DEF RollupInit
  <2> QED
    BY <2>1, <2>2, <2>3, <2>4 DEF RollupInv
<1>2. RollupInv /\ [RollupNext]_rollupVars => RollupInv'
  BY InsertSnapshotKeeps, OthersKeep, SyncKeeps, SyncCutKeeps DEF RollupNext
<1> QED
  BY <1>1, <1>2, PTL

(* Which bounds the tables' keys.                                           *)
LEMMA RollupsAreTyped == RollupInv => RollupTypeOK
<1> SUFFICES ASSUME RollupInv PROVE RollupTypeOK
  OBVIOUS
<1>1. /\ AreRows(snapshots) /\ DOMAIN five \subseteq DOMAIN Bucketed(snapshots)
  BY DEF RollupInv
<1>2. DOMAIN five \subseteq RollupPools \X (0 .. MaxInstant)
  <2>1. \A k \in DOMAIN Bucketed(snapshots) :
          k = <<k[1], k[2]>> /\ k[2] \in 0 .. MaxInstant /\ k[1] \in RollupPools
    BY <1>1, BucketKeys
  <2> QED
    BY <1>1, <2>1
<1> QED
  BY <1>1, <1>2 DEF RollupInv, RollupTypeOK, AreRows, Rows

(* And makes a sync of the newest bucket as good as one of everything.      *)
LEMMA NewestIsEnough == RollupInv => IncrementalIsFull
<1> SUFFICES ASSUME RollupInv PROVE IncrementalIsFull
  OBVIOUS
<1> DEFINE full == Bucketed(snapshots)
           times == {k[2] : k \in DOMAIN full}
<1>1. /\ AreRows(snapshots) /\ DOMAIN five \subseteq DOMAIN full
      /\ DOMAIN full = {KeyOf(s) : s \in snapshots}
  BY BucketKeys DEF RollupInv
<1>2. ASSUME synced, cuts = 0
      PROVE  five = full
  <2>1. \A k \in DOMAIN full : k \in DOMAIN five /\ five[k] = full[k]
    BY <1>2 DEF RollupInv, Right
  <2>2. DOMAIN five = DOMAIN full /\ five = [k \in DOMAIN five |-> five[k]]
    BY <1>1, <1>2, <2>1 DEF RollupInv
  <2>3. full = [k \in DOMAIN full |-> full[k]]
    BY DEF Bucketed
  <2> HIDE DEF full
  <2> QED
    BY <2>1, <2>2, <2>3
<1>3. ASSUME synced, snapshots # {}, NEW k \in DOMAIN full, k[2] = Max(times)
      PROVE  k \in DOMAIN five /\ five[k] = full[k]
  <2>1. times \in SUBSET Nat /\ \A n \in times : n <= MaxInstant
    <3>1. \A k1 \in DOMAIN full : k1[2] \in 0 .. MaxInstant
      BY <1>1, BucketKeys
    <3> HIDE DEF full
    <3> QED
      BY <3>1, RollupAssumption
  <2>2. times # {} /\ MaxInstant \in Nat
    BY <1>3, RollupAssumption
  <2>3. Max(times) \in times /\ \A n \in times : n <= Max(times)
    <3> HIDE DEF times
    <3>1. PICK m \in times : \A n \in times : n <= m
      BY <2>1, <2>2, Greatest
    <3>2. \A n \in times : m >= n
      BY <2>1, <3>1
    <3>3. Max(times) \in times /\ \A n \in times : Max(times) >= n
      BY <3>2 DEF Max
    <3> QED
      BY <2>1, <3>3
  <2>4. ~Behind(k)
    <3> SUFFICES ASSUME NEW j \in DOMAIN five, k[2] < j[2] PROVE FALSE
      BY DEF Behind
    <3>1. j[2] \in times /\ k[2] \in times
      BY <1>1, <1>3, <2>3
    <3>2. j[2] \in Nat /\ k[2] \in Nat /\ j[2] <= k[2]
      <4> HIDE DEF times
      <4> QED
        BY <1>3, <2>1, <2>3, <3>1
    <3> QED
      BY <3>2
  <2> QED
    BY <1>3, <2>4 DEF RollupInv, Right
<1>4. \A k \in DOMAIN five : \E s \in taken : s.pool = k[1] /\ bucket_of(s.ts) = k[2] /\ five[k] = s.tvl
  BY DEF RollupInv, WasTaken, IsIn
<1>5. synced => rollups = rebuild_rollups(five, pool_swaps)
  BY DEF RollupInv
<1> QED
  BY <1>2, <1>3, <1>4, <1>5 DEF IncrementalIsFull

(* After a sync the derived tables are what a rebuild from everything would *)
(* give; after a cut the newest bucket is, every row was the value of a    *)
(* snapshot of its bucket and the rollups are built from the rows.         *)
THEOREM RollupsAreFull == ServicesSpec => []IncrementalIsFull
BY RollupsAreBuilt, NewestIsEnough, EachServiceRuns, PTL

-----------------------------------------------------------------------------
(* The services together *)

(* Whatever is expensive is worked on by one at a time.                     *)
THEOREM WorkIsDoneOnce == ServicesSpec => []WorkedOnOnce
<1>1. SingleFlight /\ OneRefresh => WorkedOnOnce
  BY DEF WorkedOnOnce
<1> QED
  BY <1>1, OneComputes, OneThreadRefreshes, EachServiceRuns, PTL

(* Every service keeps its state within its types, whatever fails.          *)
THEOREM ServicesAreTyped == ServicesSpec => []ServicesTypeOK
<1>1. FeeInv => FeeTypeOK
  BY DEF FeeInv
<1>2. /\ WalletTypeOK /\ FlightTypeOK /\ FeeTypeOK /\ PagesTypeOK /\ RollupTypeOK /\ ListTypeOK
      => ServicesTypeOK
  BY DEF ServicesTypeOK
<1>3. RollupInit /\ [][RollupNext]_rollupVars => []RollupTypeOK
  BY RollupsAreBuilt, RollupsAreTyped, PTL
<1>4. ServicesSpec => []PagesTypeOK
  BY PagesAreCollected, CollectedIsTyped, PTL
<1>5. ServicesSpec => []FeeTypeOK
  BY FeesAreTyped, <1>1, PTL
<1> QED
  BY <1>2, <1>3, <1>4, <1>5, WalletTypeCorrect, FlightTypeCorrect, ListTypeCorrect, EachServiceRuns, PTL
=============================================================================
