-------------------------- MODULE CopyPolicyProofs --------------------------
(* Theorems about CopyPolicy, for every choice of its constants. *)
EXTENDS CopyPolicy, TLAPS

-----------------------------------------------------------------------------
(* Days. *)

\* A timestamp's day is a natural number no larger than the timestamp.
LEMMA DayBounds ==
  ASSUME NEW t \in Nat
  PROVE  day(t) \in Nat /\ day(t) <= t
BY ConstantsAssumption DEF day

\* The day never runs backwards.
LEMMA DayMonotone ==
  ASSUME NEW t \in Nat
  PROVE  day(t) <= day(t + 1)
BY ConstantsAssumption DEF day

-----------------------------------------------------------------------------
(* The shape of a step. *)

\* What every successful execution does, whichever entry point it came from.
Executed(s, e, pool, kind, quote, outflow) ==
  /\ MatchesRecord(s, e, pool, kind, quote)
  /\ \E signer \in Accounts : authorize_copy_op(signer, s, e, pool, kind, quote)
  /\ PublishCopyExecuted(s, e, pool, kind, quote, outflow)
  /\ outflow \in AmountLists \cup {<<>>}
  /\ outflow # <<>> => BindsAmounts(s, e, kind, outflow) /\ kind # "claim"
  /\ UNCHANGED <<config, events, now>>

\* An execution entry point either takes effect that way or is reverted.
LEMMA ExecuteShape ==
  ASSUME NEW signer \in Accounts, Execute(signer)
  PROVE  \/ \E s \in SessionIds, e \in EventIds, pool \in Pools,
              kind \in Kinds, quote \in Quotes, outflow \in AmountLists \cup {<<>>} :
              Executed(s, e, pool, kind, quote, outflow)
         \/ UNCHANGED vars
<1>1. PICK s \in SessionIds, e \in EventIds, pool \in Pools, kind \in Kinds,
           q \in Quotes :
        /\ MatchesRecord(s, e, pool, kind, q)
        /\ \/ execute_copy_op(signer, s, e, pool, kind, q)
           \/ \E venue \in Venues, amounts \in AmountLists :
                execute_standard_op(signer, venue, s, e, pool, kind, q, amounts)
  BY DEF Execute
<1>2. CASE execute_copy_op(signer, s, e, pool, kind, q)
  <2>1. Executed(s, e, pool, kind, q, <<>>)
    BY <1>1, <1>2 DEF execute_copy_op, Executed
  <2>2. QED  BY <2>1
<1>3. ASSUME NEW venue \in Venues, NEW amounts \in AmountLists,
             execute_standard_op(signer, venue, s, e, pool, kind, q, amounts)
      PROVE  \/ \E outflow \in AmountLists \cup {<<>>} :
                  Executed(s, e, pool, kind, q, outflow)
             \/ UNCHANGED vars
  <2>1. \/ PairOp(signer, s, e, pool, kind, q, amounts)
        \/ execute_aquarius_standard_op(signer, s, e, pool, kind, q, amounts)
    BY <1>3 DEF execute_standard_op, execute_phoenix_xyk_standard_op,
                execute_phoenix_stable_op, execute_soroswap_standard_op
  <2>2. ASSUME NEW outflow \in AmountLists \cup {<<>>},
               outflow # <<>> => BindsAmounts(s, e, kind, outflow) /\ kind # "claim",
               CallVenue(signer, s, e, pool, kind, q, outflow)
        PROVE  Executed(s, e, pool, kind, q, outflow) \/ UNCHANGED vars
    BY <1>1, <2>2 DEF CallVenue, Executed
  <2>3. CASE PairOp(signer, s, e, pool, kind, q, amounts)
    BY <2>2, <2>3 DEF PairOp
  <2>4. CASE execute_aquarius_standard_op(signer, s, e, pool, kind, q, amounts)
    BY <2>2, <2>4 DEF execute_aquarius_standard_op
  <2>5. QED  BY <2>1, <2>3, <2>4
<1>4. QED  BY <1>1, <1>2, <1>3

\* Every step of the contract is one of these.
LEMMA StepShape ==
  ASSUME [Next]_vars
  PROVE  \/ /\ owner' \in Accounts \cup {owner}
            /\ relayer' \in Accounts \cup {relayer}
            /\ recorder' \in Accounts \cup {recorder}
            /\ routers' = routers \/ \E v \in Routed, r \in Routers :
                                       routers' = [routers EXCEPT ![v] = r]
            /\ UNCHANGED <<events, sessions, replay, published, now, spent>>
         \/ \E e \in EventIds, p \in Payloads :
              p.amounts # <<>> /\ p.quote > 0 /\ StoreEvent(e, p)
         \/ \E signer \in Accounts : Control(signer)
         \/ \E s \in SessionIds, e \in EventIds, pool \in Pools,
              kind \in Kinds, quote \in Quotes, outflow \in AmountLists \cup {<<>>} :
              Executed(s, e, pool, kind, quote, outflow)
         \/ Tick
         \/ UNCHANGED vars
<1>1. ASSUME NEW signer \in Accounts, Configure(signer)
      PROVE  /\ owner' \in Accounts \cup {owner}
             /\ relayer' \in Accounts \cup {relayer}
             /\ recorder' \in Accounts \cup {recorder}
             /\ routers' = routers \/ \E v \in Routed, r \in Routers :
                                        routers' = [routers EXCEPT ![v] = r]
             /\ UNCHANGED <<events, sessions, replay, published, now, spent>>
  BY <1>1 DEF Configure, initialize, set_event_recorder, set_venue_router
<1>2. ASSUME NEW signer \in Accounts, Record(signer)
      PROVE  \E e \in EventIds, p \in Payloads :
               p.amounts # <<>> /\ p.quote > 0 /\ StoreEvent(e, p)
  BY <1>2 DEF Record, record_leader_event, record_claim_event, ValidEvent
<1>3. QED  BY <1>1, <1>2, ExecuteShape DEF Next

-----------------------------------------------------------------------------
(* Type correctness. *)

\* A session that was charged is a session.
LEMMA ChargeType ==
  ASSUME NEW session \in Session, NEW quote \in Int, quote > 0, now \in Nat
  PROVE  /\ UsedToday(session) \in Nat
         /\ Charge(session, quote) \in Session
<1>1. day(now) \in Nat
  BY DayBounds
<1>2. UsedToday(session) \in Nat
  BY DEF UsedToday, Session
<1>3. UsedToday(session) + quote \in Nat
  BY <1>2
<1>4. Charge(session, quote) \in Session
  BY <1>1, <1>3, Zenon DEF Charge, Session
<1>5. QED  BY <1>2, <1>4

\* A registration stores a session.
LEMMA NewSessionType ==
  ASSUME NEW signer \in Accounts, NEW s \in SessionIds, NEW t \in Terms, NEW x \in Nat,
         now \in Nat, register_session(signer, s, t, x)
  PROVE  NewSession(t, x) \in Session
<1>1. day(now) \in Nat
  BY DayBounds
<1>2. t \in Term
  BY ConstantsAssumption
<1>3. /\ t.coefficient_ppm \in 1 .. MAX_COEFFICIENT_PPM
      /\ t.max_per_op_quote \in Nat \ {0} /\ t.max_daily_quote \in Nat \ {0}
  <2>1. t.max_per_op_quote \in Int /\ t.max_daily_quote \in Int
    BY <1>2 DEF Term
  <2>2. QED  BY <2>1 DEF register_session
<1>4. QED  BY <1>1, <1>2, <1>3 DEF NewSession, Session, Term

\* The initial state is well typed.
LEMMA TypeInit == Init => TypeOK
BY ConstantsAssumption DEF Init, TypeOK, Pairs, Times

\* The owner's session controls keep the state well typed.
LEMMA ControlType ==
  ASSUME TypeOK, NEW signer \in Accounts, Control(signer)
  PROVE  TypeOK'
<1>1. PICK s \in SessionIds :
        \/ \E t \in Terms, x \in 0 .. MaxTime + MAX_SESSION_DURATION_SECS :
             register_session(signer, s, t, x)
        \/ pause_session(signer, s)
        \/ resume_session(signer, s)
        \/ disarm_session(signer, s)
  BY DEF Control
<1>2. now \in Nat
  BY ConstantsAssumption DEF TypeOK, Times
<1>3. CASE \E t \in Terms, x \in 0 .. MaxTime + MAX_SESSION_DURATION_SECS :
             register_session(signer, s, t, x)
  <2>1. PICK t \in Terms, x \in 0 .. MaxTime + MAX_SESSION_DURATION_SECS :
          register_session(signer, s, t, x)
    BY <1>3
  <2>2. NewSession(t, x) \in Session
    BY <1>2, <2>1, NewSessionType, ConstantsAssumption
  <2>3. [d \in Times |-> 0] \in [Times -> Int]
    OBVIOUS
  <2>4. QED  BY <2>1, <2>2, <2>3 DEF register_session, TypeOK, config
<1>4. CASE pause_session(signer, s)
  <2>1. [sessions[s] EXCEPT !.paused = TRUE] \in Session
    BY <1>4 DEF pause_session, TypeOK, Session
  <2>2. QED  BY <1>4, <2>1 DEF pause_session, TypeOK, config
<1>5. CASE resume_session(signer, s)
  <2>1. [sessions[s] EXCEPT !.paused = FALSE] \in Session
    BY <1>5 DEF resume_session, TypeOK, Session
  <2>2. QED  BY <1>5, <2>1 DEF resume_session, TypeOK, config
<1>6. CASE disarm_session(signer, s)
  BY <1>6 DEF disarm_session, TypeOK, config
<1>7. QED  BY <1>1, <1>3, <1>4, <1>5, <1>6

\* A successful execution keeps the state well typed.
LEMMA ExecutedType ==
  ASSUME TypeOK,
         NEW s \in SessionIds, NEW e \in EventIds, NEW pool \in Pools,
         NEW kind \in Kinds, NEW quote \in Quotes,
         NEW outflow \in AmountLists \cup {<<>>},
         Executed(s, e, pool, kind, quote, outflow)
  PROVE  TypeOK'
<1> DEFINE x == [pool |-> pool, kind |-> kind, quote |-> quote, outflow |-> outflow,
                 leader |-> sessions[s].leader,
                 coefficient_ppm |-> sessions[s].coefficient_ppm]
<1>1. /\ now \in Nat /\ quote \in Int /\ sessions[s] \in Session /\ <<s, e>> \in Pairs
  BY ConstantsAssumption DEF TypeOK, Times, Executed, MatchesRecord, Pairs
<1>2. Charge(sessions[s], quote) \in Session
  <2>1. quote > 0
    BY DEF Executed, authorize_copy_op
  <2>2. QED  BY <1>1, <2>1, ChargeType
<1>3. sessions' \in [SessionIds -> Session \cup {None}]
  BY <1>2 DEF Executed, authorize_copy_op, TypeOK
<1>4. replay' \in [Pairs -> Nat]
  BY <1>1, ConstantsAssumption DEF Executed, authorize_copy_op, TypeOK
<1>5. x \in Execution
  <2>1. <<>> \in Seq(Nat)
    OBVIOUS
  <2>2. outflow \in Seq(Nat)
    BY <2>1, ConstantsAssumption
  <2>3. QED  BY <1>1, <2>2 DEF Execution, Session
<1>6. published' \in [Pairs -> Seq(Execution)]
  <2>1. Append(published[<<s, e>>], x) \in Seq(Execution)
    BY <1>1, <1>5 DEF TypeOK
  <2>2. published' = [published EXCEPT ![<<s, e>>] = Append(published[<<s, e>>], x)]
    BY DEF Executed, PublishCopyExecuted
  <2>3. QED  BY <2>1, <2>2 DEF TypeOK
<1>7. spent' \in [SessionIds -> [Times -> Int]]
  <2>1. day(now) \in Times
    <3>1. day(now) \in Nat /\ day(now) <= now
      BY <1>1, DayBounds
    <3>2. MaxTime \in Nat /\ now <= MaxTime
      BY ConstantsAssumption DEF TypeOK, Times
    <3>3. QED  BY <1>1, <3>1, <3>2 DEF Times
  <2>2. [spent[s] EXCEPT ![day(now)] = @ + quote] \in [Times -> Int]
    <3>1. spent[s] \in [Times -> Int]
      BY DEF TypeOK
    <3>2. spent[s][day(now)] + quote \in Int
      BY <1>1, <2>1, <3>1
    <3>3. QED  BY <3>1, <3>2
  <2>3. spent' = [spent EXCEPT ![s] = [spent[s] EXCEPT ![day(now)] = @ + quote]]
    BY DEF Executed, PublishCopyExecuted
  <2>4. QED  BY <2>2, <2>3 DEF TypeOK
<1>8. QED  BY <1>3, <1>4, <1>6, <1>7 DEF Executed, TypeOK, config

\* Every step keeps the state well typed.
LEMMA TypeStep == TypeOK /\ [Next]_vars => TypeOK'
<1> SUFFICES ASSUME TypeOK, [Next]_vars PROVE TypeOK'
  OBVIOUS
<1>1. CASE /\ owner' \in Accounts \cup {owner}
           /\ relayer' \in Accounts \cup {relayer}
           /\ recorder' \in Accounts \cup {recorder}
           /\ routers' = routers \/ \E v \in Routed, r \in Routers :
                                      routers' = [routers EXCEPT ![v] = r]
           /\ UNCHANGED <<events, sessions, replay, published, now, spent>>
  BY <1>1 DEF TypeOK
<1>2. CASE \E e \in EventIds, p \in Payloads : p.amounts # <<>> /\ p.quote > 0 /\ StoreEvent(e, p)
  BY <1>2 DEF StoreEvent, TypeOK, config
<1>3. CASE \E signer \in Accounts : Control(signer)
  BY <1>3, ControlType
<1>4. CASE \E s \in SessionIds, e \in EventIds, pool \in Pools, kind \in Kinds,
             quote \in Quotes, outflow \in AmountLists \cup {<<>>} :
             Executed(s, e, pool, kind, quote, outflow)
  BY <1>4, ExecutedType
<1>5. CASE Tick
  BY <1>5, ConstantsAssumption DEF Tick, TypeOK, Times, config
<1>6. CASE UNCHANGED vars
  BY <1>6 DEF vars, config, TypeOK
<1>7. QED  BY <1>1, <1>2, <1>3, <1>4, <1>5, <1>6, StepShape

\* Every reachable state is well typed.
THEOREM TypeCorrect == Spec => []TypeOK
BY TypeInit, TypeStep, PTL DEF Spec

-----------------------------------------------------------------------------
(* Recorded events are immutable. *)

\* No step replaces or removes a recorded event.
LEMMA EventsStep ==
  ASSUME TypeOK, [Next]_vars
  PROVE  \A e \in EventIds : events[e] # None => events'[e] = events[e]
<1>1. CASE \E e \in EventIds, p \in Payloads :
             p.amounts # <<>> /\ p.quote > 0 /\ StoreEvent(e, p)
  BY <1>1 DEF StoreEvent, TypeOK
<1>2. CASE UNCHANGED events
  BY <1>2
<1>3. ASSUME NEW signer \in Accounts, Control(signer)
      PROVE  UNCHANGED events
  BY <1>3 DEF Control, register_session, pause_session, resume_session, disarm_session
<1>4. QED  BY <1>1, <1>2, <1>3, StepShape DEF Executed, Tick, vars

\* Once recorded, a Leader event is never replaced or removed: an identical
\* retry and a conflicting one leave it as it was.
THEOREM EventsNeverChange == Spec => EventsImmutable
BY EventsStep, TypeCorrect, PTL DEF Spec, EventsImmutable

-----------------------------------------------------------------------------
(* The effect of a session control on one session. *)

\* A session control replaces, toggles or removes one session, and only a
\* registration resets what it has spent.
LEMMA ControlShape ==
  ASSUME TypeOK, NEW signer \in Accounts, Control(signer)
  PROVE  /\ UNCHANGED <<config, events, replay, published, now>>
         /\ \E s \in SessionIds :
              \/ /\ \E t \in Terms, x \in Nat :
                      /\ t.max_daily_quote > 0 /\ NewSession(t, x) \in Session
                      /\ sessions' = [sessions EXCEPT ![s] = NewSession(t, x)]
                 /\ spent' = [spent EXCEPT ![s] = [d \in Times |-> 0]]
              \/ /\ sessions[s] # None
                 /\ \E b \in BOOLEAN :
                      sessions' = [sessions EXCEPT ![s] = [@ EXCEPT !.paused = b]]
                 /\ spent' = spent
              \/ /\ sessions' = [sessions EXCEPT ![s] = None]
                 /\ spent' = spent
<1>1. 0 .. MaxTime + MAX_SESSION_DURATION_SECS \subseteq Nat
  BY ConstantsAssumption
<1>2. now \in Nat
  BY ConstantsAssumption DEF TypeOK, Times
<1>3. ASSUME NEW s \in SessionIds, NEW t \in Terms,
             NEW x \in 0 .. MaxTime + MAX_SESSION_DURATION_SECS,
             register_session(signer, s, t, x)
      PROVE  x \in Nat /\ t.max_daily_quote > 0 /\ NewSession(t, x) \in Session
  BY <1>1, <1>2, <1>3, NewSessionType DEF register_session
<1>4. QED  BY <1>3 DEF Control, register_session, pause_session,
                       resume_session, disarm_session

-----------------------------------------------------------------------------
(* The inductive invariant. *)

\* The invariant holds before the contract is initialized.
LEMMA InvInit == Init => PolicyInv
BY ConstantsAssumption DEF Init, PolicyInv, AtMostOnce, ReceiptExact, BudgetLedger,
   DailyCap, RecordedEvents, ExecutedAsRecorded, Pairs

\* Replay markers and emitted events grow together, once per pair.
LEMMA OnceStep ==
  ASSUME TypeOK, AtMostOnce, ReceiptExact, [Next]_vars
  PROVE  AtMostOnce' /\ ReceiptExact'
<1>1. CASE UNCHANGED <<replay, published>>
  BY <1>1 DEF AtMostOnce, ReceiptExact
<1>2. ASSUME NEW s \in SessionIds, NEW e \in EventIds, NEW pool \in Pools,
             NEW kind \in Kinds, NEW quote \in Quotes,
             NEW outflow \in AmountLists \cup {<<>>},
             Executed(s, e, pool, kind, quote, outflow)
      PROVE  AtMostOnce' /\ ReceiptExact'
  <2> DEFINE x == [pool |-> pool, kind |-> kind, quote |-> quote, outflow |-> outflow,
                   leader |-> sessions[s].leader,
                   coefficient_ppm |-> sessions[s].coefficient_ppm]
  <2>1. /\ <<s, e>> \in Pairs
        /\ replay[<<s, e>>] = 0
        /\ replay' = [replay EXCEPT ![<<s, e>>] = now + POLICY_TTL]
        /\ published' = [published EXCEPT ![<<s, e>>] = Append(published[<<s, e>>], x)]
    BY <1>2 DEF Executed, authorize_copy_op, PublishCopyExecuted, Pairs
  <2>2. published[<<s, e>>] = <<>>
    BY <2>1 DEF ReceiptExact
  <2>3. published' = [published EXCEPT ![<<s, e>>] = <<x>>]
    <3>1. Append(<<>>, x) = <<x>>
      OBVIOUS
    <3>2. QED  BY <2>1, <2>2, <3>1, Zenon
  <2>4. now + POLICY_TTL # 0
    BY ConstantsAssumption DEF TypeOK, Times
  <2>5. Len(<<x>>) = 1 /\ <<x>> # <<>>
    OBVIOUS
  <2> HIDE DEF x
  <2>6. AtMostOnce'
    BY <2>3, <2>5 DEF AtMostOnce, TypeOK
  <2>7. ReceiptExact'
    BY <2>1, <2>3, <2>4, <2>5 DEF ReceiptExact, TypeOK
  <2>8. QED  BY <2>6, <2>7
<1>3. QED
  BY <1>1, <1>2, StepShape, ControlShape DEF StoreEvent, Tick, vars

\* The counter a session is charged on is the usage of the current day.
LEMMA UsedTodayIsSpent ==
  ASSUME TypeOK, BudgetLedger, NEW s \in SessionIds, sessions[s] # None
  PROVE  /\ day(now) \in Times
         /\ UsedToday(sessions[s]) = spent[s][day(now)]
         /\ UsedToday(sessions[s]) >= 0
<1>1. now \in Nat /\ sessions[s] \in Session /\ MaxTime \in Nat /\ now <= MaxTime
  BY ConstantsAssumption DEF TypeOK, Times
<1>2. day(now) \in Nat /\ day(now) <= now
  BY <1>1, DayBounds
<1>3. day(now) \in Times
  BY <1>1, <1>2 DEF Times
<1>4. QED  BY <1>1, <1>2, <1>3 DEF BudgetLedger, UsedToday, Session

\* The budget facts about one session that a step leaves alone.
LEMMA BudgetFrame ==
  ASSUME TypeOK, BudgetLedger, DailyCap, NEW s \in SessionIds,
         sessions'[s] # None => /\ sessions[s] # None
                                /\ sessions'[s].daily_day = sessions[s].daily_day
                                /\ sessions'[s].daily_used_quote = sessions[s].daily_used_quote
                                /\ sessions'[s].max_daily_quote = sessions[s].max_daily_quote,
         spent'[s] = spent[s], now' \in {now, now + 1}, sessions'[s] # None
  PROVE  /\ sessions'[s].daily_day <= day(now')
         /\ sessions'[s].max_daily_quote > 0
         /\ spent'[s][sessions'[s].daily_day] = sessions'[s].daily_used_quote
         /\ sessions'[s].daily_used_quote >= 0
         /\ \A d \in Times : d > sessions'[s].daily_day => spent'[s][d] = 0
         /\ \A d \in Times : spent'[s][d] <= sessions'[s].max_daily_quote
<1>1. now \in Nat /\ sessions[s] \in Session
  BY DEF TypeOK, Times
<1>2. day(now) <= day(now') /\ day(now) \in Nat /\ day(now') \in Nat
  BY <1>1, DayMonotone, DayBounds
<1>3. sessions[s].daily_day \in Nat
  BY <1>1 DEF Session
<1>4. sessions'[s].daily_day <= day(now')
  BY <1>2, <1>3 DEF BudgetLedger
<1>5. QED  BY <1>4 DEF BudgetLedger, DailyCap

\* The budget facts about a session after a registration.
LEMMA BudgetFresh ==
  ASSUME now \in Times, NEW t \in Terms, NEW x \in Nat, t.max_daily_quote > 0
  PROVE  LET n == NewSession(t, x)  z == [d \in Times |-> 0] IN
         /\ n.daily_day <= day(now) /\ n.max_daily_quote > 0
         /\ z[n.daily_day] = n.daily_used_quote /\ n.daily_used_quote >= 0
         /\ \A d \in Times : z[d] = 0 /\ z[d] <= n.max_daily_quote
<1>1. day(now) \in Times /\ day(now) <= now /\ day(now) \in Nat
  <2>1. now \in Nat /\ now <= MaxTime /\ MaxTime \in Nat
    BY ConstantsAssumption DEF Times
  <2>2. QED  BY <2>1, DayBounds DEF Times
<1>2. t.max_daily_quote \in Int
  BY ConstantsAssumption DEF Term
<1>3. QED  BY <1>1, <1>2 DEF NewSession

\* Charging the current day keeps the ledger and the cap.
LEMMA BudgetCharge ==
  ASSUME TypeOK, BudgetLedger, DailyCap,
         NEW s \in SessionIds, NEW e \in EventIds, NEW pool \in Pools,
         NEW kind \in Kinds, NEW quote \in Quotes,
         NEW outflow \in AmountLists \cup {<<>>},
         Executed(s, e, pool, kind, quote, outflow)
  PROVE  BudgetLedger' /\ DailyCap'
<1>1. /\ now \in Nat /\ quote \in Int /\ quote > 0
      /\ sessions[s] # None /\ sessions[s] \in Session
      /\ sessions' = [sessions EXCEPT ![s] = Charge(sessions[s], quote)]
      /\ UsedToday(sessions[s]) + quote <= sessions[s].max_daily_quote
      /\ spent' = [spent EXCEPT ![s] = [spent[s] EXCEPT ![day(now)] = @ + quote]]
      /\ now' = now
  BY ConstantsAssumption
  DEF Executed, MatchesRecord, authorize_copy_op, PublishCopyExecuted, TypeOK, Times
<1> DEFINE used == UsedToday(sessions[s])
<1>2. /\ day(now) \in Times /\ day(now) \in Nat
      /\ used = spent[s][day(now)] /\ used >= 0 /\ used \in Int
  <2>1. day(now) \in Nat
    BY <1>1, DayBounds
  <2>2. used \in Int
    BY <1>1, ChargeType
  <2>3. QED  BY <1>1, <2>1, <2>2, UsedTodayIsSpent
<1>3. /\ sessions'[s].daily_day = day(now)
      /\ sessions'[s].daily_used_quote = used + quote
      /\ sessions'[s].max_daily_quote = sessions[s].max_daily_quote
  BY <1>1 DEF Charge, TypeOK, Session
<1>4. /\ spent'[s] = [spent[s] EXCEPT ![day(now)] = spent[s][day(now)] + quote]
      /\ spent[s] \in [Times -> Int]
  BY <1>1 DEF TypeOK
<1>5. spent'[s][day(now)] = used + quote
  BY <1>2, <1>4
<1>6. \A d \in Times : d > day(now) => spent'[s][d] = 0
  <2>1. sessions[s].daily_day <= day(now) /\ sessions[s].daily_day \in Nat
    BY <1>1 DEF BudgetLedger, Session
  <2>2. \A d \in Times : d > sessions[s].daily_day => spent[s][d] = 0
    BY <1>1 DEF BudgetLedger
  <2>3. \A d \in Times : d \in Int
    BY DEF Times
  <2>4. QED  BY <1>2, <1>4, <2>1, <2>2, <2>3
<1>7. \A d \in Times : spent'[s][d] <= sessions[s].max_daily_quote
  BY <1>1, <1>2, <1>4, <1>5 DEF DailyCap
<1>8. sessions[s].max_daily_quote > 0
  BY <1>1 DEF BudgetLedger
<1>9. \A r \in SessionIds \ {s} : sessions'[r] = sessions[r] /\ spent'[r] = spent[r]
  BY <1>1 DEF TypeOK
<1> HIDE DEF used
<1>10. BudgetLedger'
  <2> SUFFICES ASSUME NEW r \in SessionIds, sessions'[r] # None
               PROVE  /\ sessions'[r].daily_day <= day(now)
                      /\ sessions'[r].max_daily_quote > 0
                      /\ spent'[r][sessions'[r].daily_day] = sessions'[r].daily_used_quote
                      /\ sessions'[r].daily_used_quote >= 0
                      /\ \A d \in Times : d > sessions'[r].daily_day => spent'[r][d] = 0
    BY <1>1 DEF BudgetLedger
  <2>1. CASE r = s
    BY <2>1, <1>1, <1>2, <1>3, <1>5, <1>6, <1>8
  <2>2. CASE r # s
    BY <2>2, <1>9 DEF BudgetLedger
  <2>3. QED  BY <2>1, <2>2
<1>11. DailyCap'
  BY <1>3, <1>7, <1>9 DEF DailyCap
<1>12. QED  BY <1>10, <1>11

\* Every step keeps the ledger and the cap.
LEMMA BudgetStep ==
  ASSUME TypeOK, BudgetLedger, DailyCap, [Next]_vars
  PROVE  BudgetLedger' /\ DailyCap'
<1>1. CASE UNCHANGED <<sessions, spent>> /\ now' \in {now, now + 1}
  BY <1>1, BudgetFrame DEF BudgetLedger, DailyCap
<1>2. ASSUME NEW signer \in Accounts, Control(signer)
      PROVE  BudgetLedger' /\ DailyCap'
  <2>1. now' = now /\ now \in Times
    BY <1>2, ControlShape DEF TypeOK
  <2>2. PICK s \in SessionIds :
          \/ /\ \E t \in Terms, x \in Nat :
                  /\ t.max_daily_quote > 0
                  /\ sessions' = [sessions EXCEPT ![s] = NewSession(t, x)]
             /\ spent' = [spent EXCEPT ![s] = [d \in Times |-> 0]]
          \/ /\ sessions[s] # None
             /\ \E b \in BOOLEAN :
                  sessions' = [sessions EXCEPT ![s] = [@ EXCEPT !.paused = b]]
             /\ spent' = spent
          \/ /\ sessions' = [sessions EXCEPT ![s] = None]
             /\ spent' = spent
    BY <1>2, ControlShape
  <2>3. \A r \in SessionIds \ {s} : sessions'[r] = sessions[r] /\ spent'[r] = spent[r]
    BY <2>2 DEF TypeOK
  <2>4. SUFFICES ASSUME NEW r \in SessionIds, sessions'[r] # None
        PROVE  /\ sessions'[r].daily_day <= day(now')
               /\ sessions'[r].max_daily_quote > 0
               /\ spent'[r][sessions'[r].daily_day] = sessions'[r].daily_used_quote
               /\ sessions'[r].daily_used_quote >= 0
               /\ \A d \in Times : d > sessions'[r].daily_day => spent'[r][d] = 0
               /\ \A d \in Times : spent'[r][d] <= sessions'[r].max_daily_quote
    BY DEF BudgetLedger, DailyCap
  <2>5. CASE r # s
    BY <2>1, <2>3, <2>4, <2>5, BudgetFrame
  <2>6. CASE r = s /\ \E t \in Terms, x \in Nat :
                  /\ t.max_daily_quote > 0
                  /\ sessions' = [sessions EXCEPT ![s] = NewSession(t, x)]
                  /\ spent' = [spent EXCEPT ![s] = [d \in Times |-> 0]]
    <3>1. PICK t \in Terms, x \in Nat :
            /\ t.max_daily_quote > 0
            /\ sessions' = [sessions EXCEPT ![s] = NewSession(t, x)]
            /\ spent' = [spent EXCEPT ![s] = [d \in Times |-> 0]]
      BY <2>6
    <3>2. sessions'[r] = NewSession(t, x) /\ spent'[r] = [d \in Times |-> 0]
      BY <2>6, <3>1 DEF TypeOK
    <3>3. QED  BY <2>1, <3>1, <3>2, BudgetFresh
  <2>7. CASE r = s /\ spent' = spent /\ sessions[s] # None
             /\ \E b \in BOOLEAN :
                  sessions' = [sessions EXCEPT ![s] = [@ EXCEPT !.paused = b]]
    <3>1. sessions[s] \in Session
      BY <2>7 DEF TypeOK
    <3>2. /\ sessions'[r].daily_day = sessions[r].daily_day
          /\ sessions'[r].daily_used_quote = sessions[r].daily_used_quote
          /\ sessions'[r].max_daily_quote = sessions[r].max_daily_quote
      BY <2>7, <3>1 DEF TypeOK, Session
    <3>3. QED  BY <2>1, <2>4, <2>7, <3>2, BudgetFrame
  <2>8. CASE r = s /\ sessions' = [sessions EXCEPT ![s] = None]
    BY <2>4, <2>8 DEF TypeOK
  <2>9. QED  BY <2>2, <2>5, <2>6, <2>7, <2>8
<1>3. QED
  BY <1>1, <1>2, BudgetCharge, StepShape DEF StoreEvent, Tick, vars

\* Every step keeps the recorded events valid.
LEMMA RecordedStep ==
  ASSUME TypeOK, RecordedEvents, [Next]_vars
  PROVE  RecordedEvents'
<1>1. CASE \E e \in EventIds, p \in Payloads :
             p.amounts # <<>> /\ p.quote > 0 /\ StoreEvent(e, p)
  BY <1>1 DEF StoreEvent, TypeOK, RecordedEvents
<1>2. CASE UNCHANGED events
  BY <1>2 DEF RecordedEvents
<1>3. QED  BY <1>1, <1>2, StepShape, ControlShape DEF Executed, Tick, vars

\* An execution agrees with the record it was bound to.
LEMMA ExecutedAgrees ==
  ASSUME TypeOK, RecordedEvents,
         NEW s \in SessionIds, NEW e \in EventIds, NEW pool \in Pools,
         NEW kind \in Kinds, NEW quote \in Quotes,
         NEW outflow \in AmountLists \cup {<<>>},
         Executed(s, e, pool, kind, quote, outflow)
  PROVE  /\ events[e] # None
         /\ events[e].leader = sessions[s].leader
         /\ events[e].pool = pool /\ events[e].kind = kind
         /\ quote = Scale(events[e].quote, sessions[s].coefficient_ppm)
         /\ \A j \in DOMAIN outflow :
              outflow[j] = Scale(events[e].amounts[j], sessions[s].coefficient_ppm)
<1> DEFINE ppm == sessions[s].coefficient_ppm
           amounts == events[e].amounts
<1>1. /\ events[e] # None
      /\ events[e].leader = sessions[s].leader
      /\ events[e].pool = pool /\ events[e].kind = kind
      /\ quote = Scale(events[e].quote, ppm)
  BY DEF Executed, MatchesRecord, ScalesQuote
<1>2. amounts # <<>>
  BY <1>1 DEF RecordedEvents
<1>3. \A j \in DOMAIN outflow : outflow[j] = Scale(amounts[j], ppm)
  <2>1. CASE outflow = <<>>
    BY <2>1
  <2>2. CASE outflow # <<>> /\ kind = "deposit"
    <3>1. outflow = scale_amounts(amounts, ppm)
      BY <2>2 DEF Executed, BindsAmounts
    <3>2. QED  BY <3>1 DEF scale_amounts
  <2>3. CASE outflow # <<>> /\ kind = "withdraw"
    <3>1. outflow = <<Scale(amounts[1], ppm)>>
      BY <1>2, <2>3 DEF Executed, BindsAmounts, ExpectedShares
    <3>2. DOMAIN outflow = {1} /\ outflow[1] = Scale(amounts[1], ppm)
      BY <3>1
    <3>3. QED  BY <3>2
  <2>4. QED  BY <2>1, <2>2, <2>3 DEF Executed, Kinds
<1>4. QED  BY <1>1, <1>3

\* Every step keeps past executions in agreement with the record.
LEMMA ExecutedAsRecordedStep ==
  ASSUME TypeOK, AtMostOnce, ReceiptExact, RecordedEvents, ExecutedAsRecorded, [Next]_vars
  PROVE  ExecutedAsRecorded'
<1>1. \A e \in EventIds : events[e] # None => events'[e] = events[e]
  BY EventsStep
<1>2. CASE UNCHANGED published
  <2>1. ASSUME NEW p \in Pairs, NEW i \in DOMAIN published[p]
        PROVE  Agrees(published[p][i], events'[p[2]])
    <3>1. Agrees(published[p][i], events[p[2]])
      BY DEF ExecutedAsRecorded
    <3>2. p[2] \in EventIds /\ events[p[2]] # None
      BY <3>1 DEF Agrees, Pairs
    <3>3. QED  BY <1>1, <3>1, <3>2
  <2>2. QED  BY <1>2, <2>1 DEF ExecutedAsRecorded
<1>3. ASSUME NEW s \in SessionIds, NEW e \in EventIds, NEW pool \in Pools,
             NEW kind \in Kinds, NEW quote \in Quotes,
             NEW outflow \in AmountLists \cup {<<>>},
             Executed(s, e, pool, kind, quote, outflow)
      PROVE  ExecutedAsRecorded'
  <2> DEFINE x == [pool |-> pool, kind |-> kind, quote |-> quote, outflow |-> outflow,
                   leader |-> sessions[s].leader,
                   coefficient_ppm |-> sessions[s].coefficient_ppm]
  <2>1. /\ <<s, e>> \in Pairs
        /\ replay[<<s, e>>] = 0
        /\ published' = [published EXCEPT ![<<s, e>>] = Append(published[<<s, e>>], x)]
        /\ events' = events
    BY <1>3 DEF Executed, authorize_copy_op, PublishCopyExecuted, Pairs
  <2>2. published[<<s, e>>] = <<>>
    BY <2>1 DEF ReceiptExact
  <2>3. Append(<<>>, x) = <<x>>
    OBVIOUS
  <2>4. published' = [published EXCEPT ![<<s, e>>] = <<x>>]
    BY <2>1, <2>2, <2>3, Zenon
  <2>5. Agrees(x, events[e])
    BY <1>3, ExecutedAgrees DEF Agrees
  <2>6. DOMAIN <<x>> = {1} /\ <<x>>[1] = x
    OBVIOUS
  <2> HIDE DEF x
  <2>7. ASSUME NEW p \in Pairs, NEW i \in DOMAIN published'[p]
        PROVE  Agrees(published'[p][i], events[p[2]])
    <3>1. CASE p = <<s, e>>
      <4>1. published'[p] = <<x>> /\ p[2] = e
        BY <2>1, <2>4, <3>1 DEF TypeOK
      <4>2. published'[p][i] = x
        BY <2>6, <2>7, <4>1
      <4>3. QED  BY <2>5, <4>1, <4>2
    <3>2. CASE p # <<s, e>>
      <4>1. published'[p] = published[p]
        BY <2>1, <2>4, <3>2 DEF TypeOK
      <4>2. QED  BY <2>7, <4>1 DEF ExecutedAsRecorded
    <3>3. QED  BY <3>1, <3>2
  <2>8. QED  BY <2>1, <2>7 DEF ExecutedAsRecorded
<1>4. QED
  BY <1>2, <1>3, StepShape, ControlShape DEF StoreEvent, Tick, vars

\* The invariant is inductive, given well-typed states.
LEMMA InvStep == TypeOK /\ PolicyInv /\ [Next]_vars => PolicyInv'
BY OnceStep, BudgetStep, RecordedStep, ExecutedAsRecordedStep DEF PolicyInv

\* The inductive invariant holds in every reachable state of the contract.
THEOREM PolicyInvariant == Spec => []PolicyInv
BY InvInit, InvStep, TypeCorrect, PTL DEF Spec

-----------------------------------------------------------------------------
(* What the follower can rely on. *)

\* A session id never copies the same Leader event twice.
THEOREM CopiedAtMostOnce == Spec => []AtMostOnce
<1>1. PolicyInv => AtMostOnce
  BY DEF PolicyInv
<1>2. QED  BY <1>1, PolicyInvariant, PTL

\* The copy_executed receipt is exact.
THEOREM ReceiptIsExact == Spec => []ReceiptExact
<1>1. PolicyInv => ReceiptExact
  BY DEF PolicyInv
<1>2. QED  BY <1>1, PolicyInvariant, PTL

\* No UTC day sees more than the registered daily limit copied.
THEOREM DailyLimitHolds == Spec => []DailyCap
<1>1. PolicyInv => DailyCap
  BY DEF PolicyInv
<1>2. QED  BY <1>1, PolicyInvariant, PTL

\* The day counter is what was copied on its day, and nothing is charged later.
THEOREM LedgerIsExact == Spec => []BudgetLedger
<1>1. PolicyInv => BudgetLedger
  BY DEF PolicyInv
<1>2. QED  BY <1>1, PolicyInvariant, PTL

\* Executions agree for ever with the events they copied.
THEOREM CopiesMatchTheRecord == Spec => []ExecutedAsRecorded
<1>1. PolicyInv => ExecutedAsRecorded
  BY DEF PolicyInv
<1>2. QED  BY <1>1, PolicyInvariant, PTL

-----------------------------------------------------------------------------
(* CopyPolicy implements CopyAllowance, for every choice of its constants. *)

\* What each session grants, what is left of it today, and what was copied:
\* the refinement mapping.
Cap    == [s \in SessionIds |->
             IF sessions[s] = None THEN 0 ELSE sessions[s].max_daily_quote]
Left   == [s \in SessionIds |->
             IF sessions[s] = None THEN 0
             ELSE sessions[s].max_daily_quote - UsedToday(sessions[s])]
Copied == [p \in Pairs |-> IF published[p] = <<>> THEN 0 ELSE published[p][1].quote]

\* The initial states map to the one initial state of the abstract machine.
LEMMA RefInit == Init => Allowance!Init
<1>1. day(0) = 0
  BY ConstantsAssumption DEF day
<1>2. QED  BY <1>1 DEF Init, Allowance!Init, Pairs

\* A session whose terms and counter stay, on the same day, has the same
\* allowance and the same remainder.
LEMMA SameBudget ==
  ASSUME NEW s \in SessionIds, day(now') = day(now),
         sessions'[s] = None <=> sessions[s] = None,
         sessions[s] # None => /\ sessions'[s].daily_day = sessions[s].daily_day
                               /\ sessions'[s].daily_used_quote = sessions[s].daily_used_quote
                               /\ sessions'[s].max_daily_quote = sessions[s].max_daily_quote
  PROVE  Cap'[s] = Cap[s] /\ Left'[s] = Left[s]
BY DEF Cap, Left, UsedToday

\* Recording an event attests it, or repeats what is on record.
LEMMA RecordMaps ==
  ASSUME TypeOK, NEW e \in EventIds, NEW p \in Payloads, StoreEvent(e, p)
  PROVE  Allowance!Attest(e, events'[e]) \/ UNCHANGED Allowance!vars
<1>1. /\ UNCHANGED <<sessions, published, now>>
      /\ events' = [events EXCEPT ![e] = p] /\ events'[e] = p
  BY DEF StoreEvent, TypeOK
<1>2. CASE events[e] = None
  BY <1>1, <1>2 DEF Allowance!Attest, UsedToday
<1>3. CASE events[e] = p
  <2>1. events' = events
    BY <1>1, <1>3 DEF TypeOK
  <2>2. QED  BY <1>1, <2>1 DEF Allowance!vars, UsedToday
<1>4. QED  BY <1>2, <1>3 DEF StoreEvent

\* Registering grants the new daily limit, disarming grants nothing, pausing
\* and resuming leave the allowance as it was.
LEMMA ControlMaps ==
  ASSUME TypeOK, NEW signer \in Accounts, Control(signer)
  PROVE  \/ \E s \in SessionIds : Allowance!Grant(s, Cap'[s])
         \/ UNCHANGED Allowance!vars
<1>1. UNCHANGED <<events, published, now>>
  BY ControlShape
<1>2. PICK s \in SessionIds :
        \/ \E t \in Terms, x \in Nat :
             /\ t.max_daily_quote > 0 /\ NewSession(t, x) \in Session
             /\ sessions' = [sessions EXCEPT ![s] = NewSession(t, x)]
        \/ /\ sessions[s] # None
           /\ \E b \in BOOLEAN :
                sessions' = [sessions EXCEPT ![s] = [@ EXCEPT !.paused = b]]
        \/ sessions' = [sessions EXCEPT ![s] = None]
  BY ControlShape
<1>3. \A r \in SessionIds \ {s} : Cap'[r] = Cap[r] /\ Left'[r] = Left[r]
  BY <1>1, <1>2 DEF Cap, Left, UsedToday, TypeOK
<1>4. ASSUME Cap'[s] >= 0, Left'[s] = Cap'[s]
      PROVE  Allowance!Grant(s, Cap'[s])
  BY <1>1, <1>3, <1>4 DEF Allowance!Grant, Cap, Left
<1>5. CASE \E t \in Terms, x \in Nat :
             /\ t.max_daily_quote > 0 /\ NewSession(t, x) \in Session
             /\ sessions' = [sessions EXCEPT ![s] = NewSession(t, x)]
  <2>1. PICK t \in Terms, x \in Nat :
          /\ t.max_daily_quote > 0 /\ NewSession(t, x) \in Session
          /\ sessions' = [sessions EXCEPT ![s] = NewSession(t, x)]
    BY <1>5
  <2>2. now \in Nat /\ t \in Term
    BY ConstantsAssumption DEF TypeOK, Times
  <2>3. NewSession(t, x) # None
    BY <2>1, ConstantsAssumption
  <2>4. sessions'[s] = NewSession(t, x)
    BY <2>1 DEF TypeOK
  <2>5. /\ Cap'[s] = t.max_daily_quote
        /\ Left'[s] = t.max_daily_quote - 0
    BY <1>1, <2>3, <2>4 DEF Cap, Left, UsedToday, NewSession
  <2>6. QED  BY <1>4, <2>1, <2>2, <2>5 DEF Term
<1>6. CASE /\ sessions[s] # None
           /\ \E b \in BOOLEAN :
                sessions' = [sessions EXCEPT ![s] = [@ EXCEPT !.paused = b]]
  <2>1. sessions[s] \in Session
    BY <1>6 DEF TypeOK
  <2>2. PICK b \in BOOLEAN :
          sessions' = [sessions EXCEPT ![s] = [sessions[s] EXCEPT !.paused = b]]
    BY <1>6
  <2>3. [sessions[s] EXCEPT !.paused = b] \in Session
    BY <2>1 DEF Session
  <2>4. /\ sessions'[s] # None
        /\ sessions'[s].daily_day = sessions[s].daily_day
        /\ sessions'[s].daily_used_quote = sessions[s].daily_used_quote
        /\ sessions'[s].max_daily_quote = sessions[s].max_daily_quote
    BY <2>1, <2>2, <2>3, ConstantsAssumption DEF TypeOK, Session
  <2>5. Cap'[s] = Cap[s] /\ Left'[s] = Left[s]
    BY <1>1, <1>6, <2>4, SameBudget
  <2>6. \A r \in SessionIds : Cap'[r] = Cap[r] /\ Left'[r] = Left[r]
    BY <1>3, <2>5
  <2>7. QED  BY <1>1, <2>6 DEF Allowance!vars, Cap, Left
<1>7. CASE sessions' = [sessions EXCEPT ![s] = None]
  <2>1. Cap'[s] = 0 /\ Left'[s] = 0
    BY <1>7 DEF TypeOK, Cap, Left
  <2>2. QED  BY <1>4, <2>1
<1>8. QED  BY <1>2, <1>5, <1>6, <1>7

\* An execution is a copy out of what is left of the day's allowance.
LEMMA ExecuteMaps ==
  ASSUME TypeOK, PolicyInv,
         NEW s \in SessionIds, NEW e \in EventIds, NEW pool \in Pools,
         NEW kind \in Kinds, NEW quote \in Quotes,
         NEW outflow \in AmountLists \cup {<<>>},
         Executed(s, e, pool, kind, quote, outflow)
  PROVE  Allowance!Copy(s, e, Copied'[<<s, e>>])
<1> DEFINE x == [pool |-> pool, kind |-> kind, quote |-> quote, outflow |-> outflow,
                 leader |-> sessions[s].leader,
                 coefficient_ppm |-> sessions[s].coefficient_ppm]
<1>1. /\ UNCHANGED <<events, now>> /\ events[e] # None /\ <<s, e>> \in Pairs
      /\ now \in Nat /\ quote \in Int /\ quote > 0
      /\ sessions[s] # None /\ sessions[s] \in Session
      /\ replay[<<s, e>>] = 0
      /\ UsedToday(sessions[s]) + quote <= sessions[s].max_daily_quote
      /\ sessions' = [sessions EXCEPT ![s] = Charge(sessions[s], quote)]
      /\ published' = [published EXCEPT ![<<s, e>>] = Append(published[<<s, e>>], x)]
  BY ConstantsAssumption
  DEF Executed, MatchesRecord, authorize_copy_op, PublishCopyExecuted, TypeOK, Times, Pairs
<1>2. published[<<s, e>>] = <<>>
  BY <1>1 DEF PolicyInv, ReceiptExact
<1>3. published' = [published EXCEPT ![<<s, e>>] = <<x>>]
  <2>1. Append(<<>>, x) = <<x>>
    OBVIOUS
  <2>2. QED  BY <1>1, <1>2, <2>1, Zenon
<1>4. <<x>> # <<>> /\ <<x>>[1] = x /\ x.quote = quote
  OBVIOUS
<1> HIDE DEF x
<1>5. Copied[<<s, e>>] = 0 /\ Copied'[<<s, e>>] = quote
  BY <1>1, <1>2, <1>3, <1>4 DEF Copied, TypeOK
<1>6. \A p \in Pairs \ {<<s, e>>} : Copied'[p] = Copied[p]
  BY <1>1, <1>3 DEF Copied, TypeOK
<1>7. /\ sessions'[s] = Charge(sessions[s], quote)
      /\ Charge(sessions[s], quote) \in Session
      /\ UsedToday(sessions[s]) \in Int
  BY <1>1, ChargeType DEF TypeOK
<1>8. sessions'[s] # None
  BY <1>7, ConstantsAssumption
<1>9. /\ sessions'[s].max_daily_quote = sessions[s].max_daily_quote
      /\ sessions'[s].daily_day = day(now)
      /\ sessions'[s].daily_used_quote = UsedToday(sessions[s]) + quote
  BY <1>1, <1>7 DEF Charge, Session
<1>10. UsedToday(sessions'[s]) = UsedToday(sessions[s]) + quote /\ day(now') = day(now)
  BY <1>1, <1>9 DEF UsedToday
<1>11. /\ Cap'[s] = Cap[s] /\ Left'[s] = Left[s] - quote /\ quote <= Left[s]
  <2>1. UsedToday(sessions[s])' = UsedToday(sessions[s]) + quote
    BY <1>1, <1>9 DEF UsedToday
  <2>2. sessions[s].max_daily_quote \in Int
    BY <1>1 DEF Session
  <2>3. QED  BY <1>1, <1>7, <1>8, <1>9, <2>1, <2>2 DEF Cap, Left
<1>12. \A r \in SessionIds \ {s} : Cap'[r] = Cap[r] /\ Left'[r] = Left[r]
  BY <1>1 DEF Cap, Left, UsedToday, TypeOK
<1>13. Left' = [Left EXCEPT ![s] = @ - quote]
  BY <1>11, <1>12 DEF Left
<1>14. Copied' = [Copied EXCEPT ![<<s, e>>] = quote]
  <2>1. /\ Copied' = [p \in Pairs |-> Copied'[p]]
        /\ Copied = [p \in Pairs |-> Copied[p]]
    BY Zenon DEF Copied
  <2>2. QED  BY <1>1, <1>5, <1>6, <2>1
<1>15. Cap' = Cap
  BY <1>11, <1>12 DEF Cap
<1>16. QED
  BY <1>1, <1>5, <1>10, <1>11, <1>13, <1>14, <1>15
  DEF Allowance!Copy, Cap, Left, Copied, Pairs

\* The clock changes nothing within a day, and refills every allowance when
\* it enters the next one, although no session is written.
LEMMA TickMaps ==
  ASSUME TypeOK, PolicyInv, Tick
  PROVE  Allowance!NextDay \/ UNCHANGED Allowance!vars
<1>1. /\ UNCHANGED <<events, sessions, published>> /\ now' = now + 1
      /\ now \in Nat /\ now' \in Nat
  BY DEF Tick, TypeOK, Times
<1>2. day(now) <= day(now') /\ day(now) \in Nat /\ day(now') \in Nat
  BY <1>1, DayMonotone, DayBounds
<1>3. CASE day(now') = day(now)
  BY <1>1, <1>3 DEF Allowance!vars, UsedToday
<1>4. CASE day(now') > day(now)
  <2>1. ASSUME NEW s \in SessionIds
        PROVE  Left'[s] = Cap[s] /\ Cap'[s] = Cap[s]
    <3>1. CASE sessions[s] = None
      BY <1>1, <3>1 DEF Left, Cap
    <3>2. CASE sessions[s] # None
      <4>1. sessions[s] \in Session /\ sessions[s].daily_day <= day(now)
        BY <3>2 DEF TypeOK, PolicyInv, BudgetLedger
      <4>2. sessions[s].daily_day \in Nat /\ sessions[s].max_daily_quote \in Int
        BY <4>1 DEF Session
      <4>3. day(now') # sessions[s].daily_day
        BY <1>2, <1>4, <4>1, <4>2
      <4>4. QED  BY <1>1, <3>2, <4>2, <4>3 DEF Left, Cap, UsedToday
    <3>3. QED  BY <3>1, <3>2
  <2>2. QED  BY <1>1, <1>4, <2>1 DEF Allowance!NextDay, Left, Cap
<1>5. QED  BY <1>2, <1>3, <1>4

\* Every step of the contract is a step of the allowance or a stutter.
LEMMA RefStep ==
  TypeOK /\ PolicyInv /\ [Next]_vars => [Allowance!Next]_(Allowance!vars)
<1> SUFFICES ASSUME TypeOK, PolicyInv, [Next]_vars
             PROVE  Allowance!Next \/ UNCHANGED Allowance!vars
  OBVIOUS
<1>1. CASE UNCHANGED <<events, sessions, published, now>>
  BY <1>1 DEF Allowance!vars, UsedToday
<1>2. ASSUME NEW e \in EventIds, NEW p \in Payloads, StoreEvent(e, p)
      PROVE  Allowance!Next \/ UNCHANGED Allowance!vars
  BY <1>2, RecordMaps DEF Allowance!Next
<1>3. ASSUME NEW signer \in Accounts, Control(signer)
      PROVE  Allowance!Next \/ UNCHANGED Allowance!vars
  BY <1>3, ControlMaps DEF Allowance!Next, Cap
<1>4. ASSUME NEW s \in SessionIds, NEW e \in EventIds, NEW pool \in Pools,
             NEW kind \in Kinds, NEW quote \in Quotes,
             NEW outflow \in AmountLists \cup {<<>>},
             Executed(s, e, pool, kind, quote, outflow)
      PROVE  Allowance!Next
  <2>1. Allowance!Copy(s, e, Copied'[<<s, e>>])
    BY <1>4, ExecuteMaps
  <2>2. QED  BY <2>1 DEF Allowance!Next, Copied, Pairs
<1>5. CASE Tick
  BY <1>5, TickMaps DEF Allowance!Next
<1>6. QED  BY <1>1, <1>2, <1>3, <1>4, <1>5, StepShape DEF vars

\* The contract keeps the promise of CopyAllowance.
THEOREM PolicyImplementsAllowance == Spec => ImplementsAllowance
<1>1. Spec => Allowance!Spec
  BY RefInit, RefStep, TypeCorrect, PolicyInvariant, PTL DEF Spec, Allowance!Spec
<1>2. QED  BY <1>1 DEF ImplementsAllowance
=============================================================================
