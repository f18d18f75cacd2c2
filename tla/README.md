# LumenLP: a TLA+ verification project

LumenLP indexes liquidity events of several Stellar DEXes, ranks liquidity
providers, and lets a *follower* copy a *Leader*'s deposits, withdrawals and
fee claims through a policy contract the follower owns. This directory holds
TLA+ models of the parts whose correctness depends on order, failure,
concurrency or several pieces of code computing the same thing, the TLC runs
that check them, and machine-checked proofs of every invariant and every safety
action property the passing runs check: about the contract, the relayer, the
sessions, the indexer, the API's services, and the path of an event from a
venue's contract to a copy. Paths below are relative to
the repository; `handlers.rs`, `index_db.rs` and the like are files of
`crates/api-server/src`.

## 1. The system

```
 Stellar ledgers --> pool-indexer --> pool_events (SQLite) --> api-server
                                                               | copy_sessions
                                      reconcile worker (15 s)  | copy_ops
                                                               | recorder_outbox
   follower / web app -- HTTP ------------------------------>  |
                                                               v
                           systemd timer (15 s) --> run-copy-relayer-testnet.sh
                                                               | recorder_deliveries
                                      record_leader_event, execute_aquarius_..
                                                               v
                                                  copy-policy contract --> venue
```

### Components

| Component | State | Operations | Hard behaviour | What makes it correct |
|---|---|---|---|---|
| **Copy policy contract** `contracts/copy-policy/src/lib.rs` | owner, relayer, recorder, routers; recorded Leader events; sessions with a daily counter; replay markers | set-up, `record_*_event`, `register/pause/resume/disarm_session`, `authorize_copy_op`, `execute_*` | long sequences of legal calls by three roles; lazy day rollover; atomic rollback of a failed venue call; fixed-point scaling with overflow | no event copied twice under a session id, exact receipts, daily limit, every copy agrees with a write-once record |
| **Testnet relayer** `deploy/run-copy-relayer-testnet.sh` and its unit files | rows of the API's SQLite file; the run in progress | sweep, pick, record, execute, recover the receipt, requeue | killed after 120 s, responses lost, transactions landing late, interleaving with the API process | never reports what did not happen, reports what did, keeps source order per session, serves everyone |
| **Copy operations, recorder outbox** `api-server/src/{index_db,handlers,recorder,copy_lp}.rs` | `copy_ops`, `recorder_outbox` | draft, enqueue, change a status, prepare | checks and writes in separate statements while another process writes the same rows | as above; terminal statuses stay |
| **Copy sessions** same files | `copy_sessions`, a watermark per session | create, PATCH, list (which reconciles), reconcile worker | rows read before an await or an unlock and used after it; events that become visible late | no event skipped, due events drafted, expired sessions paused, bound terms fixed |
| **Policy binding check** `api-server/src/copy_policy.rs` | none | reads owner and session by RPC | an await in the middle of a handler | a binding agrees with the contract |
| **Wallet authentication** `wallet_auth.rs`, `index_db.rs`, `handlers.rs` | challenges, tokens | create, exchange, revoke, prune | a handler acts on a clock it read before it waited for the mutex; each statement commits alone | a challenge yields at most one token, for its wallet; what a signature opens closes again; rate limits hold |
| **Pool indexer** `crates/pool-indexer` | cursor, event and swap rows, pool set | scan, clamp, catch up, discover, label, fill in actors, back-fill | crash between persisting and moving the cursor; a pool that appears late; failed refresh | every event in the retained range is stored, derived fields are never lost |
| **Event decoding** `pool-indexer/src/events.rs` | none | kind, actor, derived fields, swap of each venue's events | five venues, optional fields, a missing price | the row says what took place, or says nothing |
| **LP profile cache, single flight** `handlers.rs` | local cache, Redis copy, in-flight map, refresh set | lookup, compute, wait, refresh thread | lost wake-ups, cancelled owners | one computation at a time, a change is shown in the end |
| **Leader and pool list caches** `handlers.rs` | local bodies, Redis copies, a lock, refresh flags | serve, rebuild, invalidate | several threads, slow and lost writes to Redis, disconnects | one refresh at a time, the catalogue never goes back, a stable ranking |
| **Fee snapshots** `handlers.rs`, `index_db.rs` | current rows, history | zero, clear, write; delta over a window | separate statements of which any may be lost | the delta is the growth |
| **Rollups and activity queries** `pool-indexer/src/{db,rollups}.rs`, `index_db.rs` | derived tables | incremental sync; sums in SQL and in Rust | a sync cut off between rows | the increment is the rebuild, the views agree |
| **RPC client, DEX adaptors** `crates/dex` | none | paging, retries, position reads | pages of a growing chain | every event of a range, once |
| **Recorder leases** `index_db.rs` | lease columns | claim, renew, finish | expiry while submitting | no caller in a deployed service |
| **Pricing service, metrics, pool database, snapshotter, web app** | little or none | formulas, upserts, reads | floating point and I/O | see section 6 |

`PROJECT.json` lists each component with its files and status, and, under
`hazards`, the lines at which this code can go wrong in a way a unit test would
hardly reach, each with the properties that cover it.

### How the parts interact

* The indexer and the API are separate processes on one SQLite file; the
  relayer script is a third, running `sqlite3` statements of its own. The API's
  handlers exclude each other with a mutex around its connection, but release
  it between reading and writing.
* Only the contract is authoritative. The API drafts operations and refuses
  what the session's limits exclude; the contract checks everything again.
* `copy_executed` on the contract is the receipt by which the relayer learns
  what became of an invocation whose response it lost.

## 2. The modules

| Module | Models | Rests on |
|---|---|---|
| `CopyAllowance` | what a follower is promised: a daily allowance, events attested once, once-only copies | - |
| `CopyPolicy` | the contract, one action per entry point | refines `CopyAllowance` |
| `CopyPolicyProofs` | type correctness, safety and the refinement theorem | `CopyPolicy` |
| `CopyRelayer` | API drafts, statuses and outbox, the relayer script, the contract's two write-once facts, faults | - |
| `CopySessions` | the session table, its handlers and the reconcile worker | - |
| `CopyRelayerProofs`, `CopySessionsProofs` | their safety theorems | the module named |
| `PoolIndexer`, `PoolIndexerProofs` | the indexer's processes, database and chain; its theorems | - |
| `Values` | optional values and objects | - |
| `EventDerivation` | how the indexer reads one event (pure) | `Values` |
| `VenueEvents` | what each venue publishes for an operation, and that it is recovered | `EventDerivation` |
| `CopyAdmission` | from an indexed event to an executed copy: API, script and contract (pure) | `VenueEvents` |
| `WalletAuth` | sign-in | - |
| `ProfileFlight` | the profile cache, its refresh thread and the single flight | - |
| `ListCaches` | the two list caches | `Values` |
| `ApiStateProofs` | theorems about these three | the three |
| `FeeSnapshots` | snapshots of one actor and the delta over a window | `Values` |
| `EventPaging` | `SorobanRpc::get_events` | `Values` |
| `Rollups` | five-minute rows and rollups | `Values` |
| `ActivityQueries` | what the API sums over the indexed events (pure) | `Values` |
| `LeaderBoard` | ranking and pages of the leader board (pure) | `ActivityQueries` |
| `Services` | the services and the pure algorithms side by side, and what they promise together | `CopyAdmission`, `WalletAuth`, `ProfileFlight`, `FeeSnapshots`, `EventPaging`, `Rollups`, `LeaderBoard`, `ListCaches` |
| `DataPathProofs` | theorems about decoding, admission and recording | `CopyAdmission` |
| `SetProofs` | lemmas about numbers, finite sets, their sums, ranks and lists | - |
| `ServicesProofs` | theorems about `Services` | `Services` and the proof modules it combines |
| `MCCopyPolicy`, `MCCopyRelayer`, `MCCopySessions`, `MCPoolIndexer`, `MCServices` | values of the constants for TLC | the module named |

Definitions keep the source's names. A definition whose comment begins with
*Mutant of* is a plausible bug, never part of a specification; it is there to
show that a property notices it.

### CopyPolicy

State: `owner`, `relayer`, `recorder`, `routers` are instance storage; `events`
the recorded payloads; `sessions` the session entries with `daily_day` and
`daily_used_quote`; `replay` the markers, as the end of their lifetime;
`published` the `CopyExecuted` events (a history the contract emits and never
reads); `spent` a history of the quote copied per session, registration and
day. A transaction is atomic: an entry point that returns an error, and one
whose venue call fails after the budget was charged and the marker written,
changes nothing (`CallVenue` has that branch).

Two shapes differ from the source text. The checks of an event against a session (Leader,
pool, kind, scaled quote) are repeated in every execution entry point and stand
once, in `MatchesRecord`, at the head of `Execute`. The Phoenix and Soroswap
functions differ in the arguments of their venue calls only, so they share
`PairOp`. Amounts that move out of the policy are the `outflow` of an
execution: what the authorisation entries let the venue take.

A recorded amount is at most u128 and a transfer at most i128: scaling beyond the
first traps, and a scaled amount beyond the second is cast (`lib.rs:1015`, `1051`);
`Transferable` keeps both out of a successful execution, as no token has such a
balance.

Left out: the ledger number and recording time of an event (of the two, the retry of
a record compares the ledger, `lib.rs:160`; a payload stands for it too), the minimum
amounts and Phoenix's own check that they do not exceed the desired ones
(`lib.rs:725`; one more way for `CallVenue` to fail), time-to-live of entries other
than replay markers, and the venues' internals, which accept or fail.

### CopyRelayer

State: the rows of `copy_ops` (`copy_ops`, and `line` for their `updated_at`
order), `recorder_outbox`, `recorder_deliveries`, sessions' liveness and
watermarks; `api`, what the API is in the middle of; `relayer`, the program
counter of the run with the operation and payload it picked; and of the chain
`attested` and `copied`. `late` holds executions the client gave up on and the
network may still include. `body` is the payload the current normaliser makes
of an event: a deploy may change it, after which an outbox row can be refreshed.

Each SQL statement and each invocation of the script is an action, the two updates of
the sweep (`Reopen`, `Close`) and the query and the rejection of a withdrawal without
shares (`Pick`, `RejectShareless`) among them; `Kill` may strike at any of them.
`Legacy` says what an older deployment may have left queued: the present API never
drafts a withdrawal without LP shares, so only such rows reach the rejection. The
contract's other grounds for refusing an execution (`CopyPolicy` has them) show as
`ExecuteFails`; which sessions are not refused for ever is the constant `Healthy`. Dry
runs, configuration checks and `prepare`, which only reads, are not modelled. A draft
may be accepted or rejected by the off-chain limits: a choice here, computed in
`CopyAdmission`.

Events of a session are drafted in watermark order. The script's query orders
operations by `created_at` and then by an identifier made of a nanosecond clock
(`handlers.rs:3252`); the model takes the order of insertion for it, which it
is as long as that clock does not step back.

### CopySessions

One follower, one Leader. `table` is `copy_sessions`, `copy_ops` the pairs
drafted, `requests` what each client's handler remembers across an await,
`worker` the rows the worker listed and has not reached, `lock` the reconcile
that holds the mutex with the row it goes by and the rest of its batch,
`visible` the events the indexer has written, `late` a history of events that
became visible only behind a watermark some thread goes by. `Broken` in
`lock` stands for the moment after a failed statement or a stopped process.

Creating a session pauses the pair's others and inserts the new one in two
statements, of which the first alone may survive. PATCH is `PatchRead` (all
guards, the RPC's verdict) and `PatchWrite` (a merge into whatever row is
stored then). A row's claim setting is handled by the code exactly as its
coefficient and is left out, as are limits. Creation reads the clock once for the
check of the expiry and the row's time (`handlers.rs:3543`, `3592`), the code
twice.

### PoolIndexer

State: the database (`rows`, `swaps`, `saved` for the cursor row), the process
(`pc`, `mode`, `cursor`, `target`, `scanner` and `refreshed` for its pool sets,
`pending` and `trades` for the chunk it is writing, `upto` for its end), the
chain's head and `since`, a history of the ledger from which a pool is
followed. Each row and each swap is an `INSERT` of its own and the cursor comes
last, so `Stop` may fall between any two. The service catches up in chunks,
then polls: it discovers, rescans a window with the larger set and adopts it,
scans, labels rows and fills in actors. `InitCursor` is what a start reads and writes
before the first scan, in one step. `backfill` scans a range from the command
line and also moves the cursor. A row keeps of its JSON whether its actor and
its venue label are filled in; the merge of a replay fills and never clears.

### EventDerivation, VenueEvents, CopyAdmission

Pure. `VenueEvents` writes the topics and bodies the contracts publish, in the
shapes the indexer's tests record; `EventDerivation` is the decoder, venue by
venue; the property relates the two: what comes out is what went in, or a field
is missing, never wrong, but for a Phoenix swap, of which the row holds as output
what the pool received and names no trader, and the property says exactly that.

`CopyAdmission` continues from the decoded event to a
draft, its limits, its record and its status, to `prepare`, and to the checks
of the script and the contract. The session's row is given twice, as it was when the
draft was made and as it is later, since a PATCH may come between (`Patched` is what
it cannot change). The API and the contract do not agree on everything, so
`AcceptedOrNamed` says what is true: the contract executes what was queued or
prepared, or one of four reasons is met, each stated on the numbers: the relayer's quote
is zero (`Dust`), the raw coefficient lies between two ppm and was rounded up past a
limit (`RoundedUp`), the contract's day holds more than the API's sum
(`DayDiffers`), the row was patched (`PatchedSince`); and but for a patched row the
relayer's quote exceeds the API's by no more than the rounding of the coefficient allows.
Fixed-point stands for the floats: half a stroop is
representable so that there is something to round.

### WalletAuth

`challenges` and `tokens` are the tables; `asked` and `granted` are histories.
A handler is one action that takes a time which may be up to `MaxDelay` in the
past, because it reads the clock before it waits for the mutex. After each
statement it may fail. The signature check is a choice of the signer. The two
`DELETE`s of a pruning are one step (`Pruned`), and so are the handler's check of a
challenge's expiry and the update's (`handlers.rs:295`, `index_db.rs:506`).

### ProfileFlight

One address. `at` says where each client's handler and the refresh thread
are; `cached`, `redis`, `inflight` and `refreshing` are the shared state; a
profile is the version of the positions it was computed from. `Notify` is
modelled as it is: `notify_waiters` wakes who has registered, and a task that
cloned it and has not registered sleeps on. A dropped handler keeps what it
left behind. The removal of an in-flight entry and the notification
(`handlers.rs:2800-2803`) are one step, and a dropped task's write to Redis does not
land later.

### ListCaches, LeaderBoard

`list` chooses the catalogue or one variant of the board. A task of `Readers`
(requests, warm-ups) or `Refreshers` (threads spawned) steps from the local
body to Redis to a rebuild; a body is the version of the tables it was built
from. The catalogue's write to Redis is detached: it lands within `MaxLag` or
never. `shown` is the last version the local body had when it answered. There is one
list at a time, while the board's variants have bodies of their own and share one
refresh flag (`handlers.rs:2090`).
`LeaderBoard` is the ranking itself, by fees, by fees per deposit and by activity, on
rows in any order.

### FeeSnapshots, Rollups, EventPaging, ActivityQueries

`FeeSnapshots`: a refresh is a set of rows zeroed, cleared and written, of which
statements may be lost. A read gives each pool a list of positions, one per range in
Sushi's case, which are written one after the other into the pool's one row.
`Rollups`: snapshots and swaps arrive between syncs, a
sync may stop after any row; `taken` is a history of the snapshots. `EventPaging`: a
request is retried, an answer may lack its list of events, and the
chain grows between pages. `ActivityQueries`: the sums over a
wallet's window and lifetime, the board's rows, a pool alone and all pools at
once, each as the code that computes it does, SQL or Rust; left out are the quote's
fallback to `derived.quote_xlm` (`index_db.rs:1674-1678`), an empty venue name, and the
cut at 10 000 rows.

## 3. The runs

| Run | Property | Bounds |
|---|---|---|
| `policy` | `TypeOK`, `AtMostOnce`, `ReceiptExact`, `DailyCap`, `ExecutedAsRecorded`, `BudgetLedger`, `EventsImmutable`, `ImplementsAllowance` | one account in all roles, one session id, two events (deposit, claim), two terms, quotes to 3, days of 2 units, time to 3 |
| `policy_roles` | `AtMostOnce`, `ExecutedAsRecorded` | two accounts (symmetric) in any role, two session ids, terms that follow claims, a withdrawal, a claim without a token, a foreign Leader's event, an invalid coefficient |
| `policy_markers` | `MarkerOutlivesSession` is violated | as `policy` |
| `relayer` | `TypeOK`, `ExecutedIsTrue`, `SourceOrder`, `RecordingIsTrue` | one session, two events, at times an old withdrawal without shares, a payload with two versions, a follower who skips, every fault |
| `relayer_live` | `NoStarvation`, `CopiesAreReported` | two sessions, one event, one session refused for ever |
| `relayer_starved` | `NoStarvation` is violated | the same, one operation whose quote rounds to zero |
| `relayer_transitions` | `TransitionsAreAllowed` is violated | one session, one event, no old rows, a follower who drafts |
| `sessions` | `TypeOK`, `NothingSkipped`, `EventuallyDrafted`, `ExpiredIsPaused` | two sessions, two events of one second (the first cannot be copied), batches of one, one client, time to 1 |
| `sessions_bound` | `BoundFieldsFixed` is violated | one session, two clients, one PATCH that binds and one that changes the coefficient |
| `indexer` | `IndexerTypeOK`, `CursorCovers`, `NothingForgotten`, `EventuallyIndexed`, `ActorsFilled` | a pool from the start and one born at ledger 3, four events at ledgers 1 to 4, two ledgers retained, chunks of two, one crash or error |
| `services` | `ServicesTypeOK`; `OneGrantPerChallenge`, `SignatureExpires`, `RateLimited`; `WorkedOnOnce`, `CatalogueNeverGoesBack`; `DeltaIsGrowth`; `PagesComplete`; `IncrementalIsFull`; `EventsRecovered`, `DraftsExecute`, `RecordsAreTrue`, `AllViewsAgree`, `BoardStays` | see below |
| `profile_stale` | `ProfileRefreshes` is violated | one client, one change of positions, nobody disconnects |

`services` runs one service at a time: they share no state, `focus` names the one a
behaviour is about, and the others stay as they began. A pure algorithm is checked on
every `input` of a small universe, which is an initial state without steps. Its
instances: two wallets, three challenges, four ticks; two clients of a profile and one
disconnect; two pools, two positions in one of them, and three fee refreshes of which
one is cut; eight events over five ledgers in pages of two with a cap of five; two
pools, two buckets and three snapshots with one cut; two readers and two refresh threads
(each pair symmetric), one change of the tables, one restart.

Why the bounds are enough for what is asked:

* *policy*: four time units are two days, so a counter is charged, left
  idle over midnight and charged again; two terms with different coefficients
  and limits make a re-registration visible in the scaling and the cap
  (`max_daily_quote` 1 binds, 4 leaves room for two copies); `I128_MAX` is 6 so
  that scaling overflows on some quotes. `COEFFICIENT_SCALE` is 2, so one
  coefficient halves and rounds. The two configurations split width: `policy`
  has time and one account, `policy_roles` has roles, ids and odd payloads.
  The theorems cover every value.
* *relayer*: source order needs two events of one session and a fault between
  them; a stale recording needs two payload versions. Starvation needs two
  sessions. The two needs are split over two runs because their product is too
  large; the API mutex is part of both.
* *sessions*: two events in one second with batches of one exercise the
  tie-break of the watermark; two sessions exercise the pause on creation, the
  worker's list and the wait for the mutex; one client is enough to hold a
  stale row while the worker moves on. PATCH bodies of this run resume a
  session, the only status change that can contradict an expiry.
* *indexer*: the retained range is shorter than the chain, so that the cursor is
  clamped; the second pool is found after its first event, so that the rescan
  matters; one event names no actor and one is a trade with a second row. One
  crash at any step separates each write from the next.
* *services*: three challenges put two of one wallet and one of another into a
  window; a lifetime longer than the cooldown and the delay lets an exchange overtake the
  pruning. Three refreshes let a pool be opened, closed and opened again around a window.
  A page limit of two splits a ledger's three events; the cap falls inside the
  range. Copies come in amounts below and above what rounding loses, sessions
  at, below and above a limit, rows as drafted from, one half-ppm lower and with another
  claim setting. Boards tie in activity, with actors who are known from snapshots
  only and with ones without events in the window.

Deadlock is checked in every run but `services` and `profile_stale`: a service there
ends when its bounds are spent, and pure inputs have no step. Every property of a
passing run has a mutant under `mutants` that the run catches.

### Fairness

* **Relayer.** Weak fairness of the run's steps: the systemd timer starts
  the service for ever and the script does not block (the service is killed after 120 s).
  `<>[][~Fault]_vars`: kills, lost responses and unreadable receipts cease,
  since no retry scheme reports anything under a fault for ever. Strong
  fairness of `ExecuteCommits` for an operation of a `Healthy` session: one
  that is submitted again and again is executed in the end. Nothing is assumed
  of the API, the follower or unhealthy sessions.
* **Sessions.** Strong fairness of the worker's two steps: its interval
  (`main.rs`) fires for ever, and a thread that waits for the mutex gets it
  although handlers take it in between. Weak fairness of the steps of
  whoever holds it. Failures cease. Nothing is assumed of clients, the indexer
  or the clock.
* **Indexer.** Weak fairness of the process's own steps and of the actor pass:
  it is a loop that awaits only calls with time limits. Strong fairness of
  `Start("run")`: systemd starts the service again whatever ended it. Strong
  fairness of a lookup of a transaction that the RPC still has. Nothing is assumed of
  the chain or of an operator's `backfill`.
* **Profile.** Weak fairness of every task's steps (the runtime polls a task
  that is ready), of the passing of time and of a client who asks again. The
  property fails under it, so the assumption only rules out that everybody
  simply stops.

### What the violations show

* **A bound session's coefficient can change** (`sessions_bound`). PATCH checks
  `bound_policy_update_conflicts` on the row it read before the RPC; the write
  merges into the row stored by then. The runbook says the API rejects such
  changes. The contract still scales by its own coefficient, so the effect is
  that operations drafted afterwards never execute.
* **An operation that cannot be converted starves other sessions**
  (`relayer_starved`). The script's assertion on a zero quote ends the run
  before any statement moves the row, which keeps the oldest `updated_at`. The
  runbook says an unhealthy policy cannot starve unrelated sessions.
* **An executed operation can be overwritten** (`relayer_transitions`). The status
  check and the write are two statements and the relayer's write falls between: the
  copy is made and reported, and the row then says `drafted`. The architecture
  document says transitions are constrained, the checklist that an invalid one
  returns a conflict, and the table lets nothing leave `executed`. A rejected
  operation can be reopened in the same way, but only one of an older deployment is
  ever rejected by the relayer.
* **A session can outlive its markers' documented lifetime**
  (`policy_markers`). Re-registration extends the session, not its markers. On
  the network an expired persistent entry is archived rather than forgotten, so
  replay protection itself holds (`AtMostOnce` does not rely on the lifetime);
  what fails is the sentence about it.
* **A profile may never be refreshed** (`profile_stale`). The refresh thread
  removes the local entry and then asks `lp_profile` like a client, which takes
  the old profile from Redis, and, stored locally again, that one is fresh. A
  task that cloned the `Notify` and registers after `notify_waiters` sleeps on,
  and a computing handler whose client disconnects leaves the in-flight entry behind.
  An entry that is past its grace is answered without any refresh
  (`handlers.rs:2824-2852`).
  The comment at `handlers.rs:69` says profiles should refresh frequently enough
  to show the current state.

Other disagreements and limits met while reading, without a run of their own: the design
of 2026-08-07 calls `stopped` terminal while PATCH resumes a stopped session
and an expired stale row turns it into `paused`; PATCH to `active` does not
pause the pair's other sessions as creation does; the off-chain daily sum takes
an operation's day from the start of its batch and the day's start from each
event, so a batch across midnight counts against neither day; the architecture
document says a stale cursor is clamped to the oldest available ledger while the
scan starts after it.

* *Operations.* `prepare_copy_op` accepts a claim only with a token that starts
  with `G` (`handlers.rs:3244`, `3966-3990`) while recorded tokens start with `C`, so
  every claim is answered `claim_token_missing`. With one leg priced, a quote is that
  leg's alone. The API scales by the raw coefficient, the contract by the rounded
  one, so that an operation may be queued which the contract refuses: the named
  reasons of `AcceptedOrNamed`.
* *Decoding.* A Phoenix swap's `amount_out` is read from `actual_received_amount`
  (`events.rs:1004`), which is what the pool received, and its actor is in `sender`
  while the code reads `to`: the row is wrong, and `SwapRecovered` and the theorems
  about it state what it holds instead. Aquarius events get no pool type. The label pass
  takes an unlabelled `swap` for Phoenix.
* *Indexer.* The one ledger that a clamped cursor passes over (`main.rs:66`) is on the
  left side of no property: it is lost. A restart discovers a new pool without a rescan
  (`main.rs:79-81`). A `backfill` beyond the cursor moves the cursor over a gap
  (`CursorCovers` speaks of the ledgers from which a pool is followed, and `since` moves
  with it). A backfill beside the service is not modelled.
* *Rollups.* A sync reads from the newest bucket of all pools (`db.rs:432-440`),
  so one that is cut off between pools leaves an older bucket of the
  later ones as it was, for good. `IncrementalIsFull` demands of such a row no more than that
  its value was right at one time. Swaps of a window have no upper end.
* *Lists.* A board computed before a fee refresh may be stored after the
  invalidation (`handlers.rs:2511-2517`); its rebuilds are not serialised, so it can
  go back, which is why only the catalogue has `CatalogueNeverGoesBack`. A refresh
  flag outlives a panic. `total` counts rows beyond the hundred that are cached.
  `?refresh=true` answers from a live local body or from Redis. The refresh thread's
  runtime ends before its detached write to Redis.
* *Fees.* Sushi's reader returns a position per range (`sushi.rs:325-399`,
  `handlers.rs:2583-2593`) and the table has a row per actor and pool
  (`index_db.rs:1310`): of several ranges in a pool only the last one's fee is kept, nothing
  is marked unavailable, and a delta is the growth of the kept fees, not of the
  actor's whole fee that `docs/architecture.md:409-418` describes. `DeltaIsGrowth`
  says which. A closed position whose zero was lost keeps its last
  value as the window's boundary (`forgot` in `FeeSnapshots`); a failed RPC read looks
  like closed positions; a batch no larger than the hot one rotates nobody.
* *Paging.* A range with more than `MAX_EVENTS` returns cut and `Ok`, and so does one of
  which an answer had no `events` (`rpc.rs:242-246`); `PagesComplete` exempts the two
  and says that what is missing is the range's end. A short page is taken for the last,
  which the RPC is assumed to mean by it.
* *Board.* By activity, rows that tie are in the order of a `HashMap`
  (`index_db.rs:1779-1790`, `handlers.rs:2188-2209`, `2231`), so they may change places
  between two refreshes and, at the end of the cached board, drop out of it. The comment
  at `handlers.rs:2240` is about the boards by fees.

## 4. The proofs

The theorems hold for every value of the constants that satisfies the named
assumption of the module they are about. TLC evaluates each on the instance of
the run that uses it.

| Assumption | Asks for | Because |
|---|---|---|
| `ConstantsAssumption` (`CopyPolicy`) | positive scale, day and lifetime, typed payloads | they are constants and struct types of `lib.rs` |
| `RelayerAssumption`, `SessionsAssumption`, `IndexerAssumption` | typed chains and bounds, `None` outside the values it stands beside | - |
| `WalletAssumption` | the 60 s for which a consumed challenge is kept, and its lifetime, cover the cooldown with the mutex's delay and the window | the values in `wallet_auth.rs`, as long as nobody waits longer than that |
| `FlightAssumption` | the refresh thread is no client | - |
| `ListAssumption` | a detached write lands within a body's lifetime (`MaxLag <= ListTtl`) | assumed of the runtime and of Redis, the code sets no deadline; with a longer lag the theorem is false |
| `VenueAssumption` | a pool of two different tokens; addresses, names and labels are different things | what the decoder tells apart by type or shape |
| `AdmissionAssumption` | positive scale and bounds, `u128::MAX` no less than the scale times the largest coefficient | the constants of `copy_lp.rs` and `lib.rs` |
| `FeeAssumption`, `RollupAssumption`, `LimitAssumption` | typed reads and bounds, finitely many pools, at most `MaxPositions` positions in each | - |
| `PagesAssumption` | the chain is in ledger order, a page holds at least one event and no more than 10 000 | the RPC's order and limit |
| `BoardAssumption` | different addresses rank differently | addresses are compared as strings, which are totally ordered |
| `InputsAssumption` (`Services`) | the inputs of the pure algorithms are ones the program may meet: changes, trades and claims of a venue, typed sessions with positive limits in the contract, of which a PATCH leaves leader, pools, expiry and limits, orders of arrival without ties, finite histories without negative quotes, finite boards | the types of the tables they come from, `register_session` and `update_copy_session` |

| Theorem | Says |
|---|---|
| `TypeCorrect` | `Spec => []TypeOK` of the policy |
| `EventsNeverChange` | a recorded event is never replaced |
| `PolicyInvariant` | `Spec => []PolicyInv`, the inductive invariant |
| `CopiedAtMostOnce`, `ReceiptIsExact`, `DailyLimitHolds`, `CopiesMatchTheRecord`, `LedgerIsExact` | the policy's safety properties |
| `PolicyImplementsAllowance` | `Spec => Allowance!Spec` under the refinement mapping |
| `RelayerInvariant`, `RelayerTypeCorrect` | the relayer's inductive invariant, and its `TypeOK` with the order of its queue |
| `ReportsAreTrue`, `RecordingStaysTrue`, `OrderIsKept` | `ExecutedIsTrue`, `RecordingIsTrue`, `SourceOrder`: tables never ahead of the chain, copies in source order, with every fault and any number of sessions |
| `SessionsInvariant`, `SessionsTypeCorrect`, `NothingIsSkipped` | the inductive invariant, `TypeOK` and `NothingSkipped` of the sessions |
| `IndexerInvariant`, `IndexerTypeCorrect`, `CursorNeverPasses`, `NothingIsForgotten` | the indexer's inductive invariant, its types, `CursorCovers` and `NothingForgotten` |
| `WalletInvariant`, `WalletTypeCorrect`, `ChallengeIsSpentOnce`, `SignatureDoesExpire`, `RatesAreLimited` | the inductive invariant, the types, `OneGrantPerChallenge`, `SignatureExpires` and `RateLimited` |
| `FlightTypeCorrect`, `OneComputes` | the types of the profile, and `SingleFlight` |
| `ListInvariant`, `ListTypeCorrect`, `CatalogueOnlyAdvances`, `OneThreadRefreshes` | the inductive invariant, the types, `CatalogueNeverGoesBack` and `OneRefresh` |
| `TradesRecovered`, `ChangesRecovered` | `SwapRecovered`, `LiquidityRecovered`: for every amount, price and context what a row says: the swap or the change, of a Phoenix swap its input twice and no trader |
| `QueuedExecutes`, `PreparedExecutes` | `PendingIsExecutable`, `PreparedIsExecutable`: for every coefficient, quote, limit and day, and rows patched in between, what the API queues or prepares for a bound session passes the contract's checks or meets one of the four named reasons |
| `RecordsTrue` | `RecordIsTruth`: the attested payload is what the Leader did |
| `EachServiceRuns` | a behaviour of `Services` is one of every service |
| `ServicesAreTyped`, `WorkIsDoneOnce` | `ServicesTypeOK`, `WorkedOnOnce` |
| `EventsAreRecovered`, `DraftsDoExecute`, `RecordsAreTheTruth` | the theorems of the data path, as the run `services` states them |
| `DeltasAreGrowth` | `DeltaIsGrowth`: a delta is the growth of the fees the refreshes kept |
| `PagesAreComplete` | `PagesComplete` of the RPC's event search |
| `RollupsAreFull` | `IncrementalIsFull` of the rollups |
| `ViewsDoAgree` | `AllViewsAgree`: board, profile, lifetime totals and pool summaries agree on any history |
| `BoardDoesStay` | `BoardStays`: a ranking by fees does not depend on the order rows come in, one by activity only among equals; both are sorted as shown, and the pages are the board |

**The argument.** `ExecuteShape` and `StepShape` first reduce the entry points
to a few shapes: a successful execution, whichever venue it came from, is
`Executed`. None of the safety properties is inductive alone.

* `AtMostOnce` needs `ReceiptExact`: an execution is guarded by the absence of
  a marker, so a marker has to exist wherever something was published.
  Registration and disarming touch neither.
* `DailyCap` needs `BudgetLedger`, the meaning of the lazily reset counter: the
  counter equals the quote copied *on its day*, nothing has been charged to a
  later day, and its day is not in the future. Then the usage an operation
  starts from (`UsedToday`) is what was spent today, whether or not the
  counter has been rolled over (`UsedTodayIsSpent`). A configuration that only
  stated the cap would lose the link as soon as a day passes without a copy.
* `ExecutedAsRecorded` needs `EventsImmutable` (what a copy agreed with stays)
  and `RecordedEvents` (an event has a first amount for withdrawals to bind to).

For the refinement, today's remainder is the limit minus `UsedToday`. The step
that is not obvious is the clock: at midnight no state of the contract changes,
yet every remainder becomes the full limit, one `NextDay` of the abstract
machine. Registration maps to `Grant`, disarming to a grant of nothing, an
execution to `Copy`, whose guards follow from `PolicyInv`.

**The relayer.** A step of the run proves something only because of what an
earlier step saw, while another process wrote the same rows in between.
`RunKnows` says what each program counter knows: past the record step the event
is attested, with a result in hand the operation is copied, and the outbox row
stays. `ApiKnows` does the same for a handler between its read and its write,
`Enqueues` says that what is pending has an outbox row. Source order needs
`InOrder` (drafts have no gap, so an event before a drafted one is drafted) and
`NothingWaits`: nothing earlier is undrafted or pending behind an operation
that is copied, in flight or may still land late. The status of the earlier
operation may change afterwards, but no action makes it pending again.

**The sessions.** `NothingSkipped` is about the stored row, but a stale row may
be written over it. `RowsAgree` therefore quantifies over every row some
thread goes by (stored, listed by the worker, held by a request or under the
mutex): it agrees with the stored one on the time of creation, and
leaves no gap behind its own watermark. `BatchIsComplete` carries it through a
batch. The lemmas `Carried`, `NewSession` and `EndsAt` reduce the actions to
three shapes: rows are carried over, a row is new, a watermark moves.

**The indexer.** `ChunkCovered` and `OverlapCovered` say that of the range
under way everything is stored or still to be written, so that the cursor may
move when nothing is left; `FollowedKnown` that a running process scans every
pool that is followed, `CursorInStep` that its cursor is the stored one.

**Sign-in.** Pruning makes a challenge's row disappear, so the argument goes
through the history: stored rows are what was asked (`StoredWereAsked`), an
unspent row has granted nothing (`UnspentGrantsNothing`), and identifiers are
drawn once (`Numbered`). The rate limits count stored rows, so `Remembered`
says that what a limit may still count, at whatever time a handler read, has not been
pruned; the window then holds an image of the rows that were counted
(`WindowHasRoom`).

**The profile.** Who works found no entry and keeps it until it finishes
(`OneWorks`); a drop removes no entry. `ThreadIsMarked` keeps a second refresh
thread from being spawned over one that works.

**The catalogue.** Rebuilds hold the lock and start when the local body has expired
(`RebuildersHold`); an older copy in Redis, or one that a detached write may
still put there, has expired by then too (`OldCopiesExpire`,
`OldWritesExpire`). So what a rebuild takes from Redis is never older than what was
answered.

**The data path.** Venue by venue: the fields the decoder reads out of an event are the
ones the contract wrote there (`AquariusTrade` to `SushiTrade`, `AquariusChange` to
`CometChange`); `LegsMakeTheRow` and `LegsMakeTheChange` say once for all venues what a
row makes of two legs of which some are unpriced. Admission is arithmetic: the API
compares in half stroops and with the raw coefficient, the contract in whole ones with
the rounded coefficient. `ScaledApart` shows that amounts scaled in two parts are scaled
right, `QuoteBound` by how much the quotes differ, and `LimitsAgree` turns what the API
has checked into what the contract will where neither rounding nor another day stands
between; `AdmittedExecutes` goes through the four reasons. `ScalesLikeTheContract`
carries the amounts over. A record's shape by kind (`DepositIsBound`,
`WithdrawalIsBound`, `ClaimIsBound`) carries the contract's other checks.

**The services together.** No service reads another's state, so a step of
`Services` is a step of one service and a stutter of the rest
(`EachServiceRuns`). The invariants proved for each module are then invariants of the
composition, and the pure algorithms are theorems about every input it may start
with.

**Fee snapshots.** `GrowthInv` says what the history knows. After every
complete refresh the last row of a pool it read is the last position it read there, of any
other pool nothing, unless a failure has lost a row for good; and whatever the current rows no
longer hold has ended at nothing. A window's boundary is made of last rows
(`BoundaryRows`), so between two complete refreshes the difference of sums is the growth,
whatever was opened, closed, zeroed or cut off in between.

**Event pages.** `PagesInv` says that what has been collected is a stretch of the chain,
from the range's first event up to the cursor and without a gap. `AnswerIsNext` shows
that a page continues it, also when the chain has grown since the last one, and that a
short page means that the range is read, unless an answer had no list of events.

**Rollups.** `RollupInv`: every stored row has the value of a snapshot once taken in its
bucket (`UpsertedWasTaken`); as long as no sync was cut, buckets older than the newest
are right, because snapshots arrive in order (`InsertSnapshotKeeps`); and after a sync
so is the newest. A sync from the newest bucket reads all of that bucket and nothing
before it (`FromNewestHolds`), so it repairs the only one that can be behind.

**The views.** SQL and Rust read a quote differently and get the same number
(`QuotesAgree`). The board limits its events to the newest; fewer than the limit are
all there are (`NewestAreAll`). The map of all pools is built table by table, and
each entry ends as the row a query for that pool gives (`SummaryIsEntry`).

**The board.** The comparator is a chain of `then_with`. Fractions are compared by
cross-multiplying, and equal ones form classes (`Fractions`), so each key is a weak
order and the address, which is never equal, makes the chain a strict total order
(`AheadOrders`). Then every row has its own place: the places are all taken, by the
pigeonhole principle (`Placed`), and the ranking is the same whatever the order of
arrival (`RankStands`). Activity alone is a weak order only (`ActivityIsWeak`); two
lists of the same rows in that order agree at every place up to equals (`SameRank`),
since the rows ahead of a place in one would otherwise not fit before it in the other.
`PagesFlatten` puts the pages together again.

**Induction without induction theorems.** The library's induction theorems take an
operator as a parameter, which the provers cannot instantiate. `SetProofs` obtains
induction over the naturals for a *set* of numbers instead (`Ind`): without a least
element of its complement, an infinite descent would map a finite interval injectively
into a smaller one, against `FS_Injection`. From it follow the least and greatest
element of a set, and that the recursive functions behind the folds of the community
modules exist and are unique (`SumsExist`, `SumsAre`), which gives the laws of sums the
proofs above need (`SumStep`, `SumRest`, `SumMinus`, `SumGrows`). A list put together
from pages is treated in the same way (`Flattened`).

**Only model-checked.** The temporal properties `NoStarvation`,
`CopiesAreReported`, `EventuallyDrafted`, `ExpiredIsPaused`, `EventuallyIndexed` and
`ActorsFilled`: they hold under fairness, and the provers can treat neither
liveness nor `ENABLED`. The five properties that a run shows violated are false
and so not proved of any instance. Everything else that a run checks is a theorem.

## 5. Plan

Done, in this order: the contract with its abstract allowance and the
refinement; the relayer; the sessions; the indexer; sign-in, the profile
flight, fee snapshots, list caches; the data path from an event to a copy;
proofs of the policy, relayer, sessions, indexer, sign-in, single flight and
lists; proofs of the data path, the composition of the services, fee snapshots,
pages, rollups, views and the board.

Next:

1. Progress across a payload refresh (`index_db.rs:822`): a payload recorded on
   chain whose local mark was lost is refreshed by a newer normaliser, and every
   later record conflicts with the attested one.
2. The rotation of actors in the fee refresh, and what it promises the long tail.
3. Recorder leases, once a service calls them.
4. The pricing service's ages, and the pool database's upserts, as one module
   about values merged from several sources.
5. Abstract specifications of the relayer (a queue that reports what happened)
   and of the indexer (a log that is copied), with refinement theorems.

## 6. Not modelled

* **Recorder leases**: no caller in a deployed service, so nothing says how they
  are meant to be used.
* **Pricing service, snapshotter, metrics**: floating-point formulas behind
  HTTP. What matters of them is how old a value is; the age of merged prices is
  listed as a hazard (`service.rs:107`).
* **DEX adaptors, XDR decoding**: no state; their paging and retries are in
  `EventPaging`.
* **Pool database**: upserts of which the last wins, and a schema migration at
  start. The tables the rollups read are in `Rollups`.
* **Web application, HTTP routing, logging**: the calls they make are the inputs of
  the models.
* **The JSON of payloads and its hash**: payloads are compared as values.
* Of sessions, the reconcile of a listed row takes a draft's status as
  a choice; of the contract, time-to-live of other entries than markers.

The status of each part is in `PROJECT.json`.

## 7. Running it

`tlc -config CopyPolicy.cfg MCCopyPolicy.tla`, and likewise for the other
configurations; `PROJECT.json` names the module of each (`Services.cfg`
belongs to `MCServices`, `ProfileStale.cfg` to `ProfileFlight`). `tlapm
<module>.tla` for the eight modules whose name ends in `Proofs`. The longest
runs, `relayer` and `services`, end within two minutes on two workers;
`ServicesProofs` takes about six minutes from nothing, the other proof modules a minute or
two each.
