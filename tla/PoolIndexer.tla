----------------------------- MODULE PoolIndexer -----------------------------
(***************************************************************************)
(* The pool indexer: `pool-indexer run`, the long-running service, and     *)
(* `pool-indexer backfill`, the one-shot command.  A process discovers the *)
(* pools, reads the contract events of a range of ledgers from the RPC,    *)
(* writes the events and then the swaps one row at a time and moves the    *)
(* stored cursor last.  It may stop between any two of these steps.        *)
(*                                                                         *)
(* The chain is given by constants: an event has a ledger, a pool and a    *)
(* kind, a pool has the ledger in which its factory or router lists it.    *)
(* A row keeps of the stored JSON only whether its actor and its venue     *)
(* label are filled in.  One process uses the database at a time.          *)
(***************************************************************************)
EXTENDS Naturals, FiniteSets

CONSTANTS
  Events, Pools,
  EventLedger, EventPool,   \* of an event
  EventKind,                \* "trade" or "liquidity"
  NamesActor,               \* whether an event's own topics or data name its actor
  BornAt,                   \* the ledger from which discovery finds a pool
  Retention,                \* ledgers the RPC keeps
  Lookback, Span,           \* DISCOVERY_LOOKBACK_LEDGERS, MAX_LEDGER_SPAN
  ActorBatch,               \* limit of one actor backfill
  FirstLatest, MaxLedger,   \* the chain's head at the start and its bound
  MaxStops                  \* bound on crashes and RPC errors

ASSUME IndexerAssumption ==
  /\ EventLedger \in [Events -> Nat \ {0}] /\ EventPool \in [Events -> Pools]
  /\ EventKind \in [Events -> {"trade", "liquidity"}]
  /\ NamesActor \in [Events -> BOOLEAN] /\ BornAt \in [Pools -> Nat]
  /\ {Retention, Lookback, Span, ActorBatch, FirstLatest} \subseteq Nat \ {0}
  /\ {MaxLedger, MaxStops} \subseteq Nat

VARIABLES
  latest,                  \* the chain's head
  rows, swaps, saved,      \* pool_events, pool_swaps, indexer_cursor (0: no row)
  pc, mode,                \* the running process
  cursor, target,          \* last ledger scanned, last ledger to scan
  scanner, refreshed,      \* its pool set, the one a refresh discovered
  pending, trades, upto,   \* the scan being persisted: events, swaps, last ledger
  since,                   \* history: from which ledger a pool is followed
  stops

chain == <<latest>>
store == <<rows, swaps, saved>>
scan  == <<pending, trades, upto>>
indexerVars == <<chain, store, pc, mode, cursor, target, scanner, refreshed, scan, since, stops>>

Absent == [absent |-> TRUE]
Row    == [actor : BOOLEAN, venue : BOOLEAN]
Higher(a, b) == IF a >= b THEN a ELSE b
Lower(a, b)  == IF a <= b THEN a ELSE b
Minus(a, b)  == IF a >= b THEN a - b ELSE 0     \* saturating_sub

Oldest     == Higher(1, Minus(latest + 1, Retention))
Discovered == {p \in Pools : BornAt[p] <= latest}

IndexerTypeOK ==
  /\ latest \in Nat /\ saved \in Nat /\ swaps \subseteq Events
  /\ rows \in [Events -> Row \cup {Absent}]
  /\ pc \in {"down", "init", "loop", "overlap", "poll", "catchup", "chunk", "actors"}
  /\ mode \in {"run", "backfill"} /\ {cursor, target, upto, stops} \subseteq Nat
  /\ scanner \subseteq Pools /\ refreshed \subseteq Pools
  /\ DOMAIN pending \subseteq Events /\ \A e \in DOMAIN pending : pending[e] \in Row
  /\ trades \subseteq Events /\ since \in [Pools -> Nat]

Idle ==
  /\ pc = "down" /\ mode = "run" /\ cursor = 0 /\ target = 0 /\ scanner = {}
  /\ refreshed = {} /\ pending = <<>> /\ trades = {} /\ upto = 0

(* An empty database, or one an earlier version left: the rows of the pools *)
(* known then up to the cursor, without venue labels.                      *)
OldRow(e) == [actor |-> NamesActor[e], venue |-> FALSE]
IndexerInit ==
  /\ latest = FirstLatest /\ Idle /\ stops = 0
  /\ saved \in {0, FirstLatest}
  /\ LET known == {e \in Events : EventLedger[e] <= saved /\ EventPool[e] \in Discovered}
     IN /\ rows = [e \in Events |-> IF e \in known THEN OldRow(e) ELSE Absent]
        /\ swaps = {e \in known : EventKind[e] = "trade"}
  /\ since = [p \in Pools |-> IF saved > 0 /\ p \in Discovered THEN 1 ELSE 0]

Tick == /\ latest < MaxLedger /\ latest' = latest + 1
        /\ UNCHANGED <<store, pc, mode, cursor, target, scanner, refreshed, scan, since, stops>>

(* backfill_event_venue_labels: the trade rows written before labels.       *)
Labelled == [e \in Events |-> IF rows[e] # Absent /\ EventKind[e] = "trade"
                              THEN [rows[e] EXCEPT !.venue = TRUE] ELSE rows[e]]

(* `run` and `backfill` start alike: labels, then discovery of every venue. *)
Start(m) ==
  /\ pc = "down" /\ pc' = "init" /\ mode' = m
  /\ rows' = Labelled /\ scanner' = Discovered
  /\ UNCHANGED <<chain, swaps, saved, cursor, target, refreshed, scan, since, stops>>

(* The ledger a pool of the scanner is followed from, once the process goes *)
(* on after ledger `from`: as before if that leaves no gap.                *)
Followed(from) ==
  [p \in Pools |-> IF p \notin scanner THEN since[p]
                   ELSE IF since[p] # 0 /\ from <= saved THEN since[p] ELSE from + 1]

(* run: the saved cursor, or the head's predecessor, clamped to the oldest  *)
(* ledger of the RPC.  The scan starts after it.                           *)
InitUnclamped ==
  /\ pc = "init" /\ mode = "run" /\ pc' = "poll"
  /\ cursor' = (IF saved = 0 THEN Minus(latest, 1) ELSE saved)
  /\ saved' = cursor' /\ since' = Followed(cursor')
  /\ UNCHANGED <<chain, rows, swaps, mode, target, scanner, refreshed, scan, stops>>
InitCursor ==
  /\ pc = "init" /\ mode = "run" /\ pc' = "poll"
  /\ LET start == IF saved = 0 THEN Minus(latest, 1) ELSE saved
     IN cursor' = IF start < Oldest THEN Oldest ELSE start
  /\ saved' = cursor' /\ since' = Followed(cursor')
  /\ UNCHANGED <<chain, rows, swaps, mode, target, scanner, refreshed, scan, stops>>

(* backfill: the requested start, not before the oldest ledger, up to the   *)
(* head now.                                                               *)
BackfillUnclamped ==
  /\ pc = "init" /\ mode = "backfill" /\ pc' = "catchup"
  /\ \E requested \in 0 .. latest : cursor' = requested - 1
  /\ target' = latest
  /\ UNCHANGED <<chain, store, mode, scanner, refreshed, scan, since, stops>>
InitBackfill ==
  /\ pc = "init" /\ mode = "backfill" /\ pc' = "catchup"
  /\ \E requested \in 0 .. latest : cursor' = Higher(requested, Oldest) - 1
  /\ target' = latest
  /\ UNCHANGED <<chain, store, mode, scanner, refreshed, scan, since, stops>>

(* PoolEventScanner::scan of a range the RPC still has.  A liquidity event  *)
(* that does not name its actor costs a transaction lookup that may fail.  *)
Parsed(e, resolved) == [actor |-> NamesActor[e] \/ e \in resolved, venue |-> TRUE]
Lookups(es) == {e \in es : EventKind[e] = "liquidity" /\ ~NamesActor[e]}
Scan(pools, from, to) ==
  LET es == {e \in Events : EventPool[e] \in pools /\ EventLedger[e] \in from .. to}
  IN /\ from >= Oldest /\ upto' = to
     /\ \E resolved \in SUBSET Lookups(es) : pending' = [e \in es |-> Parsed(e, resolved)]
     /\ trades' = {e \in es : EventKind[e] = "trade"}

(* insert_event: a duplicate fills in what the stored row misses.           *)
Replaced(e, row) == rows' = [rows EXCEPT ![e] = row]
insert_event(e, row) ==
  rows' = [rows EXCEPT ![e] =
    IF @ = Absent THEN row
    ELSE [actor |-> @.actor \/ row.actor, venue |-> @.venue \/ row.venue]]

Persisting == pc \in {"overlap", "chunk"}
PersistEvent ==
  /\ Persisting
  /\ \E e \in DOMAIN pending :
       /\ insert_event(e, pending[e])
       /\ pending' = [f \in DOMAIN pending \ {e} |-> pending[f]]
  /\ UNCHANGED <<chain, swaps, saved, pc, mode, cursor, target, scanner, refreshed, trades,
                 upto, since, stops>>
PersistSwap ==
  /\ Persisting /\ DOMAIN pending = {}
  /\ \E e \in trades : swaps' = swaps \cup {e} /\ trades' = trades \ {e}
  /\ UNCHANGED <<chain, rows, saved, pc, mode, cursor, target, scanner, refreshed, pending,
                 upto, since, stops>>
Persisted == DOMAIN pending = {} /\ trades = {}

(* The discovery refresh, at most every DISCOVERY_REFRESH_SECS: the pools   *)
(* found now are scanned over the last ledgers before they are followed.   *)
Refresh ==
  /\ pc = "loop" /\ refreshed' = Discovered
  /\ Scan(Discovered, Minus(cursor, Lookback) + 1, cursor) /\ pc' = "overlap"
  /\ UNCHANGED <<chain, store, mode, cursor, target, scanner, since, stops>>
AdoptRefreshed ==
  /\ pc = "overlap" /\ Persisted /\ pc' = "poll"
  /\ scanner' = refreshed /\ refreshed' = {}
  /\ since' = [p \in Pools |-> IF p \in refreshed \ scanner
                               THEN Minus(cursor, Lookback) + 1 ELSE since[p]]
  /\ UNCHANGED <<chain, store, mode, cursor, target, scan, stops>>
(* Not yet due, or the discovery failed: the pool set stays.                *)
KeepScanner == /\ pc = "loop" /\ pc' = "poll"
               /\ UNCHANGED <<chain, store, mode, cursor, target, scanner, refreshed, scan, since, stops>>

Poll == /\ pc = "poll" /\ target' = latest /\ pc' = "catchup"
        /\ UNCHANGED <<chain, store, mode, cursor, scanner, refreshed, scan, since, stops>>
ScanChunk ==
  /\ pc = "catchup" /\ cursor < target /\ pc' = "chunk"
  /\ Scan(scanner, cursor + 1, Lower(cursor + Span, target))
  /\ UNCHANGED <<chain, store, mode, cursor, target, scanner, refreshed, since, stops>>
CursorBeforeSwaps ==
  /\ pc = "chunk" /\ DOMAIN pending = {} /\ pc' = "catchup"
  /\ saved' = upto /\ cursor' = upto /\ since' = Followed(cursor)
  /\ UNCHANGED <<chain, rows, swaps, mode, target, scanner, refreshed, scan, stops>>
set_cursor_ledger ==
  /\ pc = "chunk" /\ Persisted /\ pc' = "catchup"
  /\ saved' = upto /\ cursor' = upto /\ since' = Followed(cursor)
  /\ UNCHANGED <<chain, rows, swaps, mode, target, scanner, refreshed, scan, stops>>
CaughtUp ==
  /\ pc = "catchup" /\ cursor >= target /\ mode = "run" /\ pc' = "actors"
  /\ UNCHANGED <<chain, store, mode, cursor, target, scanner, refreshed, scan, since, stops>>

(* list_liquidity_events_missing_actor: the newest rows without an actor.   *)
Missing == {e \in Events : rows[e] # Absent /\ EventKind[e] = "liquidity" /\ ~rows[e].actor}
OldestMissing ==
  {b \in SUBSET Missing :
     /\ Cardinality(b) = Lower(ActorBatch, Cardinality(Missing))
     /\ \A e \in b, f \in Missing \ b : EventLedger[e] <= EventLedger[f]}
NewestMissing ==
  {b \in SUBSET Missing :
     /\ Cardinality(b) = Lower(ActorBatch, Cardinality(Missing))
     /\ \A e \in b, f \in Missing \ b : EventLedger[e] >= EventLedger[f]}

(* backfill_missing_actors: a transaction older than the RPC keeps is not   *)
(* found, any other lookup may fail; patch_event_actor writes the rest.    *)
Resolvable == {e \in Events : EventLedger[e] >= Oldest}
BackfillActors(resolved) ==
  /\ pc = "actors" /\ pc' = "loop"
  /\ \E b \in NewestMissing : resolved \subseteq b \cap Resolvable
  /\ rows' = [e \in Events |-> IF e \in resolved THEN [rows[e] EXCEPT !.actor = TRUE] ELSE rows[e]]
  /\ UNCHANGED <<chain, swaps, saved, mode, cursor, target, scanner, refreshed, scan, since, stops>>

Down == /\ pc' = "down" /\ mode' = "run" /\ cursor' = 0 /\ target' = 0 /\ scanner' = {}
        /\ refreshed' = {} /\ pending' = <<>> /\ trades' = {} /\ upto' = 0
        /\ UNCHANGED <<chain, store, since>>
BackfillEnds == pc = "catchup" /\ cursor >= target /\ mode = "backfill" /\ Down /\ UNCHANGED stops
(* The RPC refuses a range that starts before its oldest ledger.            *)
OutOfRange ==
  /\ \/ pc = "catchup" /\ cursor < target /\ cursor + 1 < Oldest
     \/ pc = "loop" /\ Minus(cursor, Lookback) + 1 < Oldest
  /\ Down /\ UNCHANGED stops
(* A crash, a full disk or an RPC error ends the process at any point.      *)
Stop == pc # "down" /\ stops < MaxStops /\ Down /\ stops' = stops + 1

Process == InitCursor \/ InitBackfill \/ PersistEvent \/ PersistSwap \/ Refresh
           \/ AdoptRefreshed \/ KeepScanner \/ Poll \/ ScanChunk \/ set_cursor_ledger
           \/ CaughtUp \/ BackfillEnds \/ OutOfRange
ActorStep == \E resolved \in SUBSET Missing : BackfillActors(resolved)
IndexerNext == Tick \/ Start("run") \/ Start("backfill") \/ Process \/ ActorStep \/ Stop

(* A started process runs on, systemd starts the service again, and a       *)
(* transaction lookup that is repeated for ever answers in the end.        *)
Resolves(e) == \E resolved \in SUBSET Missing : e \in resolved /\ BackfillActors(resolved)
IndexerFairness ==
  /\ WF_indexerVars(Process) /\ WF_indexerVars(ActorStep) /\ SF_indexerVars(Start("run"))
  /\ \A e \in Lookups(Events) : SF_indexerVars(Resolves(e))
IndexerSpec == IndexerInit /\ [][IndexerNext]_indexerVars /\ IndexerFairness

-----------------------------------------------------------------------------
Held(e) == rows[e] # Absent /\ (EventKind[e] = "trade" => e \in swaps)
Within(e, from, to) == EventLedger[e] \in from .. to

(* The cursor never passes an event: whatever a followed pool emitted from  *)
(* the ledger it is followed from up to the stored cursor is stored, and    *)
(* its swap too, wherever a scan was cut off (main.rs:100-121).            *)
CursorCovers ==
  \A e \in Events : LET p == EventPool[e] IN
    since[p] # 0 /\ Within(e, since[p], saved) => Held(e)

(* A replay, a label pass or an actor patch only ever adds to a row: no row *)
(* is dropped, no actor and no label lost (db.rs:200-243, 276-290).        *)
Grows(old, new) == old # Absent => /\ new # Absent
                                   /\ old.actor => new.actor
                                   /\ old.venue => new.venue
NothingForgotten ==
  [][swaps \subseteq swaps' /\ \A e \in Events : Grows(rows[e], rows'[e])]_indexerVars

(* Every event of a followed pool is stored in the end, unless the cursor   *)
(* fell out of the RPC's retention and the pool is followed from later on.  *)
EventuallyIndexed ==
  \A e \in Events : LET p == EventPool[e] IN
    (since[p] # 0 /\ Within(e, since[p], latest)) ~> (Held(e) \/ EventLedger[e] < since[p])

(* A stored liquidity event gets its actor while the RPC still has its      *)
(* transaction: unresolvable old rows do not starve the newest ones.       *)
ActorsFilled ==
  \A e \in Lookups(Events) : (e \in Missing) ~> (e \notin Missing \/ e \notin Resolvable)
=============================================================================
