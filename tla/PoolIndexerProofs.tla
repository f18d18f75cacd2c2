-------------------------- MODULE PoolIndexerProofs --------------------------
(***************************************************************************)
(* Theorems about the pool indexer, for every chain, retention, look-back  *)
(* and chunk size: its state stays well typed, the stored cursor never     *)
(* passes an event of a followed pool, and no stored row loses anything.   *)
(***************************************************************************)
EXTENDS PoolIndexer, TLAPS

-----------------------------------------------------------------------------
(* The inductive invariant *)

(* A scan under way: what the range holds is waiting or already stored.     *)
Covered(pools, from, to) ==
  \A e \in Events : EventPool[e] \in pools /\ Within(e, from, to) =>
    /\ e \in DOMAIN pending \/ rows[e] # Absent
    /\ EventKind[e] = "trade" => e \in trades \/ e \in swaps
ChunkCovered == pc = "chunk" => Covered(scanner, cursor + 1, upto)
OverlapCovered ==
  pc = "overlap" => /\ Covered(refreshed, Minus(cursor, Lookback) + 1, cursor)
                    /\ scanner \subseteq refreshed

(* A running process scans every pool that is followed.                     *)
FollowedKnown ==
  /\ scanner \subseteq Discovered /\ refreshed \subseteq Discovered
  /\ \A p \in Pools : since[p] # 0 => p \in Discovered /\ (pc # "down" => p \in scanner)

(* The service's own cursor is the stored one once it has begun.            *)
CursorInStep ==
  /\ pc \in {"loop", "overlap", "poll", "actors"} => mode = "run"
  /\ pc \notin {"down", "init"} /\ mode = "run" => saved = cursor

IndexerInv == /\ IndexerTypeOK /\ CursorCovers /\ ChunkCovered /\ OverlapCovered
              /\ FollowedKnown /\ CursorInStep

(* What every step leaves of the two tables.                                *)
StoreGrows ==
  /\ rows' \in [Events -> Row \cup {Absent}]
  /\ swaps \subseteq swaps'
  /\ \A e \in Events : Grows(rows[e], rows'[e])

-----------------------------------------------------------------------------
(* Rows and ranges *)

(* A stored row is never mistaken for a missing one.                        *)
LEMMA RowIsNotAbsent == \A r \in Row : r # Absent
<1> SUFFICES ASSUME NEW r \in Row PROVE r # Absent
  OBVIOUS
<1>1. DOMAIN r = {"actor", "venue"}
  BY DEF Row
<1>2. DOMAIN Absent = {"absent"}
  BY DEF Absent
<1>3. "actor" # "absent"
  OBVIOUS
<1> QED
  BY <1>1, <1>2, <1>3

(* Bounds computed with saturating_sub, min and max are ledgers.            *)
LEMMA BoundsAreLedgers ==
  \A a, b \in Nat : Higher(a, b) \in Nat /\ Lower(a, b) \in Nat /\ Minus(a, b) \in Nat
BY DEF Higher, Lower, Minus

(* The RPC's oldest ledger is a ledger of the chain, never ledger zero.     *)
LEMMA OldestIsPositive == latest \in Nat => Oldest \in Nat \ {0}
BY IndexerAssumption DEF Oldest, Higher, Minus

(* The process's cursor, and the ledgers it derives from it, are ledgers.   *)
LEMMA RangesAreLedgers ==
  ASSUME IndexerTypeOK
  PROVE  /\ cursor \in Nat /\ Minus(cursor, Lookback) + 1 \in Nat
         /\ cursor + 1 \in Nat /\ Lower(cursor + Span, target) \in Nat
<1>1. cursor \in Nat /\ target \in Nat
  BY DEF IndexerTypeOK
<1>2. Lookback \in Nat /\ Span \in Nat
  BY IndexerAssumption
<1>3. Minus(cursor, Lookback) \in Nat
  BY <1>1, <1>2, BoundsAreLedgers
<1>4. cursor + Span \in Nat
  BY <1>1, <1>2
<1>5. Minus(cursor, Lookback) + 1 \in Nat
  BY <1>3
<1>6. Lower(cursor + Span, target) \in Nat
  BY <1>1, <1>4, BoundsAreLedgers
<1> QED
  BY <1>1, <1>5, <1>6

(* An idle process holds no scan: an empty pending map.                     *)
LEMMA NothingPending == DOMAIN <<>> = {}
OBVIOUS

-----------------------------------------------------------------------------
(* The tables only grow *)

(* The label pass that every start runs (main.rs) keeps rows and actors.    *)
LEMMA LabelsGrow == IndexerTypeOK /\ rows' = Labelled /\ UNCHANGED swaps => StoreGrows
<1> SUFFICES ASSUME IndexerTypeOK, rows' = Labelled, UNCHANGED swaps PROVE StoreGrows
  OBVIOUS
<1>1. ASSUME NEW e \in Events
      PROVE rows'[e] \in Row \cup {Absent} /\ Grows(rows[e], rows'[e])
  <2>1. CASE rows[e] = Absent
    BY <2>1 DEF Labelled, Grows, IndexerTypeOK
  <2>2. CASE rows[e] # Absent
    <3>1. rows[e] \in Row
      BY <2>2 DEF IndexerTypeOK
    <3>2. rows'[e] \in Row /\ rows'[e].actor = rows[e].actor
          /\ (rows[e].venue => rows'[e].venue)
      BY <3>1, <2>2 DEF Labelled, Row
    <3> QED
      BY <3>2, RowIsNotAbsent DEF Grows
  <2> QED
    BY <2>1, <2>2
<1> QED
  BY <1>1 DEF StoreGrows, Labelled

(* insert_event merges a duplicate into the stored row (db.rs).             *)
LEMMA InsertGrows ==
  ASSUME IndexerTypeOK, NEW d \in Events, NEW r \in Row, insert_event(d, r), UNCHANGED swaps
  PROVE  StoreGrows /\ rows'[d] # Absent
<1>1. rows \in [Events -> Row \cup {Absent}]
  BY DEF IndexerTypeOK
<1>2. \A e \in Events \ {d} : rows'[e] = rows[e]
  BY <1>1 DEF insert_event
<1>3. rows'[d] \in Row /\ Grows(rows[d], rows'[d])
  <2>1. CASE rows[d] = Absent
    BY <1>1, <2>1 DEF insert_event, Grows
  <2>2. CASE rows[d] # Absent
    <3>1. rows[d] \in Row
      BY <1>1, <2>2
    <3>2. rows'[d] = [actor |-> rows[d].actor \/ r.actor, venue |-> rows[d].venue \/ r.venue]
      BY <1>1, <2>2 DEF insert_event
    <3>3. rows'[d] \in Row
      BY <3>1, <3>2 DEF Row
    <3>4. (rows[d].actor => rows'[d].actor) /\ (rows[d].venue => rows'[d].venue)
      BY <3>1, <3>2 DEF Row
    <3> QED
      BY <3>3, <3>4, RowIsNotAbsent DEF Grows
  <2> QED
    BY <2>1, <2>2
<1>4. DOMAIN rows' = Events /\ rows' = [e \in Events |-> rows'[e]]
  BY <1>1 DEF insert_event
<1>5. rows' \in [Events -> Row \cup {Absent}]
  BY <1>1, <1>2, <1>3, <1>4
<1> QED
  BY <1>2, <1>3, <1>5, RowIsNotAbsent DEF StoreGrows, Grows

(* backfill_missing_actors patches rows that exist and only their actor.    *)
LEMMA ActorsGrow ==
  ASSUME IndexerTypeOK, NEW resolved \in SUBSET Missing, BackfillActors(resolved)
  PROVE  StoreGrows
<1>1. ASSUME NEW e \in Events
      PROVE rows'[e] \in Row \cup {Absent} /\ Grows(rows[e], rows'[e])
  <2>1. CASE e \notin resolved
    BY <2>1 DEF BackfillActors, IndexerTypeOK, Grows
  <2>2. CASE e \in resolved
    <3>1. rows[e] \in Row
      BY <2>2 DEF Missing, IndexerTypeOK
    <3>2. rows'[e] \in Row /\ rows'[e].actor /\ rows'[e].venue = rows[e].venue
      BY <3>1, <2>2 DEF BackfillActors, Row
    <3> QED
      BY <3>2, RowIsNotAbsent DEF Grows
  <2> QED
    BY <2>1, <2>2
<1> QED
  BY <1>1 DEF StoreGrows, BackfillActors

(* No step of either command drops a row or a swap or empties a field.      *)
LEMMA EveryStepGrows ==
  ASSUME IndexerTypeOK, [IndexerNext]_indexerVars
  PROVE  StoreGrows
<1>0. UNCHANGED <<rows, swaps>> => StoreGrows
  BY DEF StoreGrows, Grows, IndexerTypeOK
<1>1. ASSUME NEW m, Start(m) PROVE StoreGrows
  BY <1>1, LabelsGrow DEF Start
<1>2. CASE PersistEvent
  <2>1. PICK e \in DOMAIN pending : insert_event(e, pending[e])
    BY <1>2 DEF PersistEvent
  <2>2. e \in Events /\ pending[e] \in Row
    BY DEF IndexerTypeOK
  <2> QED
    BY <2>1, <2>2, <1>2, InsertGrows DEF PersistEvent
<1>3. CASE PersistSwap
  BY <1>3 DEF PersistSwap, StoreGrows, Grows, IndexerTypeOK
<1>4. CASE ActorStep
  BY <1>4, ActorsGrow DEF ActorStep
<1>5. Down => UNCHANGED <<rows, swaps>>
  BY DEF Down, store
<1> QED
  BY <1>0, <1>1, <1>2, <1>3, <1>4, <1>5
     DEF IndexerNext, Process, Tick, InitCursor, InitBackfill, Refresh, AdoptRefreshed,
         KeepScanner, Poll, ScanChunk, set_cursor_ledger, CaughtUp, BackfillEnds, OutOfRange,
         Stop, indexerVars, chain, store, scan

(* What is stored stays stored.                                             *)
LEMMA HeldStays == StoreGrows => \A e \in Events : Held(e) => Held(e)'
BY DEF StoreGrows, Grows, Held

(* A scan keeps covering its range while its rows are written elsewhere.    *)
LEMMA CoveredStays ==
  ASSUME NEW pools, NEW from, NEW to, StoreGrows, UNCHANGED <<pending, trades>>,
         Covered(pools, from, to)
  PROVE  Covered(pools, from, to)'
BY DEF StoreGrows, Grows, Covered, Within

(* A scan's range is in hand the moment the RPC has answered.               *)
LEMMA ScanCovers ==
  ASSUME NEW pools, NEW from \in Nat, NEW to \in Nat, Scan(pools, from, to),
         UNCHANGED <<rows, swaps>>
  PROVE  /\ upto' = to
         /\ DOMAIN pending' \subseteq Events /\ \A e \in DOMAIN pending' : pending'[e] \in Row
         /\ trades' \subseteq Events
         /\ \A e \in Events : EventPool[e] \in pools /\ Within(e, from, to) =>
              e \in DOMAIN pending' /\ (EventKind[e] = "trade" => e \in trades')
<1> DEFINE es == {e \in Events : EventPool[e] \in pools /\ EventLedger[e] \in from .. to}
<1>1. PICK resolved \in SUBSET Lookups(es) : pending' = [e \in es |-> Parsed(e, resolved)]
  BY DEF Scan
<1>2. upto' = to /\ trades' = {e \in es : EventKind[e] = "trade"}
  BY DEF Scan
<1>3. \A e \in es : Parsed(e, resolved) \in Row
  BY IndexerAssumption DEF Parsed, Row
<1> QED
  BY <1>1, <1>2, <1>3 DEF Within

-----------------------------------------------------------------------------
(* Type correctness *)

(* A pool's first followed ledger is a ledger.                              *)
LEMMA FollowedTyped ==
  \A from \in Nat : IndexerTypeOK => Followed(from) \in [Pools -> Nat]
BY DEF Followed, IndexerTypeOK

(* The initial states are well typed.                                       *)
LEMMA InitTyped == IndexerInit => IndexerTypeOK
<1> SUFFICES ASSUME IndexerInit PROVE IndexerTypeOK
  OBVIOUS
<1>1. latest \in Nat /\ saved \in Nat
  BY IndexerAssumption DEF IndexerInit
<1>2. rows \in [Events -> Row \cup {Absent}] /\ swaps \subseteq Events
  BY IndexerAssumption DEF IndexerInit, OldRow, Row
<1>3. since \in [Pools -> Nat]
  BY DEF IndexerInit
<1> QED
  BY <1>1, <1>2, <1>3, NothingPending DEF IndexerInit, Idle, IndexerTypeOK

(* Every step keeps the state well typed.                                   *)
LEMMA StepTyped == IndexerTypeOK /\ [IndexerNext]_indexerVars => IndexerTypeOK'
<1> SUFFICES ASSUME IndexerTypeOK, [IndexerNext]_indexerVars PROVE IndexerTypeOK'
  OBVIOUS
<1>0. rows' \in [Events -> Row \cup {Absent}]
  BY EveryStepGrows DEF StoreGrows
<1>1. Down => DOMAIN pending' = {}
  BY NothingPending DEF Down
<1>2. Oldest \in Nat \ {0}
  BY OldestIsPositive DEF IndexerTypeOK
<1>3. ASSUME Down PROVE IndexerTypeOK' \/ ~(stops' \in Nat)
  BY <1>0, <1>1, <1>3 DEF Down, IndexerTypeOK, chain, store
<1>4. CASE Tick
  BY <1>0, <1>4 DEF Tick, IndexerTypeOK, store, scan
<1>5. CASE Start("run") \/ Start("backfill")
  BY <1>0, <1>5 DEF Start, IndexerTypeOK, chain, scan, Discovered
<1>6. CASE InitCursor
  <2>1. cursor' \in Nat
    BY <1>2, <1>6, BoundsAreLedgers DEF InitCursor, IndexerTypeOK
  <2> QED
    BY <1>0, <1>6, <2>1, FollowedTyped DEF InitCursor, IndexerTypeOK, chain, scan
<1>7. CASE InitBackfill
  <2>1. cursor' \in Nat
    BY <1>2, <1>7 DEF InitBackfill, Higher, IndexerTypeOK
  <2> QED
    BY <1>0, <1>7, <2>1 DEF InitBackfill, IndexerTypeOK, chain, store, scan
<1>8. CASE PersistEvent
  <2>1. DOMAIN pending' \subseteq DOMAIN pending
        /\ \A e \in DOMAIN pending' : pending'[e] = pending[e]
    BY <1>8 DEF PersistEvent
  <2> QED
    BY <1>0, <1>8, <2>1 DEF PersistEvent, IndexerTypeOK, chain
<1>9. CASE PersistSwap
  BY <1>0, <1>9 DEF PersistSwap, IndexerTypeOK, chain
<1>10. CASE Refresh
  <2>1. Minus(cursor, Lookback) + 1 \in Nat /\ cursor \in Nat
    BY RangesAreLedgers
  <2>2. UNCHANGED <<rows, swaps>>
    BY <1>10 DEF Refresh, store
  <2>3. Scan(Discovered, Minus(cursor, Lookback) + 1, cursor)
    BY <1>10 DEF Refresh
  <2>4. /\ upto' = cursor /\ DOMAIN pending' \subseteq Events
        /\ \A e \in DOMAIN pending' : pending'[e] \in Row
        /\ trades' \subseteq Events
    BY <2>1, <2>2, <2>3, ScanCovers
  <2> QED
    BY <1>0, <1>10, <2>4 DEF Refresh, IndexerTypeOK, chain, store, Discovered
<1>11. CASE AdoptRefreshed
  <2>1. Minus(cursor, Lookback) + 1 \in Nat
    BY RangesAreLedgers
  <2> QED
    BY <1>0, <1>11, <2>1 DEF AdoptRefreshed, IndexerTypeOK, chain, store, scan
<1>12. CASE ScanChunk
  <2>1. cursor + 1 \in Nat /\ Lower(cursor + Span, target) \in Nat
    BY RangesAreLedgers
  <2>2. UNCHANGED <<rows, swaps>>
    BY <1>12 DEF ScanChunk, store
  <2>3. Scan(scanner, cursor + 1, Lower(cursor + Span, target))
    BY <1>12 DEF ScanChunk
  <2>4. /\ upto' \in Nat /\ DOMAIN pending' \subseteq Events
        /\ \A e \in DOMAIN pending' : pending'[e] \in Row
        /\ trades' \subseteq Events
    BY <2>1, <2>2, <2>3, ScanCovers
  <2> QED
    BY <1>0, <1>12, <2>4 DEF ScanChunk, IndexerTypeOK, chain, store
<1>13. CASE set_cursor_ledger
  BY <1>0, <1>13, FollowedTyped DEF set_cursor_ledger, IndexerTypeOK, chain, scan
<1>14. CASE KeepScanner \/ Poll \/ CaughtUp
  BY <1>0, <1>14 DEF KeepScanner, Poll, CaughtUp, IndexerTypeOK, chain, store, scan
<1>15. CASE ActorStep
  BY <1>0, <1>15 DEF ActorStep, BackfillActors, IndexerTypeOK, chain, scan
<1>16. CASE BackfillEnds \/ OutOfRange \/ Stop
  BY <1>3, <1>16 DEF BackfillEnds, OutOfRange, Stop, IndexerTypeOK
<1>17. CASE UNCHANGED indexerVars
  BY <1>0, <1>17 DEF indexerVars, IndexerTypeOK, chain, store, scan
<1> QED
  BY <1>4, <1>5, <1>6, <1>7, <1>8, <1>9, <1>10, <1>11, <1>12, <1>13, <1>14, <1>15, <1>16, <1>17
     DEF IndexerNext, Process

(* The indexer's state is well typed in every reachable state.              *)
THEOREM IndexerTypeCorrect == IndexerSpec => []IndexerTypeOK
BY InitTyped, StepTyped, PTL DEF IndexerSpec

(* No stored row or swap is ever dropped, no actor or label emptied: the    *)
(* merge of insert_event, the label pass and the actor patch, whatever is   *)
(* scanned again after a crash.                                             *)
THEOREM NothingIsForgotten == IndexerSpec => NothingForgotten
<1>1. IndexerTypeOK /\ [IndexerNext]_indexerVars
      => [swaps \subseteq swaps' /\ \A e \in Events : Grows(rows[e], rows'[e])]_indexerVars
  BY EveryStepGrows DEF StoreGrows
<1> QED
  BY <1>1, IndexerTypeCorrect, PTL DEF IndexerSpec, NothingForgotten

-----------------------------------------------------------------------------
(* The cursor never passes an event *)

(* A chain that grows only adds pools to what discovery finds.              *)
LEMMA DiscoveredGrows ==
  IndexerTypeOK /\ [IndexerNext]_indexerVars => Discovered \subseteq Discovered'
<1> SUFFICES ASSUME IndexerTypeOK, [IndexerNext]_indexerVars PROVE latest' >= latest
  BY StepTyped, IndexerAssumption DEF Discovered, IndexerTypeOK
<1>1. latest' = latest \/ latest' = latest + 1
  BY DEF IndexerNext, Process, ActorStep, Tick, Start, InitCursor, InitBackfill, PersistEvent,
         PersistSwap, Refresh, AdoptRefreshed, KeepScanner, Poll, ScanChunk, set_cursor_ledger,
         CaughtUp, BackfillActors, BackfillEnds, OutOfRange, Stop, Down, indexerVars, chain
<1> QED
  BY <1>1 DEF IndexerTypeOK

(* The initial states satisfy the invariant, an old database included.      *)
LEMMA InitInvariant == IndexerInit => IndexerInv
<1> SUFFICES ASSUME IndexerInit PROVE IndexerInv
  OBVIOUS
<1>1. IndexerTypeOK
  BY InitTyped
<1>2. CursorCovers
  <2> SUFFICES ASSUME NEW e \in Events, since[EventPool[e]] # 0,
                      Within(e, since[EventPool[e]], saved)
               PROVE  Held(e)
    BY DEF CursorCovers
  <2>1. EventPool[e] \in Discovered /\ EventLedger[e] <= saved
    BY <1>1, IndexerAssumption DEF IndexerInit, Within, IndexerTypeOK
  <2>2. rows[e] = OldRow(e) /\ (EventKind[e] = "trade" => e \in swaps)
    BY <2>1 DEF IndexerInit
  <2>3. OldRow(e) \in Row
    BY IndexerAssumption DEF OldRow, Row
  <2> QED
    BY <2>2, <2>3, RowIsNotAbsent DEF Held
<1>3. ChunkCovered /\ OverlapCovered /\ CursorInStep
  BY DEF IndexerInit, Idle, ChunkCovered, OverlapCovered, CursorInStep
<1>4. FollowedKnown
  BY DEF IndexerInit, Idle, FollowedKnown
<1> QED
  BY <1>1, <1>2, <1>3, <1>4 DEF IndexerInv

(* A scan of the chunk or of the overlap that is persisted holds its range. *)
LEMMA PersistedIsHeld ==
  ASSUME Persisted, NEW pools, NEW from, NEW to, Covered(pools, from, to)
  PROVE  \A e \in Events : EventPool[e] \in pools /\ Within(e, from, to) => Held(e)
BY DEF Persisted, Covered, Held

(* Every step keeps the invariant.                                          *)
LEMMA StepInvariant == IndexerInv /\ [IndexerNext]_indexerVars => IndexerInv'
<1> SUFFICES ASSUME IndexerInv, [IndexerNext]_indexerVars PROVE IndexerInv'
  OBVIOUS
<1> USE DEF IndexerInv
<1>0. IndexerTypeOK' /\ StoreGrows /\ Discovered \subseteq Discovered'
  BY StepTyped, EveryStepGrows, DiscoveredGrows
<1>1. UNCHANGED <<saved, since>> => CursorCovers'
  BY <1>0, HeldStays DEF CursorCovers, Within
<1>2. UNCHANGED <<scanner, refreshed, since>> /\ (pc' # "down" => pc # "down") => FollowedKnown'
  BY <1>0 DEF FollowedKnown
<1>3. pc' \notin {"chunk", "overlap"} => ChunkCovered' /\ OverlapCovered'
  BY DEF ChunkCovered, OverlapCovered
<1>4. CASE Tick
  <2>1. UNCHANGED <<store, pc, mode, cursor, scanner, refreshed, scan, since>>
    BY <1>4 DEF Tick
  <2>2. ChunkCovered' /\ OverlapCovered'
    BY <1>0, <2>1 DEF ChunkCovered, OverlapCovered, Covered, Within, store, scan
  <2> QED
    BY <1>0, <1>1, <1>2, <2>1, <2>2 DEF CursorInStep, store
<1>5. CASE Start("run") \/ Start("backfill")
  <2>1. FollowedKnown'
    BY <1>0, <1>5 DEF Start, FollowedKnown, Discovered, chain
  <2> QED
    BY <1>0, <1>1, <1>3, <1>5, <2>1 DEF Start, CursorInStep
<1>6. CASE InitCursor
  <2>1. pc = "init" /\ mode = "run" /\ pc' = "poll" /\ saved' = cursor'
        /\ since' = Followed(cursor') /\ UNCHANGED <<latest, mode, scanner, refreshed>>
    BY <1>6 DEF InitCursor, chain
  <2>2. CursorCovers'
    <3> SUFFICES ASSUME NEW e \in Events, since'[EventPool[e]] # 0,
                        Within(e, since'[EventPool[e]], saved')
                 PROVE  Held(e)'
      BY DEF CursorCovers, Within
    <3> DEFINE p == EventPool[e]
    <3>1. p \in Pools /\ EventLedger[e] \in Nat /\ cursor' \in Nat /\ since[p] \in Nat
      BY <1>0, IndexerAssumption DEF IndexerTypeOK
    <3>2. p \in scanner
      BY <2>1, <3>1 DEF Followed, FollowedKnown
    <3>3. since[p] # 0 /\ cursor' <= saved /\ since'[p] = since[p]
      BY <2>1, <3>1, <3>2 DEF Followed, Within
    <3>4. Within(e, since[p], saved)
      BY <2>1, <3>1, <3>3 DEF Within, IndexerTypeOK
    <3> QED
      BY <1>0, <3>3, <3>4, HeldStays DEF CursorCovers
  <2>3. FollowedKnown'
    BY <1>0, <2>1 DEF FollowedKnown, Followed, Discovered
  <2> QED
    BY <1>0, <1>3, <2>1, <2>2, <2>3 DEF CursorInStep
<1>7. CASE InitBackfill
  BY <1>0, <1>1, <1>2, <1>3, <1>7 DEF InitBackfill, CursorInStep, store
<1>8. CASE PersistEvent
  <2>1. PICK d \in DOMAIN pending :
          /\ insert_event(d, pending[d])
          /\ pending' = [f \in DOMAIN pending \ {d} |-> pending[f]]
    BY <1>8 DEF PersistEvent
  <2>2. UNCHANGED <<swaps, saved, pc, mode, cursor, scanner, refreshed, trades, upto, since>>
    BY <1>8 DEF PersistEvent
  <2>3. rows'[d] # Absent
    <3>1. d \in Events /\ pending[d] \in Row
      BY DEF IndexerTypeOK
    <3> QED
      BY <2>1, <2>2, <3>1, InsertGrows
  <2>4. ASSUME NEW pools, NEW from, NEW to, Covered(pools, from, to)
        PROVE  /\ \A e \in Events : EventPool[e] \in pools /\ Within(e, from, to) =>
                    /\ e \in DOMAIN pending' \/ rows'[e] # Absent
                    /\ EventKind[e] = "trade" => e \in trades' \/ e \in swaps'
    BY <1>0, <2>1, <2>2, <2>3, <2>4 DEF Covered, StoreGrows, Grows
  <2>5. ChunkCovered' /\ OverlapCovered'
    BY <2>2, <2>4 DEF ChunkCovered, OverlapCovered, Covered, Within
  <2> QED
    BY <1>0, <1>1, <1>2, <2>2, <2>5 DEF CursorInStep
<1>9. CASE PersistSwap
  <2>1. UNCHANGED <<rows, saved, pc, mode, cursor, scanner, refreshed, pending, upto, since>>
    BY <1>9 DEF PersistSwap
  <2>2. PICK d \in trades : swaps' = swaps \cup {d} /\ trades' = trades \ {d}
    BY <1>9 DEF PersistSwap
  <2>3. ChunkCovered' /\ OverlapCovered'
    BY <2>1, <2>2 DEF ChunkCovered, OverlapCovered, Covered, Within
  <2> QED
    BY <1>0, <1>1, <1>2, <2>1, <2>3 DEF CursorInStep
<1>10. CASE Refresh
  <2>1. pc = "loop" /\ pc' = "overlap" /\ refreshed' = Discovered
        /\ UNCHANGED <<latest, rows, swaps, saved, mode, cursor, scanner, since>>
        /\ Scan(Discovered, Minus(cursor, Lookback) + 1, cursor)
    BY <1>10 DEF Refresh, chain, store
  <2>2. \A e \in Events :
          EventPool[e] \in Discovered /\ Within(e, Minus(cursor, Lookback) + 1, cursor) =>
            e \in DOMAIN pending' /\ (EventKind[e] = "trade" => e \in trades')
    BY <2>1, RangesAreLedgers, ScanCovers
  <2>3. OverlapCovered' /\ ChunkCovered'
    BY <2>1, <2>2 DEF OverlapCovered, ChunkCovered, Covered, Within, FollowedKnown
  <2>4. FollowedKnown'
    BY <2>1 DEF FollowedKnown, Discovered
  <2> QED
    BY <1>0, <1>1, <2>1, <2>3, <2>4 DEF CursorInStep
<1>11. CASE AdoptRefreshed
  <2>1. pc = "overlap" /\ Persisted /\ pc' = "poll" /\ scanner' = refreshed /\ refreshed' = {}
        /\ UNCHANGED <<latest, saved, mode, cursor>>
        /\ since' = [p \in Pools |-> IF p \in refreshed \ scanner
                                     THEN Minus(cursor, Lookback) + 1 ELSE since[p]]
    BY <1>11 DEF AdoptRefreshed, chain, store
  <2>2. saved = cursor /\ scanner \subseteq refreshed
    BY <2>1 DEF CursorInStep, OverlapCovered
  <2>3. \A e \in Events : EventPool[e] \in refreshed
                         /\ Within(e, Minus(cursor, Lookback) + 1, cursor) => Held(e)
    BY <2>1, PersistedIsHeld DEF OverlapCovered
  <2>4. CursorCovers'
    <3> SUFFICES ASSUME NEW e \in Events, since'[EventPool[e]] # 0,
                        Within(e, since'[EventPool[e]], saved')
                 PROVE  Held(e)'
      BY DEF CursorCovers, Within
    <3>1. EventPool[e] \in Pools
      BY IndexerAssumption
    <3>2. Held(e)
      BY <2>1, <2>2, <2>3, <3>1 DEF CursorCovers
    <3> QED
      BY <1>0, <3>2, HeldStays
  <2>5. FollowedKnown'
    BY <1>0, <2>1, <2>2 DEF FollowedKnown, Discovered
  <2> QED
    BY <1>0, <1>3, <2>1, <2>2, <2>4, <2>5 DEF CursorInStep
<1>12. CASE ScanChunk
  <2>1. pc = "catchup" /\ pc' = "chunk"
        /\ UNCHANGED <<latest, rows, swaps, saved, mode, cursor, scanner, refreshed, since>>
        /\ Scan(scanner, cursor + 1, Lower(cursor + Span, target))
    BY <1>12 DEF ScanChunk, chain, store
  <2>2. /\ upto' = Lower(cursor + Span, target)
        /\ \A e \in Events :
             EventPool[e] \in scanner /\ Within(e, cursor + 1, upto') =>
               e \in DOMAIN pending' /\ (EventKind[e] = "trade" => e \in trades')
    BY <2>1, RangesAreLedgers, ScanCovers
  <2>3. OverlapCovered' /\ ChunkCovered'
    BY <2>1, <2>2 DEF OverlapCovered, ChunkCovered, Covered, Within
  <2> QED
    BY <1>0, <1>1, <1>2, <2>1, <2>3 DEF CursorInStep
<1>13. CASE set_cursor_ledger
  <2>1. pc = "chunk" /\ Persisted /\ pc' = "catchup" /\ saved' = upto /\ cursor' = upto
        /\ since' = Followed(cursor) /\ UNCHANGED <<latest, mode, scanner, refreshed>>
    BY <1>13 DEF set_cursor_ledger, chain
  <2>2. \A e \in Events : EventPool[e] \in scanner /\ Within(e, cursor + 1, upto) => Held(e)
    BY <2>1, PersistedIsHeld DEF ChunkCovered
  <2>3. CursorCovers'
    <3> SUFFICES ASSUME NEW e \in Events, since'[EventPool[e]] # 0,
                        Within(e, since'[EventPool[e]], saved')
                 PROVE  Held(e)'
      BY DEF CursorCovers, Within
    <3> DEFINE p == EventPool[e]
    <3>1. p \in Pools /\ EventLedger[e] \in Nat /\ cursor \in Nat /\ since[p] \in Nat
          /\ saved \in Nat /\ upto \in Nat
      BY IndexerAssumption DEF IndexerTypeOK
    <3>2. p \in scanner
      BY <2>1, <3>1 DEF Followed, FollowedKnown
    <3>3. Within(e, since'[p], upto)
      BY <2>1
    <3>4. CASE since[p] # 0 /\ cursor <= saved
      <4>1. since'[p] = since[p]
        BY <2>1, <3>1, <3>2, <3>4 DEF Followed
      <4>2. Within(e, since[p], saved) \/ Within(e, cursor + 1, upto)
        BY <3>1, <3>3, <3>4, <4>1 DEF Within
      <4> QED
        BY <1>0, <2>2, <3>2, <3>4, <4>2, HeldStays DEF CursorCovers
    <3>5. CASE ~(since[p] # 0 /\ cursor <= saved)
      <4>1. since'[p] = cursor + 1
        BY <2>1, <3>1, <3>2, <3>5 DEF Followed
      <4> QED
        BY <1>0, <2>2, <3>2, <3>3, <4>1, HeldStays
    <3> QED
      BY <3>4, <3>5
  <2>4. FollowedKnown'
    BY <1>0, <2>1 DEF FollowedKnown, Followed, Discovered
  <2> QED
    BY <1>0, <1>3, <2>1, <2>3, <2>4 DEF CursorInStep
<1>14. CASE KeepScanner \/ Poll \/ CaughtUp
  BY <1>0, <1>1, <1>2, <1>3, <1>14 DEF KeepScanner, Poll, CaughtUp, CursorInStep, store
<1>15. CASE ActorStep
  BY <1>0, <1>1, <1>2, <1>3, <1>15 DEF ActorStep, BackfillActors, CursorInStep
<1>16. CASE BackfillEnds \/ OutOfRange \/ Stop
  <2>1. Down
    BY <1>16 DEF BackfillEnds, OutOfRange, Stop
  <2>2. FollowedKnown'
    BY <1>0, <2>1 DEF Down, FollowedKnown
  <2> QED
    BY <1>0, <1>1, <1>3, <2>1, <2>2 DEF Down, CursorInStep, store
<1>17. CASE UNCHANGED indexerVars
  <2>1. UNCHANGED <<latest, rows, swaps, saved, pc, mode, cursor, scanner, refreshed, pending,
                    trades, upto, since>>
    BY <1>17 DEF indexerVars, chain, store, scan
  <2>2. ChunkCovered' /\ OverlapCovered'
    BY <2>1 DEF ChunkCovered, OverlapCovered, Covered, Within
  <2> QED
    BY <1>0, <1>1, <1>2, <2>1, <2>2 DEF CursorInStep
<1> QED
  BY <1>4, <1>5, <1>6, <1>7, <1>8, <1>9, <1>10, <1>11, <1>12, <1>13, <1>14, <1>15, <1>16, <1>17
     DEF IndexerNext, Process

(* The invariant behind the theorem below: what a scan has read is stored   *)
(* or in hand, followed pools are scanned, the cursors agree.               *)
THEOREM IndexerInvariant == IndexerSpec => []IndexerInv
BY InitInvariant, StepInvariant, PTL DEF IndexerSpec

(* Wherever a run, a backfill or a rescan is cut off, the stored cursor has *)
(* not passed an unstored event or swap of a followed pool.                 *)
THEOREM CursorNeverPasses == IndexerSpec => []CursorCovers
<1>1. IndexerInv => CursorCovers
  BY DEF IndexerInv
<1> QED
  BY <1>1, IndexerInvariant, PTL
=============================================================================
