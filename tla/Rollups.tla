------------------------------- MODULE Rollups -------------------------------
(***************************************************************************)
(* The derived tables of the indexer (pool-indexer db.rs 425-675,          *)
(* rollups.rs): the snapshotter's rows become five-minute rows, the last   *)
(* of a bucket winning, and those and the swaps become a rollup per pool   *)
(* and window.  A sync reads the snapshots from the newest bucket it has,  *)
(* over all pools; it runs between polls, whatever was written since, and  *)
(* commits row by row: an error or a crash cuts it off.                    *)
(***************************************************************************)
EXTENDS Values, FiniteSets, FiniteSetsExt

CONSTANTS
  RollupPools,
  PoolOrder,            \* rank in ORDER BY pool_address
  Bucket,               \* instants of one five-minute bucket
  Windows,              \* the window lengths
  Tvls, MaxInstant, MaxSnapshots, MaxSwaps, MaxCuts     \* bounds

ASSUME RollupAssumption ==
  /\ Bucket \in Nat \ {0} /\ {MaxInstant, MaxSnapshots, MaxSwaps, MaxCuts} \subseteq Nat

VARIABLES
  instant,
  snapshots,            \* pool_snapshots: [pool, ts, tvl]
  pool_swaps,           \* [pool, at, volume]
  five,                 \* pool_snapshots_5m: <<pool, bucket>> to tvl
  rollups,              \* pool_rollups: <<pool, window>> to the row
  synced,               \* the last write was a complete sync
  cuts,
  taken                 \* history: the snapshots there have been
rollupVars == <<instant, snapshots, pool_swaps, five, rollups, synced, cuts, taken>>

RollupTypeOK ==
  /\ instant \in 0 .. MaxInstant /\ cuts \in 0 .. MaxCuts /\ synced \in BOOLEAN
  /\ snapshots \subseteq [pool : RollupPools, ts : 0 .. MaxInstant, tvl : Tvls]
  /\ \A s, t \in snapshots : s.pool = t.pool /\ s.ts = t.ts => s = t
  /\ DOMAIN five \subseteq RollupPools \X (0 .. MaxInstant)
  /\ DOMAIN rollups \subseteq RollupPools \X Windows

RollupInit == /\ instant = 0 /\ snapshots = {} /\ pool_swaps = {} /\ five = <<>> /\ rollups = <<>>
              /\ synced = FALSE /\ cuts = 0 /\ taken = {}

bucket_of(ts) == ts - (ts % Bucket)

RollupTick == /\ instant < MaxInstant /\ instant' = instant + 1
              /\ UNCHANGED <<snapshots, pool_swaps, five, rollups, synced, cuts, taken>>

(* insert_snapshot: the snapshotter writes serially and reads the clock     *)
(* before it waits for the database.                                       *)
insert_snapshot ==
  /\ Cardinality(snapshots) < MaxSnapshots
  /\ \E pool \in RollupPools, tvl \in Tvls, ts \in 0 .. instant :
       /\ \A s \in snapshots : s.ts <= ts
       /\ LET new == [pool |-> pool, ts |-> ts, tvl |-> tvl]
          IN /\ snapshots' = {s \in snapshots : s.pool # pool \/ s.ts # ts} \cup {new}
             /\ taken' = taken \cup {new}
  /\ synced' = FALSE /\ UNCHANGED <<instant, pool_swaps, five, rollups, cuts>>
insert_swap ==
  /\ Cardinality(pool_swaps) < MaxSwaps
  /\ \E pool \in RollupPools :
       pool_swaps' = pool_swaps \cup {[pool |-> pool, at |-> instant, volume |-> 3]}
  /\ synced' = FALSE /\ UNCHANGED <<instant, snapshots, five, rollups, cuts, taken>>

(* backfill_5m_from_hourly_snapshots: the rows from the newest bucket on,   *)
(* and what the first of them, by pool and time, leave in the table.       *)
Before(s, t) == \/ PoolOrder[s.pool] < PoolOrder[t.pool]
                \/ s.pool = t.pool /\ s.ts < t.ts
AfterNewest == {s \in snapshots : \A k \in DOMAIN five : s.ts >= k[2] + Bucket}
FromNewest  == {s \in snapshots : \A k \in DOMAIN five : s.ts >= k[2]}
Cuts(rows) == {p \in SUBSET rows : \A s \in rows, t \in p : Before(s, t) => s \in p}
LastOf(rows, pool, bucket) ==
  CHOOSE s \in rows : /\ s.pool = pool /\ bucket_of(s.ts) = bucket
                      /\ \A t \in rows : t.pool = pool /\ bucket_of(t.ts) = bucket => t.ts <= s.ts
Bucketed(rows) == [k \in {<<s.pool, bucket_of(s.ts)>> : s \in rows} |-> LastOf(rows, k[1], k[2]).tvl]
Upserted(rows, table) ==
  LET new == Bucketed(rows)
  IN [k \in DOMAIN new \cup DOMAIN table |-> IF k \in DOMAIN new THEN new[k] ELSE table[k]]

(* compute_rollup: both ends of the window count for the snapshots, and the *)
(* swaps have no upper end.                                                *)
latest_bucket_ts(table, pool) == Max({k[2] : k \in {k \in DOMAIN table : k[1] = pool}})
compute_rollup(table, swaps, pool, window) ==
  LET as_of == latest_bucket_ts(table, pool)
      keys  == {k \in DOMAIN table : k[1] = pool /\ k[2] >= as_of - window}
      mine  == {s \in swaps : s.pool = pool /\ s.at >= as_of - window}
  IN [as_of |-> as_of, sample_count |-> Cardinality(keys),
      tvl_sum |-> MapThenSumSet(LAMBDA k : table[k], keys),
      volume |-> MapThenSumSet(LAMBDA s : s.volume, mine), tx_count |-> Cardinality(mine)]
rebuild_rollups(table, swaps) ==
  [r \in {k[1] : k \in DOMAIN table} \X Windows |-> compute_rollup(table, swaps, r[1], r[2])]

sync_derived_tables ==
  /\ five' = Upserted(FromNewest, five)
  /\ rollups' = rebuild_rollups(five', pool_swaps) /\ synced' = TRUE
  /\ UNCHANGED <<instant, snapshots, pool_swaps, cuts, taken>>
(* It stops among the five-minute rows, or among the rollups.               *)
SyncCut ==
  /\ cuts < MaxCuts /\ cuts' = cuts + 1
  /\ \E done \in Cuts(FromNewest) :
       /\ five' = Upserted(done, five)
       /\ \/ UNCHANGED rollups
          \/ /\ done = FromNewest
             /\ LET new == rebuild_rollups(five', pool_swaps) IN
                \E n \in 0 .. Max({PoolOrder[p] : p \in RollupPools}) :
                  rollups' = [r \in DOMAIN rollups \cup {x \in DOMAIN new : PoolOrder[x[1]] <= n} |->
                                IF r \in DOMAIN new /\ PoolOrder[r[1]] <= n THEN new[r] ELSE rollups[r]]
  /\ synced' = FALSE /\ UNCHANGED <<instant, snapshots, pool_swaps, taken>>
RollupNext == RollupTick \/ insert_snapshot \/ insert_swap \/ sync_derived_tables \/ SyncCut

-----------------------------------------------------------------------------
(* After a sync the derived tables are what a rebuild from every snapshot   *)
(* and swap would give, although it read the newest bucket only.  A sync   *)
(* cut off before leaves an older bucket behind for good, but not the      *)
(* newest; what a bucket holds was the value of one of its snapshots; and  *)
(* the rollups are what the rows stored make of them.                      *)
IncrementalIsFull ==
  LET full == Bucketed(snapshots) IN
  /\ synced /\ cuts = 0 => five = full
  /\ synced /\ snapshots # {} =>
       LET newest == Max({k[2] : k \in DOMAIN full}) IN
       \A k \in DOMAIN full : k[2] = newest => k \in DOMAIN five /\ five[k] = full[k]
  /\ \A k \in DOMAIN five :
       \E s \in taken : s.pool = k[1] /\ bucket_of(s.ts) = k[2] /\ five[k] = s.tvl
  /\ synced => rollups = rebuild_rollups(five, pool_swaps)
=============================================================================
