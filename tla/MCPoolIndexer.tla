---------------------------- MODULE MCPoolIndexer ----------------------------
(* Small instances of PoolIndexer: one pool known from the start and one     *)
(* created later, trades and liquidity events on both sides of the cursor.  *)
EXTENDS PoolIndexer, TLC

CONSTANTS old, new, t1, l2, n3, l4

MCLedger == t1 :> 1 @@ l2 :> 2 @@ l4 :> 4 @@ n3 :> 3
MCPool   == t1 :> old @@ l2 :> old @@ l4 :> old @@ n3 :> new
MCKind   == t1 :> "trade" @@ l2 :> "liquidity" @@ l4 :> "liquidity" @@ n3 :> "trade"
MCNames  == t1 :> TRUE @@ l2 :> FALSE @@ l4 :> FALSE @@ n3 :> TRUE
MCBornAt == old :> 1 @@ new :> 3
=============================================================================
