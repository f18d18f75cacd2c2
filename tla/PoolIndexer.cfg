SPECIFICATION IndexerSpec
CONSTANTS
  old = old
  new = new
  t1 = t1
  l2 = l2
  l4 = l4
  n3 = n3
  Events = {t1, l2, n3, l4}
  Pools = {old, new}
  EventLedger <- MCLedger
  EventPool <- MCPool
  EventKind <- MCKind
  NamesActor <- MCNames
  BornAt <- MCBornAt
  Retention = 2
  Lookback = 2
  Span = 2
  ActorBatch = 1
  FirstLatest = 1
  MaxLedger = 4
  MaxStops = 1
INVARIANTS
  IndexerTypeOK
  CursorCovers
PROPERTIES
  NothingForgotten
  EventuallyIndexed
  ActorsFilled
