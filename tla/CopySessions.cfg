SPECIFICATION FairSpec
CONSTANTS
  pol = pol
  h = h
  d = d
  SessionIds = {1, 2}
  Events = {1, 2}
  CreatedAt <- MCCreatedAt
  Copyable = {2}
  Coefficients = {h}
  PolicyIds = {}
  Registered <- MCRegistered
  Expiries = {1}
  Bodies <- StatusBodies
  Batch = 1
  Clients = {c1}
  MaxTime = 1
  None = None
INVARIANTS
  TypeOK
  NothingSkipped
PROPERTIES
  EventuallyDrafted
  ExpiredIsPaused
