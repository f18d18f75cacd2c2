SPECIFICATION Spec
CONSTANTS
  Accounts = {a1, a2}
  SessionIds = {1, 2}
  EventIds = {1}
  l1 = l1
  l2 = l2
  A = A
  B = B
  tok = tok
  Leaders = {l1, l2}
  Pools = {A, B}
  Tokens = {tok}
  Routers = {rt}
  None = None
  Payloads <- RolePayloads
  Terms <- RoleTerms
  Quotes <- MCQuotes
  AmountLists <- MCAmountLists
  COEFFICIENT_SCALE = 2
  MAX_COEFFICIENT_PPM = 4
  MAX_POOLS = 2
  MAX_SESSION_DURATION_SECS = 2
  POLICY_TTL = 2
  DAY = 2
  I128_MAX = 6
  MaxTime = 1
SYMMETRY AccountSymmetry
INVARIANTS
  AtMostOnce
  ExecutedAsRecorded
