SPECIFICATION Spec
CONSTANTS
  pol = pol
  h = h
  d = d
  SessionIds = {1}
  Events = {1, 2}
  CreatedAt <- MCCreatedAt
  Copyable = {2}
  Coefficients = {h, d}
  PolicyIds = {pol}
  Registered <- MCRegistered
  Expiries = {2}
  Bodies <- BindingBodies
  Batch = 1
  Clients = {c1, c2}
  MaxTime = 1
  None = None
PROPERTY BoundFieldsFixed
