SPECIFICATION Spec
CONSTANTS
  s1 = s1
  s2 = s2
  Sessions = {s1}
  NEvents = 1
  Versions = {1}
  UserStatuses = {"drafted"}
  Dust = {}
  Legacy <- NothingLeft
  Healthy = {}
  None = None
PROPERTY TransitionsAreAllowed
