SPECIFICATION FairSpec
CONSTANTS
  s1 = s1
  s2 = s2
  Sessions = {s1, s2}
  NEvents = 1
  Versions = {1}
  UserStatuses = {}
  Dust <- DustFirst
  Legacy <- NothingLeft
  Healthy = {s2}
  None = None
PROPERTY NoStarvation
