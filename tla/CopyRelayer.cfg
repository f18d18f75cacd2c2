SPECIFICATION Spec
CONSTANTS
  s1 = s1
  s2 = s2
  Sessions = {s1}
  NEvents = 2
  Versions = {1, 2}
  UserStatuses = {"skipped"}
  Dust = {}
  Legacy <- MayBeLeft
  Healthy = {}
  None = None
INVARIANTS
  TypeOK
  ExecutedIsTrue
  SourceOrder
  RecordingIsTrue
