SPECIFICATION WorldSpec
CONSTANTS
  m = m
  n1 = n1
  v0 = v0
  v1 = v1
  v2 = v2
  writer = writer
  reader = reader
  NoName = NoName
  Absent = Absent
  Names = {m, n1}
  Versions = {v0, v1}
  Plain <- MCPlainNone
  Declared <- MDeclared
  Legacy <- LegacyV0
  Worlds <- AllWorlds
  Keep = 1
  KeepRecords = 2
  RollbackSlots = {1}
  ToolPhases <- BetweenRuns
  CanonicalPhases <- BetweenRuns
INVARIANTS TypeOK OwnCopiesRecorded RollbackUndoes UndeclaredStays
PROPERTIES ReplacedIsKept ForeignUntouched Follows Converges
CHECK_DEADLOCK FALSE
