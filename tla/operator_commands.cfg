SPECIFICATION SpecFailingHere
CONSTANTS
  a = a
  b = b
  s1 = s1
  t1 = t1
  v0 = v0
  v1 = v1
  Absent = Absent
  NoSkill = NoSkill
  Devices = {a, b}
  Skills = {s1, t1}
  Versions = {v0, v1}
  Shared <- AsIs
  Policy <- AWritesBReads
  Override <- NoFlags
  Unfit <- AllFit
  AllowNew = TRUE
  AllowDelete = FALSE
  StopOnBlocked = {}
  InitialIndex <- OnlyS
  InitialLocal <- EveryoneHasS
  Editors = {a, b}
  EditPhases <- AnyPhase
  Drafts = {v0, v1, Absent}
  MaxEdits = 2
  MaxFaults = 1
  MaxLifecycle = 0
  Operators = {b}
  Packaged <- AsIs
  Sources = {}
  CachePhases <- WhileIdle
  MaxCommands = 1
INVARIANT TypeOKWithCommands
PROPERTIES CommandsLoseNothing CommandsTouchOnlyChosen ApprovedAsReviewed
  RecordedIsAgreed
