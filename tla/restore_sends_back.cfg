SPECIFICATION SpecWithCommands
CONSTANTS
  a = a
  b = b
  s1 = s1
  t1 = t1
  v0 = v0
  v1 = v1
  Absent = Absent
  NoSkill = NoSkill
  Devices = {a, b}
  Skills = {s1, t1}
  Versions = {v0, v1}
  Shared <- AsIs
  Policy <- BothWrite
  Override <- NoFlags
  Unfit <- AllFit
  AllowNew = TRUE
  AllowDelete = FALSE
  StopOnBlocked = {}
  InitialIndex <- AllV0
  InitialLocal <- EveryoneHasAllV0
  Editors = {b}
  EditPhases <- WhileIdle
  Drafts = {v0, v1, Absent}
  MaxEdits = 1
  MaxFaults = 0
  MaxLifecycle = 0
  Operators = {a}
  Packaged <- AsIs
  Sources = {}
  CachePhases <- WhileIdle
  MaxCommands = 1
INVARIANTS
  OnlyEditsArePushed
