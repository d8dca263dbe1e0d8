SPECIFICATION WatchedSpec
CONSTANTS
  a = a
  b = b
  s1 = s1
  t1 = t1
  v0 = v0
  v1 = v1
  v2 = v2
  Absent = Absent
  NoSkill = NoSkill
  Devices = {a, b}
  Skills = {s1, t1}
  Versions = {v0, v1}
  Shared <- MCSharedNone
  Policy <- BothWrite
  Override <- NoFlags
  Unfit <- AllFit
  AllowNew = FALSE
  AllowDelete = FALSE
  StopOnBlocked = {}
  InitialIndex <- AllV0
  InitialLocal <- EveryoneHasAllV0
  Editors = {a, b}
  EditPhases <- WhileIdle
  Drafts = {v0, v1, Absent}
  MaxEdits = 2
  MaxFaults = 0
  MaxLifecycle = 0
PROPERTIES
  NoBlindOverwrite
