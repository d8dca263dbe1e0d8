SPECIFICATION WatchedSpec
CONSTANTS
  a = a
  b = b
  s1 = s1
  t1 = t1
  v0 = v0
  v1 = v1
  v2 = v2
  Absent = Absent
  NoSkill = NoSkill
  Devices = {a, b}
  Skills = {s1, t1}
  Versions = {v0, v1}
  Shared <- MCSharedPair
  Policy <- BothWrite
  Override <- BOverridesS
  Unfit <- TUnfitForB
  AllowNew = TRUE
  AllowDelete = FALSE
  StopOnBlocked = {}
  InitialIndex <- OnlyS
  InitialLocal <- EveryoneHasS
  Editors = {a, b}
  EditPhases <- AnyPhase
  Drafts = {v0, v1, Absent}
  MaxEdits = 2
  MaxFaults = 1
  MaxLifecycle = 1
INVARIANTS
  TypeOK
  RecordedNeverConflicts
PROPERTIES
  DeprecatedUntouched
  PulledIsArchived
  PushTouchesOnlyPlanned
