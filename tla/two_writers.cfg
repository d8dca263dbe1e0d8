SPECIFICATION WorldSpec
CONSTANTS
  a = a
  b = b
  s1 = s1
  t1 = t1
  v0 = v0
  v1 = v1
  v2 = v2
  Absent = Absent
  NoSkill = NoSkill
  Devices = {a, b}
  Skills = {s1, t1}
  Versions = {v0, v1, v2}
  Shared <- MCSharedPair
  Policy <- BothWrite
  Override <- NoFlags
  Unfit <- AllFit
  AllowNew = TRUE
  AllowDelete = TRUE
  StopOnBlocked = {b}
  InitialIndex <- OnlyS
  InitialLocal <- EveryoneHasS
  Editors = {a, b}
  EditPhases <- WhileQuiet
  Drafts = {v0, v1, Absent}
  MaxEdits = 3
  MaxFaults = 1
  MaxLifecycle = 0
INVARIANTS
  IndexComplete
  PushesAreEdits
  NoSilentDivergence
  PeersAreEqual
PROPERTIES
  UnpublishedKept
  ImplementsPromise
  NothingLost
  NeverDeletes
  Settles
