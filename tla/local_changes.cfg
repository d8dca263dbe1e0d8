INIT Init
NEXT Next
CONSTANTS
  m = m
  s1 = s1
  t1 = t1
  v0 = v0
  v1 = v1
  v2 = v2
  x1 = x1
  y1 = y1
  f1 = f1
  f2 = f2
  Absent = Absent
  Damaged = Damaged
  Skills = {s1, t1}
  Versions = {v0, v1}
  MaxRuns = 2
  MaxEdits = 1
  MaxFailures = 1
  Staged <- BothOne
  Scope <- GlobalAndProject
  Aimed = {s1, t1}
  SkillRoots <- ApplyRoots
  RootEdits <- ApplyEdits
  Tools = {m, x1, y1}
  Sidecar = m
  ToolEntries <- InstallEntries
  Sources <- InstallSources
  ToolEdits <- InstallEdits
  HubRoots = {x1, y1}
  Processes = {f1, f2}
  CentralSkills <- OnlyFirstFits
  Hubs <- EmptyHub
  SourceRoots <- HubSources
  SourceEdits <- HubEdits
  MaxSourceEdits = 2
  LinkedTools = {x1, y1}
  Declared <- ToolsOfSkills
  Legacy <- BothZero
  Snapshots <- LegacySnapshots
  LinkedEntries <- LegacyEntries
  RootVersions = {v0, v1, v2}
  Agreed <- BothZero
  CentralContents <- SecondAhead
  Configs <- RootConfigs
INVARIANTS LocalTypesOK
PROPERTIES ApplyKeepsContent InstallKeepsContent ImportKeepsHub
  MigrationKeepsLinks RootMoveKeepsContent
CHECK_DEADLOCK FALSE
