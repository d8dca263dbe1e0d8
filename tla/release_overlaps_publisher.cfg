INIT Init
NEXT Next
CONSTANTS
  s1 = s1
  t1 = t1
  v0 = v0
  v1 = v1
  v2 = v2
  x1 = x1
  y1 = y1
  f1 = f1
  f2 = f2
  Absent = Absent
  Damaged = Damaged
  Pending = Pending
  Raised = Raised
  NoName = NoName
  Skills = {s1, t1}
  Versions = {v0, v1}
  UnitFiles = {f1, f2}
  EarlierFiles <- NoneOrOne
  MaxReleases = 2
  MaxStepFailures = 2
  MaxTicks = 2
  Writers = {x1}
  Snapshots <- SomeSnapshots
  Transports <- BothRemotes
  MaxUploads = 2
  MaxDownloads = 2
  MaxMixed = 1
  MaxTransferFailures = 1
  Reviewed = {s1}
  Slots <- FourSlots
  EarlierRecords <- NoneOrThree
  MaxBuilds = 2
  MaxChanges = 1
  MaxCrashes = 1
  Devices = {x1, y1}
  Inspected = {x1}
  SummaryStale = 1
  RefreshInterval = 1
  DeviceOld = 5
  MonitorStale = 5
  PollInterval = 2
  Retries = 1
  Threshold = 2
  BuildTime = 1
  MaxPolled = 10
  MaxReports = 2
  MaxIndexed = 1
  MaxForced = 1
  MaxLosses = 2
  Together <- FewTogether
  Tabs = {x1, y1}
  ConsoleVersions = {v0, v1, v2}
  Projections <- NothingIgnored
  Sources <- OneAhead
  CentralIndex <- CentralBehind
  BaseRecord <- CentralBehind
  Attempts = 2
  MaxFlows = 2
  MaxSourceEdits = 1
  MaxPushes = 1
  MaxTimeouts = 1
  MaxDisturbed = 1
  CycleInterval = 4
  Margin = 2
  Delay = 1
  StopOnBlocked = TRUE
  MaxNow = 10
  ProbeModes <- BothModes
  MaxProbes = 2
  MaxProbeEdits = 1
  MaxProbeFailures = 1
  MaxDeaths = 1
  MaxPublished = 1
PROPERTY PublisherIsWaitedFor
CHECK_DEADLOCK FALSE
