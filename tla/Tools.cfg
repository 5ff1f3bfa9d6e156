SPECIFICATION MCSpec
CONSTANTS
  Tools = {"claude", "codex", "copilot"}
  Sessions = {"s1", "s2"}
  NoLogin = "none"
  Interval = 1
  Declared = {2}
  MaxTime = 1
  MaxGenerations <- SyncGenerations
  MaxUsage = 2
  RollingLength = 2
  Windows = {"five_hour"}
  FreshFor = 2
  RollingTime = 4
  MonthLengths <- Calendar
  DayLength = 2
  CalendarTime = 15
  Ports = {1, 2}
  Hosts = {"127.0.0.1"}
  Models <- Gemini
  Buckets <- Weekly
  Window <- Weekly
  Percentages = {100}
  Critical = 90
  Warning = 70
  MaxSyncs = 3
  OpenInterval = 1
  ClosedInterval = 2
  Jitter = 1
  RetryAfters = {6}
  Paths = {1, 2}
  Budget = 2
  Share = 1
  MaxWrites = 4
  MaxDisrupted = 1
  MaxImports = 2
  MaxImportFailures = 2
INVARIANTS
  OneCallPerSync
  DeadlineKept
  UsageIsCurrent
  DeadlineIsCurrent
  ImportIsFaithful
PROPERTIES
  SyncsWhenAllowed
  MetricsOfCurrentAccount
  CountedInItsPeriod
  ToolsEnd
CHECK_DEADLOCK FALSE
