SPECIFICATION MCSpec
CONSTANTS
  MaxCached = 2
  Threads = 2
  MaxChanges = 1
  MaxPeriods = 1
  MaxRequests = 1
  HistorySources = {"openai", "claude"}
  HistoryChanges = 1
  MaxChoices = 1
  MaxFailures = 1
  To = 4
  Base = 1
  MaxPoints = 2
  Qualities = {"actual", "estimated"}
  SampleValues = {1, 2}
  MaxSamples = 3
  Periods = {"week", "month"}
  Selects = 2
  MaxVisits = 2
  AnalystRequests = 4
  AnalystChanges = 0
  Entries = {"settings", "log", "sessions"}
  Folders = {"sessions"}
  Parent <- Containment
  Root = "tool"
  FileChanges = 3
  MaxSuperseded = 1
  RefusedWatches = 1
  Providers = {1, 2}
  Tool = 0
  SourceChanges = 2
  MaxTime = 4
INVARIANTS
  ForecastsAreCurrent
  
  
  
  ActivityIsCounted
PROPERTIES
  NeverBack
  QueriesSettle
CHECK_DEADLOCK FALSE
