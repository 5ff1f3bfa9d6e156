SPECIFICATION MCSpec
CONSTANTS
  MaxSequence = 3
  MaxChecks = 4
  MaxFaults = 2
  MaxCrashes = 1
  Connections = {"c1"}
  Rows = {"r1", "r2"}
  Oldest = 0
  MaxUpgradeFaults = 2
  Pages = {"page"}
  Files = 2
  MaxObservations = 0
  MaxOperations = 3
  MaxFailures = 1
  Shells = {"s1", "s2"}
  Values = {}
  MaxRecords = 0
  MaxChanges = 2
  MaxEvents = 1
  MaxStatementFaults = 1
  MaxRestarts = 1
INVARIANTS
  TypeOK
  OneFaultIsUndone
  
  OneOfAKind
  
  RecordsAreSound
PROPERTIES
  NeverRollsBack
  ScopesKept
  WorkEnds
CHECK_DEADLOCK FALSE
