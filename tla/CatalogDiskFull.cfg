SPECIFICATION Spec
CONSTANTS
  MaxSequence = 2
  MaxChecks = 2
  MaxFaults = 2
  MaxCrashes = 0
INVARIANTS
  CacheStaysVerified
CHECK_DEADLOCK FALSE
