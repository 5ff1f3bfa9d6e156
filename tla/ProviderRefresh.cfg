SPECIFICATION FairSpec
CONSTANTS
  Endpoints = {"usage", "billing"}
  Keys = {"k1", "k2"}
  NoKey = "none"
  PageLimit = 3
  MaxRetries = 1
  MaxGenerations = 3
INVARIANTS
  TypeOK
  OneCallPerPagination
  LoadingWhilePending
PROPERTIES
  OtherCredentialIgnored
  CompletionDecidesAll
  RefreshEnds
  KeepsPromise
CHECK_DEADLOCK FALSE
