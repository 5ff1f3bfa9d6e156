SPECIFICATION Spec
CONSTANTS
  Ports = {1}
  Hosts = {"127.0.0.1"}
  Models <- MCModels
  Buckets <- MCBuckets
  Window <- MCWindow
  Figures = {40}
  Critical = 90
  Warning = 70
  MaxGenerations = 1
PROPERTIES
  ModelRowsKept
CHECK_DEADLOCK FALSE
