SPECIFICATION Spec
CONSTANTS
  Endpoints = {"usage", "billing"}
  Keys = {"k1", "k2"}
  NoKey = "none"
  PageLimit = 3
  MaxRetries = 1
  MaxGenerations = 3
PROPERTIES
  UserActionErrorsWait
CHECK_DEADLOCK FALSE
