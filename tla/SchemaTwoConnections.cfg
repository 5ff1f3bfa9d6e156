SPECIFICATION Spec
CONSTANTS
  Connections = {c1, c2}
  Rows = {}
  Oldest = 7
  MaxFaults = 0
PROPERTIES StaysUpToDate
CHECK_DEADLOCK FALSE
