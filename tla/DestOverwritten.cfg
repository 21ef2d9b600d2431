CONSTANTS
  CpSizes = {1, 2, 3, 5}
  CpOldSizes = {0, 4}
  CpBlock = 2
SPECIFICATION CpSpec
INVARIANT DestOverwritten
\* The programs end.
CHECK_DEADLOCK FALSE
