CONSTANTS
  PrimeRange <- SmallRange
  Cancel = {FALSE}
SPECIFICATION PrSpec
INVARIANTS AllMerged
CHECK_DEADLOCK FALSE
