CONSTANTS
  PrimeRange <- SmallRange
  Cancel = {TRUE, FALSE}
SPECIFICATION PrSpec
INVARIANTS OnlyPrimes
CHECK_DEADLOCK FALSE
