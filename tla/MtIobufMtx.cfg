CONSTANTS
  IoNTHREADS = 2
  NumIO = 2
  Variants = {"mtx"}
  Faulty = {FALSE}
SPECIFICATION IoSpec
INVARIANTS BlocksKept
CHECK_DEADLOCK FALSE
