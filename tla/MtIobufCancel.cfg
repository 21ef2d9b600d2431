CONSTANTS
  IoNTHREADS = 2
  NumIO = 2
  Variants = {"cleanup"}
  Faulty = {TRUE}
SPECIFICATION IoSpec
INVARIANTS IoMemorySafe
CHECK_DEADLOCK FALSE
