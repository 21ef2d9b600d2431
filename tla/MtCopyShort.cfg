CONSTANTS
  MAX_THRDS = 2
  Sizes = {4}
  ShortIO = {TRUE}
SPECIFICATION MtSpec
INVARIANTS CopyComplete
CHECK_DEADLOCK FALSE
