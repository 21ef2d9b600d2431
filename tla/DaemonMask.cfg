CONSTANTS
  DmFds = {0, 1, 2, 3, 7}
  DmMax = 6
  DmBlocked = {{}, {1}}
SPECIFICATION DmSpec
INVARIANT MaskReset
\* The processes end, or pause.
CHECK_DEADLOCK FALSE
