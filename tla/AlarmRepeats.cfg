SPECIFICATION TmFairSpec
PROPERTY AlarmRepeats
CHECK_DEADLOCK FALSE
