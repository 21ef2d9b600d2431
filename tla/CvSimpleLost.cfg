CONSTANT MaxSpurious = 1
SPECIFICATION CvFairSpec
PROPERTIES AContinues
CHECK_DEADLOCK FALSE
