SPECIFICATION FairSpec
CONSTANTS
  N = 2
  BOARD = 2
  MaxFaults = 1
PROPERTY HandAlwaysEnds
CHECK_DEADLOCK FALSE
