SPECIFICATION FairSpec
CONSTANTS
  N = 2
  BOARD = 2
  MaxFaults = 1
PROPERTY ForfeitsOnlyWithheld
CHECK_DEADLOCK FALSE
