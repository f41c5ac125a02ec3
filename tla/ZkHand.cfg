SPECIFICATION FairSpec
CONSTANTS
    N = 3
    BOARD = 1
    MaxFaults = 1
INVARIANTS
    AccusedCanAnswer
PROPERTIES
    DealtAsIfTrusted
    HandEnds
CHECK_DEADLOCK FALSE
