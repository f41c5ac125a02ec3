SPECIFICATION FairSpec
CONSTANTS
    MAX_PLAYERS = 4
    SEATS = 3
    STACK = 1
    BUY_IN = 10
    FEE = 0
    SPONSORED = 20
    PAYOUT_BPS <- MCPayout
    HOST_BPS = 1000
    BB_START = 4
    GROWTH_BPS = 20000
    Structures <- MCStructures
    MaxClock = 2
    MaxAway = 1
INVARIANTS
    UntakenFeesBack
    ChipsAccountedFor
PROPERTIES
    TablesReleased
    LevelsRise
    SeatsFreed
CHECK_DEADLOCK FALSE
