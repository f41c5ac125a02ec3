SPECIFICATION FairSpec
CONSTANTS
    Players = {1, 2, 3}
    PromptSets = {{1, 3}, {2}}
    MaxHands = 2
    MaxMoves = 1
    MaxFaults = 2
INVARIANTS
    PromptKeepSeats
    ForgedDeckNeverStarts
    LiveHandServable
PROPERTIES
    HandsKeepComing
CHECK_DEADLOCK FALSE
