CONSTANTS
    g1 = g1
    other = other
    OtherGames = {other}
    theVault = theVault
    Games = {g1}
    Kinds = {"single", "slot", "mines", "round"}
    Vault = theVault
    REVEAL_DELAY = 1
    BLOCKHASH_WINDOW = 1
    BET_WINDOW = 1
    DISCOVERY = 1
    Concurrencies = {1, 2}
    MaxItems = 2
    MaxHead = 5
    MaxFaults = 1
    MaxPicks = 1
SPECIFICATION FairSpec
INVARIANTS
    NothingForgotten
PROPERTIES
    BookIsKept
    OwedIsDone
CHECK_DEADLOCK FALSE
