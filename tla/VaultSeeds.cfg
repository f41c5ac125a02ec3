CONSTANTS
    p1 = p1
    p2 = p2
    dice = dice
    crash = crash
    mDice = mDice
    mDice2 = mDice2
    mCrash = mCrash
    mCrash2 = mCrash2
    Players = {p1}
    NoModule = NoModule
    REVEAL_DELAY = 1
    BLOCKHASH_WINDOW = 1
    EVM_HASH_DEPTH = 1
    BET_HISTORY_CAP = 1
    GameOf <- MCGameOf
    Games = {dice, crash}
    Modules = {mDice, mDice2, mCrash}
    SingleShot = {dice}
    RiskPolicies <- MCRiskPolicies
    Stakes = {1}
    Payouts = {1}
    Deposits = {2}
    Budgets = {1}
    MaxBlock = 4
    MaxBets = 2
    MaxSeeds = 3
    MaxRefunds = 0
    MaxEscrow = 0
    MaxBalance = 4
SPECIFICATION FairSpec
INVARIANTS
    SeedsUsedOnce
    SeedPublicIffSettled
PROPERTIES
    BetsResolve
