CONSTANTS
    p1 = p1
    p2 = p2
    dice = dice
    crash = crash
    mDice = mDice
    mDice2 = mDice2
    mCrash = mCrash
    mCrash2 = mCrash2
    Players = {p1, p2}
    NoModule = NoModule
    REVEAL_DELAY = 1
    BLOCKHASH_WINDOW = 1
    EVM_HASH_DEPTH = 1
    BET_HISTORY_CAP = 1
    GameOf <- MCGameOf
    Games = {dice, crash}
    Modules = {mDice, mCrash, mCrash2}
    SingleShot = {dice}
    RiskPolicies <- MCWideRisk
    Stakes = {1}
    Payouts = {2}
    Deposits = {2}
    Budgets = {0, 1}
    MaxBlock = 3
    MaxBets = 1
    MaxSeeds = 1
    MaxRefunds = 1
    MaxEscrow = 1
    MaxBalance = 5
SPECIFICATION Spec
SYMMETRY Symmetry
INVARIANTS
    TypeOK
    Conservation
    NoBetInLimbo
    BlastRadius
PROPERTIES
    OnlyRefundsUnback
