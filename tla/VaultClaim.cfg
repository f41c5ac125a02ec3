CONSTANTS
    p1 = p1
    p2 = p2
    dice = dice
    crash = crash
    mDice = mDice
    mDice2 = mDice2
    mCrash = mCrash
    mCrash2 = mCrash2
    Players = {p1, p2}
    NoModule = NoModule
    REVEAL_DELAY = 1
    BLOCKHASH_WINDOW = 1
    EVM_HASH_DEPTH = 1
    BET_HISTORY_CAP = 1
    GameOf <- MCGameOf
    Games = {dice}
    Modules = {mDice}
    SingleShot = {dice}
    RiskPolicies <- MCWideRisk
    Stakes = {1, 2}
    Payouts = {2, 3}
    Deposits = {2}
    Budgets = {1}
    MaxBlock = 4
    MaxBets = 2
    MaxSeeds = 2
    MaxRefunds = 0
    MaxEscrow = 0
    MaxBalance = 5
SPECIFICATION Spec
SYMMETRY Symmetry
INVARIANTS
    ClaimNeverFails
