CONSTANTS
    p1 = p1
    p2 = p2
    sugar = sugar
    vault7 = vault7
    mSugar = mSugar
    mSugar2 = mSugar2
    mVault7 = mVault7
    Players = {p1}
    Games = {sugar, vault7}
    Modules = {mSugar, mSugar2, mVault7}
    GameModules = {mSugar, mVault7}
    NoModule = NoModule
    GameOf <- MCGameOf
    SingleShot = {}
    REVEAL_DELAY = 1
    BLOCKHASH_WINDOW = 2
    EVM_HASH_DEPTH = 2
    BET_HISTORY_CAP = 1
    RiskPolicies <- MCWideRisk
    Payouts = {}
    MaxBets = 0
    ClusterModules = {mSugar}
    SPINS_PER_BONUS = 1
    FREE_SPINS_PER_BONUS = 1
    LOYALTY_MIN_STAKE = 1
    FREE_SPIN_REFERENCE_STAKE = 1
    CYCLE_MAX = 1
    POOL_SHARE = 2
    MaxMults = {200}
    SpinPays = {200}
    RewardMults = {3}
    MaxSpins = 2
    Stakes = {1}
    Deposits = {5}
    MaxSeeds = 3
    Budgets = {2}
    MaxBlock = 4
    MaxRefunds = 0
    MaxEscrow = 1
    MaxBalance = 6
SPECIFICATION FairSlotSpec
INVARIANTS
    FreeSpinsAddUp
    SlotRefundsMatchStakes
PROPERTIES
    PaidSpinsResolve
