CONSTANTS
    p1 = p1
    p2 = p2
    game = game
    mod = mod
    mod2 = mod2
    Players = {p1, p2}
    Games = {game}
    Modules = {mod, mod2}
    GameModules = {mod}
    NoModule = NoModule
    GameOf <- MCGameOf
    SingleShot = {}
    REVEAL_DELAY = 1
    BLOCKHASH_WINDOW = 1
    EVM_HASH_DEPTH = 1
    BET_HISTORY_CAP = 1
    RiskPolicies <- MCWideRisk
    Payouts = {}
    MaxBets = 0
    BLOCKS_PER_SECOND = 1
    ROUND_TIMEOUT = 1
    CRASH_MIN_AUTOCASHOUT = 101
    CRASH_MAX_AUTOCASHOUT = 200
    MAX_BETS_PER_PLAYER = 2
    AutoCashouts = {0, 150}
    ManualCashouts = {200}
    CrashPoints = {200}
    Results = {0, 25}
    BetSlips <- MCSlips
    Deposits = {3}
    MaxSeeds = 2
    MaxRounds = 2
    Budgets = {2}
    BetWindows = {1, 3}
    WheelChoices <- MCWheels
    Stakes = {1}
    MaxBlock = 5
    MaxRefunds = 0
    MaxEscrow = 2
    MaxBalance = 5
SPECIFICATION FairRoundSpec
INVARIANTS
    RoundRefundsMatchStakes
    OnlyNewestOpen
    RoundSeedPublicIffDrawn
    PayoutWithinExposure
PROPERTIES
    RoundsResolve
