CONSTANTS
    p1 = p1
    p2 = p2
    game = game
    mod = mod
    mod2 = mod2
    Players = {p1}
    Games = {game}
    Modules = {mod, mod2}
    GameModules = {mod}
    NoModule = NoModule
    GameOf <- MCGameOf
    SingleShot = {}
    REVEAL_DELAY = 1
    BLOCKHASH_WINDOW = 2
    EVM_HASH_DEPTH = 2
    BET_HISTORY_CAP = 1
    RiskPolicies <- MCWideRisk
    Payouts = {}
    MaxBets = 0
    CELLS = 3
    MineCounts = {1}
    MINES_MAX_MULT_X100 = 200
    HOUSE_EDGE_BPS = 120
    MINES_PICK_TIMEOUT = 1
    NoRoot = NoRoot
    Garbage = Garbage
    MaxGames = 2
    Stakes = {2}
    Deposits = {5}
    MaxSeeds = 2
    Budgets = {2}
    MaxBlock = 5
    MaxRefunds = 0
    MaxEscrow = 2
    MaxBalance = 7
SPECIFICATION MinesSpec
INVARIANTS
    RefundsWithinEscrow
