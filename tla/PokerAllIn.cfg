CONSTANTS
    p1 = p1
    p2 = p2
    p3 = p3
    Players = {p1, p2, p3}
    NoPlayer = NoPlayer
    MaxSeats = 3
    RIVER = 2
    Cards = {1}
    KICK_AFTER = 1
    Configs <- MCTables
    BuyIns = {5, 10}
    TopUps = {5}
    Deposits = {5, 10}
    Raises = {8}
    Ranks = {1, 2}
    MaxHands = 1
    MaxRescues = 1
    MaxHeld <- MCMaxHeld
SPECIFICATION Spec
SYMMETRY Symmetry
INVARIANTS
    NumInHandCounts
