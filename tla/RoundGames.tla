----------------------------- MODULE RoundGames -----------------------------
(***************************************************************************)
(* games/CrashModule.sol and games/RouletteModule.sol on top of the vault. *)
(* Players share a round: someone opens it, which binds the next seed and  *)
(* the current block; bets come in until the window closes; then anyone    *)
(* who holds the seed settles it for all of them, or, once the blockhash   *)
(* is gone, anyone refunds it.  The two contracts have the same life cycle *)
(* and differ in what a bet is and what it pays.                           *)
(***************************************************************************)
EXTENDS GameGate, SequencesExt

CONSTANTS
    WheelChoices,            \* which entry modules may be the RouletteModules
    BLOCKS_PER_SECOND,       \* 10: what block.timestamp means in blocks
    ROUND_TIMEOUT,           \* 5 minutes
    CRASH_MIN_AUTOCASHOUT,   \* 101
    CRASH_MAX_AUTOCASHOUT,   \* 10000
    MAX_BETS_PER_PLAYER,     \* 5, roulette
    BetWindows,              \* the windows the owner sets, up to MAX_BET_WINDOW
    AutoCashouts,            \* multipliers (x100) players name with a bet, 0 for none
    ManualCashouts,          \* and those they ask for during the flight
    CrashPoints,             \* crash points (x100) a seed can give
    Results,                 \* wheel results a seed can give, 37 for "00"
    BetSlips,                \* what players hand to placeBets
    MaxRounds                \* bound: rounds per module

BetKinds == {"STRAIGHT", "RED", "BLACK", "EVEN", "ODD", "LOW", "HIGH",
             "DOZEN_1", "DOZEN_2", "DOZEN_3"}

\* BetInput, as the calls with other kinds or numbers revert
WheelBet == [kind : BetKinds, number : 0..37, amount : Nat]

ASSUME RoundAssumption ==
    /\ WheelChoices \subseteq SUBSET Modules
    /\ BLOCKS_PER_SECOND \in Nat \ {0}
    /\ ROUND_TIMEOUT \in Nat
    /\ CRASH_MIN_AUTOCASHOUT \in Nat /\ CRASH_MIN_AUTOCASHOUT > 100
    /\ CRASH_MAX_AUTOCASHOUT \in Nat
    /\ MAX_BETS_PER_PLAYER \in Nat
    /\ BetWindows \subseteq Nat \ {0} /\ BetWindows # {}
    /\ AutoCashouts \subseteq Nat
    /\ ManualCashouts \subseteq Nat
    /\ CrashPoints \subseteq Nat
    /\ Results \subseteq 0..37
    /\ BetSlips \subseteq Seq(WheelBet)
    /\ MaxRounds \in Nat

VARIABLES
    wheels,         \* the RouletteModules; the others are CrashModules
    rounds,         \* per module, _rounds with the bets of each
    hasOpenRound,   \* per module, _hasOpenRound
    betWindow       \* per module, betWindow

roundVars == <<wheels, rounds, hasOpenRound, betWindow>>
allVars == <<vars, roundVars>>

\* block.timestamp, in seconds
Now == block \div BLOCKS_PER_SECOND

Current(m) == rounds[m][Len(rounds[m])]

-----------------------------------------------------------------------------
\* The wheel

RED == {1, 3, 5, 7, 9, 12, 14, 16, 18, 19, 21, 23, 25, 27, 30, 32, 34, 36}

Multiplier(kind) ==
    CASE kind = "STRAIGHT" -> 36
      [] kind \in {"DOZEN_1", "DOZEN_2", "DOZEN_3"} -> 3
      [] OTHER -> 2

\* The numbers a bet covers; 0 and 37 are in none of the outside bets.
Covered(bet) ==
    CASE bet.kind = "STRAIGHT" -> {bet.number}
      [] bet.kind = "RED"      -> RED
      [] bet.kind = "BLACK"    -> (1..36) \ RED
      [] bet.kind = "EVEN"     -> {n \in 1..36 : n % 2 = 0}
      [] bet.kind = "ODD"      -> {n \in 1..36 : n % 2 = 1}
      [] bet.kind = "LOW"      -> 1..18
      [] bet.kind = "HIGH"     -> 19..36
      [] bet.kind = "DOZEN_1"  -> 1..12
      [] bet.kind = "DOZEN_2"  -> 13..24
      [] bet.kind = "DOZEN_3"  -> 25..36

Total(bets_, f(_)) ==
    SumFunction([i \in 1..Len(bets_) |-> f(bets_[i])])

WheelPayout(slip, result) ==
    Total(slip, LAMBDA b : IF result \in Covered(b) THEN b.amount * Multiplier(b.kind)
                                                    ELSE 0)

-----------------------------------------------------------------------------
\* The curve: automatic and manual cash-out are two exits from one rising
\* curve, and the lower one is taken.

\* Mutated form: the cash-out that comes later on the curve is paid.
LargerTarget(auto, manual) == IF auto > manual THEN auto ELSE manual

CashoutTarget(auto, manual) ==
    IF auto > 0 /\ manual > 0 THEN Smaller(auto, manual)
    ELSE IF auto > 0 THEN auto ELSE manual

CrashPayout(entry, crashPoint) ==
    LET target == CashoutTarget(entry.auto, entry.manual)
    IN  IF target > 0 /\ target <= crashPoint THEN (entry.stake * target) \div 100 ELSE 0

-----------------------------------------------------------------------------
RoundInit ==
    /\ Init
    /\ wheels \in WheelChoices
    /\ rounds = [m \in GameModules |-> <<>>]
    /\ hasOpenRound = [m \in GameModules |-> FALSE]
    /\ betWindow \in [GameModules -> BetWindows]

SetBetWindow(m, seconds) ==
    /\ betWindow' = [betWindow EXCEPT ![m] = seconds]
    /\ UNCHANGED <<vars, wheels, rounds, hasOpenRound>>

NewRound(m) ==
    [betWindowEnd |-> Now + betWindow[m], commitBlock |-> block, seedIdx |-> nextHashIndex,
     settled |-> FALSE, drawn |-> FALSE, entries |-> <<>>]

\* Mutated form: a second round may be opened beside the first.
MayOpenAlways(m) == RequireOpen(m)

MayOpen(m) == RequireOpen(m) /\ ~hasOpenRound[m]

\* Bound: a round is opened while it still has time to expire.
StartRound(m) ==
    /\ MayOpen(m)
    /\ Len(rounds[m]) < MaxRounds /\ block <= LastPlacement
    /\ ModuleReserveSeed(m)
    /\ rounds' = [rounds EXCEPT ![m] = Append(@, NewRound(m))]
    /\ hasOpenRound' = [hasOpenRound EXCEPT ![m] = TRUE]
    /\ UNCHANGED <<wheels, betWindow>>

\* What placeBet and placeBets check before they look at the bet.
TakingBets(m) ==
    /\ RequireOpen(m)
    /\ hasOpenRound[m]
    /\ Now < Current(m).betWindowEnd

StakeOf(entries, p) ==
    Total(entries, LAMBDA e : IF e.player = p THEN e.stake ELSE 0)

EntriesOf(r, p) == {i \in 1..Len(r.entries) : r.entries[i].player = p}

\* CrashModule.placeBet: one bet per player and round.  The exposure is the
\* automatic target, or the largest one when there is none.
CrashExposure(amount, auto) ==
    (amount * IF auto = 0 THEN CRASH_MAX_AUTOCASHOUT ELSE auto) \div 100

PlaceCrashBet(m, p, amount, auto) ==
    LET exposure == CrashExposure(amount, auto)
    IN  /\ TakingBets(m)
        /\ auto # 0 => auto \in CRASH_MIN_AUTOCASHOUT..CRASH_MAX_AUTOCASHOUT
        /\ EntriesOf(Current(m), p) = {}
        /\ exposure >= amount
        /\ ModuleEscrowStake(m, p, amount, exposure)
        /\ rounds' = [rounds EXCEPT ![m][Len(rounds[m])].entries = Append(@,
                        [player |-> p, stake |-> amount, auto |-> auto, manual |-> 0,
                         exposure |-> exposure])]
        /\ UNCHANGED <<wheels, hasOpenRound, betWindow>>

\* After the window closes, until the round is settled.
RequestCashout(m, p, multiplier) ==
    LET last == Len(rounds[m])
    IN  /\ hasOpenRound[m]
        /\ Now >= Current(m).betWindowEnd
        /\ ~Current(m).settled
        /\ multiplier \in CRASH_MIN_AUTOCASHOUT..CRASH_MAX_AUTOCASHOUT
        /\ \E i \in EntriesOf(Current(m), p) :
              /\ Current(m).entries[i].manual = 0
              /\ rounds' = [rounds EXCEPT ![m][last].entries[i].manual = multiplier]
        /\ UNCHANGED <<vars, wheels, hasOpenRound, betWindow>>

\* Mutated form: a second slip overwrites what the first one staked.
OverwrittenBy(entry, slip, amount, exposure) ==
    [entry EXCEPT !.slip = @ \o slip, !.stake = amount, !.exposure = exposure]

ExtendedBy(entry, slip, amount, exposure) ==
    [entry EXCEPT !.slip = @ \o slip, !.stake = @ + amount, !.exposure = @ + exposure]

\* RouletteModule.placeBets: a slip of several bets, added to the player's
\* earlier ones in this round.
PlaceRouletteBets(m, p, slip) ==
    LET last     == Len(rounds[m])
        amount   == Total(slip, LAMBDA b : b.amount)
        exposure == Total(slip, LAMBDA b : b.amount * Multiplier(b.kind))
        mine     == EntriesOf(Current(m), p)
    IN  /\ TakingBets(m)
        /\ slip # <<>>
        /\ \A i \in 1..Len(slip) : slip[i].amount > 0
        /\ \A i \in mine :
              Len(Current(m).entries[i].slip) + Len(slip) <= MAX_BETS_PER_PLAYER
        /\ Len(slip) <= MAX_BETS_PER_PLAYER
        /\ ModuleEscrowStake(m, p, amount, exposure)
        /\ IF mine = {}
           THEN rounds' = [rounds EXCEPT ![m][last].entries = Append(@,
                              [player |-> p, stake |-> amount, slip |-> slip,
                               exposure |-> exposure])]
           ELSE \E i \in mine :
                   rounds' = [rounds EXCEPT ![m][last].entries[i] =
                                 ExtendedBy(@, slip, amount, exposure)]
        /\ UNCHANGED <<wheels, hasOpenRound, betWindow>>

-----------------------------------------------------------------------------
Payout(m, entry, outcome) ==
    IF m \in wheels THEN WheelPayout(entry.slip, outcome)
                             ELSE CrashPayout(entry, outcome)

Outcomes(m) == IF m \in wheels THEN Results ELSE CrashPoints

MarkSettled(r) == [r EXCEPT !.settled = TRUE, !.drawn = TRUE]

\* settleRound in the reveal window: the players are credited one after the
\* other, each within what the ones before have left.
SettleRound(m, id, outcome) ==
    LET r == rounds[m][id]
        Credit(L, entry) ==
            LET payout == Payout(m, entry, outcome)
            IN  IF payout > 0 THEN CreditFromModule(L, GameOf[m], entry.player, payout)
                              ELSE L
    IN  /\ ~r.settled
        /\ Now >= r.betWindowEnd
        /\ IsRevealable(r.commitBlock)
        /\ HashAvailable(r.commitBlock + REVEAL_DELAY)
        /\ isModule[m]
        /\ revealed' = revealed \cup {r.seedIdx}
        /\ ledger' = FoldLeft(Credit, ledger, r.entries)
        /\ rounds' = [rounds EXCEPT ![m][id] = MarkSettled(@)]
        /\ hasOpenRound' = [hasOpenRound EXCEPT ![m] = FALSE]
        /\ UNCHANGED <<adminVars, block, seedCount, nextHashIndex, reserved, betVars,
                       ownerWithdrawal, histVars, wheels, betWindow>>

\* Mutated form: the seed is revealed before the expiry is looked at.
ReturnStakesRevealing(m, id) ==
    LET r == rounds[m][id]
        ReturnOne(L, entry) == RefundFromModule(L, GameOf[m], entry.player, entry.stake)
    IN  /\ ledger' = FoldLeft(ReturnOne, ledger, r.entries)
        /\ rounds' = [rounds EXCEPT ![m][id].settled = TRUE]
        /\ hasOpenRound' = [hasOpenRound EXCEPT ![m] = FALSE]
        /\ revealed' = revealed \cup {r.seedIdx}
        /\ UNCHANGED <<adminVars, block, seedCount, nextHashIndex, reserved, betVars,
                       ownerWithdrawal, histVars, wheels, betWindow>>

\* _refundRound: the round is closed and every player gets the stake back.
ReturnStakes(m, id) ==
    LET r == rounds[m][id]
        ReturnOne(L, entry) == RefundFromModule(L, GameOf[m], entry.player, entry.stake)
    IN  /\ ledger' = FoldLeft(ReturnOne, ledger, r.entries)
        /\ rounds' = [rounds EXCEPT ![m][id].settled = TRUE]
        /\ hasOpenRound' = [hasOpenRound EXCEPT ![m] = FALSE]
        /\ escrowed' = [escrowed EXCEPT ![m] =
                          [p \in Players |-> @[p] - StakeOf(r.entries, p)]]
        /\ refunded' = [refunded EXCEPT ![GameOf[m]] =
                          @ + Total(r.entries, LAMBDA e : e.stake)]
        /\ UNCHANGED <<adminVars, block, seedVars, betVars, ownerWithdrawal, capital,
                       staked, peak, wheels, betWindow>>

RoundIsDead(r) == Now >= r.betWindowEnd + ROUND_TIMEOUT \/ IsExpired(r.commitBlock)

\* Mutated form: a refund is subject to the gate on new bets.
RefundIfOpen(m, id) ==
    /\ RequireOpen(m)
    /\ ~rounds[m][id].settled
    /\ RoundIsDead(rounds[m][id])
    /\ ReturnStakes(m, id)

\* refundRound, and settleRound once the blockhash is gone.  A round nobody bet
\* in makes no call to the vault.
RefundRound(m, id) ==
    /\ ~rounds[m][id].settled
    /\ RoundIsDead(rounds[m][id])
    /\ isModule[m] \/ rounds[m][id].entries = <<>>
    /\ ReturnStakes(m, id)

-----------------------------------------------------------------------------
RoundStep ==
    \/ \E m \in GameModules, seconds \in BetWindows : SetBetWindow(m, seconds)
    \/ \E m \in GameModules : StartRound(m)
    \/ \E m \in GameModules \ wheels, p \in Players, amount \in Stakes,
          auto \in AutoCashouts : PlaceCrashBet(m, p, amount, auto)
    \/ \E m \in GameModules \ wheels, p \in Players, multiplier \in ManualCashouts :
          RequestCashout(m, p, multiplier)
    \/ \E m \in GameModules \cap wheels, p \in Players, slip \in BetSlips :
          PlaceRouletteBets(m, p, slip)
    \/ \E m \in GameModules : \E id \in 1..Len(rounds[m]), outcome \in Outcomes(m) :
          SettleRound(m, id, outcome)
    \/ \E m \in GameModules : \E id \in 1..Len(rounds[m]) : RefundRound(m, id)

RoundNext == RoundStep \/ (VaultStep /\ UNCHANGED roundVars)

RoundSpec == RoundInit /\ [][RoundNext]_allVars

\* refundRound is open to anyone, the players with money in the round included.
RoundFairness ==
    /\ WF_allVars(Tick /\ UNCHANGED roundVars)
    /\ \A m \in GameModules, id \in 1..MaxRounds :
          WF_allVars(id \in 1..Len(rounds[m]) /\ RefundRound(m, id))

FairRoundSpec == RoundSpec /\ RoundFairness

-----------------------------------------------------------------------------
\* Invariants

RoundsOf(m) == 1..Len(rounds[m])

\* A round that ended without a draw was refunded.
Returned(r) == r.settled /\ ~r.drawn

\* Of all that a player staked through a module, what was not handed back is
\* what stands in a round that is open or was played.  Every refund is of the
\* player's whole stake in one round, and of nothing else; the vault, which takes
\* the module's word for the amount, would not notice.
RoundRefundsMatchStakes ==
    \A m \in GameModules, p \in Players :
        escrowed[m][p] =
            SumFunction([id \in RoundsOf(m) |->
                            IF Returned(rounds[m][id]) THEN 0
                            ELSE StakeOf(rounds[m][id].entries, p)])

\* Only the newest round can be open, and the flag that gates startRound,
\* placeBet and requestCashout says so; settling or refunding by round id never
\* closes the flag over another round.
OnlyNewestOpen ==
    \A m \in GameModules :
        /\ \A id \in RoundsOf(m) : ~rounds[m][id].settled => id = Len(rounds[m])
        /\ hasOpenRound[m] <=> rounds[m] # <<>> /\ ~Current(m).settled

\* The seed of a round is public exactly when the round was settled with it: not
\* while bets or cash-outs come in, and never when the round is refunded.
RoundSeedPublicIffDrawn ==
    \A m \in GameModules : \A id \in RoundsOf(m) :
        LET r == rounds[m][id]
        IN  /\ r.seedIdx \in revealed <=> r.drawn
            /\ r.drawn => r.settled

\* What a bet can win is never more than the exposure it was admitted with,
\* whatever cash-out the player asks for afterwards.
PayoutWithinExposure ==
    \A m \in GameModules : \A id \in RoundsOf(m) :
        \A i \in 1..Len(rounds[m][id].entries), outcome \in Outcomes(m) :
            Payout(m, rounds[m][id].entries[i], outcome)
                <= rounds[m][id].entries[i].exposure

Unsettled(m, id) == id \in RoundsOf(m) /\ ~rounds[m][id].settled

\* README.md:92-95: refunding is deliberately not gated, so that a module the
\* owner has de-registered can still give back the money at risk in it.
StakesNeverStranded ==
    \A m \in GameModules : \A id \in RoundsOf(m) :
        (Unsettled(m, id) /\ RoundIsDead(rounds[m][id]) /\ rounds[m][id].entries # <<>>)
            => ENABLED RefundRound(m, id)

\* README.md:109-111: at the moment a bet is placed the result is unknown to
\* everyone, the house included, because it depends on the hash of a block that
\* does not exist yet.
OutcomeUnknownAtBet ==
    [][\A m \in GameModules : \A id \in RoundsOf(m) :
          LET r == rounds[m][id]
          IN  Total(rounds'[m][id].entries, LAMBDA e : e.stake)
                  > Total(r.entries, LAMBDA e : e.stake)
                => ~HashAvailable(r.commitBlock + REVEAL_DELAY)]_allVars

\* Every round ends and frees its stakes, whatever the house does about seeds,
\* pauses and activation, with one exception: the vault takes a refund from a
\* registered module only (refundFromModule is onlyModule), so once the owner has
\* registered another module for the game a round with stakes waits until its own
\* is back.  A round nobody bet in ends even then.
RoundsResolve ==
    \A m \in GameModules, id \in 1..MaxRounds :
        Unsettled(m, id)
            ~> /\ id \in RoundsOf(m)
               /\ rounds[m][id].settled \/ (~isModule[m] /\ rounds[m][id].entries # <<>>)
=============================================================================
