----------------------------- MODULE SlotGames ------------------------------
(***************************************************************************)
(* games/SlotBase.sol, its two slots (Vault7Module, ClusterModule) and the *)
(* SlotLoyalty contract they share, on top of the vault.                   *)
(*                                                                         *)
(* A spin is paid with a stake or with a free spin; every SPINS_PER_BONUS  *)
(* paid spins, on either slot, earn free ones.  The cluster slot also      *)
(* fills a charge meter, which now and then rolls a cash reward the player *)
(* claims apart from the spin.  What a seed makes of a spin (the pay-table *)
(* result, whether the meter crosses its threshold, which reward it rolls) *)
(* is chosen at settlement.                                                *)
(***************************************************************************)
EXTENDS GameGate

CONSTANTS
    ClusterModules,             \* the slots with a charge meter
    SPINS_PER_BONUS,            \* 150
    FREE_SPINS_PER_BONUS,       \* 5
    LOYALTY_MIN_STAKE,          \* 0.001 ether
    FREE_SPIN_REFERENCE_STAKE,  \* 0.001 ether
    CYCLE_MAX,                  \* 255: chargeMeterCycle is a uint8
    POOL_SHARE,                 \* 100: a reward is at most this part of the pool
    MaxMults,                   \* values (x100) the owner gives maxMultX100
    SpinPays,                   \* pay-table results (x100), boost included
    RewardMults,                \* 3, 5, 8, 12, 18, 45, 120
    MaxSpins                    \* bound: spins per slot

ASSUME SlotAssumption ==
    /\ IsFiniteSet(Modules) /\ ClusterModules \subseteq Modules
    /\ SPINS_PER_BONUS \in Nat \ {0} /\ FREE_SPINS_PER_BONUS \in Nat
    /\ LOYALTY_MIN_STAKE \in Nat /\ FREE_SPIN_REFERENCE_STAKE \in Nat
    /\ CYCLE_MAX \in Nat /\ POOL_SHARE \in Nat \ {0}
    /\ MaxMults # {} /\ \A x \in MaxMults : x \in Nat /\ x >= 100
    /\ SpinPays \subseteq Nat /\ RewardMults \subseteq Nat
    /\ MaxSpins \in Nat

VARIABLES
    spins,         \* per slot, _spins
    maxMult,       \* per slot, maxMultX100
    playerState,   \* SlotLoyalty.playerState
    authorized,    \* SlotLoyalty.authorized
    chargeReward,  \* per cluster slot and player, chargeMeterReward
    chargeCycle    \* per cluster slot and player, chargeMeterCycle

loyaltyVars == <<playerState, authorized>>
chargeVars  == <<chargeReward, chargeCycle>>
slotVars == <<vars, spins, maxMult, loyaltyVars, chargeVars>>

MaxPayout(m, stake) == (stake * maxMult[m]) \div 100

-----------------------------------------------------------------------------
SlotInit ==
    /\ Init
    /\ spins = [m \in GameModules |-> <<>>]
    /\ maxMult \in [GameModules -> MaxMults]
    /\ playerState = [p \in Players |-> [total |-> 0, earned |-> 0, used |-> 0]]
    /\ authorized = [m \in GameModules |-> FALSE]
    /\ chargeReward = [m \in ClusterModules |-> [p \in Players |-> 0]]
    /\ chargeCycle = [m \in ClusterModules |-> [p \in Players |-> 0]]

SetMaxMult(m, x) ==
    /\ maxMult' = [maxMult EXCEPT ![m] = x]
    /\ UNCHANGED <<vars, spins, loyaltyVars, chargeVars>>

SetModule(m, allowed) ==
    /\ authorized' = [authorized EXCEPT ![m] = allowed]
    /\ UNCHANGED <<vars, spins, maxMult, playerState, chargeVars>>

-----------------------------------------------------------------------------
\* SlotLoyalty

Available(p) == Floor0(playerState[p].earned - playerState[p].used)

RecordSpin(s, stake) ==
    IF stake < LOYALTY_MIN_STAKE THEN s
    ELSE [s EXCEPT !.total = @ + 1,
                   !.earned = @ + IF (s.total + 1) % SPINS_PER_BONUS = 0
                                  THEN FREE_SPINS_PER_BONUS ELSE 0]

\* Mutated form: every refund hands a free spin back.
RestoredAlways(s, free) == [s EXCEPT !.used = Floor0(@ - 1)]

\* restoreFreeSpin, when the refunded spin was a free one.
Restored(s, free) == IF free THEN [s EXCEPT !.used = Floor0(@ - 1)] ELSE s

-----------------------------------------------------------------------------
NewSpin(p, stake, free) ==
    [player |-> p, amount |-> stake, status |-> Pending, freeSpin |-> free,
     commitBlock |-> block, seedIdx |-> nextHashIndex, payout |-> 0]

\* Bound: a spin is placed while it still has time to expire.
MayPlace(m) == RequireOpen(m) /\ Len(spins[m]) < MaxSpins /\ block <= LastPlacement

\* placeSpin with a stake, and buyBonus, which differs in nothing the contract
\* looks at afterwards.
PlaceSpin(m, p, amount) ==
    /\ MayPlace(m)
    /\ authorized[m]
    /\ TakeStake(m, p, amount, MaxPayout(m, amount))
    /\ playerState' = [playerState EXCEPT ![p] = RecordSpin(@, amount)]
    /\ spins' = [spins EXCEPT ![m] = Append(@, NewSpin(p, amount, FALSE))]
    /\ UNCHANGED <<maxMult, authorized, chargeVars>>

\* placeSpin with a free spin.  Nothing is escrowed, no exposure is checked,
\* and the stake is notional.
PlaceFreeSpin(m, p) ==
    /\ MayPlace(m)
    /\ authorized[m]
    /\ Available(p) > 0
    /\ ModuleReserveSeed(m)
    /\ playerState' = [playerState EXCEPT ![p].used = @ + 1]
    /\ spins' = [spins EXCEPT ![m] =
                    Append(@, NewSpin(p, FREE_SPIN_REFERENCE_STAKE, TRUE))]
    /\ UNCHANGED <<maxMult, authorized, chargeVars>>

-----------------------------------------------------------------------------
\* The reward basis is the stake; a share of the pool as it is before the spin
\* is paid bounds it.
ChargeReward(stake, mult) ==
    Smaller(stake * mult, FreeBankroll(ledger) \div POOL_SHARE)

\* _bumpChargeMeter: crossing the threshold adds a reward and steps the cycle,
\* a uint8 with a checked increment.
MeterMayCross(m, p) == chargeCycle[m][p] < CYCLE_MAX

BumpChargeMeter(m, p, stake, crosses, mult) ==
    IF m \in ClusterModules /\ crosses
    THEN /\ MeterMayCross(m, p)
         /\ chargeReward' = [chargeReward EXCEPT ![m][p] = @ + ChargeReward(stake, mult)]
         /\ chargeCycle' = [chargeCycle EXCEPT ![m][p] = @ + 1]
    ELSE UNCHANGED chargeVars

MarkPaid(spin, credited) == [spin EXCEPT !.status = Settled, !.payout = credited]

\* settleSpin in the reveal window.
SettleSpin(m, id, pay, crosses, mult) ==
    LET s == spins[m][id]
        payout == Smaller((s.amount * pay) \div 100, MaxPayout(m, s.amount))
        credited == CreditedAmount(ledger, GameOf[m], payout)
    IN  /\ s.status = Pending
        /\ IsRevealable(s.commitBlock)
        /\ HashAvailable(s.commitBlock + REVEAL_DELAY)
        /\ isModule[m]
        /\ revealed' = revealed \cup {s.seedIdx}
        /\ BumpChargeMeter(m, s.player, s.amount, crosses, mult)
        /\ ledger' = IF payout > 0
                     THEN CreditFromModule(ledger, GameOf[m], s.player, payout) ELSE ledger
        /\ spins' = [spins EXCEPT ![m][id] = MarkPaid(@, credited)]
        /\ UNCHANGED <<adminVars, block, seedCount, nextHashIndex, reserved, betVars,
                       ownerWithdrawal, histVars, maxMult, loyaltyVars>>

\* Mutated form: the notional stake of a free spin is paid back in cash.
CashBack(spin) == TRUE

\* Whether the refund of a spin is money.
RefundedInCash(spin) == ~spin.freeSpin

\* Mutated form: a refund waits for the game to be open.
RefundDueIfOpen(m, spin) ==
    spin.status = Pending /\ IsExpired(spin.commitBlock) /\ RequireOpen(m)

RefundDue(m, spin) == spin.status = Pending /\ IsExpired(spin.commitBlock)

\* refundExpired, and settleSpin once the block hash is gone: the stake, or the
\* free spin, comes back.
RefundSpin(m, id) ==
    LET s == spins[m][id]
    IN  /\ RefundDue(m, s)
        /\ s.freeSpin => authorized[m]
        /\ spins' = [spins EXCEPT ![m][id].status = Refunded]
        /\ playerState' = [playerState EXCEPT ![s.player] = Restored(@, s.freeSpin)]
        /\ IF RefundedInCash(s)
           THEN GiveBack(m, s.player, s.amount)
           ELSE UNCHANGED <<ledger, adminVars, block, betVars, ownerWithdrawal, histVars>>
        /\ UNCHANGED <<seedVars, maxMult, authorized, chargeVars>>

\* claimChargeReward: what the vault's clamps cut off is not kept for later.
ClaimChargeReward(m, p) ==
    /\ chargeReward[m][p] > 0
    /\ chargeReward' = [chargeReward EXCEPT ![m][p] = 0]
    /\ ModuleCredit(m, p, chargeReward[m][p])
    /\ UNCHANGED <<spins, maxMult, loyaltyVars, chargeCycle>>

-----------------------------------------------------------------------------
SpinsOf(m) == 1..Len(spins[m])

SlotStep ==
    \/ \E m \in GameModules, x \in MaxMults : SetMaxMult(m, x)
    \/ \E m \in GameModules, allowed \in BOOLEAN : SetModule(m, allowed)
    \/ \E m \in GameModules, p \in Players, amount \in Stakes : PlaceSpin(m, p, amount)
    \/ \E m \in GameModules, p \in Players : PlaceFreeSpin(m, p)
    \/ \E m \in GameModules : \E id \in SpinsOf(m) :
          \/ \E pay \in SpinPays, crosses \in BOOLEAN, mult \in RewardMults :
                SettleSpin(m, id, pay, crosses, mult)
          \/ RefundSpin(m, id)
    \/ \E m \in GameModules \cap ClusterModules, p \in Players : ClaimChargeReward(m, p)

SlotNext ==
    SlotStep \/ (VaultStep /\ UNCHANGED <<spins, maxMult, loyaltyVars, chargeVars>>)

SlotSpec == SlotInit /\ [][SlotNext]_slotVars

\* refundExpired is open to anyone, the player included.
SlotFairness ==
    /\ WF_slotVars(Tick /\ UNCHANGED <<spins, maxMult, loyaltyVars, chargeVars>>)
    /\ \A m \in GameModules, id \in 1..MaxSpins :
          WF_slotVars(id \in SpinsOf(m) /\ RefundSpin(m, id))

FairSlotSpec == SlotSpec /\ SlotFairness

-----------------------------------------------------------------------------
\* Invariants

StandsFree(s, p) == s.player = p /\ s.freeSpin /\ s.status # Refunded
FreeStanding(m, p) == {id \in SpinsOf(m) : StandsFree(spins[m][id], p)}

\* The free spins a player used are the ones that stand in either slot as open
\* or settled, and never more than were earned: the counter two contracts share
\* neither loses a free spin in a refund nor hands one out twice.
FreeSpinsAddUp ==
    \A p \in Players :
        /\ playerState[p].used
             = SumFunction([m \in GameModules |-> Cardinality(FreeStanding(m, p))])
        /\ playerState[p].used <= playerState[p].earned

\* What a slot keeps of a player's money for a spin.
CashKept(s, p) ==
    IF s.player = p /\ ~s.freeSpin /\ s.status # Refunded THEN s.amount ELSE 0

\* Refunds in cash are of stakes paid in cash, each once.
SlotRefundsMatchStakes ==
    \A m \in GameModules, p \in Players :
        escrowed[m][p] = SumFunction([id \in SpinsOf(m) |-> CashKept(spins[m][id], p)])

\* ClusterModule.sol:10-12: crossing the threshold rolls a reward.  A spin in
\* its reveal window can be settled whatever its seed says of the meter.
SpinsSettleable ==
    \A m \in GameModules \cap ClusterModules : \A id \in SpinsOf(m) :
        spins[m][id].status = Pending => MeterMayCross(m, spins[m][id].player)

-----------------------------------------------------------------------------
\* Liveness

\* Every paid spin is settled or refunded, whatever the house does: while the
\* vault is paused, the game closed, the slot cut off from the loyalty counter or
\* its seeds withheld.  The exception: once another module is registered in the
\* slot's place (scripts/swap-v15-modules.js does that) the vault refuses the
\* refund, and the spin waits until its own module is back.
PaidSpinsResolve ==
    \A m \in GameModules, id \in 1..MaxSpins :
        (id \in SpinsOf(m) /\ spins[m][id].status = Pending /\ ~spins[m][id].freeSpin)
            ~> \/ id \in SpinsOf(m) /\ spins[m][id].status # Pending
               \/ ~isModule[m]
=============================================================================
