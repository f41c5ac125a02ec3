---------------------------- MODULE VaultLedger ----------------------------
(***************************************************************************)
(* The money of CasinoVault.sol as a record, and the primitives that move  *)
(* it as functions from a ledger to a ledger.  The contract's public       *)
(* functions and the game modules (which call several primitives inside    *)
(* one transaction) are built from these.                                  *)
(*                                                                         *)
(* A definition marked "mutated form" is a plausible bug in the definition *)
(* after it.  Nothing uses it: it shows that the properties would notice.  *)
(*                                                                         *)
(* Amounts are natural numbers of wei.  256-bit overflow is not modelled:  *)
(* the chain's whole supply is far below 2^96, the narrowest money field.  *)
(***************************************************************************)
EXTENDS Integers

CONSTANTS
    Players,    \* accounts that stake and claim
    Games       \* registered game ids

BPS == 10000    \* the denominator of every basis-point cap

\* balance       address(this).balance
\* pending       pendingWithdrawals, what each player may claim
\* totalPending  totalPendingWithdrawals
\* net           gameNet: what the game has cost the house so far, signed
\* budget        gameBudget: the most it may cost
Ledger == [balance      : Nat,
           pending      : [Players -> Nat],
           totalPending : Nat,
           net          : [Games -> Int],
           budget       : [Games -> Nat]]

EmptyLedger == [balance      |-> 0,
                pending      |-> [p \in Players |-> 0],
                totalPending |-> 0,
                net          |-> [g \in Games |-> 0],
                budget       |-> [g \in Games |-> 0]]

\* The owner's risk policy.
Risk == [maxBetBps      : 0..BPS,
         maxExposureBps : 1..BPS,
         gameMaxBet     : [Games -> Nat]]

Smaller(a, b) == IF a < b THEN a ELSE b
Floor0(a) == IF a < 0 THEN 0 ELSE a

\* What backs new bets: the balance minus what winners are already owed.
FreeBankroll(L) == Floor0(L.balance - L.totalPending)

\* msg.value has arrived before the callee's first line runs.
Receive(L, value) == [L EXCEPT !.balance = @ + value]

\* A cap that rounds down to zero is skipped by the code, not enforced.
WithinBps(amount, free, bps) ==
    LET cap == (free * bps) \div BPS IN cap > 0 => amount <= cap

\* The stake and exposure checks shared by placeBet and escrowStake; L already
\* holds the stake.
StakeAllowed(L, risk, g, amount, maxPayout) ==
    /\ amount > 0
    /\ risk.gameMaxBet[g] > 0 => amount <= risk.gameMaxBet[g]
    /\ WithinBps(amount, FreeBankroll(L), risk.maxBetBps)
    /\ WithinBps(maxPayout, FreeBankroll(L), risk.maxExposureBps)

\* Every payout and refund is a pull payment: it only grows the claimable sum.
Owe(L, p, amount) ==
    LET credited == [L EXCEPT !.pending[p] = @ + amount]
    IN  [credited EXCEPT !.totalPending = @ + amount]

Book(L, g, delta) == [L EXCEPT !.net[g] = @ + delta]

\* Mutated form: the solvency clamp is missing.
SettledPayoutUnbacked(L, g, stake, payout) ==
    Smaller(payout, Floor0(L.budget[g] - L.net[g] + stake))

\* Clamps 1 and 2 of _settle: budget first, solvency second.
SettledPayout(L, g, stake, payout) ==
    Smaller(Smaller(payout, Floor0(L.budget[g] - L.net[g] + stake)),
            FreeBankroll(L))

\* Mutated form: the stake is not netted off.
SettleGross(L, g, p, stake, payout) ==
    LET paid == SettledPayout(L, g, stake, payout)
    IN  Owe(Book(L, g, paid), p, paid)

Settle(L, g, p, stake, payout) ==
    LET paid == SettledPayout(L, g, stake, payout)
    IN  Owe(Book(L, g, paid - stake), p, paid)

\* The stake of a module-entry bet leaves the game's account at once.
EscrowStake(L, g, amount) == Book(Receive(L, amount), g, -amount)

\* Mutated form: the budget does not bound the credit.
CreditedOverBudget(L, g, amount) == Smaller(amount, FreeBankroll(L))

\* A credit is clamped by the game's headroom, then by solvency.
CreditedAmount(L, g, amount) ==
    Smaller(Smaller(amount, Floor0(L.budget[g] - L.net[g])), FreeBankroll(L))

CreditFromModule(L, g, p, amount) ==
    LET paid == CreditedAmount(L, g, amount)
    IN  Owe(Book(L, g, paid), p, paid)

\* A refund is clamped by nothing.
RefundFromModule(L, g, p, amount) == Owe(Book(L, g, amount), p, amount)

\* Mutated form: the transfer's failure is ignored.
CanClaimUnchecked(L, p) == L.pending[p] > 0

\* claim: the checked subtraction reverts below zero, and the transfer reverts
\* when the vault holds less than it owes this player.
CanClaim(L, p) ==
    /\ L.pending[p] > 0
    /\ L.pending[p] <= L.totalPending
    /\ L.pending[p] <= L.balance
Claim(L, p) ==
    LET zeroed  == [L EXCEPT !.pending[p] = 0]
        reduced == [zeroed EXCEPT !.totalPending = @ - L.pending[p]]
    IN  [reduced EXCEPT !.balance = @ - L.pending[p]]

\* No player is owed money the vault does not hold.
Backed(L) == L.totalPending <= L.balance
=============================================================================
