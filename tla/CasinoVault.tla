---------------------------- MODULE CasinoVault ----------------------------
(***************************************************************************)
(* contracts/v15/CasinoVault.sol: the single holder of the bankroll, the   *)
(* registry of game modules, the pool of committed seeds, the single-shot  *)
(* bets and the primitives game modules call.  A transaction is atomic and *)
(* the functions are non-reentrant, so one external call is one action; a  *)
(* revert is a disabled action.                                            *)
(*                                                                         *)
(* The game modules are the environment here: a registered module may      *)
(* reserve seeds, escrow stakes, ask for any credit and hand back any      *)
(* amount to anyone.  The one thing assumed of it is that the seeds it     *)
(* reveals are its own, which is so for every module of the repository.    *)
(***************************************************************************)
EXTENDS VaultLedger, Sequences, FiniteSets, FiniteSetsExt

CONSTANTS
    Modules,            \* addresses of deployed game modules
    NoModule,           \* address(0)
    GameOf,             \* IGameBase(module).gameId(), immutable
    SingleShot,         \* the games entered through placeBet
    REVEAL_DELAY,       \* 1 in CommitReveal.sol
    BLOCKHASH_WINDOW,   \* 256 in CommitReveal.sol
    EVM_HASH_DEPTH,     \* how far back the EVM's blockhash() reaches: 256
    BET_HISTORY_CAP,    \* 200 in CasinoVault.sol
    RiskPolicies,       \* the risk policies the owner switches between
    Stakes,             \* msg.value of a bet
    Payouts,            \* what a module quotes, resolves or asks to credit
    Deposits,           \* msg.value of depositBankroll and owner withdrawals
    Budgets,            \* budgets the owner assigns
    MaxBlock,           \* bound: the last block of a behaviour
    MaxBets,            \* bound: single-shot bets ever placed
    MaxSeeds,           \* bound: seeds ever provisioned
    MaxEscrow,          \* bound: all that is ever staked through modules
    MaxRefunds,         \* bound: all that a game's modules ever hand back
    MaxBalance          \* bound: the vault's balance

ASSUME ConstantsAssumption ==
    /\ IsFiniteSet(Games)
    /\ NoModule \notin Modules
    /\ GameOf \in [Modules -> Games]
    /\ SingleShot \subseteq Games
    /\ REVEAL_DELAY \in Nat
    /\ BLOCKHASH_WINDOW \in Nat
    /\ EVM_HASH_DEPTH = BLOCKHASH_WINDOW
    /\ BET_HISTORY_CAP \in Nat \ {0}
    /\ RiskPolicies # {} /\ RiskPolicies \subseteq Risk
    /\ Stakes \subseteq Nat
    /\ Payouts \subseteq Nat
    /\ Deposits \subseteq Nat
    /\ Budgets \subseteq Nat
    /\ MaxBlock \in Nat
    /\ MaxBets \in Nat
    /\ MaxSeeds \in Nat
    /\ MaxEscrow \in Nat
    /\ MaxRefunds \in Nat
    /\ MaxBalance \in Nat

VARIABLES
    ledger,          \* balance, pending withdrawals, per-game accounts
    risk,            \* maxBetBps, maxExposureBps, gameMaxBet
    gameModule,      \* gameModule: the module serving each game
    isModule,        \* isModule, i.e. moduleGameIdPlus1[m] # 0
    gameActive,      \* gameActive
    paused,          \* Pausable
    block,           \* block.number
    seedCount,       \* seedHashes.length
    nextHashIndex,   \* nextHashIndex
    revealed,        \* the indices whose revealedSeed is set
    reserved,        \* the seed indices each module obtained by reserveSeed
    bets,            \* _bets
    playerBets,      \* playerBets
    ownerWithdrawal, \* ownerWithdrawal.amount, 0 when none is scheduled
    \* accounting the contract does not keep:
    capital,         \* deposits minus owner withdrawals
    staked,          \* all that was ever staked through modules
    escrowed,        \* per module and player, staked there less what was handed back
    refunded,        \* per game, handed back through refundFromModule
    peak             \* per game, the largest budget the owner ever gave it

adminVars == <<risk, gameModule, isModule, gameActive, paused>>
seedVars  == <<seedCount, nextHashIndex, revealed, reserved>>
betVars   == <<bets, playerBets>>
histVars  == <<capital, staked, escrowed, refunded, peak>>
vars == <<ledger, adminVars, block, seedVars, betVars, ownerWithdrawal, histVars>>

-----------------------------------------------------------------------------
\* Types

Pending  == 0
Settled  == 1
Refunded == 2

Bet == [player : Players, amount : Nat, game : Games, status : {0, 1, 2},
        commitBlock : Nat, seedIdx : Nat, payout : Nat]

TypeOK ==
    /\ ledger \in Ledger
    /\ risk \in Risk
    /\ gameModule \in [Games -> Modules \cup {NoModule}]
    /\ isModule \in [Modules -> BOOLEAN]
    /\ gameActive \in [Games -> BOOLEAN]
    /\ paused \in BOOLEAN
    /\ block \in Nat
    /\ seedCount \in Nat
    /\ nextHashIndex \in Nat
    /\ revealed \in SUBSET Nat
    /\ reserved \in [Modules -> SUBSET Nat]
    /\ bets \in Seq(Bet)
    /\ playerBets \in [Players -> Seq(Nat)]
    /\ ownerWithdrawal \in Nat
    /\ capital \in Int
    /\ staked \in Nat
    /\ escrowed \in [Modules -> [Players -> Int]]
    /\ refunded \in [Games -> Nat]
    /\ peak \in [Games -> Nat]

-----------------------------------------------------------------------------
\* CommitReveal.sol

\* Mutated form: the reveal delay is left out of the expiry.
IsExpiredEarly(commitBlock) == block > commitBlock + BLOCKHASH_WINDOW

IsExpired(commitBlock) == block > commitBlock + REVEAL_DELAY + BLOCKHASH_WINDOW

IsRevealable(commitBlock) ==
    /\ block > commitBlock + REVEAL_DELAY
    /\ block <= commitBlock + REVEAL_DELAY + BLOCKHASH_WINDOW

\* The EVM knows the hashes of the most recent blocks before the current one;
\* blockhash() of any other block is zero.
HashAvailable(n) == n < block /\ block - n <= EVM_HASH_DEPTH

-----------------------------------------------------------------------------
Init ==
    /\ ledger = EmptyLedger
    /\ risk \in RiskPolicies
    /\ gameModule = [g \in Games |-> NoModule]
    /\ isModule = [m \in Modules |-> FALSE]
    /\ gameActive = [g \in Games |-> FALSE]
    /\ paused = FALSE
    /\ block = 0
    /\ seedCount = 0
    /\ nextHashIndex = 0
    /\ revealed = {}
    /\ reserved = [m \in Modules |-> {}]
    /\ bets = <<>>
    /\ playerBets = [p \in Players |-> <<>>]
    /\ ownerWithdrawal = 0
    /\ capital = 0
    /\ staked = 0
    /\ escrowed = [m \in Modules |-> [p \in Players |-> 0]]
    /\ refunded = [g \in Games |-> 0]
    /\ peak = [g \in Games |-> 0]

-----------------------------------------------------------------------------
\* Registry and administration (onlyOwner)

SetBudget(g, budget) ==
    /\ ledger' = [ledger EXCEPT !.budget[g] = budget]
    /\ peak' = [peak EXCEPT ![g] = IF budget > @ THEN budget ELSE @]
    /\ UNCHANGED <<capital, staked, escrowed, refunded>>

RegisterGame(m, budget) ==
    LET g == GameOf[m]
        prev == gameModule[g]
    IN  /\ gameModule' = [gameModule EXCEPT ![g] = m]
        /\ isModule' = [x \in Modules |->
                          IF x = m THEN TRUE
                          ELSE IF x = prev THEN FALSE ELSE isModule[x]]
        /\ gameActive' = [gameActive EXCEPT ![g] = TRUE]
        /\ SetBudget(g, budget)
        /\ UNCHANGED <<risk, paused, block, seedVars, betVars, ownerWithdrawal>>

SetGameActive(g, active) ==
    /\ gameModule[g] # NoModule
    /\ gameActive' = [gameActive EXCEPT ![g] = active]
    /\ UNCHANGED <<ledger, risk, gameModule, isModule, paused, block, seedVars,
                   betVars, ownerWithdrawal, histVars>>

SetGameBudget(g, budget) ==
    /\ gameModule[g] # NoModule
    /\ SetBudget(g, budget)
    /\ UNCHANGED <<adminVars, block, seedVars, betVars, ownerWithdrawal>>

\* setGameMaxBet, setMaxBetBps and setMaxExposureBps.
SetRiskPolicy(policy) ==
    /\ risk' = policy
    /\ UNCHANGED <<ledger, gameModule, isModule, gameActive, paused, block,
                   seedVars, betVars, ownerWithdrawal, histVars>>

\* pauseAll and unpauseAll: OpenZeppelin reverts when nothing would change.
SetPaused(on) ==
    /\ paused # on
    /\ paused' = on
    /\ UNCHANGED <<ledger, risk, gameModule, isModule, gameActive, block,
                   seedVars, betVars, ownerWithdrawal, histVars>>

ProvisionSeedHashes(count) ==
    /\ seedCount + count <= MaxSeeds
    /\ seedCount' = seedCount + count
    /\ UNCHANGED <<ledger, adminVars, block, nextHashIndex, revealed, reserved,
                   betVars, ownerWithdrawal, histVars>>

\* depositBankroll and receive.
DepositBankroll(amount) ==
    /\ ledger.balance + amount <= MaxBalance
    /\ ledger' = Receive(ledger, amount)
    /\ capital' = capital + amount
    /\ UNCHANGED <<adminVars, block, seedVars, betVars, ownerWithdrawal, staked,
                   escrowed, refunded, peak>>

-----------------------------------------------------------------------------
\* Single-shot bets

\* _recordPlayerBet: past the cap the list shifts down by one.
RecordPlayerBet(p, betId) ==
    playerBets' = [playerBets EXCEPT ![p] =
        IF Len(@) >= BET_HISTORY_CAP THEN Append(Tail(@), betId)
                                     ELSE Append(@, betId)]

\* Bound: the last block in which a bet still has time to expire.
LastPlacement == MaxBlock - REVEAL_DELAY - BLOCKHASH_WINDOW - 1

\* maxPayout is the module's quote; only the modules of single-shot games have
\* one.  Bet ids count from 1 here, from 0 there.
PlaceBet(p, g, amount, maxPayout) ==
    LET funded == Receive(ledger, amount)
    IN  /\ ~paused
        /\ g \in SingleShot
        /\ gameModule[g] # NoModule
        /\ gameActive[g]
        /\ StakeAllowed(funded, risk, g, amount, maxPayout)
        /\ maxPayout >= amount
        /\ nextHashIndex < seedCount
        /\ Len(bets) < MaxBets /\ block <= LastPlacement
        /\ funded.balance <= MaxBalance
        /\ ledger' = funded
        /\ nextHashIndex' = nextHashIndex + 1
        /\ bets' = Append(bets, [player |-> p, amount |-> amount, game |-> g,
                                 status |-> Pending, commitBlock |-> block,
                                 seedIdx |-> nextHashIndex, payout |-> 0])
        /\ RecordPlayerBet(p, Len(bets) + 1)
        /\ UNCHANGED <<adminVars, block, seedCount, revealed, reserved,
                       ownerWithdrawal, histVars>>

\* Mutated form: the seed is stored before the expiry is looked at.
RefundRevealing(i) ==
    /\ bets' = [bets EXCEPT ![i].status = Refunded]
    /\ ledger' = Owe(ledger, bets[i].player, bets[i].amount)
    /\ revealed' = revealed \cup {bets[i].seedIdx}
    /\ UNCHANGED <<adminVars, block, seedCount, nextHashIndex, reserved,
                   playerBets, ownerWithdrawal, histVars>>

\* _refund
RefundBet(i) ==
    /\ bets' = [bets EXCEPT ![i].status = Refunded]
    /\ ledger' = Owe(ledger, bets[i].player, bets[i].amount)
    /\ UNCHANGED <<adminVars, block, seedVars, playerBets, ownerWithdrawal,
                   histVars>>

\* revealAndSettle in the reveal window: anyone who holds the seed may call
\* it, and the module resolves the bet to some payout.
RevealAndSettle(i, payout) ==
    LET b == bets[i]
    IN  /\ b.status = Pending
        /\ IsRevealable(b.commitBlock)
        /\ HashAvailable(b.commitBlock + REVEAL_DELAY)
        /\ revealed' = revealed \cup {b.seedIdx}
        /\ ledger' = Settle(ledger, b.game, b.player, b.amount, payout)
        /\ bets' = [bets EXCEPT ![i].status = Settled,
                       ![i].payout = SettledPayout(ledger, b.game, b.amount, payout)]
        /\ UNCHANGED <<adminVars, block, seedCount, nextHashIndex, reserved,
                       playerBets, ownerWithdrawal, histVars>>

\* Mutated form: a pause stops refunds too.
RefundUnlessPaused(i) ==
    /\ ~paused
    /\ bets[i].status = Pending
    /\ IsExpired(bets[i].commitBlock)
    /\ RefundBet(i)

\* refundExpired, and revealAndSettle once the blockhash is gone.
RefundExpired(i) ==
    /\ bets[i].status = Pending
    /\ IsExpired(bets[i].commitBlock)
    /\ RefundBet(i)

-----------------------------------------------------------------------------
\* Module-entry primitives (onlyModule)

\* Mutated form: the index is handed out again.
ReserveWithoutStep(m) ==
    /\ isModule[m]
    /\ nextHashIndex < seedCount
    /\ reserved' = [reserved EXCEPT ![m] = @ \cup {nextHashIndex}]
    /\ UNCHANGED <<ledger, adminVars, block, seedCount, nextHashIndex, revealed,
                   betVars, ownerWithdrawal, histVars>>

ModuleReserveSeed(m) ==
    /\ isModule[m]
    /\ nextHashIndex < seedCount
    /\ nextHashIndex' = nextHashIndex + 1
    /\ reserved' = [reserved EXCEPT ![m] = @ \cup {nextHashIndex}]
    /\ UNCHANGED <<ledger, adminVars, block, seedCount, revealed, betVars,
                   ownerWithdrawal, histVars>>

\* The vault checks the seed against its hash and not who reserved it; Next
\* has each module pass an index of its own, as every game module does.
ModuleRevealSeed(m, idx) ==
    /\ isModule[m]
    /\ revealed' = revealed \cup {idx}
    /\ UNCHANGED <<ledger, adminVars, block, seedCount, nextHashIndex, reserved,
                   betVars, ownerWithdrawal, histVars>>

\* No check of paused or gameActive: GameGate.sol does that in the modules.
ModuleEscrowStake(m, p, amount, maxPayout) ==
    LET g == GameOf[m]
    IN  /\ isModule[m]
        /\ StakeAllowed(Receive(ledger, amount), risk, g, amount, maxPayout)
        /\ ledger.balance + amount <= MaxBalance
        /\ staked + amount <= MaxEscrow
        /\ ledger' = EscrowStake(ledger, g, amount)
        /\ escrowed' = [escrowed EXCEPT ![m][p] = @ + amount]
        /\ staked' = staked + amount
        /\ UNCHANGED <<adminVars, block, seedVars, betVars, ownerWithdrawal,
                       capital, refunded, peak>>

ModuleCredit(m, p, amount) ==
    /\ isModule[m]
    /\ ledger' = CreditFromModule(ledger, GameOf[m], p, amount)
    /\ UNCHANGED <<adminVars, block, seedVars, betVars, ownerWithdrawal, histVars>>

\* The vault takes the module's word: nothing ties the amount to what was staked.
ModuleRefund(m, p, amount) ==
    LET g == GameOf[m]
    IN  /\ isModule[m]
        /\ refunded[g] + amount <= MaxRefunds
        /\ ledger' = RefundFromModule(ledger, g, p, amount)
        /\ escrowed' = [escrowed EXCEPT ![m][p] = @ - amount]
        /\ refunded' = [refunded EXCEPT ![g] = @ + amount]
        /\ UNCHANGED <<adminVars, block, seedVars, betVars, ownerWithdrawal,
                       capital, staked, peak>>

-----------------------------------------------------------------------------
\* Withdrawals

PlayerClaim(p) ==
    /\ CanClaim(ledger, p)
    /\ ledger' = Claim(ledger, p)
    /\ UNCHANGED <<adminVars, block, seedVars, betVars, ownerWithdrawal, histVars>>

ScheduleOwnerWithdraw(amount) ==
    /\ amount > 0
    /\ amount <= FreeBankroll(ledger)
    /\ ownerWithdrawal' = amount
    /\ UNCHANGED <<ledger, adminVars, block, seedVars, betVars, histVars>>

\* OWNER_WITHDRAW_DELAY is 0, so the timelock check always passes.
ExecuteOwnerWithdraw ==
    /\ ownerWithdrawal > 0
    /\ ownerWithdrawal <= FreeBankroll(ledger)
    /\ ledger' = [ledger EXCEPT !.balance = @ - ownerWithdrawal]
    /\ capital' = capital - ownerWithdrawal
    /\ ownerWithdrawal' = 0
    /\ UNCHANGED <<adminVars, block, seedVars, betVars, staked, escrowed,
                   refunded, peak>>

CancelOwnerWithdraw ==
    /\ ownerWithdrawal' = 0
    /\ UNCHANGED <<ledger, adminVars, block, seedVars, betVars, histVars>>

\* The chain moves on.
Tick ==
    /\ block < MaxBlock
    /\ block' = block + 1
    /\ UNCHANGED <<ledger, adminVars, seedVars, betVars, ownerWithdrawal, histVars>>
-----------------------------------------------------------------------------
\* The modules of games entered at the module, not through placeBet.
EntryModules == {m \in Modules : GameOf[m] \notin SingleShot}

Administer ==
    \/ \E m \in Modules, budget \in Budgets : RegisterGame(m, budget)
    \/ \E g \in Games, active \in BOOLEAN : SetGameActive(g, active)
    \/ \E g \in Games, budget \in Budgets : SetGameBudget(g, budget)
    \/ \E policy \in RiskPolicies : SetRiskPolicy(policy)
    \/ \E on \in BOOLEAN : SetPaused(on)
    \/ \E count \in 1..MaxSeeds : ProvisionSeedHashes(count)
    \/ \E amount \in Deposits : DepositBankroll(amount)

PlayBet ==
    \/ \E p \in Players, g \in Games, amount \in Stakes, maxPayout \in Payouts :
          PlaceBet(p, g, amount, maxPayout)
    \/ \E i \in 1..Len(bets), payout \in Payouts \cup {0} :
          RevealAndSettle(i, payout)
    \/ \E i \in 1..Len(bets) : RefundExpired(i)

ModuleCall ==
    \/ \E m \in EntryModules : ModuleReserveSeed(m)
    \/ \E m \in EntryModules : \E idx \in reserved[m] : ModuleRevealSeed(m, idx)
    \/ \E m \in EntryModules, p \in Players, amount \in Stakes, maxPayout \in Payouts :
          ModuleEscrowStake(m, p, amount, maxPayout)
    \/ \E m \in EntryModules, p \in Players, amount \in Payouts :
          ModuleCredit(m, p, amount)
    \/ \E m \in EntryModules, p \in Players, amount \in Stakes :
          ModuleRefund(m, p, amount)

Withdraw ==
    \/ \E p \in Players : PlayerClaim(p)
    \/ \E amount \in Deposits : ScheduleOwnerWithdraw(amount)
    \/ ExecuteOwnerWithdraw
    \/ CancelOwnerWithdraw

Next == Administer \/ PlayBet \/ ModuleCall \/ Withdraw \/ Tick

Spec == Init /\ [][Next]_vars

\* Blocks keep coming, and refundExpired is open to anyone, the player with
\* money in the bet included.  Nothing is assumed of the reveal bot.
Fairness == /\ WF_vars(Tick)
            /\ \A i \in 1..MaxBets : WF_vars(i \in 1..Len(bets) /\ RefundExpired(i))

FairSpec == Spec /\ Fairness

-----------------------------------------------------------------------------
\* Invariants

IsPending(i) == i \in 1..Len(bets) /\ bets[i].status = Pending

OpenStakes ==
    SumFunctionOnSet([i \in 1..Len(bets) |-> bets[i].amount],
                     {i \in 1..Len(bets) : IsPending(i)})

\* What the vault holds beyond its debts is the owner's capital, minus what all
\* games have cost, plus the stakes of the bets still open.  Placement,
\* settlement, both kinds of refund, escrow, credit, claims and the owner's
\* deposits and withdrawals together create and lose no money, and gameNet
\* counts every bet once.
Conservation ==
    ledger.balance - ledger.totalPending
        = capital - SumFunctionOnSet(ledger.net, Games) + OpenStakes

\* A seed decides one game: no two bets, and no bet and no module, and no two
\* modules ever share an index, and every index handed out was provisioned.
SeedsUsedOnce ==
    /\ nextHashIndex <= seedCount
    /\ \A i \in 1..Len(bets) : bets[i].seedIdx < nextHashIndex
    /\ \A i, j \in 1..Len(bets) : bets[i].seedIdx = bets[j].seedIdx => i = j
    /\ \A m \in Modules : \A idx \in reserved[m] :
          /\ idx < nextHashIndex
          /\ \A i \in 1..Len(bets) : bets[i].seedIdx # idx
          /\ \A n \in Modules \ {m} : idx \notin reserved[n]

\* The seed of a bet is public exactly when the bet is settled.  A bet that is
\* still open cannot be read ahead, and one that lost cannot wait to expire
\* and be refunded after its seed is known.
SeedPublicIffSettled ==
    \A i \in 1..Len(bets) :
        bets[i].seedIdx \in revealed <=> bets[i].status = Settled

\* Once the block a bet waits for is mined, the bet can either be settled with
\* a hash the EVM still has, or be refunded, and never both.
NoBetInLimbo ==
    \A i \in 1..Len(bets) :
        LET c == bets[i].commitBlock
        IN  (IsPending(i) /\ block > c + REVEAL_DELAY) =>
               (HashAvailable(c + REVEAL_DELAY) /\ IsRevealable(c)) # IsExpired(c)

\* The blast radius of a game: it never costs the house more than the largest
\* budget the owner gave it plus the stakes its modules handed back, whatever
\* its modules quote, resolve or ask to be credited.
BlastRadius ==
    \A g \in Games : ledger.net[g] <= peak[g] + refunded[g]

\* CasinoVault.sol:310-311: credits are clamped "so claim() can never fail".
ClaimNeverFails == \A p \in Players : ledger.pending[p] > 0 => CanClaim(ledger, p)

-----------------------------------------------------------------------------
\* Action properties

RefundStep ==
    \/ refunded' # refunded
    \/ \E i \in 1..Len(bets) : bets[i].status = Pending /\ bets'[i].status = Refunded

\* From a vault that can pay all it owes, only a refund leads to one that
\* cannot: a settlement, a credit, an owner withdrawal or a claim never does.
OnlyRefundsUnback ==
    [][Backed(ledger) /\ ~Backed(ledger)' => RefundStep]_vars

-----------------------------------------------------------------------------
\* Liveness

\* Every bet is settled or refunded, with no help from the house: whether the
\* game is paused or deactivated or its module replaced (_refund asks no module),
\* and if no seed is ever revealed.
BetsResolve == \A i \in 1..MaxBets : IsPending(i) ~> ~IsPending(i)
=============================================================================
