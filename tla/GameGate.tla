------------------------------ MODULE GameGate ------------------------------
(***************************************************************************)
(* What the game modules entered at the module share: the gate of          *)
(* GameGate.sol, the vault primitives as they combine them inside one      *)
(* transaction, and the vault's own steps around them.                     *)
(***************************************************************************)
EXTENDS CasinoVault

CONSTANT GameModules   \* the modules whose games are followed; any other is one
                       \* the owner may register in the place of one of them

ASSUME GateAssumption == GameModules \subseteq EntryModules

\* _requireOpen asks by the module's address, so a replaced module is closed.
RequireOpen(m) ==
    /\ ~paused
    /\ isModule[m]
    /\ gameActive[GameOf[m]]

\* escrowStake and reserveSeed in one transaction.
TakeStake(m, p, amount, maxPayout) ==
    LET g == GameOf[m]
    IN  /\ isModule[m]
        /\ nextHashIndex < seedCount
        /\ StakeAllowed(Receive(ledger, amount), risk, g, amount, maxPayout)
        /\ ledger.balance + amount <= MaxBalance
        /\ staked + amount <= MaxEscrow
        /\ ledger' = EscrowStake(ledger, g, amount)
        /\ escrowed' = [escrowed EXCEPT ![m][p] = @ + amount]
        /\ staked' = staked + amount
        /\ nextHashIndex' = nextHashIndex + 1
        /\ reserved' = [reserved EXCEPT ![m] = @ \cup {nextHashIndex}]
        /\ UNCHANGED <<adminVars, block, seedCount, revealed, betVars, ownerWithdrawal,
                       capital, refunded, peak>>

\* refundFromModule: the vault takes the module's word for the amount.
GiveBack(m, p, amount) ==
    LET g == GameOf[m]
    IN  /\ isModule[m]
        /\ ledger' = RefundFromModule(ledger, g, p, amount)
        /\ escrowed' = [escrowed EXCEPT ![m][p] = @ - amount]
        /\ refunded' = [refunded EXCEPT ![g] = @ + amount]
        /\ UNCHANGED <<adminVars, block, betVars, ownerWithdrawal, capital, staked, peak>>

\* The rest of the vault goes on around a module.
VaultStep == Administer \/ PlayBet \/ Withdraw \/ Tick
=============================================================================
