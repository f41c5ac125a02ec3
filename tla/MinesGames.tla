----------------------------- MODULE MinesGames -----------------------------
(***************************************************************************)
(* games/MinesModule.sol on top of the vault, with its coordinator         *)
(* (scripts/lib/mines-coordinator.js, driven by the reveal bot).           *)
(*                                                                         *)
(* A game's layout is derived from the seed, the client seed and the hash  *)
(* of the block after the bet.  The coordinator commits a Merkle root of   *)
(* it before the first pick and discloses one cell per pick; finalize      *)
(* derives the layout again and compares.  A root is modelled by the set   *)
(* of mines it commits to: a proof exists for a cell exactly when the root *)
(* is that of a layout, and says what that layout says.                    *)
(***************************************************************************)
EXTENDS GameGate, SequencesExt

CONSTANTS
    CELLS,                 \* 25
    MineCounts,            \* 1..24
    MINES_MAX_MULT_X100,   \* 10000
    HOUSE_EDGE_BPS,        \* 120
    MINES_PICK_TIMEOUT,    \* 40 blocks
    NoRoot, Garbage,       \* no root yet; a root of no layout at all
    MaxGames               \* bound: games per module

ASSUME MinesAssumption ==
    /\ CELLS \in Nat /\ MineCounts \subseteq 1..(CELLS - 1)
    /\ MINES_MAX_MULT_X100 \in Nat /\ MINES_MAX_MULT_X100 >= 100
    /\ HOUSE_EDGE_BPS \in 0..BPS
    /\ MINES_PICK_TIMEOUT \in Nat
    /\ MaxGames \in Nat

VARIABLE games   \* per module, _games

minesVars == <<vars, games>>

Cells == 1..CELLS
NoCell == 0

Layouts(mineCount) == {b \in SUBSET Cells : Cardinality(b) = mineCount}

-----------------------------------------------------------------------------
\* The odds of k safe picks in a row, inverted: the contract reduces the
\* fraction by its gcd after each factor, which changes nothing in its value.
FallingProduct(n, k) == FoldFunction(LAMBDA a, b : a * b, 1, [i \in 1..k |-> n - i + 1])

MultiplierX100(k, mines) ==
    LET fair == (FallingProduct(CELLS, k) * (BPS - HOUSE_EDGE_BPS) * 100)
                    \div (FallingProduct(CELLS - mines, k) * BPS)
    IN  IF k = 0 \/ fair < 100 THEN 100 ELSE Smaller(fair, MINES_MAX_MULT_X100)

\* The fraction has no value once more cells are open than are safe.
MultiplierDefined(k, mines) == k <= CELLS - mines

-----------------------------------------------------------------------------
MinesInit == Init /\ games = [m \in GameModules |-> <<>>]

\* Bound: a game is placed while it still has time to expire.
PlaceMinesBet(m, p, amount, mineCount) ==
    /\ RequireOpen(m)
    /\ Len(games[m]) < MaxGames /\ block <= LastPlacement
    /\ TakeStake(m, p, amount, (amount * MINES_MAX_MULT_X100) \div 100)
    /\ games' = [games EXCEPT ![m] = Append(@,
                   [player |-> p, amount |-> amount, status |-> Pending,
                    mineCount |-> mineCount, pendingCell |-> NoCell, busted |-> FALSE,
                    finalized |-> FALSE, opened |-> {}, commitBlock |-> block,
                    pickBlock |-> 0, seedIdx |-> nextHashIndex, root |-> NoRoot,
                    layout |-> {}])]

\* _refund
VoidGame(m, id) ==
    /\ games' = [games EXCEPT ![m][id].status = Refunded, ![m][id].pendingCell = NoCell]
    /\ GiveBack(m, games[m][id].player, games[m][id].amount)
    /\ UNCHANGED seedVars

\* commitRoot once the block hash is gone: any root will do.
VoidExpired(m, id) ==
    /\ games[m][id].status = Pending
    /\ games[m][id].root = NoRoot
    /\ IsExpired(games[m][id].commitBlock)
    /\ VoidGame(m, id)

\* commitRoot in the window.  By now the block hash, and so the layout that
\* the seed derives, is fixed.
CommitRoot(m, id, layout, root) ==
    /\ games[m][id].status = Pending
    /\ games[m][id].root = NoRoot
    /\ IsRevealable(games[m][id].commitBlock)
    /\ games' = [games EXCEPT ![m][id].root = root, ![m][id].layout = layout]
    /\ UNCHANGED vars

\* Bound: a pick is made while it still has time to be cancelled.
PickCell(m, id, cell) ==
    LET g == games[m][id]
    IN  /\ block < MaxBlock - MINES_PICK_TIMEOUT
        /\ g.status = Pending
        /\ g.root # NoRoot
        /\ ~g.busted
        /\ g.pendingCell = NoCell
        /\ cell \notin g.opened
        /\ games' = [games EXCEPT ![m][id].pendingCell = cell, ![m][id].pickBlock = block]
        /\ UNCHANGED vars

\* Only the coordinator has the proof.
ResolveCell(m, id) ==
    LET g == games[m][id]
    IN  /\ g.status = Pending
        /\ g.pendingCell # NoCell
        /\ g.root # Garbage
        /\ IF g.pendingCell \in g.root
           THEN games' = [games EXCEPT ![m][id].pendingCell = NoCell,
                                       ![m][id].busted = TRUE, ![m][id].status = Settled]
           ELSE /\ MultiplierDefined(Cardinality(g.opened) + 1, g.mineCount)
                /\ games' = [games EXCEPT ![m][id].pendingCell = NoCell,
                                          ![m][id].opened = @ \cup {g.pendingCell}]
        /\ UNCHANGED vars

\* Mutated form: a pause stops the refund too.
CancelUnlessPaused(m, id) ==
    /\ ~paused
    /\ games[m][id].status = Pending
    /\ games[m][id].pendingCell # NoCell
    /\ block > games[m][id].pickBlock + MINES_PICK_TIMEOUT
    /\ VoidGame(m, id)

CancelPick(m, id) ==
    /\ games[m][id].status = Pending
    /\ games[m][id].pendingCell # NoCell
    /\ block > games[m][id].pickBlock + MINES_PICK_TIMEOUT
    /\ VoidGame(m, id)

Cashout(m, id) ==
    LET g == games[m][id]
    IN  /\ g.status = Pending
        /\ g.root # NoRoot
        /\ ~g.busted
        /\ g.pendingCell = NoCell
        /\ g.opened # {}
        /\ games' = [games EXCEPT ![m][id].status = Settled]
        /\ ModuleCredit(m, g.player,
               (g.amount * MultiplierX100(Cardinality(g.opened), g.mineCount)) \div 100)

\* Mutated form: the seed can be published while the game is open.
FinalizeOpen(m, id) ==
    LET g == games[m][id]
    IN  /\ g.root # NoRoot
        /\ ~g.finalized
        /\ isModule[m]
        /\ games' = [games EXCEPT ![m][id].finalized = TRUE]
        /\ revealed' = revealed \cup {g.seedIdx}
        /\ UNCHANGED <<ledger, adminVars, block, betVars, ownerWithdrawal, histVars,
                       seedCount, nextHashIndex, reserved>>

\* Mutated form: a game can be finalized again.
FinalizeAgain(m, id) ==
    LET g == games[m][id]
    IN  /\ g.status # Pending
        /\ g.root # NoRoot
        /\ isModule[m]
        /\ games' = [games EXCEPT ![m][id].finalized = TRUE]
        /\ revealed' = revealed \cup {g.seedIdx}
        /\ IF g.root = g.layout
           THEN UNCHANGED <<ledger, adminVars, block, betVars, ownerWithdrawal, histVars>>
           ELSE GiveBack(m, g.player, g.amount)
        /\ UNCHANGED <<seedCount, nextHashIndex, reserved>>

\* finalize: open to anyone who has the seed.  A root other than the layout's
\* is a fraud, and the stake comes back on top of whatever was settled.
Finalize(m, id) ==
    LET g == games[m][id]
    IN  /\ g.status # Pending
        /\ g.root # NoRoot
        /\ ~g.finalized
        /\ isModule[m]
        /\ games' = [games EXCEPT ![m][id].finalized = TRUE]
        /\ revealed' = revealed \cup {g.seedIdx}
        /\ IF g.root = g.layout
           THEN UNCHANGED <<ledger, adminVars, block, betVars, ownerWithdrawal, histVars>>
           ELSE GiveBack(m, g.player, g.amount)
        /\ UNCHANGED <<seedCount, nextHashIndex, reserved>>

-----------------------------------------------------------------------------
GamesOf(m) == 1..Len(games[m])

\* Nothing is assumed of the root: the coordinator may commit any.
Roots == SUBSET Cells \cup {Garbage}

MinesStep ==
    \/ \E m \in GameModules, p \in Players, amount \in Stakes, mineCount \in MineCounts :
          PlaceMinesBet(m, p, amount, mineCount)
    \/ \E m \in GameModules : \E id \in GamesOf(m) :
          \/ VoidExpired(m, id)
          \/ \E layout \in Layouts(games[m][id].mineCount) : \E root \in Roots :
                CommitRoot(m, id, layout, root)
          \/ \E cell \in Cells : PickCell(m, id, cell)
          \/ ResolveCell(m, id)
          \/ CancelPick(m, id)
          \/ Cashout(m, id)
          \/ Finalize(m, id)

MinesNext == MinesStep \/ (VaultStep /\ UNCHANGED games)

MinesSpec == MinesInit /\ [][MinesNext]_minesVars

\* The player is there and the chain goes on.  Nothing is assumed of the
\* coordinator.
MinesFairness ==
    /\ WF_minesVars(Tick /\ UNCHANGED games)
    /\ \A m \in GameModules, id \in 1..MaxGames :
          WF_minesVars(id \in GamesOf(m) /\ CancelPick(m, id))

FairMinesSpec == MinesSpec /\ MinesFairness

-----------------------------------------------------------------------------
\* Invariants

\* What of a player's stake in a game was not handed back.
Kept(g, p) ==
    IF g.player # p THEN 0
    ELSE (IF g.status = Refunded THEN 0 ELSE g.amount)
           - (IF g.finalized /\ g.root # g.layout THEN g.amount ELSE 0)

\* Handed back, of all a player staked: the stakes of the games that were
\* voided, and once more the stakes of those whose committed root was exposed.
\* A game that was lost or cashed out hands back nothing, whichever of
\* resolveCell, cancelPick, cashout and finalize come first.  A stake may be handed
\* back twice (voided by cancelPick, then a root that does not match).
MinesRefundsMatchStakes ==
    \A m \in GameModules, p \in Players :
        escrowed[m][p] = SumFunction([id \in GamesOf(m) |-> Kept(games[m][id], p)])

\* README.md:353-356: every module refunds exactly what it escrowed.
RefundsWithinEscrow == \A m \in GameModules, p \in Players : escrowed[m][p] >= 0

\* While a game can still be played its seed, which is its whole board, is not
\* public; and once it is, the comparison with the root has been made.
BoardHiddenWhileOpen ==
    \A m \in GameModules : \A id \in GamesOf(m) :
        LET g == games[m][id]
        IN  /\ g.seedIdx \in revealed <=> g.finalized
            /\ g.finalized => g.status # Pending /\ g.root # NoRoot

-----------------------------------------------------------------------------
\* Liveness

Open(m, id) == id \in GamesOf(m) /\ games[m][id].status = Pending

\* A player who picked a cell is answered or gets the stake back, whatever the
\* coordinator does.  The exception is the owner's: while another module is
\* registered for the game the vault takes no refund and no credit from this one.
PicksResolve ==
    \A m \in GameModules, id \in 1..MaxGames :
        (Open(m, id) /\ games[m][id].pendingCell # NoCell)
            ~> \/ ~Open(m, id) \/ games[m][id].pendingCell = NoCell
               \/ ~isModule[m]
=============================================================================
