# ShinyLuck: a verification development

ShinyLuck is an on-chain casino and poker room. Money and rules live in Solidity
contracts on a chain with 0.1 s blocks; a few Node processes (the reveal bot, the
poker dealer, the tournament driver) hold the secrets and push the games forward.
This directory models the contracts, and the processes where their ordering
matters, as TLA+ modules, checks them with TLC on small instances and proves the
most important facts with TLAPS for every size.

## 1. The system

### Components, their state and what they promise

| Component | State | Operations | What must hold |
|---|---|---|---|
| `contracts/v15/CasinoVault.sol` | bankroll, claimable sums, per-game budget and net, module registry, seed pool, single-shot bets | bets, settlement, refund; the primitives modules call; claim; owner withdrawals | no money created or lost; debts covered; a game's loss bounded by its budget; a seed decides one game and is public only with the outcome; every bet resolves |
| `contracts/CommitReveal.sol` | none | reveal window, expiry, seed check, randomness | after the delay exactly one of "settle" and "refund" is open, and the EVM still has the blockhash when it is needed |
| `games/CrashModule.sol`, `RouletteModule.sol` | rounds, entries, one open round | start, bet, cash-out request, settle, refund | each entry is paid or refunded once; a stake never outlives its round |
| `games/MinesModule.sol` | games with a committed board | place, commit root, pick, resolve, cancel, cash out, finalize | a game pays once; a cheating or absent coordinator costs the player nothing |
| `games/SlotBase.sol`, `SlotLoyalty.sol`, cluster/vault7/plinko/dice modules | spins, free spins, loyalty | spin, settle, refund | a spin is settled or refunded, free spins are conserved |
| `poker/PokerRoom.sol` | tables, seats, escrow, the hand state machine | deposit, sit, start, act, timeout, showdown, cancel, accuse, penalize | chips are conserved, pots go to eligible hands, a hand always ends |
| `poker/PokerTournament.sol`, `scripts/lib/poker-tournament-driver.js` | entries, prize pool, levels, tables; the tables held for a level | register, start, level up, bust, forfeit, move, cancel; one call per tick | prizes and refunds are covered, chips add up, levels rise, nobody absent holds up the event |
| `poker/ZkTableDealer.sol`, `scripts/lib/poker-zk-dealer.js`, `frontend/poker/zk-agent.js` | deals, shares, revealed cards; sessions, deadlines, one file; keys | collect keys, shuffles and shares, prepare, start, reveal, accuse, rescue, recover | cards open as a trusted dealer would turn them, nobody who answers is blamed, hands end and follow each other |
| `scripts/reveal-bot-v15.js` | cursors, pending ids, a nonce lane per game | discover, decide, send, wait, resync | nothing owed is forgotten, a bet is decided once |
| front end, subgraph, deploy scripts, legacy v1 contracts | | | outside the money path |

### How they interact

Players call `CasinoVault.placeBet` for single-shot games (dice, plinko, slots in
their quick form) and the game module itself for Crash, Roulette, Mines and the
cluster slots. A module never holds money: it calls `reserveSeed`, `escrowStake`,
`revealSeed`, `creditFromModule` and `refundFromModule` on the vault, which trusts
`moduleGameIdPlus1[msg.sender]`, i.e. the registry. The owner replaces modules and
changes budgets at any time. The house publishes the hashes of its seeds in
advance; a bet binds the next hash and the block it was placed in (a shared round, the block it
was opened in), and its outcome is decided by the seed and the hash of the following
block. The EVM forgets a
blockhash after 256 blocks (25.6 s here), so a late reveal becomes a refund. Every
payout is a credit that the player claims later.

Transactions are atomic, and every vault function that calls out is
`nonReentrant`, so one external call is one step; what interleaves is the order of
transactions, the block they land in, and the off-chain processes that read the
chain and act on what they read.

The reveal bot polls: it reads the head, lists new ids, decides about each item from what
it reads, and broadcasts; by the time a transaction is mined, players, other callers and
blocks have moved on. It keeps everything but its keys in memory.

In the poker room the chips of a table are escrowed in `PokerRoom`. The dealer
operator starts hands and calls them off, the players and anyone at all (through
`timeoutAct`) move them on, and the dealer contract says when the cards are there.
Cards are encrypted under everyone's key: the coordinator collects keys, shuffles and
decryption shares from the clients, off chain, and publishes a card once it holds all of
its shares; a client decides for itself, from the street it reads on chain, what it gives
out. Whoever owes a share may be accused on chain and has a window to answer there.
While a hand is played the deal of the next one is made ready. `PokerTournament`
controls tables of its own: it seats players with chips that no one deposited, raises the
blinds and removes the busted; the driver decides when, and must catch all tables between
hands to raise a level.

### What is hard here

The `hazards` of `PROJECT.json` list it line by line. In short: refund and settlement
of one bet race in the same block window; several modules spend one game's budget and
one seed pool; two slot contracts write one loyalty record; a player's call (a pick, a
manual cash-out, a late share) races a timeout that anyone may call; the owner changes
limits, modules and flags between a bet and its end; a broadcast is refused, or accepted
with its reply lost, or mined with its receipt lost; the bots restart with nothing in
memory; a deal made ahead of time meets a changed table; what the driver read of a table
is stale when its call is mined; and nothing may depend on the house staying alive.

## 2. Modules

| Module | Models | Composes |
|---|---|---|
| `VaultLedger` | the money of `CasinoVault.sol` as a record, and the primitives that move it as functions from ledger to ledger | |
| `CasinoVault` | all of `CasinoVault.sol`, and the block arithmetic of `CommitReveal.sol` | `VaultLedger` |
| `SumTheorems` | lemmas: the sum of a function over a finite set | |
| `CasinoVaultProofs` | lemmas and theorems about the two above | `SumTheorems` |
| `GameGate` | `GameGate.sol` and the vault calls that every module-entry game makes | `CasinoVault` |
| `RoundGames` | `CrashModule.sol` and `RouletteModule.sol`: a shared round, its bets, settlement and refund | `GameGate` |
| `MinesGames` | `MinesModule.sol` and what its coordinator commits and discloses | `GameGate` |
| `SlotGames` | `SlotBase.sol`, `SlotLoyalty.sol`, the charge meter of `ClusterModule.sol` and the cap of `Vault7Module.sol` | `GameGate` |
| `EntryGamesProofs` | theorems about rounds, mines and slots | the three above, `CasinoVaultProofs` |
| `BetBook` | abstract: what the casino promises about a bet, whoever settles it | |
| `RevealBot` | `reveal-bot-v15.js` with the contracts, players, mempools and wallets it meets | implements `BetBook` |
| `RevealBotProofs` | theorems about the bot, and the refinement | `RevealBot` |
| `PokerEngine` | the hand engine of `PokerRoom.sol` as functions from table to table | |
| `PokerRoom` | the escrow, the seats, turns, timeouts, showdown and accusations of one table | `PokerEngine` |
| `PokerRoomProofs` | theorems about engine and room | `PokerRoom`, `SumTheorems` |
| `TrustedDealer` | abstract: a dealer everyone trusts, who turns cards as the game asks | |
| `ZkHand` | the live hand of `poker-zk-dealer.js`, the release and rescue rules of `zk-agent.js`, the accusation rules of `ZkTableDealer.sol` | implements `TrustedDealer` |
| `ZkDeals` | deals between hands and ahead of them: keys, shuffles, proofs, shares, transactions, recovery | |
| `ZkHandProofs`, `ZkDealsProofs` | theorems, and the refinement of `TrustedDealer` | `ZkHand`, `ZkDeals` |
| `PokerTournament` | `PokerTournament.sol` and tables that deal hand after hand | |
| `TournamentDriver` | `poker-tournament-driver.js` | `PokerTournament` |
| `TournamentProofs` | theorems about event and driver | `TournamentDriver`, `SumTheorems` |
| `MC...` | small instances | |

In the contracts' modules one external function is one action, and a revert is a disabled
action: the chain makes each transaction atomic. In the modules of the Node processes an
action ends at an `await` whose answer matters: to read and decide, to broadcast, to learn
of the receipt are steps of their own wherever another actor may come in between.
Variables and operators carry the source's names. A definition called a mutated form is a
plausible bug in the definition that follows it; nothing uses it, and `PROJECT.json`
names the property that notices it.

### CasinoVault

`ledger` groups the five money variables; `risk` groups `maxBetBps`, `maxExposureBps` and
`gameMaxBet`; `isModule` stands for `moduleGameIdPlus1[m] # 0` (a module's game id is
immutable, `GameOf`). A seed is its index in the pool: `revealed` holds the indices whose
seed is public, `reserved` which module obtained which index. A bet's client seed,
nonce and parameters are left out: `quote` and `resolve` of a module are choices from
`Payouts`, so nothing is assumed of the single-shot games. `capital`, `staked`, `escrowed`,
`refunded` and `peak` are history: they record what the contract does not, and guard
nothing but a bound.

| Action | Function |
|---|---|
| `RegisterGame`, `SetGameActive`, `SetGameBudget`, `SetRiskPolicy`, `SetPaused` | registry and risk administration |
| `ProvisionSeedHashes`, `DepositBankroll` | seed pool, bankroll |
| `PlaceBet` (with `RecordPlayerBet`) | `placeBet` with `_recordPlayerBet` |
| `RevealAndSettle`, `RefundExpired` (with `RefundBet`) | `revealAndSettle`, `_settle`, `refundExpired`, `_refund` |
| `ModuleReserveSeed` ... `ModuleRefund` | the five `onlyModule` primitives |
| `PlayerClaim`, `ScheduleOwnerWithdraw`, `ExecuteOwnerWithdraw`, `CancelOwnerWithdraw` | withdrawals |
| `Tick` | a new block |

Where the vault is checked alone, modules are its environment. `onlyModule` is all that
holds them: they may ask for any credit and hand back any amount to anyone
(`refundFromModule` takes the module's word), so what a module has of a player's stakes
(`escrowed`) may go below zero. One thing is assumed of them, that they reveal only seeds
they reserved; each module of the repository passes the index of its own record.

### RoundGames, MinesGames, SlotGames

Each keeps the module's records (`rounds`, `games`, `spins`) per module and steps
together with the vault: placing a bet is `RequireOpen`, `TakeStake` and the module's own
assignments in one action. `GameModules` are the modules whose games are followed; any
other module of the same game is one the owner may register in the place of one of them.
The vault then refuses the replaced module's refunds and credits (`isModule[m]` in
`GiveBack`, `ModuleCredit`, `SettleRound`), while a refund of a single-shot bet asks no
module. What a seed decides (a crash point, a wheel number, a mine
layout, a slot payout) is a choice made at the step that discloses the seed. The wheel's
payout table is modelled in full, and a crash payout as the code computes it.

- Rounds: `StartRound`, `PlaceCrashBet`, `RequestCashout`, `PlaceRouletteBets`,
  `SettleRound` (which refunds an expired round itself), `RefundRound`, `SetBetWindow`. The
  variable `wheels` says which modules are roulette; one run covers both.
- Mines: `PlaceMinesBet`, `CommitRoot` (of any layout, or of none: the coordinator is not
  trusted), `PickCell`, `ResolveCell`, `CancelPick`, `Cashout`, `Finalize`. A Merkle root is
  the layout it commits to.
- Slots: `PlaceSpin`, `PlaceFreeSpin`, `SettleSpin` with `BumpChargeMeter`, `RefundSpin` with
  its two shapes, `ClaimChargeReward`, `SetMaxMult`, and `SetModule` of the loyalty record,
  which authorises and cuts off slots.

### RevealBot and BetBook

`items` is what the contracts know of each bet, spin, mines game or round, cut down to
what decides which of the bot's calls reverts (`Reverts`) and what an accepted call does
(`Outcomes`, among them the refund that a late settlement turns into). `kind` and
`limit` are the deployment: the kinds of the games and `SETTLE_CONCURRENCY`. A tick reads
the head once (`tickHead`), scans each game (`due`), and runs its jobs, as many at once as
`dispatchPool` allows for bets and spins and one by one for mines and rounds; a job reads
its item, decides, takes a nonce (`StartJob`), then broadcasts (`SendOk`, `SendFails`,
`SendReplyLost`) and waits (`Receipt`). A wallet's transactions are mined in the order of
nonces (`MineTx`), and one may leave it `dry`. `Restart` forgets all but the chain and the
mempools. The lanes have a wallet each, as with `CASHIER_MASTER_KEY`.

`BetBook` is the casino's promise without bot, window or mempool: taken once, decided
once, refunded only when the blockhash is gone or a coordinator stalls, settled only
before. The refinement maps `status` to the items' status, `expired` to the items that no
settlement of the next block can serve, `stalled` to those with a pick to answer.

### PokerEngine and PokerRoom

A table is a record of stacks, the `Hand` and the `SeatHand` of each seat. Every internal
function that changes it is an operator of `PokerEngine`; a public function composes
several in one action, as the contract does: `act` is an action's effect, then
`ProgressAfterAction`, which may complete the street, run out the board, pay a fold win or
stop at the showdown. `PokerRoom` has the seats, the bankrolls, the timeout strikes, the
accusation and the room's ether (`held`, which for a tournament's table counts the chips
it issued). `cfg.controlled` says which kind of table it is; both are in one run.

The card layer is the environment: which share may be accused, when the showdown is
ready and how hands rank are choices. Time is two facts: the acting seat's deadline has
passed (`ClockRunsOut`), the rescue window has (`WindowElapses`). Pausing is left out,
because it only disables steps that no property here relies on; session keys act as
their player.

### ZkHand and TrustedDealer

One hand, from its start. `known` is the ghost of the module: whose shares of which card
have left their clients, to anyone. `sess` is the coordinator's session (what it holds,
what it believes is on chain, the accusation it remembers), `file` its copy on disk;
`chBoard`, `chHoles`, `ready` and `acc` are the contracts'. A card of the board stands for
those of its street. Betting is the room's and goes on without waiting for the board.
Clients release by `MayRelease` on the street they read, or rescue by the same rule, or
never answer. A coordinator that is not `curious` follows the code and may lose a receipt
(`Receipt`) or restart; a curious one also asks for any card and accuses out of turn, and
then only the clients' and the contract's rules protect the cards.

`TrustedDealer` opens a board card when its street has come and a player's cards at the
showdown, of those who have not folded, and pays when one is left or all that decides is
open. `DealtAsIfTrusted` maps its `opened` to the cards of which every share is `known`.
The three rules that must agree are `mayRelease` in the client, `accusationAllowed` in the
contract and the coordinator's requests.

### ZkDeals

Two sessions, `main` and `next`, move through keys, shuffle, holeshares and prepare; a
deal may be forged by a shuffler and is then flagged in the background. `prep` and `bound`
are the contract's prepared and live deal; `pool` holds the coordinator's transactions,
`await` the one it waits for. A receipt may be lost, the process restarted, seats may leave
and return. Phases, the promotion of `next` (`TakeNext`), the retry of keys and the strike
follow `tickZkTable` and `_predealTick`; what happens inside the hand is `ZkHand`.

### PokerTournament and TournamentDriver

The contract's money is exact (pool, fees, host cut, prizes, balance). A table is its
seats; a start has two steps, the coordinator's decision (`BeginStart`) and its mining
(`StartMined`), because the driver may act in between; a hand ends with its chips
distributed in any way. Players walk away and return; the coordinator sits an absent one
out when a deal waits for her (`Strike`). The driver's tick reads and decides in one step,
`CallMined` or `CallFails` is what becomes of its call; `Restart` loses the call and the
held tables.

## 3. Runs

| Run | Question | Bounds |
|---|---|---|
| `vault` | Is money conserved, every bet settleable or refundable, a game's loss bounded, and does only a refund leave a debt uncovered? | 2 players, a single-shot game and two modules of another that spend one budget of 0 or 1, which the owner raises and lowers; a refund whether or not anything was staked; a block window of 1, so bets are early, in the window and expired |
| `vault_seeds` | Can one game see or share another's seed? Does every bet resolve with no help from the house? | 1 player, 2 bets and a module on 3 seeds, a second module for the bets' game |
| `rounds` | Is each stake of a shared round returned or played exactly once, under every order of bets, cash-outs, settlement and expiry? Does every round end? | 2 players, 2 rounds, crash or roulette, a second module to replace the first; a block is a second, the hash lives one block and the timeout is one second, so that with a window of 1 the timeout races settlement and with one of 3 the window outlives the hash; slips of one and two bets |
| `mines_games` | Is the board hidden, money returned only for voids and frauds and a pick answered, whatever the coordinator commits? | 3 cells, 1 mine, 2 games, 1 player, a second module to replace the first |
| `slot_games` | Are free spins conserved across two slots that share one record, and is every paid spin decided? | 2 slots and one to replace the first, a free spin per paid one, 3 spins |
| `reveal_bot` | Does the bot forget nothing and do what it owes, and do bot, contracts and players keep the book? | 1 game of each kind in turn, 2 items, another game's bets in the vault's list, a window of 1, looking back 1 id, 1 fault |
| `poker_tables` | Are chips conserved, the turn owed, side pots right, betting finite and forfeits deserved, at a cash and at a tournament table? | 3 players and seats, stacks of 5 and 10, blinds 2/4 (so calls and raises can be short), 5/5 with an ante, 3 betting streets, one hand, two hand ranks |
| `zk_hand` | Do cards open as a trusted dealer would turn them, can the accused answer, does the hand end? | 3 players of whom two have chips in, one board street, 1 lost receipt, restart or accusation out of turn |
| `zk_deals` | Is a prompt player never sat out, a forged deck never dealt, a live hand recoverable, and do hands keep coming? | 3 players, 2 or 1 of them prompt, 2 hands, 1 seat that comes or goes, 2 lost receipts or restarts |
| `tournament` | Is the money backed, do chips add up, levels rise, absent players go? | 4 entries, tables of 3, one starting chip each, two level-ups, one player away at a time; a sponsored pool, whose fee may be withdrawn, and no fee per entry |
| `poker_all_in` | Does `numInHand` count the players that have not folded? | **violated** |
| `zk_forfeit` | Does only a seat that withholds a share forfeit? | **violated** |

Amounts of a few units suffice in the vault's runs: a payout of 2 on a stake of 1 meets a
budget of 0 or 1 and a pool that the owner may have emptied, so it is cut by the budget, by
what the vault has, or not at all; in `vault_seeds` the owner switches between a limit on
stakes and one on their share of the pool, which both refuse bets. In the poker runs the rake is a tenth at
most, so stacks are in tens; 5, 10 and 10 is the least that makes a contested side pot
under an uncalled bet. `MaxBlock`, `MaxBets`, `MaxSeeds`, `MaxRounds`, `MaxGames`,
`MaxSpins`, `MaxEscrow`, `MaxRefunds`, `MaxBalance`, `MaxHands`, `MaxRescues`, `MaxHeld`, `MaxItems`,
`MaxHead`, `MaxPicks`, `MaxFaults`, `MaxMoves`, `MaxClock` and `MaxAway` only bound the
exploration; so do, in `PokerRoom`, `Open` and `NotLast`, which let no one come in after the
last hand and no one sit out after the last deal, and in `RevealBot` `RoomToExpire`, which
takes no bet that could not expire before the last block. The board of a hand is one or two
streets where the code has three, of the same kind. The block window is 1 or 2 instead of
256; the proofs are for any window.

In `zk_hand` three players are the least for which one folds and two still play, and a
share of the folded one is needed. In `zk_deals` the set of two prompt players has one that
is not beside them; the set of one shows what a prompt player gets among others. The
tournament's stacks are one chip because only who busts matters, and its tables have three
seats because a player who walks away from a table of two leaves no one to deal to: the
coordinator strikes only when a deal waits, so at a two-seat table with nobody else the
absent one is never sat out and never forfeited, and `SeatsFreed` does not hold. With
tables of one size the third rule of `rebalanceOne` (a lone player,
`poker-tournament-driver.js:208-213`) has nothing to do that the first did not do before.

Deadlock is checked in the casino's runs except `reveal_bot`. In the others the system may
stop: a closed table whose players have left, a hand or an event that is over, the last
block of `reveal_bot`.

### Fairness

Casino: weak fairness of `Tick`, because the chain keeps producing blocks, and of the
function that frees a stake (`RefundExpired`, `RefundRound`, `CancelPick`, `RefundSpin`) for
each bet, because those are open to anyone or to the player, who has a reason to call
them. Nothing is assumed of the house: not that the bot reveals, the coordinator answers,
the game stays active or the vault unpaused. One act of the owner is excepted, openly in
the properties: while another module is registered for a game, the refunds of a round, a
mines game or a spin of the old one are refused (`refundFromModule` is `onlyModule`), so
`RoundsResolve`, `PicksResolve` and `PaidSpinsResolve` say that each is decided or its
module is not the registered one. As an undecided one stays undecided, that is: it is
decided unless its module is away again and again or for good. `BetsResolve` needs no
exception, and a round nobody bet in none either. The end of a betting round needs no fairness
to state: `BettingRunsDown` gives a measure that every action and every timeout lowers.

Processes: a timer fires, an `await` resolves, transactions at the head of a lane are
mined, a hand ends, deadlines and windows pass (weak fairness of each). `reveal_bot` adds that
a dry wallet is refuelled, as `refuelLanes` does while the owner has funds. `zk_hand` binds
no client to answer; `zk_deals` has prompt clients answer, and promises hands to those only.
`tournament` needs strong fairness of the driver's tick and of its call: a pass takes a
second and a hand several, so the driver sees tables between hands again and again and
wins some of the races against the next start; and that in the end it is not restarted,
because a restart drops the hold on the tables. Liveness of an event is claimed while its
fees have not been withdrawn, since without them the last prize cannot be paid.

## 4. What the code does not do as it says

Two runs expect a violation:

- `poker_all_in`: when antes and blinds put every dealt seat all-in, the turn is given to
  seat 255, and `timeoutAct` then folds that seat: heads-up, the lowest seat takes the pot
  without a showdown.
- `zk_forfeit`: `_sharesTimeout` adopts any open accusation as the one for the share it
  waits for. A player who hands in the accused share to the coordinator, within her window
  but not on chain, is penalised if another player keeps the hand waiting until the window
  ends; a restart makes it easier still, because the accusation is all that is remembered.

The traces of the following are reproduced with a configuration of the same name, kept
beside the runs (`tlc -config X.cfg M`):

| Configuration | Module | What it shows |
|---|---|---|
| `VaultClaim.cfg` | `MCCasinoVault` | `ClaimNeverFails`: `_refund` does not look at the free bankroll, so a clamped win followed by a refund leaves more claimable than the vault holds, and `claim` reverts, against the comment at `CasinoVault.sol:310-311`. `OnlyRefundsUnback` shows that refunds are the only cause |
| `RoundSecrecy.cfg` | `MCRoundGames` | `OutcomeUnknownAtBet`: a round's `commitBlock` is fixed when it opens, and bets come in for seconds after the deciding block exists (`README.md:109-111`). Single-shot games are not affected |
| `RoundSwap.cfg` | `MCRoundGames` | `StakesNeverStranded`: a replaced module can no longer hand back the stakes of a round that is open or dead, until it is registered again; `README.md:92-95` and `GameGate.sol:26-27` have refunds deliberately not gated. `RoundsResolve` excepts exactly that |
| `MinesDouble.cfg` | `MCMinesGames` | `RefundsWithinEscrow`: a pick that times out gives the stake back (`MinesModule.sol:179`), and `finalize` on a root that does not match gives it back once more (`:218`), as the comment of `finalize` means it to; `README.md:353-356` says every module refunds exactly what it escrowed |
| `SlotCycle.cfg` | `MCSlotGames` | `SpinsSettleable`: `chargeMeterCycle` is a `uint8` whose checked increment is inside settlement; at the 256th crossing a player's spins can no longer be settled, only refunded |
| `RevealWedge.cfg` | `MCRevealBot` | `NoLaneIsWedged`: a reply lost while a later nonce is in flight makes the lane resync, and what is broadcast next may leave a gap that nothing fills (`reveal-bot-v15.js:51-52` means to exclude it); `OwedIsDone` excepts exactly that |
| `ZkWedge.cfg` | `ZkHand` | `HandAlwaysEnds`: a rescue the session has forgotten is on chain and never fetched, and the contract accepts no second accusation of that share; `HandEnds` excepts exactly that |
| `ZkEarly.cfg` | `ZkDeals` | `NoCardsBeforeHand`: the coordinator hands a player the others' shares of her cards as soon as a deal is collected, before `startHand` (`poker-zk-dealer.js:339-354`) |
| `TournamentCancel.cfg` | `MCTournament` | `CancelRefunds`: `withdrawFees`, which the dealer bot also calls to refuel itself, may take the fees of an event still registering; then `cancel` and `unregister` revert (`PokerTournament.sol:553`) |

Read in the code and not the subject of a configuration: the stake cap of `placeBet` is
skipped when it rounds to zero (`CasinoVault.sol:236`); a module's credit is not held to
`maxExposureBps`, which only placement looks at (`CasinoVault.sol:400-418`); a mines game
whose root never comes cannot be ended by its player (`MinesModule.sol:172-180`), and
after a restart the bot does not look back far enough to find an old one
(`reveal-bot-v15.js:126`); the module swap script reads `hasOpenRound` several
transactions before it acts on it (`scripts/swap-v15-modules.js:96`, `:147`);
`_settleShowdown` takes rake without asking whether a tournament controls the table, which
`_rake` does (`PokerRoom.sol:1462`, `:1374`); a seat above a lowered `maxSeats` is dealt no
more (`PokerRoom.sol:406`); `topUpSeeds` may commit the same hashes twice
(`reveal-bot-v15.js:351-373`); the dealer bot's nonce counter may be reset between its check
and its use (`poker-dealer-bot.js:583-590`); with three tables of nearly equal size the
driver may move one player back and forth.

## 5. Proofs

Every theorem is for all values of the constants: any number of players, seats, games,
modules, rounds, items, hands and faults, any window, any amount. `PROJECT.json` lists
them with the properties they state. All are checked to the last leaf; the library's
theorems on finite sets, functions and sequences are the only facts cited from outside.

### Assumptions

Types of the constants, and: `EVM_HASH_DEPTH = BLOCKHASH_WINDOW` (the chain's own constant,
which `CommitReveal.sol` repeats); finitely many players and games (`IsFiniteSet`), without
which a sum over them means nothing, and for the slots and the deals finitely many modules
and players; at most nine seats, as `PokerRoom` allows, and one to
three betting rounds after the first; a roulette slip is a sequence of bets that
`placeBets` accepts (`BetSlips`), the modules followed serve games entered at the module
(`GateAssumption`), a table's configuration one that `createTable` does
(`Configs`); a prize table that `createTournament` accepts, whose shares add up to the
whole. Each is an `ASSUME` in the module that declares the constant, and TLC
evaluates it in the runs.

### Sums

`SumFunctionOnSet` is a fold with a recursive definition, and no induction principle can
be instantiated here. `SumTheorems` goes round it with a minimal counterexample:
`MinimalSubset` says that a property some finite set lacks is lacked by one all of whose
smaller subsets have it. From it come one table of partial sums that satisfies the
recursion (`TableExists`), the unfolding of the sum (`SumAdd`, `SumRemove`), and what the
proofs use: a sum changes by what one term changes (`SumChange`), sums add up
(`SumPlus`, `SumJoined`), compare (`SumLess`) and ignore zeros (`SumZeros`).

### The vault (`CasinoVaultProofs`)

- `TypeCorrect`: types, and with them that balance and debts stay natural numbers: a claim
  is paid only from what the vault has, a withdrawal that was scheduled is checked again
  when it is made, and no clamp pays a negative amount. Nothing is assumed of what modules
  hand back.
- `BlastRadiusHolds`: a game's net cost never exceeds the largest budget it ever had plus
  what its modules handed back. `BlastRadius` is not inductive, because a credit is clamped
  against the *current* budget; the invariant adds that the current budget is at most the
  largest.
- `SeedsAreUsedOnce`, `SeedsStaySecret`: through `SeedInv`, which adds that every revealed
  index was handed out before; without it a placement could take an index that is already
  public.
- `OnlyRefundsUnbackHolds`: an action property, from the bounds on what the two clamps pay
  (`SettledPayoutBounds`, `CreditedAmountBounds`).
- `NoBetInLimboHolds`: from the block arithmetic alone.
- `ConservationHolds`: one equation over the sum of all games' net and of the open stakes.
  Each primitive changes one term of a sum and the balance or the debts by the same.

### The module games (`EntryGamesProofs`)

- `OnlyNewestOpenHolds`: the flag `_hasOpenRound` and the newest round agree, and every
  older round is closed. Inductive with the shape of the records alone: a round is opened
  only behind closed ones, and only the open one can be closed.
- `RoundSeedsStaySecret`, `BoardsStayHidden`: a seed is public exactly when its round was
  drawn, its mines game finalized. The invariants (`RoundSeedInv`, `BoardInv`) add that no
  two rounds or games, and none of them and a single-shot bet, have the same index, and that
  every index in use or public is behind the next one to be handed out; `VaultSeedStep` says
  what the vault's own steps may do to that.
- `FreeSpinsAddUpHolds`: the invariant `SlotInv` counts the free spins that stand in each
  slot and adds the counts up. A refund gives one back only for a spin that stood, which is
  why `used` cannot fall below zero, and a spin changes one count and the counter by one,
  whichever slot it is in.
- `RoundRefundsMatch`, `MinesRefundsMatch`, `SlotRefundsMatch`: what a module still holds of
  a player's stakes is a sum over its records, so every refund is of a stake in one of
  them. For rounds and slots that keeps it natural; a mines game may hand its stake back
  twice, and the sum counts that (`Kept`).
- `PayoutWithinExposureHolds`: for roulette by comparing term by term: whatever number
  comes up, each bet of a slip wins at most its own exposure, and the slips of several calls
  are one longer slip.

### The reveal bot (`RevealBotProofs`)

- `NothingForgottenHolds`: `BotInv` says where an undone item is: at or above a cursor, in
  the pending set, or with a job that holds it, and that a job's next call is one the
  item's kind allows. A restart is covered because the new floor is computed from the head.
- `BookIsKeptHolds`: `RevealBot` implements `BetBook`. Only `MineTx` and the other callers
  touch `items`, and each of them maps to one step of the book or to none, because a call
  that comes too late reverts (`OutcomeAllowed`).

### The poker room (`PokerRoomProofs`)

- The invariant (`RoomInv`) is the types, a sound table, that an empty seat has no chips in
  front of it, that an accusation is current, and the equation of the chips. The third is
  needed because `Take` overwrites the stack of the seat it fills. A sound table counts its
  pot, gives the turn only to a seat that can act, and has `numInHand` *at most* the number
  of live seats. It is not their number (run `poker_all_in`), and nothing else is lost by
  that: this is why the wrong count does not break conservation.
- `TurnOwedHolds`, `AccusationIsCurrentHolds`, `ChipsConservedHolds`: from the invariant.
  Each function of the engine is shown once to keep a table sound and its chips, and every
  action composes those facts.
- `ShowdownPaysMatchedHolds`: the side pots are peeled by a recursive function; that it
  exists is shown by a least counterexample over the levels (`PeelingExists`), what it pays
  by an invariant of the layers (`PeeledTo`). The odd chips are counted by the rank of a
  winner round the button (`OddChipsCount`).
- `OnlyUnansweredForfeitHolds`: the shares of a forfeited stake, each rounded down, fit into
  it (`PortionsFit`), so every other seat gets at least its own back.
- `BettingRunsDownHolds`: an action closes the street, or lowers the chips behind with the
  bet to match, or leaves one seat fewer that owes an action.

### The cards (`ZkHandProofs`, `ZkDealsProofs`)

- `AccusedCanAnswerHolds`: what `accusationAllowed` let through still holds whenever it is
  read later, and implies the client's own rule.
- `SharesStaySecret`, `DealerIsTrusted`: `HandInv` bounds what is known by the street, what
  is on chain by what is known, and the session's beliefs by the chain. Under it each step
  of `ZkHand` is a step of `TrustedDealer` or none, also with a curious coordinator.
- `PromptKeepSeatsHolds`, `ForgedDeckNeverStartsHolds`, `LiveHandServableHolds`: `DealsInv`
  says where a deal may be (`Whereabouts`): of the transactions in the pool, the sessions and
  the contract's two slots, what may stand behind what, given that transactions are mined in
  order and one is awaited at a time.

### The tournament (`TournamentProofs`)

Nothing is assumed of the call that waits to be mined: whatever the driver decided on, and
however old it is, the contract checks it again (`Accepted`), and the proofs use that only.

- `UntakenFeesBackHolds`: while entries come and go the books are exact multiples of the
  entries (`BookedEntries`), so a refund is covered. From the start on, what is left of the
  pool covers the host's cut and the places still open, because shares rounded down add up
  to no more than the whole, and a place is paid once.
- `ChipsAccountedForHolds`: the invariant `ChipsInv` adds that those dealt in sit at the
  table and that tables and seats have their shape. The start deals the field round the
  tables; that each of its players gets a seat of her own is arithmetic of quotient and
  remainder. A move takes a seat from one sum and adds it to another. A hand hands out
  again exactly the chips of those dealt in (`HandEnds`), whoever wins.

### What stays with TLC

Every safety invariant and every action property of the passing runs is a theorem. What
is left is liveness under fairness, which is beyond the prover: `BetsResolve`,
`RoundsResolve`, `PicksResolve`, `PaidSpinsResolve`, `OwedIsDone`, `HandEnds`,
`HandsKeepComing`, `TablesReleased`, `LevelsRise` and `SeatsFreed`. So is `ENABLED`.

## 6. Not modelled, and what is left

- Cryptography (`ZkVerify.sol`, shuffles, proofs): a proof is accepted exactly when it is
  right. `PokerHandEval.sol`: hands rank in any way. The pay tables of the slots, dice and
  plinko: a payout is any value under the cap.
- `topUpSeeds` of the reveal bot; a bot whose lanes share one wallet; strikes that keep
  failing and `_revealFailed` in the coordinator; the dealer bot's process around the
  coordinator and the driver.
- Entry approval in `PokerTournament`; several events or tables over one balance.
- The front end (all but the deal client), the subgraph, deployment, profiles, and the
  contracts the vault replaced. Most of the repository's JavaScript is there: compiled and
  hand-written pages, which keep no state that the contracts do not keep for them.

Next: what the theorems do not reach yet is what holds across components: that the calls
`RevealBot` makes are those `CasinoVault` and the games accept, that the hand `ZkHand` opens
cards for is the one `PokerRoom` plays, and that a table of `PokerTournament` keeps its
chips by `PokerRoom`'s rules, each as a refinement of the smaller model by the larger.
