------------------------------ MODULE RevealBot ------------------------------
(***************************************************************************)
(* The settlement bot of the v15 casino (scripts/reveal-bot-v15.js): one   *)
(* pass ("tick") at a time over every game, one wallet and one nonce lane  *)
(* per game, ids discovered once and kept until they are done.             *)
(*                                                                         *)
(* The chain is a list of items per contract, a mempool per wallet, and    *)
(* blocks.  A bet, a spin, a mines game and a round differ in what the bot *)
(* owes them; "single" games share the vault's list.  Ids start at 1, where *)
(* the contracts count from 0; a block's time is its number.               *)
(*                                                                         *)
(* A broadcast may fail, or go through with its reply lost; the bot may be *)
(* restarted; transactions of one wallet are mined in the order of nonces. *)
(***************************************************************************)
EXTENDS Integers, Sequences, FiniteSets, FiniteSetsExt, Functions

CONSTANTS
    Games, Kinds,          \* games of the manifest, kinds they may be of
    Vault,                 \* the list all single-shot games share
    OtherGames,            \* single-shot games whose lanes are left out
    REVEAL_DELAY, BLOCKHASH_WINDOW,
    BET_WINDOW,            \* blocks a round takes bets for
    DISCOVERY,             \* ids a fresh bot looks back (50 in the code)
    Concurrencies,         \* values of SETTLE_CONCURRENCY
    MaxItems, MaxHead, MaxFaults, MaxPicks

ASSUME RevealBotConstants ==
    /\ Kinds \subseteq {"single", "slot", "mines", "round"}
    /\ Vault \notin Games /\ Games \cap OtherGames = {}
    /\ {REVEAL_DELAY, BLOCKHASH_WINDOW, BET_WINDOW, DISCOVERY} \subseteq Nat \ {0}
    /\ Concurrencies \subseteq Nat \ {0}
    /\ {MaxItems, MaxHead, MaxFaults, MaxPicks} \subseteq Nat

VARIABLES
    kind, limit,           \* the deployment: kind of each game, concurrency
    head, items,           \* newest block; the contracts' items
    mined, pool,           \* per wallet: transactions mined, and broadcast ones
    tickHead,              \* block the running tick read, 0 when none runs
    scanned,               \* games whose ids the running tick has listed
    cursor, pending,       \* per game: next id to discover (0 unset), ids not done
    todo, work,            \* per game: jobs of this tick not started, and running
    nonce,                 \* per lane: next nonce, NoNonce before the first
    floor,                 \* per game: oldest id discovered since the last start
    dry,                   \* wallets that cannot pay for a transaction
    faults                 \* failed sends, dry wallets and restarts so far

deployVars == <<kind, limit>>
chainVars  == <<head, items, mined, pool>>
laneVars   == <<nonce, dry>>
tickVars   == <<tickHead, scanned, todo, work>>
memoVars   == <<cursor, pending, floor>>
vars == <<deployVars, chainVars, laneVars, tickVars, memoVars, faults>>

NoNonce == -1
Books == Games \cup {Vault}

Put(f, x, e) == [y \in DOMAIN f \cup {x} |-> IF y = x THEN e ELSE f[y]]

\* Single-shot games draw their ids from vault.totalBets().
BookOf(g) == IF kind[g] = "single" THEN Vault ELSE g
Item(g, id) == items[BookOf(g)][id]
Total(g) == Len(items[BookOf(g)])

-----------------------------------------------------------------------------
\* The contracts, as the bot meets them

Expired(commit, block)    == block > commit + REVEAL_DELAY + BLOCKHASH_WINDOW
Revealable(commit, block) == block >= commit + REVEAL_DELAY /\ ~Expired(commit, block)

NewItem(g, closes) ==
    [game |-> g, commit |-> head + 1, status |-> "open", closes |-> closes, root |-> FALSE,
     picking |-> FALSE, picks |-> 0, finalized |-> FALSE]

\* Whether a call would revert in the block after head.
Reverts(call, item) ==
    LET now == head + 1
    IN  CASE call \in {"refundExpired", "refundRound"} ->
                item.status # "open" \/ ~Expired(item.commit, now)
          [] call \in {"revealAndSettle", "settleSpin"} ->
                item.status # "open" \/ now <= item.commit + REVEAL_DELAY
          [] call = "settleRound" ->
                \/ item.status # "open"
                \/ now < item.closes
                \/ now <= item.commit + REVEAL_DELAY
          [] call = "commitRoot" ->
                item.status # "open" \/ item.root \/ now <= item.commit + REVEAL_DELAY
          [] call = "resolveCell" -> item.status # "open" \/ ~item.picking
          [] call = "finalize" -> item.status = "open" \/ ~item.root \/ item.finalized

\* Mutated form: the block hash is not looked at.
NeverLate(call, item) ==
    CASE call \in {"refundExpired", "refundRound"} -> {[item EXCEPT !.status = "refunded"]}
      [] call \in {"revealAndSettle", "settleSpin", "settleRound"} ->
            {[item EXCEPT !.status = "settled"]}
      [] call = "commitRoot" -> {[item EXCEPT !.root = TRUE]}
      [] call = "resolveCell" -> {[item EXCEPT !.picking = FALSE],
                                  [item EXCEPT !.picking = FALSE, !.status = "settled"]}
      [] call = "finalize" -> {[item EXCEPT !.finalized = TRUE]}

\* What the item may be after the call, in the block after head.
Outcomes(call, item) ==
    LET late == Expired(item.commit, head + 1)
    IN  CASE call \in {"refundExpired", "refundRound"} ->
                {[item EXCEPT !.status = "refunded"]}
          [] call \in {"revealAndSettle", "settleSpin", "settleRound"} ->
                {[item EXCEPT !.status = IF late THEN "refunded" ELSE "settled"]}
          [] call = "commitRoot" ->
                {IF late THEN [item EXCEPT !.status = "refunded"]
                         ELSE [item EXCEPT !.root = TRUE]}
          [] call = "resolveCell" ->
                {[item EXCEPT !.picking = FALSE],
                 [item EXCEPT !.picking = FALSE, !.status = "settled"]}
          [] call = "finalize" -> {[item EXCEPT !.finalized = TRUE]}

\* Transactions the node counts: those mined and the unbroken run behind them.
PendingCount(g) ==
    CHOOSE n \in mined[g]..mined[g] + Cardinality(DOMAIN pool[g]) :
        /\ n \notin DOMAIN pool[g]
        /\ mined[g]..(n - 1) \subseteq DOMAIN pool[g]

-----------------------------------------------------------------------------
Init ==
    /\ kind \in [Games -> Kinds]
    /\ limit \in Concurrencies
    /\ head = 1
    /\ items = [b \in Books |-> <<>>]
    /\ mined = [g \in Games |-> 0]
    /\ pool = [g \in Games |-> << >>]
    /\ tickHead = 0
    /\ scanned = {}
    /\ cursor = [g \in Games |-> 0]
    /\ pending = [g \in Games |-> {}]
    /\ todo = [g \in Games |-> {}]
    /\ work = [g \in Games |-> << >>]
    /\ nonce = [g \in Games |-> NoNonce]
    /\ dry = {}
    /\ floor = [g \in Games |-> 1]
    /\ faults = 0

NewBlock ==
    /\ head < MaxHead
    /\ head' = head + 1
    /\ UNCHANGED <<deployVars, items, mined, pool, laneVars, tickVars, memoVars, faults>>

ChangeItem(b, id, item) ==
    /\ items' = [items EXCEPT ![b][id] = item]
    /\ UNCHANGED <<deployVars, head, mined, pool, laneVars, tickVars, memoVars, faults>>

\* MaxHead bounds the run: what is placed can still expire by then.
RoomToExpire == Expired(head + 1, MaxHead)

\* Players: a bet, a pick, a cash-out, the refund of a pick nobody answered, and
\* the refund of an expired item that anyone may ask for.
Place(g) ==
    /\ Total(g) < MaxItems
    /\ RoomToExpire
    /\ items' = [items EXCEPT ![BookOf(g)] = Append(@,
                   NewItem(g, IF kind[g] = "round" THEN head + 1 + BET_WINDOW ELSE 0))]
    /\ UNCHANGED <<deployVars, head, mined, pool, laneVars, tickVars, memoVars, faults>>

PlaceElsewhere(other) ==
    /\ Len(items[Vault]) < MaxItems
    /\ RoomToExpire
    /\ items' = [items EXCEPT ![Vault] = Append(@, NewItem(other, 0))]
    /\ UNCHANGED <<deployVars, head, mined, pool, laneVars, tickVars, memoVars, faults>>

PickCell(g, id) ==
    LET item == Item(g, id)
    IN  /\ item.status = "open" /\ item.root /\ ~item.picking
        /\ item.picks < MaxPicks
        /\ ChangeItem(g, id, [item EXCEPT !.picking = TRUE, !.picks = @ + 1])

CashOut(g, id) ==
    LET item == Item(g, id)
    IN  /\ item.status = "open" /\ item.root /\ ~item.picking
        /\ item.picks > 0
        /\ ChangeItem(g, id, [item EXCEPT !.status = "settled"])

CancelPick(g, id) ==
    LET item == Item(g, id)
    IN  /\ item.status = "open" /\ item.picking
        /\ ChangeItem(g, id, [item EXCEPT !.picking = FALSE, !.status = "refunded"])

AnyoneRefunds(g, id) ==
    /\ kind[g] # "mines"
    /\ ~Reverts("refundExpired", Item(g, id))
    /\ ChangeItem(BookOf(g), id, [Item(g, id) EXCEPT !.status = "refunded"])

\* A receipt reaches the job that waits for it, if that job is still there.
Delivered(jobs, n, pc) ==
    [id \in DOMAIN jobs |->
        IF jobs[id].pc = "wait" /\ jobs[id].nonce = n THEN [jobs[id] EXCEPT !.pc = pc]
                                                      ELSE jobs[id]]

\* The next transaction of a wallet is mined, reverting if it must by now; it may
\* spend the last the wallet could pay with.
MineTx(g) ==
    /\ mined[g] \in DOMAIN pool[g]
    /\ LET n  == mined[g]
           tx == pool[g][n]
           b  == BookOf(g)
           failed == Reverts(tx.call, items[b][tx.id])
       IN  /\ \E after \in IF failed THEN {items[b][tx.id]}
                                     ELSE Outcomes(tx.call, items[b][tx.id]) :
                  items' = [items EXCEPT ![b][tx.id] = after]
           /\ mined' = [mined EXCEPT ![g] = n + 1]
           /\ pool' = [pool EXCEPT ![g] = Restrict(@, DOMAIN @ \ {n})]
           /\ work' = [work EXCEPT ![g] =
                         Delivered(@, n, IF failed THEN "reverted" ELSE "mined")]
    /\ \/ UNCHANGED <<dry, faults>>
       \/ /\ faults < MaxFaults
          /\ dry' = dry \cup {g}
          /\ faults' = faults + 1
    /\ UNCHANGED <<deployVars, head, nonce, tickHead, scanned, todo, memoVars>>

-----------------------------------------------------------------------------
\* The bot

\* setInterval of main(): a tick starts unless the last one still runs.
Tick ==
    /\ tickHead = 0
    /\ tickHead' = head
    /\ scanned' = {}
    /\ UNCHANGED <<deployVars, chainVars, laneVars, todo, work, memoVars, faults>>

\* due(): the ids created since the last look, and those still pending.
Scan(g) ==
    LET from == IF cursor[g] # 0 THEN cursor[g] ELSE Max({1, Total(g) - DISCOVERY + 1})
        open == pending[g] \cup (from..Total(g))
    IN  /\ tickHead # 0
        /\ g \notin scanned
        /\ scanned' = scanned \cup {g}
        /\ cursor' = [cursor EXCEPT ![g] = Total(g) + 1]
        /\ floor' = [floor EXCEPT ![g] = IF cursor[g] = 0 THEN from ELSE @]
        /\ pending' = [pending EXCEPT ![g] = open]
        /\ todo' = [todo EXCEPT ![g] = open]
        /\ UNCHANGED <<deployVars, chainVars, laneVars, tickHead, work, faults>>

\* What the bot does about an item, by the head its tick began with.
ShotDecision(g, item) ==
    CASE item.game # g -> "drop"
      [] item.game = g /\ item.status # "open" -> "drop"
      [] OTHER -> IF Expired(item.commit, tickHead) THEN "refundExpired"
                  ELSE IF ~Revealable(item.commit, tickHead) THEN "keep"
                  ELSE IF kind[g] = "single" THEN "revealAndSettle" ELSE "settleSpin"

\* Mutated form: a game that expired before its root is skipped.
SkipsExpired(item) ==
    CASE item.status = "open" /\ ~item.root ->
            IF Revealable(item.commit, tickHead) THEN "commitRoot" ELSE "keep"
      [] item.status = "open" /\ item.picking -> "resolveCell"
      [] item.status # "open" /\ item.root /\ ~item.finalized -> "finalize"
      [] OTHER -> "keep"

MinesDecision(item) ==
    CASE item.status = "open" /\ ~item.root ->
            IF Expired(item.commit, tickHead) \/ Revealable(item.commit, tickHead)
            THEN "commitRoot" ELSE "keep"
      [] item.status = "open" /\ item.picking -> "resolveCell"
      [] item.status # "open" /\ item.root /\ ~item.finalized -> "finalize"
      [] OTHER -> "keep"

RoundDecision(item) ==
    CASE item.status # "open" -> "drop"
      [] item.status = "open" /\ tickHead < item.closes -> "keep"
      [] OTHER -> IF Expired(item.commit, tickHead) THEN "refundRound"
                  ELSE IF Revealable(item.commit, tickHead) THEN "settleRound" ELSE "keep"

Decision(g, item) ==
    CASE kind[g] \in {"single", "slot"} -> ShotDecision(g, item)
      [] kind[g] = "mines" -> MinesDecision(item)
      [] kind[g] = "round" -> RoundDecision(item)

\* dispatchPool runs up to SETTLE_CONCURRENCY jobs of a bet or spin game at a
\* time; the loops of tickMines and tickRound await each.
Width(g) == IF kind[g] \in {"single", "slot"} THEN limit ELSE 1

\* alloc(): the lane's next nonce, asked of the node if there is none.
NextNonce(g) == IF nonce[g] = NoNonce THEN PendingCount(g) ELSE nonce[g]

\* A job reads its item, decides, and takes a nonce if it has something to send.
StartJob(g) ==
    /\ todo[g] # {}
    /\ Cardinality(DOMAIN work[g]) < Width(g)
    /\ LET id == Min(todo[g])
           decision == Decision(g, Item(g, id))
       IN  /\ todo' = [todo EXCEPT ![g] = @ \ {id}]
           /\ \/ /\ decision = "drop"
                 /\ pending' = [pending EXCEPT ![g] = @ \ {id}]
                 /\ UNCHANGED <<work, nonce>>
              \/ /\ decision = "keep"
                 /\ UNCHANGED <<pending, work, nonce>>
              \/ /\ decision \notin {"drop", "keep"}
                 /\ work' = [work EXCEPT ![g] = Put(@, id,
                       [pc |-> "send", call |-> decision, nonce |-> NextNonce(g)])]
                 /\ nonce' = [nonce EXCEPT ![g] = NextNonce(g) + 1]
                 /\ UNCHANGED pending
    /\ UNCHANGED <<deployVars, chainVars, dry, tickHead, scanned, cursor, floor, faults>>

\* A job ends; done() removes its id if there is nothing left to do.
EndJob(g, id, finished) ==
    /\ work' = [work EXCEPT ![g] = Restrict(@, DOMAIN @ \ {id})]
    /\ pending' = [pending EXCEPT ![g] = IF finished THEN @ \ {id} ELSE @]

Broadcast(g, id) ==
    pool' = [pool EXCEPT ![g] = Put(@, work[g][id].nonce,
                [call |-> work[g][id].call, id |-> id])]

\* Sent and accepted: the job waits for its receipt.
SendOk(g, id) ==
    LET job == work[g][id]
    IN  /\ job.pc = "send"
        /\ g \notin dry
        /\ ~Reverts(job.call, Item(g, id))
        /\ job.nonce >= mined[g] /\ job.nonce \notin DOMAIN pool[g]
        /\ Broadcast(g, id)
        /\ work' = [work EXCEPT ![g][id].pc = "wait"]
        /\ UNCHANGED <<deployVars, head, items, mined, laneVars, tickHead, scanned, todo,
                       memoVars, faults>>

\* The error of a call on a decided item names it: nothing is left to do.
NamesDecided(g, id) ==
    /\ kind[g] # "mines"
    /\ Reverts(work[g][id].call, Item(g, id))
    /\ Item(g, id).status # "open"

\* Sent and refused: the call would revert, the wallet is dry, the nonce is
\* used, or the node does not answer.  The lane asks for its nonce again.
SendFails(g, id) ==
    LET job == work[g][id]
        refused == \/ g \in dry
                   \/ Reverts(job.call, Item(g, id))
                   \/ job.nonce < mined[g]
                   \/ job.nonce \in DOMAIN pool[g]
    IN  /\ job.pc = "send"
        /\ \/ refused /\ UNCHANGED faults
           \/ ~refused /\ faults < MaxFaults /\ faults' = faults + 1
        /\ nonce' = [nonce EXCEPT ![g] = PendingCount(g)]
        /\ EndJob(g, id, NamesDecided(g, id))
        /\ UNCHANGED <<deployVars, chainVars, dry, tickHead, scanned, todo, cursor, floor>>

\* Sent and accepted, but the reply is lost and the job takes it for a failure.
SendReplyLost(g, id) ==
    LET job == work[g][id]
    IN  /\ job.pc = "send"
        /\ faults < MaxFaults
        /\ g \notin dry
        /\ ~Reverts(job.call, Item(g, id))
        /\ job.nonce >= mined[g] /\ job.nonce \notin DOMAIN pool[g]
        /\ Broadcast(g, id)
        /\ faults' = faults + 1
        /\ nonce' = [nonce EXCEPT ![g] = NoNonce]
        /\ EndJob(g, id, FALSE)
        /\ UNCHANGED <<deployVars, head, items, mined, dry, tickHead, scanned, todo,
                       cursor, floor>>

\* Mutated form: a mines game is done with its root.
DoneAtRoot == {"refundExpired", "refundRound", "revealAndSettle", "settleSpin",
               "settleRound", "finalize", "commitRoot"}

\* Calls after which an item needs nothing more of the bot.
LastCalls == {"refundExpired", "refundRound", "revealAndSettle", "settleSpin",
              "settleRound", "finalize"}

\* tx.wait() returns, or throws for a reverted transaction.
Receipt(g, id) ==
    /\ work[g][id].pc \in {"mined", "reverted"}
    /\ EndJob(g, id, work[g][id].pc = "mined" /\ work[g][id].call \in LastCalls)
    /\ UNCHANGED <<deployVars, chainVars, laneVars, tickHead, scanned, todo, cursor, floor,
                   faults>>

\* Promise.all over the games has resolved.
TickEnds ==
    /\ tickHead # 0
    /\ scanned = Games
    /\ \A g \in Games : todo[g] = {} /\ DOMAIN work[g] = {}
    /\ tickHead' = 0
    /\ UNCHANGED <<deployVars, chainVars, laneVars, scanned, todo, work, memoVars, faults>>

\* refuelLanes(), once a minute.
Refuel(g) ==
    /\ g \in dry
    /\ dry' = dry \ {g}
    /\ UNCHANGED <<deployVars, chainVars, nonce, tickVars, memoVars, faults>>

\* The process dies and starts over; its transactions stay in the mempool.
Restart ==
    /\ faults < MaxFaults
    /\ faults' = faults + 1
    /\ tickHead' = 0
    /\ scanned' = {}
    /\ todo' = [g \in Games |-> {}]
    /\ work' = [g \in Games |-> << >>]
    /\ cursor' = [g \in Games |-> 0]
    /\ pending' = [g \in Games |-> {}]
    /\ nonce' = [g \in Games |-> NoNonce]
    /\ UNCHANGED <<deployVars, chainVars, dry, floor>>

-----------------------------------------------------------------------------
BotStep(g) ==
    \/ Scan(g) \/ StartJob(g)
    \/ \E id \in DOMAIN work[g] : \/ SendOk(g, id) \/ SendFails(g, id)
                                  \/ SendReplyLost(g, id) \/ Receipt(g, id)

PlayerStep(g) ==
    \/ Place(g)
    \/ \E id \in 1..Total(g) :
          \/ kind[g] = "mines" /\ (PickCell(g, id) \/ CashOut(g, id) \/ CancelPick(g, id))
          \/ AnyoneRefunds(g, id)

Next ==
    \/ Tick \/ TickEnds \/ NewBlock \/ Restart
    \/ \E other \in OtherGames : PlaceElsewhere(other)
    \/ \E g \in Games : BotStep(g) \/ PlayerStep(g) \/ MineTx(g) \/ Refuel(g)

Spec == Init /\ [][Next]_vars

\* Blocks come and transactions are mined; the bot's timer fires, its awaits
\* resolve, and a dry wallet is refuelled while the owner has funds.
Fairness ==
    /\ WF_vars(NewBlock) /\ WF_vars(Tick) /\ WF_vars(TickEnds)
    /\ \A g \in Games :
          WF_vars(MineTx(g)) /\ WF_vars(Refuel(g)) /\ WF_vars(BotStep(g))

FairSpec == Spec /\ Fairness

-----------------------------------------------------------------------------
\* What the bot still has to do for an item.
Owed(item, k) ==
    CASE k = "mines" -> \/ item.status = "open" /\ (~item.root \/ item.picking)
                        \/ item.status # "open" /\ item.root /\ ~item.finalized
      [] OTHER -> item.status = "open"

OwedAt(g, id) ==
    /\ id \in 1..Total(g)
    /\ Item(g, id).game = g
    /\ Owed(Item(g, id), kind[g])

\* An item of a game that still needs the bot is never dropped from its memory:
\* whatever fails, races or reverts, it is pending, not discovered yet, or
\* older than what a restarted bot looks back at.
NothingForgotten ==
    \A g \in Games : \A id \in 1..Total(g) :
        /\ OwedAt(g, id)
        /\ floor[g] <= id /\ id < cursor[g]
        => id \in pending[g]

\* Every job of the game waits for a transaction behind a gap in the nonces, and
\* the tick that would start another never ends.
Wedged(g) ==
    /\ DOMAIN work[g] # {} /\ todo[g] = {}
    /\ \A id \in DOMAIN work[g] : work[g][id].pc = "wait" /\ work[g][id].nonce > PendingCount(g)

\* Every item the bot knows of gets what it is owed, whatever races, fails, runs
\* dry or restarts, unless its lane is wedged.
OwedIsDone ==
    \A g \in Games : \A id \in 1..MaxItems :
        OwedAt(g, id) ~> \/ ~OwedAt(g, id)
                         \/ id < floor[g]
                         \/ Wedged(g)

\* scripts/reveal-bot-v15.js:51-52: the lane takes its counter down again after
\* a failed broadcast, because "a permanent gap wedges the lane".
NoLaneIsWedged ==
    \A g \in Games, n \in 0..MaxItems :
        n \in DOMAIN pool[g] ~> n < mined[g]

\* The casino's promise, kept by the contracts, the bot and the players together.
Book == INSTANCE BetBook WITH
    status  <- [b \in Books |-> [id \in DOMAIN items[b] |-> items[b][id].status]],
    expired <- [b \in Books |-> {id \in DOMAIN items[b] :
                    ~items[b][id].root /\ Expired(items[b][id].commit, head + 1)}],
    stalled <- [b \in Books |-> {id \in DOMAIN items[b] : items[b][id].picking}]

BookIsKept == Book!BookSpec
=============================================================================
