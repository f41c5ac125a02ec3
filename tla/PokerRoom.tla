----------------------------- MODULE PokerRoom ------------------------------
(***************************************************************************)
(* poker/PokerRoom.sol: the escrow, the seats of one table and the hand on *)
(* it.  Each action is one transaction; a revert is a disabled action.     *)
(*                                                                         *)
(* The card layer (IPokerDealer) is the environment: which share it lets   *)
(* an operator accuse a seat of, when the showdown is ready and how the    *)
(* hands rank are free choices.  Time is kept as what the code asks of it: *)
(* whether the acting seat's deadline and the rescue window have passed.   *)
(* A seat that sits out may have done so for ten minutes.  sitInHandId is  *)
(* left out: it is the next hand's id whenever it is set, so it excludes   *)
(* no one.  A session key acts as its player and is left out too.          *)
(***************************************************************************)
EXTENDS PokerEngine

CONSTANTS
    Players,
    NoPlayer,
    Cards,          \* indices of cards whose shares can be withheld
    KICK_AFTER,     \* 3
    Configs,        \* table configurations the owner or the tournament sets
    BuyIns,         \* what players sit down with, or are seated with
    TopUps,         \* what players add to their stack
    Deposits,       \* and what they withdraw, or the whole bankroll
    Raises,         \* what a seat bets or raises to, or the whole stack
    Ranks,          \* hand scores
    \* Bounds: hands dealt, shares delivered late in a hand, chips in the room by
    \* whether the table is controlled.
    MaxHands, MaxRescues, MaxHeld

\* TableConfig, and whether a tournament controls the table (_controller)
TableConfig ==
    [smallBlind : Nat, bigBlind : Nat, ante : Nat, minBuyIn : Nat, maxBuyIn : Nat,
     rakeBps : 0..1000, rakeCap : Nat, active : BOOLEAN, controlled : BOOLEAN]

ASSUME RoomAssumption ==
    /\ IsFiniteSet(Players) /\ NoPlayer \notin Players
    /\ KICK_AFTER \in Nat \ {0}
    /\ Configs # {} /\ Configs \subseteq TableConfig
    /\ \A c \in Configs :
          c.smallBlind \in 1..c.bigBlind /\ (c.controlled => c.rakeBps = 0)
    /\ BuyIns \cup TopUps \cup Deposits \cup Raises \cup Ranks \subseteq Nat \ {0} /\ Ranks # {}
    /\ MaxHands \in Nat /\ MaxRescues \in Nat /\ MaxHeld \in [BOOLEAN -> Nat]

VARIABLES
    table,         \* the engine's record
    seats,         \* who sits where, and whether sitting out
    streak,        \* timeoutStreak, up to KICK_AFTER
    cfg,           \* _tables[tableId]
    handCounter,
    lastButton,
    accusation,    \* _accusation[tableId]
    vindicated,    \* _vindicated of the hand in progress; keyed by hand, so {} after it
    balance,       \* idle bankroll of each player
    held           \* the room's ether, and a controlled table's issued chips

handVars == <<table, streak, accusation, vindicated>>
escrowVars == <<balance, held>>
vars == <<table, seats, streak, cfg, handCounter, lastButton, accusation, vindicated,
          balance, held>>

Free == [player |-> NoPlayer, sittingOut |-> FALSE]
NoAccusation == [active |-> FALSE, seat |-> NO_SEAT, card |-> 0, elapsed |-> FALSE]

Occupied(s) == seats[s].player # NoPlayer
SeatsOf(p) == {s \in Seats : seats[s].player = p}

InProgress == table.hand.inProgress
Betting == InProgress /\ table.hand.street <= RIVER

\* Mutated form: a seat is pinned only while it has not folded.
PinnedUntilFold(s) == InProgress /\ table.sh[s].inHand

\* Dealt into the live hand, folded or not, or with chips in its pot.
Pinned(s) ==
    InProgress /\ (table.sh[s].inHand \/ table.sh[s].folded \/ table.sh[s].total > 0)

\* Bounds: once the last hand is dealt no one sits out or in, which counts for the
\* next deal only; once it is over, players only leave.
NotLast == handCounter < MaxHands
Open == InProgress \/ NotLast

-----------------------------------------------------------------------------
Init ==
    /\ table = EmptyTable
    /\ seats = [s \in Seats |-> Free]
    /\ streak = [s \in Seats |-> 0]
    /\ cfg \in {c \in Configs : c.active}
    /\ handCounter = 0 /\ lastButton = 0
    /\ accusation = NoAccusation /\ vindicated = {}
    /\ balance = [p \in Players |-> 0]
    /\ held = 0

\* updateTable, between hands only.  A table made inactive stays so.  The table's
\* controller never changes.
UpdateTable(c) ==
    /\ cfg.active /\ ~InProgress
    /\ c.controlled = cfg.controlled
    /\ cfg' = c
    /\ UNCHANGED <<handVars, seats, handCounter, lastButton, escrowVars>>

SetBlinds(c) ==
    /\ cfg.controlled /\ ~InProgress
    /\ cfg' = [cfg EXCEPT !.smallBlind = c.smallBlind, !.bigBlind = c.bigBlind,
                          !.ante = c.ante]
    /\ UNCHANGED <<handVars, seats, handCounter, lastButton, escrowVars>>

WithdrawRake(amount) ==
    /\ amount \in 1..table.rake
    /\ table' = [table EXCEPT !.rake = @ - amount]
    /\ held' = held - amount
    /\ UNCHANGED <<streak, accusation, vindicated, seats, cfg, handCounter, lastButton,
                   balance>>

-----------------------------------------------------------------------------
\* Escrow

Deposit(p, amount) ==
    /\ Open
    /\ held + amount <= MaxHeld[cfg.controlled]
    /\ balance' = [balance EXCEPT ![p] = @ + amount]
    /\ held' = held + amount
    /\ UNCHANGED <<handVars, seats, cfg, handCounter, lastButton>>

Withdraw(p, amount) ==
    /\ amount \in 1..balance[p]
    /\ balance' = [balance EXCEPT ![p] = @ - amount]
    /\ held' = held - amount
    /\ UNCHANGED <<handVars, seats, cfg, handCounter, lastButton>>

-----------------------------------------------------------------------------
\* Seats

Take(p, s, chips) ==
    /\ ~Occupied(s) /\ SeatsOf(p) = {}
    /\ seats' = [seats EXCEPT ![s] = [player |-> p, sittingOut |-> FALSE]]
    /\ table' = [table EXCEPT !.stack[s] = chips]

SitDown(p, s, buyIn) ==
    /\ Open
    /\ ~cfg.controlled /\ cfg.active
    /\ buyIn \in cfg.minBuyIn..cfg.maxBuyIn /\ buyIn <= balance[p]
    /\ Take(p, s, buyIn)
    /\ balance' = [balance EXCEPT ![p] = @ - buyIn]
    /\ streak' = [streak EXCEPT ![s] = 0]
    /\ UNCHANGED <<accusation, vindicated, cfg, handCounter, lastButton, held>>

\* The tournament's chips come from nowhere and count as held.
SeatPlayerWithChips(p, s, chips) ==
    /\ Open
    /\ cfg.controlled
    /\ held + chips <= MaxHeld[cfg.controlled]
    /\ Take(p, s, chips)
    /\ held' = held + chips
    /\ UNCHANGED <<streak, accusation, vindicated, cfg, handCounter, lastButton, balance>>

TopUp(p, amount) ==
    \E s \in SeatsOf(p) :
        /\ Open
        /\ ~cfg.controlled
        /\ ~(InProgress /\ table.sh[s].inHand)
        /\ table.stack[s] + amount <= cfg.maxBuyIn
        /\ amount <= balance[p]
        /\ balance' = [balance EXCEPT ![p] = @ - amount]
        /\ table' = [table EXCEPT !.stack[s] = @ + amount]
        /\ UNCHANGED <<streak, accusation, vindicated, seats, cfg, handCounter, lastButton,
                       held>>

\* Frees a seat and wipes its SeatHand.
Vacate(s) ==
    /\ seats' = [seats EXCEPT ![s] = Free]
    /\ table' = [table EXCEPT !.stack[s] = 0, !.sh[s] = NotDealt]

\* _standUp: the stack goes back to the bankroll.
StandUp(s) ==
    /\ Vacate(s)
    /\ balance' = [balance EXCEPT ![seats[s].player] = @ + table.stack[s]]
    /\ streak' = [streak EXCEPT ![s] = 0]
    /\ UNCHANGED <<accusation, vindicated, cfg, handCounter, lastButton, held>>

LeaveTable(s) == ~cfg.controlled /\ Occupied(s) /\ ~Pinned(s) /\ StandUp(s)

\* Three strikes, or ten minutes sitting out.
KickIdle(s) ==
    /\ ~cfg.controlled /\ Occupied(s) /\ ~Pinned(s)
    /\ streak[s] >= KICK_AFTER \/ seats[s].sittingOut
    /\ StandUp(s)

\* The tournament takes the chips with it.
RemoveSeat(s) ==
    /\ cfg.controlled /\ Occupied(s) /\ ~Pinned(s)
    /\ Vacate(s)
    /\ held' = held - table.stack[s]
    /\ UNCHANGED <<streak, accusation, vindicated, cfg, handCounter, lastButton, balance>>

Strike(n) == Lesser(n + 1, KICK_AFTER)

SetSitOut(s, b) ==
    /\ NotLast
    /\ Occupied(s)
    /\ seats' = [seats EXCEPT ![s].sittingOut = b]
    /\ streak' = [streak EXCEPT ![s] = IF b THEN @ ELSE 0]
    /\ UNCHANGED <<table, accusation, vindicated, cfg, handCounter, lastButton, escrowVars>>

SitOutIdle(s) ==
    /\ NotLast
    /\ Occupied(s)
    /\ seats' = [seats EXCEPT ![s].sittingOut = TRUE]
    /\ streak' = [streak EXCEPT ![s] = Strike(@)]
    /\ UNCHANGED <<table, accusation, vindicated, cfg, handCounter, lastButton, escrowVars>>

-----------------------------------------------------------------------------
\* The hand

Eligible == {s \in Seats : Occupied(s) /\ ~seats[s].sittingOut /\ table.stack[s] > 0}
Absent   == {s \in Seats : Occupied(s) /\ seats[s].sittingOut /\ table.stack[s] > 0}

NextButton ==
    IF handCounter = 0 THEN Lowest(Eligible) ELSE FirstAfter(lastButton, Eligible)

StartHand ==
    /\ cfg.active /\ ~InProgress
    /\ Cardinality(Eligible) >= 2
    /\ handCounter < MaxHands
    /\ table' = Deal(table, Eligible, Absent, NextButton, cfg)
    /\ handCounter' = handCounter + 1
    /\ lastButton' = NextButton
    /\ UNCHANGED <<streak, accusation, vindicated, seats, cfg, escrowVars>>

\* Mutated form: an accusation outlives its hand.
KeptAccusation(t) == accusation

\* An accusation dies with its hand.
AccusationAfter(t) == IF t.hand.inProgress THEN accusation ELSE NoAccusation

\* A step of the hand: t is the table it leads to.
Play(t) ==
    /\ table' = t
    /\ accusation' = AccusationAfter(t)
    /\ vindicated' = IF t.hand.inProgress THEN vindicated ELSE {}
    /\ UNCHANGED <<cfg, handCounter, lastButton, escrowVars>>

\* act: with ALLIN a player calls short, as CALL does, or raises to the whole
\* stack.
AllIn(s) == table.sh[s].street + table.stack[s]

Act(s, t) ==
    /\ Betting
    /\ s = table.hand.acting
    /\ Play(ProgressAfterAction(t, cfg))
    /\ streak' = [streak EXCEPT ![s] = 0]
    /\ UNCHANGED seats

ActFold(s) == Act(s, Fold(table, s))

ActCheck(s) == ToCall(table, s) = 0 /\ Act(s, Acted(table, s))

ActCall(s) == ToCall(table, s) > 0 /\ Act(s, Call(table, s))

ActAggress(s, target) ==
    MayAggress(table, s, target, cfg) /\ Act(s, Aggress(table, s, target, cfg))

\* Open to anyone.  The seat is folded, or checked if it owes nothing.  When no
\* seat has the turn, which startHand can leave behind, the code goes on with
\* seat 255: there is nothing at that key, so the line is owed, and a fold is
\* counted that no one made.
TimeoutAct ==
    LET s == table.hand.acting
    IN  /\ Betting /\ table.hand.late
        /\ IF s = NO_SEAT
           THEN /\ Play(ProgressAfterAction([table EXCEPT !.hand.numInHand = @ - 1], cfg))
                /\ UNCHANGED streak
           ELSE /\ Play(ProgressAfterAction(
                       IF ToCall(table, s) = 0 THEN Acted(table, s) ELSE Fold(table, s), cfg))
                /\ streak' = [streak EXCEPT ![s] = Strike(@)]
        /\ UNCHANGED seats

ClockRunsOut ==
    /\ Betting /\ ~table.hand.late
    /\ table' = [table EXCEPT !.hand.late = TRUE]
    /\ UNCHANGED <<streak, accusation, vindicated, seats, cfg, handCounter, lastButton,
                   escrowVars>>

\* Open to anyone once the dealer has the cards.
ResolveShowdown(scores) ==
    /\ InProgress /\ table.hand.street = SHOWDOWN
    /\ Play(SettleShowdown(table, scores, cfg))
    /\ UNCHANGED <<streak, seats>>

AbortHand ==
    /\ InProgress
    /\ Play(CancelHand(table))
    /\ UNCHANGED <<streak, seats>>

-----------------------------------------------------------------------------
\* Abandonment

AccuseAbandon(s, card) ==
    /\ InProgress
    /\ table.sh[s].total > 0
    /\ <<s, card>> \notin vindicated
    /\ ~accusation.active
    /\ accusation' = [active |-> TRUE, seat |-> s, card |-> card, elapsed |-> FALSE]
    /\ UNCHANGED <<table, streak, vindicated, seats, cfg, handCounter, lastButton,
                   escrowVars>>

WindowElapses ==
    /\ accusation.active /\ ~accusation.elapsed
    /\ accusation' = [accusation EXCEPT !.elapsed = TRUE]
    /\ UNCHANGED <<table, streak, vindicated, seats, cfg, handCounter, lastButton,
                   escrowVars>>

\* The share is delivered: also after the window, until the hand is cancelled.
ProveResponsive ==
    /\ InProgress /\ accusation.active
    /\ Cardinality(vindicated) < MaxRescues
    /\ vindicated' = vindicated \cup {<<accusation.seat, accusation.card>>}
    /\ accusation' = NoAccusation
    /\ UNCHANGED <<table, streak, seats, cfg, handCounter, lastButton, escrowVars>>

\* Mutated form: the window is not waited for.
MayPenalizeAtOnce == InProgress /\ accusation.active

MayPenalize == InProgress /\ accusation.active /\ accusation.elapsed

AbortHandPenalized ==
    LET offender == accusation.seat
    IN  /\ MayPenalize
        /\ table.sh[offender].total > 0
        /\ Play(CancelHandPenalized(table, offender))
        /\ IF Occupied(offender)
           THEN /\ seats' = [seats EXCEPT ![offender].sittingOut = TRUE]
                /\ streak' = [streak EXCEPT ![offender] = Strike(@)]
           ELSE UNCHANGED <<seats, streak>>

-----------------------------------------------------------------------------
SeatStep ==
    \/ \E p \in Players, amount \in Deposits : Deposit(p, amount)
    \/ \E p \in Players : \E amount \in Deposits \cup {balance[p]} : Withdraw(p, amount)
    \/ \E p \in Players, s \in Seats, chips \in BuyIns :
          SitDown(p, s, chips) \/ SeatPlayerWithChips(p, s, chips)
    \/ \E p \in Players, amount \in TopUps : TopUp(p, amount)
    \/ \E s \in Seats : KickIdle(s) \/ LeaveTable(s) \/ RemoveSeat(s) \/ SitOutIdle(s)
    \/ \E s \in Seats, b \in BOOLEAN : SetSitOut(s, b)

AdminStep ==
    \/ \E c \in Configs : UpdateTable(c) \/ SetBlinds(c)
    \/ WithdrawRake(table.rake)

HandStep ==
    \/ StartHand
    \/ \E s \in Seats : ActFold(s) \/ ActCheck(s) \/ ActCall(s)
    \/ \E s \in Seats : \E target \in Raises \cup {AllIn(s)} : ActAggress(s, target)
    \/ TimeoutAct
    \/ ClockRunsOut
    \/ \E scores \in [Seats -> Ranks] : ResolveShowdown(scores)
    \/ AbortHand

AccusationStep ==
    \/ \E s \in Seats, card \in Cards : AccuseAbandon(s, card)
    \/ WindowElapses
    \/ ProveResponsive
    \/ AbortHandPenalized

Next == SeatStep \/ AdminStep \/ HandStep \/ AccusationStep

Spec == Init /\ [][Next]_vars

-----------------------------------------------------------------------------
\* Invariants

AtStake(t) == IF t.hand.inProgress THEN SumFunction([s \in Seats |-> t.sh[s].total]) ELSE 0

\* Every chip is somewhere, once: in a bankroll, in a stack, in the hand in
\* progress or in the rake.  Whatever way the hand ends, and whoever sits down,
\* stands up or is kicked meanwhile, none is lost or made.
ChipsConserved ==
    held = SumFunction(balance) + SumFunction(table.stack) + AtStake(table) + table.rake

\* The turn is always with a seat that can act and has to; with none only if no
\* seat owes an action.
TurnOwed ==
    Betting => IF table.hand.acting = NO_SEAT
               THEN \A s \in Seats : ~OwesAction(table, s)
               ELSE OwesAction(table, table.hand.acting)

\* An accusation that can still be acted on is of the hand in progress, of a seat
\* with chips in it, and of a share that seat has not delivered.
AccusationIsCurrent ==
    accusation.active =>
        /\ InProgress
        /\ accusation.seat \in Seats
        /\ table.sh[accusation.seat].total > 0
        /\ Occupied(accusation.seat)
        /\ <<accusation.seat, accusation.card>> \notin vindicated

\* PokerRoom.sol:950-951: the hand is over without a showdown when everyone but
\* one player folded; numInHand counts those who did not.
NumInHandCounts == InProgress => table.hand.numInHand = Cardinality(InHand(table))

-----------------------------------------------------------------------------
\* Action properties

HandEnds == InProgress /\ ~table'.hand.inProgress

\* What seat s put in and what others put in against it.
Matched(t, s) ==
    SumFunction([x \in Seats |-> Lesser(t.sh[x].total, t.sh[s].total)])

\* At the showdown no seat is paid more than it and the others put in up to its
\* own contribution, and a hand that beats all others is paid no less, but for
\* the rake: side pots give an all-in seat its share and no more.
ShowdownPaysMatched ==
    [][HandEnds => \A scores \in [Seats -> Ranks] : ResolveShowdown(scores) =>
          \A s \in Seats :
             LET won == table'.stack[s] - table.stack[s]
                 raked == table'.rake - table.rake
             IN  /\ won <= Matched(table, s)
                 /\ raked <= cfg.rakeCap
                 /\ (s \in InHand(table)
                       /\ \A x \in InHand(table) \ {s} : scores[x] < scores[s])
                       => won + raked >= Matched(table, s)]_vars

\* A hand called off gives every seat back at least what it put in, except a seat
\* whose rescue window passed without an answer.
OnlyUnansweredForfeit ==
    [][HandEnds /\ (AbortHand \/ AbortHandPenalized) =>
          \A s \in Seats :
             \/ table'.stack[s] >= table.stack[s] + table.sh[s].total
             \/ accusation.active /\ accusation.seat = s /\ accusation.elapsed]_vars

\* What is left of a hand's betting: streets, chips behind, seats that owe an
\* action.  Nothing is left once no seat may bet.
Left(t) ==
    IF t.hand.inProgress /\ t.hand.street <= RIVER
    THEN <<RIVER + 1 - t.hand.street, SumFunction(t.stack),
           Cardinality({s \in Seats : OwesAction(t, s)})>>
    ELSE <<0, 0, 0>>

Below(l, m) ==
    \/ l[1] < m[1]
    \/ l[1] = m[1] /\ l[2] < m[2]
    \/ l[1] = m[1] /\ l[2] = m[2] /\ l[3] < m[3]

\* Every action of a player, and every fold or check made for one that is late,
\* brings the end of the betting nearer: a raise asks the others again, but it
\* costs chips.  So no one can keep a hand from its showdown.
BettingRunsDown ==
    [][(Betting /\ table'.hand # table.hand /\ ~table'.hand.late) =>
          Below(Left(table'), Left(table))]_vars
=============================================================================
