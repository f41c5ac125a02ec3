---------------------------- MODULE PokerEngine ----------------------------
(***************************************************************************)
(* The hand engine of poker/PokerRoom.sol: its internal functions, as      *)
(* functions from a table to a table.  A public function of the contract   *)
(* runs several of them in one transaction; PokerRoom composes them.       *)
(*                                                                         *)
(* A table is a record: stack (Seat.stack), hand (the Hand struct), sh     *)
(* (the SeatHand of every seat) and rake (rakeCollected).  Amounts are     *)
(* natural numbers of chips.  The deadline of the acting seat is the flag  *)
(* hand.late: whether block.timestamp has passed it.  cfg is the table's     *)
(* TableConfig; cfg.controlled says that a tournament controls the table.  *)
(*                                                                         *)
(* A definition marked "mutated form" is a plausible bug in the definition *)
(* after it.  Nothing uses it: it shows that the properties would notice.  *)
(***************************************************************************)
EXTENDS Integers, FiniteSets, FiniteSetsExt, Functions

CONSTANTS
    MaxSeats,       \* cfg.maxSeats
    RIVER           \* the last street with betting: 3, less in small instances

ASSUME EngineAssumption ==
    /\ MaxSeats \in 2..9
    /\ RIVER \in 1..3

Seats == 0..(MaxSeats - 1)
NO_SEAT == 255

PREFLOP == 0
FLOP == 1
SHOWDOWN == RIVER + 1
IDLE == 255

\* SeatHand: committedStreet is street, committedTotal is total.
NotDealt == [inHand |-> FALSE, folded |-> FALSE, allIn |-> FALSE, hasActed |-> FALSE,
             street |-> 0, total |-> 0]

NoHand == [inProgress |-> FALSE, street |-> IDLE, button |-> 0, acting |-> NO_SEAT,
           late |-> FALSE, numInHand |-> 0, currentBet |-> 0, minRaise |-> 0, pot |-> 0]

EmptyTable == [stack |-> [s \in Seats |-> 0], hand |-> NoHand,
               sh |-> [s \in Seats |-> NotDealt], rake |-> 0]

Lesser(a, b) == IF a < b THEN a ELSE b
Greater(a, b) == IF a < b THEN b ELSE a

-----------------------------------------------------------------------------
\* Going round the table

\* The k-th seat clockwise; from NO_SEAT the code counts on from 255.
Clockwise(from, k) == (from + k) % MaxSeats

FirstAfter(from, S) ==
    IF S = {} THEN NO_SEAT
    ELSE Clockwise(from, CHOOSE k \in 1..MaxSeats :
                            /\ Clockwise(from, k) \in S
                            /\ \A j \in 1..(k - 1) : Clockwise(from, j) \notin S)

Lowest(S) == CHOOSE s \in S : \A x \in S : s <= x

InHand(t) == {s \in Seats : t.sh[s].inHand}

CanAct(t, s) == t.sh[s].inHand /\ ~t.sh[s].folded /\ ~t.sh[s].allIn

OwesAction(t, s) ==
    CanAct(t, s) /\ (~t.sh[s].hasActed \/ t.sh[s].street < t.hand.currentBet)

\* Mutated form: the turn also goes to a seat that is all-in.
NextInHand(t, from) == FirstAfter(from, InHand(t))

NextToAct(t, from) == FirstAfter(from, {s \in Seats : OwesAction(t, s)})

CanStillBet(t) == Cardinality({s \in Seats : CanAct(t, s)}) >= 2

\* The clock starts again with the turn.
GiveTurn(t, s) == [t EXCEPT !.hand.acting = s, !.hand.late = FALSE]

-----------------------------------------------------------------------------
\* Chips into the pot

CommitStreet(t, s, amount) ==
    LET paid == [t.sh[s] EXCEPT !.street = @ + amount, !.total = @ + amount,
                                !.allIn = @ \/ t.stack[s] = amount]
    IN  IF amount = 0 THEN t ELSE [t EXCEPT !.stack[s] = @ - amount, !.sh[s] = paid]

\* Each seat of S pays up to amount straight into the pot: an ante of the seats
\* that are dealt in, a dead big blind of those that sit out a tournament.
PostDead(t, S, amount) ==
    LET due == [s \in Seats |-> IF s \in S THEN Lesser(amount, t.stack[s]) ELSE 0]
        paid(s) == [t.sh[s] EXCEPT
                      !.total = @ + due[s],
                      !.allIn = @ \/ (t.sh[s].inHand /\ due[s] > 0 /\ due[s] = t.stack[s])]
    IN  [t EXCEPT !.stack = [s \in Seats |-> t.stack[s] - due[s]],
                  !.sh = [s \in Seats |-> paid(s)],
                  !.hand.pot = @ + SumFunction(due)]

\* Heads-up the button is the small blind.
SmallBlindSeat(elig, button) ==
    IF Cardinality(elig) = 2 THEN button ELSE FirstAfter(button, elig)

BigBlindSeat(elig, button) == FirstAfter(SmallBlindSeat(elig, button), elig)

\* The big blind sets the line to match even if it is posted short.
PostBlinds(t, elig, button, cfg) ==
    LET sb == SmallBlindSeat(elig, button)
        bb == BigBlindSeat(elig, button)
        t1 == CommitStreet(t, sb, Lesser(cfg.smallBlind, t.stack[sb]))
        t2 == CommitStreet(t1, bb, Lesser(cfg.bigBlind, t1.stack[bb]))
    IN  [t2 EXCEPT !.hand.currentBet = cfg.bigBlind, !.hand.minRaise = cfg.bigBlind]

\* startHand, from the seats that are dealt in (elig) and those that sit out.
Deal(t, elig, absent, button, cfg) ==
    LET t0 == [t EXCEPT !.sh = [s \in Seats |-> [NotDealt EXCEPT !.inHand = s \in elig]],
                        !.hand = [inProgress |-> TRUE, street |-> PREFLOP,
                                  button |-> button, acting |-> NO_SEAT, late |-> FALSE,
                                  numInHand |-> Cardinality(elig), currentBet |-> 0,
                                  minRaise |-> cfg.bigBlind, pot |-> 0]]
        t1 == PostDead(t0, elig, cfg.ante)
        t2 == IF cfg.controlled THEN PostDead(t1, absent, cfg.bigBlind) ELSE t1
        t3 == PostBlinds(t2, elig, button, cfg)
    IN  GiveTurn(t3, NextToAct(t3, BigBlindSeat(elig, button)))

-----------------------------------------------------------------------------
\* The end of a hand

\* _clearHand.  What the hand and the seats did stays readable in the contract
\* until the next deal, but nothing reads it: here it is forgotten at once.
ClearHand(t) == [t EXCEPT !.hand = NoHand, !.sh = [s \in Seats |-> NotDealt]]

Rake(pot, cfg) ==
    IF cfg.controlled THEN 0 ELSE Lesser((pot * cfg.rakeBps) \div 10000, cfg.rakeCap)

\* "No flop, no drop."
EndFoldWin(t, cfg) ==
    LET winner == Lowest(InHand(t))
        rake == IF t.hand.street >= FLOP THEN Rake(t.hand.pot, cfg) ELSE 0
    IN  ClearHand([t EXCEPT !.stack[winner] = @ + t.hand.pot - rake, !.rake = @ + rake])

ToShowdown(t) ==
    [t EXCEPT !.hand.street = SHOWDOWN, !.hand.acting = NO_SEAT, !.hand.late = FALSE]

Sweep(t, cfg) ==
    [t EXCEPT !.hand.pot = @ + SumFunction([s \in Seats |-> t.sh[s].street]),
              !.sh = [s \in Seats |-> [t.sh[s] EXCEPT !.street = 0, !.hasActed = FALSE]],
              !.hand.currentBet = 0, !.hand.minRaise = cfg.bigBlind]

\* With fewer than two seats able to bet, the board is run out.
CompleteStreet(t, cfg) ==
    LET swept == Sweep(t, cfg)
        dealt == [swept EXCEPT !.hand.street = @ + 1]
    IN  IF t.hand.numInHand = 1 THEN EndFoldWin(swept, cfg)
        ELSE IF t.hand.street = RIVER \/ ~CanStillBet(swept) THEN ToShowdown(swept)
        ELSE GiveTurn(dealt, NextToAct(dealt, dealt.hand.button))

ProgressAfterAction(t, cfg) ==
    LET next == NextToAct(t, t.hand.acting)
    IN  IF t.hand.numInHand = 1 \/ next = NO_SEAT THEN CompleteStreet(t, cfg)
        ELSE GiveTurn(t, next)

-----------------------------------------------------------------------------
\* Actions of the seat whose turn it is

ToCall(t, s) == Greater(0, t.hand.currentBet - t.sh[s].street)

\* Mutated form: the seat is not marked.
ActedUnmarked(t, s) == t

Acted(t, s) == [t EXCEPT !.sh[s].hasActed = TRUE]

Fold(t, s) ==
    [t EXCEPT !.sh[s] = [@ EXCEPT !.folded = TRUE, !.inHand = FALSE, !.hasActed = TRUE],
              !.hand.numInHand = @ - 1]

Call(t, s) == Acted(CommitStreet(t, s, Lesser(ToCall(t, s), t.stack[s])), s)

\* A bet or raise to target.  All-in excuses a short one.
MayAggress(t, s, target, cfg) ==
    LET additional == target - t.sh[s].street
        cur == t.hand.currentBet
    IN  /\ target > cur /\ additional > 0
        /\ additional <= t.stack[s]
        /\ additional # t.stack[s] =>
              IF cur = 0 THEN target >= cfg.bigBlind ELSE target - cur >= t.hand.minRaise

\* Only a full raise asks those who acted again.
Aggress(t, s, target, cfg) ==
    LET cur == t.hand.currentBet
        full == cur = 0 \/ target - cur >= t.hand.minRaise
        paid == CommitStreet(t, s, target - t.sh[s].street)
        reopened ==
            [paid EXCEPT !.hand.minRaise = Greater(IF cur = 0 THEN target ELSE target - cur,
                                                   cfg.bigBlind),
                         !.sh = [x \in Seats |-> IF x # s /\ CanAct(paid, x)
                                                 THEN [paid.sh[x] EXCEPT !.hasActed = FALSE]
                                                 ELSE paid.sh[x]]]
    IN  Acted([(IF full THEN reopened ELSE paid) EXCEPT !.hand.currentBet = target], s)

-----------------------------------------------------------------------------
\* Showdown

\* Mutated form: every contributor to a pot may win it, folded or not.
WinnersFolded(t, layer, scores) ==
    {s \in layer : \A x \in layer : scores[x] <= scores[s]}

\* The live contributors of a pot who hold its best hand.
Winners(t, layer, scores) ==
    {s \in layer : t.sh[s].inHand /\ \A x \in layer : t.sh[x].inHand => scores[x] <= scores[s]}

\* The odd chips go to the first winners left of the button.
OddChip(t, winners, s, rem) ==
    Cardinality({k \in 1..MaxSeats : /\ Clockwise(t.hand.button, k) \in winners
                                     /\ \E j \in k..MaxSeats :
                                           Clockwise(t.hand.button, j) = s}) <= rem

\* One layer of contributions, up to the level m above floor: an uncalled
\* overlay goes back, a contested pot is raked and paid to its best hands, and
\* a pot none of whose contributors is live goes to the lowest seat.
AwardLayer(t, floor, m, scores, cfg, raked) ==
    LET layer == {s \in Seats : t.sh[s].total >= m}
        pot == (m - floor) * Cardinality(layer)
        rake == Lesser((pot * cfg.rakeBps) \div 10000, cfg.rakeCap - raked)
        winners == Winners(t, layer, scores)
        net == pot - rake
        n == Cardinality(winners)
        paid == [s \in Seats |->
                    IF Cardinality(layer) = 1 THEN IF s \in layer THEN pot ELSE 0
                    ELSE IF winners = {} THEN IF s = Lowest(layer) THEN net ELSE 0
                    ELSE IF s \in winners
                         THEN net \div n + IF OddChip(t, winners, s, net % n) THEN 1 ELSE 0
                    ELSE 0]
    IN  [paid |-> paid, rake |-> IF Cardinality(layer) = 1 THEN 0 ELSE rake]

\* The stacks and the rake once every layer is peeled off, in rising order.
Peeled(t, scores, cfg) ==
    LET levels == {t.sh[s].total : s \in Seats} \cup {0}
        After[m \in levels] ==
            IF m = 0 THEN [rake |-> 0, stack |-> t.stack]
            ELSE LET floor == Max({l \in levels : l < m})
                     acc == After[floor]
                     award == AwardLayer(t, floor, m, scores, cfg, acc.rake)
                 IN  [rake |-> acc.rake + award.rake,
                      stack |-> [s \in Seats |-> acc.stack[s] + award.paid[s]]]
    IN  After[Max(levels)]

\* _settleShowdown
SettleShowdown(t, scores, cfg) ==
    LET settled == Peeled(t, scores, cfg)
    IN  ClearHand([t EXCEPT !.stack = settled.stack, !.rake = @ + settled.rake])

-----------------------------------------------------------------------------
\* A hand called off

CancelHand(t) ==
    ClearHand([t EXCEPT !.stack = [s \in Seats |-> @[s] + t.sh[s].total]])

\* What the offender put in goes to the others by their own contributions, the
\* rest of the division to the last of them; alone, the offender keeps it.
CancelHandPenalized(t, offender) ==
    LET forfeit == t.sh[offender].total
        others == {s \in Seats \ {offender} : t.sh[s].total > 0}
        own == [s \in Seats |-> IF s \in others THEN t.sh[s].total ELSE 0]
        share == [s \in Seats |-> IF others = {} THEN 0
                                  ELSE (forfeit * own[s]) \div SumFunction(own)]
        last == CHOOSE s \in others : \A x \in others : x <= s
        dust == forfeit - SumFunction(share)
        extra == [s \in Seats |-> IF others = {} THEN IF s = offender THEN forfeit ELSE 0
                                  ELSE IF s = last THEN dust ELSE 0]
    IN  ClearHand([t EXCEPT !.stack = [s \in Seats |-> @[s] + own[s] + share[s] + extra[s]]])
=============================================================================
