-------------------------- MODULE PokerTournament --------------------------
(***************************************************************************)
(* contracts/poker/PokerTournament.sol: one event from its registration to *)
(* its winner, on the controlled tables of PokerRoom.  An entry pays a     *)
(* buy-in into the pool and a fee to the house; when the event starts its  *)
(* field is spread over as many tables as it needs; the operator raises    *)
(* the blinds, reports busted seats, forfeits abandoned ones and moves     *)
(* players between tables, all of it between hands; the last one standing  *)
(* ends the event.  Entries that wait for the creator's approval are left  *)
(* out, and so are other events, whose money is held beside this one's.    *)
(*                                                                         *)
(* A table deals hand after hand: how a hand goes is PokerRoom's subject,  *)
(* here its chips end up in any way among those dealt in.                  *)
(***************************************************************************)
EXTENDS Integers, Sequences, FiniteSets, FiniteSetsExt, Functions

CONSTANTS
  MAX_PLAYERS, SEATS,      \* maxPlayers, seatsPerTable
  STACK,                   \* startStack
  BUY_IN, FEE, SPONSORED,  \* per entry, per entry, by the creator
  PAYOUT_BPS, HOST_BPS,    \* the split by place; the creator's cut
  BB_START, GROWTH_BPS,    \* the geometric schedule
  Structures,              \* custom schedules (big blinds), <<>> for none
  MaxClock,                \* bound: level durations that pass
  MaxAway                  \* bound: players away at a time

CeilDiv(a, b) == (a + b - 1) \div b

Tables == 1..CeilDiv(MAX_PLAYERS, SEATS)
Seats == 1..SEATS
BPS == 10000

ASSUME TournamentAssumption ==
  /\ MAX_PLAYERS \in Nat /\ MAX_PLAYERS >= 2 /\ SEATS \in Nat /\ SEATS >= 2
  /\ STACK \in Nat \ {0}
  /\ BUY_IN \in Nat /\ FEE \in Nat /\ SPONSORED \in Nat
  /\ PAYOUT_BPS \in Seq(Nat) /\ Len(PAYOUT_BPS) <= MAX_PLAYERS
  /\ SumFunction(PAYOUT_BPS) = BPS
  /\ HOST_BPS \in 0..1000
  /\ BB_START \in Nat \ {0} /\ GROWTH_BPS \in 10500..40000
  /\ \A s \in Structures : s \in Seq(Nat \ {0})
  /\ MaxClock \in Nat /\ MaxAway \in Nat

VARIABLES
  structure,           \* the custom schedule of this event
  status, entrants,    \* status; players.length
  tables, seat,        \* how many tables are open; their seats
  hand, starting,      \* per table, the seats dealt in; those of a start under way
  remaining, level, bb,
  clock,               \* level durations since the start
  pool, feeCollected, balance,
  feesOut, chipsOut    \* withdrawn by the owner; chips of forfeited seats

eventVars == <<structure, status, entrants, tables, remaining, level, bb>>
moneyVars == <<pool, feeCollected, balance, feesOut>>
tableVars == <<seat, hand, starting, chipsOut>>
trnVars == <<eventVars, moneyVars, tableVars, clock>>

\* A seat: its stack, whether its player is dealt in or sat out, and since
\* when ("idle": for longer than idleForfeitSecs), and whether she walked away.
Vacant == [stack |-> 0, out |-> "vacant", away |-> FALSE]
Seated(chips) == [stack |-> chips, out |-> "in", away |-> FALSE]
Occupied(t) == {s \in Seats : seat[t][s] # Vacant}
Count(t) == Cardinality(Occupied(t))
Open == 1..tables
Away == {x \in Open \X Seats : seat[x[1]][x[2]].away}
InHand(t) == hand[t] # {}
Running == status = "running"

---------------------------------------------------------------------------
(* Money                                                                   *)

HostCut == (pool * HOST_BPS) \div BPS

Prize(place) ==
  IF place \in DOMAIN PAYOUT_BPS
  THEN ((pool - HostCut) * PAYOUT_BPS[place]) \div BPS ELSE 0

\* What a call-off before the start sends back; what is still to be paid, the
\* places from the first to the last one open and the house's fees.
RefundAll == (BUY_IN + FEE) * entrants + SPONSORED
Owed ==
  CASE status = "registering" -> RefundAll
    [] status = "running" ->
         SumFunction([i \in 1..remaining |-> Prize(i)]) + HostCut + feeCollected
    [] OTHER -> feeCollected
Backed == balance >= Owed

TrnInit ==
  /\ structure \in Structures
  /\ status = "registering" /\ entrants = 0
  /\ tables = 0
  /\ seat = [t \in Tables |-> [s \in Seats |-> Vacant]]
  /\ hand = [t \in Tables |-> {}] /\ starting = [t \in Tables |-> {}]
  /\ remaining = 0 /\ level = 0
  /\ bb = IF structure = <<>> THEN BB_START ELSE structure[1]
  /\ feeCollected = SPONSORED \div 10
  /\ pool = SPONSORED - SPONSORED \div 10
  /\ balance = SPONSORED
  /\ feesOut = 0 /\ chipsOut = 0 /\ clock = 0

Register ==
  /\ status = "registering" /\ entrants < MAX_PLAYERS
  /\ entrants' = entrants + 1
  /\ pool' = pool + BUY_IN /\ feeCollected' = feeCollected + FEE
  /\ balance' = balance + BUY_IN + FEE
  /\ UNCHANGED <<structure, status, tables, remaining, level, bb, feesOut, tableVars,
                 clock>>

\* The buy-in and the fee go back; the fee may have been withdrawn.
Unregister ==
  /\ status = "registering" /\ entrants > 0
  /\ balance >= BUY_IN + FEE
  /\ entrants' = entrants - 1
  /\ pool' = pool - BUY_IN
  /\ feeCollected' = IF feeCollected >= FEE THEN feeCollected - FEE ELSE feeCollected
  /\ balance' = balance - BUY_IN - FEE
  /\ UNCHANGED <<structure, status, tables, remaining, level, bb, feesOut, tableVars,
                 clock>>

\* Every entry and the whole sponsorship are sent back, or the call reverts.
Cancel ==
  LET fees == FEE * entrants + SPONSORED \div 10
  IN  /\ status = "registering"
      /\ balance >= RefundAll
      /\ status' = "cancelled"
      /\ feeCollected' = IF feeCollected >= fees THEN feeCollected - fees ELSE 0
      /\ balance' = balance - RefundAll /\ pool' = 0
      /\ UNCHANGED <<structure, entrants, tables, remaining, level, bb, feesOut,
                     tableVars, clock>>

\* The owner's withdrawal, which the dealing bot also makes on its own when
\* its gas runs low: of whatever was collected, at any time.  Bound: once.
WithdrawFees ==
  /\ feeCollected > 0 /\ balance >= feeCollected /\ feesOut = 0
  /\ balance' = balance - feeCollected
  /\ feesOut' = feesOut + feeCollected /\ feeCollected' = 0
  /\ UNCHANGED <<pool, eventVars, tableVars, clock>>

---------------------------------------------------------------------------
(* The event                                                               *)

\* Players go round the tables, seat after seat.
Field(n, open) ==
  [t \in Tables |-> [s \in Seats |->
     IF \E i \in 0..n - 1 : t = (i % open) + 1 /\ s = (i \div open) + 1
     THEN Seated(STACK) ELSE Vacant]]

CanStart == status = "registering" /\ entrants >= 2
Start ==
  LET open == CeilDiv(entrants, SEATS)
  IN  /\ CanStart
      /\ status' = "running" /\ tables' = open /\ remaining' = entrants
      /\ seat' = Field(entrants, open)
      /\ UNCHANGED <<structure, entrants, level, bb, moneyVars, hand, starting,
                     chipsOut, clock>>

BlindCap == STACK * entrants * 2

\* dueForLevelUp: a geometric schedule ends at the cap, a custom one never.
Due == Running /\ (structure = <<>> => bb < BlindCap) /\ clock > level

NextBlind ==
  IF level + 2 \in DOMAIN structure THEN structure[level + 2]
  ELSE LET grown == Max({(bb * GROWTH_BPS) \div BPS, bb + 1})
       IN  Min({grown, BlindCap})

\* levelUp: past its own checks the cap is not asked for.
CanLevelUp == Running /\ clock > level /\ \A t \in Open : ~InHand(t)
LevelUp ==
  /\ level' = level + 1 /\ bb' = NextBlind
  /\ UNCHANGED <<structure, status, entrants, tables, remaining, moneyVars, tableVars,
                 clock>>

\* _eliminate: the place is the number of those left; with the second place
\* the winner is paid too, and everyone has stood up.
\* (PlaceAfter: the place is taken after the count went down.)
PlaceAfter == remaining - 1
Place == remaining
Eliminate(t, s) ==
  LET last == remaining = 2
  IN  /\ remaining' = remaining - 1
      /\ status' = IF last THEN "finished" ELSE status
      /\ seat' = IF last THEN [u \in Tables |-> [v \in Seats |-> Vacant]]
                         ELSE [seat EXCEPT ![t][s] = Vacant]
      /\ balance' = balance - Prize(Place) - IF last THEN Prize(1) + HostCut ELSE 0
      /\ balance' >= 0
      /\ chipsOut' = chipsOut + IF last THEN STACK * entrants - chipsOut
                                        ELSE seat[t][s].stack
      /\ UNCHANGED <<structure, entrants, tables, level, bb, pool, feeCollected,
                     feesOut, hand, starting, clock>>

BetweenHands(t) == t \in Open /\ ~InHand(t)
CanReportBust(t, s) ==
  Running /\ BetweenHands(t) /\ s \in Occupied(t) /\ seat[t][s].stack = 0
CanForfeitIdle(t, s) ==
  Running /\ BetweenHands(t) /\ s \in Occupied(t) /\ seat[t][s].out = "idle"

\* movePlayer, with the room's check of the seat: the stack goes along, the
\* sitting out does not.
CanMove(from, s, to, d) ==
  /\ Running /\ BetweenHands(from) /\ BetweenHands(to) /\ from # to
  /\ s \in Occupied(from) /\ d \in Seats \ Occupied(to)
\* (MovedFresh: with a starting stack of the event.)
MovedFresh(p) == [p EXCEPT !.out = "in", !.stack = STACK]
Moved(p) == [p EXCEPT !.out = "in"]
MovePlayer(from, s, to, d) ==
  /\ seat' = [seat EXCEPT ![from][s] = Vacant, ![to][d] = Moved(seat[from][s])]
  /\ UNCHANGED <<eventVars, moneyVars, hand, starting, chipsOut, clock>>

---------------------------------------------------------------------------
(* The tables                                                              *)

Eligible(t) == {s \in Occupied(t) : seat[t][s].stack > 0 /\ seat[t][s].out = "in"}

\* The dealer's tick has a deal for those who answered, and starts the hand
\* unless the table is held.
BeginStart(t, held) ==
  /\ Running /\ BetweenHands(t) /\ ~held
  /\ starting[t] = {} /\ Cardinality(Eligible(t)) >= 2
  /\ \A s \in Eligible(t) : ~seat[t][s].away
  /\ starting' = [starting EXCEPT ![t] = Eligible(t)]
  /\ UNCHANGED <<eventVars, moneyVars, seat, hand, chipsOut, clock>>

\* startHand deals to those the deal was made for, or reverts.
StartMined(t) ==
  /\ starting[t] # {}
  /\ starting' = [starting EXCEPT ![t] = {}]
  /\ hand' = IF Eligible(t) = starting[t] /\ ~InHand(t)
             THEN [hand EXCEPT ![t] = starting[t]] ELSE hand
  /\ UNCHANGED <<eventVars, moneyVars, seat, chipsOut, clock>>

Chips(t, S) == SumFunction([s \in S |-> seat[t][s].stack])

HandEnds(t) ==
  /\ InHand(t)
  /\ \E won \in [hand[t] -> 0..Chips(t, hand[t])] :
        /\ SumFunction(won) = Chips(t, hand[t])
        /\ seat' = [seat EXCEPT ![t] =
                      [s \in Seats |-> IF s \in hand[t] THEN [@[s] EXCEPT !.stack = won[s]]
                                                        ELSE @[s]]]
  /\ hand' = [hand EXCEPT ![t] = {}]
  /\ UNCHANGED <<eventVars, moneyVars, starting, chipsOut, clock>>

\* A player walks away; the dealer sits her out when a deal waits for her;
\* after idleForfeitSecs she may be forfeited; until then she may return.
WalkAway(t, s) ==
  /\ Running /\ s \in Occupied(t) /\ ~seat[t][s].away
  /\ Cardinality(Away) < MaxAway
  /\ seat' = [seat EXCEPT ![t][s].away = TRUE]
  /\ UNCHANGED <<eventVars, moneyVars, hand, starting, chipsOut, clock>>

Strike(t, s, held) ==
  /\ Running /\ BetweenHands(t) /\ ~held
  /\ Cardinality(Eligible(t)) >= 2 /\ s \in Eligible(t) /\ seat[t][s].away
  /\ seat' = [seat EXCEPT ![t][s].out = "out"]
  /\ UNCHANGED <<eventVars, moneyVars, hand, starting, chipsOut, clock>>

WindowElapses(t, s) ==
  /\ Running /\ seat[t][s].out = "out"
  /\ seat' = [seat EXCEPT ![t][s].out = "idle"]
  /\ UNCHANGED <<eventVars, moneyVars, hand, starting, chipsOut, clock>>

SitIn(t, s) ==
  /\ Running /\ s \in Occupied(t) /\ seat[t][s].away
  /\ seat' = [seat EXCEPT ![t][s].away = FALSE, ![t][s].out = "in"]
  /\ UNCHANGED <<eventVars, moneyVars, hand, starting, chipsOut, clock>>

LevelDurationPasses ==
  /\ Running /\ clock < MaxClock
  /\ clock' = clock + 1
  /\ UNCHANGED <<eventVars, moneyVars, tableVars>>
=============================================================================
