--------------------------- MODULE PokerRoomProofs ---------------------------
(***************************************************************************)
(* Theorems about the poker room, for every table size, configuration,     *)
(* number of players and amount.  An invariant, RoomInv, gives that the    *)
(* turn is owed, that an accusation is current and that chips are          *)
(* conserved; from it follow the action properties: what a showdown and a  *)
(* hand called off pay to whom, and that the betting runs down.            *)
(*                                                                         *)
(* The engine's functions come first: each is shown to keep the table      *)
(* sound (typed, its pot counted, the live seats counted, the turn owed)   *)
(* and to neither make nor lose a chip.  The room's actions follow.        *)
(***************************************************************************)
EXTENDS PokerRoom, SumTheorems, TLAPS

SeatHand == [inHand : BOOLEAN, folded : BOOLEAN, allIn : BOOLEAN, hasActed : BOOLEAN,
             street : Nat, total : Nat]

Hand == [inProgress : BOOLEAN, street : (0..SHOWDOWN) \cup {IDLE}, button : Seats,
         acting : Seats \cup {NO_SEAT}, late : BOOLEAN, numInHand : Int,
         currentBet : Nat, minRaise : Nat, pot : Nat]

Table == [stack : [Seats -> Nat], hand : Hand, sh : [Seats -> SeatHand], rake : Nat]

-----------------------------------------------------------------------------
\* Round the table

LEMMA SeatsAre ==
  /\ MaxSeats \in Nat /\ MaxSeats \in 2..9 /\ RIVER \in 1..3
  /\ Seats \subseteq Nat /\ Seats # {} /\ 0 \in Seats /\ NO_SEAT \notin Seats
  /\ IsFiniteSet(Seats)
  <1>1. MaxSeats \in 2..9 /\ RIVER \in 1..3
    BY EngineAssumption
  <1>2. IsFiniteSet(0..(MaxSeats - 1))
    BY <1>1, FS_Interval
  <1> QED
    BY <1>1, <1>2 DEF Seats, NO_SEAT

\* The seats clockwise of any seat are all the seats, each once.
LEMMA ClockwiseIsRound ==
  ASSUME NEW from \in Seats
  PROVE  /\ \A k \in 1..MaxSeats : Clockwise(from, k) \in Seats
         /\ \A s \in Seats : \E k \in 1..MaxSeats : Clockwise(from, k) = s
         /\ \A j \in 1..MaxSeats, k \in 1..MaxSeats :
               Clockwise(from, j) = Clockwise(from, k) => j = k
  <1>0. MaxSeats \in 2..9 /\ from \in 0..(MaxSeats - 1)
    BY SeatsAre DEF Seats
  <1>1. \A k \in 1..MaxSeats :
           Clockwise(from, k) = IF from + k < MaxSeats THEN from + k ELSE from + k - MaxSeats
    <2> TAKE k \in 1..MaxSeats
    <2> CASE MaxSeats = 2  BY <1>0, MaxSeats = 2 DEF Clockwise
    <2> CASE MaxSeats = 3  BY <1>0, MaxSeats = 3 DEF Clockwise
    <2> CASE MaxSeats = 4  BY <1>0, MaxSeats = 4 DEF Clockwise
    <2> CASE MaxSeats = 5  BY <1>0, MaxSeats = 5 DEF Clockwise
    <2> CASE MaxSeats = 6  BY <1>0, MaxSeats = 6 DEF Clockwise
    <2> CASE MaxSeats = 7  BY <1>0, MaxSeats = 7 DEF Clockwise
    <2> CASE MaxSeats = 8  BY <1>0, MaxSeats = 8 DEF Clockwise
    <2> CASE MaxSeats = 9  BY <1>0, MaxSeats = 9 DEF Clockwise
    <2> QED
      BY <1>0
  <1>2. ASSUME NEW s \in Seats PROVE \E k \in 1..MaxSeats : Clockwise(from, k) = s
    <2>1. s \in 0..(MaxSeats - 1)
      BY DEF Seats
    <2> DEFINE k == IF s > from THEN s - from ELSE s + MaxSeats - from
    <2>2. k \in 1..MaxSeats
      BY <1>0, <2>1
    <2>3. Clockwise(from, k) = s
      BY <1>0, <1>1, <2>1, <2>2
    <2> QED
      BY <2>2, <2>3
  <1>3. \A k \in 1..MaxSeats : Clockwise(from, k) \in Seats
    BY <1>0, <1>1 DEF Seats
  <1>4. \A j \in 1..MaxSeats, k \in 1..MaxSeats :
           Clockwise(from, j) = Clockwise(from, k) => j = k
    BY <1>0, <1>1
  <1> QED
    BY <1>2, <1>3, <1>4

\* From NO_SEAT, too, every seat is reached.
LEMMA EverySeatIsReached ==
  ASSUME NEW from \in Seats \cup {NO_SEAT}, NEW s \in Seats
  PROVE  \E k \in 1..MaxSeats : Clockwise(from, k) = s
  <1>0. MaxSeats \in 2..9 /\ s \in 0..(MaxSeats - 1)
    BY SeatsAre DEF Seats
  <1>1. CASE from \in Seats
    BY <1>1, ClockwiseIsRound
  <1>2. CASE from = NO_SEAT
    <2>1. CASE MaxSeats = 2
      BY <1>0, <1>2, <2>1 DEF Clockwise, NO_SEAT
    <2>2. CASE MaxSeats = 3
      BY <1>0, <1>2, <2>2 DEF Clockwise, NO_SEAT
    <2>3. CASE MaxSeats = 4
      BY <1>0, <1>2, <2>3 DEF Clockwise, NO_SEAT
    <2>4. CASE MaxSeats = 5
      BY <1>0, <1>2, <2>4 DEF Clockwise, NO_SEAT
    <2>5. CASE MaxSeats = 6
      BY <1>0, <1>2, <2>5 DEF Clockwise, NO_SEAT
    <2>6. CASE MaxSeats = 7
      BY <1>0, <1>2, <2>6 DEF Clockwise, NO_SEAT
    <2>7. CASE MaxSeats = 8
      BY <1>0, <1>2, <2>7 DEF Clockwise, NO_SEAT
    <2>8. CASE MaxSeats = 9
      BY <1>0, <1>2, <2>8 DEF Clockwise, NO_SEAT
    <2> QED
      BY <1>0, <2>1, <2>2, <2>3, <2>4, <2>5, <2>6, <2>7, <2>8
  <1> QED
    BY <1>1, <1>2

\* The first seat after another one, of a set of seats, is of that set.
LEMMA FirstAfterIsOf ==
  ASSUME NEW from \in Seats \cup {NO_SEAT}, NEW S \in SUBSET Seats
  PROVE  IF S = {} THEN FirstAfter(from, S) = NO_SEAT ELSE FirstAfter(from, S) \in S
  <1>1. CASE S = {}
    BY <1>1 DEF FirstAfter
  <1>2. CASE S # {}
    <2> DEFINE K == {k \in 1..MaxSeats : Clockwise(from, k) \in S}
               P(k) == /\ Clockwise(from, k) \in S
                       /\ \A j \in 1..(k - 1) : Clockwise(from, j) \notin S
    <2>1. K # {}
      BY <1>2, EverySeatIsReached
    <2>2. K \in SUBSET Nat
      OBVIOUS
    <2>3. PICK k \in K : \A j \in K : k <= j
      BY ONLY <2>1, <2>2, LeastNat
    <2>4. k \in 1..MaxSeats /\ P(k)
      BY <2>3, SeatsAre
    <2>5. P(CHOOSE x \in 1..MaxSeats : P(x))
      BY <2>4
    <2>6. FirstAfter(from, S) = Clockwise(from, CHOOSE x \in 1..MaxSeats : P(x))
      BY <1>2 DEF FirstAfter
    <2> QED
      BY <1>2, <2>5, <2>6
  <1> QED
    BY <1>1, <1>2

LEMMA LowestIsOf ==
  ASSUME NEW S \in SUBSET Seats, S # {}
  PROVE  Lowest(S) \in S
  <1>1. S \in SUBSET Nat
    BY SeatsAre
  <1>2. \E s \in S : \A x \in S : s <= x
    BY ONLY <1>1, S # {}, LeastNat
  <1> QED
    BY <1>2 DEF Lowest

\* A finite set of seats, or of amounts put in by seats, has a greatest element.
LEMMA SeatSets ==
  ASSUME NEW S \in SUBSET Seats
  PROVE  IsFiniteSet(S) /\ Cardinality(S) \in Nat /\ (Cardinality(S) = 0 <=> S = {})
  <1>1. IsFiniteSet(S)
    BY SeatsAre, FS_Subset
  <1> QED
    BY <1>1, FS_CardinalityType, FS_EmptySet

-----------------------------------------------------------------------------
\* What a sound table is

Stacks(t)  == SumFunction(t.stack)
Streets(t) == SumFunction([s \in Seats |-> t.sh[s].street])
Totals(t)  == SumFunction([s \in Seats |-> t.sh[s].total])

\* The chips of the table, wherever they are.
Chips(t) == Stacks(t) + AtStake(t) + t.rake

\* A hand in progress: the pot and the street's bets are what the seats put in, and
\* a seat that can still act has chips behind.
Staked(t) ==
  /\ t \in Table
  /\ t.hand.inProgress
  /\ t.hand.street \in 0..SHOWDOWN
  /\ t.hand.pot + Streets(t) = Totals(t)
  /\ \A s \in Seats : t.sh[s].street <= t.sh[s].total
  /\ \A s \in Seats : CanAct(t, s) => t.stack[s] > 0

BettingAt(t) == t.hand.inProgress /\ t.hand.street <= RIVER

\* The code's count may fall short of the live seats (see NumInHandCounts), but
\* never exceeds them, and while there is betting it is two at least.
Counted(t, least) == t.hand.numInHand \in least..Cardinality(InHand(t))

TurnOK(t) ==
  IF t.hand.acting = NO_SEAT
  THEN \A s \in Seats : ~OwesAction(t, s)
  ELSE t.hand.acting \in Seats /\ OwesAction(t, t.hand.acting)

Sound(t) ==
  /\ t \in Table
  /\ t.hand.inProgress => Staked(t) /\ InHand(t) # {}
  /\ BettingAt(t) => Counted(t, 2) /\ TurnOK(t)

\* From t to u the same hand goes on: no seat takes back what it put in, only live
\* seats put in more, and chips leave the stacks only.
SameHand(t, u) ==
  \A s \in Seats :
     /\ t.sh[s].total <= u.sh[s].total
     /\ u.sh[s].inHand => t.sh[s].inHand
     /\ u.sh[s].total > 0 => t.sh[s].total > 0 \/ t.sh[s].inHand
     /\ u.stack[s] <= t.stack[s]

\* The end of a hand pays only seats that are in it.
PaidInHand(t, u) ==
  \A s \in Seats : u.stack[s] > t.stack[s] => t.sh[s].inHand \/ t.sh[s].total > 0

-----------------------------------------------------------------------------
\* Sums over the seats

LEMMA SeatSum ==
  ASSUME NEW f \in [Seats -> Nat]
  PROVE  SumFunction(f) = SumFunctionOnSet(f, Seats) /\ SumFunction(f) \in Nat
  <1>1. SumFunction(f) = SumFunctionOnSet(f, Seats)
    BY DEF SumFunction
  <1>2. \A s \in Seats : f[s] \in Nat
    OBVIOUS
  <1>3. SumFunctionOnSet(f, Seats) \in Nat
    BY ONLY <1>2, SeatsAre, SumIn
  <1> QED
    BY <1>1, <1>3

LEMMA TableSums ==
  ASSUME NEW t \in Table
  PROVE  /\ Stacks(t) \in Nat /\ Streets(t) \in Nat /\ Totals(t) \in Nat
         /\ [s \in Seats |-> t.sh[s].street] \in [Seats -> Nat]
         /\ [s \in Seats |-> t.sh[s].total] \in [Seats -> Nat]
  <1>1. \A s \in Seats : t.sh[s] \in SeatHand
    BY DEF Table
  <1>2. [s \in Seats |-> t.sh[s].street] \in [Seats -> Nat]
    BY <1>1 DEF SeatHand
  <1>3. [s \in Seats |-> t.sh[s].total] \in [Seats -> Nat]
    BY <1>1 DEF SeatHand
  <1>4. t.stack \in [Seats -> Nat]
    BY DEF Table
  <1> QED
    BY <1>2, <1>3, <1>4, SeatSum DEF Stacks, Streets, Totals

\* One seat's entry changes.
ChangedAt(f, g, s, d) ==
  /\ f \in [Seats -> Nat] /\ g \in [Seats -> Nat] /\ s \in Seats /\ d \in Int
  /\ g[s] = f[s] + d
  /\ \A x \in Seats \ {s} : g[x] = f[x]

LEMMA SeatSumChanges ==
  ASSUME NEW f, NEW g, NEW s, NEW d, ChangedAt(f, g, s, d)
  PROVE  SumFunction(g) = SumFunction(f) + d
  <1>1. DifferAt(f, g, Seats, s)
    BY DEF ChangedAt, DifferAt
  <1>2. SumFunctionOnSet(g, Seats) = SumFunctionOnSet(f, Seats) + g[s] - f[s]
    BY ONLY <1>1, SeatsAre, SumDiffer
  <1>3. /\ SumFunction(f) = SumFunctionOnSet(f, Seats) /\ SumFunction(f) \in Nat
        /\ SumFunction(g) = SumFunctionOnSet(g, Seats)
    BY SeatSum DEF ChangedAt
  <1>4. f[s] \in Nat /\ g[s] = f[s] + d /\ d \in Int
    BY DEF ChangedAt
  <1> QED
    BY <1>2, <1>3, <1>4

\* Every seat's entry changes, by g.
LEMMA SeatSumAdds ==
  ASSUME NEW f \in [Seats -> Nat], NEW g \in [Seats -> Nat], NEW h \in [Seats -> Nat],
         \A s \in Seats : h[s] = f[s] + g[s]
  PROVE  SumFunction(h) = SumFunction(f) + SumFunction(g)
  <1>1. \A s \in Seats : f[s] \in Int /\ g[s] \in Int /\ h[s] = f[s] + g[s]
    OBVIOUS
  <1>2. SumFunctionOnSet(h, Seats) = SumFunctionOnSet(f, Seats) + SumFunctionOnSet(g, Seats)
    BY ONLY <1>1, SeatsAre, SumPlus
  <1> QED
    BY <1>2, SeatSum

LEMMA SeatSumZero ==
  ASSUME NEW f \in [Seats -> Nat], \A s \in Seats : f[s] = 0
  PROVE  SumFunction(f) = 0
  <1>1. SumFunctionOnSet(f, Seats) = 0
    BY SeatsAre, SumAllZero
  <1> QED
    BY <1>1, SeatSum

-----------------------------------------------------------------------------
\* Chips into the pot

Paying(h, street, total, all) ==
  [h EXCEPT !.street = street, !.total = total, !.allIn = all]

LEMMA SeatPays ==
  ASSUME NEW h \in SeatHand, NEW street \in Nat, NEW total \in Nat, NEW all \in BOOLEAN
  PROVE  LET paid == Paying(h, street, total, all)
         IN  /\ paid \in SeatHand
             /\ paid.street = street /\ paid.total = total
             /\ paid.inHand = h.inHand /\ paid.folded = h.folded
             /\ paid.hasActed = h.hasActed /\ paid.allIn = all
  BY DEF SeatHand, Paying

LEMMA CommitStreetKeeps ==
  ASSUME NEW t, Staked(t), NEW s \in Seats, NEW amount \in Nat, amount <= t.stack[s],
         t.sh[s].inHand
  PROVE  LET u == CommitStreet(t, s, amount)
         IN  /\ Staked(u)
             /\ Chips(u) = Chips(t)
             /\ u.hand = t.hand
             /\ u.stack[s] = t.stack[s] - amount
             /\ u.sh[s].street = t.sh[s].street + amount
             /\ \A x \in Seats : /\ u.sh[x].inHand = t.sh[x].inHand
                                 /\ u.sh[x].folded = t.sh[x].folded
                                 /\ u.sh[x].hasActed = t.sh[x].hasActed
             /\ \A x \in Seats \ {s} : u.stack[x] = t.stack[x] /\ u.sh[x] = t.sh[x]
             /\ InHand(u) = InHand(t)
             /\ SameHand(t, u)
  <1> DEFINE u == CommitStreet(t, s, amount)
  <1>0. /\ t \in Table /\ t.stack \in [Seats -> Nat] /\ t.sh \in [Seats -> SeatHand]
        /\ \A x \in Seats : t.sh[x] \in SeatHand
    BY DEF Staked, Table
  <1>1. CASE amount = 0
    <2>1. u = t
      BY <1>1 DEF CommitStreet
    <2>2. \A x \in Seats : t.sh[x].total \in Nat /\ t.sh[x].street \in Nat /\ t.stack[x] \in Nat
      BY <1>0 DEF SeatHand
    <2> QED
      BY <1>1, <2>1, <2>2 DEF SameHand
  <1>2. CASE amount # 0
    <2>p. PICK all \in BOOLEAN : all = (t.sh[s].allIn \/ t.stack[s] = amount)
      OBVIOUS
    <2> DEFINE one == Paying(t.sh[s], t.sh[s].street + amount, t.sh[s].total + amount, all)
               st == [t.stack EXCEPT ![s] = @ - amount]
               sh == [t.sh EXCEPT ![s] = one]
    <2>1. u = [t EXCEPT !.stack = st, !.sh = sh]
      BY <1>2, <2>p, Zenon DEF CommitStreet, Paying
    <2>b. /\ t.sh[s] \in SeatHand /\ all \in BOOLEAN /\ t.sh[s].allIn \in BOOLEAN
          /\ t.sh[s].street + amount \in Nat /\ t.sh[s].total + amount \in Nat
          /\ all = TRUE <=> (t.sh[s].allIn = TRUE \/ t.stack[s] = amount)
      BY <1>0, <2>p DEF SeatHand
    <2>2. st \in [Seats -> Nat]
      BY <1>0
    <2>3. sh[s] = one
      BY <1>0
    <2>4. /\ one \in SeatHand
          /\ one.street = t.sh[s].street + amount /\ one.total = t.sh[s].total + amount
          /\ one.inHand = t.sh[s].inHand /\ one.folded = t.sh[s].folded
          /\ one.hasActed = t.sh[s].hasActed /\ one.allIn = all
      <3> DEFINE h == t.sh[s]
                 street == t.sh[s].street + amount
                 total == t.sh[s].total + amount
      <3>1. h \in SeatHand /\ street \in Nat /\ total \in Nat /\ all \in BOOLEAN
        BY <2>b
      <3> HIDE DEF h, street, total
      <3> DEFINE paid == Paying(h, street, total, all)
      <3>2. /\ paid \in SeatHand /\ paid.street = street /\ paid.total = total
            /\ paid.inHand = h.inHand /\ paid.folded = h.folded
            /\ paid.hasActed = h.hasActed /\ paid.allIn = all
        BY ONLY <3>1, SeatPays
      <3> QED
        BY ONLY <3>2 DEF h, street, total
    <2> HIDE DEF one
    <2>5. /\ sh[s].street = t.sh[s].street + amount
          /\ sh[s].total = t.sh[s].total + amount
          /\ sh[s].inHand = t.sh[s].inHand /\ sh[s].folded = t.sh[s].folded
          /\ sh[s].hasActed = t.sh[s].hasActed
          /\ sh[s].allIn = all
      BY <2>3, <2>4
    <2>6. \A x \in Seats \ {s} : sh[x] = t.sh[x] /\ st[x] = t.stack[x]
      BY <1>0
    <2>7. sh \in [Seats -> SeatHand]
      BY <1>0, <2>4, <2>6
    <2>8. u \in Table /\ u.stack = st /\ u.sh = sh /\ u.hand = t.hand /\ u.rake = t.rake
      <3> HIDE DEF st, sh
      <3> QED
        BY <1>0, <2>1, <2>2, <2>7 DEF Table
    <2>9. st[s] = t.stack[s] - amount
      BY <1>0
    <2> HIDE DEF st, sh, u
    <2>n. \A x \in Seats : /\ t.sh[x].total \in Nat /\ t.sh[x].street \in Nat
                           /\ sh[x].total \in Nat /\ sh[x].street \in Nat
                           /\ t.stack[x] \in Nat /\ st[x] \in Nat
      BY <1>0, <2>2, <2>7 DEF SeatHand
    <2>10. Stacks(u) = Stacks(t) - amount
      <3>1. ChangedAt(t.stack, st, s, 0 - amount)
        BY <1>0, <2>2, <2>6, <2>9 DEF ChangedAt
      <3>2. SumFunction(st) = SumFunction(t.stack) + (0 - amount)
        BY ONLY <3>1, SeatSumChanges
      <3> QED
        BY <2>8, <3>2, <1>0, TableSums DEF Stacks
    <2>11. Streets(u) = Streets(t) + amount
      <3> DEFINE f == [x \in Seats |-> t.sh[x].street]
                 g == [x \in Seats |-> sh[x].street]
      <3>1. f \in [Seats -> Nat] /\ g \in [Seats -> Nat]
        BY <2>n
      <3>2. g[s] = f[s] + amount /\ \A x \in Seats \ {s} : g[x] = f[x]
        BY <2>5, <2>6
      <3>3. ChangedAt(f, g, s, amount)
        BY <3>1, <3>2 DEF ChangedAt
      <3>4. SumFunction(g) = SumFunction(f) + amount
        BY ONLY <3>3, SeatSumChanges
      <3> QED
        BY <3>4, <2>8 DEF Streets
    <2>12. Totals(u) = Totals(t) + amount
      <3> DEFINE f == [x \in Seats |-> t.sh[x].total]
                 g == [x \in Seats |-> sh[x].total]
      <3>1. f \in [Seats -> Nat] /\ g \in [Seats -> Nat]
        BY <2>n
      <3>2. g[s] = f[s] + amount /\ \A x \in Seats \ {s} : g[x] = f[x]
        BY <2>5, <2>6
      <3>3. ChangedAt(f, g, s, amount)
        BY <3>1, <3>2 DEF ChangedAt
      <3>4. SumFunction(g) = SumFunction(f) + amount
        BY ONLY <3>3, SeatSumChanges
      <3> QED
        BY <3>4, <2>8 DEF Totals
    <2>13. Chips(u) = Chips(t)
      <3>1. AtStake(u) = Totals(u) /\ AtStake(t) = Totals(t)
        BY <2>8 DEF AtStake, Totals, Staked
      <3>2. t.rake \in Nat
        BY <1>0 DEF Table
      <3> QED
        BY <3>1, <3>2, <2>8, <2>10, <2>12, <1>0, TableSums DEF Chips
    <2>14. Staked(u)
      <3>1. \A x \in Seats : u.sh[x].street <= u.sh[x].total
        BY <2>5, <2>6, <2>8, <2>n DEF Staked
      <3>2. u.hand.pot + Streets(u) = Totals(u)
        <4>1. t.hand.pot \in Nat
          BY <1>0 DEF Table, Hand
        <4> QED
          BY <4>1, <2>8, <2>11, <2>12, <1>0, TableSums DEF Staked
      <3>3. ASSUME NEW x \in Seats, CanAct(u, x) PROVE u.stack[x] > 0
        <4>1. CASE x = s
          <5>0. u.sh[s].allIn = all
            BY <2>5, <2>8
          <5>1. all # TRUE
            BY <5>0, <3>3, <4>1 DEF CanAct
          <5>2. t.stack[s] # amount
            BY <2>b, <5>1
          <5>3. t.stack[s] \in Nat /\ st[s] = t.stack[s] - amount /\ u.stack = st
            BY <2>8, <2>9, <2>n
          <5>4. st[s] > 0
            BY <5>2, <5>3
          <5> QED
            BY <4>1, <5>3, <5>4
        <4>2. CASE x # s
          BY <2>6, <2>8, <3>3, <4>2 DEF Staked, CanAct
        <4> QED
          BY <4>1, <4>2
      <3> QED
        BY <2>8, <3>1, <3>2, <3>3 DEF Staked
    <2>15. InHand(u) = InHand(t)
      BY <2>5, <2>6, <2>8 DEF InHand
    <2>16. SameHand(t, u)
      BY <2>5, <2>6, <2>8, <2>9, <2>n DEF SameHand
    <2> QED
      BY <2>5, <2>6, <2>8, <2>9, <2>13, <2>14, <2>15, <2>16 DEF u
  <1> QED
    BY <1>1, <1>2

\* From t to u seats of S post dead money.
Posted(t, S, u) ==
  /\ Staked(u)
  /\ Chips(u) = Chips(t)
  /\ u.hand.numInHand = t.hand.numInHand /\ u.hand.street = t.hand.street
  /\ \A x \in Seats : u.sh[x].total > 0 => t.sh[x].total > 0 \/ x \in S
  /\ \A x \in Seats : u.stack[x] <= t.stack[x]
  /\ InHand(u) = InHand(t)

\* An ante or a dead blind goes straight into the pot.
LEMMA PostDeadKeeps ==
  ASSUME NEW t, Staked(t), NEW S \in SUBSET Seats, NEW amount \in Nat
  PROVE  Posted(t, S, PostDead(t, S, amount))
  <1> DEFINE due == [s \in Seats |-> IF s \in S THEN Lesser(amount, t.stack[s]) ELSE 0]
             u == PostDead(t, S, amount)
  <1>0. /\ t \in Table /\ t.stack \in [Seats -> Nat] /\ t.sh \in [Seats -> SeatHand]
        /\ \A x \in Seats : t.sh[x] \in SeatHand
        /\ t.hand \in Hand /\ t.hand.pot \in Nat /\ t.rake \in Nat
    BY DEF Staked, Table, Hand
  <1>1. /\ due \in [Seats -> Nat] /\ \A x \in Seats : due[x] \in 0..t.stack[x]
        /\ \A x \in Seats : x \notin S => due[x] = 0
    BY <1>0 DEF Lesser
  <1>2. PICK all \in [Seats -> BOOLEAN] :
           \A x \in Seats :
              all[x] = (t.sh[x].allIn \/ (t.sh[x].inHand /\ due[x] > 0 /\ due[x] = t.stack[x]))
    <2> HIDE DEF due
    <2> DEFINE a == [x \in Seats |->
                        (t.sh[x].allIn \/ (t.sh[x].inHand /\ due[x] > 0 /\ due[x] = t.stack[x]))]
    <2>1. a \in [Seats -> BOOLEAN]
      OBVIOUS
    <2> QED
      BY <2>1
  <1> DEFINE st == [s \in Seats |-> t.stack[s] - due[s]]
             sh == [s \in Seats |-> Paying(t.sh[s], t.sh[s].street,
                                           t.sh[s].total + due[s], all[s])]
             pot == t.hand.pot + SumFunction(due)
  <1>3. u = [t EXCEPT !.stack = st, !.sh = sh, !.hand.pot = pot]
    <2>1. ASSUME NEW s \in Seats
          PROVE  Paying(t.sh[s], t.sh[s].street, t.sh[s].total + due[s], all[s])
                 = [t.sh[s] EXCEPT
                      !.total = @ + due[s],
                      !.allIn = @ \/ (t.sh[s].inHand /\ due[s] > 0 /\ due[s] = t.stack[s])]
      <3> HIDE DEF due
      <3>1. t.sh[s] \in SeatHand
        BY <1>0
      <3>2. all[s] = (t.sh[s].allIn \/ (t.sh[s].inHand /\ due[s] > 0 /\ due[s] = t.stack[s]))
        BY <1>2
      <3>3. [t.sh[s] EXCEPT !.street = t.sh[s].street, !.total = t.sh[s].total + due[s],
                            !.allIn = all[s]]
            = [t.sh[s] EXCEPT !.total = t.sh[s].total + due[s], !.allIn = all[s]]
        BY <3>1 DEF SeatHand
      <3> QED
        BY <3>2, <3>3, Zenon DEF Paying
    <2> DEFINE sh2 == [s \in Seats |->
                   [t.sh[s] EXCEPT
                      !.total = @ + due[s],
                      !.allIn = @ \/ (t.sh[s].inHand /\ due[s] > 0 /\ due[s] = t.stack[s])]]
    <2>2. sh = sh2
      <3> HIDE DEF due
      <3> QED
        BY <2>1, Zenon
    <2>3. u = [t EXCEPT !.stack = st, !.sh = sh2, !.hand.pot = @ + SumFunction(due)]
      BY Zenon DEF PostDead
    <2> HIDE DEF sh, sh2, st, due, u
    <2> QED
      BY <2>2, <2>3
  <1> HIDE DEF due, u
  <1>n. \A x \in Seats : /\ t.sh[x].total \in Nat /\ t.sh[x].street \in Nat
                         /\ t.sh[x].total + due[x] \in Nat /\ all[x] \in BOOLEAN
                         /\ t.sh[x] \in SeatHand /\ t.stack[x] \in Nat
    BY <1>0, <1>1, <1>2 DEF SeatHand
  <1>4. ASSUME NEW x \in Seats
        PROVE  /\ sh[x] \in SeatHand
               /\ sh[x].street = t.sh[x].street /\ sh[x].total = t.sh[x].total + due[x]
               /\ sh[x].inHand = t.sh[x].inHand /\ sh[x].folded = t.sh[x].folded
               /\ sh[x].hasActed = t.sh[x].hasActed /\ sh[x].allIn = all[x]
    <2> DEFINE h == t.sh[x]
               street == t.sh[x].street
               total == t.sh[x].total + due[x]
               b == all[x]
    <2>1. h \in SeatHand /\ street \in Nat /\ total \in Nat /\ b \in BOOLEAN
      BY <1>n
    <2>2. sh[x] = Paying(h, street, total, b)
      OBVIOUS
    <2> HIDE DEF h, street, total, b, sh
    <2> DEFINE paid == Paying(h, street, total, b)
    <2>3. /\ paid \in SeatHand /\ paid.street = street /\ paid.total = total
          /\ paid.inHand = h.inHand /\ paid.folded = h.folded
          /\ paid.hasActed = h.hasActed /\ paid.allIn = b
      BY ONLY <2>1, SeatPays
    <2> QED
      BY <2>2, <2>3 DEF h, street, total, b
  <1>5. sh \in [Seats -> SeatHand]
    <2>1. \A x \in Seats : sh[x] \in SeatHand
      BY <1>4
    <2>2. sh = [x \in Seats |-> sh[x]]
      OBVIOUS
    <2> HIDE DEF sh
    <2> QED
      BY <2>1, <2>2
  <1>6. st \in [Seats -> Nat] /\ \A x \in Seats : st[x] = t.stack[x] - due[x]
    BY <1>1, <1>n
  <1>7. SumFunction(due) \in Nat
    BY <1>1, SeatSum
  <1>8. pot \in Nat
    BY <1>0, <1>7
  <1> HIDE DEF sh, st
  <1>9. /\ u \in Table /\ u.stack = st /\ u.sh = sh /\ u.rake = t.rake
        /\ u.hand = [t.hand EXCEPT !.pot = pot]
    <2>1. u = [t EXCEPT !.stack = st, !.sh = sh, !.hand = [t.hand EXCEPT !.pot = pot]]
      BY <1>0, <1>3 DEF Table
    <2>2. [t.hand EXCEPT !.pot = pot] \in Hand
      <3> HIDE DEF pot
      <3> QED
        BY <1>0, <1>8 DEF Hand
    <2> HIDE DEF pot
    <2> QED
      BY <1>0, <1>5, <1>6, <2>1, <2>2 DEF Table
  <1>10. /\ u.hand.pot = pot /\ u.hand.inProgress /\ u.hand.street = t.hand.street
         /\ u.hand.numInHand = t.hand.numInHand
    <2> HIDE DEF pot
    <2> QED
      BY <1>0, <1>9 DEF Hand, Staked
  <1>11. Stacks(t) = Stacks(u) + SumFunction(due)
    <2>1. \A s \in Seats : t.stack[s] = st[s] + due[s]
      BY <1>1, <1>6, <1>n
    <2>2. SumFunction(t.stack) = SumFunction(st) + SumFunction(due)
      BY ONLY <2>1, <1>0, <1>1, <1>6, SeatSumAdds
    <2> QED
      BY <2>2, <1>9 DEF Stacks
  <1>12. Totals(u) = Totals(t) + SumFunction(due)
    <2> DEFINE f == [x \in Seats |-> t.sh[x].total]
               g == [x \in Seats |-> sh[x].total]
    <2>1. f \in [Seats -> Nat] /\ g \in [Seats -> Nat]
      BY <1>n, <1>4
    <2>2. \A x \in Seats : g[x] = f[x] + due[x]
      BY <1>4
    <2>3. Totals(u) = SumFunction(g) /\ Totals(t) = SumFunction(f)
      BY <1>9 DEF Totals
    <2> HIDE DEF f, g
    <2>4. SumFunction(g) = SumFunction(f) + SumFunction(due)
      BY ONLY <2>1, <2>2, <1>1, SeatSumAdds
    <2> QED
      BY <2>3, <2>4
  <1>13. Streets(u) = Streets(t)
    <2>1. [x \in Seats |-> sh[x].street] = [x \in Seats |-> t.sh[x].street]
      BY <1>4
    <2> QED
      BY <2>1, <1>9, Zenon DEF Streets
  <1>14. Chips(u) = Chips(t)
    <2>1. AtStake(u) = Totals(u) /\ AtStake(t) = Totals(t)
      BY <1>10 DEF AtStake, Totals, Staked
    <2> QED
      BY <2>1, <1>0, <1>7, <1>9, <1>11, <1>12, TableSums DEF Chips
  <1>15. ASSUME NEW x \in Seats, CanAct(u, x) PROVE u.stack[x] > 0
    <2>1. CanAct(t, x) /\ all[x] # TRUE
      <3>1. sh[x].inHand /\ ~sh[x].folded /\ ~sh[x].allIn
        BY <1>9, <1>15 DEF CanAct
      <3>2. t.sh[x].inHand /\ ~t.sh[x].folded /\ ~all[x]
        BY <3>1, <1>4
      <3>3. ~t.sh[x].allIn
        BY <1>2, <3>2
      <3> QED
        BY <3>2, <3>3 DEF CanAct
    <2>2. t.stack[x] > 0 /\ ~(t.sh[x].inHand /\ due[x] > 0 /\ due[x] = t.stack[x])
      <3>1. ~all[x]
        BY <2>1, <1>n
      <3> QED
        BY <1>2, <2>1, <3>1 DEF Staked
    <2>3. due[x] # t.stack[x]
      BY <2>1, <2>2 DEF CanAct
    <2> QED
      <3>1. due[x] \in 0..t.stack[x] /\ t.stack[x] \in Nat /\ st[x] = t.stack[x] - due[x]
        BY <1>1, <1>6, <1>n
      <3>2. st[x] > 0
        BY <2>3, <3>1
      <3> QED
        BY <3>2, <1>9
  <1>16. Staked(u)
    <2>1. \A x \in Seats : u.sh[x].street <= u.sh[x].total
      BY <1>4, <1>9, <1>1, <1>n DEF Staked
    <2>2. u.hand.pot + Streets(u) = Totals(u)
      BY <1>0, <1>7, <1>10, <1>12, <1>13, TableSums DEF Staked
    <2> QED
      BY <1>9, <1>10, <1>15, <2>1, <2>2 DEF Staked
  <1>17. \A x \in Seats : u.sh[x].total > 0 => t.sh[x].total > 0 \/ x \in S
    BY <1>4, <1>9, <1>1, <1>n
  <1>18. InHand(u) = InHand(t)
    BY <1>4, <1>9 DEF InHand
  <1>19. \A x \in Seats : u.stack[x] <= t.stack[x]
    BY <1>1, <1>6, <1>9, <1>n
  <1> QED
    BY <1>9, <1>10, <1>14, <1>16, <1>17, <1>18, <1>19 DEF u, Posted

-----------------------------------------------------------------------------
\* The hand's own fields

WithHand(t, h) == [t EXCEPT !.hand = h]

LEMMA HandChanges ==
  ASSUME NEW t, Staked(t), NEW h \in Hand,
         h.inProgress /\ h.street \in 0..SHOWDOWN /\ h.pot = t.hand.pot
  PROVE  LET u == WithHand(t, h)
         IN  /\ Staked(u) /\ Chips(u) = Chips(t)
             /\ u.hand = h /\ u.sh = t.sh /\ u.stack = t.stack /\ u.rake = t.rake
             /\ InHand(u) = InHand(t) /\ SameHand(t, u)
  <1> DEFINE u == WithHand(t, h)
  <1>0. t \in Table
    BY DEF Staked
  <1>1. /\ u \in Table /\ u.hand = h /\ u.sh = t.sh /\ u.stack = t.stack
        /\ u.rake = t.rake
    BY <1>0 DEF Table, WithHand
  <1> HIDE DEF u
  <1>2. InHand(u) = InHand(t) /\ \A s \in Seats : CanAct(u, s) <=> CanAct(t, s)
    BY <1>1 DEF InHand, CanAct
  <1>3. Stacks(u) = Stacks(t) /\ Totals(u) = Totals(t) /\ Streets(u) = Streets(t)
    BY <1>1, Zenon DEF Stacks, Totals, Streets
  <1>4. Chips(u) = Chips(t)
    <2>1. AtStake(u) = Totals(u) /\ AtStake(t) = Totals(t)
      BY <1>1 DEF AtStake, Totals, Staked
    <2> QED
      BY <2>1, <1>1, <1>3 DEF Chips
  <1>5. Staked(u)
    BY <1>1, <1>2, <1>3 DEF Staked
  <1>6. SameHand(t, u)
    <2>1. \A s \in Seats : t.sh[s].total \in Nat /\ t.stack[s] \in Nat
      BY <1>0 DEF Table, SeatHand
    <2> QED
      BY <1>1, <2>1 DEF SameHand
  <1> QED
    BY <1>1, <1>2, <1>4, <1>5, <1>6 DEF u

\* The turn goes to a seat that owes an action, or to none if none does.
LEMMA TurnIsGiven ==
  ASSUME NEW t, Staked(t), NEW from \in Seats \cup {NO_SEAT}
  PROVE  LET u == GiveTurn(t, NextToAct(t, from))
         IN  /\ Staked(u) /\ TurnOK(u) /\ Chips(u) = Chips(t)
             /\ u.sh = t.sh /\ u.stack = t.stack /\ InHand(u) = InHand(t)
             /\ u.hand.street = t.hand.street /\ u.hand.numInHand = t.hand.numInHand
             /\ SameHand(t, u)
  <1> DEFINE S == {s \in Seats : OwesAction(t, s)}
             next == NextToAct(t, from)
             h == [t.hand EXCEPT !.acting = next, !.late = FALSE]
             u == GiveTurn(t, next)
  <1>0. t \in Table /\ t.hand \in Hand
    BY DEF Staked, Table
  <1>1. IF S = {} THEN next = NO_SEAT ELSE next \in S
    <2>1. S \in SUBSET Seats /\ next = FirstAfter(from, S)
      BY DEF NextToAct
    <2> QED
      BY ONLY <2>1, from \in Seats \cup {NO_SEAT}, FirstAfterIsOf
  <1>2. next \in Seats \cup {NO_SEAT}
    BY <1>1
  <1> HIDE DEF next
  <1>3. /\ h \in Hand /\ h.inProgress = t.hand.inProgress /\ h.street = t.hand.street
        /\ h.pot = t.hand.pot /\ h.numInHand = t.hand.numInHand /\ h.acting = next
        /\ h.currentBet = t.hand.currentBet
    BY <1>0, <1>2 DEF Hand
  <1>4. u = WithHand(t, h)
    BY <1>0 DEF GiveTurn, WithHand, Table
  <1>5. h.inProgress /\ h.street \in 0..SHOWDOWN /\ h.pot = t.hand.pot /\ h \in Hand
    BY <1>3 DEF Staked
  <1> HIDE DEF h, u
  <1>6. /\ Staked(u) /\ Chips(u) = Chips(t)
        /\ u.hand = h /\ u.sh = t.sh /\ u.stack = t.stack
        /\ InHand(u) = InHand(t) /\ SameHand(t, u)
    BY ONLY <1>4, <1>5, Staked(t), HandChanges
  <1>7. \A s \in Seats : OwesAction(u, s) <=> OwesAction(t, s)
    BY <1>3, <1>6 DEF OwesAction, CanAct
  <1>8. TurnOK(u)
    <2>1. u.hand.acting = next
      BY <1>3, <1>6
    <2>2. CASE S = {}
      <3>1. next = NO_SEAT
        BY <1>1, <2>2
      <3> QED
        BY <2>1, <2>2, <3>1, <1>7 DEF TurnOK
    <2>3. CASE S # {}
      <3>1. next \in S /\ next # NO_SEAT
        BY <1>1, <2>3, SeatsAre
      <3> QED
        BY <2>1, <3>1, <1>7 DEF TurnOK
    <2> QED
      BY <2>2, <2>3
  <1> QED
    BY <1>3, <1>6, <1>8 DEF u, next

-----------------------------------------------------------------------------
\* The deal

\* The seats that are dealt in, before anything is posted.
Fresh(t, elig, button, c) ==
  [t EXCEPT !.sh = [s \in Seats |-> [NotDealt EXCEPT !.inHand = s \in elig]],
            !.hand = [inProgress |-> TRUE, street |-> PREFLOP,
                      button |-> button, acting |-> NO_SEAT, late |-> FALSE,
                      numInHand |-> Cardinality(elig), currentBet |-> 0,
                      minRaise |-> c.bigBlind, pot |-> 0]]

LEMMA FreshIsStaked ==
  ASSUME NEW t \in Table, NEW elig \in SUBSET Seats, NEW button \in Seats,
         NEW c \in TableConfig, \A s \in elig : t.stack[s] > 0
  PROVE  LET u == Fresh(t, elig, button, c)
         IN  /\ Staked(u) /\ Chips(u) = Stacks(t) + t.rake
             /\ InHand(u) = elig /\ u.hand.numInHand = Cardinality(elig)
             /\ u.hand.street = PREFLOP /\ u.stack = t.stack
             /\ \A s \in Seats : u.sh[s].total = 0
  <1> DEFINE sh == [s \in Seats |-> [NotDealt EXCEPT !.inHand = s \in elig]]
             hand == [inProgress |-> TRUE, street |-> PREFLOP,
                      button |-> button, acting |-> NO_SEAT, late |-> FALSE,
                      numInHand |-> Cardinality(elig), currentBet |-> 0,
                      minRaise |-> c.bigBlind, pot |-> 0]
             u == Fresh(t, elig, button, c)
  <1>1. ASSUME NEW s \in Seats
        PROVE  /\ sh[s] \in SeatHand /\ sh[s].total = 0 /\ sh[s].street = 0
               /\ sh[s].inHand <=> s \in elig
               /\ ~sh[s].folded /\ ~sh[s].allIn
    <2>1. CASE s \in elig
      <3> DEFINE r == [inHand |-> TRUE, folded |-> FALSE, allIn |-> FALSE,
                       hasActed |-> FALSE, street |-> 0, total |-> 0]
      <3>1. sh[s] = r
        BY <2>1, (s \in elig) = TRUE DEF NotDealt
      <3>2. sh[s].inHand = TRUE /\ sh[s].folded = FALSE /\ sh[s].allIn = FALSE
            /\ sh[s].total = 0 /\ sh[s].street = 0
        BY ONLY <3>1
      <3>3. r \in SeatHand
        BY DEF SeatHand
      <3> HIDE DEF sh, r
      <3> QED
        BY <2>1, <3>1, <3>2, <3>3
    <2>2. CASE s \notin elig
      <3> DEFINE r == [inHand |-> FALSE, folded |-> FALSE, allIn |-> FALSE,
                       hasActed |-> FALSE, street |-> 0, total |-> 0]
      <3>1. sh[s] = r
        BY <2>2, (s \in elig) = FALSE DEF NotDealt
      <3>2. sh[s].inHand = FALSE /\ sh[s].folded = FALSE /\ sh[s].allIn = FALSE
            /\ sh[s].total = 0 /\ sh[s].street = 0
        BY ONLY <3>1
      <3>3. r \in SeatHand
        BY DEF SeatHand
      <3> HIDE DEF sh, r
      <3> QED
        BY <2>2, <3>1, <3>2, <3>3
    <2> QED
      BY <2>1, <2>2
  <1>2. sh \in [Seats -> SeatHand]
    <2>1. \A s \in Seats : sh[s] \in SeatHand
      BY <1>1
    <2>2. sh = [s \in Seats |-> sh[s]]
      OBVIOUS
    <2> HIDE DEF sh
    <2> QED
      BY <2>1, <2>2
  <1>3. hand \in Hand
    <2>1. Cardinality(elig) \in Int /\ c.bigBlind \in Nat
      BY SeatSets DEF TableConfig
    <2>2. PREFLOP \in (0..SHOWDOWN) \cup {IDLE} /\ 0 \in Nat /\ RIVER + 1 \in Nat
      BY SeatsAre DEF PREFLOP, SHOWDOWN
    <2> DEFINE n == Cardinality(elig)
    <2> HIDE DEF n
    <2> QED
      BY <2>1, <2>2 DEF Hand, n
  <1>4. u = [t EXCEPT !.sh = sh, !.hand = hand]
    BY DEF Fresh
  <1>5. hand.pot = 0 /\ hand.street = PREFLOP /\ hand.inProgress
        /\ hand.numInHand = Cardinality(elig)
    OBVIOUS
  <1> HIDE DEF sh, hand, u
  <1>6. u \in Table /\ u.sh = sh /\ u.hand = hand /\ u.stack = t.stack /\ u.rake = t.rake
    BY <1>2, <1>3, <1>4 DEF Table
  <1>7. Streets(u) = 0
    <2> DEFINE f == [s \in Seats |-> sh[s].street]
    <2>1. f \in [Seats -> Nat] /\ \A s \in Seats : f[s] = 0
      BY <1>1
    <2>2. Streets(u) = SumFunction(f)
      BY <1>6 DEF Streets
    <2> HIDE DEF f
    <2> QED
      BY <2>1, <2>2, SeatSumZero
  <1>8. Totals(u) = 0
    <2> DEFINE f == [s \in Seats |-> sh[s].total]
    <2>1. f \in [Seats -> Nat] /\ \A s \in Seats : f[s] = 0
      BY <1>1
    <2>2. Totals(u) = SumFunction(f)
      BY <1>6 DEF Totals
    <2> HIDE DEF f
    <2> QED
      BY <2>1, <2>2, SeatSumZero
  <1>9. InHand(u) = elig
    BY <1>1, <1>6 DEF InHand
  <1>10. Staked(u)
    <2>1. u.hand.street \in 0..SHOWDOWN
      BY <1>5, <1>6, SeatsAre DEF PREFLOP, SHOWDOWN
    <2>2. \A s \in Seats : u.sh[s].street <= u.sh[s].total
      BY <1>1, <1>6
    <2>3. ASSUME NEW s \in Seats, CanAct(u, s) PROVE u.stack[s] > 0
      BY <1>1, <1>6, <2>3 DEF CanAct
    <2> QED
      BY <1>5, <1>6, <1>7, <1>8, <2>1, <2>2, <2>3 DEF Staked
  <1>11. Chips(u) = Stacks(t) + t.rake
    <2>1. AtStake(u) = Totals(u) /\ Stacks(u) = Stacks(t)
      BY <1>5, <1>6 DEF AtStake, Totals, Stacks
    <2>2. Stacks(t) \in Nat /\ t.rake \in Nat
      BY TableSums DEF Table
    <2> QED
      BY <2>1, <2>2, <1>6, <1>8 DEF Chips
  <1> QED
    BY <1>1, <1>5, <1>6, <1>9, <1>10, <1>11 DEF u

LEMMA LesserIs ==
  ASSUME NEW a \in Int, NEW b \in Int
  PROVE  /\ Lesser(a, b) <= a /\ Lesser(a, b) <= b /\ Lesser(a, b) \in {a, b}
         /\ Greater(a, b) >= a /\ Greater(a, b) >= b /\ Greater(a, b) \in {a, b}
  BY DEF Lesser, Greater

\* A blind: as much of it as the seat has.
LEMMA BlindKeeps ==
  ASSUME NEW t, Staked(t), NEW s \in InHand(t), NEW blind \in Nat
  PROVE  LET u == CommitStreet(t, s, Lesser(blind, t.stack[s]))
         IN  /\ Staked(u) /\ Chips(u) = Chips(t) /\ u.hand = t.hand
             /\ InHand(u) = InHand(t) /\ SameHand(t, u)
  <1> DEFINE amount == Lesser(blind, t.stack[s])
  <1>1. s \in Seats /\ t.sh[s].inHand
    BY DEF InHand
  <1>2. t.stack[s] \in Nat
    BY <1>1 DEF Staked, Table
  <1>3. amount \in Nat /\ amount <= t.stack[s]
    BY <1>2 DEF Lesser
  <1> HIDE DEF amount
  <1> QED
    BY <1>1, <1>3, CommitStreetKeeps DEF amount

LEMMA SameHandTwice ==
  ASSUME NEW t \in Table, NEW u \in Table, NEW v \in Table, SameHand(t, u), SameHand(u, v)
  PROVE  SameHand(t, v)
  <1>1. \A s \in Seats : /\ t.sh[s].total \in Nat /\ u.sh[s].total \in Nat
                         /\ v.sh[s].total \in Nat
                         /\ t.stack[s] \in Nat /\ u.stack[s] \in Nat /\ v.stack[s] \in Nat
    BY DEF Table, SeatHand
  <1> QED
    BY <1>1 DEF SameHand

LEMMA BlindsArePosted ==
  ASSUME NEW t, Staked(t), NEW button \in InHand(t), Cardinality(InHand(t)) >= 2,
         NEW c \in TableConfig
  PROVE  LET u == PostBlinds(t, InHand(t), button, c)
         IN  /\ Staked(u) /\ Chips(u) = Chips(t) /\ InHand(u) = InHand(t) /\ SameHand(t, u)
             /\ u.hand.street = t.hand.street /\ u.hand.numInHand = t.hand.numInHand
             /\ BigBlindSeat(InHand(t), button) \in InHand(t)
  <1> DEFINE elig == InHand(t)
             sb == SmallBlindSeat(elig, button)
             bb == BigBlindSeat(elig, button)
             t1 == CommitStreet(t, sb, Lesser(c.smallBlind, t.stack[sb]))
             t2 == CommitStreet(t1, bb, Lesser(c.bigBlind, t1.stack[bb]))
             h == [t2.hand EXCEPT !.currentBet = c.bigBlind, !.minRaise = c.bigBlind]
             u == PostBlinds(t, InHand(t), button, c)
  <1>0. elig \in SUBSET Seats /\ elig # {} /\ button \in elig
    BY DEF InHand
  <1>1. sb \in elig
    <2>1. FirstAfter(button, elig) \in elig
      BY <1>0, FirstAfterIsOf
    <2> QED
      BY <1>0, <2>1 DEF SmallBlindSeat
  <1>2. bb \in elig
    BY <1>0, <1>1, FirstAfterIsOf DEF BigBlindSeat
  <1>3. c.smallBlind \in Nat /\ c.bigBlind \in Nat
    BY DEF TableConfig
  <1>4. u = WithHand(t2, h)
    <2>1. u = [t2 EXCEPT !.hand.currentBet = c.bigBlind, !.hand.minRaise = c.bigBlind]
      BY DEF PostBlinds
    <2> HIDE DEF t2, u
    <2> QED
      BY <2>1 DEF WithHand
  <1> HIDE DEF sb, bb
  <1>5. /\ Staked(t1) /\ Chips(t1) = Chips(t) /\ t1.hand = t.hand
        /\ InHand(t1) = elig /\ SameHand(t, t1)
    BY <1>1, <1>3, BlindKeeps
  <1> HIDE DEF t1
  <1>6. bb \in InHand(t1)
    BY <1>2, <1>5
  <1>7. /\ Staked(t2) /\ Chips(t2) = Chips(t1) /\ t2.hand = t1.hand
        /\ InHand(t2) = InHand(t1) /\ SameHand(t1, t2)
    BY <1>3, <1>5, <1>6, BlindKeeps
  <1> HIDE DEF t2
  <1>8. /\ h \in Hand /\ h.inProgress /\ h.street = t2.hand.street /\ h.pot = t2.hand.pot
        /\ h.numInHand = t2.hand.numInHand
    BY <1>3, <1>7 DEF Staked, Table, Hand
  <1>9. h.inProgress /\ h.street \in 0..SHOWDOWN /\ h.pot = t2.hand.pot
    BY <1>7, <1>8 DEF Staked
  <1> HIDE DEF h, u
  <1>10. /\ Staked(u) /\ Chips(u) = Chips(t2) /\ u.hand = h
         /\ InHand(u) = InHand(t2) /\ SameHand(t2, u)
    BY <1>4, <1>7, <1>8, <1>9, HandChanges
  <1>11. SameHand(t, u)
    <2>1. t \in Table /\ t1 \in Table /\ t2 \in Table /\ u \in Table
      BY <1>5, <1>7, <1>10 DEF Staked
    <2>2. SameHand(t, t2)
      BY <2>1, <1>5, <1>7, SameHandTwice
    <2> QED
      BY <2>1, <2>2, <1>10, SameHandTwice
  <1> QED
    BY <1>2, <1>5, <1>7, <1>8, <1>10, <1>11 DEF u, bb

\* A deal leaves a sound table, makes no chip, and only seats that are dealt in or
\* sit out have chips in it.
LEMMA DealIsSound ==
  ASSUME NEW t \in Table, NEW elig \in SUBSET Seats, NEW absent \in SUBSET Seats,
         elig \cap absent = {}, NEW button \in elig, NEW c \in TableConfig,
         Cardinality(elig) >= 2, \A s \in elig : t.stack[s] > 0
  PROVE  LET u == Deal(t, elig, absent, button, c)
         IN  /\ Sound(u)
             /\ Chips(u) = Stacks(t) + t.rake
             /\ u.hand.inProgress
             /\ \A s \in Seats : u.sh[s].inHand \/ u.sh[s].total > 0 => s \in elig \cup absent
             /\ \A s \in Seats : u.stack[s] <= t.stack[s]
  <1> DEFINE t0 == Fresh(t, elig, button, c)
             t1 == PostDead(t0, elig, c.ante)
             t2 == IF c.controlled THEN PostDead(t1, absent, c.bigBlind) ELSE t1
             t3 == PostBlinds(t2, elig, button, c)
             bb == BigBlindSeat(elig, button)
             u == Deal(t, elig, absent, button, c)
  <1>0. c.ante \in Nat /\ c.bigBlind \in Nat /\ c.controlled \in BOOLEAN
    BY DEF TableConfig
  <1>1. u = GiveTurn(t3, NextToAct(t3, bb))
    BY Zenon DEF Deal, Fresh
  <1>2. /\ Staked(t0) /\ Chips(t0) = Stacks(t) + t.rake /\ InHand(t0) = elig
        /\ t0.hand.numInHand = Cardinality(elig) /\ t0.hand.street = PREFLOP
        /\ t0.stack = t.stack
        /\ \A s \in Seats : t0.sh[s].total = 0
    <2>1. button \in Seats
      OBVIOUS
    <2> QED
      BY <2>1, FreshIsStaked
  <1> HIDE DEF t0
  <1>3. /\ Staked(t1) /\ Chips(t1) = Chips(t0) /\ InHand(t1) = elig
        /\ t1.hand.numInHand = Cardinality(elig) /\ t1.hand.street = PREFLOP
        /\ \A s \in Seats : t1.sh[s].total > 0 => s \in elig
        /\ \A s \in Seats : t1.stack[s] <= t0.stack[s]
    <2>1. /\ Staked(t1) /\ Chips(t1) = Chips(t0) /\ InHand(t1) = InHand(t0)
          /\ t1.hand.numInHand = t0.hand.numInHand /\ t1.hand.street = t0.hand.street
          /\ \A s \in Seats : t1.sh[s].total > 0 => t0.sh[s].total > 0 \/ s \in elig
          /\ \A s \in Seats : t1.stack[s] <= t0.stack[s]
      <3> DEFINE ante == c.ante
      <3>1. Staked(t0) /\ ante \in Nat
        BY <1>0, <1>2
      <3> HIDE DEF ante
      <3>2. Posted(t0, elig, PostDead(t0, elig, ante))
        BY ONLY <3>1, elig \in SUBSET Seats, PostDeadKeeps
      <3> QED
        BY <3>2 DEF ante, Posted
    <2> HIDE DEF t1
    <2> QED
      BY <1>2, <2>1
  <1> HIDE DEF t1
  <1>4. /\ Staked(t2) /\ Chips(t2) = Chips(t0) /\ InHand(t2) = elig
        /\ t2.hand.numInHand = Cardinality(elig) /\ t2.hand.street = PREFLOP
        /\ \A s \in Seats : t2.sh[s].total > 0 => s \in elig \cup absent
        /\ \A s \in Seats : t2.stack[s] <= t1.stack[s]
    <2>1. CASE c.controlled
      <3> DEFINE v == PostDead(t1, absent, c.bigBlind)
      <3>2. /\ Staked(v) /\ Chips(v) = Chips(t1) /\ InHand(v) = InHand(t1)
            /\ v.hand.numInHand = t1.hand.numInHand /\ v.hand.street = t1.hand.street
            /\ \A s \in Seats : v.sh[s].total > 0 => t1.sh[s].total > 0 \/ s \in absent
            /\ \A s \in Seats : v.stack[s] <= t1.stack[s]
        <4> DEFINE ante == c.bigBlind
        <4>1. Staked(t1) /\ ante \in Nat
          BY <1>0, <1>3
        <4> HIDE DEF ante
        <4>2. Posted(t1, absent, PostDead(t1, absent, ante))
          BY ONLY <4>1, absent \in SUBSET Seats, PostDeadKeeps
        <4> QED
          BY <4>2 DEF ante, Posted
      <3>3. t2 = v
        BY <2>1
      <3> HIDE DEF v, t2
      <3> QED
        BY <1>3, <3>2, <3>3
    <2>2. CASE ~c.controlled
      <3>1. t2 = t1
        BY <2>2
      <3> HIDE DEF t2
      <3>2. \A s \in Seats : t1.stack[s] \in Nat
        BY <1>3 DEF Staked, Table
      <3> QED
        BY <1>3, <3>1, <3>2
    <2> QED
      BY <2>1, <2>2
  <1> HIDE DEF t2
  <1>5. /\ Staked(t3) /\ Chips(t3) = Chips(t2) /\ InHand(t3) = elig /\ SameHand(t2, t3)
        /\ t3.hand.street = PREFLOP /\ t3.hand.numInHand = Cardinality(elig) /\ bb \in elig
    <2>1. button \in InHand(t2) /\ Cardinality(InHand(t2)) >= 2
      BY <1>4
    <2>2. LET w == PostBlinds(t2, InHand(t2), button, c)
          IN  /\ Staked(w) /\ Chips(w) = Chips(t2) /\ InHand(w) = InHand(t2)
              /\ SameHand(t2, w)
              /\ w.hand.street = t2.hand.street /\ w.hand.numInHand = t2.hand.numInHand
              /\ BigBlindSeat(InHand(t2), button) \in InHand(t2)
      BY ONLY <1>4, <2>1, c \in TableConfig, BlindsArePosted
    <2> QED
      BY <1>4, <2>2
  <1> HIDE DEF t3, bb, u
  <1>6. /\ Staked(u) /\ TurnOK(u) /\ Chips(u) = Chips(t3) /\ u.sh = t3.sh
        /\ u.stack = t3.stack
        /\ InHand(u) = InHand(t3) /\ u.hand.street = t3.hand.street
        /\ u.hand.numInHand = t3.hand.numInHand
    <2>1. bb \in Seats \cup {NO_SEAT}
      BY <1>5
    <2> QED
      BY <1>1, <1>5, <2>1, TurnIsGiven
  <1>7. Sound(u)
    <2>1. InHand(u) # {} /\ Cardinality(elig) \in 2..Cardinality(InHand(u))
      BY <1>5, <1>6, SeatSets, FS_EmptySet
    <2>2. Counted(u, 2)
      BY <2>1, <1>5, <1>6 DEF Counted
    <2> QED
      BY <1>6, <2>1, <2>2 DEF Sound, Staked
  <1>8. ASSUME NEW s \in Seats, u.sh[s].inHand \/ u.sh[s].total > 0
        PROVE  s \in elig \cup absent
    <2>1. t3.sh[s].inHand => s \in elig
      BY <1>5 DEF InHand
    <2>2. t3.sh[s].total > 0 => t2.sh[s].total > 0 \/ t2.sh[s].inHand
      BY <1>5 DEF SameHand
    <2>3. t2.sh[s].inHand => s \in elig
      BY <1>4 DEF InHand
    <2> QED
      BY <1>4, <1>6, <1>8, <2>1, <2>2, <2>3
  <1>9. u.hand.inProgress
    BY <1>6 DEF Staked
  <1>10. ASSUME NEW s \in Seats PROVE u.stack[s] <= t.stack[s]
    <2>1. /\ t0.stack[s] \in Nat /\ t1.stack[s] \in Nat /\ t2.stack[s] \in Nat
          /\ t3.stack[s] \in Nat
      BY <1>2, <1>3, <1>4, <1>5 DEF Staked, Table
    <2>2. t3.stack[s] <= t2.stack[s]
      BY <1>5 DEF SameHand
    <2> QED
      BY <2>1, <2>2, <1>2, <1>3, <1>4, <1>6
  <1> QED
    BY <1>2, <1>4, <1>5, <1>6, <1>7, <1>8, <1>9, <1>10 DEF u

-----------------------------------------------------------------------------
\* The end of a hand

\* The hand is cleared with these stacks and this rake.
Settled(t, stack, rake) == ClearHand([t EXCEPT !.stack = stack, !.rake = rake])

\* What a step of the hand from t to u must do.
Played(t, u) ==
  /\ Sound(u) /\ Chips(u) = Chips(t)
  /\ u.hand.inProgress => SameHand(t, u)
  /\ ~u.hand.inProgress => PaidInHand(t, u)

\* A hand that goes on and then ends pays only seats that were in it.
LEMMA PaidInSameHand ==
  ASSUME NEW t \in Table, NEW u \in Table, NEW v \in Table, SameHand(t, u), PaidInHand(u, v)
  PROVE  PaidInHand(t, v)
  <1> SUFFICES ASSUME NEW s \in Seats, v.stack[s] > t.stack[s]
               PROVE  t.sh[s].inHand \/ t.sh[s].total > 0
    BY DEF PaidInHand
  <1>1. t.stack[s] \in Nat /\ u.stack[s] \in Nat /\ v.stack[s] \in Nat
    BY DEF Table
  <1>2. u.stack[s] <= t.stack[s]
    BY DEF SameHand
  <1>3. u.sh[s].inHand \/ u.sh[s].total > 0
    BY <1>1, <1>2 DEF PaidInHand
  <1> QED
    BY <1>3 DEF SameHand

LEMMA HandIsOver ==
  ASSUME NEW t \in Table, NEW stack \in [Seats -> Nat], NEW rake \in Nat
  PROVE  LET u == Settled(t, stack, rake)
         IN  /\ Sound(u) /\ ~u.hand.inProgress
             /\ u.stack = stack /\ u.rake = rake
             /\ Chips(u) = SumFunction(stack) + rake
  <1> DEFINE sh == [s \in Seats |-> NotDealt]
             u == Settled(t, stack, rake)
  <1>1. NotDealt \in SeatHand
    BY DEF NotDealt, SeatHand
  <1>2. NoHand \in Hand /\ NoHand.inProgress = FALSE
    BY SeatsAre DEF NoHand, Hand
  <1>3. sh \in [Seats -> SeatHand]
    BY <1>1
  <1>4. u = [t EXCEPT !.stack = stack, !.rake = rake, !.hand = NoHand, !.sh = sh]
    BY DEF Settled, ClearHand
  <1> HIDE DEF sh, u
  <1>5. /\ u \in Table /\ u.stack = stack /\ u.rake = rake /\ u.hand = NoHand
    BY <1>2, <1>3, <1>4 DEF Table
  <1>6. Chips(u) = SumFunction(stack) + rake
    <2>1. SumFunction(stack) \in Nat
      BY SeatSum
    <2>2. AtStake(u) = 0 /\ Stacks(u) = SumFunction(stack)
      BY <1>2, <1>5 DEF AtStake, Stacks
    <2> QED
      BY <2>1, <2>2, <1>5 DEF Chips
  <1>7. Sound(u)
    BY <1>2, <1>5 DEF Sound, BettingAt
  <1> QED
    BY <1>2, <1>5, <1>6, <1>7 DEF u

Share(pot, bps) == (pot * bps) \div 10000

LEMMA RakeIsInPot ==
  ASSUME NEW pot \in Nat, NEW bps \in 0..1000
  PROVE  Share(pot, bps) \in 0..pot
  <1>1. pot * bps <= pot * 1000 /\ pot * bps >= 0 /\ pot * bps \in Nat
    BY Z3
  <1> DEFINE x == pot * bps
  <1>2. x \in Nat /\ x <= pot * 1000
    BY <1>1
  <1> HIDE DEF x
  <1>3. x \div 10000 \in Nat /\ x \div 10000 <= pot
    BY <1>2
  <1> QED
    BY <1>3 DEF x, Share

LEMMA RakeIsBounded ==
  ASSUME NEW pot \in Nat, NEW c \in TableConfig
  PROVE  Rake(pot, c) \in 0..pot
  <1>1. c.rakeBps \in 0..1000 /\ c.rakeCap \in Nat
    BY DEF TableConfig
  <1> DEFINE x == Share(pot, c.rakeBps)
  <1>3. x \in 0..pot
    <2> DEFINE bps == c.rakeBps
    <2>1. bps \in 0..1000
      BY <1>1
    <2> HIDE DEF bps
    <2>2. Share(pot, bps) \in 0..pot
      BY <2>1, RakeIsInPot
    <2> QED
      BY <2>2 DEF bps
  <1>4. Rake(pot, c) = IF c.controlled THEN 0 ELSE Lesser(x, c.rakeCap)
    BY DEF Rake, Share
  <1> HIDE DEF x
  <1> QED
    BY <1>1, <1>3, <1>4 DEF Lesser

\* The last seat left takes the pot, less the rake.
LEMMA FoldWinPays ==
  ASSUME NEW t, Staked(t), Streets(t) = 0, InHand(t) # {}, NEW c \in TableConfig
  PROVE  Played(t, EndFoldWin(t, c)) /\ ~EndFoldWin(t, c).hand.inProgress
  <1> DEFINE winner == Lowest(InHand(t))
             rake == IF t.hand.street >= FLOP THEN Rake(t.hand.pot, c) ELSE 0
             gain == t.hand.pot - rake
             st == [t.stack EXCEPT ![winner] = @ + t.hand.pot - rake]
             u == EndFoldWin(t, c)
  <1>0. /\ t \in Table /\ t.stack \in [Seats -> Nat] /\ t.rake \in Nat
        /\ t.hand.pot \in Nat /\ t.hand.pot = Totals(t)
    <2>1. t \in Table /\ t.hand.pot \in Nat
      BY DEF Staked, Table, Hand
    <2> QED
      BY <2>1, TableSums DEF Staked, Table
  <1>1. winner \in Seats
    <2>1. InHand(t) \in SUBSET Seats
      BY DEF InHand
    <2> QED
      BY <2>1, LowestIsOf
  <1>2. rake \in 0..t.hand.pot
    BY <1>0, RakeIsBounded
  <1> HIDE DEF rake, winner
  <1>3. gain \in Nat /\ rake \in Nat /\ gain + rake = t.hand.pot
    BY <1>0, <1>2
  <1>4. st \in [Seats -> Nat] /\ st[winner] = t.stack[winner] + gain
    <2>1. t.stack[winner] \in Nat
      BY <1>0, <1>1
    <2>2. t.stack[winner] + t.hand.pot - rake = t.stack[winner] + gain
      BY <1>0, <1>2, <2>1
    <2>3. t.stack[winner] + gain \in Nat
      BY <1>3, <2>1
    <2> DEFINE v == t.stack[winner] + t.hand.pot - rake
    <2>4. v \in Nat /\ v = t.stack[winner] + gain
      BY <2>2, <2>3
    <2> HIDE DEF v, gain
    <2>5. [t.stack EXCEPT ![winner] = v] \in [Seats -> Nat]
          /\ [t.stack EXCEPT ![winner] = v][winner] = v
      BY <1>0, <1>1, <2>4
    <2> QED
      BY <2>4, <2>5 DEF v
  <1>5. \A x \in Seats \ {winner} : st[x] = t.stack[x]
    BY <1>0
  <1>6. u = Settled(t, st, t.rake + rake)
    <2>1. u = ClearHand([t EXCEPT !.stack[winner] = @ + t.hand.pot - rake, !.rake = @ + rake])
      BY DEF EndFoldWin, winner, rake
    <2>2. [t EXCEPT !.stack[winner] = @ + t.hand.pot - rake, !.rake = @ + rake]
          = [t EXCEPT !.stack = st, !.rake = t.rake + rake]
      BY <1>0 DEF Table
    <2> QED
      BY <2>1, <2>2, Zenon DEF Settled
  <1>7. SumFunction(st) = SumFunction(t.stack) + gain
    <2> HIDE DEF st, gain
    <2>1. ChangedAt(t.stack, st, winner, gain)
      BY <1>0, <1>1, <1>3, <1>4, <1>5 DEF ChangedAt
    <2> QED
      BY ONLY <2>1, SeatSumChanges
  <1> HIDE DEF st, gain, u
  <1>8. /\ Sound(u) /\ ~u.hand.inProgress /\ u.stack = st
        /\ Chips(u) = SumFunction(st) + (t.rake + rake)
    <2>1. t.rake + rake \in Nat
      BY <1>0, <1>3
    <2> QED
      BY <2>1, <1>0, <1>4, <1>6, HandIsOver
  <1>9. Chips(t) = SumFunction(t.stack) + t.hand.pot + t.rake
    BY <1>0 DEF Chips, Stacks, AtStake, Totals, Staked
  <1>10. SumFunction(t.stack) \in Nat
    BY <1>0, SeatSum
  <1>11. Chips(u) = Chips(t)
    BY <1>0, <1>3, <1>7, <1>8, <1>9, <1>10
  <1>12. PaidInHand(t, u)
    <2>1. t.sh[winner].inHand
      <3>1. InHand(t) \in SUBSET Seats
        BY DEF InHand
      <3>2. winner \in InHand(t)
        BY <3>1, LowestIsOf DEF winner
      <3> QED
        BY <3>2 DEF InHand
    <2>2. \A s \in Seats : t.stack[s] \in Nat
      BY <1>0
    <2> QED
      BY <1>5, <1>8, <2>1, <2>2 DEF PaidInHand
  <1> QED
    BY <1>8, <1>11, <1>12 DEF Played, u

-----------------------------------------------------------------------------
\* The end of a street

\* The bets go into the pot: nothing else changes but who has acted.
SweptOf(t, u) ==
  /\ Staked(u) /\ Chips(u) = Chips(t) /\ Streets(u) = 0
  /\ InHand(u) = InHand(t) /\ SameHand(t, u)
  /\ u.hand.street = t.hand.street /\ u.hand.numInHand = t.hand.numInHand
  /\ u.hand.button = t.hand.button
  /\ \A s \in Seats : CanAct(u, s) <=> CanAct(t, s)

LEMMA SweepSweeps ==
  ASSUME NEW t, Staked(t), NEW c \in TableConfig
  PROVE  SweptOf(t, Sweep(t, c))
  <1> DEFINE sh == [s \in Seats |-> [t.sh[s] EXCEPT !.street = 0, !.hasActed = FALSE]]
             streets == [s \in Seats |-> t.sh[s].street]
             hand == [t.hand EXCEPT !.pot = t.hand.pot + Streets(t), !.currentBet = 0,
                                    !.minRaise = c.bigBlind]
             u == Sweep(t, c)
  <1>0. /\ t \in Table /\ t.stack \in [Seats -> Nat] /\ t.sh \in [Seats -> SeatHand]
        /\ \A x \in Seats : t.sh[x] \in SeatHand
        /\ t.hand \in Hand /\ t.hand.pot \in Nat /\ t.rake \in Nat
    BY DEF Staked, Table, Hand
  <1>1. u = [t EXCEPT !.sh = sh, !.hand = hand]
    <2>1. u = [t EXCEPT !.hand.pot = @ + Streets(t), !.sh = sh, !.hand.currentBet = 0,
                        !.hand.minRaise = c.bigBlind]
      BY DEF Sweep, Streets
    <2> HIDE DEF sh, u
    <2> QED
      BY <2>1, <1>0 DEF Table
  <1>2. \A s \in Seats : /\ sh[s] \in SeatHand
                         /\ sh[s].street = 0 /\ sh[s].total = t.sh[s].total
                         /\ sh[s].inHand = t.sh[s].inHand /\ sh[s].folded = t.sh[s].folded
                         /\ sh[s].allIn = t.sh[s].allIn
    BY <1>0 DEF SeatHand
  <1>3. sh \in [Seats -> SeatHand]
    <2>1. \A x \in Seats : sh[x] \in SeatHand
      BY <1>2
    <2>2. sh = [x \in Seats |-> sh[x]]
      OBVIOUS
    <2> HIDE DEF sh
    <2> QED
      BY <2>1, <2>2
  <1>4. Streets(t) \in Nat /\ Totals(t) \in Nat /\ c.bigBlind \in Nat
    BY <1>0, TableSums DEF TableConfig
  <1>5. /\ hand \in Hand /\ hand.inProgress /\ hand.street = t.hand.street
        /\ hand.pot = t.hand.pot + Streets(t) /\ hand.numInHand = t.hand.numInHand
        /\ hand.button = t.hand.button
    <2> DEFINE p == t.hand.pot + Streets(t)
    <2>1. p \in Nat
      BY <1>0, <1>4
    <2> HIDE DEF p
    <2> QED
      BY <1>0, <1>4, <2>1 DEF Hand, Staked
  <1> HIDE DEF sh, hand, u
  <1>6. /\ u \in Table /\ u.sh = sh /\ u.hand = hand /\ u.stack = t.stack
        /\ u.rake = t.rake
    BY <1>0, <1>1, <1>3, <1>5 DEF Table
  <1>7. Streets(u) = 0
    <2> DEFINE f == [s \in Seats |-> sh[s].street]
    <2>1. f \in [Seats -> Nat] /\ \A s \in Seats : f[s] = 0
      BY <1>2
    <2>2. Streets(u) = SumFunction(f)
      BY <1>6 DEF Streets
    <2> HIDE DEF f
    <2> QED
      BY <2>1, <2>2, SeatSumZero
  <1>8. Totals(u) = Totals(t)
    <2>1. [x \in Seats |-> sh[x].total] = [x \in Seats |-> t.sh[x].total]
      BY <1>2
    <2> QED
      BY <2>1, <1>6, Zenon DEF Totals
  <1>9. Chips(u) = Chips(t)
    <2>1. AtStake(u) = Totals(u) /\ AtStake(t) = Totals(t) /\ Stacks(u) = Stacks(t)
      BY <1>5, <1>6 DEF AtStake, Totals, Stacks, Staked
    <2> QED
      BY <2>1, <1>6, <1>8 DEF Chips
  <1>10. /\ InHand(u) = InHand(t) /\ \A s \in Seats : CanAct(u, s) <=> CanAct(t, s)
    BY <1>2, <1>6 DEF InHand, CanAct
  <1>11. SameHand(t, u)
    <2>1. \A s \in Seats : t.sh[s].total \in Nat /\ t.stack[s] \in Nat
      BY <1>0 DEF SeatHand
    <2> QED
      BY <2>1, <1>2, <1>6 DEF SameHand
  <1>12. Staked(u)
    <2>1. \A s \in Seats : u.sh[s].street <= u.sh[s].total
      <3>1. \A s \in Seats : sh[s].total \in Nat
        BY <1>2 DEF SeatHand
      <3> QED
        BY <3>1, <1>2, <1>6
    <2>2. u.hand.pot + Streets(u) = Totals(u)
      <3>1. t.hand.pot + Streets(t) = Totals(t)
        BY DEF Staked
      <3> QED
        BY <3>1, <1>4, <1>5, <1>6, <1>7, <1>8
    <2> QED
      BY <1>5, <1>6, <1>10, <2>1, <2>2 DEF Staked
  <1> QED
    BY <1>5, <1>6, <1>7, <1>9, <1>10, <1>11, <1>12 DEF SweptOf, u

\* What an action leaves for ProgressAfterAction: one live seat counted at least.
InAction(t) == Staked(t) /\ BettingAt(t) /\ Counted(t, 1)

LEMMA LiveSeats ==
  ASSUME NEW t, NEW n \in {1, 2}, Counted(t, n)
  PROVE  InHand(t) # {} /\ Cardinality(InHand(t)) \in Nat /\ t.hand.numInHand \in Nat
         /\ t.hand.numInHand <= Cardinality(InHand(t)) /\ t.hand.numInHand >= n
  <1>1. InHand(t) \in SUBSET Seats
    BY DEF InHand
  <1>2. Cardinality(InHand(t)) \in Nat /\ (Cardinality(InHand(t)) = 0 <=> InHand(t) = {})
    BY <1>1, SeatSets
  <1> QED
    BY <1>2 DEF Counted

LEMMA StreetIsCompleted ==
  ASSUME NEW t, InAction(t), NEW c \in TableConfig
  PROVE  Played(t, CompleteStreet(t, c))
  <1> DEFINE swept == Sweep(t, c)
             dealt == [swept EXCEPT !.hand.street = @ + 1]
             u == CompleteStreet(t, c)
  <1>0. /\ Staked(t) /\ t.hand.street <= RIVER /\ t.hand.numInHand \in Nat
        /\ t.hand.numInHand >= 1 /\ InHand(t) # {}
        /\ t.hand.numInHand <= Cardinality(InHand(t)) /\ Cardinality(InHand(t)) \in Nat
    BY LiveSeats DEF InAction, BettingAt
  <1>1. u = IF t.hand.numInHand = 1 THEN EndFoldWin(swept, c)
            ELSE IF t.hand.street = RIVER \/ ~CanStillBet(swept) THEN ToShowdown(swept)
            ELSE GiveTurn(dealt, NextToAct(dealt, dealt.hand.button))
    BY DEF CompleteStreet
  <1>2. SweptOf(t, swept)
    BY <1>0, SweepSweeps
  <1> HIDE DEF swept
  <1>3. /\ Staked(swept) /\ Chips(swept) = Chips(t) /\ Streets(swept) = 0
        /\ InHand(swept) = InHand(t) /\ SameHand(t, swept)
        /\ swept.hand.street = t.hand.street /\ swept.hand.numInHand = t.hand.numInHand
        /\ swept \in Table /\ swept.hand \in Hand /\ t \in Table
    BY <1>0, <1>2 DEF SweptOf, Staked, Table
  <1>4. CASE t.hand.numInHand = 1
    <2>1. Played(swept, EndFoldWin(swept, c)) /\ ~EndFoldWin(swept, c).hand.inProgress
      BY <1>0, <1>3, FoldWinPays
    <2>2. u = EndFoldWin(swept, c)
      BY <1>1, <1>4
    <2> HIDE DEF u
    <2>3. u \in Table /\ PaidInHand(swept, u)
      BY <2>1, <2>2 DEF Played, Sound
    <2>4. PaidInHand(t, u)
      BY <1>3, <2>3, PaidInSameHand
    <2>5. Played(t, u)
      BY <1>3, <2>1, <2>2, <2>4 DEF Played
    <2> QED
      BY <2>5 DEF u
  <1>5. CASE t.hand.numInHand # 1 /\ (t.hand.street = RIVER \/ ~CanStillBet(swept))
    <2> DEFINE h == [swept.hand EXCEPT !.street = SHOWDOWN, !.acting = NO_SEAT,
                                       !.late = FALSE]
    <2>1. u = WithHand(swept, h)
      BY <1>1, <1>3, <1>5 DEF ToShowdown, WithHand, Table
    <2>2. SHOWDOWN \in 0..SHOWDOWN /\ SHOWDOWN > RIVER
      BY SeatsAre DEF SHOWDOWN
    <2>3. /\ h \in Hand /\ h.inProgress /\ h.street = SHOWDOWN /\ h.pot = swept.hand.pot
      BY <1>3, <2>2 DEF Hand, Staked
    <2>4. h.inProgress /\ h.street \in 0..SHOWDOWN /\ h.pot = swept.hand.pot
      BY <2>2, <2>3
    <2> HIDE DEF h
    <2>5. /\ Staked(u) /\ Chips(u) = Chips(swept) /\ u.hand = h
          /\ InHand(u) = InHand(swept) /\ SameHand(swept, u)
      BY <1>3, <2>1, <2>3, <2>4, HandChanges
    <2>6. SameHand(t, u) /\ u \in Table
      <3>1. u \in Table
        BY <2>5 DEF Staked
      <3> QED
        BY <3>1, <1>3, <2>5, SameHandTwice
    <2>7. ~BettingAt(u)
      BY <2>2, <2>3, <2>5, SeatsAre DEF BettingAt
    <2> QED
      BY <1>0, <1>3, <2>5, <2>6, <2>7 DEF Played, Sound, Staked
  <1>6. CASE t.hand.numInHand # 1 /\ t.hand.street # RIVER /\ CanStillBet(swept)
    <2> DEFINE h == [swept.hand EXCEPT !.street = @ + 1]
    <2>1. dealt = WithHand(swept, h)
      BY <1>3 DEF WithHand, Table
    <2>2. t.hand.street \in 0..SHOWDOWN /\ t.hand.street + 1 \in 0..SHOWDOWN
          /\ t.hand.street + 1 <= RIVER
      BY <1>0, <1>6, SeatsAre DEF Staked, SHOWDOWN
    <2>3. /\ h \in Hand /\ h.inProgress /\ h.street = t.hand.street + 1
          /\ h.pot = swept.hand.pot /\ h.button \in Seats
          /\ h.numInHand = swept.hand.numInHand
      <3> DEFINE k == t.hand.street + 1
      <3>1. k \in 0..SHOWDOWN /\ h = [swept.hand EXCEPT !.street = k]
        BY <1>3, <2>2
      <3> HIDE DEF k, h
      <3>2. h \in Hand /\ h.street = k /\ h.inProgress = swept.hand.inProgress
            /\ h.pot = swept.hand.pot /\ h.numInHand = swept.hand.numInHand
        BY <1>3, <3>1 DEF Hand
      <3> QED
        BY <1>3, <3>2 DEF Hand, Staked, k
    <2>4. h.inProgress /\ h.street \in 0..SHOWDOWN /\ h.pot = swept.hand.pot
      BY <2>2, <2>3
    <2> HIDE DEF h, dealt
    <2>5. /\ Staked(dealt) /\ Chips(dealt) = Chips(swept) /\ dealt.hand = h
          /\ InHand(dealt) = InHand(swept) /\ SameHand(swept, dealt)
      BY <1>3, <2>1, <2>3, <2>4, HandChanges
    <2> DEFINE from == dealt.hand.button
               v == GiveTurn(dealt, NextToAct(dealt, from))
    <2>6. from \in Seats \cup {NO_SEAT}
      BY <2>3, <2>5
    <2>u. u = v
      BY <1>1, <1>6
    <2> HIDE DEF dealt, from, u
    <2>7. /\ Staked(v) /\ TurnOK(v) /\ Chips(v) = Chips(dealt)
          /\ InHand(v) = InHand(dealt) /\ v.hand.street = dealt.hand.street
          /\ v.hand.numInHand = dealt.hand.numInHand
          /\ SameHand(dealt, v)
      BY <2>5, <2>6, TurnIsGiven
    <2> HIDE DEF v
    <2>8. SameHand(t, v)
      <3>1. v \in Table /\ dealt \in Table
        BY <2>5, <2>7 DEF Staked
      <3>2. SameHand(t, dealt)
        BY <3>1, <1>3, <2>5, SameHandTwice
      <3> QED
        BY <3>1, <3>2, <1>3, <2>7, SameHandTwice
    <2>9. Counted(v, 2)
      <3>1. /\ v.hand.numInHand = t.hand.numInHand /\ InHand(v) = InHand(t)
        BY <1>3, <2>3, <2>5, <2>7
      <3> QED
        BY <3>1, <1>0, <1>6 DEF Counted
    <2>10. Sound(v)
      BY <1>0, <1>3, <2>5, <2>7, <2>9 DEF Sound, Staked
    <2> QED
      BY <1>3, <2>5, <2>7, <2>8, <2>10, <2>u DEF Played, Staked, u
  <1> QED
    BY <1>4, <1>5, <1>6

LEMMA ActionProgresses ==
  ASSUME NEW t, InAction(t), NEW c \in TableConfig
  PROVE  Played(t, ProgressAfterAction(t, c))
  <1> DEFINE from == t.hand.acting
             next == NextToAct(t, from)
             u == ProgressAfterAction(t, c)
  <1>0. /\ Staked(t) /\ t.hand.street <= RIVER /\ t.hand.numInHand \in Nat
        /\ t.hand.numInHand >= 1 /\ InHand(t) # {}
        /\ t.hand.numInHand <= Cardinality(InHand(t)) /\ Cardinality(InHand(t)) \in Nat
        /\ from \in Seats \cup {NO_SEAT}
    <2>1. from \in Seats \cup {NO_SEAT}
      BY DEF InAction, Staked, Table, Hand
    <2> QED
      BY <2>1, LiveSeats DEF InAction, BettingAt
  <1>1. u = IF t.hand.numInHand = 1 \/ next = NO_SEAT THEN CompleteStreet(t, c)
            ELSE GiveTurn(t, next)
    BY DEF ProgressAfterAction
  <1>2. CASE t.hand.numInHand = 1 \/ next = NO_SEAT
    <2>1. u = CompleteStreet(t, c)
      BY <1>1, <1>2
    <2> HIDE DEF u, next
    <2>2. Played(t, u)
      BY <2>1, StreetIsCompleted
    <2> QED
      BY <2>2 DEF u
  <1>3. CASE ~(t.hand.numInHand = 1 \/ next = NO_SEAT)
    <2> DEFINE v == GiveTurn(t, NextToAct(t, from))
    <2>1. u = v
      BY <1>1, <1>3
    <2>n. t.hand.numInHand # 1
      BY <1>3
    <2> HIDE DEF from, next, u
    <2>2. /\ Staked(v) /\ TurnOK(v) /\ Chips(v) = Chips(t)
          /\ InHand(v) = InHand(t) /\ v.hand.street = t.hand.street
          /\ v.hand.numInHand = t.hand.numInHand
          /\ SameHand(t, v)
      BY <1>0, TurnIsGiven
    <2> HIDE DEF v
    <2>3. Counted(v, 2)
      BY <1>0, <2>2, <2>n DEF Counted
    <2>4. Sound(v)
      BY <1>0, <2>2, <2>3 DEF Sound, Staked
    <2> QED
      BY <2>1, <2>2, <2>4 DEF Played, Staked, u
  <1> QED
    BY <1>2, <1>3

-----------------------------------------------------------------------------
\* Actions of a seat

\* What a seat's action makes of t, before the hand goes on.
DoneBy(t, u) == InAction(u) /\ Chips(u) = Chips(t) /\ SameHand(t, u)

WithSeats(t, sh, h) == [t EXCEPT !.sh = sh, !.hand = h]

\* Seats change only in whether they are live and have acted, and none revives.
OnlyFlags(t, sh) ==
  /\ sh \in [Seats -> SeatHand]
  /\ \A s \in Seats :
        /\ sh[s].street = t.sh[s].street /\ sh[s].total = t.sh[s].total
        /\ sh[s].allIn = t.sh[s].allIn
        /\ sh[s].inHand => t.sh[s].inHand
        /\ t.sh[s].folded => sh[s].folded

SameChips(t, u) ==
  Staked(u) /\ Chips(u) = Chips(t) /\ SameHand(t, u)

OnlySeats(t, u, sh, h) ==
  u.sh = sh /\ u.hand = h /\ u.stack = t.stack

LEMMA FlagsKeepChips ==
  ASSUME NEW t, Staked(t), NEW sh, OnlyFlags(t, sh), NEW h \in Hand,
         h.inProgress /\ h.street \in 0..SHOWDOWN /\ h.pot = t.hand.pot
  PROVE  LET u == WithSeats(t, sh, h) IN SameChips(t, u) /\ OnlySeats(t, u, sh, h)
  <1> DEFINE u == WithSeats(t, sh, h)
  <1>0. t \in Table
    BY DEF Staked
  <1>1. /\ u \in Table /\ u.hand = h /\ u.sh = sh /\ u.stack = t.stack /\ u.rake = t.rake
    BY <1>0 DEF Table, WithSeats, OnlyFlags
  <1> HIDE DEF u
  <1>2. Stacks(u) = Stacks(t) /\ Totals(u) = Totals(t) /\ Streets(u) = Streets(t)
    <2>1. [x \in Seats |-> sh[x].total] = [x \in Seats |-> t.sh[x].total]
      BY DEF OnlyFlags
    <2>2. [x \in Seats |-> sh[x].street] = [x \in Seats |-> t.sh[x].street]
      BY DEF OnlyFlags
    <2> QED
      BY <1>1, <2>1, <2>2, Zenon DEF Stacks, Totals, Streets
  <1>3. Chips(u) = Chips(t)
    <2>1. AtStake(u) = Totals(u) /\ AtStake(t) = Totals(t)
      BY <1>1 DEF AtStake, Totals, Staked
    <2> QED
      BY <2>1, <1>1, <1>2 DEF Chips
  <1>4. \A s \in Seats : CanAct(u, s) => CanAct(t, s)
    BY <1>1 DEF CanAct, OnlyFlags
  <1>5. Staked(u)
    BY <1>1, <1>2, <1>4 DEF Staked, OnlyFlags
  <1>6. SameHand(t, u)
    <2>1. \A s \in Seats : t.sh[s].total \in Nat /\ t.stack[s] \in Nat
      BY <1>0 DEF Table, SeatHand
    <2> QED
      BY <1>1, <2>1 DEF SameHand, OnlyFlags
  <1> QED
    BY <1>1, <1>3, <1>5, <1>6 DEF u, SameChips, OnlySeats

\* The hand stays as it is but for what only tells how the betting stands.
BettingFields(t, h) ==
  /\ h \in Hand
  /\ h.inProgress = t.hand.inProgress /\ h.street = t.hand.street /\ h.pot = t.hand.pot
  /\ h.numInHand = t.hand.numInHand /\ h.acting = t.hand.acting

LEMMA HandStays ==
  ASSUME NEW t \in Table
  PROVE  BettingFields(t, t.hand)
  BY DEF Table, BettingFields

\* Flags and bets change, and no live seat with them.
LEMMA StillInAction ==
  ASSUME NEW t, InAction(t), NEW sh, OnlyFlags(t, sh), NEW h, BettingFields(t, h),
         \A s \in Seats : sh[s].inHand = t.sh[s].inHand
  PROVE  DoneBy(t, WithSeats(t, sh, h))
  <1> DEFINE u == WithSeats(t, sh, h)
  <1>1. h \in Hand /\ h.inProgress /\ h.street \in 0..SHOWDOWN /\ h.pot = t.hand.pot
    BY DEF BettingFields, InAction, Staked
  <1>2. SameChips(t, u) /\ OnlySeats(t, u, sh, h)
    BY <1>1, FlagsKeepChips DEF InAction
  <1> HIDE DEF u
  <1>3. InHand(u) = InHand(t)
    BY <1>2 DEF OnlySeats, InHand
  <1> QED
    BY <1>2, <1>3
       DEF u, DoneBy, SameChips, OnlySeats, InAction, BettingAt, Counted, BettingFields

LEMMA ActedIsDone ==
  ASSUME NEW t, InAction(t), NEW s \in Seats
  PROVE  DoneBy(t, Acted(t, s))
  <1> DEFINE one == [t.sh[s] EXCEPT !.hasActed = TRUE]
             sh == [t.sh EXCEPT ![s] = one]
  <1>0. /\ t \in Table /\ t.sh \in [Seats -> SeatHand] /\ t.sh[s] \in SeatHand
        /\ \A x \in Seats : t.sh[x] \in SeatHand
    BY DEF InAction, Staked, Table
  <1>1. Acted(t, s) = WithSeats(t, sh, t.hand)
    BY <1>0 DEF Acted, WithSeats, Table
  <1>2. /\ one \in SeatHand /\ one.street = t.sh[s].street /\ one.total = t.sh[s].total
        /\ one.allIn = t.sh[s].allIn /\ one.inHand = t.sh[s].inHand
        /\ one.folded = t.sh[s].folded
    BY <1>0 DEF SeatHand
  <1> HIDE DEF one
  <1>3. sh \in [Seats -> SeatHand] /\ sh[s] = one /\ \A x \in Seats \ {s} : sh[x] = t.sh[x]
    BY <1>0, <1>2
  <1> HIDE DEF sh
  <1>4. OnlyFlags(t, sh) /\ \A x \in Seats : sh[x].inHand = t.sh[x].inHand
    BY <1>2, <1>3 DEF OnlyFlags
  <1>5. BettingFields(t, t.hand)
    BY <1>0, HandStays
  <1>6. DoneBy(t, WithSeats(t, sh, t.hand))
    BY <1>4, <1>5, StillInAction
  <1> QED
    BY <1>1, <1>6

LEMMA FoldIsDone ==
  ASSUME NEW t, InAction(t), Counted(t, 2), NEW s \in InHand(t)
  PROVE  DoneBy(t, Fold(t, s))
  <1> DEFINE one == [t.sh[s] EXCEPT !.folded = TRUE, !.inHand = FALSE, !.hasActed = TRUE]
             sh == [t.sh EXCEPT ![s] = one]
             n == t.hand.numInHand - 1
             h == [t.hand EXCEPT !.numInHand = n]
             u == WithSeats(t, sh, h)
  <1>0. /\ t \in Table /\ t.sh \in [Seats -> SeatHand] /\ s \in Seats
        /\ t.sh[s] \in SeatHand /\ t.hand \in Hand
        /\ \A x \in Seats : t.sh[x] \in SeatHand
    BY DEF InAction, Staked, Table, InHand
  <1>1. Fold(t, s) = u
    BY <1>0 DEF Fold, WithSeats, Table
  <1>2. /\ one \in SeatHand /\ one.street = t.sh[s].street /\ one.total = t.sh[s].total
        /\ one.allIn = t.sh[s].allIn /\ one.inHand = FALSE /\ one.folded = TRUE
    BY <1>0 DEF SeatHand
  <1> HIDE DEF one
  <1>3. sh \in [Seats -> SeatHand] /\ sh[s] = one /\ \A x \in Seats \ {s} : sh[x] = t.sh[x]
    BY <1>0, <1>2
  <1> HIDE DEF sh
  <1>4. OnlyFlags(t, sh)
    BY <1>2, <1>3 DEF OnlyFlags
  <1>5. n \in Int /\ n = t.hand.numInHand - 1
    BY <1>0 DEF Hand
  <1> HIDE DEF n
  <1>6. /\ h \in Hand /\ h.inProgress = t.hand.inProgress /\ h.street = t.hand.street
        /\ h.pot = t.hand.pot /\ h.numInHand = n
    BY <1>0, <1>5 DEF Hand
  <1> HIDE DEF h
  <1>7. h.inProgress /\ h.street \in 0..SHOWDOWN /\ h.pot = t.hand.pot
    BY <1>6 DEF InAction, Staked
  <1>8. SameChips(t, u) /\ OnlySeats(t, u, sh, h)
    BY <1>4, <1>6, <1>7, FlagsKeepChips DEF InAction
  <1> HIDE DEF u
  <1>9. InHand(u) = InHand(t) \ {s}
    BY <1>2, <1>3, <1>8 DEF OnlySeats, InHand
  <1>10. Cardinality(InHand(u)) = Cardinality(InHand(t)) - 1
    <2>1. IsFiniteSet(InHand(t))
      <3>1. InHand(t) \in SUBSET Seats
        BY DEF InHand
      <3> QED
        BY <3>1, SeatSets
    <2> QED
      BY <2>1, <1>9, FS_RemoveElement
  <1>11. Counted(u, 1)
    <2>1. u.hand.numInHand = t.hand.numInHand - 1
      BY <1>5, <1>6, <1>8 DEF OnlySeats
    <2>2. t.hand.numInHand \in Nat /\ t.hand.numInHand >= 2
          /\ t.hand.numInHand <= Cardinality(InHand(t)) /\ Cardinality(InHand(t)) \in Nat
      BY LiveSeats
    <2> QED
      BY <2>1, <2>2, <1>10 DEF Counted
  <1>12. BettingAt(u)
    BY <1>6, <1>7, <1>8 DEF OnlySeats, BettingAt, InAction
  <1> QED
    BY <1>1, <1>8, <1>11, <1>12 DEF DoneBy, SameChips, InAction

\* A seat that puts chips in is still in action.
LEMMA CommitIsDone ==
  ASSUME NEW t, InAction(t), NEW s \in InHand(t), NEW amount \in Nat, amount <= t.stack[s]
  PROVE  DoneBy(t, CommitStreet(t, s, amount))
  <1> DEFINE u == CommitStreet(t, s, amount)
  <1>1. s \in Seats /\ t.sh[s].inHand /\ Staked(t)
    BY DEF InHand, InAction
  <1>2. /\ Staked(u) /\ Chips(u) = Chips(t) /\ u.hand = t.hand /\ InHand(u) = InHand(t)
        /\ SameHand(t, u)
    BY <1>1, CommitStreetKeeps
  <1> HIDE DEF u
  <1> QED
    BY <1>2 DEF u, DoneBy, InAction, BettingAt, Counted

LEMMA DoneTwice ==
  ASSUME NEW t, InAction(t), NEW u, DoneBy(t, u), NEW v, DoneBy(u, v)
  PROVE  DoneBy(t, v)
  <1>1. t \in Table /\ u \in Table /\ v \in Table
    BY DEF DoneBy, InAction, Staked
  <1>2. SameHand(t, v)
    BY <1>1, SameHandTwice DEF DoneBy
  <1> QED
    BY <1>2 DEF DoneBy

LEMMA CallIsDone ==
  ASSUME NEW t, InAction(t), NEW s \in InHand(t)
  PROVE  DoneBy(t, Call(t, s))
  <1> DEFINE amount == Lesser(ToCall(t, s), t.stack[s])
             u == CommitStreet(t, s, amount)
  <1>0. /\ s \in Seats /\ t.stack[s] \in Nat /\ t.sh[s].street \in Nat
        /\ t.hand.currentBet \in Nat
    BY DEF InHand, InAction, Staked, Table, Hand, SeatHand
  <1>1. ToCall(t, s) \in Nat
    BY <1>0 DEF ToCall, Greater
  <1>2. amount \in Nat /\ amount <= t.stack[s]
    BY <1>0, <1>1 DEF Lesser
  <1>3. Call(t, s) = Acted(u, s)
    BY DEF Call
  <1> HIDE DEF amount
  <1>4. DoneBy(t, u)
    BY <1>2, CommitIsDone
  <1> HIDE DEF u
  <1>5. DoneBy(u, Acted(u, s))
    BY <1>0, <1>4, ActedIsDone DEF DoneBy
  <1> QED
    BY <1>3, <1>4, <1>5, DoneTwice

LEMMA AggressIsDone ==
  ASSUME NEW t, InAction(t), NEW s \in InHand(t), NEW target \in Nat,
         NEW c \in TableConfig, MayAggress(t, s, target, c)
  PROVE  DoneBy(t, Aggress(t, s, target, c))
  <1> DEFINE cur == t.hand.currentBet
             amount == target - t.sh[s].street
             full == cur = 0 \/ target - cur >= t.hand.minRaise
             paid == CommitStreet(t, s, amount)
             raise == Greater(IF cur = 0 THEN target ELSE target - cur, c.bigBlind)
             opened == [x \in Seats |-> IF x # s /\ CanAct(paid, x)
                                        THEN [paid.sh[x] EXCEPT !.hasActed = FALSE]
                                        ELSE paid.sh[x]]
             reopened == [paid EXCEPT !.hand.minRaise = raise, !.sh = opened]
             u == [(IF full THEN reopened ELSE paid) EXCEPT !.hand.currentBet = target]
  <1>0. /\ s \in Seats /\ t.stack[s] \in Nat /\ t.sh[s].street \in Nat
        /\ cur \in Nat /\ c.bigBlind \in Nat
    BY DEF InHand, InAction, Staked, Table, Hand, SeatHand, TableConfig
  <1>1. amount \in Nat /\ amount <= t.stack[s] /\ target > cur
    BY <1>0 DEF MayAggress
  <1>2. raise \in Nat
    BY <1>0, <1>1 DEF Greater
  <1>3. Aggress(t, s, target, c) = Acted(u, s)
    BY Zenon DEF Aggress
  <1> HIDE DEF amount, raise, full
  <1>4. DoneBy(t, paid)
    BY <1>1, CommitIsDone
  <1> HIDE DEF paid
  <1>5. /\ paid \in Table /\ paid.sh \in [Seats -> SeatHand] /\ paid.hand \in Hand
        /\ \A x \in Seats : paid.sh[x] \in SeatHand
        /\ InAction(paid) /\ Staked(paid)
    BY <1>4 DEF DoneBy, InAction, Staked, Table
  <1>6. DoneBy(paid, u)
    <2>1. CASE full
      <3> DEFINE h == [paid.hand EXCEPT !.minRaise = raise, !.currentBet = target]
      <3>1. u = WithSeats(paid, opened, h)
        <4>1. u = [reopened EXCEPT !.hand.currentBet = target]
          BY <2>1
        <4> HIDE DEF opened, u
        <4>2. [reopened EXCEPT !.hand.currentBet = target] = WithSeats(paid, opened, h)
          BY <1>5 DEF WithSeats, Table, Hand
        <4> QED
          BY <4>1, <4>2
      <3>2. BettingFields(paid, h)
        BY <1>2, <1>5 DEF BettingFields, Hand
      <3>3. \A x \in Seats : /\ opened[x] \in SeatHand
                             /\ opened[x].street = paid.sh[x].street
                             /\ opened[x].total = paid.sh[x].total
                             /\ opened[x].allIn = paid.sh[x].allIn
                             /\ opened[x].inHand = paid.sh[x].inHand
                             /\ opened[x].folded = paid.sh[x].folded
        <4> TAKE x \in Seats
        <4> DEFINE v == [paid.sh[x] EXCEPT !.hasActed = FALSE]
        <4>1. /\ v \in SeatHand /\ v.street = paid.sh[x].street
              /\ v.total = paid.sh[x].total /\ v.allIn = paid.sh[x].allIn
              /\ v.inHand = paid.sh[x].inHand /\ v.folded = paid.sh[x].folded
          <5>1. paid.sh[x] \in SeatHand
            BY <1>5
          <5> QED
            BY <5>1 DEF SeatHand
        <4>2. opened[x] = v \/ opened[x] = paid.sh[x]
          OBVIOUS
        <4> HIDE DEF v, opened
        <4> QED
          BY <1>5, <4>1, <4>2
      <3>4. opened \in [Seats -> SeatHand]
        <4>1. opened = [x \in Seats |-> opened[x]]
          OBVIOUS
        <4> HIDE DEF opened
        <4> QED
          BY <3>3, <4>1
      <3> HIDE DEF opened, h, u
      <3>5. OnlyFlags(paid, opened) /\ \A x \in Seats : opened[x].inHand = paid.sh[x].inHand
        BY <3>3, <3>4 DEF OnlyFlags
      <3> QED
        BY <1>5, <3>1, <3>2, <3>5, StillInAction
    <2>2. CASE ~full
      <3> DEFINE h == [paid.hand EXCEPT !.currentBet = target]
                 sh == paid.sh
      <3>1. u = WithSeats(paid, sh, h)
        BY <2>2, <1>5 DEF WithSeats, Table
      <3>2. BettingFields(paid, h)
        BY <1>5 DEF BettingFields, Hand
      <3>3. OnlyFlags(paid, sh) /\ \A x \in Seats : sh[x].inHand = paid.sh[x].inHand
        BY <1>5 DEF OnlyFlags
      <3> HIDE DEF h, u, sh
      <3> QED
        BY <1>5, <3>1, <3>2, <3>3, StillInAction
    <2> QED
      BY <2>1, <2>2
  <1> HIDE DEF u
  <1>7. DoneBy(u, Acted(u, s))
    BY <1>0, <1>6, ActedIsDone DEF DoneBy
  <1>8. DoneBy(t, u)
    BY <1>4, <1>6, DoneTwice
  <1> QED
    BY <1>3, <1>7, <1>8, DoneTwice

\* The fold of seat 255: counted, though no one made it.
LEMMA PhantomFoldIsDone ==
  ASSUME NEW t, InAction(t), Counted(t, 2)
  PROVE  DoneBy(t, [t EXCEPT !.hand.numInHand = @ - 1])
  <1> DEFINE n == t.hand.numInHand - 1
             h == [t.hand EXCEPT !.numInHand = n]
             sh == t.sh
             u == WithSeats(t, sh, h)
  <1>0. t \in Table /\ t.hand \in Hand /\ t.sh \in [Seats -> SeatHand]
    BY DEF InAction, Staked, Table
  <1>1. [t EXCEPT !.hand.numInHand = @ - 1] = u
    BY <1>0 DEF WithSeats, Table
  <1>2. OnlyFlags(t, sh)
    BY <1>0 DEF OnlyFlags
  <1>3. n \in Int /\ n = t.hand.numInHand - 1
    BY <1>0 DEF Hand
  <1> HIDE DEF n, sh
  <1>4. /\ h \in Hand /\ h.inProgress = t.hand.inProgress /\ h.street = t.hand.street
        /\ h.pot = t.hand.pot /\ h.numInHand = n
    BY <1>0, <1>3 DEF Hand
  <1> HIDE DEF h
  <1>5. h.inProgress /\ h.street \in 0..SHOWDOWN /\ h.pot = t.hand.pot
    BY <1>4 DEF InAction, Staked
  <1>6. SameChips(t, u) /\ OnlySeats(t, u, sh, h)
    BY <1>2, <1>4, <1>5, FlagsKeepChips DEF InAction
  <1> HIDE DEF u
  <1>7. InHand(u) = InHand(t)
    BY <1>6 DEF OnlySeats, InHand, sh
  <1>8. Counted(u, 1)
    <2>1. u.hand.numInHand = t.hand.numInHand - 1
      BY <1>3, <1>4, <1>6 DEF OnlySeats
    <2>2. t.hand.numInHand \in Nat /\ t.hand.numInHand >= 2
          /\ t.hand.numInHand <= Cardinality(InHand(t)) /\ Cardinality(InHand(t)) \in Nat
      BY LiveSeats
    <2> QED
      BY <2>1, <2>2, <1>7 DEF Counted
  <1>9. BettingAt(u)
    BY <1>4, <1>5, <1>6 DEF OnlySeats, BettingAt, InAction
  <1> QED
    BY <1>1, <1>6, <1>8, <1>9 DEF DoneBy, SameChips, InAction

\* Whatever is done, the hand goes on from it soundly.
LEMMA ActionIsPlayed ==
  ASSUME NEW t, InAction(t), NEW u, DoneBy(t, u), NEW c \in TableConfig
  PROVE  Played(t, ProgressAfterAction(u, c))
  <1> DEFINE v == ProgressAfterAction(u, c)
  <1>1. InAction(u) /\ Chips(u) = Chips(t) /\ SameHand(t, u)
    BY DEF DoneBy
  <1>2. Played(u, v)
    BY <1>1, ActionProgresses
  <1> HIDE DEF v
  <1>3. t \in Table /\ u \in Table /\ v \in Table
    BY <1>1, <1>2 DEF InAction, Staked, Played, Sound
  <1>4. ASSUME v.hand.inProgress PROVE SameHand(t, v)
    BY <1>1, <1>2, <1>3, <1>4, SameHandTwice DEF Played
  <1>5. ASSUME ~v.hand.inProgress PROVE PaidInHand(t, v)
    BY <1>1, <1>2, <1>3, <1>5, PaidInSameHand DEF Played
  <1> QED
    BY <1>1, <1>2, <1>4, <1>5 DEF Played, v

\* A sound table with betting is one an action may be made at.
LEMMA SoundIsInAction ==
  ASSUME NEW t, Sound(t), BettingAt(t)
  PROVE  InAction(t) /\ Counted(t, 2) /\ TurnOK(t)
  <1>1. Staked(t) /\ Counted(t, 2) /\ TurnOK(t)
    BY DEF Sound, BettingAt
  <1>2. Counted(t, 1)
    <2>1. t.hand.numInHand \in Nat /\ t.hand.numInHand >= 2
          /\ t.hand.numInHand <= Cardinality(InHand(t)) /\ Cardinality(InHand(t)) \in Nat
      BY <1>1, LiveSeats
    <2> QED
      BY <2>1 DEF Counted
  <1> QED
    BY <1>1, <1>2 DEF InAction

\* Everything at stake goes back to the stacks.
LEMMA HandIsPaidBack ==
  ASSUME NEW t, Staked(t), NEW stack \in [Seats -> Nat],
         SumFunction(stack) = Stacks(t) + Totals(t),
         \A s \in Seats : stack[s] > t.stack[s] => t.sh[s].inHand \/ t.sh[s].total > 0
  PROVE  LET u == ClearHand([t EXCEPT !.stack = stack])
         IN  Played(t, u) /\ ~u.hand.inProgress /\ u.stack = stack
  <1>0. t \in Table /\ t.rake \in Nat
    BY DEF Staked, Table
  <1>1. [t EXCEPT !.stack = stack] = [t EXCEPT !.stack = stack, !.rake = t.rake]
    BY <1>0 DEF Table
  <1> DEFINE u == Settled(t, stack, t.rake)
  <1>2. ClearHand([t EXCEPT !.stack = stack]) = u
    BY <1>1 DEF Settled
  <1>3. /\ Sound(u) /\ ~u.hand.inProgress /\ Chips(u) = SumFunction(stack) + t.rake
        /\ u.stack = stack
    BY <1>0, HandIsOver
  <1> HIDE DEF u
  <1>4. AtStake(t) = Totals(t)
    BY DEF AtStake, Totals, Staked
  <1>5. Chips(u) = Chips(t)
    BY <1>3, <1>4 DEF Chips
  <1>6. PaidInHand(t, u)
    BY <1>3 DEF PaidInHand
  <1> QED
    BY <1>2, <1>3, <1>5, <1>6 DEF Played

\* A seat gets back at least what it put in.
BackTo(t, u, s) == u.stack[s] >= t.stack[s] + t.sh[s].total

LEMMA CancelPaysBack ==
  ASSUME NEW t, Staked(t)
  PROVE  /\ Played(t, CancelHand(t)) /\ ~CancelHand(t).hand.inProgress
         /\ \A s \in Seats : BackTo(t, CancelHand(t), s)
  <1> DEFINE stack == [s \in Seats |-> t.stack[s] + t.sh[s].total]
             total == [s \in Seats |-> t.sh[s].total]
  <1>0. t \in Table /\ t.stack \in [Seats -> Nat] /\ total \in [Seats -> Nat]
    BY TableSums DEF Staked, Table
  <1>1. stack \in [Seats -> Nat]
    BY <1>0
  <1>2. \A s \in Seats : stack[s] = t.stack[s] + total[s]
    OBVIOUS
  <1>3. CancelHand(t) = ClearHand([t EXCEPT !.stack = stack])
    BY <1>0, Zenon DEF CancelHand
  <1>4. Totals(t) = SumFunction(total)
    BY DEF Totals
  <1> HIDE DEF stack, total
  <1>5. SumFunction(stack) = Stacks(t) + Totals(t)
    BY <1>0, <1>1, <1>2, <1>4, SeatSumAdds DEF Stacks
  <1>6. \A s \in Seats : /\ t.stack[s] \in Nat /\ t.sh[s].total \in Nat
                         /\ stack[s] = t.stack[s] + t.sh[s].total
    BY <1>0, <1>2 DEF total
  <1>7. \A s \in Seats : stack[s] > t.stack[s] => t.sh[s].inHand \/ t.sh[s].total > 0
    BY <1>6
  <1> DEFINE u == CancelHand(t)
  <1> HIDE DEF u
  <1>8. Played(t, u) /\ ~u.hand.inProgress /\ u.stack = stack
    BY <1>1, <1>3, <1>5, <1>7, HandIsPaidBack DEF u
  <1>9. \A s \in Seats : BackTo(t, u, s)
    BY <1>6, <1>8 DEF BackTo
  <1> QED
    BY <1>8, <1>9 DEF u

\* A single seat's entry, and a sum that no entry exceeds.
LEMMA SeatSumOne ==
  ASSUME NEW f \in [Seats -> Nat], NEW s \in Seats, \A x \in Seats \ {s} : f[x] = 0
  PROVE  SumFunction(f) = f[s]
  <1> DEFINE zero == [x \in Seats |-> 0]
             d == f[s]
  <1>1. ChangedAt(zero, f, s, d)
    BY DEF ChangedAt
  <1>2. zero \in [Seats -> Nat] /\ \A x \in Seats : zero[x] = 0
    OBVIOUS
  <1>d. d \in Nat
    OBVIOUS
  <1> HIDE DEF zero, d
  <1>3. SumFunction(f) = SumFunction(zero) + d
    BY <1>1, SeatSumChanges
  <1>4. SumFunction(zero) = 0
    BY <1>2, SeatSumZero
  <1> QED
    BY <1>3, <1>4, <1>d DEF d

LEMMA SeatSumAtLeast ==
  ASSUME NEW f \in [Seats -> Nat], NEW s \in Seats
  PROVE  f[s] <= SumFunction(f)
  <1> DEFINE rest == [f EXCEPT ![s] = 0]
             d == f[s]
  <1>1. ChangedAt(rest, f, s, d) /\ rest \in [Seats -> Nat]
    BY DEF ChangedAt
  <1>d. d \in Nat
    OBVIOUS
  <1> HIDE DEF rest, d
  <1>2. SumFunction(f) = SumFunction(rest) + d
    BY <1>1, SeatSumChanges
  <1>3. SumFunction(rest) \in Nat
    BY <1>1, SeatSum
  <1> QED
    BY <1>2, <1>3, <1>d DEF d

LEMMA HighestIsOf ==
  ASSUME NEW S \in SUBSET Seats, S # {}
  PROVE  (CHOOSE s \in S : \A x \in S : x <= s) \in S
  <1> DEFINE D == {MaxSeats - s : s \in S}
  <1>0. \A s \in S : s \in Nat /\ MaxSeats - s \in Nat
    BY SeatsAre DEF Seats
  <1>1. D \in SUBSET Nat /\ D # {}
    BY <1>0
  <1> HIDE DEF D
  <1>2. PICK d \in D : \A e \in D : d <= e
    BY ONLY <1>1, LeastNat
  <1>3. PICK s \in S : d = MaxSeats - s
    BY <1>2 DEF D
  <1>4. \A x \in S : x <= s
    <2> TAKE x \in S
    <2>1. MaxSeats - s <= MaxSeats - x
      BY <1>2, <1>3 DEF D
    <2> QED
      BY <1>0, <2>1, SeatsAre
  <1> QED
    BY <1>4

Portion(forfeit, own, all) == (forfeit * own) \div all

LEMMA PortionIsOf ==
  ASSUME NEW forfeit \in Nat, NEW own \in Nat, NEW all \in Nat \ {0}
  PROVE  Portion(forfeit, own, all) \in Nat
         /\ all * Portion(forfeit, own, all) <= forfeit * own
  <1> DEFINE x == forfeit * own
  <1>1. x \in Nat
    BY Z3
  <1> HIDE DEF x
  <1>2. x \div all \in Nat /\ all * (x \div all) <= x
    BY <1>1
  <1> QED
    BY <1>2 DEF x, Portion

LEMMA CancelsFromBoth ==
  ASSUME NEW a \in Nat, NEW b \in Nat, NEW n \in Nat \ {0}, n * a <= b * n
  PROVE  a <= b
  BY Z3

\* The portions of what is forfeited are no more than it.
LEMMA PortionsFit ==
  ASSUME NEW own \in [Seats -> Nat], SumFunction(own) # 0, NEW forfeit \in Nat,
         NEW share \in [Seats -> Nat],
         \A s \in Seats : share[s] = Portion(forfeit, own[s], SumFunction(own))
  PROVE  SumFunction(share) <= forfeit
  <1> DEFINE all == SumFunction(own)
             mine == [s \in Seats |-> all * share[s]]
             most == [s \in Seats |-> forfeit * own[s]]
  <1>1. all \in Nat \ {0} /\ all \in Int /\ forfeit \in Int
    BY SeatSum
  <1>2. \A s \in Seats : share[s] = Portion(forfeit, own[s], all)
    OBVIOUS
  <1> HIDE DEF all
  <1>3. \A s \in Seats : all * share[s] \in Int /\ forfeit * own[s] \in Int
                         /\ all * share[s] <= forfeit * own[s]
    <2> TAKE s \in Seats
    <2>1. own[s] \in Nat /\ share[s] \in Nat
      OBVIOUS
    <2>2. all * Portion(forfeit, own[s], all) <= forfeit * own[s]
      BY ONLY <1>1, <2>1, forfeit \in Nat, PortionIsOf
    <2>3. all * share[s] \in Int /\ forfeit * own[s] \in Int
      BY ONLY <1>1, <2>1, forfeit \in Int
    <2> QED
      BY <1>2, <2>2, <2>3
  <1>4. \A s \in Seats : mine[s] \in Int /\ most[s] \in Int /\ mine[s] <= most[s]
    BY <1>3
  <1>5. ScaledBy(share, mine, Seats, all) /\ ScaledBy(own, most, Seats, forfeit)
    BY DEF ScaledBy
  <1> HIDE DEF mine, most
  <1>6. SumFunctionOnSet(mine, Seats) <= SumFunctionOnSet(most, Seats)
    BY ONLY <1>4, SeatsAre, SumLess
  <1>7. SumFunctionOnSet(mine, Seats) = all * SumFunctionOnSet(share, Seats)
    BY ONLY <1>1, <1>5, SeatsAre, SumScaled
  <1>8. SumFunctionOnSet(most, Seats) = forfeit * SumFunctionOnSet(own, Seats)
    BY ONLY <1>1, <1>5, SeatsAre, SumScaled
  <1>9. SumFunctionOnSet(own, Seats) = all /\ SumFunctionOnSet(share, Seats) = SumFunction(share)
        /\ SumFunction(share) \in Nat
    BY SeatSum DEF all
  <1>10. all * SumFunction(share) <= forfeit * all
    BY <1>6, <1>7, <1>8, <1>9
  <1> QED
    BY ONLY <1>1, <1>9, <1>10, forfeit \in Nat, CancelsFromBoth

\* CancelHandPenalized pays out what the hand holds: to the others what they put in
\* and their portions of what the offender did, the rest to the last of them.
LEMMA PenaltyPaysBack ==
  ASSUME NEW t, Staked(t), NEW offender \in Seats
  PROVE  /\ Played(t, CancelHandPenalized(t, offender))
         /\ ~CancelHandPenalized(t, offender).hand.inProgress
         /\ \A s \in Seats \ {offender} : BackTo(t, CancelHandPenalized(t, offender), s)
  <1> DEFINE forfeit == t.sh[offender].total
             others == {s \in Seats \ {offender} : t.sh[s].total > 0}
             total == [s \in Seats |-> t.sh[s].total]
             own == [s \in Seats |-> IF s \in others THEN t.sh[s].total ELSE 0]
             share == [s \in Seats |-> IF others = {} THEN 0
                                       ELSE Portion(forfeit, own[s], SumFunction(own))]
             last == CHOOSE s \in others : \A x \in others : x <= s
             dust == forfeit - SumFunction(share)
             extra == [s \in Seats |-> IF others = {} THEN IF s = offender THEN forfeit ELSE 0
                                       ELSE IF s = last THEN dust ELSE 0]
             stack == [s \in Seats |-> t.stack[s] + own[s] + share[s] + extra[s]]
             u == CancelHandPenalized(t, offender)
  <1>0. /\ t \in Table /\ t.stack \in [Seats -> Nat] /\ total \in [Seats -> Nat]
        /\ Totals(t) = SumFunction(total)
    BY TableSums DEF Staked, Table, Totals
  <1>1. u = ClearHand([t EXCEPT !.stack = stack])
    BY <1>0, Zenon DEF CancelHandPenalized, Portion
  <1>2. /\ \A s \in Seats : total[s] = t.sh[s].total /\ total[s] \in Nat
        /\ forfeit = total[offender] /\ forfeit \in Nat
    BY <1>0
  <1>3. own \in [Seats -> Nat]
    BY <1>2
  <1>4. SumFunction(total) = SumFunction(own) + forfeit
    <2>1. ChangedAt(own, total, offender, forfeit)
      BY <1>0, <1>2, <1>3 DEF ChangedAt
    <2> HIDE DEF own, total, forfeit
    <2> QED
      BY <2>1, SeatSumChanges
  <1>5. /\ share \in [Seats -> Nat] /\ extra \in [Seats -> Nat]
        /\ SumFunction(share) + SumFunction(extra) = forfeit
        /\ \A s \in Seats : total[s] = 0 => share[s] = 0 /\ extra[s] = 0
    <2>1. CASE others = {}
      <3>1. /\ share \in [Seats -> Nat] /\ \A s \in Seats : share[s] = 0
            /\ extra \in [Seats -> Nat] /\ \A s \in Seats \ {offender} : extra[s] = 0
            /\ extra[offender] = forfeit
        BY <1>2, <2>1
      <3> HIDE DEF share, extra, forfeit
      <3>2. SumFunction(share) = 0 /\ SumFunction(extra) = forfeit
        BY <3>1, SeatSumZero, SeatSumOne
      <3> QED
        BY <1>2, <3>1, <3>2
    <2>2. CASE others # {}
      <3>1. last \in others
        BY <2>2, HighestIsOf
      <3>2. SumFunction(own) \in Nat \ {0}
        <4>1. PICK s \in others : TRUE
          BY <2>2
        <4>2. own[s] > 0 /\ s \in Seats
          BY <1>2
        <4> HIDE DEF own
        <4>3. own[s] <= SumFunction(own) /\ SumFunction(own) \in Nat /\ own[s] \in Nat
          BY <1>3, <4>2, SeatSum, SeatSumAtLeast
        <4> QED
          BY <4>2, <4>3
      <3>3. share \in [Seats -> Nat] /\ \A s \in Seats : share[s] = Portion(forfeit, own[s], SumFunction(own))
        <4>1. \A s \in Seats : own[s] \in Nat
          BY <1>3
        <4>2. \A s \in Seats : share[s] = Portion(forfeit, own[s], SumFunction(own))
          BY <2>2
        <4>3. share = [s \in Seats |-> share[s]]
          OBVIOUS
        <4> HIDE DEF own, share, forfeit
        <4>4. \A s \in Seats : share[s] \in Nat
          BY <1>2, <3>2, <4>1, <4>2, PortionIsOf
        <4> QED
          BY <4>2, <4>3, <4>4
      <3> HIDE DEF own, share, forfeit, last
      <3>4. SumFunction(share) <= forfeit /\ SumFunction(share) \in Nat
        BY <1>2, <1>3, <3>2, <3>3, PortionsFit, SeatSum
      <3>5. dust \in Nat
        BY <1>2, <3>4
      <3> HIDE DEF dust
      <3>6. /\ extra \in [Seats -> Nat] /\ extra[last] = dust
            /\ \A s \in Seats \ {last} : extra[s] = 0
        BY <2>2, <3>1, <3>5
      <3>7. last \in Seats
        BY <3>1
      <3> HIDE DEF extra
      <3>8. SumFunction(extra) = dust
        BY <3>6, <3>7, SeatSumOne
      <3>9. SumFunction(share) + SumFunction(extra) = forfeit
        BY <1>2, <3>4, <3>8 DEF dust
      <3>10. ASSUME NEW s \in Seats, total[s] = 0 PROVE share[s] = 0 /\ extra[s] = 0
        <4>1. own[s] = 0 /\ s # last
          BY <1>2, <3>1, <3>10 DEF own
        <4>2. share[s] = Portion(forfeit, 0, SumFunction(own))
          BY <3>3, <4>1
        <4> DEFINE all == SumFunction(own)
        <4>3. all \in Nat \ {0}
          BY <3>2
        <4> HIDE DEF all
        <4>4. 0 \div all = 0
          BY <4>3
        <4>5. forfeit * 0 = 0
          BY <1>2
        <4>6. Portion(forfeit, 0, all) = 0
          BY <4>4, <4>5 DEF Portion
        <4> QED
          BY <3>6, <4>1, <4>2, <4>6 DEF all
      <3> QED
        BY <3>3, <3>6, <3>9, <3>10
    <2> QED
      BY <2>1, <2>2
  <1> DEFINE s1 == [s \in Seats |-> t.stack[s] + own[s]]
             s2 == [s \in Seats |-> s1[s] + share[s]]
  <1>6. /\ s1 \in [Seats -> Nat] /\ s2 \in [Seats -> Nat] /\ stack \in [Seats -> Nat]
        /\ \A s \in Seats : s1[s] = t.stack[s] + own[s] /\ s2[s] = s1[s] + share[s]
                            /\ stack[s] = s2[s] + extra[s]
    <2> HIDE DEF own, share, extra
    <2>1. \A s \in Seats : t.stack[s] \in Nat /\ own[s] \in Nat /\ share[s] \in Nat
                           /\ extra[s] \in Nat
      BY <1>0, <1>3, <1>5
    <2> QED
      BY <2>1
  <1> HIDE DEF stack, own, share, extra, forfeit, s1, s2, total
  <1>p. \A s \in Seats : s1[s] = t.stack[s] + own[s]
    BY <1>6
  <1>7. SumFunction(s1) = Stacks(t) + SumFunction(own)
    <2>1. t.stack \in [Seats -> Nat] /\ own \in [Seats -> Nat] /\ s1 \in [Seats -> Nat]
      BY <1>0, <1>3, <1>6
    <2> QED
      BY ONLY <2>1, <1>p, SeatSumAdds DEF Stacks
  <1>q. \A s \in Seats : s2[s] = s1[s] + share[s]
    BY <1>6
  <1>8. SumFunction(s2) = SumFunction(s1) + SumFunction(share)
    <2>1. s1 \in [Seats -> Nat] /\ share \in [Seats -> Nat] /\ s2 \in [Seats -> Nat]
      BY <1>5, <1>6
    <2> QED
      BY ONLY <2>1, <1>q, SeatSumAdds
  <1>r. \A s \in Seats : stack[s] = s2[s] + extra[s]
    BY <1>6
  <1>9. SumFunction(stack) = SumFunction(s2) + SumFunction(extra)
    <2>1. s2 \in [Seats -> Nat] /\ extra \in [Seats -> Nat] /\ stack \in [Seats -> Nat]
      BY <1>5, <1>6
    <2> QED
      BY ONLY <2>1, <1>r, SeatSumAdds
  <1>10. SumFunction(stack) = Stacks(t) + Totals(t)
    <2>1. /\ SumFunction(own) \in Nat /\ SumFunction(share) \in Nat
          /\ SumFunction(extra) \in Nat /\ Stacks(t) \in Nat
      BY <1>0, <1>3, <1>5, SeatSum, TableSums
    <2> QED
      BY <2>1, <1>0, <1>2, <1>4, <1>5, <1>7, <1>8, <1>9
  <1>11. ASSUME NEW s \in Seats
         PROVE  /\ stack[s] > t.stack[s] => t.sh[s].total > 0
                /\ s # offender => stack[s] >= t.stack[s] + t.sh[s].total
    <2>1. /\ t.stack[s] \in Nat /\ own[s] \in Nat /\ share[s] \in Nat /\ extra[s] \in Nat
          /\ t.sh[s].total = total[s] /\ total[s] \in Nat
      BY <1>0, <1>2, <1>3, <1>5
    <2>2. stack[s] = t.stack[s] + own[s] + share[s] + extra[s]
      BY <1>p, <1>q, <1>r, <2>1
    <2>3. /\ total[s] = 0 => own[s] = 0
          /\ s # offender => own[s] = total[s]
      BY <2>1 DEF own
    <2>4. total[s] = 0 => share[s] = 0 /\ extra[s] = 0
      BY <1>5
    <2> QED
      BY <2>1, <2>2, <2>3, <2>4
  <1>12. \A s \in Seats : stack[s] > t.stack[s] => t.sh[s].inHand \/ t.sh[s].total > 0
    BY <1>11
  <1>13. stack \in [Seats -> Nat]
    BY <1>6
  <1> HIDE DEF u
  <1>14. Played(t, u) /\ ~u.hand.inProgress /\ u.stack = stack
    BY <1>1, <1>10, <1>12, <1>13, HandIsPaidBack
  <1>15. \A s \in Seats \ {offender} : BackTo(t, u, s)
    BY <1>11, <1>14 DEF BackTo
  <1> QED
    BY <1>14, <1>15 DEF u

-----------------------------------------------------------------------------
\* The odd chips of a pot

\* How many places of P there are up to k, and the first places of P by that count.
RankOf(P, k) == Cardinality({j \in P : j <= k})
FirstOf(P, r) == {k \in P : RankOf(P, k) <= r}

LEMMA Places ==
  ASSUME NEW n \in Nat, NEW P \in SUBSET (1..n)
  PROVE  /\ P \in SUBSET Nat /\ IsFiniteSet(P) /\ Cardinality(P) \in Nat
         /\ \A k \in P : RankOf(P, k) \in Nat \ {0}
         /\ \A j \in P, k \in P : j < k => RankOf(P, j) < RankOf(P, k)
         /\ \A r \in Nat : IsFiniteSet(FirstOf(P, r)) /\ Cardinality(FirstOf(P, r)) \in Nat
  <1>1. IsFiniteSet(1..n)
    BY FS_Interval
  <1>2. \A Q \in SUBSET P : IsFiniteSet(Q) /\ Cardinality(Q) \in Nat
                            /\ (Cardinality(Q) = 0 <=> Q = {})
    BY <1>1, FS_Subset, FS_CardinalityType, FS_EmptySet
  <1>3. P \in SUBSET Nat
    OBVIOUS
  <1>4. ASSUME NEW k \in P PROVE RankOf(P, k) \in Nat \ {0}
    <2> DEFINE Q == {j \in P : j <= k}
    <2>1. Q \in SUBSET P /\ k \in Q
      BY <1>3
    <2> HIDE DEF Q
    <2>2. Cardinality(Q) \in Nat \ {0}
      BY <1>2, <2>1
    <2> QED
      BY <2>2 DEF Q, RankOf
  <1>5. ASSUME NEW j \in P, NEW k \in P, j < k PROVE RankOf(P, j) < RankOf(P, k)
    <2> DEFINE Q == {i \in P : i <= j}
               R == {i \in P : i <= k}
    <2>1. Q \in SUBSET P /\ R \in SUBSET P /\ Q \subseteq R /\ k \in R /\ k \notin Q
      <3>1. P \in SUBSET Nat /\ j \in Nat /\ k \in Nat /\ j < k
        BY <1>3, <1>5
      <3>2. Q \in SUBSET P /\ R \in SUBSET P
        OBVIOUS
      <3>3. k \in R /\ k \notin Q
        BY <3>1
      <3>4. \A i \in P : i <= j => i <= k
        BY <3>1
      <3> QED
        BY <3>2, <3>3, <3>4
    <2> HIDE DEF Q, R
    <2>2. IsFiniteSet(Q) /\ IsFiniteSet(R) /\ Q \in SUBSET R /\ Q # R
          /\ Cardinality(Q) \in Nat /\ Cardinality(R) \in Nat
      BY <1>2, <2>1
    <2>3. Cardinality(Q) <= Cardinality(R) /\ Cardinality(Q) # Cardinality(R)
      BY <2>2, FS_Subset
    <2>4. Cardinality(Q) < Cardinality(R)
      BY <2>2, <2>3
    <2> QED
      BY <2>4 DEF Q, R, RankOf
  <1>6. ASSUME NEW r \in Nat
        PROVE  IsFiniteSet(FirstOf(P, r)) /\ Cardinality(FirstOf(P, r)) \in Nat
    <2>1. FirstOf(P, r) \in SUBSET P
      BY DEF FirstOf
    <2> QED
      BY <1>2, <2>1
  <1>7. P \in SUBSET P
    OBVIOUS
  <1> QED
    BY <1>2, <1>3, <1>4, <1>5, <1>6, <1>7

\* There are r of the first r places, if there are r places.
LEMMA FirstPlacesCount ==
  ASSUME NEW n \in Nat, NEW P \in SUBSET (1..n), NEW r \in Nat, r <= Cardinality(P)
  PROVE  Cardinality(FirstOf(P, r)) = r
  <1> DEFINE Good(i) == Cardinality(FirstOf(P, i)) = i
             C == {i \in 0..r : ~ Good(i)}
  <1>1. SUFFICES ASSUME C # {} PROVE FALSE
    BY <1>1
  <1>2. PICK i \in C : \A j \in C : i <= j
    <2>1. C \in SUBSET Nat
      OBVIOUS
    <2> HIDE DEF C
    <2> QED
      BY ONLY <1>1, <2>1, LeastNat
  <1>3. i \in Nat /\ i <= r /\ ~ Good(i)
    BY <1>2
  <1>4. i # 0
    <2>1. FirstOf(P, 0) = {}
      <3>1. \A k \in P : RankOf(P, k) \in Nat \ {0}
        BY Places
      <3>2. \A k \in P : ~ (RankOf(P, k) <= 0)
        BY <3>1
      <3> QED
        BY <3>2 DEF FirstOf
    <2> QED
      BY <1>3, <2>1, FS_EmptySet
  <1>5. PICK j \in Nat : i = j + 1
    <2>1. i - 1 \in Nat /\ i = (i - 1) + 1
      BY <1>3, <1>4
    <2> QED
      BY <2>1
  <1> DEFINE T == FirstOf(P, j)
  <1>6. Cardinality(T) = j
    <2>1. j \in 0..r /\ ~ (i <= j)
      BY <1>3, <1>5
    <2>2. Good(j)
      BY <1>2, <2>1
    <2> QED
      BY <2>2
  <1>7. /\ P \in SUBSET Nat /\ IsFiniteSet(P) /\ Cardinality(P) \in Nat
        /\ \A k \in P : RankOf(P, k) \in Nat \ {0}
        /\ \A h \in P, k \in P : h < k => RankOf(P, h) < RankOf(P, k)
        /\ IsFiniteSet(T)
    BY <1>5, Places
  <1>8. P \ T # {} /\ T \subseteq P
    <2>1. T \subseteq P
      BY DEF FirstOf
    <2>2. T # P
      BY <1>3, <1>5, <1>6, <1>7
    <2> QED
      BY <2>1, <2>2
  <1>9. PICK q \in P \ T : \A x \in P \ T : q <= x
    <2>1. P \ T \in SUBSET Nat
      BY <1>7
    <2> HIDE DEF T
    <2> QED
      BY ONLY <1>8, <2>1, LeastNat
  <1>10. {x \in P : x <= q} = T \cup {q}
    <2>1. ASSUME NEW x \in P, x <= q, x # q PROVE x \in T
      BY <1>7, <1>9, <2>1
    <2>2. ASSUME NEW x \in T PROVE x <= q
      <3>1. x \in P /\ q \in P /\ x \in Nat /\ q \in Nat
        BY <1>7, <1>8
      <3>2. ASSUME q < x PROVE FALSE
        <4>1. RankOf(P, q) < RankOf(P, x) /\ RankOf(P, x) <= j
              /\ RankOf(P, q) \in Nat /\ RankOf(P, x) \in Nat
          BY <1>7, <3>1, <3>2 DEF FirstOf
        <4>2. q \in T
          BY <3>1, <4>1, <1>5 DEF FirstOf
        <4> QED
          BY <4>2
      <3> QED
        BY <3>1, <3>2
    <2>3. q <= q /\ q \in P
      BY <1>7
    <2> QED
      BY <1>8, <2>1, <2>2, <2>3
  <1> HIDE DEF T
  <1>11. Cardinality(T \cup {q}) = i
    BY <1>5, <1>6, <1>7, <1>9, FS_AddElement
  <1>12. RankOf(P, q) = i
    BY <1>10, <1>11 DEF RankOf
  <1>13. FirstOf(P, i) = T \cup {q}
    <2>1. ASSUME NEW x \in FirstOf(P, i), x \notin T PROVE x = q
      <3>1. x \in P /\ RankOf(P, x) <= i /\ q \in P /\ q <= x /\ x \in Nat /\ q \in Nat
        BY <1>7, <1>9, <2>1 DEF FirstOf
      <3>2. ASSUME q < x PROVE FALSE
        <4>1. RankOf(P, q) < RankOf(P, x) /\ RankOf(P, x) \in Nat
          BY <1>7, <3>1, <3>2
        <4> QED
          BY <1>3, <1>12, <3>1, <4>1
      <3> QED
        BY <3>1, <3>2
    <2>2. T \subseteq FirstOf(P, i)
      <3>1. \A x \in P : RankOf(P, x) <= j => RankOf(P, x) <= i
        BY <1>5, <1>7
      <3> QED
        BY <3>1 DEF T, FirstOf
    <2>3. q \in FirstOf(P, i)
      BY <1>3, <1>12 DEF FirstOf
    <2> QED
      BY <2>1, <2>2, <2>3
  <1> QED
    BY <1>3, <1>11, <1>13

\* As many seats as places, going round from a seat.
LEMMA RoundCounts ==
  ASSUME NEW from \in Seats, NEW P \in SUBSET (1..MaxSeats)
  PROVE  Cardinality({Clockwise(from, k) : k \in P}) = Cardinality(P)
  <1> DEFINE S == {Clockwise(from, k) : k \in P}
             f == [k \in P |-> Clockwise(from, k)]
  <1>1. f \in Bijection(P, S)
    <2>1. f \in [P -> S] /\ \A s \in S : \E k \in P : f[k] = s
      OBVIOUS
    <2>2. \A j \in P, k \in P : f[j] = f[k] => j = k
      BY ClockwiseIsRound
    <2>3. DOMAIN f = P
      OBVIOUS
    <2> HIDE DEF f, S
    <2>4. f \in Injection(P, S)
      BY <2>1, <2>2, <2>3 DEF Injection, IsInjective
    <2>5. f \in Surjection(P, S)
      BY <2>1 DEF Surjection
    <2> QED
      BY <2>4, <2>5 DEF Bijection
  <1>2. IsFiniteSet(P)
    BY SeatsAre, Places
  <1>3. ExistsBijection(P, S)
    BY <1>1 DEF ExistsBijection
  <1> QED
    BY <1>2, <1>3, FS_Bijection

\* Exactly rem winners get an odd chip, and each seat a number of chips that is 0 or 1.
OddWinners(t, winners, rem) == {s \in winners : OddChip(t, winners, s, rem)}

LEMMA OddChipsCount ==
  ASSUME NEW t \in Table, NEW winners \in SUBSET Seats, NEW rem \in Nat,
         rem <= Cardinality(winners)
  PROVE  Cardinality(OddWinners(t, winners, rem)) = rem
  <1> DEFINE from == t.hand.button
             P == {k \in 1..MaxSeats : Clockwise(from, k) \in winners}
  <1>1. from \in Seats
    BY DEF Table, Hand
  <1>2. P \in SUBSET (1..MaxSeats) /\ MaxSeats \in Nat
    BY SeatsAre
  <1>3. winners = {Clockwise(from, k) : k \in P}
    <2>1. \A s \in winners : \E k \in 1..MaxSeats : Clockwise(from, k) = s
      BY <1>1, ClockwiseIsRound
    <2> QED
      BY <2>1
  <1>4. ASSUME NEW k \in P
        PROVE  OddChip(t, winners, Clockwise(from, k), rem) <=> RankOf(P, k) <= rem
    <2> DEFINE s == Clockwise(from, k)
    <2>1. ASSUME NEW i \in 1..MaxSeats
          PROVE  (\E j \in i..MaxSeats : Clockwise(from, j) = s) <=> i <= k
      <3>1. k \in 1..MaxSeats
        OBVIOUS
      <3>2. ASSUME i <= k PROVE \E j \in i..MaxSeats : Clockwise(from, j) = s
        <4>1. k \in i..MaxSeats
          BY <1>2, <3>1, <3>2
        <4> QED
          BY <4>1
      <3>3. ASSUME NEW j \in i..MaxSeats, Clockwise(from, j) = s PROVE i <= k
        <4>1. j \in 1..MaxSeats /\ i <= j
          BY <1>2
        <4>2. j = k
          BY <1>1, <3>1, <3>3, <4>1, ClockwiseIsRound
        <4> QED
          BY <4>1, <4>2
      <3> QED
        BY <3>2, <3>3
    <2>2. {i \in 1..MaxSeats : /\ Clockwise(from, i) \in winners
                               /\ \E j \in i..MaxSeats : Clockwise(from, j) = s}
            = {i \in P : i <= k}
      BY <2>1
    <2> QED
      BY <2>2 DEF OddChip, RankOf
  <1>5. OddWinners(t, winners, rem) = {Clockwise(from, k) : k \in FirstOf(P, rem)}
    <2>1. \A s \in OddWinners(t, winners, rem) : \E k \in FirstOf(P, rem) : s = Clockwise(from, k)
      <3> TAKE s \in OddWinners(t, winners, rem)
      <3>1. s \in winners /\ OddChip(t, winners, s, rem)
        BY DEF OddWinners
      <3>2. PICK k \in P : s = Clockwise(from, k)
        BY <1>3, <3>1
      <3>3. k \in FirstOf(P, rem)
        BY <1>4, <3>1, <3>2 DEF FirstOf
      <3> QED
        BY <3>2, <3>3
    <2>2. \A k \in FirstOf(P, rem) : Clockwise(from, k) \in OddWinners(t, winners, rem)
      <3> TAKE k \in FirstOf(P, rem)
      <3>1. k \in P /\ RankOf(P, k) <= rem
        BY DEF FirstOf
      <3>2. Clockwise(from, k) \in winners
        BY <3>1
      <3>3. OddChip(t, winners, Clockwise(from, k), rem)
        BY <1>4, <3>1
      <3> QED
        BY <3>2, <3>3 DEF OddWinners
    <2> QED
      BY <2>1, <2>2
  <1> HIDE DEF P, from
  <1>6. FirstOf(P, rem) \in SUBSET (1..MaxSeats)
    BY <1>2 DEF FirstOf
  <1>7. Cardinality(winners) = Cardinality(P)
    BY <1>1, <1>2, <1>3, RoundCounts
  <1>8. Cardinality(OddWinners(t, winners, rem)) = Cardinality(FirstOf(P, rem))
    BY <1>1, <1>5, <1>6, RoundCounts
  <1>9. Cardinality(FirstOf(P, rem)) = rem
    BY <1>2, <1>7, FirstPlacesCount
  <1> QED
    BY <1>8, <1>9

\* As much for each seat of a set: the sum is that many times it.
Each(S, d) == [s \in Seats |-> IF s \in S THEN d ELSE 0]

LEMMA EachSums ==
  ASSUME NEW S \in SUBSET Seats, NEW d \in Nat
  PROVE  Each(S, d) \in [Seats -> Nat] /\ SumFunction(Each(S, d)) = d * Cardinality(S)
  <1> DEFINE Good(T) == SumFunction(Each(T, d)) = d * Cardinality(T)
             C == {T \in SUBSET S : ~ Good(T)}
  <1>0. \A T : Each(T, d) \in [Seats -> Nat]
    BY DEF Each
  <1>1. SUFFICES ASSUME C # {} PROVE FALSE
    BY <1>0, <1>1
  <1>2. PICK T \in C : \A U \in C : U \subseteq T => U = T
    <2>1. C \in SUBSET (SUBSET S) /\ IsFiniteSet(S)
      BY SeatSets
    <2> HIDE DEF C
    <2> QED
      BY ONLY <1>1, <2>1, MinimalSubset
  <1>3. T # {}
    <2>1. \A s \in Seats : Each({}, d)[s] = 0
      BY DEF Each
    <2>2. SumFunction(Each({}, d)) = 0
      BY <1>0, <2>1, SeatSumZero
    <2>3. Good({})
      BY <2>2, FS_EmptySet
    <2> QED
      BY <2>3
  <1>4. PICK x \in T : TRUE
    BY <1>3
  <1> DEFINE U == T \ {x}
  <1>5. U \in SUBSET S /\ U \subseteq T /\ U # T /\ x \in Seats /\ T \in SUBSET Seats
    BY <1>4
  <1>6. Good(U)
    BY <1>2, <1>5
  <1>7. Cardinality(T) = Cardinality(U) + 1 /\ Cardinality(U) \in Nat
    <2>1. IsFiniteSet(T) /\ Cardinality(T) \in Nat /\ IsFiniteSet(U) /\ Cardinality(U) \in Nat
      BY <1>5, SeatSets
    <2>2. Cardinality(U) = Cardinality(T) - 1
      BY <1>4, <2>1, FS_RemoveElement
    <2> QED
      BY <2>1, <2>2
  <1>8. ChangedAt(Each(U, d), Each(T, d), x, d)
    BY <1>0, <1>4, <1>5 DEF ChangedAt, Each
  <1> HIDE DEF U
  <1>9. SumFunction(Each(T, d)) = SumFunction(Each(U, d)) + d
    BY <1>8, SeatSumChanges
  <1>10. d * (Cardinality(U) + 1) = d * Cardinality(U) + d
    BY ONLY <1>7, d \in Nat
  <1>11. Good(T)
    BY <1>6, <1>7, <1>9, <1>10
  <1> QED
    BY <1>2, <1>11

-----------------------------------------------------------------------------
\* The showdown

\* A live hand that beats every other.
Best(t, scores, s) ==
  s \in InHand(t) /\ \A x \in InHand(t) \ {s} : scores[x] < scores[s]

Layer(t, m) == {s \in Seats : t.sh[s].total >= m}

\* What a layer of a pot pays: all of it but the rake, to seats that reach it, and
\* to the best hand if that one reaches it.
Awarded(t, layer, pot, raked, c, scores, a) ==
  /\ a.paid \in [Seats -> Nat]
  /\ a.rake \in Nat /\ raked + a.rake <= c.rakeCap
  /\ SumFunction(a.paid) + a.rake = pot
  /\ \A s \in Seats \ layer : a.paid[s] = 0
  /\ \A s \in layer : Best(t, scores, s) => a.paid[s] + a.rake = pot

\* The best hand wins a pot it is in alone.
LEMMA BestIsSoleWinner ==
  ASSUME NEW t, NEW layer \in SUBSET Seats, NEW scores \in [Seats -> Ranks],
         NEW s \in layer, Best(t, scores, s)
  PROVE  Winners(t, layer, scores) = {s}
  <1>1. \A x \in Seats : scores[x] \in Nat
    BY RoomAssumption
  <1>2. \A x \in layer : t.sh[x].inHand => x \in InHand(t)
    BY DEF InHand
  <1>3. t.sh[s].inHand
    BY DEF Best, InHand
  <1>4. ASSUME NEW x \in layer, t.sh[x].inHand, x # s PROVE scores[x] < scores[s]
    BY <1>2, <1>4 DEF Best
  <1>5. s \in Winners(t, layer, scores)
    BY <1>1, <1>3, <1>4 DEF Winners
  <1>6. ASSUME NEW x \in Winners(t, layer, scores) PROVE x = s
    <2>1. x \in layer /\ t.sh[x].inHand /\ scores[s] <= scores[x]
      BY <1>3, <1>6 DEF Winners
    <2> QED
      BY <1>1, <1>4, <2>1
  <1> QED
    BY <1>5, <1>6

\* The winners' shares of a net pot.
Shares(t, winners, net) ==
  [s \in Seats |-> IF s \in winners
                   THEN net \div Cardinality(winners)
                        + IF OddChip(t, winners, s, net % Cardinality(winners)) THEN 1 ELSE 0
                   ELSE 0]

LEMMA SharesPay ==
  ASSUME NEW t \in Table, NEW winners \in SUBSET Seats, winners # {}, NEW net \in Nat
  PROVE  /\ Shares(t, winners, net) \in [Seats -> Nat]
         /\ SumFunction(Shares(t, winners, net)) = net
         /\ \A s \in Seats \ winners : Shares(t, winners, net)[s] = 0
  <1> DEFINE n == Cardinality(winners)
             q == net \div n
             rem == net % n
             odd == OddWinners(t, winners, rem)
             paid == Shares(t, winners, net)
  <1>1. n \in Nat \ {0}
    BY SeatSets
  <1>n. paid = [s \in Seats |-> IF s \in winners
                                THEN q + IF OddChip(t, winners, s, rem) THEN 1 ELSE 0
                                ELSE 0]
    BY Zenon DEF Shares
  <1>e. n = Cardinality(winners)
    OBVIOUS
  <1> HIDE DEF n
  <1>2. q \in Nat /\ rem \in Nat /\ rem < n /\ net = n * q + rem
    <2>1. net \div n \in Nat /\ net % n \in 0..(n - 1) /\ net = n * (net \div n) + (net % n)
      BY ONLY <1>1, net \in Nat
    <2> QED
      BY <1>1, <2>1
  <1> HIDE DEF q, rem
  <1>3. odd \in SUBSET Seats /\ Cardinality(odd) = rem
    <2>1. odd \in SUBSET Seats
      BY DEF OddWinners
    <2>2. rem <= Cardinality(winners)
      BY <1>1, <1>2, <1>e
    <2> QED
      BY <1>2, <2>1, <2>2, OddChipsCount
  <1>4. \A s \in Seats : s \in odd <=> s \in winners /\ OddChip(t, winners, s, rem)
    BY DEF OddWinners
  <1> HIDE DEF odd, paid
  <1>5. paid \in [Seats -> Nat] /\ \A s \in Seats \ winners : paid[s] = 0
    <2>1. \A s \in Seats : paid[s] \in Nat
      BY <1>2, <1>n
    <2>2. paid = [s \in Seats |-> paid[s]]
      BY <1>n
    <2> QED
      BY <1>n, <2>1, <2>2
  <1>6. /\ Each(winners, q) \in [Seats -> Nat] /\ SumFunction(Each(winners, q)) = q * n
        /\ Each(odd, 1) \in [Seats -> Nat] /\ SumFunction(Each(odd, 1)) = rem
    <2>1. SumFunction(Each(odd, 1)) = 1 * Cardinality(odd)
      BY <1>3, EachSums
    <2> QED
      BY <1>2, <1>3, <1>e, <2>1, EachSums
  <1>7. \A s \in Seats : paid[s] = Each(winners, q)[s] + Each(odd, 1)[s]
    BY <1>2, <1>4, <1>n DEF Each
  <1>8. SumFunction(paid) = q * n + rem
    <2>1. SumFunction(paid) = SumFunction(Each(winners, q)) + SumFunction(Each(odd, 1))
      BY ONLY <1>5, <1>6, <1>7, SeatSumAdds
    <2> QED
      BY <1>6, <2>1
  <1>9. q * n = n * q
    BY ONLY <1>1, <1>2
  <1>10. SumFunction(paid) = net
    BY <1>2, <1>8, <1>9
  <1> QED
    BY <1>5, <1>10 DEF paid

LEMMA AwardPays ==
  ASSUME NEW t \in Table, NEW floor \in Nat, NEW m \in Nat, floor < m, Layer(t, m) # {},
         NEW scores \in [Seats -> Ranks], NEW c \in TableConfig, NEW raked \in Nat,
         raked <= c.rakeCap
  PROVE  Awarded(t, Layer(t, m), (m - floor) * Cardinality(Layer(t, m)), raked, c, scores,
                 AwardLayer(t, floor, m, scores, c, raked))
  <1> DEFINE layer == Layer(t, m)
             pot == (m - floor) * Cardinality(layer)
             rake == Lesser(Share(pot, c.rakeBps), c.rakeCap - raked)
             winners == Winners(t, layer, scores)
             net == pot - rake
             a == AwardLayer(t, floor, m, scores, c, raked)
             given == IF Cardinality(layer) = 1 THEN 0 ELSE rake
  <1>1. /\ layer \in SUBSET Seats /\ layer # {} /\ Cardinality(layer) \in Nat \ {0}
        /\ winners \in SUBSET layer
    <2>1. layer \in SUBSET Seats
      BY DEF Layer
    <2>2. winners \in SUBSET layer
      BY DEF Winners
    <2> QED
      BY <2>1, <2>2, SeatSets
  <1>2. pot \in Nat
    <2> DEFINE d == m - floor
               k == Cardinality(layer)
    <2>1. d \in Nat /\ k \in Nat
      BY <1>1
    <2> HIDE DEF d, k
    <2>2. d * k \in Nat
      BY <2>1, Z3
    <2> QED
      BY <2>2 DEF d, k
  <1> DEFINE x == Share(pot, c.rakeBps)
             bps == c.rakeBps
  <1>3. bps \in 0..1000 /\ c.rakeCap \in Nat
    BY DEF TableConfig
  <1>a. /\ a.rake = given
        /\ a.paid = [s \in Seats |->
                       IF Cardinality(layer) = 1 THEN IF s \in layer THEN pot ELSE 0
                       ELSE IF winners = {} THEN IF s = Lowest(layer) THEN net ELSE 0
                       ELSE Shares(t, winners, net)[s]]
    <2> DEFINE paid == [s \in Seats |->
                          IF Cardinality(layer) = 1 THEN IF s \in layer THEN pot ELSE 0
                          ELSE IF winners = {} THEN IF s = Lowest(layer) THEN net ELSE 0
                          ELSE IF s \in winners
                               THEN net \div Cardinality(winners)
                                    + IF OddChip(t, winners, s, net % Cardinality(winners))
                                      THEN 1 ELSE 0
                          ELSE 0]
    <2>1. a = [paid |-> paid, rake |-> given]
      BY DEF AwardLayer, Layer, Share
    <2>2. a.paid = paid /\ a.rake = given
      BY <2>1
    <2>3. \A s \in Seats : Shares(t, winners, net)[s]
                            = IF s \in winners
                              THEN net \div Cardinality(winners)
                                    + IF OddChip(t, winners, s, net % Cardinality(winners))
                                      THEN 1 ELSE 0
                              ELSE 0
      BY Zenon DEF Shares
    <2> HIDE DEF a, layer, winners, net, pot
    <2> QED
      BY <2>2, <2>3
  <1> HIDE DEF pot, bps
  <1>4. Share(pot, bps) \in 0..pot
    BY <1>2, <1>3, RakeIsInPot
  <1> HIDE DEF x
  <1>5. rake \in Nat /\ rake <= pot /\ raked + rake <= c.rakeCap /\ net \in Nat /\ net + rake = pot
    <2>1. rake = Lesser(x, c.rakeCap - raked) /\ x \in 0..pot
      BY <1>4 DEF x, bps
    <2> HIDE DEF rake
    <2> QED
      BY <1>2, <1>3, <2>1 DEF Lesser
  <1> HIDE DEF rake, winners, a, layer
  <1>6. ASSUME Cardinality(layer) = 1
        PROVE  Awarded(t, layer, pot, raked, c, scores, a)
    <2>1. PICK y : layer = {y}
      BY <1>1, <1>6, SeatSets, FS_Singleton
    <2>2. a.paid = [s \in Seats |-> IF s \in layer THEN pot ELSE 0] /\ a.rake = 0
      BY <1>6, <1>a
    <2>3. y \in Seats /\ a.paid \in [Seats -> Nat] /\ a.paid[y] = pot
          /\ \A s \in Seats \ {y} : a.paid[s] = 0
      BY <1>1, <1>2, <2>1, <2>2
    <2>4. SumFunction(a.paid) = pot
      BY <2>3, SeatSumOne
    <2> QED
      BY <1>2, <2>1, <2>2, <2>3, <2>4 DEF Awarded
  <1>7. ASSUME Cardinality(layer) # 1 /\ winners = {}
        PROVE  Awarded(t, layer, pot, raked, c, scores, a)
    <2> DEFINE y == Lowest(layer)
    <2>1. y \in layer
      BY <1>1, LowestIsOf
    <2>2. a.paid = [s \in Seats |-> IF s = y THEN net ELSE 0] /\ a.rake = rake
      BY <1>7, <1>a
    <2> HIDE DEF y, net
    <2>3. y \in Seats /\ a.paid \in [Seats -> Nat] /\ a.paid[y] = net
          /\ \A s \in Seats \ {y} : a.paid[s] = 0
      BY <1>1, <1>5, <2>1, <2>2
    <2>4. SumFunction(a.paid) = net
      BY <2>3, SeatSumOne
    <2>5. \A s \in layer : ~ Best(t, scores, s)
      BY <1>1, <1>7, BestIsSoleWinner DEF winners
    <2> QED
      BY <1>5, <2>1, <2>2, <2>3, <2>4, <2>5 DEF Awarded
  <1>8. ASSUME Cardinality(layer) # 1 /\ winners # {}
        PROVE  Awarded(t, layer, pot, raked, c, scores, a)
    <2>1. a.paid = [s \in Seats |-> Shares(t, winners, net)[s]] /\ a.rake = rake
      BY <1>8, <1>a
    <2> HIDE DEF net
    <2>2. /\ winners \in SUBSET Seats
          /\ Shares(t, winners, net) \in [Seats -> Nat]
          /\ SumFunction(Shares(t, winners, net)) = net
          /\ \A s \in Seats \ winners : Shares(t, winners, net)[s] = 0
      BY <1>1, <1>5, <1>8, SharesPay
    <2>3. a.paid = Shares(t, winners, net)
      BY <2>1, <2>2
    <2>4. ASSUME NEW s \in layer, Best(t, scores, s) PROVE a.paid[s] = net
      <3>1. winners = {s} /\ s \in Seats
        BY <1>1, <2>4, BestIsSoleWinner DEF winners
      <3>2. SumFunction(a.paid) = a.paid[s]
        BY <2>2, <2>3, <3>1, SeatSumOne
      <3> QED
        BY <2>2, <2>3, <3>2
    <2>5. \A s \in Seats \ layer : a.paid[s] = 0
      BY <1>1, <2>2, <2>3
    <2> QED
      BY <1>5, <2>1, <2>2, <2>3, <2>4, <2>5 DEF Awarded
  <1> QED
    BY <1>6, <1>7, <1>8 DEF a, layer, pot

\* A finite set of natural numbers has a greatest one.
LEMMA GreatestExists ==
  ASSUME NEW S, IsFiniteSet(S), S \in SUBSET Nat, S # {}
  PROVE  \E x \in S : \A y \in S : y <= x
  <1> DEFINE Good(T) == \E x \in T : \A y \in T : y <= x
             C == {T \in SUBSET S : T # {} /\ ~ Good(T)}
  <1>1. SUFFICES ASSUME C # {} PROVE FALSE
    BY <1>1
  <1>2. PICK T \in C : \A U \in C : U \subseteq T => U = T
    <2>1. C \in SUBSET (SUBSET S)
      OBVIOUS
    <2> HIDE DEF C
    <2> QED
      BY ONLY <1>1, <2>1, IsFiniteSet(S), MinimalSubset
  <1>3. T \in SUBSET S /\ T # {} /\ ~ Good(T)
    BY <1>2
  <1>4. PICK x \in T : TRUE
    BY <1>3
  <1> DEFINE U == T \ {x}
  <1>5. CASE U = {}
    <2>1. T = {x} /\ x \in Nat
      BY <1>3, <1>5
    <2>2. \A y \in T : y <= x
      BY <2>1
    <2> QED
      BY <1>3, <1>4, <2>2
  <1>6. CASE U # {}
    <2>1. Good(U)
      <3>1. U \in SUBSET S /\ U \subseteq T /\ U # T
        BY <1>3, <1>4
      <3>2. U \notin C
        BY <1>2, <3>1
      <3> QED
        BY <1>6, <3>1, <3>2
    <2>2. PICK z \in U : \A y \in U : y <= z
      BY <2>1
    <2>3. x \in Nat /\ z \in Nat /\ \A y \in T : y \in Nat /\ (y = x \/ y \in U)
      BY <1>3
    <2>4. CASE x <= z
      <3>1. \A y \in T : y <= z
        BY <2>2, <2>3, <2>4
      <3> QED
        BY <1>3, <3>1
    <2>5. CASE z < x
      <3>1. \A y \in T : y <= x
        <4> TAKE y \in T
        <4>1. y \in U => y <= z
          BY <2>2
        <4> QED
          BY <2>3, <2>5, <4>1
      <3> QED
        BY <1>3, <3>1
    <2> QED
      BY <2>3, <2>4, <2>5
  <1> QED
    BY <1>5, <1>6

LEMMA GreatestNat ==
  ASSUME NEW S, IsFiniteSet(S), S \in SUBSET Nat, S # {}
  PROVE  Max(S) \in S /\ \A y \in S : y <= Max(S)
  <1>1. PICK z \in S : \A y \in S : y <= z
    BY GreatestExists
  <1>2. \A y \in S : z >= y
    BY <1>1
  <1>3. Max(S) \in S /\ \A y \in S : Max(S) >= y
    BY <1>2 DEF Max
  <1> QED
    BY <1>3

\* The levels of a table's pots.
Levels(t) == {t.sh[s].total : s \in Seats} \cup {0}
FloorOf(t, m) == Max({l \in Levels(t) : l < m})

LEMMA LevelsAre ==
  ASSUME NEW t \in Table
  PROVE  /\ Levels(t) \in SUBSET Nat /\ 0 \in Levels(t)
         /\ \A s \in Seats : t.sh[s].total \in Levels(t) /\ t.sh[s].total \in Nat
         /\ Max(Levels(t)) \in Levels(t) /\ \A l \in Levels(t) : l <= Max(Levels(t))
         /\ \A m \in Levels(t) \ {0} :
               /\ FloorOf(t, m) \in Levels(t) /\ FloorOf(t, m) < m
               /\ \A l \in Levels(t) : l < m => l <= FloorOf(t, m)
  <1> DEFINE T == {t.sh[s].total : s \in Seats}
             f == [s \in Seats |-> t.sh[s].total]
  <1>1. \A s \in Seats : t.sh[s].total \in Nat
    BY DEF Table, SeatHand
  <1>2. f \in Surjection(Seats, T)
    BY DEF Surjection
  <1>3. IsFiniteSet(T)
    <2> HIDE DEF f, T
    <2> QED
      BY <1>2, SeatsAre, FS_Surjection
  <1>4. IsFiniteSet(Levels(t))
    BY <1>3, FS_AddElement DEF Levels
  <1>5. Levels(t) \in SUBSET Nat /\ 0 \in Levels(t)
    BY <1>1 DEF Levels
  <1>6. \A s \in Seats : t.sh[s].total \in Levels(t)
    BY DEF Levels
  <1>7. Max(Levels(t)) \in Levels(t) /\ \A l \in Levels(t) : l <= Max(Levels(t))
    BY <1>4, <1>5, GreatestNat
  <1>8. ASSUME NEW m \in Levels(t) \ {0}
        PROVE  /\ FloorOf(t, m) \in Levels(t) /\ FloorOf(t, m) < m
               /\ \A l \in Levels(t) : l < m => l <= FloorOf(t, m)
    <2> DEFINE S == {l \in Levels(t) : l < m}
    <2>1. S \in SUBSET Levels(t) /\ 0 \in S
      BY <1>5
    <2> HIDE DEF S
    <2>2. S \in SUBSET Nat /\ IsFiniteSet(S) /\ S # {}
      BY <1>4, <1>5, <2>1, FS_Subset
    <2>3. Max(S) \in S /\ \A y \in S : y <= Max(S)
      BY ONLY <2>2, GreatestNat
    <2> QED
      BY <2>3 DEF S, FloorOf
  <1> QED
    BY <1>1, <1>5, <1>6, <1>7, <1>8

\* What Peeled's function is at a level, and that there is such a function.
AfterLayer(t, scores, c, after, m) ==
  IF m = 0 THEN [rake |-> 0, stack |-> t.stack]
  ELSE LET acc == after[FloorOf(t, m)]
           award == AwardLayer(t, FloorOf(t, m), m, scores, c, acc.rake)
       IN  [rake |-> acc.rake + award.rake,
            stack |-> [s \in Seats |-> acc.stack[s] + award.paid[s]]]

IsPeeling(after, t, scores, c) ==
  after = [m \in Levels(t) |-> AfterLayer(t, scores, c, after, m)]

LEMMA PeeledIs ==
  ASSUME NEW t, NEW scores, NEW c
  PROVE  Peeled(t, scores, c) = (CHOOSE after : IsPeeling(after, t, scores, c))[Max(Levels(t))]
  BY Zenon DEF Peeled, IsPeeling, AfterLayer, FloorOf, Levels

PeelsUpTo(it, n, t, scores, c) ==
  \A m \in Levels(t) : m <= n => it[m] = AfterLayer(t, scores, c, it, m)

LEMMA PeelingExists ==
  ASSUME NEW t \in Table, NEW scores, NEW c
  PROVE  \E after : IsPeeling(after, t, scores, c)
  <1> DEFINE Good(n) == \E it : PeelsUpTo(it, n, t, scores, c)
             C == {n \in Nat : ~ Good(n)}
  <1>0. /\ Levels(t) \in SUBSET Nat /\ 0 \in Levels(t)
        /\ Max(Levels(t)) \in Levels(t) /\ \A l \in Levels(t) : l <= Max(Levels(t))
        /\ \A m \in Levels(t) \ {0} : FloorOf(t, m) \in Levels(t) /\ FloorOf(t, m) < m
    BY LevelsAre
  <1>1. \A n \in Nat : Good(n)
    <2>1. SUFFICES ASSUME C # {} PROVE FALSE
      OBVIOUS
    <2>2. PICK n \in C : \A i \in C : n <= i
      <3>1. C \in SUBSET Nat
        OBVIOUS
      <3> HIDE DEF C
      <3> QED
        BY ONLY <2>1, <3>1, LeastNat
    <2>3. n \in Nat /\ ~ Good(n)
      BY <2>2
    <2>4. CASE n = 0
      <3> DEFINE it == [m \in Levels(t) |-> [rake |-> 0, stack |-> t.stack]]
      <3>1. \A m \in Levels(t) : m <= n => it[m] = AfterLayer(t, scores, c, it, m)
        BY <1>0, <2>4 DEF AfterLayer
      <3> QED
        BY <2>3, <3>1 DEF PeelsUpTo
    <2>5. CASE n # 0
      <3>1. PICK k \in Nat : n = k + 1
        <4>1. n - 1 \in Nat /\ n = (n - 1) + 1
          BY <2>3, <2>5
        <4> QED
          BY <4>1
      <3>2. Good(k)
        BY <2>2, <3>1
      <3>3. PICK it : PeelsUpTo(it, k, t, scores, c)
        BY <3>2
      <3> DEFINE new == [m \in Levels(t) |-> IF m <= k THEN it[m]
                                             ELSE AfterLayer(t, scores, c, it, m)]
      <3>4. ASSUME NEW m \in Levels(t), m <= n PROVE new[m] = AfterLayer(t, scores, c, new, m)
        <4>1. m # 0 => new[FloorOf(t, m)] = it[FloorOf(t, m)]
          <5>1. m # 0 => FloorOf(t, m) \in Levels(t) /\ FloorOf(t, m) <= k
            BY <1>0, <3>1, <3>4
          <5> QED
            BY <5>1
        <4>2. new[m] = AfterLayer(t, scores, c, it, m)
          BY <3>3 DEF PeelsUpTo
        <4> HIDE DEF new
        <4>3. AfterLayer(t, scores, c, new, m) = AfterLayer(t, scores, c, it, m)
          BY <4>1, Zenon DEF AfterLayer
        <4> QED
          BY <4>2, <4>3
      <3> HIDE DEF new
      <3>5. PeelsUpTo(new, n, t, scores, c)
        BY <3>4 DEF PeelsUpTo
      <3> QED
        BY <2>3, <3>5
    <2> QED
      BY <2>4, <2>5
  <1>2. PICK it : PeelsUpTo(it, Max(Levels(t)), t, scores, c)
    <2>1. Max(Levels(t)) \in Nat
      BY <1>0
    <2> QED
      BY <1>1, <2>1
  <1> DEFINE after == [m \in Levels(t) |-> it[m]]
  <1>3. ASSUME NEW m \in Levels(t) PROVE after[m] = AfterLayer(t, scores, c, after, m)
    <2>1. m # 0 => after[FloorOf(t, m)] = it[FloorOf(t, m)]
      BY <1>0
    <2>2. after[m] = AfterLayer(t, scores, c, it, m)
      BY <1>0, <1>2 DEF PeelsUpTo
    <2> HIDE DEF after
    <2>3. AfterLayer(t, scores, c, after, m) = AfterLayer(t, scores, c, it, m)
      BY <2>1, Zenon DEF AfterLayer
    <2> QED
      BY <2>2, <2>3
  <1>4. after = [m \in Levels(t) |-> after[m]]
    OBVIOUS
  <1> HIDE DEF after
  <1>5. IsPeeling(after, t, scores, c)
    BY <1>3, <1>4 DEF IsPeeling
  <1> QED
    BY <1>5

\* What the seats put in up to a level.
Reach(t, k) == SumFunction([x \in Seats |-> Lesser(t.sh[x].total, k)])

LEMMA ReachIs ==
  ASSUME NEW t \in Table, NEW k \in Nat
  PROVE  /\ [x \in Seats |-> Lesser(t.sh[x].total, k)] \in [Seats -> Nat]
         /\ Reach(t, k) \in Nat
  <1> DEFINE f == [x \in Seats |-> Lesser(t.sh[x].total, k)]
  <1>1. \A x \in Seats : t.sh[x].total \in Nat
    BY LevelsAre
  <1>2. f \in [Seats -> Nat]
    BY <1>1 DEF Lesser
  <1> HIDE DEF f
  <1>3. SumFunction(f) \in Nat
    BY <1>2, SeatSum
  <1> QED
    BY <1>2, <1>3 DEF f, Reach

LEMMA ReachGrows ==
  ASSUME NEW t \in Table, NEW m \in Levels(t) \ {0}
  PROVE  LET floor == FloorOf(t, m)
         IN  Reach(t, m) = Reach(t, floor) + (m - floor) * Cardinality(Layer(t, m))
  <1> DEFINE floor == FloorOf(t, m)
             layer == Layer(t, m)
             d == m - floor
             f == [x \in Seats |-> Lesser(t.sh[x].total, floor)]
             g == [x \in Seats |-> Lesser(t.sh[x].total, m)]
  <1>1. /\ m \in Nat /\ floor \in Nat /\ floor < m /\ d \in Nat
        /\ \A x \in Seats : /\ t.sh[x].total \in Nat
                            /\ t.sh[x].total < m => t.sh[x].total <= floor
    <2>1. m \in Nat /\ floor \in Nat /\ floor < m
      BY LevelsAre
    <2>2. \A x \in Seats : /\ t.sh[x].total \in Nat
                           /\ t.sh[x].total < m => t.sh[x].total <= floor
      BY LevelsAre
    <2> QED
      BY <2>1, <2>2
  <1>2. layer \in SUBSET Seats
    BY DEF Layer
  <1>3. f \in [Seats -> Nat] /\ g \in [Seats -> Nat]
    BY <1>1, ReachIs
  <1>4. \A x \in Seats : g[x] = f[x] + Each(layer, d)[x]
    <2> TAKE x \in Seats
    <2>1. g[x] = Lesser(t.sh[x].total, m) /\ f[x] = Lesser(t.sh[x].total, floor)
      OBVIOUS
    <2>2. Each(layer, d)[x] = IF t.sh[x].total >= m THEN m - floor ELSE 0
      BY DEF Each, Layer
    <2> HIDE DEF f, g, layer, d, floor
    <2> QED
      BY <1>1, <2>1, <2>2 DEF Lesser
  <1>5. Each(layer, d) \in [Seats -> Nat] /\ SumFunction(Each(layer, d)) = d * Cardinality(layer)
    <2> HIDE DEF layer, d
    <2> QED
      BY <1>1, <1>2, EachSums
  <1>6. SumFunction(g) = SumFunction(f) + SumFunction(Each(layer, d))
    <2> HIDE DEF f, g, layer, d
    <2> QED
      BY ONLY <1>3, <1>4, <1>5, SeatSumAdds
  <1>7. SumFunction(f) = Reach(t, floor) /\ SumFunction(g) = Reach(t, m)
    BY Zenon DEF Reach
  <1> QED
    BY <1>5, <1>6, <1>7, Zenon

LEMMA ReachEnds ==
  ASSUME NEW t \in Table
  PROVE  Reach(t, 0) = 0 /\ Reach(t, Max(Levels(t))) = Totals(t)
  <1>1. \A x \in Seats : t.sh[x].total \in Nat /\ t.sh[x].total <= Max(Levels(t))
    BY LevelsAre
  <1>2. Max(Levels(t)) \in Nat
    BY LevelsAre
  <1>3. Reach(t, 0) = 0
    <2> DEFINE f == [x \in Seats |-> Lesser(t.sh[x].total, 0)]
    <2>1. f \in [Seats -> Nat] /\ \A x \in Seats : f[x] = 0
      BY <1>1 DEF Lesser
    <2> HIDE DEF f
    <2>2. SumFunction(f) = 0
      BY <2>1, SeatSumZero
    <2> QED
      BY <2>2 DEF f, Reach
  <1>4. [x \in Seats |-> Lesser(t.sh[x].total, Max(Levels(t)))] = [x \in Seats |-> t.sh[x].total]
    BY <1>1, <1>2 DEF Lesser
  <1> QED
    BY <1>3, <1>4, Zenon DEF Reach, Totals

\* What is true once the layers up to level m are peeled off: every chip is in a
\* stack or in the rake, no seat won more than was put in up to its own
\* contribution, and the best hand no less, but for the rake.
PeeledTo(t, scores, c, m, a) ==
  /\ a.stack \in [Seats -> Nat] /\ a.rake \in Nat /\ a.rake <= c.rakeCap
  /\ SumFunction(a.stack) + a.rake = Stacks(t) + Reach(t, m)
  /\ \A s \in Seats :
        LET most == Reach(t, Lesser(t.sh[s].total, m))
        IN  /\ a.stack[s] <= t.stack[s] + most
            /\ Best(t, scores, s) => a.stack[s] + a.rake >= t.stack[s] + most

LEMMA LayerPeels ==
  ASSUME NEW t \in Table, NEW scores \in [Seats -> Ranks], NEW c \in TableConfig,
         NEW m \in Levels(t) \ {0}, NEW acc, PeeledTo(t, scores, c, FloorOf(t, m), acc),
         NEW award, award = AwardLayer(t, FloorOf(t, m), m, scores, c, acc.rake),
         NEW a, a.rake = acc.rake + award.rake,
         a.stack = [s \in Seats |-> acc.stack[s] + award.paid[s]]
  PROVE  PeeledTo(t, scores, c, m, a)
  <1> DEFINE floor == FloorOf(t, m)
             layer == Layer(t, m)
             pot == (m - floor) * Cardinality(layer)
  <1>1. m \in Nat /\ m # 0 /\ floor \in Nat /\ floor < m /\ \A l \in Levels(t) : l \in Nat /\ (l < m => l <= floor)
    BY LevelsAre
  <1>2. acc.stack \in [Seats -> Nat] /\ acc.rake \in Nat /\ acc.rake <= c.rakeCap
        /\ SumFunction(acc.stack) + acc.rake = Stacks(t) + Reach(t, floor)
    BY DEF PeeledTo
  <1>3. layer # {}
    <2>1. PICK s \in Seats : t.sh[s].total = m
      BY DEF Levels
    <2>2. s \in layer
      BY <1>1, <2>1 DEF Layer
    <2> QED
      BY <2>2
  <1>4. Awarded(t, layer, pot, acc.rake, c, scores, award)
    <2> DEFINE raked == acc.rake
    <2>1. raked \in Nat /\ raked <= c.rakeCap /\ Layer(t, m) # {}
      BY <1>2, <1>3
    <2>2. award = AwardLayer(t, floor, m, scores, c, raked)
      OBVIOUS
    <2> HIDE DEF raked, floor
    <2>3. Awarded(t, Layer(t, m), (m - floor) * Cardinality(Layer(t, m)), raked, c, scores,
                  AwardLayer(t, floor, m, scores, c, raked))
      BY <1>1, <2>1, AwardPays
    <2> QED
      BY <2>2, <2>3 DEF raked
  <1>5. Reach(t, m) = Reach(t, floor) + pot
    BY ReachGrows
  <1>r. Reach(t, m) \in Nat /\ Reach(t, floor) \in Nat
    BY <1>1, ReachIs
  <1> HIDE DEF pot
  <1>6. /\ award.paid \in [Seats -> Nat] /\ award.rake \in Nat
        /\ acc.rake + award.rake <= c.rakeCap /\ SumFunction(award.paid) + award.rake = pot
        /\ \A s \in Seats \ layer : award.paid[s] = 0
        /\ \A s \in layer : Best(t, scores, s) => award.paid[s] + award.rake = pot
    BY <1>4 DEF Awarded
  <1>7. a.stack \in [Seats -> Nat] /\ \A s \in Seats : a.stack[s] = acc.stack[s] + award.paid[s]
    <2>1. \A s \in Seats : acc.stack[s] \in Nat /\ award.paid[s] \in Nat
      BY <1>2, <1>6
    <2> QED
      BY <2>1
  <1>8. SumFunction(a.stack) = SumFunction(acc.stack) + SumFunction(award.paid)
    BY <1>2, <1>6, <1>7, SeatSumAdds
  <1>9. SumFunction(a.stack) \in Nat /\ SumFunction(acc.stack) \in Nat
        /\ SumFunction(award.paid) \in Nat /\ Stacks(t) \in Nat
    BY <1>2, <1>6, <1>7, SeatSum, TableSums
  <1>10. SumFunction(a.stack) + a.rake = Stacks(t) + Reach(t, m)
    BY <1>2, <1>5, <1>6, <1>8, <1>9, <1>r
  <1>11. ASSUME NEW s \in Seats
         PROVE  /\ a.stack[s] <= t.stack[s] + Reach(t, Lesser(t.sh[s].total, m))
                /\ Best(t, scores, s) =>
                     a.stack[s] + a.rake >= t.stack[s] + Reach(t, Lesser(t.sh[s].total, m))
    <2>1. /\ acc.stack[s] <= t.stack[s] + Reach(t, Lesser(t.sh[s].total, floor))
          /\ Best(t, scores, s) =>
               acc.stack[s] + acc.rake >= t.stack[s] + Reach(t, Lesser(t.sh[s].total, floor))
      BY DEF PeeledTo
    <2>2. /\ t.sh[s].total \in Nat /\ (t.sh[s].total < m => t.sh[s].total <= floor)
          /\ t.stack[s] \in Nat /\ acc.stack[s] \in Nat /\ award.paid[s] \in Nat
          /\ a.stack[s] = acc.stack[s] + award.paid[s]
      BY <1>1, <1>2, <1>6, <1>7, LevelsAre DEF Table
    <2>3. CASE s \in layer
      <3>1. t.sh[s].total >= m
        BY <2>3 DEF Layer
      <3>2. Lesser(t.sh[s].total, m) = m /\ Lesser(t.sh[s].total, floor) = floor
        BY <1>1, <2>2, <3>1 DEF Lesser
      <3>3. award.paid[s] <= SumFunction(award.paid)
        BY <1>6, SeatSumAtLeast
      <3>4. award.paid[s] <= pot
        BY <1>6, <1>9, <2>2, <3>3
      <3>5. Best(t, scores, s) => award.paid[s] + award.rake = pot
        BY <1>6, <2>3
      <3> HIDE DEF floor, layer
      <3>6. pot \in Nat
        BY <1>6, <1>9
      <3> QED
        BY <1>2, <1>5, <1>6, <1>r, <2>1, <2>2, <3>2, <3>4, <3>5, <3>6
    <2>4. CASE s \notin layer
      <3>1. t.sh[s].total < m
        BY <1>1, <2>2, <2>4 DEF Layer
      <3>2. Lesser(t.sh[s].total, m) = Lesser(t.sh[s].total, floor)
        <4>1. t.sh[s].total <= floor
          BY <2>2, <3>1
        <4> HIDE DEF floor
        <4> QED
          BY <1>1, <2>2, <3>1, <4>1 DEF Lesser
      <3>3. award.paid[s] = 0
        BY <1>6, <2>4
      <3> DEFINE most == Reach(t, Lesser(t.sh[s].total, m))
      <3>4. most \in Nat
        <4>1. Lesser(t.sh[s].total, m) \in Nat
          BY <1>1, <2>2 DEF Lesser
        <4> QED
          BY <4>1, ReachIs
      <3>5. /\ acc.stack[s] <= t.stack[s] + most
            /\ Best(t, scores, s) => acc.stack[s] + acc.rake >= t.stack[s] + most
        BY <2>1, <3>2
      <3> HIDE DEF most, floor, layer
      <3>6. /\ a.stack[s] <= t.stack[s] + most
            /\ Best(t, scores, s) => a.stack[s] + a.rake >= t.stack[s] + most
        BY <1>2, <1>6, <2>2, <3>3, <3>4, <3>5
      <3> QED
        BY <3>6 DEF most
    <2> QED
      BY <2>3, <2>4
  <1>12. a.rake \in Nat /\ a.rake <= c.rakeCap
    BY <1>2, <1>6
  <1> QED
    BY <1>7, <1>10, <1>11, <1>12 DEF PeeledTo

LEMMA PeeledPays ==
  ASSUME NEW t \in Table, NEW scores \in [Seats -> Ranks], NEW c \in TableConfig
  PROVE  PeeledTo(t, scores, c, Max(Levels(t)), Peeled(t, scores, c))
  <1> DEFINE after == CHOOSE f : IsPeeling(f, t, scores, c)
             Good(m) == PeeledTo(t, scores, c, m, after[m])
             C == {m \in Levels(t) : ~ Good(m)}
  <1>1. IsPeeling(after, t, scores, c)
    BY PeelingExists
  <1>2. Peeled(t, scores, c) = after[Max(Levels(t))]
    BY PeeledIs
  <1> HIDE DEF after
  <1>3. \A m \in Levels(t) : after[m] = AfterLayer(t, scores, c, after, m)
    <2> DEFINE L(m) == AfterLayer(t, scores, c, after, m)
    <2>1. after = [m \in Levels(t) |-> L(m)]
      BY <1>1 DEF IsPeeling
    <2> HIDE DEF L
    <2>2. \A m \in Levels(t) : after[m] = L(m)
      BY <2>1
    <2> QED
      BY <2>2 DEF L
  <1>4. SUFFICES ASSUME C # {} PROVE FALSE
    BY <1>2, <1>4, LevelsAre
  <1>5. PICK m \in C : \A l \in C : m <= l
    <2>1. C \in SUBSET Nat
      BY LevelsAre
    <2> HIDE DEF C
    <2> QED
      BY ONLY <1>4, <2>1, LeastNat
  <1>6. m \in Levels(t) /\ ~ Good(m)
    BY <1>5
  <1>7. CASE m = 0
    <2>1. after[m] = [rake |-> 0, stack |-> t.stack]
      BY <1>3, <1>6, <1>7 DEF AfterLayer
    <2>2. after[m].rake = 0 /\ after[m].stack = t.stack
      BY <2>1
    <2>3. \A s \in Seats : Lesser(t.sh[s].total, m) = 0
      BY <1>7, LevelsAre DEF Lesser
    <2>4. t.stack \in [Seats -> Nat] /\ c.rakeCap \in Nat /\ Stacks(t) \in Nat
      BY TableSums DEF Table, TableConfig
    <2>5. Reach(t, 0) = 0
      BY ReachEnds
    <2> DEFINE a == after[m]
    <2>6. /\ a.stack \in [Seats -> Nat] /\ a.rake = 0 /\ SumFunction(a.stack) = Stacks(t)
          /\ \A s \in Seats : a.stack[s] = t.stack[s] /\ t.stack[s] \in Nat
          /\ \A s \in Seats : Reach(t, Lesser(t.sh[s].total, m)) = 0
      BY <2>2, <2>3, <2>4, <2>5 DEF Stacks
    <2> HIDE DEF a
    <2>7. PeeledTo(t, scores, c, m, a)
      BY <1>7, <2>4, <2>5, <2>6 DEF PeeledTo
    <2> QED
      BY <1>6, <2>7 DEF a
  <1>8. CASE m # 0
    <2> DEFINE floor == FloorOf(t, m)
               acc == after[floor]
               award == AwardLayer(t, floor, m, scores, c, acc.rake)
               a == after[m]
    <2>1. m \in Levels(t) \ {0}
      BY <1>6, <1>8
    <2>2. floor \in Levels(t) /\ floor < m /\ m \in Nat /\ floor \in Nat
      BY <2>1, LevelsAre
    <2>3. PeeledTo(t, scores, c, floor, acc)
      <3>1. floor \notin C
        BY <1>5, <2>2
      <3> QED
        BY <2>2, <3>1
    <2>4. a = [rake |-> acc.rake + award.rake,
               stack |-> [s \in Seats |-> acc.stack[s] + award.paid[s]]]
      BY <1>3, <1>6, <1>8, Zenon DEF AfterLayer
    <2>5. /\ a.rake = acc.rake + award.rake
          /\ a.stack = [s \in Seats |-> acc.stack[s] + award.paid[s]]
      BY <2>4
    <2>6. award = AwardLayer(t, FloorOf(t, m), m, scores, c, acc.rake)
      OBVIOUS
    <2> HIDE DEF acc, award, a
    <2>7. PeeledTo(t, scores, c, m, a)
      BY <2>1, <2>3, <2>5, <2>6, LayerPeels
    <2> QED
      BY <1>6, <2>7 DEF a
  <1> QED
    BY <1>7, <1>8

\* The showdown pays out what the hand holds, and to whom ShowdownPaysMatched says.
PaysMatched(t, scores, c, u) ==
  /\ u.rake - t.rake <= c.rakeCap
  /\ \A s \in Seats :
        /\ u.stack[s] - t.stack[s] <= Matched(t, s)
        /\ Best(t, scores, s) =>
             (u.stack[s] - t.stack[s]) + (u.rake - t.rake) >= Matched(t, s)

LEMMA ShowdownPays ==
  ASSUME NEW t, Staked(t), NEW scores \in [Seats -> Ranks], NEW c \in TableConfig
  PROVE  LET u == SettleShowdown(t, scores, c)
         IN  Played(t, u) /\ ~u.hand.inProgress /\ PaysMatched(t, scores, c, u)
  <1> DEFINE top == Max(Levels(t))
             settled == Peeled(t, scores, c)
             rake == t.rake + settled.rake
             stack == settled.stack
             u == SettleShowdown(t, scores, c)
  <1>0. t \in Table /\ t.rake \in Nat /\ t.stack \in [Seats -> Nat]
    BY DEF Staked, Table
  <1>1. PeeledTo(t, scores, c, top, settled)
    BY <1>0, PeeledPays
  <1>2. u = Settled(t, stack, rake)
    BY <1>0, Zenon DEF SettleShowdown, Settled
  <1> HIDE DEF settled
  <1>3. /\ stack \in [Seats -> Nat] /\ settled.rake \in Nat /\ settled.rake <= c.rakeCap
        /\ SumFunction(stack) + settled.rake = Stacks(t) + Totals(t)
    BY <1>0, <1>1, ReachEnds DEF PeeledTo
  <1>4. rake \in Nat /\ rake - t.rake = settled.rake
    BY <1>0, <1>3
  <1>5. \A s \in Seats : /\ stack[s] <= t.stack[s] + Matched(t, s)
                         /\ Best(t, scores, s) => stack[s] + settled.rake >= t.stack[s] + Matched(t, s)
    <2> TAKE s \in Seats
    <2>1. Lesser(t.sh[s].total, top) = t.sh[s].total
      <3>1. t.sh[s].total \in Nat /\ top \in Nat /\ t.sh[s].total <= top
        BY <1>0, LevelsAre
      <3> QED
        BY <3>1 DEF Lesser
    <2>2. Matched(t, s) = Reach(t, t.sh[s].total)
      BY Zenon DEF Matched, Reach
    <2> HIDE DEF top
    <2> QED
      BY <1>1, <2>1, <2>2 DEF PeeledTo
  <1> HIDE DEF stack, rake, u
  <1>6. /\ Sound(u) /\ ~u.hand.inProgress /\ u.stack = stack /\ u.rake = rake
        /\ Chips(u) = SumFunction(stack) + rake
    BY <1>0, <1>2, <1>3, <1>4, HandIsOver
  <1>7. Chips(u) = Chips(t)
    <2>1. AtStake(t) = Totals(t)
      BY DEF AtStake, Totals, Staked
    <2>2. Stacks(t) \in Nat /\ Totals(t) \in Nat /\ SumFunction(stack) \in Nat
      BY <1>0, <1>3, TableSums, SeatSum
    <2>3. rake = t.rake + settled.rake
      BY DEF rake
    <2> QED
      BY <1>0, <1>3, <1>6, <2>1, <2>2, <2>3 DEF Chips
  <1>8. PaysMatched(t, scores, c, u)
    <2>1. ASSUME NEW s \in Seats
          PROVE  /\ u.stack[s] - t.stack[s] <= Matched(t, s)
                 /\ Best(t, scores, s) =>
                      (u.stack[s] - t.stack[s]) + (u.rake - t.rake) >= Matched(t, s)
      <3>1. u.stack[s] \in Nat /\ t.stack[s] \in Nat /\ u.stack[s] = stack[s]
        BY <1>0, <1>3, <1>6
      <3>2. Matched(t, s) \in Nat
        <4>1. t.sh[s].total \in Nat
          BY <1>0, LevelsAre
        <4>2. Matched(t, s) = Reach(t, t.sh[s].total)
          BY Zenon DEF Matched, Reach
        <4> QED
          BY <1>0, <4>1, <4>2, ReachIs
      <3> QED
        BY <1>3, <1>4, <1>5, <1>6, <3>1, <3>2
    <2> QED
      BY <1>3, <1>4, <1>6, <2>1 DEF PaysMatched
  <1>9. PaidInHand(t, u)
    <2> SUFFICES ASSUME NEW s \in Seats, u.stack[s] > t.stack[s]
                 PROVE  t.sh[s].inHand \/ t.sh[s].total > 0
      BY DEF PaidInHand
    <2>1. t.sh[s].total \in Nat
      BY <1>0, LevelsAre
    <2>2. SUFFICES ASSUME t.sh[s].total = 0 PROVE FALSE
      BY <2>1
    <2>3. Matched(t, s) = Reach(t, t.sh[s].total)
      BY Zenon DEF Matched, Reach
    <2>4. Matched(t, s) = 0
      BY <1>0, <2>2, <2>3, ReachEnds
    <2>5. u.stack[s] \in Nat /\ t.stack[s] \in Nat /\ u.stack[s] = stack[s]
      BY <1>0, <1>3, <1>6
    <2> QED
      BY <1>5, <2>4, <2>5
  <1> QED
    BY <1>6, <1>7, <1>8, <1>9 DEF u, Played

-----------------------------------------------------------------------------
\* The room

SeatTypes == [Seats -> [player : Players \cup {NoPlayer}, sittingOut : BOOLEAN]]

Accusations ==
  [active : BOOLEAN, seat : Seats \cup {NO_SEAT}, card : Cards \cup {0}, elapsed : BOOLEAN]

RoomTyped ==
  /\ seats \in SeatTypes /\ cfg \in TableConfig
  /\ handCounter \in Nat /\ lastButton \in Seats
  /\ accusation \in Accusations
  /\ balance \in [Players -> Nat]

\* No chips are in front of an empty seat, and none of its are in the pot.
SeatsFilled(t, st) ==
  \A s \in Seats :
     st[s].player = NoPlayer =>
        /\ t.stack[s] = 0
        /\ t.hand.inProgress => ~t.sh[s].inHand /\ t.sh[s].total = 0

\* The invariant of the room.  The turn is owed because the table is sound; chips
\* stay because none is in front of an empty seat, whose stack the next player's
\* buy-in overwrites; and a seat that can be accused keeps its player.
RoomInv ==
  /\ RoomTyped
  /\ Sound(table)
  /\ SeatsFilled(table, seats)
  /\ AccusationIsCurrent
  /\ held = SumFunction(balance) + Chips(table)

LEMMA ChipsAre ==
  ASSUME NEW t \in Table
  PROVE  /\ Chips(t) \in Nat /\ AtStake(t) \in Nat /\ Stacks(t) \in Nat
         /\ t.rake \in Nat
  <1>1. Stacks(t) \in Nat /\ Totals(t) \in Nat /\ t.rake \in Nat
    BY TableSums DEF Table
  <1>2. AtStake(t) \in Nat
    BY <1>1, 0 \in Nat DEF AtStake, Totals
  <1> QED
    BY <1>1, <1>2 DEF Chips

\* From t to u only the seat s changes, which is not in the hand: what it put in
\* stays as it is.
SeatOnly(t, s, u) ==
  /\ u \in Table /\ u.hand = t.hand /\ u.rake = t.rake
  /\ \A x \in Seats \ {s} : u.stack[x] = t.stack[x] /\ u.sh[x] = t.sh[x]
  /\ t.hand.inProgress => /\ ~t.sh[s].inHand /\ ~u.sh[s].inHand
                          /\ u.sh[s].total = t.sh[s].total
                          /\ u.sh[s].street = t.sh[s].street

LEMMA SeatOnlyKeeps ==
  ASSUME NEW t, Sound(t), NEW s \in Seats, NEW u, SeatOnly(t, s, u)
  PROVE  Sound(u) /\ Chips(u) = Chips(t) + (u.stack[s] - t.stack[s])
  <1>0. /\ t \in Table /\ u \in Table /\ u.hand = t.hand /\ u.rake = t.rake
        /\ t.stack \in [Seats -> Nat] /\ u.stack \in [Seats -> Nat]
    BY DEF Sound, SeatOnly, Table
  <1>1. Stacks(u) = Stacks(t) + (u.stack[s] - t.stack[s])
    <2> DEFINE d == u.stack[s] - t.stack[s]
               f == t.stack
               g == u.stack
    <2>1. d \in Int /\ g[s] = f[s] + d
      BY <1>0
    <2>2. \A x \in Seats \ {s} : g[x] = f[x]
      BY DEF SeatOnly
    <2> HIDE DEF d
    <2>3. ChangedAt(f, g, s, d)
      BY <1>0, <2>1, <2>2 DEF ChangedAt
    <2>4. SumFunction(g) = SumFunction(f) + d
      BY <2>3, SeatSumChanges
    <2> QED
      BY <2>4 DEF d, Stacks
  <1>2. ASSUME t.hand.inProgress
        PROVE  Totals(u) = Totals(t) /\ Streets(u) = Streets(t)
    <2>1. \A x \in Seats : u.sh[x].total = t.sh[x].total /\ u.sh[x].street = t.sh[x].street
      BY <1>2 DEF SeatOnly
    <2>2. /\ [x \in Seats |-> u.sh[x].total] = [x \in Seats |-> t.sh[x].total]
          /\ [x \in Seats |-> u.sh[x].street] = [x \in Seats |-> t.sh[x].street]
      BY <2>1
    <2> QED
      BY <2>2, Zenon DEF Totals, Streets
  <1>3. AtStake(u) = AtStake(t)
    <2>1. CASE t.hand.inProgress
      BY <1>0, <1>2, <2>1 DEF AtStake, Totals
    <2>2. CASE ~t.hand.inProgress
      BY <1>0, <2>2 DEF AtStake
    <2> QED
      BY <2>1, <2>2
  <1>4. Chips(u) = Chips(t) + (u.stack[s] - t.stack[s])
    <2>1. /\ Stacks(t) \in Nat /\ AtStake(t) \in Nat /\ t.rake \in Nat
          /\ u.stack[s] \in Nat /\ t.stack[s] \in Nat
      BY <1>0, ChipsAre
    <2> QED
      BY <1>0, <1>1, <1>3, <2>1 DEF Chips
  <1>5. ASSUME t.hand.inProgress
        PROVE  /\ Staked(u) /\ InHand(u) = InHand(t)
               /\ \A x \in Seats : OwesAction(u, x) <=> OwesAction(t, x)
    <2>1. Staked(t)
      BY <1>5 DEF Sound
    <2>2. \A x \in Seats : u.sh[x].inHand <=> t.sh[x].inHand
      BY <1>5 DEF SeatOnly
    <2>3. \A x \in Seats : CanAct(u, x) <=> CanAct(t, x)
      BY <1>5 DEF SeatOnly, CanAct
    <2>4. \A x \in Seats : CanAct(t, x) => u.stack[x] > 0
      <3> SUFFICES ASSUME NEW x \in Seats, CanAct(t, x) PROVE u.stack[x] > 0
        OBVIOUS
      <3>1. x # s
        BY <1>5 DEF SeatOnly, CanAct
      <3> QED
        BY <2>1, <3>1 DEF SeatOnly, Staked
    <2>5. \A x \in Seats : u.sh[x].street <= u.sh[x].total
      BY <1>5, <2>1 DEF SeatOnly, Staked
    <2>6. Staked(u)
      BY <1>0, <1>2, <1>5, <2>1, <2>3, <2>4, <2>5 DEF Staked
    <2>7. \A x \in Seats : OwesAction(u, x) <=> OwesAction(t, x)
      <3> TAKE x \in Seats
      <3>1. CASE x = s
        BY <1>5, <3>1 DEF SeatOnly, OwesAction, CanAct
      <3>2. CASE x # s
        BY <1>0, <3>2 DEF SeatOnly, OwesAction, CanAct
      <3> QED
        BY <3>1, <3>2
    <2> QED
      BY <2>2, <2>6, <2>7 DEF InHand
  <1>6. Sound(u)
    <2>1. CASE ~t.hand.inProgress
      BY <1>0, <2>1 DEF Sound, BettingAt
    <2>2. CASE t.hand.inProgress
      <3>1. InHand(t) # {} /\ (BettingAt(t) => Counted(t, 2) /\ TurnOK(t))
        BY <2>2 DEF Sound
      <3>2. BettingAt(u) <=> BettingAt(t)
        BY <1>0 DEF BettingAt
      <3>3. Counted(u, 2) <=> Counted(t, 2)
        BY <1>0, <1>5, <2>2 DEF Counted
      <3>4. TurnOK(u) <=> TurnOK(t)
        BY <1>0, <1>5, <2>2 DEF TurnOK
      <3> QED
        BY <1>0, <1>5, <2>2, <3>1, <3>2, <3>3, <3>4 DEF Sound
    <2> QED
      BY <2>1, <2>2
  <1> QED
    BY <1>4, <1>6

\* One player's bankroll changes.
PlayerChangedAt(f, g, p, d) ==
  /\ f \in [Players -> Nat] /\ g \in [Players -> Nat] /\ p \in Players /\ d \in Int
  /\ g[p] = f[p] + d
  /\ \A x \in Players \ {p} : g[x] = f[x]

LEMMA PlayerSum ==
  ASSUME NEW f \in [Players -> Nat]
  PROVE  SumFunction(f) = SumFunctionOnSet(f, Players) /\ SumFunction(f) \in Nat
  <1>1. SumFunction(f) = SumFunctionOnSet(f, Players)
    BY DEF SumFunction
  <1>2. IsFiniteSet(Players) /\ \A p \in Players : f[p] \in Nat
    BY RoomAssumption
  <1>3. SumFunctionOnSet(f, Players) \in Nat
    BY ONLY <1>2, SumIn
  <1> QED
    BY <1>1, <1>3

LEMMA PlayerSumChanges ==
  ASSUME NEW f, NEW g, NEW p, NEW d, PlayerChangedAt(f, g, p, d)
  PROVE  SumFunction(g) = SumFunction(f) + d
  <1>1. DifferAt(f, g, Players, p)
    BY DEF PlayerChangedAt, DifferAt
  <1>2. IsFiniteSet(Players)
    BY RoomAssumption
  <1>3. SumFunctionOnSet(g, Players) = SumFunctionOnSet(f, Players) + g[p] - f[p]
    BY ONLY <1>1, <1>2, SumDiffer
  <1>4. /\ SumFunction(f) = SumFunctionOnSet(f, Players) /\ SumFunction(f) \in Nat
        /\ SumFunction(g) = SumFunctionOnSet(g, Players)
    BY PlayerSum DEF PlayerChangedAt
  <1>5. f[p] \in Nat /\ g[p] = f[p] + d /\ d \in Int
    BY DEF PlayerChangedAt
  <1> QED
    BY <1>3, <1>4, <1>5

\* A step of the escrow or of the seats, when only seat s changes.
Reseated(s) ==
  /\ SeatOnly(table, s, table')
  /\ seats' \in SeatTypes /\ \A x \in Seats \ {s} : seats'[x] = seats[x]
  /\ seats'[s].player = NoPlayer =>
        table'.stack[s] = 0 /\ (InProgress => table.sh[s].total = 0)
  /\ balance' \in [Players -> Nat]
  /\ held' = held + (SumFunction(balance') - SumFunction(balance))
                  + (table'.stack[s] - table.stack[s])
  /\ UNCHANGED <<accusation, vindicated, cfg, handCounter, lastButton>>

\* What RoomInv says of the chips, in the terms of the steps.
LEMMA HeldIs ==
  ASSUME RoomInv
  PROVE  /\ held \in Nat /\ SumFunction(balance) \in Nat /\ Chips(table) \in Nat
         /\ held = SumFunction(balance) + Chips(table)
  <1>1. /\ balance \in [Players -> Nat] /\ table \in Table
        /\ held = SumFunction(balance) + Chips(table)
    BY DEF RoomInv, RoomTyped, Sound
  <1>2. SumFunction(balance) \in Nat /\ Chips(table) \in Nat
    BY <1>1, PlayerSum, ChipsAre
  <1> QED
    BY <1>1, <1>2

LEMMA ReseatedKeeps ==
  ASSUME RoomInv, NEW s \in Seats, Reseated(s)
  PROVE  RoomInv'
  <1>1. /\ SeatOnly(table, s, table') /\ Sound(table) /\ table \in Table /\ table' \in Table
        /\ SeatsFilled(table, seats)
    BY DEF Reseated, RoomInv, Sound, SeatOnly
  <1>2. Sound(table') /\ Chips(table') = Chips(table) + (table'.stack[s] - table.stack[s])
    BY <1>1, SeatOnlyKeeps
  <1>3. held' = SumFunction(balance') + Chips(table')
    <2>1. /\ held \in Nat /\ SumFunction(balance) \in Nat /\ Chips(table) \in Nat
          /\ held = SumFunction(balance) + Chips(table)
      BY HeldIs
    <2>2. table.stack[s] \in Nat /\ table'.stack[s] \in Nat
      BY <1>1 DEF Table
    <2>3. SumFunction(balance') \in Nat
      BY PlayerSum DEF Reseated
    <2> DEFINE h == held'
    <2>4. h = held + (SumFunction(balance') - SumFunction(balance))
                   + (table'.stack[s] - table.stack[s])
      BY DEF Reseated
    <2> QED
      BY <1>2, <2>1, <2>2, <2>3, <2>4
  <1>4. SeatsFilled(table', seats')
    <2> SUFFICES ASSUME NEW x \in Seats, seats'[x].player = NoPlayer
                 PROVE  /\ table'.stack[x] = 0
                        /\ table'.hand.inProgress =>
                              ~table'.sh[x].inHand /\ table'.sh[x].total = 0
      BY DEF SeatsFilled
    <2>1. CASE x = s
      BY <2>1 DEF Reseated, SeatOnly, InProgress
    <2>2. CASE x # s
      <3>1. /\ seats[x].player = NoPlayer /\ table'.stack[x] = table.stack[x]
            /\ table'.sh[x] = table.sh[x] /\ table'.hand = table.hand
        BY <1>1, <2>2 DEF Reseated, SeatOnly
      <3> QED
        BY <1>1, <3>1 DEF SeatsFilled
    <2> QED
      BY <2>1, <2>2
  <1>5. AccusationIsCurrent'
    <2> SUFFICES ASSUME accusation.active PROVE AccusationIsCurrent'
      BY DEF AccusationIsCurrent, Reseated
    <2> DEFINE x == accusation.seat
    <2>1. /\ InProgress /\ x \in Seats /\ table.sh[x].total > 0 /\ Occupied(x)
          /\ <<x, accusation.card>> \notin vindicated
      BY DEF RoomInv, AccusationIsCurrent
    <2>2. table'.sh[x].total = table.sh[x].total /\ table'.hand = table.hand
      BY <2>1 DEF Reseated, SeatOnly, InProgress
    <2>3. seats'[x].player # NoPlayer
      <3>1. CASE x = s
        <4>1. table.sh[s].total # 0
          BY <2>1, <3>1
        <4> QED
          BY <2>1, <3>1, <4>1 DEF Reseated
      <3>2. CASE x # s
        BY <2>1, <3>2 DEF Reseated, Occupied
      <3> QED
        BY <3>1, <3>2
    <2> QED
      BY <2>1, <2>2, <2>3 DEF AccusationIsCurrent, Reseated, InProgress, Occupied
  <1>6. RoomTyped'
    BY DEF RoomInv, RoomTyped, Reseated
  <1> QED
    BY <1>2, <1>3, <1>4, <1>5, <1>6 DEF RoomInv

\* A step that leaves the table, and who sits where, as they are.
Undisturbed ==
  /\ seats' \in SeatTypes /\ \A s \in Seats : seats'[s].player = seats[s].player
  /\ cfg' \in TableConfig
  /\ balance' \in [Players -> Nat]
  /\ held' = held + (SumFunction(balance') - SumFunction(balance))
  /\ UNCHANGED <<table, handCounter, lastButton>>

LEMMA UndisturbedKeeps ==
  ASSUME RoomInv, Undisturbed, accusation' \in Accusations, AccusationIsCurrent'
  PROVE  RoomInv'
  <1>1. held' = SumFunction(balance') + Chips(table')
    <2>1. /\ held \in Nat /\ SumFunction(balance) \in Nat /\ Chips(table) \in Nat
          /\ held = SumFunction(balance) + Chips(table)
      BY HeldIs
    <2>2. SumFunction(balance') \in Nat
      BY PlayerSum DEF Undisturbed
    <2>3. table' = table
      BY DEF Undisturbed
    <2>4. held' = held + (SumFunction(balance') - SumFunction(balance))
      BY DEF Undisturbed
    <2> QED
      BY <2>1, <2>2, <2>3, <2>4
  <1>2. Sound(table') /\ SeatsFilled(table', seats')
    BY DEF RoomInv, Undisturbed, SeatsFilled
  <1>3. RoomTyped'
    BY DEF RoomInv, RoomTyped, Undisturbed
  <1> QED
    BY <1>1, <1>2, <1>3 DEF RoomInv

LEMMA AccusationStays ==
  ASSUME RoomInv, Undisturbed, UNCHANGED <<accusation, vindicated>>
  PROVE  RoomInv'
  <1>1. accusation' \in Accusations
    BY DEF RoomInv, RoomTyped
  <1>2. AccusationIsCurrent'
    BY DEF RoomInv, AccusationIsCurrent, Undisturbed, InProgress, Occupied
  <1> QED
    BY <1>1, <1>2, UndisturbedKeeps

\* A step of the hand.
LEMMA PlayKeeps ==
  ASSUME RoomInv, InProgress, NEW u, Played(table, u), Play(u), seats' \in SeatTypes,
         \A s \in Seats : seats'[s].player = seats[s].player
  PROVE  RoomInv'
  <1>1. /\ table' = u /\ Sound(u) /\ Chips(u) = Chips(table) /\ u \in Table
        /\ table \in Table /\ SeatsFilled(table, seats) /\ table.hand.inProgress
    BY DEF Play, Played, Sound, RoomInv, InProgress
  <1>2. held' = SumFunction(balance') + Chips(table')
    BY <1>1 DEF RoomInv, Play, escrowVars
  <1>3. SeatsFilled(u, seats')
    <2> SUFFICES ASSUME NEW x \in Seats, seats[x].player = NoPlayer
                 PROVE  /\ u.stack[x] = 0
                        /\ u.hand.inProgress => ~u.sh[x].inHand /\ u.sh[x].total = 0
      BY DEF SeatsFilled
    <2>1. /\ table.stack[x] = 0 /\ ~table.sh[x].inHand /\ table.sh[x].total = 0
      BY <1>1 DEF SeatsFilled
    <2>2. u.stack[x] \in Nat /\ u.sh[x].total \in Nat
      BY <1>1 DEF Table, SeatHand
    <2>3. CASE u.hand.inProgress
      <3>1. SameHand(table, u)
        BY <2>3 DEF Played
      <3> QED
        BY <2>1, <2>2, <3>1 DEF SameHand
    <2>4. CASE ~u.hand.inProgress
      <3>1. PaidInHand(table, u)
        BY <2>4 DEF Played
      <3> QED
        BY <2>1, <2>2, <2>4, <3>1 DEF PaidInHand
    <2> QED
      BY <2>3, <2>4
  <1>4. AccusationIsCurrent' /\ accusation' \in Accusations
    <2>1. CASE u.hand.inProgress
      <3>1. accusation' = accusation /\ vindicated' = vindicated
        BY <2>1 DEF Play, AccusationAfter
      <3>2. SUFFICES ASSUME accusation.active PROVE AccusationIsCurrent'
        BY <3>1 DEF AccusationIsCurrent, RoomInv, RoomTyped
      <3> DEFINE x == accusation.seat
      <3>3. /\ x \in Seats /\ table.sh[x].total > 0 /\ Occupied(x)
            /\ <<x, accusation.card>> \notin vindicated
        BY <3>2 DEF RoomInv, AccusationIsCurrent
      <3>4. table.sh[x].total <= u.sh[x].total
        BY <2>1, <3>3 DEF Played, SameHand
      <3>5. table.sh[x].total \in Nat /\ u.sh[x].total \in Nat
        BY <1>1, <3>3 DEF Table, SeatHand
      <3>6. u.sh[x].total > 0
        BY <3>3, <3>4, <3>5
      <3> QED
        BY <1>1, <2>1, <3>1, <3>3, <3>6 DEF AccusationIsCurrent, InProgress, Occupied
    <2>2. CASE ~u.hand.inProgress
      <3>1. accusation' = NoAccusation
        BY <2>2 DEF Play, AccusationAfter
      <3> QED
        BY <3>1 DEF AccusationIsCurrent, NoAccusation, Accusations
    <2> QED
      BY <2>1, <2>2
  <1>5. RoomTyped'
    BY <1>4 DEF RoomInv, RoomTyped, Play, escrowVars
  <1> QED
    BY <1>1, <1>2, <1>3, <1>4, <1>5 DEF RoomInv

-----------------------------------------------------------------------------
\* Escrow and seats

LEMMA StackOnly ==
  ASSUME NEW t \in Table, NEW s \in Seats, NEW n \in Nat,
         t.hand.inProgress => ~t.sh[s].inHand
  PROVE  SeatOnly(t, s, [t EXCEPT !.stack[s] = n]) /\ [t EXCEPT !.stack[s] = n].stack[s] = n
  <1> DEFINE stack == [t.stack EXCEPT ![s] = n]
             u == [t EXCEPT !.stack = stack]
  <1>0. [t EXCEPT !.stack[s] = n] = u /\ t.stack \in [Seats -> Nat]
    BY DEF Table
  <1>1. /\ stack \in [Seats -> Nat] /\ stack[s] = n
        /\ \A x \in Seats \ {s} : stack[x] = t.stack[x]
    BY <1>0
  <1> HIDE DEF stack
  <1>2. u \in Table /\ u.stack = stack /\ u.hand = t.hand /\ u.sh = t.sh /\ u.rake = t.rake
    BY <1>1 DEF Table
  <1> HIDE DEF u
  <1> QED
    BY <1>0, <1>1, <1>2 DEF SeatOnly

\* An empty seat's SeatHand is wiped, as is that of a player who leaves: neither has
\* anything in the pot.
LEMMA SeatIsFreed ==
  ASSUME NEW t, Sound(t), NEW s \in Seats,
         t.hand.inProgress => ~t.sh[s].inHand /\ t.sh[s].total = 0
  PROVE  LET u == [t EXCEPT !.stack[s] = 0, !.sh[s] = NotDealt]
         IN  SeatOnly(t, s, u) /\ u.stack[s] = 0
  <1> DEFINE stack == [t.stack EXCEPT ![s] = 0]
             sh == [t.sh EXCEPT ![s] = NotDealt]
             v == [t EXCEPT !.stack = stack, !.sh = sh]
             u == [t EXCEPT !.stack[s] = 0, !.sh[s] = NotDealt]
  <1>0. t \in Table /\ t.stack \in [Seats -> Nat] /\ t.sh \in [Seats -> SeatHand]
    BY DEF Sound, Table
  <1>1. u = v
    BY <1>0 DEF Table
  <1>2. NotDealt \in SeatHand /\ ~NotDealt.inHand /\ NotDealt.total = 0 /\ NotDealt.street = 0
    BY DEF NotDealt, SeatHand
  <1>3. /\ stack \in [Seats -> Nat] /\ stack[s] = 0
        /\ \A x \in Seats \ {s} : stack[x] = t.stack[x]
    BY <1>0
  <1>4. /\ sh \in [Seats -> SeatHand] /\ sh[s] = NotDealt
        /\ \A x \in Seats \ {s} : sh[x] = t.sh[x]
    BY <1>0, <1>2
  <1> HIDE DEF stack, sh
  <1>5. v \in Table /\ v.stack = stack /\ v.hand = t.hand /\ v.sh = sh /\ v.rake = t.rake
    BY <1>0, <1>3, <1>4 DEF Table
  <1> HIDE DEF u, v
  <1>6. ASSUME t.hand.inProgress PROVE t.sh[s].street = 0 /\ t.sh[s].total = 0 /\ ~t.sh[s].inHand
    <2>1. t.sh[s].street <= t.sh[s].total /\ t.sh[s].total = 0
      BY <1>6 DEF Sound, Staked
    <2>2. t.sh[s].street \in Nat
      BY <1>0 DEF SeatHand
    <2> QED
      BY <1>6, <2>1, <2>2
  <1>7. SeatOnly(t, s, v) /\ v.stack[s] = 0
    BY <1>2, <1>3, <1>4, <1>5, <1>6 DEF SeatOnly
  <1> QED
    BY <1>1, <1>7 DEF u

LEMMA BankrollChanges ==
  ASSUME NEW f \in [Players -> Nat], NEW p \in Players, NEW n \in Nat
  PROVE  /\ [f EXCEPT ![p] = n] \in [Players -> Nat]
         /\ SumFunction([f EXCEPT ![p] = n]) - SumFunction(f) = n - f[p]
  <1> DEFINE g == [f EXCEPT ![p] = n]
             d == n - f[p]
  <1>1. /\ g \in [Players -> Nat] /\ g[p] = n /\ f[p] \in Nat
        /\ \A x \in Players \ {p} : g[x] = f[x]
    OBVIOUS
  <1>2. d \in Int /\ n = f[p] + d
    OBVIOUS
  <1> HIDE DEF g, d
  <1>3. PlayerChangedAt(f, g, p, d)
    BY <1>1, <1>2 DEF PlayerChangedAt
  <1>4. SumFunction(g) = SumFunction(f) + d
    BY <1>3, PlayerSumChanges
  <1>5. SumFunction(f) \in Nat
    BY PlayerSum
  <1> QED
    BY <1>1, <1>2, <1>4, <1>5 DEF g, d

LEMMA EscrowKeeps ==
  ASSUME RoomInv, NEW p \in Players, NEW amount,
         (amount \in Deposits /\ Deposit(p, amount)) \/ Withdraw(p, amount)
  PROVE  RoomInv'
  <1>0. balance \in [Players -> Nat] /\ balance[p] \in Nat /\ held \in Nat
    BY HeldIs DEF RoomInv, RoomTyped
  <1>1. UNCHANGED <<table, streak, accusation, vindicated, seats, cfg, handCounter, lastButton>>
    BY DEF Deposit, Withdraw, handVars
  <1>2. \E m \in Nat : balance' = [balance EXCEPT ![p] = m] /\ held' = held + (m - balance[p])
    <2>1. CASE amount \in Deposits /\ Deposit(p, amount)
      <3>1. amount \in Nat
        BY <2>1, RoomAssumption
      <3>2. balance' = [balance EXCEPT ![p] = balance[p] + amount] /\ held' = held + amount
        BY <2>1 DEF Deposit
      <3> DEFINE m == balance[p] + amount
      <3>3. m \in Nat /\ held + amount = held + (m - balance[p])
        BY <1>0, <3>1
      <3> QED
        BY <3>2, <3>3
    <2>2. CASE Withdraw(p, amount)
      <3>1. amount \in 1..balance[p]
        BY <2>2 DEF Withdraw
      <3>2. balance' = [balance EXCEPT ![p] = balance[p] - amount] /\ held' = held - amount
        BY <2>2 DEF Withdraw
      <3> DEFINE m == balance[p] - amount
      <3>3. m \in Nat /\ held - amount = held + (m - balance[p])
        BY <1>0, <3>1
      <3> QED
        BY <3>2, <3>3
    <2> QED
      BY <2>1, <2>2
  <1>3. PICK m \in Nat : balance' = [balance EXCEPT ![p] = m] /\ held' = held + (m - balance[p])
    BY <1>2
  <1>4. balance' \in [Players -> Nat] /\ SumFunction(balance') - SumFunction(balance) = m - balance[p]
    BY <1>0, <1>3, BankrollChanges
  <1>5. seats' \in SeatTypes /\ cfg' \in TableConfig
    BY <1>1 DEF RoomInv, RoomTyped
  <1>6. Undisturbed
    BY <1>1, <1>3, <1>4, <1>5 DEF Undisturbed
  <1> QED
    BY <1>1, <1>6, AccusationStays

\* What the seats' lemmas start from.
LEMMA RoomTypes ==
  ASSUME RoomInv
  PROVE  /\ Sound(table) /\ table \in Table
         /\ table.stack \in [Seats -> Nat] /\ table.sh \in [Seats -> SeatHand]
         /\ seats \in SeatTypes /\ cfg \in TableConfig
         /\ balance \in [Players -> Nat] /\ SumFunction(balance) \in Nat /\ held \in Nat
         /\ accusation \in Accusations
  BY HeldIs DEF RoomInv, RoomTyped, Sound, Table

LEMMA SitDownKeeps ==
  ASSUME RoomInv, NEW p \in Players, NEW s \in Seats, NEW n \in BuyIns,
         SitDown(p, s, n) \/ SeatPlayerWithChips(p, s, n)
  PROVE  RoomInv'
  <1>0. /\ Sound(table) /\ table \in Table /\ seats \in SeatTypes
        /\ balance \in [Players -> Nat] /\ SumFunction(balance) \in Nat /\ held \in Nat
    BY RoomTypes
  <1>1. n \in Nat /\ p # NoPlayer
    BY RoomAssumption
  <1>2. Take(p, s, n) /\ UNCHANGED <<accusation, vindicated, cfg, handCounter, lastButton>>
    BY DEF SitDown, SeatPlayerWithChips
  <1>3. /\ table.stack[s] = 0
        /\ table.hand.inProgress => ~table.sh[s].inHand /\ table.sh[s].total = 0
    BY <1>2 DEF Take, Occupied, RoomInv, SeatsFilled
  <1>4. SeatOnly(table, s, table') /\ table'.stack[s] = n
    <2>1. table' = [table EXCEPT !.stack[s] = n]
      BY <1>2 DEF Take
    <2> QED
      BY <1>0, <1>1, <1>3, <2>1, StackOnly
  <1>5. /\ seats' \in SeatTypes /\ \A x \in Seats \ {s} : seats'[x] = seats[x]
        /\ seats'[s].player # NoPlayer
    BY <1>0, <1>1, <1>2 DEF Take, SeatTypes
  <1>6. /\ balance' \in [Players -> Nat]
        /\ held' = held + (SumFunction(balance') - SumFunction(balance)) + n
    <2>1. CASE SitDown(p, s, n)
      <3> DEFINE m == balance[p] - n
      <3>1. n <= balance[p] /\ balance[p] \in Nat /\ held' = held
            /\ balance' = [balance EXCEPT ![p] = m]
        BY <1>0, <2>1 DEF SitDown
      <3>2. m \in Nat /\ m - balance[p] = -n
        BY <1>1, <3>1
      <3> HIDE DEF m
      <3>3. balance' \in [Players -> Nat]
            /\ SumFunction(balance') - SumFunction(balance) = m - balance[p]
        BY <1>0, <3>1, <3>2, BankrollChanges
      <3> QED
        BY <1>0, <1>1, <3>1, <3>2, <3>3
    <2>2. CASE SeatPlayerWithChips(p, s, n)
      <3>1. balance' = balance /\ held' = held + n
        BY <2>2 DEF SeatPlayerWithChips
      <3> QED
        BY <1>0, <1>1, <3>1
    <2> QED
      BY <2>1, <2>2
  <1>7. Reseated(s)
    <2>1. n = table'.stack[s] - table.stack[s]
      BY <1>1, <1>3, <1>4
    <2> QED
      BY <1>2, <1>4, <1>5, <1>6, <2>1 DEF Reseated
  <1> QED
    BY <1>7, ReseatedKeeps

LEMMA TopUpKeeps ==
  ASSUME RoomInv, NEW p \in Players, NEW amount \in TopUps, TopUp(p, amount)
  PROVE  RoomInv'
  <1>0. /\ Sound(table) /\ table \in Table /\ seats \in SeatTypes
        /\ table.stack \in [Seats -> Nat]
        /\ balance \in [Players -> Nat] /\ SumFunction(balance) \in Nat /\ held \in Nat
    BY RoomTypes
  <1>1. amount \in Nat /\ p # NoPlayer
    BY RoomAssumption
  <1> DEFINE n(s) == table.stack[s] + amount
             m == balance[p] - amount
  <1>2. PICK s \in SeatsOf(p) :
           /\ ~(InProgress /\ table.sh[s].inHand)
           /\ amount <= balance[p]
           /\ balance' = [balance EXCEPT ![p] = m]
           /\ table' = [table EXCEPT !.stack[s] = n(s)]
           /\ UNCHANGED <<accusation, vindicated, seats, cfg, handCounter, lastButton, held>>
    BY DEF TopUp
  <1>3. s \in Seats /\ seats[s].player # NoPlayer
    BY <1>1, <1>2 DEF SeatsOf
  <1>4. n(s) \in Nat /\ n(s) - table.stack[s] = amount
    BY <1>0, <1>1, <1>3
  <1>5. m \in Nat /\ m - balance[p] = -amount
    BY <1>0, <1>1, <1>2
  <1>6. table' = [table EXCEPT !.stack[s] = n(s)] /\ balance' = [balance EXCEPT ![p] = m]
    BY <1>2
  <1> HIDE DEF n, m
  <1>7. SeatOnly(table, s, table') /\ table'.stack[s] = n(s)
    <2>1. table.hand.inProgress => ~table.sh[s].inHand
      BY <1>2 DEF InProgress
    <2> QED
      BY <1>0, <1>3, <1>4, <1>6, <2>1, StackOnly
  <1>8. balance' \in [Players -> Nat]
        /\ SumFunction(balance') - SumFunction(balance) = m - balance[p]
    BY <1>0, <1>5, <1>6, BankrollChanges
  <1>9. held' = held + (SumFunction(balance') - SumFunction(balance))
                     + (table'.stack[s] - table.stack[s])
    BY <1>0, <1>1, <1>2, <1>4, <1>5, <1>7, <1>8
  <1>10. Reseated(s)
    BY <1>0, <1>2, <1>3, <1>7, <1>8, <1>9 DEF Reseated
  <1> QED
    BY <1>3, <1>10, ReseatedKeeps

LEMMA LeavingKeeps ==
  ASSUME RoomInv, NEW s \in Seats, KickIdle(s) \/ LeaveTable(s) \/ RemoveSeat(s)
  PROVE  RoomInv'
  <1>0. /\ Sound(table) /\ table \in Table /\ seats \in SeatTypes
        /\ table.stack \in [Seats -> Nat] /\ table.sh \in [Seats -> SeatHand]
        /\ balance \in [Players -> Nat] /\ SumFunction(balance) \in Nat /\ held \in Nat
    BY RoomTypes
  <1>1. Occupied(s) /\ ~Pinned(s) /\ Vacate(s)
        /\ UNCHANGED <<accusation, vindicated, cfg, handCounter, lastButton>>
    BY DEF KickIdle, LeaveTable, RemoveSeat, StandUp
  <1>2. table.hand.inProgress => ~table.sh[s].inHand /\ table.sh[s].total = 0
    <2>1. table.sh[s].total \in Nat
      BY <1>0 DEF SeatHand
    <2> QED
      BY <1>1, <2>1 DEF Pinned, InProgress
  <1>3. SeatOnly(table, s, table') /\ table'.stack[s] = 0
    <2>1. table' = [table EXCEPT !.stack[s] = 0, !.sh[s] = NotDealt]
      BY <1>1 DEF Vacate
    <2> QED
      BY <1>0, <1>2, <2>1, SeatIsFreed
  <1>4. seats' \in SeatTypes /\ \A x \in Seats \ {s} : seats'[x] = seats[x]
    BY <1>0, <1>1 DEF Vacate, SeatTypes, Free
  <1> DEFINE left == table.stack[s]
  <1>5. left \in Nat
    BY <1>0
  <1>6. /\ balance' \in [Players -> Nat]
        /\ held' = held + (SumFunction(balance') - SumFunction(balance)) - left
    <2>1. CASE KickIdle(s) \/ LeaveTable(s)
      <3> DEFINE p == seats[s].player
                 m == balance[p] + left
      <3>1. p \in Players
        BY <1>0, <1>1 DEF SeatTypes, Occupied
      <3>2. balance' = [balance EXCEPT ![p] = m] /\ held' = held
        BY <2>1 DEF KickIdle, LeaveTable, StandUp
      <3> HIDE DEF p, left
      <3>3. m \in Nat /\ m - balance[p] = left /\ balance[p] \in Nat
        BY <1>0, <1>5, <3>1
      <3> HIDE DEF m
      <3>4. balance' \in [Players -> Nat]
            /\ SumFunction(balance') - SumFunction(balance) = m - balance[p]
        BY <1>0, <3>1, <3>2, <3>3, BankrollChanges
      <3> QED
        BY <1>0, <1>5, <3>2, <3>3, <3>4
    <2>2. CASE RemoveSeat(s)
      <3>1. balance' = balance /\ held' = held - left
        BY <2>2 DEF RemoveSeat
      <3> QED
        BY <1>0, <1>5, <3>1
    <2> QED
      BY <2>1, <2>2
  <1>7. held' = held + (SumFunction(balance') - SumFunction(balance))
                     + (table'.stack[s] - table.stack[s])
    <2>1. SumFunction(balance') \in Nat
      BY <1>6, PlayerSum
    <2> QED
      BY <1>0, <1>3, <1>5, <1>6, <2>1
  <1>8. Reseated(s)
    BY <1>1, <1>2, <1>3, <1>4, <1>6, <1>7 DEF Reseated, InProgress
  <1> QED
    BY <1>8, ReseatedKeeps

LEMMA SitOutKeeps ==
  ASSUME RoomInv, NEW s \in Seats, SitOutIdle(s) \/ \E b \in BOOLEAN : SetSitOut(s, b)
  PROVE  RoomInv'
  <1>0. seats \in SeatTypes /\ balance \in [Players -> Nat] /\ SumFunction(balance) \in Nat
        /\ held \in Nat /\ cfg \in TableConfig
    BY RoomTypes
  <1>1. /\ \E b \in BOOLEAN : seats' = [seats EXCEPT ![s].sittingOut = b]
        /\ UNCHANGED <<table, accusation, vindicated, cfg, handCounter, lastButton, balance, held>>
    BY DEF SitOutIdle, SetSitOut, escrowVars
  <1>2. seats' \in SeatTypes /\ \A x \in Seats : seats'[x].player = seats[x].player
    BY <1>0, <1>1 DEF SeatTypes
  <1>3. Undisturbed
    BY <1>0, <1>1, <1>2 DEF Undisturbed
  <1> QED
    BY <1>1, <1>3, AccusationStays

-----------------------------------------------------------------------------
\* The owner and the accusers

LEMMA AdminKeeps ==
  ASSUME RoomInv, NEW c \in Configs, UpdateTable(c) \/ SetBlinds(c)
  PROVE  RoomInv'
  <1>0. /\ seats \in SeatTypes /\ balance \in [Players -> Nat] /\ SumFunction(balance) \in Nat
        /\ held \in Nat /\ cfg \in TableConfig
    BY RoomTypes
  <1>1. c \in TableConfig
    BY RoomAssumption
  <1>2. cfg' \in TableConfig
    <2>1. CASE UpdateTable(c)
      BY <1>1, <2>1 DEF UpdateTable
    <2>2. CASE SetBlinds(c)
      <3> DEFINE sb == c.smallBlind
                 bb == c.bigBlind
                 ante == c.ante
      <3>1. sb \in Nat /\ bb \in Nat /\ ante \in Nat
        BY <1>1 DEF TableConfig
      <3>2. cfg' = [cfg EXCEPT !.smallBlind = sb, !.bigBlind = bb, !.ante = ante]
        BY <2>2 DEF SetBlinds
      <3> HIDE DEF sb, bb, ante
      <3> DEFINE c1 == [cfg EXCEPT !.smallBlind = sb]
                 c2 == [c1 EXCEPT !.bigBlind = bb]
                 c3 == [c2 EXCEPT !.ante = ante]
      <3>3. cfg' = c3
        BY <1>0, <3>2 DEF TableConfig
      <3>4. c1 \in TableConfig
        BY <1>0, <3>1 DEF TableConfig
      <3> HIDE DEF c1
      <3>5. c2 \in TableConfig
        BY <3>1, <3>4 DEF TableConfig
      <3> HIDE DEF c2
      <3>6. c3 \in TableConfig
        BY <3>1, <3>5 DEF TableConfig
      <3> QED
        BY <3>3, <3>6
    <2> QED
      BY <2>1, <2>2
  <1>3. UNCHANGED <<table, accusation, vindicated, seats, handCounter, lastButton, balance, held>>
    BY DEF UpdateTable, SetBlinds, handVars, escrowVars
  <1>4. Undisturbed
    BY <1>0, <1>2, <1>3 DEF Undisturbed
  <1> QED
    BY <1>3, <1>4, AccusationStays

LEMMA RakeIsApart ==
  ASSUME NEW t, Sound(t), NEW n \in Nat
  PROVE  LET u == [t EXCEPT !.rake = n]
         IN  /\ Sound(u) /\ Chips(u) = Chips(t) + (n - t.rake)
             /\ u.hand = t.hand /\ u.sh = t.sh /\ u.stack = t.stack
  <1> DEFINE u == [t EXCEPT !.rake = n]
  <1>1. t \in Table /\ u \in Table /\ u.rake = n
        /\ u.hand = t.hand /\ u.sh = t.sh /\ u.stack = t.stack
    BY DEF Sound, Table
  <1> HIDE DEF u
  <1>2. Stacks(u) = Stacks(t) /\ AtStake(u) = AtStake(t) /\ Streets(u) = Streets(t)
        /\ Totals(u) = Totals(t)
    BY <1>1 DEF Stacks, AtStake, Streets, Totals
  <1>3. Chips(u) = Chips(t) + (n - t.rake)
    BY <1>1, <1>2, ChipsAre DEF Chips
  <1>4. \A s \in Seats : (CanAct(u, s) <=> CanAct(t, s)) /\ (OwesAction(u, s) <=> OwesAction(t, s))
    BY <1>1 DEF CanAct, OwesAction
  <1>5. InHand(u) = InHand(t)
    BY <1>1 DEF InHand
  <1>6. Staked(t) => Staked(u)
    BY <1>1, <1>2, <1>4 DEF Staked
  <1>7. (BettingAt(u) <=> BettingAt(t)) /\ (Counted(u, 2) <=> Counted(t, 2))
        /\ (TurnOK(u) <=> TurnOK(t))
    BY <1>1, <1>4, <1>5 DEF BettingAt, Counted, TurnOK
  <1>8. Sound(u)
    BY <1>1, <1>5, <1>6, <1>7 DEF Sound
  <1> QED
    BY <1>1, <1>3, <1>8 DEF u

LEMMA RakeKeeps ==
  ASSUME RoomInv, WithdrawRake(table.rake)
  PROVE  RoomInv'
  <1>0. /\ Sound(table) /\ table \in Table /\ held \in Nat
        /\ held = SumFunction(balance) + Chips(table)
        /\ SumFunction(balance) \in Nat /\ Chips(table) \in Nat /\ table.rake \in Nat
    BY RoomTypes, HeldIs, ChipsAre
  <1> DEFINE amount == table.rake
             n == table.rake - amount
  <1>1. /\ table' = [table EXCEPT !.rake = n] /\ held' = held - amount
        /\ UNCHANGED <<accusation, vindicated, seats, cfg, handCounter, lastButton, balance>>
    BY DEF WithdrawRake
  <1>2. n \in Nat /\ n - table.rake = -amount
    BY <1>0
  <1> HIDE DEF n
  <1>3. /\ Sound(table') /\ Chips(table') = Chips(table) + (n - table.rake)
        /\ table'.hand = table.hand /\ table'.sh = table.sh /\ table'.stack = table.stack
    BY <1>0, <1>1, <1>2, RakeIsApart
  <1>4. held' = SumFunction(balance') + Chips(table')
    BY <1>0, <1>1, <1>2, <1>3
  <1>5. SeatsFilled(table', seats')
    BY <1>1, <1>3 DEF RoomInv, SeatsFilled
  <1>6. AccusationIsCurrent'
    BY <1>1, <1>3 DEF RoomInv, AccusationIsCurrent, InProgress, Occupied
  <1>7. RoomTyped'
    BY <1>1 DEF RoomInv, RoomTyped
  <1> QED
    BY <1>3, <1>4, <1>5, <1>6, <1>7 DEF RoomInv

LEMMA AccusingKeeps ==
  ASSUME RoomInv,
         \/ \E s \in Seats, card \in Cards : AccuseAbandon(s, card)
         \/ WindowElapses
         \/ ProveResponsive
  PROVE  RoomInv'
  <1>0. /\ seats \in SeatTypes /\ balance \in [Players -> Nat] /\ SumFunction(balance) \in Nat
        /\ held \in Nat /\ cfg \in TableConfig /\ accusation \in Accusations
        /\ table \in Table
    BY RoomTypes
  <1>1. UNCHANGED <<table, seats, cfg, handCounter, lastButton, balance, held>>
    BY DEF AccuseAbandon, WindowElapses, ProveResponsive, escrowVars
  <1>2. Undisturbed
    BY <1>0, <1>1 DEF Undisturbed
  <1>3. accusation' \in Accusations /\ AccusationIsCurrent'
    <2>1. ASSUME NEW s \in Seats, NEW card \in Cards, AccuseAbandon(s, card)
          PROVE  accusation' \in Accusations /\ AccusationIsCurrent'
      <3>1. /\ InProgress /\ table.sh[s].total > 0 /\ <<s, card>> \notin vindicated
            /\ accusation' = [active |-> TRUE, seat |-> s, card |-> card, elapsed |-> FALSE]
            /\ vindicated' = vindicated
        BY <2>1 DEF AccuseAbandon
      <3>2. Occupied(s)
        <4>1. table.sh[s].total # 0
          BY <3>1
        <4> QED
          BY <3>1, <4>1 DEF RoomInv, SeatsFilled, Occupied, InProgress
      <3> QED
        BY <1>1, <3>1, <3>2 DEF Accusations, AccusationIsCurrent, InProgress, Occupied
    <2>2. CASE WindowElapses
      <3>1. accusation' = [accusation EXCEPT !.elapsed = TRUE] /\ vindicated' = vindicated
        BY <2>2 DEF WindowElapses
      <3>2. /\ accusation' \in Accusations
            /\ accusation'.active = accusation.active /\ accusation'.seat = accusation.seat
            /\ accusation'.card = accusation.card
        BY <1>0, <3>1 DEF Accusations
      <3> QED
        BY <1>1, <3>1, <3>2 DEF RoomInv, AccusationIsCurrent, InProgress, Occupied
    <2>3. CASE ProveResponsive
      <3>1. accusation' = NoAccusation
        BY <2>3 DEF ProveResponsive
      <3> QED
        BY <3>1 DEF NoAccusation, Accusations, AccusationIsCurrent
    <2> QED
      BY <2>1, <2>2, <2>3
  <1> QED
    BY <1>2, <1>3, UndisturbedKeeps

-----------------------------------------------------------------------------
\* The hand

LEMMA StartKeeps ==
  ASSUME RoomInv, StartHand
  PROVE  RoomInv'
  <1>0. /\ Sound(table) /\ table \in Table /\ seats \in SeatTypes /\ cfg \in TableConfig
        /\ table.stack \in [Seats -> Nat]
        /\ held = SumFunction(balance) + Chips(table)
        /\ lastButton \in Seats /\ handCounter \in Nat
    BY RoomTypes, HeldIs DEF RoomInv, RoomTyped
  <1>1. /\ ~table.hand.inProgress /\ Cardinality(Eligible) >= 2
        /\ table' = Deal(table, Eligible, Absent, NextButton, cfg)
        /\ handCounter' = handCounter + 1 /\ lastButton' = NextButton
        /\ UNCHANGED <<accusation, vindicated, seats, cfg, balance, held>>
    BY DEF StartHand, InProgress, escrowVars
  <1> DEFINE elig == Eligible
             absent == Absent
             button == NextButton
             u == Deal(table, elig, absent, button, cfg)
  <1>2. /\ elig \in SUBSET Seats /\ absent \in SUBSET Seats /\ elig \cap absent = {}
        /\ \A s \in elig : table.stack[s] > 0 /\ Occupied(s)
        /\ \A s \in absent : Occupied(s)
    BY DEF Eligible, Absent
  <1>3. elig # {}
    <2>1. Cardinality(elig) # 0
      BY <1>1
    <2> QED
      BY <2>1, FS_EmptySet
  <1>4. button \in elig
    <2>1. button = IF handCounter = 0 THEN Lowest(elig) ELSE FirstAfter(lastButton, elig)
      BY DEF NextButton
    <2> HIDE DEF button, elig
    <2>2. Lowest(elig) \in elig
      BY <1>2, <1>3, LowestIsOf
    <2>3. FirstAfter(lastButton, elig) \in elig
      BY <1>0, <1>2, <1>3, FirstAfterIsOf
    <2> QED
      BY <2>1, <2>2, <2>3
  <1>5. Cardinality(elig) >= 2 /\ \A s \in elig : table.stack[s] > 0
    BY <1>1, <1>2
  <1>6. table' = u
    BY <1>1
  <1>7. \A s \in Seats : ~Occupied(s) => s \notin elig \cup absent
    BY <1>2
  <1>8. lastButton' = button
    BY <1>1
  <1> HIDE DEF elig, absent, button
  <1>9. /\ Sound(u) /\ Chips(u) = Stacks(table) + table.rake /\ u.hand.inProgress
        /\ \A s \in Seats : u.sh[s].inHand \/ u.sh[s].total > 0 => s \in elig \cup absent
        /\ \A s \in Seats : u.stack[s] <= table.stack[s]
    BY <1>0, <1>2, <1>4, <1>5, DealIsSound
  <1> HIDE DEF u
  <1>10. held' = SumFunction(balance') + Chips(table')
    <2>1. AtStake(table) = 0 /\ Stacks(table) \in Nat /\ table.rake \in Nat
      BY <1>0, <1>1, ChipsAre DEF AtStake
    <2>2. Chips(table) = Stacks(table) + table.rake
      BY <2>1 DEF Chips
    <2> QED
      BY <1>0, <1>1, <1>6, <1>9, <2>2
  <1>11. SeatsFilled(u, seats)
    <2> SUFFICES ASSUME NEW s \in Seats, seats[s].player = NoPlayer
                 PROVE  /\ u.stack[s] = 0
                        /\ u.hand.inProgress => ~u.sh[s].inHand /\ u.sh[s].total = 0
      BY DEF SeatsFilled
    <2>1. table.stack[s] = 0
      BY DEF RoomInv, SeatsFilled
    <2>2. u.stack[s] \in Nat /\ u.sh[s].total \in Nat
      BY <1>9 DEF Sound, Table, SeatHand
    <2>3. u.stack[s] <= 0
      BY <1>9, <2>1
    <2>4. ~(u.sh[s].inHand \/ u.sh[s].total > 0)
      BY <1>7, <1>9 DEF Occupied
    <2> QED
      BY <2>2, <2>3, <2>4
  <1>12. AccusationIsCurrent'
    <2>1. ~accusation.active
      BY <1>1 DEF RoomInv, AccusationIsCurrent, InProgress
    <2> QED
      BY <1>1, <2>1 DEF AccusationIsCurrent
  <1>13. RoomTyped'
    BY <1>0, <1>1, <1>2, <1>4, <1>8 DEF RoomInv, RoomTyped
  <1> QED
    BY <1>1, <1>6, <1>9, <1>10, <1>11, <1>12, <1>13 DEF RoomInv

\* The turn is with a live seat when it is with any.
LEMMA TurnIsLive ==
  ASSUME RoomInv, Betting
  PROVE  /\ InAction(table) /\ Counted(table, 2)
         /\ table.hand.acting # NO_SEAT => table.hand.acting \in InHand(table)
  <1>1. Sound(table) /\ BettingAt(table)
    BY DEF RoomInv, Betting, InProgress, BettingAt
  <1>2. InAction(table) /\ Counted(table, 2) /\ TurnOK(table)
    BY <1>1, SoundIsInAction
  <1> QED
    BY <1>2 DEF TurnOK, OwesAction, CanAct, InHand

LEMMA ActingKeeps ==
  ASSUME RoomInv, NEW s \in Seats,
         \/ ActFold(s) \/ ActCheck(s) \/ ActCall(s)
         \/ \E target \in Raises \cup {AllIn(s)} : ActAggress(s, target)
  PROVE  RoomInv'
  <1>0. table \in Table /\ cfg \in TableConfig /\ seats \in SeatTypes
    BY RoomTypes
  <1>1. PICK t : /\ \/ t = Fold(table, s) \/ t = Acted(table, s) \/ t = Call(table, s)
                    \/ \E target \in Raises \cup {AllIn(s)} :
                          MayAggress(table, s, target, cfg) /\ t = Aggress(table, s, target, cfg)
                 /\ Act(s, t)
    BY DEF ActFold, ActCheck, ActCall, ActAggress
  <1>2. /\ Betting /\ s = table.hand.acting /\ seats' = seats
        /\ Play(ProgressAfterAction(t, cfg))
    BY <1>1 DEF Act
  <1>3. InAction(table) /\ Counted(table, 2) /\ s \in InHand(table)
    <2>1. s # NO_SEAT
      BY SeatsAre
    <2> QED
      BY <1>2, <2>1, TurnIsLive
  <1>4. DoneBy(table, t)
    <2>1. CASE t = Fold(table, s)
      BY <1>3, <2>1, FoldIsDone
    <2>2. CASE t = Acted(table, s)
      BY <1>3, <2>2, ActedIsDone
    <2>3. CASE t = Call(table, s)
      BY <1>3, <2>3, CallIsDone
    <2>4. ASSUME NEW target \in Raises \cup {AllIn(s)},
                 MayAggress(table, s, target, cfg), t = Aggress(table, s, target, cfg)
          PROVE  DoneBy(table, t)
      <3>1. target \in Nat
        <4>1. table.sh[s].street \in Nat /\ table.stack[s] \in Nat
          BY <1>0 DEF Table, SeatHand
        <4>2. AllIn(s) \in Nat
          BY <4>1 DEF AllIn
        <4>3. Raises \subseteq Nat
          BY RoomAssumption
        <4> QED
          BY <4>2, <4>3
      <3> QED
        BY <1>0, <1>3, <2>4, <3>1, AggressIsDone
    <2> QED
      BY <1>1, <2>1, <2>2, <2>3, <2>4
  <1> DEFINE v == ProgressAfterAction(t, cfg)
  <1>5. Played(table, v)
    BY <1>0, <1>3, <1>4, ActionIsPlayed
  <1>6. InProgress /\ Play(v)
    BY <1>2 DEF Betting
  <1> HIDE DEF v
  <1> QED
    BY <1>0, <1>2, <1>5, <1>6, PlayKeeps

LEMMA TimeoutKeeps ==
  ASSUME RoomInv, TimeoutAct
  PROVE  RoomInv'
  <1>0. table \in Table /\ cfg \in TableConfig /\ seats \in SeatTypes
    BY RoomTypes
  <1> DEFINE s == table.hand.acting
             phantom == [table EXCEPT !.hand.numInHand = @ - 1]
  <1>1. Betting /\ seats' = seats
    BY DEF TimeoutAct
  <1>2. PICK t : /\ \/ s = NO_SEAT /\ t = phantom
                    \/ s # NO_SEAT /\ (t = Acted(table, s) \/ t = Fold(table, s))
                 /\ Play(ProgressAfterAction(t, cfg))
    <2>1. CASE s = NO_SEAT
      BY <2>1 DEF TimeoutAct
    <2>2. CASE s # NO_SEAT
      BY <2>2 DEF TimeoutAct
    <2> QED
      BY <2>1, <2>2
  <1>3. InAction(table) /\ Counted(table, 2) /\ (s # NO_SEAT => s \in InHand(table))
    BY <1>1, TurnIsLive
  <1>4. DoneBy(table, t)
    <2>1. CASE s = NO_SEAT
      BY <1>2, <1>3, <2>1, PhantomFoldIsDone
    <2>2. CASE s # NO_SEAT
      <3> HIDE DEF s
      <3>1. s \in InHand(table) /\ s \in Seats
        BY <1>3, <2>2 DEF InHand
      <3> QED
        BY <1>2, <1>3, <2>2, <3>1, FoldIsDone, ActedIsDone
    <2> QED
      BY <2>1, <2>2
  <1> DEFINE v == ProgressAfterAction(t, cfg)
  <1>5. Played(table, v)
    BY <1>0, <1>3, <1>4, ActionIsPlayed
  <1>6. InProgress /\ Play(v)
    BY <1>1, <1>2 DEF Betting
  <1> HIDE DEF v
  <1> QED
    BY <1>0, <1>1, <1>5, <1>6, PlayKeeps

LEMMA ClockKeeps ==
  ASSUME RoomInv, ClockRunsOut
  PROVE  RoomInv'
  <1>0. table \in Table /\ seats \in SeatTypes /\ Sound(table)
    BY RoomTypes
  <1>1. /\ Betting
        /\ UNCHANGED <<accusation, vindicated, seats, cfg, handCounter, lastButton,
                       escrowVars>>
    BY DEF ClockRunsOut
  <1> DEFINE h == [table.hand EXCEPT !.late = TRUE]
             u == WithHand(table, h)
  <1>2. table' = u
    BY <1>0 DEF ClockRunsOut, WithHand, Table
  <1>3. InProgress /\ BettingAt(table) /\ Staked(table) /\ InHand(table) # {}
        /\ Counted(table, 2) /\ TurnOK(table)
    BY <1>0, <1>1 DEF Sound, Betting, InProgress, BettingAt
  <1>4. /\ h \in Hand /\ h.inProgress /\ h.street = table.hand.street
        /\ h.pot = table.hand.pot /\ h.acting = table.hand.acting
        /\ h.numInHand = table.hand.numInHand /\ h.currentBet = table.hand.currentBet
    BY <1>0, <1>3 DEF Table, Hand, InProgress
  <1> HIDE DEF h
  <1>5. h.inProgress /\ h.street \in 0..SHOWDOWN /\ h.pot = table.hand.pot
    BY <1>3, <1>4 DEF Staked
  <1>6. /\ Staked(u) /\ Chips(u) = Chips(table) /\ u.hand = h /\ u.sh = table.sh
        /\ InHand(u) = InHand(table) /\ SameHand(table, u)
    BY <1>3, <1>4, <1>5, HandChanges
  <1> HIDE DEF u
  <1>7. \A s \in Seats : OwesAction(u, s) <=> OwesAction(table, s)
    BY <1>4, <1>6 DEF OwesAction, CanAct
  <1>8. Counted(u, 2) /\ TurnOK(u)
    BY <1>3, <1>4, <1>6, <1>7 DEF Counted, TurnOK
  <1>9. Played(table, u)
    BY <1>3, <1>4, <1>6, <1>8 DEF Played, Sound, Staked
  <1>10. Play(u)
    BY <1>1, <1>2, <1>4, <1>6 DEF Play, AccusationAfter
  <1> QED
    BY <1>0, <1>1, <1>3, <1>9, <1>10, PlayKeeps

LEMMA EndingKeeps ==
  ASSUME RoomInv,
         \/ \E scores \in [Seats -> Ranks] : ResolveShowdown(scores)
         \/ AbortHand
         \/ AbortHandPenalized
  PROVE  RoomInv'
  <1>0. table \in Table /\ seats \in SeatTypes /\ cfg \in TableConfig /\ Sound(table)
    BY RoomTypes
  <1>1. InProgress
    BY DEF ResolveShowdown, AbortHand, AbortHandPenalized, MayPenalize
  <1>2. Staked(table)
    BY <1>0, <1>1 DEF Sound, InProgress
  <1>3. PICK u : Played(table, u) /\ Play(u)
    <2>1. ASSUME NEW scores \in [Seats -> Ranks], ResolveShowdown(scores)
          PROVE  \E u : Played(table, u) /\ Play(u)
      <3> DEFINE u == SettleShowdown(table, scores, cfg)
      <3>1. Played(table, u)
        BY <1>0, <1>2, ShowdownPays
      <3>2. Play(u)
        BY <2>1 DEF ResolveShowdown
      <3> HIDE DEF u
      <3> QED
        BY <3>1, <3>2
    <2>2. CASE AbortHand
      <3> DEFINE u == CancelHand(table)
      <3>1. Played(table, u)
        BY <1>2, CancelPaysBack
      <3>2. Play(u)
        BY <2>2 DEF AbortHand
      <3> HIDE DEF u
      <3> QED
        BY <3>1, <3>2
    <2>3. CASE AbortHandPenalized
      <3> DEFINE offender == accusation.seat
                 u == CancelHandPenalized(table, offender)
      <3>1. offender \in Seats
        BY <2>3 DEF AbortHandPenalized, MayPenalize, RoomInv, AccusationIsCurrent
      <3>2. Play(u)
        BY <2>3 DEF AbortHandPenalized
      <3> HIDE DEF offender
      <3>3. Played(table, u)
        BY <1>2, <3>1, PenaltyPaysBack
      <3> HIDE DEF u
      <3> QED
        BY <3>2, <3>3
    <2> QED
      BY <2>1, <2>2, <2>3
  <1>4. seats' \in SeatTypes /\ \A s \in Seats : seats'[s].player = seats[s].player
    <2>1. CASE AbortHandPenalized
      <3> DEFINE offender == accusation.seat
      <3>1. \/ seats' = seats
            \/ seats' = [seats EXCEPT ![offender].sittingOut = TRUE]
        BY <2>1 DEF AbortHandPenalized
      <3>2. offender \in Seats
        BY <2>1 DEF AbortHandPenalized, MayPenalize, RoomInv, AccusationIsCurrent
      <3> HIDE DEF offender
      <3>3. CASE seats' = seats
        BY <1>0, <3>3
      <3>4. CASE seats' = [seats EXCEPT ![offender].sittingOut = TRUE]
        BY <1>0, <3>2, <3>4 DEF SeatTypes
      <3> QED
        BY <3>1, <3>3, <3>4
    <2>2. CASE ~AbortHandPenalized
      <3>1. seats' = seats
        BY <2>2 DEF ResolveShowdown, AbortHand
      <3> QED
        BY <1>0, <3>1
    <2> QED
      BY <2>1, <2>2
  <1> QED
    BY <1>1, <1>3, <1>4, PlayKeeps

-----------------------------------------------------------------------------
\* The theorems

LEMMA RoomStarts == Init => RoomInv
  <1> SUFFICES ASSUME Init PROVE RoomInv
    OBVIOUS
  <1> DEFINE zeros == [s \in Seats |-> 0]
             idle == [p \in Players |-> 0]
  <1>1. /\ table = EmptyTable /\ seats = [s \in Seats |-> Free] /\ cfg \in Configs
        /\ handCounter = 0 /\ lastButton = 0 /\ accusation = NoAccusation
        /\ balance = idle /\ held = 0
    BY DEF Init
  <1>2. NotDealt \in SeatHand /\ NoHand \in Hand /\ ~NoHand.inProgress
    BY SeatsAre DEF NotDealt, SeatHand, NoHand, Hand
  <1>3. zeros \in [Seats -> Nat] /\ \A s \in Seats : zeros[s] = 0
    OBVIOUS
  <1>4. /\ table.stack = zeros /\ table.hand = NoHand /\ table.rake = 0
        /\ table \in Table
    BY <1>1, <1>2 DEF EmptyTable, Table
  <1> HIDE DEF zeros
  <1>5. Sound(table)
    BY <1>2, <1>4 DEF Sound, BettingAt
  <1>6. Chips(table) = 0
    <2>1. Stacks(table) = 0
      BY <1>3, <1>4, SeatSumZero DEF Stacks
    <2>2. AtStake(table) = 0
      BY <1>2, <1>4 DEF AtStake
    <2> QED
      BY <1>4, <2>1, <2>2 DEF Chips
  <1>7. idle \in [Players -> Nat] /\ SumFunction(idle) = 0
    <2>1. idle \in [Players -> Nat] /\ \A p \in Players : idle[p] = 0
      OBVIOUS
    <2> HIDE DEF idle
    <2>2. IsFiniteSet(Players)
      BY RoomAssumption
    <2>3. SumFunctionOnSet(idle, Players) = 0
      BY ONLY <2>1, <2>2, SumAllZero
    <2> QED
      BY <2>1, <2>3, PlayerSum
  <1> HIDE DEF idle
  <1>8. held = SumFunction(balance) + Chips(table)
    BY <1>1, <1>6, <1>7
  <1>9. SeatsFilled(table, seats)
    BY <1>2, <1>3, <1>4 DEF SeatsFilled
  <1>10. AccusationIsCurrent /\ accusation \in Accusations
    BY <1>1 DEF AccusationIsCurrent, NoAccusation, Accusations
  <1>11. seats \in SeatTypes /\ cfg \in TableConfig /\ lastButton \in Seats
    BY <1>1, RoomAssumption, SeatsAre DEF SeatTypes, Free
  <1> QED
    BY <1>1, <1>5, <1>7, <1>8, <1>9, <1>10, <1>11 DEF RoomInv, RoomTyped

LEMMA RoomGoesOn == RoomInv /\ [Next]_vars => RoomInv'
  <1> SUFFICES ASSUME RoomInv, [Next]_vars PROVE RoomInv'
    OBVIOUS
  <1>1. CASE SeatStep
    BY <1>1, EscrowKeeps, SitDownKeeps, TopUpKeeps, LeavingKeeps, SitOutKeeps DEF SeatStep
  <1>2. CASE AdminStep
    BY <1>2, AdminKeeps, RakeKeeps DEF AdminStep
  <1>3. CASE HandStep
    BY <1>3, StartKeeps, ActingKeeps, TimeoutKeeps, ClockKeeps, EndingKeeps DEF HandStep
  <1>4. CASE AccusationStep
    BY <1>4, AccusingKeeps, EndingKeeps DEF AccusationStep
  <1>5. CASE UNCHANGED vars
    BY <1>5 DEF vars, RoomInv, RoomTyped, AccusationIsCurrent, InProgress, Occupied
  <1> QED
    BY <1>1, <1>2, <1>3, <1>4, <1>5 DEF Next

LEMMA RoomInvHolds == Spec => []RoomInv
  BY RoomStarts, RoomGoesOn, PTL DEF Spec

\* The turn is always with a seat that can act and has to; with none only if no
\* seat owes an action.
THEOREM TurnOwedHolds == Spec => []TurnOwed
  <1>1. RoomInv => TurnOwed
    BY DEF RoomInv, Sound, TurnOwed, TurnOK, Betting, BettingAt, InProgress
  <1> QED
    BY <1>1, RoomInvHolds, PTL

\* An accusation that can still be acted on is of the hand in progress, of a seat
\* with chips in it and a player at it, and of a share that was not delivered.
THEOREM AccusationIsCurrentHolds == Spec => []AccusationIsCurrent
  <1>1. RoomInv => AccusationIsCurrent
    BY DEF RoomInv
  <1> QED
    BY <1>1, RoomInvHolds, PTL

\* Every chip is somewhere, once: no way a hand can end, and no one who sits down,
\* stands up or is kicked meanwhile, makes or loses one.
THEOREM ChipsConservedHolds == Spec => []ChipsConserved
  <1>1. RoomInv => ChipsConserved
    <2> SUFFICES ASSUME RoomInv PROVE ChipsConserved
      OBVIOUS
    <2>1. /\ held = SumFunction(balance) + Chips(table) /\ SumFunction(balance) \in Nat
          /\ table \in Table
      BY HeldIs, RoomTypes
    <2>2. Stacks(table) \in Nat /\ AtStake(table) \in Nat /\ table.rake \in Nat
      BY <2>1, ChipsAre
    <2> QED
      BY <2>1, <2>2 DEF Chips, Stacks, ChipsConserved
  <1> QED
    BY <1>1, RoomInvHolds, PTL

\* At the showdown no seat is paid more than it and the others put in up to its own
\* contribution, and a hand that beats all others is paid no less, but for the rake.
THEOREM ShowdownPaysMatchedHolds == Spec => ShowdownPaysMatched
  <1> DEFINE Pays ==
        HandEnds => \A scores \in [Seats -> Ranks] : ResolveShowdown(scores) =>
          \A s \in Seats :
             LET won == table'.stack[s] - table.stack[s]
                 raked == table'.rake - table.rake
             IN  /\ won <= Matched(table, s)
                 /\ raked <= cfg.rakeCap
                 /\ (s \in InHand(table)
                       /\ \A x \in InHand(table) \ {s} : scores[x] < scores[s])
                       => won + raked >= Matched(table, s)
  <1>1. RoomInv /\ [Next]_vars => [Pays]_vars
    <2> SUFFICES ASSUME RoomInv, HandEnds, NEW scores \in [Seats -> Ranks],
                        ResolveShowdown(scores), NEW s \in Seats
                 PROVE  LET won == table'.stack[s] - table.stack[s]
                            raked == table'.rake - table.rake
                        IN  /\ won <= Matched(table, s)
                            /\ raked <= cfg.rakeCap
                            /\ (s \in InHand(table)
                                  /\ \A x \in InHand(table) \ {s} : scores[x] < scores[s])
                                  => won + raked >= Matched(table, s)
      BY Zenon
    <2>1. Sound(table) /\ cfg \in TableConfig
      BY RoomTypes
    <2>2. Staked(table)
      BY <2>1 DEF ResolveShowdown, InProgress, Sound
    <2> DEFINE u == SettleShowdown(table, scores, cfg)
    <2>3. table' = u
      BY DEF ResolveShowdown, Play
    <2>4. PaysMatched(table, scores, cfg, u)
      BY <2>1, <2>2, ShowdownPays
    <2> HIDE DEF u
    <2> QED
      BY <2>3, <2>4 DEF PaysMatched, Best
  <1> QED
    BY <1>1, RoomInvHolds, PTL DEF Spec, ShowdownPaysMatched

\* A hand called off gives every seat back at least what it put in, except a seat
\* whose rescue window passed without an answer.
THEOREM OnlyUnansweredForfeitHolds == Spec => OnlyUnansweredForfeit
  <1> DEFINE PaysBack ==
        HandEnds /\ (AbortHand \/ AbortHandPenalized) =>
          \A s \in Seats :
             \/ table'.stack[s] >= table.stack[s] + table.sh[s].total
             \/ accusation.active /\ accusation.seat = s /\ accusation.elapsed
  <1>1. RoomInv /\ [Next]_vars => [PaysBack]_vars
    <2> SUFFICES ASSUME RoomInv, AbortHand \/ AbortHandPenalized, NEW s \in Seats,
                        ~(accusation.active /\ accusation.seat = s /\ accusation.elapsed)
                 PROVE  BackTo(table, table', s)
      BY DEF BackTo
    <2>1. Staked(table)
      BY RoomTypes DEF AbortHand, AbortHandPenalized, MayPenalize, InProgress, Sound
    <2>2. CASE AbortHand
      <3>1. table' = CancelHand(table)
        BY <2>2 DEF AbortHand, Play
      <3> QED
        BY <2>1, <3>1, CancelPaysBack
    <2>3. CASE AbortHandPenalized
      <3> DEFINE offender == accusation.seat
      <3>1. offender \in Seats /\ s # offender
        BY <2>3 DEF AbortHandPenalized, MayPenalize, RoomInv, AccusationIsCurrent
      <3>2. table' = CancelHandPenalized(table, offender)
        BY <2>3 DEF AbortHandPenalized, Play
      <3> HIDE DEF offender
      <3> QED
        BY <2>1, <3>1, <3>2, PenaltyPaysBack
    <2> QED
      BY <2>2, <2>3
  <1> QED
    BY <1>1, RoomInvHolds, PTL DEF Spec, OnlyUnansweredForfeit

-----------------------------------------------------------------------------
\* The betting runs down

Owing(t) == {s \in Seats : OwesAction(t, s)}

LeftLess(t, u) == Below(Left(u), Left(t))

\* A later street, or none.
LaterStreet(t, u) == ~BettingAt(u) \/ u.hand.street = t.hand.street + 1

LEMMA LaterIsLess ==
  ASSUME NEW t, BettingAt(t), t \in Table, NEW u, u \in Table, LaterStreet(t, u)
  PROVE  LeftLess(t, u)
  <1>0. t.hand.street \in Nat /\ u.hand.street \in Nat /\ RIVER \in Nat
    BY SeatsAre DEF Table, Hand, SHOWDOWN, IDLE
  <1> DEFINE a == Stacks(t)
             b == Cardinality(Owing(t))
             d == Stacks(u)
             e == Cardinality(Owing(u))
  <1>1. Left(t) = <<RIVER + 1 - t.hand.street, a, b>>
    BY DEF Left, BettingAt, Stacks, Owing
  <1>2. Left(u) = IF BettingAt(u) THEN <<RIVER + 1 - u.hand.street, d, e>> ELSE <<0, 0, 0>>
    BY DEF Left, BettingAt, Stacks, Owing
  <1> HIDE DEF a, b, d, e
  <1>3. t.hand.street <= RIVER
    BY DEF BettingAt
  <1>4. CASE BettingAt(u)
    <2>1. u.hand.street = t.hand.street + 1
      BY <1>4 DEF LaterStreet
    <2>2. Left(u)[1] < Left(t)[1]
      BY <1>0, <1>1, <1>2, <1>4, <2>1
    <2> QED
      BY <2>2 DEF LeftLess, Below
  <1>5. CASE ~BettingAt(u)
    <2>1. Left(u)[1] < Left(t)[1]
      BY <1>0, <1>1, <1>2, <1>3, <1>5
    <2> QED
      BY <2>1 DEF LeftLess, Below
  <1> QED
    BY <1>4, <1>5

\* The same street with fewer chips behind, or as many and fewer seats to ask.
NearerEnd(t, u) ==
  /\ u.hand.street = t.hand.street /\ u.hand.inProgress
  /\ \/ Stacks(u) < Stacks(t)
     \/ Stacks(u) = Stacks(t) /\ Cardinality(Owing(u)) < Cardinality(Owing(t))

LEMMA NearerIsLess ==
  ASSUME NEW t, BettingAt(t), t \in Table, NEW u, NearerEnd(t, u)
  PROVE  LeftLess(t, u)
  <1> DEFINE r == RIVER + 1 - t.hand.street
             a == Stacks(t)
             b == Cardinality(Owing(t))
             d == Stacks(u)
             e == Cardinality(Owing(u))
  <1>1. Left(t) = <<r, a, b>>
    BY DEF Left, BettingAt, Stacks, Owing
  <1>2. Left(u) = <<r, d, e>>
    BY DEF Left, BettingAt, NearerEnd, Stacks, Owing
  <1>3. d < a \/ (d = a /\ e < b)
    BY DEF NearerEnd
  <1> HIDE DEF r, a, b, d, e
  <1> QED
    BY <1>1, <1>2, <1>3 DEF LeftLess, Below

LEMMA StreetRunsOut ==
  ASSUME NEW t, InAction(t), NEW c \in TableConfig
  PROVE  LaterStreet(t, CompleteStreet(t, c))
  <1> DEFINE swept == Sweep(t, c)
             dealt == [swept EXCEPT !.hand.street = @ + 1]
             u == CompleteStreet(t, c)
  <1>1. u = IF t.hand.numInHand = 1 THEN EndFoldWin(swept, c)
            ELSE IF t.hand.street = RIVER \/ ~CanStillBet(swept) THEN ToShowdown(swept)
            ELSE GiveTurn(dealt, NextToAct(dealt, dealt.hand.button))
    BY DEF CompleteStreet
  <1>2. SweptOf(t, swept)
    BY SweepSweeps DEF InAction
  <1>n. t.hand.numInHand = 1 => ~EndFoldWin(swept, c).hand.inProgress
    <2> HIDE DEF swept
    <2>1. /\ Staked(swept) /\ Streets(swept) = 0 /\ InHand(swept) # {}
      BY <1>2, LiveSeats DEF SweptOf, InAction
    <2> QED
      BY <2>1, FoldWinPays
  <1> HIDE DEF swept
  <1>3. swept \in Table /\ swept.hand \in Hand /\ swept.hand.street = t.hand.street
    BY <1>2 DEF SweptOf, Staked, Table
  <1>4. CASE t.hand.numInHand = 1
    BY <1>1, <1>4, <1>n DEF LaterStreet, BettingAt
  <1>5. CASE t.hand.numInHand # 1 /\ (t.hand.street = RIVER \/ ~CanStillBet(swept))
    <2>1. u.hand.street = SHOWDOWN
      BY <1>1, <1>3, <1>5 DEF ToShowdown, Table, Hand
    <2> QED
      BY <2>1, SeatsAre DEF LaterStreet, BettingAt, SHOWDOWN
  <1>6. CASE t.hand.numInHand # 1 /\ t.hand.street # RIVER /\ CanStillBet(swept)
    <2> DEFINE next == NextToAct(dealt, dealt.hand.button)
    <2>1. u = GiveTurn(dealt, next)
      BY <1>1, <1>6
    <2> HIDE DEF next
    <2> DEFINE k == t.hand.street + 1
               h == [swept.hand EXCEPT !.street = k]
               g == [h EXCEPT !.acting = next, !.late = FALSE]
    <2>2. u = WithHand(swept, g)
      <3>1. dealt = WithHand(swept, h)
        BY <1>3 DEF WithHand, Table
      <3> HIDE DEF dealt, h
      <3>2. u = WithHand(WithHand(swept, h), g)
        BY <1>3, <2>1, <3>1 DEF GiveTurn, WithHand, Table
      <3> QED
        BY <1>3, <3>2 DEF WithHand, Table
    <2> HIDE DEF k
    <2>3. g.street = k
      BY <1>3 DEF Hand
    <2> HIDE DEF g
    <2>4. u.hand = g
      BY <1>3, <2>2 DEF WithHand, Table
    <2> QED
      BY <2>3, <2>4 DEF LaterStreet, k
  <1> QED
    BY <1>4, <1>5, <1>6

\* After an action the street ends, or the turn goes to a seat that owes one.
LEMMA TurnOrStreet ==
  ASSUME NEW t, InAction(t), NEW c \in TableConfig
  PROVE  LET u == ProgressAfterAction(t, c)
         IN  \/ LaterStreet(t, u)
             \/ /\ Owing(t) # {} /\ Owing(u) = Owing(t) /\ Stacks(u) = Stacks(t)
                /\ u.hand.street = t.hand.street /\ u.hand.inProgress
  <1> DEFINE from == t.hand.acting
             next == NextToAct(t, from)
             u == ProgressAfterAction(t, c)
  <1>0. /\ Staked(t) /\ t \in Table /\ t.hand.inProgress /\ from \in Seats \cup {NO_SEAT}
    BY DEF InAction, Staked, Table, Hand
  <1>1. u = IF t.hand.numInHand = 1 \/ next = NO_SEAT THEN CompleteStreet(t, c)
            ELSE GiveTurn(t, next)
    BY DEF ProgressAfterAction
  <1>2. CASE t.hand.numInHand = 1 \/ next = NO_SEAT
    BY <1>1, <1>2, StreetRunsOut
  <1>3. CASE ~(t.hand.numInHand = 1 \/ next = NO_SEAT)
    <2>1. Owing(t) # {}
      <3>1. Owing(t) \in SUBSET Seats /\ next = FirstAfter(from, Owing(t))
        BY DEF Owing, NextToAct
      <3> QED
        BY <1>3, <3>1 DEF FirstAfter
    <2>2. u = GiveTurn(t, next)
      BY <1>1, <1>3
    <2> HIDE DEF next, u
    <2>3. /\ u.stack = t.stack /\ u.sh = t.sh /\ u.hand.street = t.hand.street
          /\ u.hand.inProgress /\ u.hand.currentBet = t.hand.currentBet
      BY <1>0, <2>2 DEF GiveTurn, Table, Hand
    <2>4. Owing(u) = Owing(t)
      BY <2>3 DEF Owing, OwesAction, CanAct
    <2> QED
      BY <2>1, <2>3, <2>4 DEF Stacks, u
  <1> QED
    BY <1>2, <1>3

\* What an action does to what is left: chips go in, or a seat that owed it acts, or
\* none owed any.
Runs(t, u) ==
  /\ u.hand.street = t.hand.street
  /\ \/ Stacks(u) < Stacks(t)
     \/ Stacks(u) = Stacks(t) /\ Cardinality(Owing(u)) < Cardinality(Owing(t))
     \/ Owing(u) = {}

LEMMA ActionRunsDown ==
  ASSUME NEW t, InAction(t), NEW u, DoneBy(t, u), Runs(t, u), NEW c \in TableConfig
  PROVE  LeftLess(t, ProgressAfterAction(u, c))
  <1> DEFINE v == ProgressAfterAction(u, c)
  <1>1. InAction(u) /\ BettingAt(t) /\ t \in Table
    BY DEF DoneBy, InAction, Staked
  <1>2. \/ LaterStreet(u, v)
        \/ /\ Owing(u) # {} /\ Owing(v) = Owing(u) /\ Stacks(v) = Stacks(u)
           /\ v.hand.street = u.hand.street /\ v.hand.inProgress
    BY <1>1, TurnOrStreet
  <1>3. v \in Table
    BY <1>1, ActionProgresses DEF Played, Sound
  <1> HIDE DEF v
  <1>4. CASE LaterStreet(u, v)
    <2>1. LaterStreet(t, v)
      BY <1>4 DEF LaterStreet, Runs
    <2>2. LeftLess(t, v)
      BY <1>1, <1>3, <2>1, LaterIsLess
    <2> QED
      BY <2>2 DEF v
  <1>5. CASE ~LaterStreet(u, v)
    <2>1. NearerEnd(t, v)
      BY <1>2, <1>5 DEF NearerEnd, Runs
    <2>2. LeftLess(t, v)
      BY <1>1, <2>1, NearerIsLess
    <2> QED
      BY <2>2 DEF v
  <1> QED
    BY <1>4, <1>5

LEMMA OwingIs ==
  ASSUME NEW t
  PROVE  Owing(t) \in SUBSET Seats /\ IsFiniteSet(Owing(t)) /\ Cardinality(Owing(t)) \in Nat
  <1>1. Owing(t) \in SUBSET Seats
    BY DEF Owing
  <1> QED
    BY <1>1, SeatSets

\* One seat no longer owes an action, and nothing else changed of it.
LEMMA OneLessOwes ==
  ASSUME NEW t, NEW u, NEW s \in Owing(t), Owing(u) = Owing(t) \ {s},
         u.stack = t.stack, u.hand.street = t.hand.street
  PROVE  Runs(t, u)
  <1>1. IsFiniteSet(Owing(t)) /\ Cardinality(Owing(t)) \in Nat
    BY OwingIs
  <1>2. Cardinality(Owing(u)) = Cardinality(Owing(t)) - 1
    BY <1>1, FS_RemoveElement
  <1>3. Stacks(u) = Stacks(t)
    BY DEF Stacks
  <1> QED
    BY <1>1, <1>2, <1>3 DEF Runs

LEMMA FoldRuns ==
  ASSUME NEW t \in Table, NEW s \in Owing(t)
  PROVE  Runs(t, Fold(t, s))
  <1> DEFINE u == Fold(t, s)
  <1>0. s \in Seats /\ t.sh \in [Seats -> SeatHand] /\ t.sh[s] \in SeatHand /\ t.hand \in Hand
    BY DEF Owing, Table
  <1>1. /\ u.stack = t.stack /\ u.hand.street = t.hand.street
        /\ u.hand.currentBet = t.hand.currentBet
    BY DEF Fold, Table, Hand
  <1>2. ~u.sh[s].inHand /\ \A x \in Seats \ {s} : u.sh[x] = t.sh[x]
    BY <1>0 DEF Fold, Table, SeatHand
  <1> HIDE DEF u
  <1>3. Owing(u) = Owing(t) \ {s}
    BY <1>1, <1>2 DEF Owing, OwesAction, CanAct
  <1>4. Runs(t, u)
    BY <1>1, <1>3, OneLessOwes
  <1> QED
    BY <1>4 DEF u

LEMMA CheckRuns ==
  ASSUME NEW t \in Table, NEW s \in Owing(t), ToCall(t, s) = 0
  PROVE  Runs(t, Acted(t, s))
  <1> DEFINE u == Acted(t, s)
  <1>0. s \in Seats /\ t.sh \in [Seats -> SeatHand] /\ t.sh[s] \in SeatHand
        /\ t.sh[s].street \in Nat /\ t.hand.currentBet \in Nat
    BY DEF Owing, Table, SeatHand, Hand
  <1>1. u.stack = t.stack /\ u.hand = t.hand
    BY DEF Acted, Table
  <1>2. /\ u.sh[s].hasActed /\ u.sh[s].street = t.sh[s].street
        /\ \A x \in Seats \ {s} : u.sh[x] = t.sh[x]
    BY <1>0 DEF Acted, Table, SeatHand
  <1>3. ~(t.sh[s].street < t.hand.currentBet)
    BY <1>0 DEF ToCall, Greater
  <1> HIDE DEF u
  <1>4. Owing(u) = Owing(t) \ {s}
    BY <1>1, <1>2, <1>3 DEF Owing, OwesAction, CanAct
  <1>5. Runs(t, u)
    BY <1>1, <1>4, OneLessOwes
  <1> QED
    BY <1>5 DEF u

\* Chips go into the pot.
LEMMA PayingRuns ==
  ASSUME NEW t, Staked(t), NEW s \in InHand(t), NEW amount \in Nat \ {0}, amount <= t.stack[s],
         NEW u, u.stack = CommitStreet(t, s, amount).stack, u.hand.street = t.hand.street
  PROVE  Runs(t, u)
  <1> DEFINE v == CommitStreet(t, s, amount)
             f == t.stack
             g == v.stack
             d == -amount
  <1>0. s \in Seats /\ t.sh[s].inHand /\ t \in Table /\ t.stack \in [Seats -> Nat]
    BY DEF InHand, Staked, Table
  <1>1. /\ Staked(v) /\ v.stack[s] = t.stack[s] - amount
        /\ \A x \in Seats \ {s} : v.stack[x] = t.stack[x]
    BY <1>0, CommitStreetKeeps
  <1>2. v.stack \in [Seats -> Nat]
    BY <1>1 DEF Staked, Table
  <1>3. d \in Int /\ g[s] = f[s] + d
    BY <1>0, <1>1
  <1> HIDE DEF v
  <1>4. \A x \in Seats \ {s} : g[x] = f[x]
    BY <1>1
  <1> HIDE DEF d
  <1>5. ChangedAt(f, g, s, d)
    BY <1>0, <1>2, <1>3, <1>4 DEF ChangedAt
  <1>6. SumFunction(g) = SumFunction(f) + d
    BY <1>5, SeatSumChanges
  <1>7. SumFunction(f) \in Nat
    BY <1>0, SeatSum
  <1>8. SumFunction(g) < SumFunction(f)
    BY <1>6, <1>7 DEF d
  <1>9. u.stack = g
    BY DEF v
  <1> QED
    BY <1>8, <1>9 DEF Runs, Stacks

LEMMA CallRuns ==
  ASSUME NEW t, InAction(t), NEW s \in Owing(t), ToCall(t, s) > 0
  PROVE  Runs(t, Call(t, s))
  <1> DEFINE amount == Lesser(ToCall(t, s), t.stack[s])
             paid == CommitStreet(t, s, amount)
             u == Acted(paid, s)
  <1>0. /\ s \in Seats /\ t.stack[s] \in Nat /\ t.sh[s].street \in Nat
        /\ t.hand.currentBet \in Nat /\ Staked(t) /\ s \in InHand(t) /\ t.stack[s] > 0
    BY DEF Owing, OwesAction, CanAct, InHand, InAction, Staked, Table, Hand, SeatHand
  <1>1. ToCall(t, s) \in Nat
    BY <1>0 DEF ToCall, Greater
  <1>2. amount \in Nat \ {0} /\ amount <= t.stack[s]
    BY <1>0, <1>1 DEF Lesser
  <1>3. Call(t, s) = u
    BY DEF Call
  <1> HIDE DEF amount
  <1>4. paid \in Table /\ paid.hand = t.hand
    BY <1>0, <1>2, CommitStreetKeeps DEF InHand, Staked
  <1>5. u.stack = paid.stack /\ u.hand.street = t.hand.street
    BY <1>4 DEF Acted, Table
  <1> HIDE DEF u
  <1>6. Runs(t, u)
    BY <1>0, <1>2, <1>5, PayingRuns
  <1> QED
    BY <1>3, <1>6

LEMMA AggressRuns ==
  ASSUME NEW t, InAction(t), NEW s \in Owing(t), NEW target \in Nat,
         NEW c \in TableConfig, MayAggress(t, s, target, c)
  PROVE  Runs(t, Aggress(t, s, target, c))
  <1> DEFINE cur == t.hand.currentBet
             amount == target - t.sh[s].street
             full == cur = 0 \/ target - cur >= t.hand.minRaise
             paid == CommitStreet(t, s, amount)
             raise == Greater(IF cur = 0 THEN target ELSE target - cur, c.bigBlind)
             opened == [x \in Seats |-> IF x # s /\ CanAct(paid, x)
                                        THEN [paid.sh[x] EXCEPT !.hasActed = FALSE]
                                        ELSE paid.sh[x]]
             reopened == [paid EXCEPT !.hand.minRaise = raise, !.sh = opened]
             bet == IF full THEN reopened ELSE paid
             u == Acted([bet EXCEPT !.hand.currentBet = target], s)
  <1>0. /\ s \in Seats /\ t.stack[s] \in Nat /\ t.sh[s].street \in Nat
        /\ Staked(t) /\ s \in InHand(t)
    BY DEF Owing, OwesAction, CanAct, InHand, InAction, Staked, Table, SeatHand
  <1>1. amount \in Nat \ {0} /\ amount <= t.stack[s]
    BY <1>0 DEF MayAggress
  <1>2. Aggress(t, s, target, c) = u
    BY Zenon DEF Aggress
  <1> HIDE DEF amount, raise, full
  <1>3. paid \in Table /\ paid.hand = t.hand
    BY <1>0, <1>1, CommitStreetKeeps DEF InHand, Staked
  <1> HIDE DEF paid
  <1>4. u.stack = paid.stack /\ u.hand.street = paid.hand.street
    <2> HIDE DEF opened
    <2>1. CASE full
      <3>1. u = Acted([reopened EXCEPT !.hand.currentBet = target], s)
        BY <2>1
      <3> QED
        BY <1>3, <3>1 DEF Acted, Table, Hand
    <2>2. CASE ~full
      <3>1. u = Acted([paid EXCEPT !.hand.currentBet = target], s)
        BY <2>2
      <3> QED
        BY <1>3, <3>1 DEF Acted, Table, Hand
    <2> QED
      BY <2>1, <2>2
  <1> HIDE DEF u
  <1>5. u.stack = CommitStreet(t, s, amount).stack /\ u.hand.street = t.hand.street
    BY <1>3, <1>4 DEF paid
  <1>6. Runs(t, u)
    BY <1>0, <1>1, <1>5, PayingRuns
  <1> QED
    BY <1>2, <1>6

LEMMA PhantomRuns ==
  ASSUME NEW t \in Table, Owing(t) = {}
  PROVE  Runs(t, [t EXCEPT !.hand.numInHand = @ - 1])
  <1> DEFINE u == [t EXCEPT !.hand.numInHand = @ - 1]
  <1>1. u.hand.street = t.hand.street /\ u.hand.currentBet = t.hand.currentBet /\ u.sh = t.sh
    BY DEF Table, Hand
  <1> HIDE DEF u
  <1>2. Owing(u) = {}
    BY <1>1 DEF Owing, OwesAction, CanAct
  <1>3. Runs(t, u)
    BY <1>1, <1>2 DEF Runs
  <1> QED
    BY <1>3 DEF u

\* Every action, and every fold or check made for a seat that is late, brings the end
\* of the betting nearer.
LEMMA ActingRunsDown ==
  ASSUME RoomInv, Betting, NEW s \in Seats,
         \/ ActFold(s) \/ ActCheck(s) \/ ActCall(s)
         \/ \E target \in Raises \cup {AllIn(s)} : ActAggress(s, target)
  PROVE  LeftLess(table, table')
  <1>0. /\ table \in Table /\ cfg \in TableConfig /\ InAction(table) /\ Counted(table, 2)
        /\ Sound(table) /\ BettingAt(table)
    BY RoomTypes, TurnIsLive DEF Betting, InProgress, BettingAt
  <1>1. s = table.hand.acting
    BY DEF ActFold, ActCheck, ActCall, ActAggress, Act
  <1>2. s \in Owing(table) /\ s \in InHand(table)
    <2>1. s # NO_SEAT
      BY SeatsAre
    <2> QED
      BY <1>0, <1>1, <2>1, TurnIsLive DEF Sound, TurnOK, Owing
  <1>3. CASE ActFold(s)
    <2> DEFINE t == Fold(table, s)
    <2>1. DoneBy(table, t) /\ Runs(table, t)
      BY <1>0, <1>2, FoldIsDone, FoldRuns
    <2>2. table' = ProgressAfterAction(t, cfg)
      BY <1>3 DEF ActFold, Act, Play
    <2> QED
      BY <1>0, <2>1, <2>2, ActionRunsDown
  <1>4. CASE ActCheck(s)
    <2> DEFINE t == Acted(table, s)
    <2>1. DoneBy(table, t) /\ Runs(table, t)
      BY <1>0, <1>2, <1>4, ActedIsDone, CheckRuns DEF ActCheck
    <2>2. table' = ProgressAfterAction(t, cfg)
      BY <1>4 DEF ActCheck, Act, Play
    <2> QED
      BY <1>0, <2>1, <2>2, ActionRunsDown
  <1>5. CASE ActCall(s)
    <2> DEFINE t == Call(table, s)
    <2>1. DoneBy(table, t) /\ Runs(table, t)
      BY <1>0, <1>2, <1>5, CallIsDone, CallRuns DEF ActCall
    <2>2. table' = ProgressAfterAction(t, cfg)
      BY <1>5 DEF ActCall, Act, Play
    <2> QED
      BY <1>0, <2>1, <2>2, ActionRunsDown
  <1>6. ASSUME NEW target \in Raises \cup {AllIn(s)}, ActAggress(s, target)
        PROVE  LeftLess(table, table')
    <2> DEFINE t == Aggress(table, s, target, cfg)
    <2>1. target \in Nat /\ MayAggress(table, s, target, cfg)
      <3>1. table.sh[s].street \in Nat /\ table.stack[s] \in Nat
        BY <1>0 DEF Table, SeatHand
      <3>2. AllIn(s) \in Nat /\ Raises \subseteq Nat
        BY <3>1, RoomAssumption DEF AllIn
      <3> QED
        BY <1>6, <3>2 DEF ActAggress
    <2>2. DoneBy(table, t) /\ Runs(table, t)
      BY <1>0, <1>2, <2>1, AggressIsDone, AggressRuns
    <2>3. table' = ProgressAfterAction(t, cfg)
      BY <1>6 DEF ActAggress, Act, Play
    <2> QED
      BY <1>0, <2>2, <2>3, ActionRunsDown
  <1> QED
    BY <1>3, <1>4, <1>5, <1>6

LEMMA TimeoutRunsDown ==
  ASSUME RoomInv, TimeoutAct
  PROVE  LeftLess(table, table')
  <1> DEFINE s == table.hand.acting
             phantom == [table EXCEPT !.hand.numInHand = @ - 1]
  <1>1. Betting
    BY DEF TimeoutAct
  <1>2. /\ table \in Table /\ cfg \in TableConfig /\ InAction(table) /\ Counted(table, 2)
        /\ TurnOK(table)
    BY <1>1, RoomTypes, TurnIsLive DEF Betting, InProgress, BettingAt, Sound
  <1>3. CASE s = NO_SEAT
    <2>1. table' = ProgressAfterAction(phantom, cfg)
      BY <1>3 DEF TimeoutAct, Play
    <2>2. Owing(table) = {}
      BY <1>2, <1>3 DEF TurnOK, Owing
    <2>3. DoneBy(table, phantom) /\ Runs(table, phantom)
      BY <1>2, <2>2, PhantomFoldIsDone, PhantomRuns
    <2> QED
      BY <1>2, <2>1, <2>3, ActionRunsDown
  <1>4. CASE s # NO_SEAT
    <2> DEFINE t == IF ToCall(table, s) = 0 THEN Acted(table, s) ELSE Fold(table, s)
    <2>1. table' = ProgressAfterAction(t, cfg)
      BY <1>4 DEF TimeoutAct, Play
    <2>2. s \in Owing(table) /\ s \in InHand(table) /\ s \in Seats
      BY <1>2, <1>4 DEF TurnOK, Owing, OwesAction, CanAct, InHand
    <2> HIDE DEF s
    <2>3. DoneBy(table, t) /\ Runs(table, t)
      <3>1. CASE ToCall(table, s) = 0
        BY <1>2, <2>2, <3>1, ActedIsDone, CheckRuns
      <3>2. CASE ToCall(table, s) # 0
        BY <1>2, <2>2, <3>2, FoldIsDone, FoldRuns
      <3> QED
        BY <3>1, <3>2
    <2> HIDE DEF t
    <2> QED
      BY <1>2, <2>1, <2>3, ActionRunsDown
  <1> QED
    BY <1>3, <1>4

LEMMA HandIsKept ==
  ASSUME RoomInv, SeatStep \/ WithdrawRake(table.rake) \/ (AccusationStep /\ ~AbortHandPenalized)
  PROVE  table'.hand = table.hand
  <1>0. table \in Table
    BY RoomTypes
  <1>1. CASE SeatStep
    <2>1. ASSUME NEW p \in Players, NEW n, Deposit(p, n) \/ Withdraw(p, n)
          PROVE  table'.hand = table.hand
      BY <2>1 DEF Deposit, Withdraw, handVars
    <2>2. ASSUME NEW p \in Players, NEW s \in Seats, NEW n \in BuyIns,
                 SitDown(p, s, n) \/ SeatPlayerWithChips(p, s, n)
          PROVE  table'.hand = table.hand
      BY <1>0, <2>2 DEF SitDown, SeatPlayerWithChips, Take, Table
    <2>3. ASSUME NEW p \in Players, NEW n \in TopUps, TopUp(p, n)
          PROVE  table'.hand = table.hand
      <3>1. PICK s \in Seats : table' = [table EXCEPT !.stack[s] = @ + n]
        BY <2>3 DEF TopUp, SeatsOf
      <3> QED
        BY <1>0, <3>1 DEF Table
    <2>4. ASSUME NEW s \in Seats, KickIdle(s) \/ LeaveTable(s) \/ RemoveSeat(s)
          PROVE  table'.hand = table.hand
      BY <1>0, <2>4 DEF KickIdle, LeaveTable, RemoveSeat, StandUp, Vacate, Table
    <2>5. ASSUME NEW s \in Seats, SitOutIdle(s) \/ \E b \in BOOLEAN : SetSitOut(s, b)
          PROVE  table'.hand = table.hand
      BY <2>5 DEF SitOutIdle, SetSitOut
    <2> QED
      BY <1>1, <2>1, <2>2, <2>3, <2>4, <2>5 DEF SeatStep
  <1>2. CASE WithdrawRake(table.rake)
    BY <1>0, <1>2 DEF WithdrawRake, Table
  <1>3. CASE AccusationStep /\ ~AbortHandPenalized
    BY <1>3 DEF AccusationStep, AccuseAbandon, WindowElapses, ProveResponsive
  <1> QED
    BY <1>1, <1>2, <1>3

\* Every action of a player, and every fold or check made for one that is late, brings
\* the end of the betting nearer: no one can keep a hand from its showdown.
THEOREM BettingRunsDownHolds == Spec => BettingRunsDown
  <1> DEFINE Progress ==
        Betting /\ table'.hand # table.hand /\ ~table'.hand.late =>
          Below(Left(table'), Left(table))
  <1>1. RoomInv /\ RoomInv' /\ [Next]_vars => [Progress]_vars
    <2> SUFFICES ASSUME RoomInv, RoomInv', Next, Betting, table'.hand # table.hand,
                        ~table'.hand.late
                 PROVE  LeftLess(table, table')
      BY DEF LeftLess
    <2>0. /\ table \in Table /\ table' \in Table /\ BettingAt(table) /\ Staked(table)
      BY RoomTypes DEF RoomInv, Sound, Betting, BettingAt, InProgress
    <2>1. CASE SeatStep
      BY <2>1, HandIsKept
    <2>2. CASE AdminStep
      <3>1. ~\E c \in Configs : UpdateTable(c) \/ SetBlinds(c)
        BY DEF UpdateTable, SetBlinds, Betting
      <3> QED
        BY <2>2, <3>1, HandIsKept DEF AdminStep
    <2>3. CASE AbortHand \/ AbortHandPenalized
      <3>1. ~table'.hand.inProgress
        <4>1. CASE AbortHand
          BY <2>0, <4>1, CancelPaysBack DEF AbortHand, Play
        <4>2. CASE AbortHandPenalized
          <5>1. accusation.seat \in Seats
            BY <4>2 DEF AbortHandPenalized, MayPenalize, RoomInv, AccusationIsCurrent
          <5> QED
            BY <2>0, <4>2, <5>1, PenaltyPaysBack DEF AbortHandPenalized, Play
        <4> QED
          BY <2>3, <4>1, <4>2
      <3> QED
        BY <2>0, <3>1, LaterIsLess DEF LaterStreet, BettingAt
    <2>4. CASE AccusationStep /\ ~AbortHandPenalized
      BY <2>4, HandIsKept
    <2>5. CASE HandStep
      <3>1. ~StartHand
        BY DEF StartHand, Betting
      <3>2. ~\E scores \in [Seats -> Ranks] : ResolveShowdown(scores)
        BY SeatsAre DEF ResolveShowdown, Betting, SHOWDOWN
      <3>3. ~ClockRunsOut
        <4> SUFFICES ASSUME ClockRunsOut PROVE FALSE
          OBVIOUS
        <4>1. table'.hand.late = TRUE
          BY <2>0 DEF ClockRunsOut, Table, Hand
        <4> QED
          BY <4>1
      <3> QED
        BY <2>3, <2>5, <3>1, <3>2, <3>3, ActingRunsDown, TimeoutRunsDown DEF HandStep
    <2> QED
      BY <2>1, <2>2, <2>3, <2>4, <2>5 DEF Next
  <1> QED
    BY <1>1, RoomInvHolds, PTL DEF Spec, BettingRunsDown

=============================================================================
