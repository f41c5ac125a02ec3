---------------------------- MODULE ZkHandProofs ----------------------------
(***************************************************************************)
(* Theorems about ZkHand, for every number of players and of streets and   *)
(* every number of faults: the client's gates and the contract's agree,    *)
(* and the protocol opens cards only as TrustedDealer would.               *)
(***************************************************************************)
EXTENDS ZkHand, WellFoundedInduction, TLAPS

Shares == [Cards -> SUBSET Players]
Accusations == [who : Players, card : Cards]
Sessions ==
  [shares : Shares, board : 0..BOARD, holes : SUBSET Players, marked : BOOLEAN,
   accused : Accusations \cup {None}, late : BOOLEAN]

HandTypeOK ==
  /\ street \in 0..SHOWDOWN
  /\ inHand \in SUBSET Players /\ paid \in SUBSET Players
  /\ acc \in Accusations \cup {None}
  /\ chBoard \in 0..BOARD /\ chHoles \in SUBSET Players
  /\ ready \in BOOLEAN
  /\ vindicated \in SUBSET (Players \X Cards)
  /\ known \in Shares
  /\ sess \in Sessions \cup {NoSession}

\* A player's own share of her own cards is out only at the showdown, and
\* only if she got there.
OwnSharesKept ==
  \A p \in Players : p \in known[Hole(p)] => street = SHOWDOWN /\ p \in inHand

\* The shares of a board card that are out are of a street that has come.
BoardSharesKept ==
  \A s \in 1..BOARD : known[Board(s)] # {} => s <= Due(street)

\* What the contract accepted an accusation for still holds.
AccusationStands == acc # None => AccusationAllowed(acc.who, acc.card)

\* What is published was open.
PublishedIsOpen ==
  /\ chBoard <= Due(street)
  /\ \A s \in 1..chBoard : known[Board(s)] = Players
  /\ \A p \in chHoles : known[Hole(p)] = Players

\* The session runs behind the chain and behind the clients.
SessionBehind ==
  sess # NoSession =>
    /\ sess.board <= chBoard /\ sess.holes \subseteq chHoles
    /\ \A c \in Cards : sess.shares[c] \subseteq known[c]

\* A share recorded on chain is out.
RescuesAreOut == \A v \in vindicated : v[1] \in known[v[2]]

HandInv ==
  /\ HandTypeOK
  /\ OwnSharesKept /\ BoardSharesKept /\ AccusationStands
  /\ PublishedIsOpen /\ SessionBehind /\ RescuesAreOut

-----------------------------------------------------------------------------
\* Cards and extrema

\* A card is a board card or somebody's own, and its number says which.
LEMMA CardFacts ==
  /\ \A p \in Players : Hole(p) \in Cards /\ IsHole(Hole(p)) /\ Hole(p)[2] = p
  /\ \A s \in 1..BOARD : Board(s) \in Cards /\ ~IsHole(Board(s)) /\ Board(s)[2] = s
  /\ \A c \in Cards : IF IsHole(c) THEN c[2] \in Players /\ c = Hole(c[2])
                                   ELSE c[2] \in 1..BOARD /\ c = Board(c[2])
  BY DEF Cards, Hole, Board, IsHole

\* The board card due on a street exists, and only more come due later.
LEMMA DueFacts ==
  ASSUME HandAssumption
  PROVE  /\ SHOWDOWN \in Nat /\ SHOWDOWN = BOARD + 1
         /\ \A s \in 0..SHOWDOWN : Due(s) \in 0..BOARD
         /\ \A s, t \in 0..SHOWDOWN : s <= t => Due(s) <= Due(t)
         /\ Due(SHOWDOWN) = BOARD
  BY DEF HandAssumption, SHOWDOWN, Due

\* Seats and sessions are told apart from None and NoSession.
LEMMA NoneFacts ==
  ASSUME HandAssumption
  PROVE  /\ None.who = 0 /\ 0 \notin Players /\ None \notin Accusations
         /\ NoSession \notin Sessions
  BY DEF HandAssumption, None, NoSession, Players, Accusations, Sessions

\* A non-empty set of naturals has a minimum.
LEMMA MinFacts ==
  ASSUME NEW S \in SUBSET Nat, S # {}
  PROVE  Min(S) \in S /\ \A y \in S : Min(S) <= y
  <1> DEFINE R == OpToRel(<, Nat)
  <1>1. \A x, y \in Nat : y < x => <<y, x>> \in R
    BY DEF OpToRel
  <1>2. IsWellFoundedOn(R, Nat)
    BY NatLessThanWellFounded
  <1> HIDE DEF R
  <1>3. PICK x \in S : \A y \in S : ~ (<<y, x>> \in R)
    BY <1>2, WFMin
  <1>4. ASSUME NEW y \in S PROVE x <= y
    <2>1. x \in Nat /\ y \in Nat
      OBVIOUS
    <2>2. ~ (y < x)
      BY <1>1, <1>3, <2>1
    <2> QED
      BY <2>1, <2>2
  <1> QED
    BY <1>4 DEF Min

\* A non-empty bounded set of naturals has a maximum.
LEMMA MaxFacts ==
  ASSUME NEW b \in Nat, NEW S \in SUBSET (0..b), S # {}
  PROVE  Max(S) \in S /\ \A y \in S : y <= Max(S)
  <1> DEFINE T == {b - y : y \in S}
  <1>1. T \in SUBSET Nat /\ T # {}
    <2>1. ASSUME NEW y \in S PROVE b - y \in Nat
      <3>1. y \in 0..b
        OBVIOUS
      <3> QED
        BY <3>1
    <2> QED
      BY <2>1
  <1>2. Min(T) \in T /\ \A z \in T : Min(T) <= z
    BY <1>1, MinFacts
  <1>3. PICK x \in S : Min(T) = b - x
    BY <1>2
  <1>4. ASSUME NEW y \in S PROVE y <= x
    <2>1. x \in 0..b /\ y \in 0..b
      OBVIOUS
    <2>2. b - x <= b - y
      BY <1>2, <1>3
    <2> QED
      BY <2>1, <2>2
  <1> QED
    BY <1>4 DEF Max

-----------------------------------------------------------------------------
\* The hand's invariant

\* Only the session moved: what is on chain and what is out did not.
LEMMA SessionStep ==
  ASSUME HandInv, UNCHANGED <<chainVars, known>>,
         sess' \in Sessions \cup {NoSession}, SessionBehind'
  PROVE  HandInv'
  <1> USE DEF chainVars, HandInv
  <1>1. HandTypeOK'
    BY DEF HandTypeOK
  <1>2. OwnSharesKept' /\ BoardSharesKept'
    BY DEF OwnSharesKept, BoardSharesKept
  <1>3. AccusationStands' /\ RescuesAreOut'
    BY DEF AccusationStands, AccusationAllowed, RescuesAreOut
  <1>4. PublishedIsOpen'
    BY DEF PublishedIsOpen
  <1> QED
    BY <1>1, <1>2, <1>3, <1>4

LEMMA HandInvInit == HandAssumption /\ Init => HandInv
  <1> SUFFICES ASSUME HandAssumption, Init PROVE HandInv
    OBVIOUS
  <1> USE DEF Init
  <1>1. PreCollected \in Shares
    BY CardFacts DEF PreCollected, Shares
  <1>2. HandTypeOK
    <2>1. NewSession(PreCollected, 0, FALSE) \in Sessions
      BY <1>1 DEF NewSession, Sessions, HandAssumption
    <2>2. paid \in SUBSET Players
      OBVIOUS
    <2>3. ready \in BOOLEAN
      BY Zenon
    <2>4. chBoard \in 0..BOARD /\ street \in 0..SHOWDOWN /\ vindicated = {}
      BY DueFacts DEF HandAssumption
    <2>5. acc \in Accusations \cup {None} /\ known \in Shares
      BY <1>1
    <2>6. sess \in Sessions \cup {NoSession}
      BY <2>1
    <2> QED
      BY <2>2, <2>3, <2>4, <2>5, <2>6 DEF HandTypeOK
  <1>3. OwnSharesKept /\ BoardSharesKept
    BY CardFacts DEF OwnSharesKept, BoardSharesKept, PreCollected
  <1>4. AccusationStands /\ RescuesAreOut
    BY DEF AccusationStands, RescuesAreOut
  <1>5. PublishedIsOpen
    BY DueFacts DEF PublishedIsOpen, HandAssumption
  <1>6. SessionBehind
    BY DEF SessionBehind, NewSession
  <1> QED
    BY <1>2, <1>3, <1>4, <1>5, <1>6 DEF HandInv

\* Betting moves the streets on and folds players before the showdown.
LEMMA FoldStep ==
  ASSUME HandAssumption, HandInv, NEW p \in Players, Fold(p)
  PROVE  HandInv'
  <1> USE DEF HandInv, Fold
  <1>1. HandTypeOK'
    BY DEF HandTypeOK
  <1>2. OwnSharesKept' /\ BoardSharesKept'
    BY DEF OwnSharesKept, BoardSharesKept, HandTypeOK, HandAssumption, SHOWDOWN
  <1>3. AccusationStands'
    BY CardFacts DEF AccusationStands, AccusationAllowed, HandTypeOK, HandAssumption, SHOWDOWN
  <1>4. PublishedIsOpen' /\ SessionBehind' /\ RescuesAreOut'
    BY DEF PublishedIsOpen, SessionBehind, RescuesAreOut
  <1> QED
    BY <1>1, <1>2, <1>3, <1>4

LEMMA CloseStreetStep ==
  ASSUME HandAssumption, HandInv, CloseStreet
  PROVE  HandInv'
  <1> USE DEF HandInv, CloseStreet
  <1>1. street \in 0..SHOWDOWN /\ street' \in 0..SHOWDOWN /\ street <= street'
    BY DueFacts DEF HandTypeOK
  <1>2. Due(street) \in 0..BOARD /\ Due(street') \in 0..BOARD
        /\ Due(street) <= Due(street')
    BY <1>1, DueFacts
  <1>3. HandTypeOK'
    BY <1>1 DEF HandTypeOK
  <1>4. OwnSharesKept'
    BY DueFacts DEF OwnSharesKept, HandTypeOK
  <1>5. BoardSharesKept'
    BY <1>2 DEF BoardSharesKept
  <1>6. AccusationStands'
    <2>1. acc \in Accusations \/ acc = None
      BY DEF HandTypeOK
    <2>2. CASE acc \in Accusations
      <3>1. AccusationAllowed(acc.who, acc.card)
        BY <2>2, NoneFacts DEF AccusationStands
      <3>2. acc.card \in Cards
        BY <2>2 DEF Accusations
      <3> QED
        BY <1>2, <3>1, <3>2, CardFacts, DueFacts
           DEF AccusationStands, AccusationAllowed, HandTypeOK
    <2> QED
      BY <2>1, <2>2 DEF AccusationStands
  <1>7. PublishedIsOpen'
    BY <1>2 DEF PublishedIsOpen, HandTypeOK
  <1>8. SessionBehind' /\ RescuesAreOut'
    BY DEF SessionBehind, RescuesAreOut
  <1> QED
    BY <1>3, <1>4, <1>5, <1>6, <1>7, <1>8

\* Shares of the cards of C leave p's client: none of them too early.
LEMMA SharesOut ==
  ASSUME HandInv, NEW p \in Players, NEW C \in SUBSET Cards,
         known' = Add(known, C, p),
         \A c \in C : MayRelease(p, c),
         UNCHANGED <<street, inHand>>
  PROVE  /\ known' \in Shares
         /\ \A c \in Cards : known[c] \subseteq known'[c]
         /\ \A c \in C : p \in known'[c]
         /\ OwnSharesKept' /\ BoardSharesKept'
  <1>1. known \in Shares
    BY DEF HandInv, HandTypeOK
  <1>2. /\ known' \in Shares
        /\ \A c \in Cards : known'[c] = IF c \in C THEN known[c] \cup {p} ELSE known[c]
    BY <1>1 DEF Add, Shares
  <1>3. OwnSharesKept'
    <2> SUFFICES ASSUME NEW q \in Players, q \in known'[Hole(q)]
                 PROVE  street = SHOWDOWN /\ q \in inHand
      BY DEF OwnSharesKept
    <2>1. CASE q \in known[Hole(q)]
      BY <2>1 DEF HandInv, OwnSharesKept
    <2>2. CASE q = p /\ Hole(q) \in C
      BY <2>2, CardFacts DEF MayRelease
    <2> QED
      BY <1>2, <2>1, <2>2, CardFacts
  <1>4. BoardSharesKept'
    <2> SUFFICES ASSUME NEW s \in 1..BOARD, known'[Board(s)] # {}
                 PROVE  s <= Due(street)
      BY DEF BoardSharesKept
    <2>1. CASE known[Board(s)] # {}
      BY <2>1 DEF HandInv, BoardSharesKept
    <2>2. CASE Board(s) \in C
      BY <2>2, CardFacts DEF MayRelease
    <2> QED
      BY <1>2, <2>1, <2>2, CardFacts
  <1> QED
    BY <1>2, <1>3, <1>4

\* Shares that are out stay out, and so does what is published or recorded.
LEMMA KnownGrows ==
  ASSUME HandAssumption, HandInv, known' \in Shares,
         \A c \in Cards : known[c] \subseteq known'[c],
         UNCHANGED <<street, chBoard, chHoles>>
  PROVE  /\ PublishedIsOpen'
         /\ \A v \in vindicated : v[1] \in known'[v[2]]
  <1>1. \A c \in Cards : known[c] = Players => known'[c] = Players
    BY DEF Shares
  <1>2. PublishedIsOpen'
    <2>1. chBoard \in 0..BOARD /\ chHoles \in SUBSET Players
      BY DEF HandInv, HandTypeOK
    <2>2. /\ \A s \in 1..chBoard : Board(s) \in Cards
          /\ \A p \in chHoles : Hole(p) \in Cards
      BY <2>1, CardFacts DEF HandAssumption
    <2> QED
      BY <1>1, <2>2 DEF HandInv, PublishedIsOpen
  <1>3. ASSUME NEW v \in vindicated PROVE v[1] \in known'[v[2]]
    <2>1. v[2] \in Cards
      BY DEF HandInv, HandTypeOK
    <2> QED
      BY <2>1 DEF HandInv, RescuesAreOut
  <1> QED
    BY <1>2, <1>3

LEMMA PostSharesStep ==
  ASSUME HandAssumption, HandInv, NEW p \in Players, PostShares(p)
  PROVE  HandInv'
  <1> DEFINE C == {c \in Asked(p) : MayRelease(p, c)}
  <1> USE DEF HandInv
  <1>1. /\ C \in SUBSET Cards /\ \A c \in C : MayRelease(p, c)
        /\ sess # NoSession
        /\ sess' = [sess EXCEPT !.shares = Add(@, C, p)]
        /\ known' = Add(known, C, p)
        /\ UNCHANGED chainVars
    BY DEF PostShares, Asked, Serving
  <1> HIDE DEF C
  <1>2. UNCHANGED <<street, inHand, paid, acc, chBoard, chHoles, ready, vindicated>>
    BY <1>1 DEF chainVars
  <1>3. /\ known' \in Shares
        /\ \A c \in Cards : known[c] \subseteq known'[c]
        /\ \A c \in C : p \in known'[c]
        /\ OwnSharesKept' /\ BoardSharesKept'
    BY <1>1, <1>2, SharesOut
  <1>4. sess \in Sessions /\ sess.shares \in Shares
    BY <1>1 DEF HandTypeOK, Sessions
  <1>5. /\ sess' \in Sessions
        /\ sess'.shares = Add(sess.shares, C, p)
        /\ sess'.board = sess.board /\ sess'.holes = sess.holes
    BY <1>1, <1>4 DEF Sessions, Add, Shares
  <1>6. HandTypeOK'
    BY <1>2, <1>3, <1>5 DEF HandTypeOK
  <1>7. SessionBehind'
    BY <1>1, <1>2, <1>3, <1>4, <1>5 DEF SessionBehind, Add, Shares, HandTypeOK
  <1>8. PublishedIsOpen' /\ RescuesAreOut'
    BY <1>2, <1>3, KnownGrows DEF RescuesAreOut
  <1>9. AccusationStands'
    BY <1>2 DEF AccusationStands, AccusationAllowed
  <1> QED
    BY <1>3, <1>6, <1>7, <1>8, <1>9

\* An accusation that the contract accepted is of a card the client releases.
LEMMA AccusedReleases ==
  ASSUME HandAssumption, HandInv, acc # None
  PROVE  /\ acc.who \in Players /\ acc.card \in Cards
         /\ WouldRescue
         /\ MayRelease(acc.who, acc.card)
  <1>1. acc.who \in Players /\ acc.card \in Cards
    BY DEF HandInv, HandTypeOK, Accusations
  <1>2. AccusationAllowed(acc.who, acc.card)
    BY DEF HandInv, AccusationStands
  <1>3. WouldRescue
    BY <1>1, <1>2, CardFacts DEF WouldRescue, AccusationAllowed
  <1>4. MayRelease(acc.who, acc.card)
    BY <1>2 DEF AccusationAllowed, MayRelease
  <1> QED
    BY <1>1, <1>3, <1>4

LEMMA SelfRescueStep ==
  ASSUME HandAssumption, HandInv, NEW p \in Players, SelfRescue(p)
  PROVE  HandInv'
  <1> DEFINE v == <<p, acc.card>>
  <1> USE DEF HandInv
  <1>1. /\ acc.who = p /\ vindicated' = vindicated \cup {v}
        /\ known' = Add(known, {acc.card}, p)
        /\ acc' = None
        /\ UNCHANGED <<street, inHand, paid, chBoard, chHoles, ready, sess>>
    BY DEF SelfRescue
  <1>2. acc # None
    BY <1>1, NoneFacts
  <1>3. acc.card \in Cards /\ MayRelease(p, acc.card)
    BY <1>1, <1>2, AccusedReleases
  <1>4. /\ known' \in Shares
        /\ \A c \in Cards : known[c] \subseteq known'[c]
        /\ p \in known'[acc.card]
        /\ OwnSharesKept' /\ BoardSharesKept'
    <2> DEFINE C == {acc.card}
    <2>1. /\ C \in SUBSET Cards /\ \A c \in C : MayRelease(p, c)
          /\ known' = Add(known, C, p) /\ UNCHANGED <<street, inHand>>
      BY <1>1, <1>3
    <2>2. acc.card \in C
      OBVIOUS
    <2> HIDE DEF C
    <2> QED
      BY <2>1, <2>2, SharesOut
  <1>5. v \in Players \X Cards /\ v[1] = p /\ v[2] = acc.card
    BY <1>3
  <1> HIDE DEF v
  <1>6. HandTypeOK'
    BY <1>1, <1>4, <1>5 DEF HandTypeOK
  <1>7. PublishedIsOpen' /\ \A u \in vindicated : u[1] \in known'[u[2]]
    BY <1>1, <1>4, KnownGrows
  <1>8. RescuesAreOut'
    BY <1>1, <1>4, <1>5, <1>7 DEF RescuesAreOut
  <1>9. AccusationStands'
    BY <1>1 DEF AccusationStands
  <1>10. SessionBehind'
    BY <1>1, <1>4 DEF SessionBehind
  <1> QED
    BY <1>4, <1>6, <1>7, <1>8, <1>9, <1>10

\* A clock that runs out changes no card.
LEMMA ClocksStep ==
  ASSUME HandInv, ShareDeadlinePasses \/ WindowLapses
  PROVE  HandInv'
  <1> USE DEF HandInv
  <1>1. CASE ShareDeadlinePasses
    <2>1. /\ sess \in Sessions /\ sess # NoSession
          /\ sess' = [sess EXCEPT !.late = TRUE]
          /\ UNCHANGED <<chainVars, known>>
      BY <1>1 DEF ShareDeadlinePasses, Stuck, Serving, HandTypeOK
    <2>2. sess' \in Sessions /\ sess'.board = sess.board
          /\ sess'.holes = sess.holes /\ sess'.shares = sess.shares
      BY <2>1 DEF Sessions
    <2>3. SessionBehind'
      BY <2>1, <2>2 DEF SessionBehind, chainVars
    <2> QED
      BY <2>1, <2>2, <2>3, SessionStep
  <1>2. CASE WindowLapses
    BY <1>2 DEF WindowLapses, HandTypeOK, OwnSharesKept, BoardSharesKept,
                AccusationStands, AccusationAllowed, PublishedIsOpen,
                SessionBehind, RescuesAreOut
  <1> QED
    BY <1>1, <1>2

-----------------------------------------------------------------------------
\* The coordinator

\* The last board card that can be sent lies between the session and what is
\* due, and every share of the cards up to it is in.
LEMMA ReadyFacts ==
  ASSUME HandAssumption, HandInv, sess # NoSession, BoardOwed
  PROVE  /\ ReadyTo \in sess.board..Due(street)
         /\ \A s \in (sess.board + 1)..ReadyTo : HaveAll(Board(s))
  <1> DEFINE S == {n \in sess.board..Due(street) :
                     \A s \in (sess.board + 1)..n : HaveAll(Board(s))}
  <1>1. sess.board \in 0..BOARD /\ Due(street) \in 0..BOARD /\ sess.board < Due(street)
    BY DueFacts DEF HandInv, HandTypeOK, Sessions, BoardOwed
  <1>2. S \in SUBSET (0..BOARD) /\ BOARD \in Nat
    BY <1>1 DEF HandAssumption
  <1>3. sess.board \in S
    BY <1>1
  <1>4. Max(S) \in S
    BY <1>2, <1>3, MaxFacts
  <1> QED
    BY <1>4 DEF ReadyTo

\* What the session may become when a transaction's receipt is awaited.
LEMMA ReceiptFacts ==
  ASSUME NEW s, Receipt(s)
  PROVE  sess' = s \/ sess' = sess
  BY DEF Receipt

LEMMA RevealBoardStep ==
  ASSUME HandAssumption, HandInv, RevealBoard
  PROVE  HandInv'
  <1> USE DEF HandInv
  <1>1. /\ sess \in Sessions /\ sess # NoSession /\ BoardOwed
        /\ chBoard = sess.board
        /\ UNCHANGED <<street, inHand, paid, acc, vindicated, chHoles, ready, known>>
    BY DEF RevealBoard, Serving, HandTypeOK
  <1>2. PICK n \in (sess.board + 1)..ReadyTo :
          /\ chBoard' = n
          /\ sess' = [sess EXCEPT !.board = n, !.late = FALSE] \/ sess' = sess
    BY DEF RevealBoard, Receipt
  <1>3. /\ ReadyTo \in sess.board..Due(street)
        /\ \A s \in (sess.board + 1)..ReadyTo : HaveAll(Board(s))
    BY <1>1, ReadyFacts
  <1>4. sess.board \in 0..BOARD /\ Due(street) \in 0..BOARD /\ BOARD \in Nat
    BY <1>1, DueFacts DEF HandTypeOK, Sessions, HandAssumption
  <1>5. /\ n \in 0..BOARD /\ n <= Due(street) /\ chBoard < n
        /\ \A s \in 1..n : s \in 1..chBoard \/ s \in (sess.board + 1)..ReadyTo
    BY <1>1, <1>3, <1>4
  <1>6. \A s \in 1..n : known[Board(s)] = Players
    <2> TAKE s \in 1..n
    <2>1. CASE s \in 1..chBoard
      BY <2>1 DEF PublishedIsOpen
    <2>2. CASE s \in (sess.board + 1)..ReadyTo
      <3>1. Board(s) \in Cards
        BY <1>4, <1>5, CardFacts
      <3>2. sess.shares[Board(s)] = Players
        BY <1>3, <2>2 DEF HaveAll
      <3> QED
        BY <1>1, <3>1, <3>2 DEF SessionBehind, HandTypeOK, Shares
    <2> QED
      BY <1>5, <2>1, <2>2
  <1>7. /\ sess' \in Sessions
        /\ sess'.board <= n /\ sess'.shares = sess.shares /\ sess'.holes = sess.holes
    <2>1. CASE sess' = [sess EXCEPT !.board = n, !.late = FALSE]
      <3>1. n \in 0..BOARD /\ n <= n
        BY <1>4, <1>5
      <3>2. sess \in Sessions /\ n \in 0..BOARD
        BY <1>1, <3>1
      <3>3. /\ sess' \in Sessions /\ sess'.board = n
            /\ sess'.shares = sess.shares /\ sess'.holes = sess.holes
        BY ONLY <3>2, <2>1 DEF Sessions
      <3> QED
        BY <3>1, <3>3
    <2>2. CASE sess' = sess
      BY <1>1, <1>4, <1>5, <2>2
    <2> QED
      BY <1>2, <2>1, <2>2
  <1>8. HandTypeOK'
    BY <1>1, <1>2, <1>5, <1>7 DEF HandTypeOK
  <1>9. OwnSharesKept' /\ BoardSharesKept' /\ RescuesAreOut'
    BY <1>1 DEF OwnSharesKept, BoardSharesKept, RescuesAreOut
  <1>10. AccusationStands'
    BY <1>1, <1>2, <1>4, <1>5 DEF AccusationStands, AccusationAllowed
  <1>11. PublishedIsOpen'
    BY <1>1, <1>2, <1>5, <1>6 DEF PublishedIsOpen
  <1>12. SessionBehind'
    BY <1>1, <1>2, <1>7 DEF SessionBehind
  <1> QED
    BY <1>8, <1>9, <1>10, <1>11, <1>12

LEMMA ResyncBoardStep ==
  ASSUME HandAssumption, HandInv, ResyncBoard
  PROVE  HandInv'
  <1> USE DEF HandInv
  <1>1. /\ sess \in Sessions /\ chBoard \in 0..BOARD /\ sess # NoSession
        /\ sess' = [sess EXCEPT !.board = chBoard, !.late = FALSE]
        /\ UNCHANGED <<chainVars, known>>
    BY DEF ResyncBoard, Serving, HandTypeOK
  <1>2. /\ sess' \in Sessions /\ sess'.board = chBoard
        /\ sess'.holes = sess.holes /\ sess'.shares = sess.shares
    BY <1>1 DEF Sessions
  <1>3. SessionBehind'
    BY <1>1, <1>2 DEF SessionBehind, chainVars, HandAssumption
  <1> QED
    BY <1>1, <1>2, <1>3, SessionStep

LEMMA RevealHolesStep ==
  ASSUME HandAssumption, HandInv, RevealHoles
  PROVE  HandInv'
  <1> USE DEF HandInv
  <1>1. /\ sess \in Sessions /\ sess # NoSession
        /\ UNCHANGED <<street, inHand, paid, vindicated, chBoard, known>>
    BY DEF RevealHoles, Serving, HandTypeOK
  <1>2. PICK L \in SUBSET (ReadyHoles \ chHoles) :
          /\ chHoles' = chHoles \cup L
          /\ Finish(chHoles')
          /\ \/ sess' = [sess EXCEPT !.holes = Shown(chHoles')]
             \/ sess' = sess
    BY DEF RevealHoles, Receipt
  <1>3. /\ ready' \in BOOLEAN
        /\ acc' = acc \/ acc' = None
    BY <1>2 DEF Finish, HandTypeOK
  <1>4. ReadyHoles \in SUBSET Players /\ sess.holes \in SUBSET Players
    BY <1>1 DEF ReadyHoles, HandTypeOK, Sessions
  <1>5. \A p \in ReadyHoles : known[Hole(p)] = Players
    <2> TAKE p \in ReadyHoles
    <2>1. Hole(p) \in Cards
      BY <1>4, CardFacts
    <2>2. sess.shares[Hole(p)] = Players
      BY DEF ReadyHoles, HaveAll
    <2> QED
      BY <1>1, <2>1, <2>2 DEF SessionBehind, HandTypeOK, Shares
  <1>6. /\ Shown(chHoles') \in SUBSET Players
        /\ Shown(chHoles') \subseteq chHoles' /\ chHoles' \in SUBSET Players
        /\ sess.holes \subseteq chHoles'
    BY <1>1, <1>2, <1>4 DEF Shown, HandTypeOK, SessionBehind
  <1>7. /\ sess' \in Sessions
        /\ sess'.board = sess.board /\ sess'.shares = sess.shares
        /\ sess'.holes \subseteq chHoles'
    BY <1>1, <1>2, <1>6 DEF Sessions
  <1>8. HandTypeOK'
    BY <1>1, <1>3, <1>6, <1>7 DEF HandTypeOK
  <1>9. OwnSharesKept' /\ BoardSharesKept' /\ RescuesAreOut'
    BY <1>1 DEF OwnSharesKept, BoardSharesKept, RescuesAreOut
  <1>10. AccusationStands'
    BY <1>1, <1>3 DEF AccusationStands, AccusationAllowed
  <1>11. PublishedIsOpen'
    BY <1>1, <1>2, <1>5 DEF PublishedIsOpen
  <1>12. SessionBehind'
    BY <1>1, <1>7 DEF SessionBehind
  <1> QED
    BY <1>8, <1>9, <1>10, <1>11, <1>12

LEMMA MarkReadyStep ==
  ASSUME HandInv, MarkReady
  PROVE  HandInv'
  <1> USE DEF HandInv
  <1>1. /\ sess \in Sessions /\ sess # NoSession /\ ready' = TRUE
        /\ sess' = [sess EXCEPT !.marked = TRUE] \/ sess' = sess
        /\ UNCHANGED <<street, inHand, paid, acc, vindicated, chBoard, chHoles, known>>
    BY DEF MarkReady, Serving, HandTypeOK, Receipt
  <1>2. /\ sess' \in Sessions
        /\ sess'.board = sess.board /\ sess'.shares = sess.shares
        /\ sess'.holes = sess.holes
    BY <1>1 DEF Sessions
  <1>3. HandTypeOK'
    BY <1>1, <1>2 DEF HandTypeOK
  <1>4. OwnSharesKept' /\ BoardSharesKept' /\ RescuesAreOut' /\ PublishedIsOpen'
    BY <1>1 DEF OwnSharesKept, BoardSharesKept, RescuesAreOut, PublishedIsOpen
  <1>5. AccusationStands'
    BY <1>1 DEF AccusationStands, AccusationAllowed
  <1>6. SessionBehind'
    BY <1>1, <1>2 DEF SessionBehind
  <1> QED
    BY <1>3, <1>4, <1>5, <1>6

LEMMA EndHandStep ==
  ASSUME HandInv, NEW how, EndHand(how)
  PROVE  HandInv'
  <1> USE DEF HandInv, EndHand
  <1>1. HandTypeOK'
    BY DEF HandTypeOK
  <1>2. OwnSharesKept' /\ BoardSharesKept' /\ RescuesAreOut' /\ PublishedIsOpen'
    BY DEF OwnSharesKept, BoardSharesKept, RescuesAreOut, PublishedIsOpen
  <1>3. AccusationStands' /\ SessionBehind'
    BY DEF AccusationStands, SessionBehind
  <1> QED
    BY <1>1, <1>2, <1>3

LEMMA IngestRescueStep ==
  ASSUME HandAssumption, HandInv, IngestRescue
  PROVE  HandInv'
  <1> DEFINE a == sess.accused
             s == [sess EXCEPT !.accused = None, !.late = FALSE]
  <1> USE DEF HandInv
  <1>1. /\ sess \in Sessions /\ sess # NoSession /\ a # None
        /\ UNCHANGED <<chainVars, known>>
        /\ sess' = IF <<a.who, a.card>> \in vindicated
                   THEN [s EXCEPT !.shares[a.card] = @ \cup {a.who}] ELSE s
    BY DEF IngestRescue, Stuck, Serving, HandTypeOK
  <1>2. a.who \in Players /\ a.card \in Cards
    BY <1>1 DEF Sessions, Accusations
  <1>3. /\ s \in Sessions /\ s.board = sess.board /\ s.holes = sess.holes
        /\ s.shares = sess.shares
    BY <1>1 DEF Sessions
  <1> HIDE DEF s
  <1>4. CASE sess' = s
    <2>1. SessionBehind'
      BY <1>1, <1>3, <1>4 DEF SessionBehind, chainVars
    <2> QED
      BY <1>1, <1>3, <1>4, <2>1, SessionStep
  <1>5. CASE /\ <<a.who, a.card>> \in vindicated
             /\ sess' = [s EXCEPT !.shares[a.card] = @ \cup {a.who}]
    <2>1. a.who \in known[a.card]
      BY <1>5 DEF RescuesAreOut
    <2>2. /\ sess' \in Sessions /\ sess'.board = sess.board /\ sess'.holes = sess.holes
          /\ sess'.shares = [sess.shares EXCEPT ![a.card] = @ \cup {a.who}]
      BY <1>2, <1>3, <1>5 DEF Sessions, Shares
    <2>3. SessionBehind'
      BY <1>1, <1>2, <2>1, <2>2 DEF SessionBehind, chainVars, Sessions, Shares
    <2> QED
      BY <1>1, <2>2, <2>3, SessionStep
  <1> QED
    BY <1>1, <1>4, <1>5

LEMMA AdoptAccusationStep ==
  ASSUME HandInv, AdoptAccusation
  PROVE  HandInv'
  <1> USE DEF HandInv
  <1>1. /\ sess \in Sessions /\ sess # NoSession /\ acc \in Accusations
        /\ sess' = [sess EXCEPT !.accused = acc, !.late = FALSE]
        /\ UNCHANGED <<chainVars, known>>
    BY DEF AdoptAccusation, TimedOut, Stuck, Serving, HandTypeOK
  <1>2. /\ sess' \in Sessions /\ sess'.board = sess.board
        /\ sess'.holes = sess.holes /\ sess'.shares = sess.shares
    BY <1>1 DEF Sessions
  <1>3. SessionBehind'
    BY <1>1, <1>2 DEF SessionBehind, chainVars
  <1> QED
    BY <1>1, <1>2, <1>3, SessionStep

\* The card the table is stuck on is a card of the deal.
LEMMA MissingFacts ==
  ASSUME HandAssumption, HandInv, Stuck
  PROVE  Missing \in Cards
  <1>1. sess \in Sessions
    BY DEF Stuck, Serving, HandInv, HandTypeOK
  <1>2. CASE BoardOwed
    <2>1. sess.board + 1 \in 1..BOARD
      BY <1>1, <1>2, DueFacts DEF BoardOwed, Sessions, HandInv, HandTypeOK
    <2> QED
      BY <1>2, <2>1, CardFacts DEF Missing
  <1>3. CASE ~BoardOwed
    <2>1. inHand \ sess.holes # {} /\ inHand \ sess.holes \in SUBSET Players
      BY <1>3 DEF Stuck, AllShown, HandInv, HandTypeOK
    <2>2. Min(inHand \ sess.holes) \in Players
      BY <2>1, MinFacts DEF Players
    <2> QED
      BY <1>3, <2>2, CardFacts DEF Missing
  <1> QED
    BY <1>2, <1>3

\* A new accusation, of whatever the contract allows.
LEMMA AccuseStep ==
  ASSUME HandInv, NEW p \in Players, NEW c \in Cards, Accusable(p, c),
         acc' = [who |-> p, card |-> c], sess' \in Sessions \cup {NoSession},
         SessionBehind',
         UNCHANGED <<street, inHand, paid, vindicated, chBoard, chHoles, ready, known>>
  PROVE  HandInv'
  <1> USE DEF HandInv
  <1>1. acc' \in Accusations /\ acc'.who = p /\ acc'.card = c
    BY DEF Accusations
  <1>2. AccusationStands'
    BY <1>1 DEF AccusationStands, AccusationAllowed, Accusable
  <1>3. HandTypeOK'
    BY <1>1 DEF HandTypeOK
  <1>4. OwnSharesKept' /\ BoardSharesKept' /\ RescuesAreOut' /\ PublishedIsOpen'
    BY DEF OwnSharesKept, BoardSharesKept, RescuesAreOut, PublishedIsOpen
  <1> QED
    BY <1>2, <1>3, <1>4

LEMMA AccuseAbandonStep ==
  ASSUME HandAssumption, HandInv, AccuseAbandon
  PROVE  HandInv'
  <1> USE DEF HandInv
  <1>1. /\ sess \in Sessions /\ Stuck /\ Accusable(Offender, Missing)
        /\ acc' = [who |-> Offender, card |-> Missing]
        /\ sess' = [sess EXCEPT !.accused = acc', !.late = FALSE] \/ sess' = sess
        /\ UNCHANGED <<street, inHand, paid, vindicated, chBoard, chHoles, ready, known>>
    BY DEF AccuseAbandon, TimedOut, Stuck, Serving, HandTypeOK, Receipt
  <1>2. Missing \in Cards /\ Offender \in Players
    BY <1>1, MissingFacts DEF Accusable, HandTypeOK
  <1>3. acc' \in Accusations
    BY <1>1, <1>2 DEF Accusations
  <1>4. /\ sess' \in Sessions /\ sess'.board = sess.board
        /\ sess'.holes = sess.holes /\ sess'.shares = sess.shares
    BY <1>1, <1>3 DEF Sessions
  <1>5. SessionBehind'
    BY <1>1, <1>4 DEF SessionBehind, Stuck, Serving
  <1> HIDE DEF HandInv
  <1> QED
    BY <1>1, <1>2, <1>4, <1>5, AccuseStep

LEMMA CuriousAccuseStep ==
  ASSUME HandInv, NEW p \in Players, NEW c \in Cards, CuriousAccuse(p, c)
  PROVE  HandInv'
  <1>1. /\ Accusable(p, c) /\ acc' = [who |-> p, card |-> c]
        /\ UNCHANGED <<street, inHand, paid, vindicated, chBoard, chHoles, ready,
                       known, sess>>
    BY DEF CuriousAccuse
  <1>2. sess' \in Sessions \cup {NoSession} /\ SessionBehind'
    BY <1>1 DEF HandInv, HandTypeOK, SessionBehind
  <1> QED
    BY <1>1, <1>2, AccuseStep

\* A session that is lost, and one started over from what the chain shows.
LEMMA RestartStep ==
  ASSUME HandAssumption, HandInv, Restart \/ RecoverSession
  PROVE  HandInv'
  <1> USE DEF HandInv
  <1>1. CASE Restart
    <2>1. sess' \in Sessions \cup {NoSession} /\ SessionBehind'
          /\ UNCHANGED <<chainVars, known>>
      BY <1>1 DEF Restart, SessionBehind
    <2> QED
      BY <2>1, SessionStep
  <1>2. CASE RecoverSession
    <2>1. /\ sess' = NewSession(NoShares, chBoard, ready)
          /\ UNCHANGED <<chainVars, known>>
      BY <1>2 DEF RecoverSession
    <2>2. NoShares \in Shares /\ \A c \in Cards : NoShares[c] = {}
      BY DEF NoShares, Shares
    <2>3. /\ sess' \in Sessions /\ sess'.board = chBoard /\ sess'.holes = {}
          /\ sess'.shares = NoShares
      BY <2>1, <2>2 DEF NewSession, Sessions, HandTypeOK
    <2>4. SessionBehind'
      BY <2>1, <2>2, <2>3 DEF SessionBehind, chainVars, HandTypeOK, HandAssumption
    <2> QED
      BY <2>1, <2>3, <2>4, SessionStep
  <1> QED
    BY <1>1, <1>2

LEMMA HandInvStep == HandAssumption /\ HandInv /\ [Next]_vars => HandInv'
  <1> SUFFICES ASSUME HandAssumption, HandInv, [Next]_vars PROVE HandInv'
    OBVIOUS
  <1>1. CASE \E p \in Players : Fold(p) \/ PostShares(p) \/ SelfRescue(p)
    BY <1>1, FoldStep, PostSharesStep, SelfRescueStep
  <1>2. CASE CloseStreet \/ ShareDeadlinePasses \/ WindowLapses
    BY <1>2, CloseStreetStep, ClocksStep
  <1>3. CASE Tick
    <2>1. CASE RevealBoard \/ ResyncBoard \/ RevealHoles \/ MarkReady
      BY <2>1, RevealBoardStep, ResyncBoardStep, RevealHolesStep, MarkReadyStep
    <2>2. CASE IngestRescue \/ AdoptAccusation \/ AccuseAbandon
      BY <2>2, IngestRescueStep, AdoptAccusationStep, AccuseAbandonStep
    <2>3. CASE ResolveShowdown \/ Penalize \/ CancelUnpaid
      BY <2>3, EndHandStep DEF ResolveShowdown, Penalize, CancelUnpaid
    <2> QED
      BY <1>3, <2>1, <2>2, <2>3 DEF Tick
  <1>4. CASE CuriousPenalize \/ CancelNoSession
    BY <1>4, EndHandStep DEF CuriousPenalize, CancelNoSession
  <1>5. CASE \E p \in Players, c \in Cards : CuriousAccuse(p, c)
    BY <1>5, CuriousAccuseStep
  <1>6. CASE Restart \/ RecoverSession
    BY <1>6, RestartStep
  <1>7. CASE UNCHANGED vars
    BY <1>7 DEF vars, HandInv, HandTypeOK, OwnSharesKept, BoardSharesKept,
                AccusationStands, AccusationAllowed, PublishedIsOpen,
                SessionBehind, RescuesAreOut
  <1> QED
    BY <1>1, <1>2, <1>3, <1>4, <1>5, <1>6, <1>7 DEF Next

LEMMA HandInvHolds == Spec => []HandInv
  BY HandAssumption, HandInvInit, HandInvStep, PTL DEF Spec

\* A player who is accused can answer, at any number of players and streets:
\* accusationAllowed (ZkTableDealer.sol) never lets through what selfRescue
\* (zk-agent.js) would refuse, not even after the state has moved on.
THEOREM AccusedCanAnswerHolds == Spec => []AccusedCanAnswer
  <1>1. HandAssumption /\ HandInv => AccusedCanAnswer
    BY AccusedReleases DEF AccusedCanAnswer
  <1> QED
    BY <1>1, HandAssumption, HandInvHolds, PTL

\* No share leaves its client too early: the share a player has of her own
\* cards before a showdown she got to, anyone's share of a board card before
\* its street, however the operator asks (mayRelease and the fold gate).
THEOREM SharesStaySecret == Spec => [](OwnSharesKept /\ BoardSharesKept)
  <1>1. HandInv => OwnSharesKept /\ BoardSharesKept
    BY DEF HandInv
  <1> QED
    BY <1>1, HandInvHolds, PTL

-----------------------------------------------------------------------------
\* Refinement of TrustedDealer

LEMMA TrustedFacts ==
  /\ Trusted!SHOWDOWN = SHOWDOWN
  /\ \A s : Trusted!Due(s) = Due(s)
  /\ Trusted!Boards = {Board(s) : s \in 1..BOARD}
  /\ \A P : {<<"hole", p>> : p \in P} = {Hole(p) : p \in P}
  BY DEF Trusted!SHOWDOWN, SHOWDOWN, Trusted!Due, Due, Trusted!Boards, Board, Hole

\* The clients' shares open cards only when the trusted dealer may.
LEMMA SharesOpen ==
  ASSUME HandAssumption, HandInv, NEW p \in Players, NEW C \in SUBSET Cards,
         known' = Add(known, C, p), \A c \in C : MayRelease(p, c), Live,
         UNCHANGED <<street, inHand, status>>
  PROVE  [Trusted!TrustedNext]_Trusted!trustedVars
  <1>1. known \in Shares
    BY DEF HandInv, HandTypeOK
  <1>2. /\ DOMAIN known = Cards /\ DOMAIN known' = Cards
        /\ \A c \in Cards : known'[c] = IF c \in C THEN known[c] \cup {p} ELSE known[c]
    BY <1>1 DEF Add, Shares
  <1>3. opened \subseteq opened'
    BY <1>1, <1>2 DEF opened, Shares
  <1>4. ASSUME NEW c \in opened' \ opened
        PROVE  Trusted!MayOpen(c)
    <2>1. c \in Cards /\ c \in C /\ known'[c] = Players
      BY <1>2, <1>4 DEF opened
    <2>2. CASE ~IsHole(c)
      <3>1. c \in Trusted!Boards
        BY <2>1, <2>2, CardFacts, TrustedFacts
      <3> QED
        BY <2>1, <2>2, <3>1, TrustedFacts DEF MayRelease, Trusted!MayOpen
    <2>3. CASE IsHole(c)
      <3>1. c[2] \in Players /\ c = Hole(c[2])
        BY <2>1, <2>3, CardFacts
      <3>2. c[2] \in known'[Hole(c[2])]
        BY <2>1, <3>1
      <3>3. OwnSharesKept'
        BY <1>1, SharesOut
      <3>4. street = SHOWDOWN /\ c[2] \in inHand
        BY <3>1, <3>2, <3>3 DEF OwnSharesKept
      <3>5. c \in Trusted!Holes
        BY <3>1 DEF Trusted!Holes, Hole
      <3> QED
        BY <3>4, <3>5, TrustedFacts DEF Trusted!MayOpen
    <2> QED
      BY <2>2, <2>3
  <1>5. CASE opened' = opened
    BY <1>5 DEF Trusted!trustedVars
  <1>6. CASE opened' # opened
    BY <1>3, <1>4, <1>6 DEF Trusted!TrustedNext, Trusted!Open, Live
  <1> QED
    BY <1>5, <1>6

\* When the board is out and every player left has shown, all that decides
\* the hand is open.
LEMMA AllOpen ==
  ASSUME HandAssumption, HandInv, chBoard = BOARD,
         \A p \in inHand : known[Hole(p)] = Players
  PROVE  Trusted!Boards \cup {<<"hole", p>> : p \in inHand} \subseteq opened
  <1>1. known \in Shares /\ inHand \in SUBSET Players
    BY DEF HandInv, HandTypeOK
  <1>2. \A s \in 1..BOARD : Board(s) \in opened
    BY <1>1, CardFacts DEF HandInv, PublishedIsOpen, opened, Shares
  <1>3. \A p \in inHand : Hole(p) \in opened
    BY <1>1, CardFacts DEF HandInv, PublishedIsOpen, opened, Shares
  <1> QED
    BY <1>2, <1>3, TrustedFacts

\* A hand that ends without a showdown or a fold is called off.
LEMMA CallsOff ==
  ASSUME NEW how \in {"cancelled", "penalized"}, EndHand(how), Live
  PROVE  Trusted!TrustedNext
  BY DEF EndHand, Live, Trusted!TrustedNext, Trusted!CallOff, opened

\* The same steps as the coordinator takes them.
LEMMA TickRefines ==
  ASSUME HandAssumption, HandInv, HandInv', Tick
  PROVE  [Trusted!TrustedNext]_Trusted!trustedVars
  <1>1. CASE RevealBoard \/ ResyncBoard \/ MarkReady \/ IngestRescue
             \/ AdoptAccusation \/ AccuseAbandon
    BY <1>1 DEF RevealBoard, ResyncBoard, MarkReady, IngestRescue, AdoptAccusation,
                AccuseAbandon, chainVars, Trusted!trustedVars, opened
  <1>2. CASE RevealHoles
    <2>1. /\ AtShowdown /\ Live /\ Finish(chHoles') /\ sess \in Sessions
          /\ sess # NoSession
          /\ UNCHANGED <<street, inHand, chBoard, known>>
      BY <1>2 DEF RevealHoles, Serving, HandInv, HandTypeOK
    <2>2. CASE UNCHANGED status
      BY <2>1, <2>2 DEF Trusted!trustedVars, opened
    <2>3. CASE ~UNCHANGED status
      <3>1. status' = "settled" /\ inHand' \subseteq chHoles'
        BY <2>1, <2>3 DEF Finish
      <3>2. street = SHOWDOWN /\ chBoard = BOARD
        BY <2>1, DueFacts
           DEF AtShowdown, BoardOwed, HandInv, HandTypeOK, SessionBehind, Sessions
      <3>3. Trusted!Boards \cup {<<"hole", p>> : p \in inHand} \subseteq opened
        <4>1. \A p \in inHand : known[Hole(p)] = Players
          BY <2>1, <3>1 DEF HandInv, PublishedIsOpen
        <4> QED
          BY <3>2, <4>1, AllOpen
      <3> QED
        BY <2>1, <3>1, <3>2, <3>3, TrustedFacts
           DEF Trusted!TrustedNext, Trusted!Showdown, Live, opened
    <2> QED
      BY <2>2, <2>3
  <1>3. CASE ResolveShowdown
    <2>1. Trusted!Boards \cup {<<"hole", p>> : p \in inHand} \subseteq opened
      <3>1. \A p \in inHand : known[Hole(p)] = Players
        BY <1>3 DEF ResolveShowdown, HandInv, PublishedIsOpen
      <3> QED
        BY <1>3, <3>1, AllOpen DEF ResolveShowdown
    <2> QED
      BY <1>3, <2>1, TrustedFacts
         DEF ResolveShowdown, AtShowdown, EndHand, Serving, Live, opened,
             Trusted!TrustedNext, Trusted!Showdown
  <1>4. CASE Penalize \/ CancelUnpaid
    BY <1>4, CallsOff DEF Penalize, CancelUnpaid, TimedOut, Stuck, Serving
  <1> QED
    BY <1>1, <1>2, <1>3, <1>4 DEF Tick

LEMMA NextRefines ==
  ASSUME HandAssumption, HandInv, HandInv', [Next]_vars
  PROVE  [Trusted!TrustedNext]_Trusted!trustedVars
  <1>1. ASSUME NEW p \in Players, Fold(p)
        PROVE  Trusted!TrustedNext
    <2>1. Trusted!Fold(p)
      <3>1. /\ p \in inHand /\ street < Trusted!SHOWDOWN
            /\ inHand' = inHand \ {p} /\ UNCHANGED <<street, opened>>
        BY <1>1, TrustedFacts DEF Fold, opened
      <3>2. status' = IF Cardinality(inHand') = 1 THEN "settled" ELSE status
        BY <1>1 DEF Fold
      <3>3. Trusted!Cardinality(inHand') = Cardinality(inHand')
        BY DEF Trusted!Cardinality, Cardinality
      <3> QED
        BY <3>1, <3>2, <3>3 DEF Trusted!Fold
    <2> QED
      BY <1>1, <2>1 DEF Fold, Live, Trusted!TrustedNext
  <1>2. ASSUME NEW p \in Players, PostShares(p)
        PROVE  [Trusted!TrustedNext]_Trusted!trustedVars
    <2> DEFINE C == {c \in Asked(p) : MayRelease(p, c)}
    <2>1. /\ C \in SUBSET Cards /\ \A c \in C : MayRelease(p, c)
          /\ known' = Add(known, C, p) /\ Live /\ UNCHANGED <<street, inHand, status>>
      BY <1>2 DEF PostShares, Asked, Serving, chainVars
    <2> HIDE DEF C
    <2> QED
      BY <2>1, SharesOpen
  <1>3. ASSUME NEW p \in Players, SelfRescue(p)
        PROVE  [Trusted!TrustedNext]_Trusted!trustedVars
    <2> DEFINE C == {acc.card}
    <2>1. acc # None
      BY <1>3, NoneFacts DEF SelfRescue
    <2>2. /\ C \in SUBSET Cards /\ \A c \in C : MayRelease(p, c)
          /\ known' = Add(known, C, p) /\ Live /\ UNCHANGED <<street, inHand, status>>
      BY <1>3, <2>1, AccusedReleases DEF SelfRescue
    <2> HIDE DEF C
    <2> QED
      BY <2>2, SharesOpen
  <1>4. CASE CloseStreet
    BY <1>4, TrustedFacts
       DEF CloseStreet, Live, opened, Trusted!TrustedNext, Trusted!Advance
  <1>5. CASE ShareDeadlinePasses \/ WindowLapses \/ Restart \/ RecoverSession
             \/ \E p \in Players, c \in Cards : CuriousAccuse(p, c)
    BY <1>5 DEF ShareDeadlinePasses, WindowLapses, Restart, RecoverSession, CuriousAccuse,
                chainVars, Trusted!trustedVars, opened
  <1>6. CASE CuriousPenalize \/ CancelNoSession
    BY <1>6, CallsOff DEF CuriousPenalize, CancelNoSession
  <1>7. CASE UNCHANGED vars
    BY <1>7 DEF vars, Trusted!trustedVars, opened
  <1> QED
    BY <1>1, <1>2, <1>3, <1>4, <1>5, <1>6, <1>7, TickRefines DEF Next

LEMMA InitRefines == HandAssumption /\ Init => Trusted!TrustedInit
  <1> SUFFICES ASSUME HandAssumption, Init PROVE Trusted!TrustedInit
    OBVIOUS
  <1>1. \A c \in Cards : PreCollected[c] # Players
    <2> TAKE c \in Cards
    <2>1. CASE IsHole(c)
      BY <2>1, CardFacts DEF PreCollected
    <2>2. CASE ~IsHole(c)
      BY <2>2 DEF PreCollected, Players, HandAssumption
    <2> QED
      BY <2>1, <2>2
  <1>2. DOMAIN PreCollected = Cards
    BY DEF PreCollected
  <1>3. opened = {}
    BY <1>1, <1>2 DEF Init, opened
  <1> QED
    BY <1>3 DEF Init, Trusted!TrustedInit

\* The card protocol is a trusted dealer: whatever a curious coordinator asks
\* for, whomever it accuses and whenever it restarts, the cards come open and
\* the pot is paid as TrustedDealer would do it, for any number of players,
\* streets and faults.
THEOREM DealerIsTrusted == Spec => DealtAsIfTrusted
  <1>1. Init => Trusted!TrustedInit
    BY HandAssumption, InitRefines
  <1>2. HandInv /\ HandInv' /\ [Next]_vars => [Trusted!TrustedNext]_Trusted!trustedVars
    BY HandAssumption, NextRefines
  <1> QED
    BY <1>1, <1>2, HandInvHolds, PTL DEF Spec, DealtAsIfTrusted, Trusted!TrustedSpec
=============================================================================
