--------------------------- MODULE TrustedDealer ---------------------------
(***************************************************************************)
(* What the card protocol of a poker hand has to look like from outside:   *)
(* a dealer nobody has to trust, because it can do no more than this.  It  *)
(* turns a board card once the betting on the street before is closed, it  *)
(* shows a player's own cards at the showdown if that player is still in,  *)
(* and it pays the pot when one player is left or when everything that     *)
(* decides the hand lies open.  A hand it cannot finish is called off.     *)
(***************************************************************************)
EXTENDS Naturals, FiniteSets

CONSTANTS
  Players,      \* the seats the hand was dealt to
  BOARD         \* streets that turn board cards; the showdown comes after

VARIABLES street, inHand, opened, status

trustedVars == <<street, inHand, opened, status>>

SHOWDOWN == BOARD + 1
Boards == {<<"board", s>> : s \in 1..BOARD}
Holes == {<<"hole", p>> : p \in Players}
Cards == Boards \cup Holes

\* The last board card whose street has come, on street s.
Due(s) == IF s > BOARD THEN BOARD ELSE s

\* Card c may be turned by now.
MayOpen(c) ==
  \/ c \in Boards /\ c[2] <= Due(street)
  \/ c \in Holes /\ street = SHOWDOWN /\ c[2] \in inHand

TrustedInit ==
  /\ street = 0
  /\ inHand = Players
  /\ opened = {}
  /\ status = "live"

Fold(p) ==
  /\ p \in inHand /\ street < SHOWDOWN
  /\ inHand' = inHand \ {p}
  /\ status' = IF Cardinality(inHand') = 1 THEN "settled" ELSE status
  /\ UNCHANGED <<street, opened>>

\* The betting of the street is over, or of the whole hand.
Advance ==
  /\ street < SHOWDOWN
  /\ street' \in {street + 1, SHOWDOWN}
  /\ UNCHANGED <<inHand, opened, status>>

Open ==
  /\ opened' # opened /\ opened \subseteq opened'
  /\ \A c \in opened' \ opened : MayOpen(c)
  /\ UNCHANGED <<street, inHand, status>>

Showdown ==
  /\ street = SHOWDOWN
  /\ Boards \cup {<<"hole", p>> : p \in inHand} \subseteq opened
  /\ status' = "settled"
  /\ UNCHANGED <<street, inHand, opened>>

CallOff ==
  /\ status' \in {"cancelled", "penalized"}
  /\ UNCHANGED <<street, inHand, opened>>

TrustedNext ==
  /\ status = "live"
  /\ \/ \E p \in Players : Fold(p)
     \/ Advance \/ Open \/ Showdown \/ CallOff

TrustedSpec == TrustedInit /\ [][TrustedNext]_trustedVars
=============================================================================
