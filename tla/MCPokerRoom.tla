----------------------------- MODULE MCPokerRoom -----------------------------
(***************************************************************************)
(* Small instances of PokerRoom: a cash table with rake, and a tournament  *)
(* table with antes, dead blinds and two levels.                           *)
(***************************************************************************)
EXTENDS PokerRoom, TLC

CONSTANTS p1, p2, p3

\* Rake is at most a tenth, so a pot needs ten chips to pay any.
CashTable ==
    [smallBlind |-> 2, bigBlind |-> 4, ante |-> 0, minBuyIn |-> 5, maxBuyIn |-> 10,
     rakeBps |-> 1000, rakeCap |-> 1, active |-> TRUE, controlled |-> FALSE]

TournamentTable ==
    [smallBlind |-> 5, bigBlind |-> 5, ante |-> 5, minBuyIn |-> 0, maxBuyIn |-> 0,
     rakeBps |-> 0, rakeCap |-> 0, active |-> TRUE, controlled |-> TRUE]

\* The owner may close the cash table; a level is the blinds of another one.
MCTables == {CashTable, [CashTable EXCEPT !.active = FALSE], TournamentTable}
MCMaxHeld == [controlled \in BOOLEAN |-> IF controlled THEN 15 ELSE 25]

Symmetry == Permutations(Players)
=============================================================================
