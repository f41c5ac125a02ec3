---------------------------- MODULE MCRoundGames ----------------------------
(***************************************************************************)
(* Small instances of RoundGames: one module, crash or roulette, a second   *)
(* one the owner may register in its place, two players; rounds that can   *)
(* be in their window, settleable, timed out and expired.                  *)
(***************************************************************************)
EXTENDS RoundGames, TLC

CONSTANTS p1, p2, game, mod, mod2

MCGameOf == [m \in Modules |-> game]
MCWheels == SUBSET {mod}
NoCap == [g \in Games |-> 0]
MCWideRisk == {[maxBetBps |-> BPS, maxExposureBps |-> BPS, gameMaxBet |-> NoCap]}

OnRed    == [kind |-> "RED", number |-> 0, amount |-> 1]
OnZero   == [kind |-> "STRAIGHT", number |-> 0, amount |-> 1]
OnDozen3 == [kind |-> "DOZEN_3", number |-> 0, amount |-> 1]

\* One bet that covers half the wheel, and a pair that can win together.
MCSlips == {<<OnRed>>, <<OnRed, OnDozen3>>}

Symmetry == Permutations(Players)
=============================================================================
