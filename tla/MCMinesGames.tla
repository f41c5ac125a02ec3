---------------------------- MODULE MCMinesGames ----------------------------
(***************************************************************************)
(* Small instances of MinesGames: a board of three cells, games that can   *)
(* be lost, cashed out after one or two safe picks, timed out and expired, *)
(* and a second module the owner may register in place of the first.       *)
(***************************************************************************)
EXTENDS MinesGames, TLC

CONSTANTS p1, p2, game, mod, mod2

MCGameOf == [m \in Modules |-> game]
NoCap == [g \in Games |-> 0]
MCWideRisk == {[maxBetBps |-> BPS, maxExposureBps |-> BPS, gameMaxBet |-> NoCap]}

Symmetry == Permutations(Players)
=============================================================================
