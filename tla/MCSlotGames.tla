---------------------------- MODULE MCSlotGames -----------------------------
(***************************************************************************)
(* Small instances of SlotGames: one cluster slot, or a cluster slot and a *)
(* line slot sharing the loyalty counter and a second cluster slot the     *)
(* owner may register in place of the first; every paid spin, or every     *)
(* second one, earns a free one.                                           *)
(***************************************************************************)
EXTENDS SlotGames, TLC

CONSTANTS p1, p2, sugar, vault7, mSugar, mSugar2, mVault7

MCGameOf == [m \in Modules |-> IF m = mVault7 THEN vault7 ELSE sugar]
NoCap == [g \in Games |-> 0]
MCWideRisk == {[maxBetBps |-> BPS, maxExposureBps |-> BPS, gameMaxBet |-> NoCap]}

Symmetry == Permutations(Players)
=============================================================================
