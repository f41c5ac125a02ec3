--------------------------- MODULE MCCasinoVault ---------------------------
(***************************************************************************)
(* Small instances of CasinoVault for TLC: two players, one single-shot    *)
(* game and one game entered at its module.  The block window is two       *)
(* blocks instead of 256.                                                  *)
(***************************************************************************)
EXTENDS CasinoVault, TLC

CONSTANTS p1, p2, dice, crash, mDice, mDice2, mCrash, mCrash2

MCGameOf == [m \in Modules |-> IF m \in {mDice, mDice2} THEN dice ELSE crash]

NoStakeCap == [g \in Games |-> 0]
StakeCap1  == [g \in Games |-> 1]

\* All of the pool may be staked and won.
MCWideRisk == {[maxBetBps |-> BPS, maxExposureBps |-> BPS, gameMaxBet |-> NoStakeCap]}

\* Half of the pool at stake, all of it as exposure; or stakes of one only.
MCRiskPolicies ==
    {[maxBetBps |-> BPS \div 2, maxExposureBps |-> BPS, gameMaxBet |-> NoStakeCap],
     [maxBetBps |-> BPS, maxExposureBps |-> BPS, gameMaxBet |-> StakeCap1]}

Symmetry == Permutations(Players) \cup Permutations(EntryModules)
=============================================================================
