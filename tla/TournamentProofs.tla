-------------------------- MODULE TournamentProofs --------------------------
(***************************************************************************)
(* Theorems about the tournament and the bot that drives it, for every     *)
(* number of players and seats, every buy-in, fee, sponsorship and split,  *)
(* and every blind schedule: what the contract holds covers what it owes,  *)
(* and the chips and seats of the field are all accounted for.             *)
(*                                                                         *)
(* Nothing is assumed of the call that waits to be mined: the proofs hold  *)
(* whatever the bot decided on, for the contract checks it again.          *)
(***************************************************************************)
EXTENDS TournamentDriver, SumTheorems

-----------------------------------------------------------------------------
\* Division

LEMMA Quotient ==
    ASSUME NEW a \in Nat, NEW b \in Nat \ {0}
    PROVE  /\ a \div b \in Nat /\ a % b \in 0..(b - 1)
           /\ a = b * (a \div b) + (a % b)
  OBVIOUS

-----------------------------------------------------------------------------
\* The split of the pool

\* What the creator keeps is no more than the pool.
LEMMA HostCutShare ==
    ASSUME pool \in Nat
    PROVE  HostCut \in Nat /\ HostCut <= pool
  <1>1. HOST_BPS \in 0..1000 /\ BPS = 10000
    BY TournamentAssumption DEF BPS
  <1> DEFINE a == pool * HOST_BPS
  <1>2. a \in Nat /\ a <= pool * 10000
    BY <1>1
  <1> HIDE DEF a
  <1>3. a \div 10000 \in Nat /\ a \div 10000 <= pool
    BY <1>2
  <1> QED
    BY <1>1, <1>3 DEF HostCut, a

LEMMA PlacesFinite ==
    /\ DOMAIN PAYOUT_BPS = 1..Len(PAYOUT_BPS) /\ Len(PAYOUT_BPS) \in Nat
    /\ IsFiniteSet(DOMAIN PAYOUT_BPS)
    /\ \A i \in DOMAIN PAYOUT_BPS : PAYOUT_BPS[i] \in Nat
  <1>1. PAYOUT_BPS \in Seq(Nat)
    BY TournamentAssumption
  <1>2. DOMAIN PAYOUT_BPS = 1..Len(PAYOUT_BPS) /\ Len(PAYOUT_BPS) \in Nat
        /\ \A i \in DOMAIN PAYOUT_BPS : PAYOUT_BPS[i] \in Nat
    BY <1>1
  <1> QED
    BY <1>2, FS_Interval

\* A prize rounds the share of its place down.
LEMMA PrizeShare ==
    ASSUME pool \in Nat, NEW i
    PROVE  /\ Prize(i) \in Nat
           /\ i \in DOMAIN PAYOUT_BPS => BPS * Prize(i) <= (pool - HostCut) * PAYOUT_BPS[i]
           /\ i \notin DOMAIN PAYOUT_BPS => Prize(i) = 0
  <1>1. pool - HostCut \in Nat
    BY HostCutShare
  <1>2. CASE i \in DOMAIN PAYOUT_BPS
    <2> DEFINE a == (pool - HostCut) * PAYOUT_BPS[i]
    <2>1. a \in Nat
      BY <1>1, <1>2, PlacesFinite
    <2>2. Prize(i) = a \div 10000 /\ BPS = 10000
      BY <1>2 DEF Prize, BPS
    <2> HIDE DEF a
    <2>3. a \div 10000 \in Nat /\ 10000 * (a \div 10000) <= a
      BY <2>1
    <2> QED
      BY <1>2, <2>2, <2>3 DEF a
  <1>3. CASE i \notin DOMAIN PAYOUT_BPS
    BY <1>3 DEF Prize
  <1> QED
    BY <1>2, <1>3

\* The places up to any one and the creator's cut are paid out of the pool.
LEMMA PrizesWithinPool ==
    ASSUME pool \in Nat, NEW n \in Nat
    PROVE  SumFunction([i \in 1..n |-> Prize(i)]) + HostCut <= pool
  <1> DEFINE D == DOMAIN PAYOUT_BPS
             U == D \cup 1..n
             P == pool - HostCut
             prize == [i \in U |-> Prize(i)]
             paid == [i \in U |-> IF i \in 1..n THEN Prize(i) ELSE 0]
             scaled == [i \in D |-> BPS * prize[i]]
             shares == [i \in D |-> P * PAYOUT_BPS[i]]
             first == [i \in 1..n |-> Prize(i)]
  <1>1. P \in Nat /\ HostCut \in Nat /\ P + HostCut = pool /\ BPS = 10000
    BY HostCutShare DEF BPS
  <1>2. IsFiniteSet(D) /\ IsFiniteSet(1..n) /\ IsFiniteSet(U)
    <2>1. IsFiniteSet(D)
      BY PlacesFinite
    <2>2. IsFiniteSet(1..n)
      BY FS_Interval
    <2> HIDE DEF D
    <2> QED
      BY <2>1, <2>2, FS_Union
  <1>3. \A i \in U : prize[i] \in Nat /\ paid[i] \in Nat /\ paid[i] <= prize[i]
    BY PrizeShare
  <1>4. \A i \in 1..n : paid[i] = first[i]
    OBVIOUS
  <1>5. \A i \in U \ (1..n) : paid[i] = 0
    OBVIOUS
  <1>6. \A i \in U \ D : prize[i] = 0
    BY PrizeShare
  <1>7. \A i \in D : /\ scaled[i] \in Int /\ shares[i] \in Int
                     /\ scaled[i] <= shares[i]
    BY <1>1, PrizeShare, PlacesFinite
  <1>8. ScaledBy(prize, scaled, D, BPS) /\ ScaledBy(PAYOUT_BPS, shares, D, P)
    <2>0. \A i \in D : i \in U
      OBVIOUS
    <2>1. \A i \in D : prize[i] \in Int /\ PAYOUT_BPS[i] \in Int
      <3>1. \A i \in D : PAYOUT_BPS[i] \in Nat
        BY PlacesFinite
      <3> HIDE DEF D, U, prize
      <3> QED
        BY <1>3, <2>0, <3>1
    <2>2. (\A i \in D : scaled[i] = BPS * prize[i]) /\ \A i \in D : shares[i] = P * PAYOUT_BPS[i]
      OBVIOUS
    <2> HIDE DEF D, P, prize, scaled, shares
    <2> QED
      BY ONLY <2>1, <2>2 DEF ScaledBy
  <1>9. 1..n \in SUBSET U /\ D \in SUBSET U
    OBVIOUS
  <1>10. SumFunction(first) = SumFunctionOnSet(first, 1..n)
         /\ SumFunctionOnSet(PAYOUT_BPS, D) = BPS
    BY TournamentAssumption DEF SumFunction
  <1> HIDE DEF D, U, P, prize, paid, scaled, shares, first
  <1>11. SumFunctionOnSet(first, 1..n) = SumFunctionOnSet(paid, 1..n)
    BY ONLY <1>2, <1>4, SumSame
  <1>12. SumFunctionOnSet(paid, U) = SumFunctionOnSet(paid, 1..n)
    <2>1. \A i \in U : paid[i] \in Int
      BY <1>3
    <2> QED
      BY ONLY <1>2, <1>5, <1>9, <2>1, SumZeros
  <1>13. SumFunctionOnSet(paid, U) <= SumFunctionOnSet(prize, U)
    <2>1. \A i \in U : paid[i] \in Int /\ prize[i] \in Int /\ paid[i] <= prize[i]
      BY <1>3
    <2> QED
      BY ONLY <1>2, <2>1, SumLess
  <1>14. SumFunctionOnSet(prize, U) = SumFunctionOnSet(prize, D)
    <2>1. \A i \in U : prize[i] \in Int
      BY <1>3
    <2> QED
      BY ONLY <1>2, <1>6, <1>9, <2>1, SumZeros
  <1>15. SumFunctionOnSet(scaled, D) = BPS * SumFunctionOnSet(prize, D)
    <2>1. BPS \in Int
      BY <1>1
    <2> QED
      BY ONLY <1>2, <1>8, <2>1, SumScaled
  <1>16. SumFunctionOnSet(shares, D) = P * BPS
    <2>1. P \in Int
      BY <1>1
    <2>2. SumFunctionOnSet(shares, D) = P * SumFunctionOnSet(PAYOUT_BPS, D)
      BY ONLY <1>2, <1>8, <2>1, SumScaled
    <2> QED
      BY <1>10, <2>2
  <1>17. SumFunctionOnSet(scaled, D) <= SumFunctionOnSet(shares, D)
    BY ONLY <1>2, <1>7, SumLess
  <1>18. SumFunctionOnSet(prize, D) \in Int /\ SumFunctionOnSet(prize, U) \in Int
         /\ SumFunctionOnSet(paid, U) \in Int
    <2>1. \A i \in U : prize[i] \in Int /\ paid[i] \in Int
      BY <1>3
    <2>2. \A i \in D : prize[i] \in Int
      BY <1>9, <2>1
    <2> QED
      BY <1>2, <2>1, <2>2, SumIn
  <1>19. SumFunctionOnSet(prize, D) <= P
    <2>1. 10000 * SumFunctionOnSet(prize, D) <= P * 10000
      BY <1>1, <1>15, <1>16, <1>17
    <2> QED
      BY <1>1, <1>18, <2>1
  <1>20. SumFunctionOnSet(first, 1..n) <= P
    BY <1>1, <1>11, <1>12, <1>13, <1>14, <1>18, <1>19
  <1>21. SumFunctionOnSet(first, 1..n) \in Int
    BY <1>11, <1>12, <1>18
  <1>22. SumFunction(first) + HostCut <= pool
    BY <1>1, <1>10, <1>20, <1>21
  <1> QED
    BY <1>22 DEF first

\* The last place still open is one of those to be paid.
LEMMA PrizesFromLast ==
    ASSUME pool \in Nat, NEW n \in Nat
    PROVE  /\ SumFunction([i \in 1..n |-> Prize(i)]) \in Nat
           /\ SumFunction([i \in 1..(n + 1) |-> Prize(i)])
                = SumFunction([i \in 1..n |-> Prize(i)]) + Prize(n + 1)
  <1> DEFINE f == [i \in 1..n |-> Prize(i)]
             g == [i \in 1..(n + 1) |-> Prize(i)]
  <1>1. (\A i \in 1..n : f[i] \in Nat) /\ \A i \in 1..(n + 1) : g[i] \in Int
    BY PrizeShare
  <1>2. (\A i \in 1..n : g[i] = f[i]) /\ g[n + 1] = Prize(n + 1)
    OBVIOUS
  <1>3. SumFunction(f) = SumFunctionOnSet(f, 1..n)
        /\ SumFunction(g) = SumFunctionOnSet(g, 1..(n + 1))
    BY DEF SumFunction
  <1> HIDE DEF f, g
  <1>4. SumFunctionOnSet(g, 1..(n + 1)) = SumFunctionOnSet(f, 1..n) + g[n + 1]
    <2>1. \A i \in 1..(n + 1) : g[i] \in Int
      BY <1>1
    <2>2. \A i \in 1..n : g[i] = f[i]
      BY <1>2
    <2>3. n \in Nat
      OBVIOUS
    <2> QED
      BY ONLY <2>1, <2>2, <2>3, SumGrows
  <1>5. SumFunctionOnSet(f, 1..n) \in Nat
    <2>1. IsFiniteSet(1..n)
      BY FS_Interval
    <2>2. \A i \in 1..n : f[i] \in Nat
      BY <1>1
    <2> QED
      BY ONLY <2>1, <2>2, SumIn
  <1>6. SumFunction(f) \in Nat /\ SumFunction(g) = SumFunction(f) + Prize(n + 1)
    BY <1>2, <1>3, <1>4, <1>5
  <1> QED
    BY <1>6 DEF f, g

-----------------------------------------------------------------------------
\* The money of an event

\* While the fees stay where they are, the pool, the fees and the balance of an
\* event that takes entries are those of its entries and its sponsorship.
BookedEntries ==
    /\ pool = SPONSORED - SPONSORED \div 10 + BUY_IN * entrants
    /\ feeCollected = FEE * entrants + SPONSORED \div 10
    /\ balance = (BUY_IN + FEE) * entrants + SPONSORED

MoneyShape ==
    /\ entrants \in Nat /\ remaining \in Nat
    /\ pool \in Int /\ feeCollected \in Int /\ balance \in Int /\ feesOut \in Nat

MoneyInv ==
    /\ MoneyShape
    /\ Running => remaining >= 2
    /\ feesOut = 0 /\ status = "registering" => BookedEntries
    /\ feesOut = 0 /\ Running => pool \in Nat
    /\ UntakenFeesBack

\* One entry more.
LEMMA PerEntry ==
    ASSUME NEW k \in Nat, NEW n \in Nat
    PROVE  k * n \in Nat /\ k * (n + 1) = k * n + k
  OBVIOUS

LEMMA EntryConstants ==
    /\ BUY_IN \in Nat /\ FEE \in Nat /\ SPONSORED \in Nat /\ BUY_IN + FEE \in Nat
    /\ SPONSORED \div 10 \in Nat /\ SPONSORED \div 10 <= SPONSORED
  BY TournamentAssumption

\* The books of n entries, with the products of the constants named.
EntryBooks(n, b, f, e) ==
    /\ b = BUY_IN * n /\ f = FEE * n /\ e = (BUY_IN + FEE) * n
    /\ b \in Nat /\ f \in Nat /\ e \in Nat /\ e = b + f

LEMMA EntryBook ==
    ASSUME NEW n \in Nat
    PROVE  EntryBooks(n, BUY_IN * n, FEE * n, (BUY_IN + FEE) * n)
  BY EntryConstants DEF EntryBooks

LEMMA OneMoreEntry ==
    ASSUME NEW n \in Nat
    PROVE  /\ BUY_IN * (n + 1) = BUY_IN * n + BUY_IN
           /\ FEE * (n + 1) = FEE * n + FEE
           /\ (BUY_IN + FEE) * (n + 1) = (BUY_IN + FEE) * n + BUY_IN + FEE
  <1>1. BUY_IN \in Nat /\ FEE \in Nat /\ BUY_IN + FEE \in Nat
    BY EntryConstants
  <1>2. \A k \in Nat : k * (n + 1) = k * n + k
    BY PerEntry
  <1>3. (BUY_IN + FEE) * n \in Nat
    BY <1>1, PerEntry
  <1> QED
    BY <1>1, <1>2, <1>3

LEMMA RegisterKeepsMoney ==
    ASSUME MoneyInv, Register PROVE MoneyInv'
  <1> DEFINE b == BUY_IN * entrants
             f == FEE * entrants
             e == (BUY_IN + FEE) * entrants
             b1 == BUY_IN * (entrants + 1)
             f1 == FEE * (entrants + 1)
             e1 == (BUY_IN + FEE) * (entrants + 1)
  <1>0. MoneyShape
    BY DEF MoneyInv
  <1>1. /\ b \in Nat /\ f \in Nat /\ e \in Nat
        /\ b1 = b + BUY_IN /\ f1 = f + FEE /\ e1 = e + BUY_IN + FEE
    BY <1>0, EntryBook, OneMoreEntry DEF EntryBooks, MoneyShape
  <1>2. /\ status = "registering" /\ status' = status /\ entrants' = entrants + 1
        /\ pool' = pool + BUY_IN /\ feeCollected' = feeCollected + FEE
        /\ balance' = balance + BUY_IN + FEE /\ feesOut' = feesOut /\ remaining' = remaining
    BY DEF Register
  <1>3. BookedEntries <=> /\ pool = SPONSORED - SPONSORED \div 10 + b
                          /\ feeCollected = f + SPONSORED \div 10
                          /\ balance = e + SPONSORED
    BY DEF BookedEntries
  <1>4. BookedEntries' <=> /\ pool' = SPONSORED - SPONSORED \div 10 + b1
                           /\ feeCollected' = f1 + SPONSORED \div 10
                           /\ balance' = e1 + SPONSORED
    BY <1>2 DEF BookedEntries
  <1>5. Owed' = e1 + SPONSORED
    BY <1>2 DEF Owed, RefundAll
  <1> HIDE DEF b, f, e, b1, f1, e1
  <1>6. MoneyShape'
    BY <1>0, <1>2, EntryConstants DEF MoneyShape
  <1>7. feesOut' = 0 => BookedEntries'
    BY <1>0, <1>1, <1>2, <1>3, <1>4, EntryConstants DEF MoneyInv, MoneyShape
  <1>8. UntakenFeesBack'
    BY <1>4, <1>5, <1>6, <1>7 DEF UntakenFeesBack, Backed, MoneyShape
  <1> QED
    BY <1>2, <1>6, <1>7, <1>8 DEF MoneyInv, Running

LEMMA UnregisterKeepsMoney ==
    ASSUME MoneyInv, Unregister PROVE MoneyInv'
  <1> DEFINE n == entrants - 1
             b == BUY_IN * entrants
             f == FEE * entrants
             e == (BUY_IN + FEE) * entrants
             b1 == BUY_IN * n
             f1 == FEE * n
             e1 == (BUY_IN + FEE) * n
  <1>0. MoneyShape
    BY DEF MoneyInv
  <1>2. /\ status = "registering" /\ status' = status /\ entrants > 0 /\ entrants' = n
        /\ pool' = pool - BUY_IN
        /\ feeCollected' = (IF feeCollected >= FEE THEN feeCollected - FEE ELSE feeCollected)
        /\ balance' = balance - BUY_IN - FEE /\ feesOut' = feesOut /\ remaining' = remaining
    BY DEF Unregister
  <1>1. /\ n \in Nat /\ entrants = n + 1
    BY <1>0, <1>2 DEF MoneyShape
  <1> HIDE DEF n
  <1>3. /\ b1 \in Nat /\ f1 \in Nat /\ e1 \in Nat
        /\ b = b1 + BUY_IN /\ f = f1 + FEE /\ e = e1 + BUY_IN + FEE
    BY <1>1, EntryBook, OneMoreEntry DEF EntryBooks
  <1>4. BookedEntries <=> /\ pool = SPONSORED - SPONSORED \div 10 + b
                          /\ feeCollected = f + SPONSORED \div 10
                          /\ balance = e + SPONSORED
    BY DEF BookedEntries
  <1>5. BookedEntries' <=> /\ pool' = SPONSORED - SPONSORED \div 10 + b1
                           /\ feeCollected' = f1 + SPONSORED \div 10
                           /\ balance' = e1 + SPONSORED
    BY <1>2 DEF BookedEntries
  <1>6. Owed' = e1 + SPONSORED
    BY <1>2 DEF Owed, RefundAll
  <1> HIDE DEF b, f, e, b1, f1, e1
  <1>7. MoneyShape'
    BY <1>0, <1>1, <1>2, EntryConstants DEF MoneyShape
  <1>8. feesOut' = 0 => BookedEntries'
    BY <1>0, <1>2, <1>3, <1>4, <1>5, EntryConstants DEF MoneyInv, MoneyShape
  <1>9. UntakenFeesBack'
    BY <1>5, <1>6, <1>7, <1>8 DEF UntakenFeesBack, Backed, MoneyShape
  <1> QED
    BY <1>2, <1>7, <1>8, <1>9 DEF MoneyInv, Running

LEMMA CancelKeepsMoney ==
    ASSUME MoneyInv, Cancel PROVE MoneyInv'
  <1> DEFINE b == BUY_IN * entrants
             f == FEE * entrants
             e == (BUY_IN + FEE) * entrants
             fees == f + SPONSORED \div 10
  <1>0. MoneyShape
    BY DEF MoneyInv
  <1>1. b \in Nat /\ f \in Nat /\ e \in Nat
    BY <1>0, EntryBook DEF EntryBooks, MoneyShape
  <1>2. /\ status = "registering" /\ status' = "cancelled" /\ pool' = 0
        /\ balance >= e + SPONSORED /\ balance' = balance - (e + SPONSORED)
        /\ feeCollected' = (IF feeCollected >= fees THEN feeCollected - fees ELSE 0)
        /\ entrants' = entrants /\ feesOut' = feesOut /\ remaining' = remaining
    BY DEF Cancel, RefundAll
  <1>3. BookedEntries => feeCollected = fees /\ balance = e + SPONSORED
    BY DEF BookedEntries
  <1>4. Owed' = feeCollected'
    BY <1>2 DEF Owed
  <1> HIDE DEF b, f, e
  <1>5. MoneyShape'
    BY <1>0, <1>1, <1>2, EntryConstants DEF MoneyShape
  <1>6. feesOut' = 0 => feeCollected' = 0 /\ balance' = 0
    BY <1>0, <1>1, <1>2, <1>3, EntryConstants DEF MoneyInv, MoneyShape
  <1> QED
    BY <1>2, <1>4, <1>5, <1>6 DEF MoneyInv, Running, UntakenFeesBack, Backed

LEMMA WithdrawFeesKeepsMoney ==
    ASSUME MoneyInv, WithdrawFees PROVE MoneyInv'
  <1>1. MoneyShape' /\ feesOut' # 0
    BY DEF MoneyInv, MoneyShape, WithdrawFees, eventVars
  <1> QED
    BY <1>1 DEF MoneyInv, Running, UntakenFeesBack, WithdrawFees, eventVars

LEMMA StartKeepsMoney ==
    ASSUME MoneyInv, Start PROVE MoneyInv'
  <1> DEFINE prizes == SumFunction([i \in 1..entrants |-> Prize(i)])
             b == BUY_IN * entrants
             f == FEE * entrants
             e == (BUY_IN + FEE) * entrants
  <1>0. MoneyShape
    BY DEF MoneyInv
  <1>1. /\ status = "registering" /\ status' = "running" /\ remaining' = entrants
        /\ entrants >= 2 /\ entrants' = entrants /\ UNCHANGED moneyVars
    BY DEF Start, CanStart
  <1>2. b \in Nat /\ f \in Nat /\ e \in Nat /\ e = b + f
    BY <1>0, EntryBook DEF EntryBooks, MoneyShape
  <1>3. BookedEntries => /\ pool = SPONSORED - SPONSORED \div 10 + b
                         /\ feeCollected = f + SPONSORED \div 10
                         /\ balance = e + SPONSORED
    BY DEF BookedEntries
  <1>4. Owed' = prizes + HostCut + feeCollected
    BY <1>1 DEF Owed, Prize, HostCut, moneyVars
  <1> HIDE DEF b, f, e, prizes
  <1>5. feesOut = 0 => pool \in Nat /\ balance = pool + feeCollected
    BY <1>0, <1>1, <1>2, <1>3, EntryConstants DEF MoneyInv, MoneyShape
  <1>6. pool \in Nat => prizes + HostCut <= pool /\ HostCut \in Nat /\ prizes \in Nat
    <2> SUFFICES ASSUME pool \in Nat
                 PROVE  prizes + HostCut <= pool /\ HostCut \in Nat /\ prizes \in Nat
      OBVIOUS
    <2>1. entrants \in Nat
      BY <1>0 DEF MoneyShape
    <2> QED
      BY <2>1, PrizesWithinPool, PrizesFromLast, HostCutShare DEF prizes
  <1>7. MoneyShape'
    BY <1>0, <1>1 DEF MoneyShape, moneyVars
  <1>8. UntakenFeesBack'
    BY <1>0, <1>1, <1>4, <1>5, <1>6 DEF UntakenFeesBack, Backed, MoneyShape, moneyVars
  <1> QED
    BY <1>1, <1>5, <1>7, <1>8 DEF MoneyInv, Running, moneyVars

\* Standing up pays the place, and with the second place the first and the
\* creator: what was owed before.
LEMMA EliminateKeepsMoney ==
    ASSUME MoneyInv, Running, NEW t, NEW s, Eliminate(t, s) PROVE MoneyInv'
  <1> DEFINE prizes(n) == SumFunction([i \in 1..n |-> Prize(i)])
             last == remaining = 2
  <1>0. MoneyShape /\ remaining >= 2
    BY DEF MoneyInv
  <1>1. /\ remaining' = remaining - 1
        /\ status' = IF last THEN "finished" ELSE status
        /\ balance' = balance - Prize(remaining) - IF last THEN Prize(1) + HostCut ELSE 0
        /\ entrants' = entrants /\ pool' = pool /\ feeCollected' = feeCollected
        /\ feesOut' = feesOut
    BY DEF Eliminate, Place
  <1>2. Owed = prizes(remaining) + HostCut + feeCollected
    BY DEF Owed, Running
  <1>3. Owed' = IF last THEN feeCollected ELSE prizes(remaining - 1) + HostCut + feeCollected
    BY <1>1 DEF Owed, Running, Prize, HostCut
  <1>4. HostCut \in Int /\ \A i \in Nat : Prize(i) \in Int
    <2>1. pool \in Int /\ HOST_BPS \in Int /\ BPS = 10000
      BY <1>0, TournamentAssumption DEF MoneyShape, BPS
    <2>2. HostCut \in Int
      BY <2>1 DEF HostCut
    <2>3. ASSUME NEW i \in Nat PROVE Prize(i) \in Int
      <3> DEFINE a == (pool - HostCut) * PAYOUT_BPS[i]
      <3>1. CASE i \in DOMAIN PAYOUT_BPS
        <4>1. a \in Int
          BY <2>1, <2>2, <3>1, PlacesFinite
        <4>2. Prize(i) = a \div 10000
          BY <2>1, <3>1 DEF Prize
        <4> HIDE DEF a
        <4> QED
          BY <4>1, <4>2
      <3>2. CASE i \notin DOMAIN PAYOUT_BPS
        BY <3>2 DEF Prize
      <3> QED
        BY <3>1, <3>2
    <2> QED
      BY <2>2, <2>3
  <1>5. MoneyShape'
    BY <1>0, <1>1, <1>4 DEF MoneyShape
  <1>6. pool \in Nat => /\ prizes(remaining) = prizes(remaining - 1) + Prize(remaining)
                        /\ prizes(remaining - 1) \in Nat
                        /\ last => prizes(1) = Prize(1)
    <2> SUFFICES ASSUME pool \in Nat
                 PROVE  /\ prizes(remaining) = prizes(remaining - 1) + Prize(remaining)
                        /\ prizes(remaining - 1) \in Nat
                        /\ last => prizes(1) = Prize(1)
      OBVIOUS
    <2> DEFINE m == remaining - 1
    <2>1. m \in Nat /\ remaining = m + 1
      BY <1>0 DEF MoneyShape
    <2> HIDE DEF m
    <2>2. prizes(m + 1) = prizes(m) + Prize(m + 1) /\ prizes(m) \in Nat
      BY <2>1, PrizesFromLast
    <2>3. prizes(0 + 1) = prizes(0) + Prize(0 + 1)
      BY PrizesFromLast
    <2>4. prizes(0) = 0
      <3>1. 1..0 = {}
        OBVIOUS
      <3> QED
        BY <3>1, SumEmpty DEF SumFunction
    <2>5. Prize(1) \in Int
      BY <1>4
    <2> HIDE DEF prizes
    <2>6. prizes(1) = Prize(1)
      BY <2>3, <2>4, <2>5
    <2> QED
      BY <2>1, <2>2, <2>6 DEF m
  <1> HIDE DEF prizes
  <1>7. UntakenFeesBack'
    <2> SUFFICES ASSUME feesOut = 0 PROVE balance' >= Owed'
      BY <1>1 DEF UntakenFeesBack, Backed
    <2>1. pool \in Nat /\ balance >= Owed
      BY DEF MoneyInv, UntakenFeesBack, Backed
    <2>2. CASE last
      <3>1. balance' = balance - Prize(2) - (Prize(1) + HostCut) /\ Owed' = feeCollected
        BY <1>1, <1>3, <2>2
      <3>2. prizes(2) = Prize(1) + Prize(2)
        BY <1>4, <1>6, <2>1, <2>2
      <3>3. balance >= prizes(2) + HostCut + feeCollected
        BY <1>2, <2>1, <2>2
      <3>4. Prize(1) \in Int /\ Prize(2) \in Int
        BY <1>4
      <3> QED
        BY <1>0, <1>4, <3>1, <3>2, <3>3, <3>4 DEF MoneyShape
    <2>3. CASE ~last
      <3>1. balance' = balance - Prize(remaining)
            /\ Owed' = prizes(remaining - 1) + HostCut + feeCollected
        BY <1>0, <1>1, <1>3, <1>4, <2>3 DEF MoneyShape
      <3>2. Prize(remaining) \in Int
        BY <1>0, <1>4 DEF MoneyShape
      <3> QED
        BY <1>0, <1>2, <1>4, <1>6, <2>1, <3>1, <3>2 DEF MoneyShape
    <2> QED
      BY <2>2, <2>3
  <1>8. Running' => remaining' >= 2
    BY <1>0, <1>1 DEF Running, MoneyShape
  <1>9. status' # "registering" /\ (feesOut' = 0 /\ Running' => pool' \in Nat)
    BY <1>1 DEF Running, MoneyInv
  <1> QED
    BY <1>5, <1>7, <1>8, <1>9 DEF MoneyInv

\* A step that leaves the books and the state of the event alone.
LEMMA IdleKeepsMoney ==
    ASSUME MoneyInv, UNCHANGED <<status, entrants, remaining, moneyVars>>
    PROVE  MoneyInv'
  <1>1. UNCHANGED <<status, entrants, remaining, pool, feeCollected, balance, feesOut>>
    BY DEF moneyVars
  <1>2. Owed' = Owed
    BY <1>1 DEF Owed, RefundAll, Prize, HostCut
  <1> QED
    BY <1>1, <1>2 DEF MoneyInv, MoneyShape, Running, BookedEntries, UntakenFeesBack, Backed

-----------------------------------------------------------------------------
\* Seats and chips

\* A player's seat, or a vacant one.
Player == [stack : Nat, out : {"in", "out", "idle"}, away : BOOLEAN]
SeatState == Player \cup {Vacant}
Seatings == [Tables -> [Seats -> SeatState]]

One(q) == IF q = Vacant THEN 0 ELSE 1

\* The chips and the players of one table, and of the first n.
RowStacks(row) == [s \in Seats |-> row[s].stack]
RowChips(row) == SumFunctionOnSet(RowStacks(row), Seats)
RowSeats(row) == {s \in Seats : row[s] # Vacant}
ChipsOf(S, n) == SumFunctionOnSet([t \in 1..n |-> RowChips(S[t])], 1..n)
PlayersOf(S, n) == SumFunctionOnSet([t \in 1..n |-> Cardinality(RowSeats(S[t]))], 1..n)

LEMMA SeatStateFacts ==
    ASSUME NEW q \in SeatState
    PROVE  /\ q.stack \in Nat /\ One(q) \in {0, 1}
           /\ q # Vacant <=> q \in Player
           /\ Vacant.stack = 0 /\ Vacant \notin Player /\ One(Vacant) = 0
  BY DEF SeatState, Player, Vacant, One

LEMMA SeatsFinite == IsFiniteSet(Seats) /\ SEATS \in Nat
  <1>1. SEATS \in Nat
    BY TournamentAssumption
  <1> QED
    BY <1>1, FS_Interval DEF Seats

LEMMA RowFacts ==
    ASSUME NEW row \in [Seats -> SeatState]
    PROVE  /\ RowChips(row) \in Nat
           /\ IsFiniteSet(RowSeats(row)) /\ Cardinality(RowSeats(row)) \in Nat
  <1>1. \A s \in Seats : RowStacks(row)[s] \in Nat
    <2> TAKE s \in Seats
    <2>1. row[s] \in SeatState
      OBVIOUS
    <2> QED
      BY <2>1, SeatStateFacts DEF RowStacks
  <1>2. RowChips(row) \in Nat
    BY <1>1, SeatsFinite, SumIn DEF RowChips
  <1>3. RowSeats(row) \subseteq Seats
    BY DEF RowSeats
  <1> QED
    BY <1>2, <1>3, SeatsFinite, FS_Subset, FS_CardinalityType

\* One seat of a table is written.
LEMMA RowWritten ==
    ASSUME NEW row \in [Seats -> SeatState], NEW s \in Seats, NEW q \in SeatState,
           NEW new, new = [row EXCEPT ![s] = q]
    PROVE  /\ new \in [Seats -> SeatState]
           /\ RowChips(new) = RowChips(row) + q.stack - row[s].stack
           /\ Cardinality(RowSeats(new)) = Cardinality(RowSeats(row)) + One(q) - One(row[s])
  <1>1. /\ new \in [Seats -> SeatState] /\ new[s] = q
        /\ \A u \in Seats : u # s => new[u] = row[u]
    OBVIOUS
  <1>2. RowChips(new) = RowChips(row) + q.stack - row[s].stack
    <2> DEFINE f == RowStacks(row)
               g == RowStacks(new)
    <2>1. \A u \in Seats : f[u] \in Int /\ g[u] \in Int
      <3> TAKE u \in Seats
      <3>1. row[u] \in SeatState /\ new[u] \in SeatState
        BY <1>1
      <3>2. f[u] = row[u].stack /\ g[u] = new[u].stack
        BY DEF RowStacks
      <3> HIDE DEF f, g
      <3> QED
        BY <3>1, <3>2, SeatStateFacts
    <2>2. \A u \in Seats \ {s} : g[u] = f[u]
      BY <1>1 DEF RowStacks
    <2>3. g[s] = q.stack /\ f[s] = row[s].stack
      BY <1>1 DEF RowStacks
    <2> HIDE DEF f, g
    <2>4. DifferAt(f, g, Seats, s)
      BY <2>1, <2>2 DEF DifferAt
    <2>5. SumFunctionOnSet(g, Seats) = SumFunctionOnSet(f, Seats) + g[s] - f[s]
      BY ONLY <2>4, SeatsFinite, SumDiffer
    <2> QED
      BY <2>3, <2>5 DEF RowChips, f, g
  <1>3. Cardinality(RowSeats(new)) = Cardinality(RowSeats(row)) + One(q) - One(row[s])
    <2> DEFINE A == RowSeats(row)
               B == RowSeats(new)
    <2>1. /\ s \in B <=> q # Vacant
          /\ s \in A <=> row[s] # Vacant
          /\ \A u : u # s => (u \in A <=> u \in B)
      BY <1>1 DEF RowSeats
    <2>2. IsFiniteSet(A) /\ Cardinality(A) \in Nat
      BY RowFacts
    <2> HIDE DEF A, B
    <2>3. CASE q # Vacant /\ row[s] = Vacant
      <3>1. B = A \cup {s} /\ s \notin A
        BY <2>1, <2>3
      <3>2. Cardinality(B) = Cardinality(A) + 1
        BY <2>2, <3>1, FS_AddElement
      <3>3. One(q) = 1 /\ One(row[s]) = 0
        BY <2>3 DEF One
      <3> QED
        BY <2>2, <3>2, <3>3 DEF A, B
    <2>4. CASE q = Vacant /\ row[s] # Vacant
      <3>1. B = A \ {s} /\ s \in A
        BY <2>1, <2>4
      <3>2. Cardinality(B) = Cardinality(A) - 1
        BY <2>2, <3>1, FS_RemoveElement
      <3>3. One(q) = 0 /\ One(row[s]) = 1
        BY <2>4 DEF One
      <3> QED
        BY <2>2, <3>2, <3>3 DEF A, B
    <2>5. CASE q = Vacant <=> row[s] = Vacant
      <3>1. B = A
        BY <2>1, <2>5
      <3>2. One(q) = One(row[s]) /\ One(q) \in {0, 1}
        BY <2>5 DEF One
      <3> QED
        BY <2>2, <3>1, <3>2 DEF A, B
    <2> QED
      BY <2>3, <2>4, <2>5
  <1> QED
    BY <1>1, <1>2, <1>3

\* Two seatings that give the first n tables the same chips and players.
LEMMA SameTables ==
    ASSUME NEW S, NEW R, NEW n \in Nat,
           \A t \in 1..n : /\ RowChips(R[t]) = RowChips(S[t])
                           /\ Cardinality(RowSeats(R[t])) = Cardinality(RowSeats(S[t]))
    PROVE  ChipsOf(R, n) = ChipsOf(S, n) /\ PlayersOf(R, n) = PlayersOf(S, n)
  <1>1. [t \in 1..n |-> RowChips(R[t])] = [t \in 1..n |-> RowChips(S[t])]
    OBVIOUS
  <1>2. [t \in 1..n |-> Cardinality(RowSeats(R[t]))]
          = [t \in 1..n |-> Cardinality(RowSeats(S[t]))]
    OBVIOUS
  <1> QED
    BY <1>1, <1>2 DEF ChipsOf, PlayersOf

LEMMA TablesSum ==
    ASSUME NEW S \in Seatings, NEW n \in Nat, 1..n \subseteq Tables
    PROVE  /\ ChipsOf(S, n) \in Nat /\ PlayersOf(S, n) \in Nat
           /\ \A t \in 1..n : RowChips(S[t]) \in Nat /\ Cardinality(RowSeats(S[t])) \in Nat
  <1> DEFINE f == [t \in 1..n |-> RowChips(S[t])]
             g == [t \in 1..n |-> Cardinality(RowSeats(S[t]))]
  <1>1. \A t \in 1..n : RowChips(S[t]) \in Nat /\ Cardinality(RowSeats(S[t])) \in Nat
    <2> TAKE t \in 1..n
    <2>1. S[t] \in [Seats -> SeatState]
      BY DEF Seatings
    <2> QED
      BY <2>1, RowFacts
  <1>2. IsFiniteSet(1..n)
    BY FS_Interval
  <1>3. \A t \in 1..n : f[t] \in Nat /\ g[t] \in Nat
    BY <1>1
  <1> HIDE DEF f, g
  <1>4. SumFunctionOnSet(f, 1..n) \in Nat /\ SumFunctionOnSet(g, 1..n) \in Nat
    BY <1>2, <1>3, SumIn
  <1> QED
    BY <1>1, <1>4 DEF ChipsOf, PlayersOf, f, g

TableMoves(S, n, t, row, R) ==
    /\ R \in Seatings /\ R[t] = row
    /\ ChipsOf(R, n) = ChipsOf(S, n) + RowChips(row) - RowChips(S[t])
    /\ PlayersOf(R, n) = PlayersOf(S, n) + Cardinality(RowSeats(row))
                                         - Cardinality(RowSeats(S[t]))

\* One table is written: the sums move with it.
LEMMA TableWritten ==
    ASSUME NEW S \in Seatings, NEW n \in Nat, 1..n \subseteq Tables, NEW t \in 1..n,
           NEW row \in [Seats -> SeatState], NEW R, R = [S EXCEPT ![t] = row]
    PROVE  TableMoves(S, n, t, row, R)
  <1>1. R \in Seatings /\ R[t] = row /\ \A u \in Tables : u # t => R[u] = S[u]
    BY DEF Seatings
  <1>2. IsFiniteSet(1..n)
    BY FS_Interval
  <1>3. /\ \A u \in 1..n : RowChips(S[u]) \in Nat /\ Cardinality(RowSeats(S[u])) \in Nat
        /\ \A u \in 1..n : RowChips(R[u]) \in Nat /\ Cardinality(RowSeats(R[u])) \in Nat
    BY <1>1, TablesSum
  <1>4. ChipsOf(R, n) = ChipsOf(S, n) + RowChips(row) - RowChips(S[t])
    <2> DEFINE f == [u \in 1..n |-> RowChips(S[u])]
               g == [u \in 1..n |-> RowChips(R[u])]
    <2>1. DifferAt(f, g, 1..n, t)
      BY <1>1, <1>3 DEF DifferAt
    <2>2. f[t] = RowChips(S[t]) /\ g[t] = RowChips(row)
      BY <1>1
    <2> HIDE DEF f, g
    <2>3. SumFunctionOnSet(g, 1..n) = SumFunctionOnSet(f, 1..n) + g[t] - f[t]
      BY ONLY <1>2, <2>1, SumDiffer
    <2> QED
      BY <2>2, <2>3 DEF ChipsOf, f, g
  <1>5. PlayersOf(R, n) = PlayersOf(S, n) + Cardinality(RowSeats(row))
                                          - Cardinality(RowSeats(S[t]))
    <2> DEFINE f == [u \in 1..n |-> Cardinality(RowSeats(S[u]))]
               g == [u \in 1..n |-> Cardinality(RowSeats(R[u]))]
    <2>1. DifferAt(f, g, 1..n, t)
      BY <1>1, <1>3 DEF DifferAt
    <2>2. f[t] = Cardinality(RowSeats(S[t])) /\ g[t] = Cardinality(RowSeats(row))
      BY <1>1
    <2> HIDE DEF f, g
    <2>3. SumFunctionOnSet(g, 1..n) = SumFunctionOnSet(f, 1..n) + g[t] - f[t]
      BY ONLY <1>2, <2>1, SumDiffer
    <2> QED
      BY <2>2, <2>3 DEF PlayersOf, f, g
  <1> QED
    BY <1>1, <1>4, <1>5 DEF TableMoves

SeatMoves(S, n, t, s, q, R) ==
    /\ R \in Seatings
    /\ ChipsOf(R, n) = ChipsOf(S, n) + q.stack - S[t][s].stack
    /\ PlayersOf(R, n) = PlayersOf(S, n) + One(q) - One(S[t][s])

\* One seat is written.
LEMMA SeatWritten ==
    ASSUME NEW S \in Seatings, NEW n \in Nat, 1..n \subseteq Tables, NEW t \in 1..n,
           NEW s \in Seats, NEW q \in SeatState, NEW R, R = [S EXCEPT ![t][s] = q]
    PROVE  SeatMoves(S, n, t, s, q, R)
  <1> DEFINE row == [S[t] EXCEPT ![s] = q]
  <1>1. S[t] \in [Seats -> SeatState] /\ R = [S EXCEPT ![t] = row]
    BY DEF Seatings
  <1>2. /\ row \in [Seats -> SeatState]
        /\ RowChips(row) = RowChips(S[t]) + q.stack - S[t][s].stack
        /\ Cardinality(RowSeats(row)) = Cardinality(RowSeats(S[t])) + One(q) - One(S[t][s])
    BY <1>1, RowWritten
  <1> HIDE DEF row
  <1>3. /\ R \in Seatings
        /\ ChipsOf(R, n) = ChipsOf(S, n) + RowChips(row) - RowChips(S[t])
        /\ PlayersOf(R, n) = PlayersOf(S, n) + Cardinality(RowSeats(row))
                                             - Cardinality(RowSeats(S[t]))
    <2>1. TableMoves(S, n, t, row, R)
      BY ONLY S \in Seatings, n \in Nat, 1..n \subseteq Tables, t \in 1..n, <1>1, <1>2,
              TableWritten
    <2> QED
      BY <2>1 DEF TableMoves
  <1>4. /\ ChipsOf(S, n) \in Nat /\ PlayersOf(S, n) \in Nat
        /\ RowChips(S[t]) \in Nat /\ Cardinality(RowSeats(S[t])) \in Nat
    BY TablesSum
  <1>5. S[t][s] \in SeatState
    BY <1>1
  <1>6. q.stack \in Nat /\ S[t][s].stack \in Nat /\ One(q) \in Int /\ One(S[t][s]) \in Int
    BY <1>5, SeatStateFacts
  <1> QED
    BY <1>2, <1>3, <1>4, <1>6 DEF SeatMoves

-----------------------------------------------------------------------------
\* The field of a starting event

\* The k-th entry, counted from 0, sits here.
TableOfEntry(k, open) == (k % open) + 1
SeatOfEntry(k, open) == (k \div open) + 1

\* One of the first n entries sits at t, s.
Placed(n, open, t, s) ==
    \E i \in 0..(n - 1) : t = TableOfEntry(i, open) /\ s = SeatOfEntry(i, open)

\* No two entries share a seat.
LEMMA PlacesApart ==
    ASSUME NEW open \in Nat \ {0}, NEW n \in Nat
    PROVE  ~ Placed(n, open, TableOfEntry(n, open), SeatOfEntry(n, open))
  <1> SUFFICES ASSUME NEW i \in 0..(n - 1),
                      TableOfEntry(n, open) = TableOfEntry(i, open),
                      SeatOfEntry(n, open) = SeatOfEntry(i, open)
               PROVE  FALSE
    BY DEF Placed
  <1>1. i \in Nat /\ i # n
    OBVIOUS
  <1>2. /\ n = open * (n \div open) + (n % open) /\ i = open * (i \div open) + (i % open)
        /\ n \div open \in Nat /\ i \div open \in Nat
        /\ n % open \in Nat /\ i % open \in Nat
    <2>1. ASSUME NEW a \in Nat
          PROVE  /\ a = open * (a \div open) + (a % open)
                 /\ a \div open \in Nat /\ a % open \in Nat
      BY ONLY open \in Nat \ {0}, a \in Nat, Quotient
    <2> QED
      BY <1>1, <2>1
  <1>3. n % open = i % open /\ n \div open = i \div open
    BY <1>2 DEF TableOfEntry, SeatOfEntry
  <1> QED
    BY <1>1, <1>2, <1>3

LEMMA PlacedNext ==
    ASSUME NEW open \in Nat \ {0}, NEW n \in Nat, NEW t, NEW s
    PROVE  Placed(n + 1, open, t, s)
             <=> \/ Placed(n, open, t, s)
                 \/ t = TableOfEntry(n, open) /\ s = SeatOfEntry(n, open)
  <1>1. \A i : i \in 0..((n + 1) - 1) <=> i \in 0..(n - 1) \/ i = n
    OBVIOUS
  <1> QED
    BY <1>1 DEF Placed

LEMMA FieldAt ==
    ASSUME NEW n, NEW open, NEW t \in Tables, NEW s \in Seats
    PROVE  Field(n, open)[t][s] = IF Placed(n, open, t, s) THEN Seated(STACK) ELSE Vacant
  BY DEF Field, Placed, TableOfEntry, SeatOfEntry

LEMMA FieldShape ==
    ASSUME NEW n, NEW open
    PROVE  Field(n, open) \in Seatings /\ Seated(STACK) \in SeatState /\ One(Seated(STACK)) = 1
           /\ Seated(STACK).stack = STACK
  <1>1. Seated(STACK) \in Player /\ Seated(STACK).stack = STACK
    BY TournamentAssumption DEF Seated, Player
  <1>2. Seated(STACK) # Vacant
    BY DEF Seated, Vacant
  <1> QED
    BY <1>1, <1>2 DEF Field, Seatings, SeatState, One

\* Nobody sits anywhere.
LEMMA EmptyField ==
    ASSUME NEW S \in Seatings, NEW n \in Nat, 1..n \subseteq Tables,
           \A t \in 1..n, s \in Seats : S[t][s] = Vacant
    PROVE  ChipsOf(S, n) = 0 /\ PlayersOf(S, n) = 0
  <1>1. ASSUME NEW t \in 1..n PROVE RowChips(S[t]) = 0 /\ Cardinality(RowSeats(S[t])) = 0
    <2>1. \A s \in Seats : RowStacks(S[t])[s] = 0
      BY DEF RowStacks, Vacant
    <2>2. RowChips(S[t]) = 0
      BY <2>1, SeatsFinite, SumAllZero DEF RowChips
    <2>3. RowSeats(S[t]) = {}
      BY DEF RowSeats
    <2> QED
      BY <2>2, <2>3, FS_EmptySet
  <1> DEFINE f == [t \in 1..n |-> RowChips(S[t])]
             g == [t \in 1..n |-> Cardinality(RowSeats(S[t]))]
  <1>2. (\A t \in 1..n : f[t] = 0) /\ \A t \in 1..n : g[t] = 0
    BY <1>1
  <1>3. IsFiniteSet(1..n)
    BY FS_Interval
  <1> HIDE DEF f, g
  <1>4. SumFunctionOnSet(f, 1..n) = 0 /\ SumFunctionOnSet(g, 1..n) = 0
    BY <1>2, <1>3, SumAllZero
  <1> QED
    BY <1>4 DEF ChipsOf, PlayersOf, f, g

\* So many entries sit with a stack each.
FieldSeats(n, open) ==
    ChipsOf(Field(n, open), open) = STACK * n /\ PlayersOf(Field(n, open), open) = n

LEMMA FieldGrows ==
    ASSUME NEW open \in Nat \ {0}, 1..open \subseteq Tables, NEW n \in Nat,
           n < open * SEATS, FieldSeats(n, open)
    PROVE  FieldSeats(n + 1, open)
  <1> DEFINE S == Field(n, open)
             R == Field(n + 1, open)
             t == TableOfEntry(n, open)
             s == SeatOfEntry(n, open)
             q == Seated(STACK)
  <1>1. S \in Seatings /\ R \in Seatings /\ q \in SeatState /\ One(q) = 1 /\ q.stack = STACK
    BY FieldShape
  <1>2. t \in 1..open /\ s \in Seats
    <2>1. n % open \in 0..(open - 1) /\ n \div open \in Nat
          /\ n = open * (n \div open) + (n % open)
      BY Quotient
    <2>2. SEATS \in Nat
      BY SeatsFinite
    <2>3. n \div open < SEATS
      <3> SUFFICES ASSUME n \div open >= SEATS PROVE FALSE
        BY <2>1, <2>2
      <3>1. open * (n \div open) >= open * SEATS
        BY <2>1, <2>2
      <3> QED
        BY <2>1, <2>2, <3>1
    <2> QED
      BY <2>1, <2>2, <2>3 DEF TableOfEntry, SeatOfEntry, Seats
  <1>3. S[t][s] = Vacant
    <2>1. t \in Tables
      BY <1>2
    <2> QED
      BY <1>2, <2>1, PlacesApart, FieldAt
  <1>4. R = [S EXCEPT ![t][s] = q]
    <2>1. ASSUME NEW u \in Tables, NEW v \in Seats
          PROVE  R[u][v] = IF u = t /\ v = s THEN q ELSE S[u][v]
      BY <2>1, FieldAt, PlacedNext
    <2> HIDE DEF S, R, t, s, q
    <2>2. ASSUME NEW u \in Tables PROVE R[u] = [S EXCEPT ![t][s] = q][u]
      <3>1. R[u] \in [Seats -> SeatState] /\ S[u] \in [Seats -> SeatState]
        BY <1>1 DEF Seatings
      <3>2. CASE u = t
        <4>1. [S EXCEPT ![t][s] = q][u] = [S[u] EXCEPT ![s] = q]
          BY <1>1, <3>2 DEF Seatings
        <4>2. R[u] = [S[u] EXCEPT ![s] = q]
          BY <2>1, <3>1, <3>2
        <4> QED
          BY <4>1, <4>2
      <3>3. CASE u # t
        <4>1. [S EXCEPT ![t][s] = q][u] = S[u]
          BY <1>1, <3>3 DEF Seatings
        <4>2. R[u] = S[u]
          BY <2>1, <3>1, <3>3
        <4> QED
          BY <4>1, <4>2
      <3> QED
        BY <3>2, <3>3
    <2>3. R = [u \in Tables |-> R[u]]
          /\ [S EXCEPT ![t][s] = q] = [u \in Tables |-> [S EXCEPT ![t][s] = q][u]]
      BY <1>1 DEF Seatings
    <2> QED
      BY <2>2, <2>3
  <1>5. One(Vacant) = 0 /\ Vacant.stack = 0
    BY <1>1, SeatStateFacts
  <1>6. STACK \in Nat /\ STACK * n \in Nat /\ STACK * (n + 1) = STACK * n + STACK
    BY TournamentAssumption, PerEntry
  <1> HIDE DEF S, R, t, s, q
  <1>7. /\ ChipsOf(R, open) = ChipsOf(S, open) + q.stack - S[t][s].stack
        /\ PlayersOf(R, open) = PlayersOf(S, open) + One(q) - One(S[t][s])
    <2>1. open \in Nat
      OBVIOUS
    <2>2. SeatMoves(S, open, t, s, q, R)
      BY ONLY <1>1, <1>2, <1>4, <2>1, 1..open \subseteq Tables, SeatWritten
    <2> QED
      BY <2>2 DEF SeatMoves
  <1>8. ChipsOf(S, open) = STACK * n /\ PlayersOf(S, open) = n
    BY DEF FieldSeats, S
  <1>9. ChipsOf(R, open) = STACK * (n + 1) /\ PlayersOf(R, open) = n + 1
    BY <1>1, <1>3, <1>5, <1>6, <1>7, <1>8
  <1> QED
    BY <1>9 DEF FieldSeats, R

\* The whole field is seated where the tables have room for it.
LEMMA FieldSeatsAll ==
    ASSUME NEW open \in Nat \ {0}, 1..open \subseteq Tables, NEW total \in Nat,
           total <= open * SEATS
    PROVE  FieldSeats(total, open)
  <1> DEFINE C == {n \in 0..total : ~ FieldSeats(n, open)}
  <1>1. SUFFICES ASSUME C # {} PROVE FALSE
    BY <1>1
  <1>2. PICK n \in C : \A k \in C : n <= k
    <2>1. C \in SUBSET Nat
      OBVIOUS
    <2> HIDE DEF C
    <2> QED
      BY <1>1, <2>1, LeastNat
  <1>3. n \in 0..total /\ ~ FieldSeats(n, open)
    OBVIOUS
  <1>4. n # 0
    <2> SUFFICES ASSUME n = 0 PROVE FALSE
      OBVIOUS
    <2>1. \A t \in 1..open, s \in Seats : Field(0, open)[t][s] = Vacant
      <3>1. \A t, s : ~ Placed(0, open, t, s)
        BY DEF Placed
      <3> QED
        BY <3>1, FieldAt
    <2>2. Field(0, open) \in Seatings
      BY FieldShape
    <2>3. ChipsOf(Field(0, open), open) = 0 /\ PlayersOf(Field(0, open), open) = 0
      BY ONLY open \in Nat \ {0}, 1..open \subseteq Tables, <2>1, <2>2, EmptyField
    <2>4. STACK * 0 = 0
      BY TournamentAssumption
    <2>5. FieldSeats(0, open)
      BY <2>3, <2>4 DEF FieldSeats
    <2> QED
      BY <1>3, <2>5
  <1> DEFINE m == n - 1
  <1>5. m \in 0..total /\ m \in Nat /\ n = m + 1 /\ m < n /\ m < open * SEATS
    BY <1>3, <1>4, SeatsFinite
  <1>6. FieldSeats(m, open)
    BY <1>2, <1>5
  <1> HIDE DEF m
  <1>7. FieldSeats(m + 1, open)
    BY <1>5, <1>6, FieldGrows
  <1> QED
    BY <1>3, <1>5, <1>7

\* As many tables as the field needs, and no more than there are.
LEMMA TablesSuffice ==
    ASSUME NEW n \in Nat, n >= 2, n <= MAX_PLAYERS
    PROVE  /\ CeilDiv(n, SEATS) \in Nat \ {0}
           /\ n <= CeilDiv(n, SEATS) * SEATS
           /\ 1..CeilDiv(n, SEATS) \subseteq Tables
  <1>1. SEATS \in Nat /\ SEATS >= 2 /\ MAX_PLAYERS \in Nat
    BY TournamentAssumption
  <1> DEFINE a == n + SEATS - 1
             b == MAX_PLAYERS + SEATS - 1
             x == a \div SEATS
             y == b \div SEATS
  <1>2. a \in Nat /\ b \in Nat /\ a <= b /\ a >= SEATS /\ SEATS \in Nat \ {0}
    BY <1>1
  <1>3. CeilDiv(n, SEATS) = x /\ CeilDiv(MAX_PLAYERS, SEATS) = y
    BY DEF CeilDiv
  <1> HIDE DEF a, b
  <1>4. /\ x \in Nat /\ y \in Nat /\ a % SEATS \in 0..(SEATS - 1) /\ b % SEATS \in 0..(SEATS - 1)
        /\ a = SEATS * x + (a % SEATS) /\ b = SEATS * y + (b % SEATS)
    BY <1>2, Quotient
  <1> HIDE DEF x, y
  <1>5. x # 0
    <2> SUFFICES ASSUME x = 0 PROVE FALSE
      OBVIOUS
    <2>1. SEATS * 0 = 0
      BY <1>1
    <2> QED
      BY <1>1, <1>2, <1>4, <2>1
  <1>6. n <= SEATS * x /\ SEATS * x = x * SEATS
    BY <1>1, <1>4 DEF a
  <1>7. x <= y
    <2> SUFFICES ASSUME x >= y + 1 PROVE FALSE
      BY <1>4
    <2>1. SEATS * x >= SEATS * (y + 1)
      BY <1>1, <1>4
    <2>2. SEATS * (y + 1) = SEATS * y + SEATS
      BY <1>1, <1>4
    <2>3. SEATS * x \in Int /\ SEATS * y \in Int
      BY <1>1, <1>4
    <2> QED
      BY <1>1, <1>2, <1>4, <2>1, <2>2, <2>3
  <1> QED
    BY <1>3, <1>4, <1>5, <1>6, <1>7 DEF Tables

-----------------------------------------------------------------------------
\* The seats of an event

HandsShape == hand \in [Tables -> SUBSET Seats] /\ starting \in [Tables -> SUBSET Seats]

\* Those dealt in sit at their table.
SeatedWell ==
    /\ tables \in Nat /\ 1..tables \subseteq Tables
    /\ seat \in Seatings /\ chipsOut \in Int
    /\ \A t \in Tables : hand[t] \subseteq RowSeats(seat[t])

Tally ==
    /\ ChipsOf(seat, tables) + chipsOut = STACK * entrants
    /\ PlayersOf(seat, tables) = remaining
    /\ remaining >= 2

ChipsInv ==
    /\ entrants \in Nat /\ entrants <= MAX_PLAYERS
    /\ HandsShape
    /\ status = "registering" =>
          chipsOut = 0 /\ \A t \in Tables : hand[t] = {} /\ starting[t] = {}
    /\ Running => SeatedWell /\ Tally

LEMMA TallyIsAccount ==
    ASSUME ChipsInv PROVE ChipsAccountedFor
  <1> SUFFICES ASSUME Running
               PROVE  /\ SumFunction([t \in Open |-> Chips(t, Seats)]) + chipsOut
                           = STACK * entrants
                      /\ SumFunction([t \in Open |-> Count(t)]) = remaining /\ remaining >= 2
    BY DEF ChipsAccountedFor
  <1>1. \A t : Chips(t, Seats) = RowChips(seat[t]) /\ Count(t) = Cardinality(RowSeats(seat[t]))
    BY DEF Chips, Count, Occupied, RowChips, RowStacks, RowSeats, SumFunction
  <1>2. SumFunction([t \in Open |-> Chips(t, Seats)]) = ChipsOf(seat, tables)
    BY <1>1 DEF ChipsOf, Open, SumFunction
  <1>3. SumFunction([t \in Open |-> Count(t)]) = PlayersOf(seat, tables)
    BY <1>1 DEF PlayersOf, Open, SumFunction
  <1> QED
    BY <1>2, <1>3 DEF ChipsInv, Tally

\* A step of a running event after which every table has the chips and the
\* players it had.
LEMMA SameSeatsKeepChips ==
    ASSUME ChipsInv, Running, UNCHANGED <<eventVars, chipsOut>>, HandsShape',
           seat' \in Seatings,
           \A t \in Tables : /\ RowChips(seat'[t]) = RowChips(seat[t])
                             /\ RowSeats(seat'[t]) = RowSeats(seat[t])
                             /\ hand'[t] \subseteq RowSeats(seat[t])
    PROVE  ChipsInv'
  <1>1. UNCHANGED <<status, entrants, tables, remaining, chipsOut>>
    BY DEF eventVars
  <1>2. SeatedWell /\ Tally
    BY DEF ChipsInv
  <1>3. ChipsOf(seat', tables) = ChipsOf(seat, tables)
        /\ PlayersOf(seat', tables) = PlayersOf(seat, tables)
    <2>1. \A t \in 1..tables : /\ RowChips(seat'[t]) = RowChips(seat[t])
                               /\ Cardinality(RowSeats(seat'[t])) = Cardinality(RowSeats(seat[t]))
      BY <1>2 DEF SeatedWell
    <2>2. tables \in Nat
      BY <1>2 DEF SeatedWell
    <2> QED
      BY ONLY <2>1, <2>2, SameTables
  <1>4. SeatedWell' /\ Tally'
    BY <1>1, <1>2, <1>3 DEF SeatedWell, Tally
  <1> QED
    BY <1>1, <1>4 DEF ChipsInv, Running

\* A player's seat is written and keeps its stack.
LEMMA FlagsKeepChips ==
    ASSUME ChipsInv, Running, UNCHANGED <<eventVars, chipsOut, hand, starting>>,
           NEW t \in Tables, NEW s \in Seats, NEW q \in Player,
           seat[t][s] \in Player, q.stack = seat[t][s].stack,
           seat' = [seat EXCEPT ![t][s] = q]
    PROVE  ChipsInv'
  <1>1. SeatedWell
    BY DEF ChipsInv
  <1> DEFINE row == [seat[t] EXCEPT ![s] = q]
  <1>2. seat[t] \in [Seats -> SeatState] /\ q \in SeatState
    BY <1>1 DEF SeatedWell, Seatings, SeatState
  <1>3. row \in [Seats -> SeatState] /\ RowChips(row) = RowChips(seat[t]) + q.stack - seat[t][s].stack
    BY ONLY <1>2, s \in Seats, RowWritten
  <1>4. RowChips(row) = RowChips(seat[t])
    <2>1. RowChips(seat[t]) \in Nat
      BY <1>2, RowFacts
    <2>2. q.stack \in Nat
      BY DEF Player
    <2> HIDE DEF row
    <2> QED
      BY <1>3, <2>1, <2>2
  <1>5. RowSeats(row) = RowSeats(seat[t])
    <2>1. q # Vacant /\ seat[t][s] # Vacant
      BY DEF Player, Vacant
    <2> QED
      BY <1>2, <2>1 DEF RowSeats
  <1>6. /\ seat' \in Seatings /\ seat'[t] = row
        /\ \A u \in Tables : u # t => seat'[u] = seat[u]
    <2>1. seat' = [seat EXCEPT ![t] = row]
      OBVIOUS
    <2> HIDE DEF row
    <2> QED
      BY <1>1, <1>3, <2>1 DEF SeatedWell, Seatings
  <1> HIDE DEF row
  <1>7. \A u \in Tables : /\ RowChips(seat'[u]) = RowChips(seat[u])
                          /\ RowSeats(seat'[u]) = RowSeats(seat[u])
    BY <1>4, <1>5, <1>6
  <1>8. HandsShape' /\ \A u \in Tables : hand'[u] \subseteq RowSeats(seat[u])
    BY <1>1 DEF ChipsInv, HandsShape, SeatedWell
  <1> QED
    BY <1>6, <1>7, <1>8, SameSeatsKeepChips

\* Seats that nothing happens to.
LEMMA StillKeepChips ==
    ASSUME ChipsInv, UNCHANGED <<eventVars, tableVars>> PROVE ChipsInv'
  BY DEF ChipsInv, HandsShape, SeatedWell, Tally, Running, eventVars, tableVars

-----------------------------------------------------------------------------
\* Hands

\* A hand shares the chips of those dealt in among them.
HandRow(row, H, won) == [s \in Seats |-> IF s \in H THEN [row[s] EXCEPT !.stack = won[s]]
                                                    ELSE row[s]]

LEMMA HandKeepsRow ==
    ASSUME NEW row \in [Seats -> SeatState], NEW H \in SUBSET Seats,
           H \subseteq RowSeats(row), NEW won \in [H -> Nat],
           SumFunctionOnSet(won, H) = SumFunctionOnSet([s \in H |-> row[s].stack], H)
    PROVE  /\ HandRow(row, H, won) \in [Seats -> SeatState]
           /\ RowChips(HandRow(row, H, won)) = RowChips(row)
           /\ RowSeats(HandRow(row, H, won)) = RowSeats(row)
  <1> DEFINE new == HandRow(row, H, won)
             dealt == [s \in H |-> row[s].stack]
             f == RowStacks(row)
             g == RowStacks(new)
  <1>1. ASSUME NEW s \in H
        PROVE  row[s] \in Player /\ new[s] \in Player /\ new[s].stack = won[s]
    <2>1. s \in Seats /\ row[s] \in SeatState /\ row[s] # Vacant
      BY DEF RowSeats
    <2>2. row[s] \in Player
      BY <2>1, SeatStateFacts
    <2>3. new[s] = [row[s] EXCEPT !.stack = won[s]] /\ won[s] \in Nat
      BY <2>1 DEF HandRow
    <2> HIDE DEF new
    <2> QED
      BY <2>2, <2>3 DEF Player
  <1>2. \A s \in Seats \ H : new[s] = row[s]
    BY DEF HandRow
  <1>3. new \in [Seats -> SeatState]
    <2>1. \A s \in Seats : new[s] \in SeatState
      BY <1>1, <1>2 DEF SeatState
    <2>2. new = [s \in Seats |-> new[s]]
      BY DEF HandRow
    <2> HIDE DEF new
    <2> QED
      BY <2>1, <2>2
  <1>4. RowSeats(new) = RowSeats(row)
    <2>1. \A s \in H : new[s] # Vacant /\ row[s] # Vacant
      BY <1>1 DEF Player, Vacant
    <2> QED
      BY <1>2, <2>1 DEF RowSeats
  <1> HIDE DEF new
  <1>5. \A s \in Seats : f[s] \in Int /\ g[s] \in Int
    <2> TAKE s \in Seats
    <2>1. row[s] \in SeatState /\ new[s] \in SeatState
      BY <1>3
    <2>2. f[s] = row[s].stack /\ g[s] = new[s].stack
      BY DEF RowStacks
    <2> HIDE DEF f, g
    <2> QED
      BY <2>1, <2>2, SeatStateFacts
  <1>6. \A s \in H : g[s] = won[s] /\ f[s] = dealt[s]
    BY <1>1 DEF RowStacks
  <1>7. \A s \in Seats \ H : g[s] = f[s]
    BY <1>2 DEF RowStacks
  <1>8. IsFiniteSet(Seats) /\ IsFiniteSet(H) /\ IsFiniteSet(Seats \ H)
    BY SeatsFinite, FS_Subset
  <1>9. SumFunctionOnSet(won, H) = SumFunctionOnSet(dealt, H)
    OBVIOUS
  <1> HIDE DEF f, g, dealt
  <1>10. SumFunctionOnSet(f, Seats) = SumFunctionOnSet(f, H) + SumFunctionOnSet(f, Seats \ H)
    <2>1. \A s \in Seats : f[s] \in Int
      BY <1>5
    <2> QED
      BY ONLY <1>8, <2>1, H \in SUBSET Seats, SumSplit
  <1>11. SumFunctionOnSet(g, Seats) = SumFunctionOnSet(g, H) + SumFunctionOnSet(g, Seats \ H)
    <2>1. \A s \in Seats : g[s] \in Int
      BY <1>5
    <2> QED
      BY ONLY <1>8, <2>1, H \in SUBSET Seats, SumSplit
  <1>12. SumFunctionOnSet(g, Seats \ H) = SumFunctionOnSet(f, Seats \ H)
    BY ONLY <1>7, <1>8, SumSame
  <1>13. SumFunctionOnSet(g, H) = SumFunctionOnSet(won, H)
    <2>1. \A s \in H : g[s] = won[s]
      BY <1>6
    <2> QED
      BY ONLY <1>8, <2>1, SumSame
  <1>14. SumFunctionOnSet(f, H) = SumFunctionOnSet(dealt, H)
    <2>1. \A s \in H : f[s] = dealt[s]
      BY <1>6
    <2> QED
      BY ONLY <1>8, <2>1, SumSame
  <1>15. RowChips(new) = RowChips(row)
    BY <1>9, <1>10, <1>11, <1>12, <1>13, <1>14 DEF RowChips, f, g
  <1> QED
    BY <1>3, <1>4, <1>15 DEF new

LEMMA HandEndsKeepsChips ==
    ASSUME ChipsInv, NEW t \in Tables, HandEnds(t) PROVE ChipsInv'
  <1> DEFINE H == hand[t]
  <1>1. PICK won \in [H -> 0..Chips(t, H)] :
           /\ SumFunction(won) = Chips(t, H)
           /\ seat' = [seat EXCEPT ![t] =
                         [s \in Seats |-> IF s \in H THEN [@[s] EXCEPT !.stack = won[s]]
                                                     ELSE @[s]]]
    BY DEF HandEnds
  <1>2. hand' = [hand EXCEPT ![t] = {}] /\ UNCHANGED <<eventVars, starting, chipsOut>>
    BY DEF HandEnds
  <1>3. HandsShape' /\ H \in SUBSET Seats
    BY <1>2 DEF ChipsInv, HandsShape
  <1>4. H # {}
    BY DEF HandEnds, InHand
  <1>5. status # "registering"
    BY <1>4 DEF ChipsInv
  <1>6. CASE ~Running
    BY <1>2, <1>3, <1>5, <1>6 DEF ChipsInv, Running, eventVars
  <1>7. CASE Running
    <2> DEFINE row == seat[t]
               new == HandRow(row, H, won)
    <2>1. SeatedWell
      BY <1>7 DEF ChipsInv
    <2>2. row \in [Seats -> SeatState] /\ H \subseteq RowSeats(row)
      BY <2>1 DEF SeatedWell, Seatings
    <2>3. won \in [H -> Nat]
      <3>1. \A k : 0..k \subseteq Nat
        OBVIOUS
      <3> HIDE DEF H
      <3> QED
        BY <1>1, <3>1
    <2>4. SumFunctionOnSet(won, H) = SumFunctionOnSet([s \in H |-> row[s].stack], H)
      <3>1. DOMAIN won = H
        BY <1>1
      <3> QED
        BY <1>1, <3>1 DEF SumFunction, Chips
    <2>5. seat' = [seat EXCEPT ![t] = new]
      BY <1>1, <2>1 DEF HandRow, SeatedWell, Seatings
    <2> HIDE DEF H, row
    <2>6. /\ new \in [Seats -> SeatState]
          /\ RowChips(new) = RowChips(row) /\ RowSeats(new) = RowSeats(row)
      BY ONLY <1>3, <2>2, <2>3, <2>4, HandKeepsRow
    <2> HIDE DEF new
    <2>7. /\ seat' \in Seatings /\ seat'[t] = new
          /\ \A u \in Tables : u # t => seat'[u] = seat[u]
      BY <2>1, <2>5, <2>6 DEF SeatedWell, Seatings
    <2>8. \A u \in Tables : /\ RowChips(seat'[u]) = RowChips(seat[u])
                            /\ RowSeats(seat'[u]) = RowSeats(seat[u])
      BY <2>6, <2>7 DEF row
    <2>9. \A u \in Tables : hand'[u] \subseteq RowSeats(seat[u])
      BY <1>2, <2>1 DEF ChipsInv, HandsShape, SeatedWell
    <2> QED
      BY <1>2, <1>3, <1>7, <2>7, <2>8, <2>9, SameSeatsKeepChips
  <1> QED
    BY <1>6, <1>7

LEMMA StartMinedKeepsChips ==
    ASSUME ChipsInv, NEW t \in Tables, StartMined(t) PROVE ChipsInv'
  <1>1. UNCHANGED <<eventVars, seat, chipsOut>> /\ starting' = [starting EXCEPT ![t] = {}]
    BY DEF StartMined
  <1>2. starting[t] # {}
    BY DEF StartMined
  <1>3. status # "registering"
    BY <1>2 DEF ChipsInv
  <1>4. \/ hand' = hand
        \/ hand' = [hand EXCEPT ![t] = starting[t]] /\ Eligible(t) = starting[t]
    BY DEF StartMined
  <1>5. HandsShape'
    BY <1>1, <1>4 DEF ChipsInv, HandsShape
  <1>6. Eligible(t) \subseteq RowSeats(seat[t])
    BY DEF Eligible, Occupied, RowSeats
  <1>7. Running => SeatedWell' /\ Tally'
    <2> SUFFICES ASSUME Running PROVE SeatedWell' /\ Tally'
      OBVIOUS
    <2>1. SeatedWell /\ Tally
      BY DEF ChipsInv
    <2>2. \A u \in Tables : hand'[u] \subseteq RowSeats(seat[u])
      BY <1>4, <1>6, <2>1 DEF SeatedWell, ChipsInv, HandsShape
    <2> QED
      BY <1>1, <2>1, <2>2 DEF SeatedWell, Tally, eventVars
  <1> QED
    BY <1>1, <1>3, <1>5, <1>7 DEF ChipsInv, Running, eventVars

LEMMA SeatIsPlayer ==
    ASSUME ChipsInv, Running, NEW t \in Tables, NEW s \in Seats, seat[t][s] # Vacant
    PROVE  seat[t][s] \in Player
  <1>1. seat[t][s] \in SeatState
    BY DEF ChipsInv, SeatedWell, Seatings
  <1> QED
    BY <1>1, SeatStateFacts

LEMMA TableStepKeepsChips ==
    ASSUME ChipsInv, TableStep PROVE ChipsInv'
  <1>0. SeatedWell \/ ~Running
    BY DEF ChipsInv
  <1>1. ASSUME NEW t \in Tables, NEW held, BeginStart(t, held) PROVE ChipsInv'
    <2>1. /\ UNCHANGED <<eventVars, seat, hand, chipsOut>> /\ Running
          /\ starting' = [starting EXCEPT ![t] = Eligible(t)]
      BY <1>1 DEF BeginStart
    <2>2. Eligible(t) \subseteq Seats
      BY DEF Eligible, Occupied
    <2>3. HandsShape'
      BY <2>1, <2>2 DEF ChipsInv, HandsShape
    <2> QED
      BY <2>1, <2>3 DEF ChipsInv, Running, SeatedWell, Tally, eventVars
  <1>2. ASSUME NEW t \in Tables, NEW s \in Seats, WalkAway(t, s) PROVE ChipsInv'
    <2> DEFINE q == [seat[t][s] EXCEPT !.away = TRUE]
    <2>1. Running /\ seat[t][s] # Vacant /\ UNCHANGED <<eventVars, chipsOut, hand, starting>>
      BY <1>2 DEF WalkAway, Occupied
    <2>2. seat[t][s] \in Player
      BY <2>1, SeatIsPlayer
    <2>3. q \in Player /\ q.stack = seat[t][s].stack
      BY <2>2 DEF Player
    <2>4. seat' = [seat EXCEPT ![t][s] = q]
      BY <1>0, <1>2, <2>1 DEF WalkAway, SeatedWell, Seatings
    <2> HIDE DEF q
    <2> QED
      BY <2>1, <2>2, <2>3, <2>4, FlagsKeepChips
  <1>3. ASSUME NEW t \in Tables, NEW s \in Seats, NEW held, Strike(t, s, held)
        PROVE  ChipsInv'
    <2> DEFINE q == [seat[t][s] EXCEPT !.out = "out"]
    <2>1. Running /\ seat[t][s] # Vacant /\ UNCHANGED <<eventVars, chipsOut, hand, starting>>
      BY <1>3 DEF Strike, Eligible, Occupied
    <2>2. seat[t][s] \in Player
      BY <2>1, SeatIsPlayer
    <2>3. q \in Player /\ q.stack = seat[t][s].stack
      BY <2>2 DEF Player
    <2>4. seat' = [seat EXCEPT ![t][s] = q]
      BY <1>0, <1>3, <2>1 DEF Strike, SeatedWell, Seatings
    <2> HIDE DEF q
    <2> QED
      BY <2>1, <2>2, <2>3, <2>4, FlagsKeepChips
  <1>4. ASSUME NEW t \in Tables, NEW s \in Seats, WindowElapses(t, s) PROVE ChipsInv'
    <2> DEFINE q == [seat[t][s] EXCEPT !.out = "idle"]
    <2>1. Running /\ seat[t][s] # Vacant /\ UNCHANGED <<eventVars, chipsOut, hand, starting>>
      BY <1>4 DEF WindowElapses, Vacant
    <2>2. seat[t][s] \in Player
      BY <2>1, SeatIsPlayer
    <2>3. q \in Player /\ q.stack = seat[t][s].stack
      BY <2>2 DEF Player
    <2>4. seat' = [seat EXCEPT ![t][s] = q]
      BY <1>0, <1>4, <2>1 DEF WindowElapses, SeatedWell, Seatings
    <2> HIDE DEF q
    <2> QED
      BY <2>1, <2>2, <2>3, <2>4, FlagsKeepChips
  <1>5. ASSUME NEW t \in Tables, NEW s \in Seats, SitIn(t, s) PROVE ChipsInv'
    <2> DEFINE p == [seat[t][s] EXCEPT !.away = FALSE]
               q == [p EXCEPT !.out = "in"]
    <2>1. Running /\ seat[t][s] # Vacant /\ UNCHANGED <<eventVars, chipsOut, hand, starting>>
      BY <1>5 DEF SitIn, Occupied
    <2>2. seat[t][s] \in Player
      BY <2>1, SeatIsPlayer
    <2>3. p \in Player /\ p.stack = seat[t][s].stack
      BY <2>2 DEF Player
    <2>4. seat' = [seat EXCEPT ![t][s] = q]
      BY <1>0, <1>5, <2>1 DEF SitIn, SeatedWell, Seatings
    <2> HIDE DEF p
    <2>5. q \in Player /\ q.stack = seat[t][s].stack
      BY <2>3 DEF Player
    <2> HIDE DEF q
    <2> QED
      BY <2>1, <2>2, <2>4, <2>5, FlagsKeepChips
  <1> QED
    BY <1>1, <1>2, <1>3, <1>4, <1>5, StartMinedKeepsChips, HandEndsKeepsChips DEF TableStep

LEMMA StartKeepsChips ==
    ASSUME ChipsInv, Start PROVE ChipsInv'
  <1> DEFINE open == CeilDiv(entrants, SEATS)
  <1>1. /\ status = "registering" /\ entrants >= 2 /\ status' = "running" /\ tables' = open
        /\ remaining' = entrants /\ seat' = Field(entrants, open)
        /\ UNCHANGED <<entrants, hand, starting, chipsOut>>
    BY DEF Start, CanStart
  <1>2. open \in Nat \ {0} /\ entrants <= open * SEATS /\ 1..open \subseteq Tables
    BY <1>1, TablesSuffice DEF ChipsInv
  <1> HIDE DEF open
  <1>3. FieldSeats(entrants, open)
    BY <1>2, FieldSeatsAll DEF ChipsInv
  <1>4. Field(entrants, open) \in Seatings
    BY FieldShape
  <1>5. chipsOut = 0 /\ \A t \in Tables : hand[t] = {}
    BY <1>1 DEF ChipsInv
  <1>6. SeatedWell'
    BY <1>1, <1>2, <1>4, <1>5 DEF SeatedWell
  <1>7. Tally'
    <2>1. STACK * entrants \in Nat
      BY TournamentAssumption, PerEntry DEF ChipsInv
    <2> QED
      BY <1>1, <1>3, <1>5, <2>1 DEF Tally, FieldSeats
  <1> QED
    BY <1>1, <1>6, <1>7 DEF ChipsInv, HandsShape

\* Standing up takes a player off the count and her chips out of play.
LEMMA EliminateKeepsChips ==
    ASSUME ChipsInv, Running, NEW t \in Open, NEW s \in Seats, ~ InHand(t),
           s \in Occupied(t), Eliminate(t, s)
    PROVE  ChipsInv'
  <1>1. SeatedWell /\ Tally
    BY DEF ChipsInv
  <1>2. /\ UNCHANGED <<entrants, tables, hand, starting>> /\ remaining' = remaining - 1
        /\ status' = IF remaining = 2 THEN "finished" ELSE status
    BY DEF Eliminate
  <1>3. HandsShape'
    BY <1>2 DEF ChipsInv, HandsShape
  <1>4. CASE remaining = 2
    BY <1>2, <1>3, <1>4 DEF ChipsInv, Running
  <1>5. CASE remaining # 2
    <2> DEFINE q == seat[t][s]
    <2>1. /\ seat' = [seat EXCEPT ![t][s] = Vacant] /\ chipsOut' = chipsOut + q.stack
          /\ status' = status
      BY <1>5 DEF Eliminate
    <2>2. t \in 1..tables /\ t \in Tables /\ 1..tables \subseteq Tables /\ tables \in Nat
          /\ seat \in Seatings /\ Vacant \in SeatState
      BY <1>1 DEF Open, SeatedWell, SeatState
    <2>3. SeatMoves(seat, tables, t, s, Vacant, seat')
      BY ONLY <2>1, <2>2, s \in Seats, SeatWritten
    <2>4. q \in SeatState /\ q # Vacant
      BY <2>2 DEF Occupied, Seatings
    <2>5. q.stack \in Nat /\ One(q) = 1 /\ One(Vacant) = 0 /\ Vacant.stack = 0
      BY <2>4, SeatStateFacts DEF One
    <2>6. ChipsOf(seat, tables) \in Nat /\ PlayersOf(seat, tables) \in Nat
      BY <2>2, TablesSum
    <2> HIDE DEF q
    <2>7. /\ seat' \in Seatings
          /\ ChipsOf(seat', tables) = ChipsOf(seat, tables) - q.stack
          /\ PlayersOf(seat', tables) = PlayersOf(seat, tables) - 1
      BY <2>3, <2>5, <2>6 DEF SeatMoves, q
    <2>8. \A u \in Tables : hand'[u] \subseteq RowSeats(seat'[u])
      <3>1. hand[t] = {}
        BY DEF InHand
      <3>2. \A u \in Tables : u # t => seat'[u] = seat[u]
        BY <2>1, <2>2 DEF Seatings
      <3> QED
        BY <1>1, <1>2, <3>1, <3>2 DEF SeatedWell
    <2>9. chipsOut \in Int /\ chipsOut' \in Int
      BY <1>1, <2>1, <2>5 DEF SeatedWell
    <2>10. SeatedWell'
      BY <1>2, <2>2, <2>7, <2>8, <2>9 DEF SeatedWell
    <2>11. Tally'
      BY <1>1, <1>2, <1>5, <2>1, <2>5, <2>6, <2>7, <2>9 DEF Tally
    <2> QED
      BY <1>2, <1>3, <2>1, <2>10, <2>11 DEF ChipsInv, Running
  <1> QED
    BY <1>4, <1>5

\* A player moves with her chips: one seat empties and another fills.
LEMMA MoveKeepsChips ==
    ASSUME ChipsInv, NEW from, NEW s, NEW to, NEW d, CanMove(from, s, to, d),
           MovePlayer(from, s, to, d)
    PROVE  ChipsInv'
  <1> DEFINE q == Moved(seat[from][s])
             mid == [seat EXCEPT ![from][s] = Vacant]
  <1>1. /\ Running /\ from \in 1..tables /\ to \in 1..tables /\ from # to
        /\ hand[from] = {} /\ hand[to] = {}
        /\ s \in Seats /\ seat[from][s] # Vacant /\ d \in Seats /\ seat[to][d] = Vacant
    BY DEF CanMove, BetweenHands, Open, InHand, Occupied
  <1>2. SeatedWell /\ Tally
    BY <1>1 DEF ChipsInv
  <1>3. /\ UNCHANGED <<eventVars, hand, starting, chipsOut>>
        /\ seat' = [seat EXCEPT ![from][s] = Vacant, ![to][d] = q]
    BY DEF MovePlayer
  <1>4. /\ 1..tables \subseteq Tables /\ tables \in Nat /\ seat \in Seatings
        /\ from \in Tables /\ to \in Tables /\ Vacant \in SeatState
    BY <1>1, <1>2 DEF SeatedWell, SeatState
  <1>5. seat[from][s] \in Player
    BY <1>1, <1>4, SeatIsPlayer
  <1>6. q \in SeatState /\ q # Vacant /\ q.stack = seat[from][s].stack /\ q.stack \in Nat
    BY <1>5 DEF Moved, Player, SeatState, Vacant
  <1>7. seat' = [mid EXCEPT ![to][d] = q]
    BY <1>3
  <1>8. mid[to] = seat[to] /\ \A u \in Tables : u # from => mid[u] = seat[u]
    BY <1>1, <1>4 DEF Seatings
  <1>9. One(seat[from][s]) = 1 /\ One(q) = 1 /\ One(Vacant) = 0 /\ Vacant.stack = 0
        /\ seat[from][s].stack \in Nat
    BY <1>1, <1>5, <1>6 DEF One, Vacant, Player
  <1> HIDE DEF q
  <1>10. SeatMoves(seat, tables, from, s, Vacant, mid)
    BY ONLY <1>1, <1>4, SeatWritten
  <1> HIDE DEF mid
  <1>11. mid \in Seatings
    BY <1>10 DEF SeatMoves
  <1>12. SeatMoves(mid, tables, to, d, q, seat')
    BY ONLY <1>1, <1>4, <1>6, <1>7, <1>11, SeatWritten
  <1>13. ChipsOf(seat, tables) \in Nat /\ PlayersOf(seat, tables) \in Nat
    BY <1>4, TablesSum
  <1>14. mid[to][d] = Vacant
    BY <1>1, <1>8
  <1>15. /\ seat' \in Seatings
         /\ ChipsOf(seat', tables) = ChipsOf(seat, tables)
         /\ PlayersOf(seat', tables) = PlayersOf(seat, tables)
    BY <1>6, <1>9, <1>10, <1>12, <1>13, <1>14 DEF SeatMoves
  <1>16. \A u \in Tables : hand'[u] \subseteq RowSeats(seat'[u])
    <2>1. \A u \in Tables : u # to => seat'[u] = mid[u]
      BY <1>4, <1>7, <1>11 DEF Seatings
    <2> QED
      BY <1>1, <1>2, <1>3, <1>8, <2>1 DEF SeatedWell
  <1>17. SeatedWell' /\ Tally'
    BY <1>2, <1>3, <1>15, <1>16 DEF SeatedWell, Tally, eventVars
  <1> QED
    BY <1>3, <1>17 DEF ChipsInv, HandsShape, Running, eventVars

-----------------------------------------------------------------------------
\* The event and its driver

TournamentInv == MoneyInv /\ ChipsInv

LEMMA CallMinedKeepsInv ==
    ASSUME TournamentInv, CallMined PROVE TournamentInv'
  <1>0. MoneyInv /\ ChipsInv /\ Accepted /\ Effect
    BY DEF TournamentInv, CallMined
  <1>1. call.kind \in {"start", "bust", "forfeit", "move", "level"}
    BY <1>0 DEF Accepted
  <1>2. CASE call.kind = "start"
    <2>1. Start
      BY <1>0, <1>2 DEF Effect
    <2> QED
      BY <1>0, <2>1, StartKeepsMoney, StartKeepsChips DEF TournamentInv
  <1>3. CASE call.kind \in {"bust", "forfeit"}
    <2> DEFINE t == call.table
               s == call.seat
    <2>1. Eliminate(t, s)
      BY <1>0, <1>3 DEF Effect
    <2>2. CanReportBust(t, s) \/ CanForfeitIdle(t, s)
      BY <1>0, <1>3 DEF Accepted
    <2>3. Running /\ t \in Open /\ ~ InHand(t) /\ s \in Occupied(t) /\ s \in Seats
      BY <2>2 DEF CanReportBust, CanForfeitIdle, BetweenHands, Occupied
    <2> HIDE DEF t, s
    <2> QED
      BY <1>0, <2>1, <2>3, EliminateKeepsMoney, EliminateKeepsChips DEF TournamentInv
  <1>4. CASE call.kind = "move"
    <2>1. /\ CanMove(call.table, call.seat, call.to, call.dest)
          /\ MovePlayer(call.table, call.seat, call.to, call.dest)
      BY <1>0, <1>4 DEF Accepted, Effect
    <2>2. ChipsInv'
      BY <1>0, <2>1, MoveKeepsChips
    <2>3. UNCHANGED <<status, entrants, remaining, moneyVars>>
      BY <2>1 DEF MovePlayer, eventVars
    <2> QED
      BY <1>0, <2>2, <2>3, IdleKeepsMoney DEF TournamentInv
  <1>5. CASE call.kind = "level"
    <2>1. LevelUp
      BY <1>0, <1>5 DEF Effect
    <2>2. UNCHANGED <<status, entrants, tables, remaining, moneyVars, tableVars>>
      BY <2>1 DEF LevelUp
    <2>3. ChipsInv'
      BY <1>0, <2>2 DEF ChipsInv, HandsShape, SeatedWell, Tally, Running, tableVars
    <2> QED
      BY <1>0, <2>2, <2>3, IdleKeepsMoney DEF TournamentInv
  <1> QED
    BY <1>1, <1>2, <1>3, <1>4, <1>5

\* A step before the start, or of the fees, leaves the seats alone.
LEMMA EntriesKeepChips ==
    ASSUME ChipsInv, Register \/ Unregister \/ Cancel \/ WithdrawFees
    PROVE  ChipsInv'
  <1>1. CASE Register
    <2>1. status' = "registering" /\ entrants' = entrants + 1 /\ entrants < MAX_PLAYERS
          /\ status = "registering" /\ UNCHANGED <<hand, starting, chipsOut>>
      BY <1>1 DEF Register, tableVars
    <2>2. MAX_PLAYERS \in Nat
      BY TournamentAssumption
    <2> QED
      BY <2>1, <2>2 DEF ChipsInv, HandsShape, Running
  <1>2. CASE Unregister
    <2>1. status' = "registering" /\ entrants' = entrants - 1 /\ entrants > 0
          /\ status = "registering" /\ UNCHANGED <<hand, starting, chipsOut>>
      BY <1>2 DEF Unregister, tableVars
    <2>2. MAX_PLAYERS \in Nat
      BY TournamentAssumption
    <2> QED
      BY <2>1, <2>2 DEF ChipsInv, HandsShape, Running
  <1>3. CASE Cancel
    <2>1. status' = "cancelled" /\ UNCHANGED <<entrants, hand, starting, chipsOut>>
      BY <1>3 DEF Cancel, tableVars
    <2> QED
      BY <2>1 DEF ChipsInv, HandsShape, Running
  <1>4. CASE WithdrawFees
    BY <1>4, StillKeepChips DEF WithdrawFees
  <1> QED
    BY <1>1, <1>2, <1>3, <1>4

LEMMA TournamentInvHolds == Spec => []TournamentInv
  <1>1. Init => TournamentInv
    <2> SUFFICES ASSUME Init PROVE TournamentInv
      OBVIOUS
    <2>1. /\ status = "registering" /\ entrants = 0 /\ remaining = 0
          /\ feeCollected = SPONSORED \div 10 /\ pool = SPONSORED - SPONSORED \div 10
          /\ balance = SPONSORED /\ feesOut = 0 /\ chipsOut = 0
          /\ hand = [t \in Tables |-> {}] /\ starting = [t \in Tables |-> {}]
      BY DEF Init, TrnInit
    <2>2. BUY_IN * 0 = 0 /\ FEE * 0 = 0 /\ (BUY_IN + FEE) * 0 = 0
      BY EntryConstants
    <2>3. MoneyShape /\ BookedEntries
      BY <2>1, <2>2, EntryConstants DEF MoneyShape, BookedEntries
    <2>4. Owed = SPONSORED
      BY <2>1, <2>2, EntryConstants DEF Owed, RefundAll
    <2>5. MoneyInv
      BY <2>1, <2>3, <2>4, EntryConstants DEF MoneyInv, Running, UntakenFeesBack, Backed
    <2>6. MAX_PLAYERS \in Nat
      BY TournamentAssumption
    <2>7. ChipsInv
      BY <2>1, <2>6 DEF ChipsInv, HandsShape, Running
    <2> QED
      BY <2>5, <2>7 DEF TournamentInv
  <1>2. TournamentInv /\ [Next]_vars => TournamentInv'
    <2> SUFFICES ASSUME TournamentInv, [Next]_vars PROVE TournamentInv'
      OBVIOUS
    <2>0. MoneyInv /\ ChipsInv
      BY DEF TournamentInv
    <2>1. ASSUME UNCHANGED trnVars PROVE TournamentInv'
      <3>1. UNCHANGED <<eventVars, tableVars>> /\ UNCHANGED <<status, entrants, remaining, moneyVars>>
        BY <2>1 DEF trnVars, eventVars
      <3> QED
        BY <2>0, <3>1, IdleKeepsMoney, StillKeepChips DEF TournamentInv
    <2>2. CASE Tick \/ CallFails \/ Restart
      BY <2>1, <2>2 DEF Tick, CallFails, Restart
    <2>3. CASE CallMined
      BY <2>3, CallMinedKeepsInv
    <2>4. CASE TableStep
      <3>1. UNCHANGED eventVars /\ UNCHANGED moneyVars
        BY <2>4 DEF TableStep, BeginStart, StartMined, HandEnds, WalkAway, Strike,
           WindowElapses, SitIn
      <3>2. UNCHANGED <<status, entrants, remaining, moneyVars>>
        BY <3>1 DEF eventVars
      <3> QED
        BY <2>0, <2>4, <3>2, IdleKeepsMoney, TableStepKeepsChips DEF TournamentInv
    <2>5. CASE Register \/ Unregister \/ Cancel \/ WithdrawFees
      BY <2>0, <2>5, EntriesKeepChips, RegisterKeepsMoney, UnregisterKeepsMoney,
         CancelKeepsMoney, WithdrawFeesKeepsMoney DEF TournamentInv
    <2>6. CASE Start
      BY <2>0, <2>6, StartKeepsMoney, StartKeepsChips DEF TournamentInv
    <2>7. CASE LevelDurationPasses
      <3>1. UNCHANGED <<eventVars, tableVars>> /\ UNCHANGED <<status, entrants, remaining, moneyVars>>
        BY <2>7 DEF LevelDurationPasses, eventVars
      <3> QED
        BY <2>0, <3>1, IdleKeepsMoney, StillKeepChips DEF TournamentInv
    <2>8. CASE UNCHANGED vars
      BY <2>1, <2>8 DEF vars
    <2> QED
      BY <2>2, <2>3, <2>4, <2>5, <2>6, <2>7, <2>8 DEF Next, Step
  <1> QED
    BY <1>1, <1>2, PTL DEF Spec

\* While its owner has not withdrawn the fees, the contract holds every entry
\* and the sponsorship of an event that may still be called off, and then every
\* prize still open with the creator's cut: entries come and go, the field plays
\* down to two, and the divisions of _prize and _hostCut round as they may
\* (PokerTournament.sol).
THEOREM UntakenFeesBackHolds == Spec => []UntakenFeesBack
  <1>1. TournamentInv => UntakenFeesBack
    BY DEF TournamentInv, MoneyInv
  <1> QED
    BY <1>1, TournamentInvHolds, PTL

\* The chips on the tables of a running event and those of the seats stood up
\* are what the field was given, and `remaining` is the number of players
\* seated: through the seating at the start, hands, moves between tables, busts
\* and forfeits, whatever the driver calls and whenever it is mined
\* (PokerTournament.sol, poker-tournament-driver.js).
THEOREM ChipsAccountedForHolds == Spec => []ChipsAccountedFor
  <1>1. TournamentInv => ChipsAccountedFor
    BY TallyIsAccount DEF TournamentInv
  <1> QED
    BY <1>1, TournamentInvHolds, PTL

=============================================================================
