------------------------- MODULE CasinoVaultProofs -------------------------
(***************************************************************************)
(* Theorems about CasinoVault, for every set of players, games, modules,   *)
(* stakes and payouts, every window and every bound.                       *)
(***************************************************************************)
EXTENDS GameGate, SumTheorems, SequenceTheorems, TLAPS

-----------------------------------------------------------------------------
\* The money primitives of VaultLedger, for every ledger.  The proofs about the
\* vault and about the games cite these and do not expand the primitives again.

\* Paying into a player's claimable sum keeps the ledger well-formed, and only
\* the debt changes.
LEMMA OweFacts ==
    ASSUME NEW L \in Ledger, NEW p \in Players, NEW a \in Nat
    PROVE  /\ Owe(L, p, a) \in Ledger
           /\ Owe(L, p, a).balance = L.balance
           /\ Owe(L, p, a).totalPending = L.totalPending + a
           /\ Owe(L, p, a).net = L.net
           /\ Owe(L, p, a).budget = L.budget
  <1> DEFINE credited == [L EXCEPT !.pending[p] = @ + a]
  <1>1. /\ credited \in Ledger
        /\ credited.balance = L.balance
        /\ credited.totalPending = L.totalPending
        /\ credited.net = L.net
        /\ credited.budget = L.budget
    BY DEF Ledger
  <1>2. Owe(L, p, a) = [credited EXCEPT !.totalPending = @ + a]
    BY DEF Owe
  <1> HIDE DEF credited
  <1> QED
    BY <1>1, <1>2 DEF Ledger

\* So does booking a signed amount to a game,
LEMMA BookType ==
    ASSUME NEW L \in Ledger, NEW g \in Games, NEW d \in Int
    PROVE  Book(L, g, d) \in Ledger
  BY DEF Book, Ledger

\* and receiving msg.value.
LEMMA ReceiveType ==
    ASSUME NEW L \in Ledger, NEW v \in Nat
    PROVE  Receive(L, v) \in Ledger
  BY DEF Receive, Ledger

\* The free bankroll is a natural number.
LEMMA FreeType ==
    ASSUME NEW L \in Ledger
    PROVE  FreeBankroll(L) \in Nat
  BY DEF FreeBankroll, Floor0, Ledger

\* What a settlement pays is between zero and each of its three bounds: the
\* payout asked for, the game's headroom and the free bankroll.
LEMMA SettledPayoutBounds ==
    ASSUME NEW L \in Ledger, NEW g \in Games, NEW stake \in Nat, NEW a \in Nat
    PROVE  LET paid == SettledPayout(L, g, stake, a)
           IN  /\ paid \in Nat
               /\ paid <= a
               /\ paid <= FreeBankroll(L)
               /\ paid <= Floor0(L.budget[g] - L.net[g] + stake)
  <1>1. L.budget[g] \in Nat /\ L.net[g] \in Int
    BY DEF Ledger
  <1> QED
    BY <1>1, FreeType DEF SettledPayout, Smaller, Floor0

\* The same for a module's credit, whose stake was booked at escrow.
LEMMA CreditedAmountBounds ==
    ASSUME NEW L \in Ledger, NEW g \in Games, NEW a \in Nat
    PROVE  LET paid == CreditedAmount(L, g, a)
           IN  /\ paid \in Nat
               /\ paid <= a
               /\ paid <= FreeBankroll(L)
               /\ paid <= Floor0(L.budget[g] - L.net[g])
  <1>1. L.budget[g] \in Nat /\ L.net[g] \in Int
    BY DEF Ledger
  <1> QED
    BY <1>1, FreeType DEF CreditedAmount, Smaller, Floor0

\* Booking leaves the balance, the debts and the budgets alone.
LEMMA BookFields ==
    ASSUME NEW L \in Ledger, NEW g \in Games, NEW d \in Int
    PROVE  /\ Book(L, g, d).balance = L.balance
           /\ Book(L, g, d).totalPending = L.totalPending
           /\ Book(L, g, d).pending = L.pending
           /\ Book(L, g, d).budget = L.budget
  BY DEF Book, Ledger

\* One game's account grew by d and the others did not move.
Booked(before, after, g, d) ==
    \A h \in Games : after[h] = IF h = g THEN before[g] + d ELSE before[h]

\* Booking adds the amount to the account of its game and to no other.
LEMMA BookAccount ==
    ASSUME NEW L \in Ledger, NEW g \in Games, NEW d \in Int
    PROVE  Booked(L.net, Book(L, g, d).net, g, d)
  BY DEF Book, Ledger, Booked

\* Receiving adds to the balance and touches nothing else.
LEMMA ReceiveFields ==
    ASSUME NEW L \in Ledger, NEW v \in Nat
    PROVE  /\ Receive(L, v).balance = L.balance + v
           /\ Receive(L, v).totalPending = L.totalPending
           /\ Receive(L, v).pending = L.pending
           /\ Receive(L, v).budget = L.budget
           /\ Receive(L, v).net = L.net
  BY DEF Receive, Ledger

\* A settlement is well-formed, pays at most what is free, and raises the
\* game's net by the payout less the stake.
LEMMA SettleFacts ==
    ASSUME NEW L \in Ledger, NEW g \in Games, NEW p \in Players,
           NEW stake \in Nat, NEW a \in Nat
    PROVE  /\ Settle(L, g, p, stake, a) \in Ledger
           /\ Settle(L, g, p, stake, a).balance = L.balance
           /\ Settle(L, g, p, stake, a).totalPending
                = L.totalPending + SettledPayout(L, g, stake, a)
           /\ Settle(L, g, p, stake, a).budget = L.budget
  <1> DEFINE paid == SettledPayout(L, g, stake, a)
             B == Book(L, g, paid - stake)
  <1>1. paid \in Nat
    BY SettledPayoutBounds
  <1>2. B \in Ledger
    BY <1>1, BookType
  <1>3. Settle(L, g, p, stake, a) = Owe(B, p, paid)
    BY DEF Settle
  <1> HIDE DEF paid
  <1>4. /\ B.balance = L.balance
        /\ B.totalPending = L.totalPending
        /\ B.budget = L.budget
    BY <1>1, BookFields
  <1> HIDE DEF B
  <1>5. Owe(B, p, paid) \in Ledger
    BY <1>1, <1>2, OweFacts
  <1>6. /\ Owe(B, p, paid).balance = B.balance
        /\ Owe(B, p, paid).totalPending = B.totalPending + paid
        /\ Owe(B, p, paid).budget = B.budget
    BY <1>1, <1>2, OweFacts
  <1> QED
    BY <1>3, <1>4, <1>5, <1>6 DEF paid

\* A settlement books to its game the payout less the stake.
LEMMA SettleAccount ==
    ASSUME NEW L \in Ledger, NEW g \in Games, NEW p \in Players,
           NEW stake \in Nat, NEW a \in Nat
    PROVE  Booked(L.net, Settle(L, g, p, stake, a).net, g,
                  SettledPayout(L, g, stake, a) - stake)
  <1> DEFINE paid == SettledPayout(L, g, stake, a)
             B == Book(L, g, paid - stake)
  <1>1. paid \in Nat
    BY SettledPayoutBounds
  <1>2. B \in Ledger
    BY <1>1, BookType
  <1>3. Settle(L, g, p, stake, a) = Owe(B, p, paid)
    BY DEF Settle
  <1> HIDE DEF paid
  <1>4. Booked(L.net, B.net, g, paid - stake)
    BY <1>1, BookAccount
  <1> HIDE DEF B
  <1>5. Owe(B, p, paid) \in Ledger
    BY <1>1, <1>2, OweFacts
  <1>6. Owe(B, p, paid).net = B.net
    BY <1>1, <1>2, OweFacts
  <1> QED
    BY <1>3, <1>4, <1>5, <1>6 DEF paid

\* A module's credit likewise, without a stake to net off.
LEMMA CreditFacts ==
    ASSUME NEW L \in Ledger, NEW g \in Games, NEW p \in Players, NEW a \in Nat
    PROVE  /\ CreditFromModule(L, g, p, a) \in Ledger
           /\ CreditFromModule(L, g, p, a).balance = L.balance
           /\ CreditFromModule(L, g, p, a).totalPending
                = L.totalPending + CreditedAmount(L, g, a)
           /\ CreditFromModule(L, g, p, a).budget = L.budget
  <1> DEFINE paid == CreditedAmount(L, g, a)
             B == Book(L, g, paid)
  <1>1. paid \in Nat
    BY CreditedAmountBounds
  <1>2. B \in Ledger
    BY <1>1, BookType
  <1>3. CreditFromModule(L, g, p, a) = Owe(B, p, paid)
    BY DEF CreditFromModule
  <1> HIDE DEF paid
  <1>4. /\ B.balance = L.balance
        /\ B.totalPending = L.totalPending
        /\ B.budget = L.budget
    BY <1>1, BookFields
  <1> HIDE DEF B
  <1>5. Owe(B, p, paid) \in Ledger
    BY <1>1, <1>2, OweFacts
  <1>6. /\ Owe(B, p, paid).balance = B.balance
        /\ Owe(B, p, paid).totalPending = B.totalPending + paid
        /\ Owe(B, p, paid).budget = B.budget
    BY <1>1, <1>2, OweFacts
  <1> QED
    BY <1>3, <1>4, <1>5, <1>6 DEF paid

\* A credit books to its game what was paid.
LEMMA CreditAccount ==
    ASSUME NEW L \in Ledger, NEW g \in Games, NEW p \in Players, NEW a \in Nat
    PROVE  Booked(L.net, CreditFromModule(L, g, p, a).net, g,
                  CreditedAmount(L, g, a))
  <1> DEFINE paid == CreditedAmount(L, g, a)
             B == Book(L, g, paid)
  <1>1. paid \in Nat
    BY CreditedAmountBounds
  <1>2. B \in Ledger
    BY <1>1, BookType
  <1>3. CreditFromModule(L, g, p, a) = Owe(B, p, paid)
    BY DEF CreditFromModule
  <1> HIDE DEF paid
  <1>4. Booked(L.net, B.net, g, paid)
    BY <1>1, BookAccount
  <1> HIDE DEF B
  <1>5. Owe(B, p, paid) \in Ledger
    BY <1>1, <1>2, OweFacts
  <1>6. Owe(B, p, paid).net = B.net
    BY <1>1, <1>2, OweFacts
  <1> QED
    BY <1>3, <1>4, <1>5, <1>6 DEF paid

\* Escrow adds the stake to the balance and takes it off the game's account.
LEMMA EscrowFacts ==
    ASSUME NEW L \in Ledger, NEW g \in Games, NEW a \in Nat
    PROVE  /\ EscrowStake(L, g, a) \in Ledger
           /\ EscrowStake(L, g, a).balance = L.balance + a
           /\ EscrowStake(L, g, a).totalPending = L.totalPending
           /\ EscrowStake(L, g, a).budget = L.budget
  <1> DEFINE R == Receive(L, a)
  <1>1. R \in Ledger
    BY ReceiveType
  <1>2. /\ R.balance = L.balance + a
        /\ R.totalPending = L.totalPending
        /\ R.budget = L.budget
    BY ReceiveFields
  <1>3. EscrowStake(L, g, a) = Book(R, g, -a)
    BY DEF EscrowStake
  <1> HIDE DEF R
  <1>4. Book(R, g, -a) \in Ledger
    BY <1>1, BookType
  <1>5. /\ Book(R, g, -a).balance = R.balance
        /\ Book(R, g, -a).totalPending = R.totalPending
        /\ Book(R, g, -a).budget = R.budget
    BY <1>1, BookFields
  <1> QED
    BY <1>2, <1>3, <1>4, <1>5

\* An escrowed stake is booked to its game as income.
LEMMA EscrowAccount ==
    ASSUME NEW L \in Ledger, NEW g \in Games, NEW a \in Nat
    PROVE  Booked(L.net, EscrowStake(L, g, a).net, g, -a)
  <1> DEFINE R == Receive(L, a)
  <1>1. R \in Ledger
    BY ReceiveType
  <1>2. R.net = L.net
    BY ReceiveFields
  <1>3. EscrowStake(L, g, a) = Book(R, g, -a)
    BY DEF EscrowStake
  <1> HIDE DEF R
  <1>4. Book(R, g, -a) \in Ledger
    BY <1>1, BookType
  <1>5. Booked(R.net, Book(R, g, -a).net, g, -a)
    BY <1>1, BookAccount
  <1> QED
    BY <1>2, <1>3, <1>4, <1>5

\* A refund adds the same amount to the debt and to the game's account.
LEMMA RefundFacts ==
    ASSUME NEW L \in Ledger, NEW g \in Games, NEW p \in Players, NEW a \in Nat
    PROVE  /\ RefundFromModule(L, g, p, a) \in Ledger
           /\ RefundFromModule(L, g, p, a).balance = L.balance
           /\ RefundFromModule(L, g, p, a).totalPending = L.totalPending + a
           /\ RefundFromModule(L, g, p, a).budget = L.budget
  <1> DEFINE B == Book(L, g, a)
  <1>1. B \in Ledger
    BY BookType
  <1>2. /\ B.balance = L.balance
        /\ B.totalPending = L.totalPending
        /\ B.budget = L.budget
    BY BookFields
  <1>3. RefundFromModule(L, g, p, a) = Owe(B, p, a)
    BY DEF RefundFromModule
  <1> HIDE DEF B
  <1>4. Owe(B, p, a) \in Ledger
    BY <1>1, OweFacts
  <1>5. /\ Owe(B, p, a).balance = B.balance
        /\ Owe(B, p, a).totalPending = B.totalPending + a
        /\ Owe(B, p, a).budget = B.budget
    BY <1>1, OweFacts
  <1> QED
    BY <1>2, <1>3, <1>4, <1>5

\* A module refund is booked to its game as a cost.
LEMMA RefundAccount ==
    ASSUME NEW L \in Ledger, NEW g \in Games, NEW p \in Players, NEW a \in Nat
    PROVE  Booked(L.net, RefundFromModule(L, g, p, a).net, g, a)
  <1> DEFINE B == Book(L, g, a)
  <1>1. B \in Ledger
    BY BookType
  <1>2. Booked(L.net, B.net, g, a)
    BY BookAccount
  <1>3. RefundFromModule(L, g, p, a) = Owe(B, p, a)
    BY DEF RefundFromModule
  <1> HIDE DEF B
  <1>4. Owe(B, p, a) \in Ledger
    BY <1>1, OweFacts
  <1>5. Owe(B, p, a).net = B.net
    BY <1>1, OweFacts
  <1> QED
    BY <1>2, <1>3, <1>4, <1>5

\* A claim that goes through pays one player in full and nothing else.
LEMMA ClaimFacts ==
    ASSUME NEW L \in Ledger, NEW p \in Players, CanClaim(L, p)
    PROVE  /\ Claim(L, p) \in Ledger
           /\ Claim(L, p).balance = L.balance - L.pending[p]
           /\ Claim(L, p).totalPending = L.totalPending - L.pending[p]
           /\ Claim(L, p).net = L.net
           /\ Claim(L, p).budget = L.budget
  <1> DEFINE zeroed  == [L EXCEPT !.pending[p] = 0]
             reduced == [zeroed EXCEPT !.totalPending = @ - L.pending[p]]
  <1>1. /\ L.pending[p] \in Nat
        /\ L.pending[p] <= L.balance
        /\ L.pending[p] <= L.totalPending
    BY DEF Ledger, CanClaim
  <1>2. /\ zeroed \in Ledger
        /\ zeroed.balance = L.balance
        /\ zeroed.totalPending = L.totalPending
        /\ zeroed.net = L.net
        /\ zeroed.budget = L.budget
    BY DEF Ledger
  <1>3. Claim(L, p) = [reduced EXCEPT !.balance = @ - L.pending[p]]
    BY DEF Claim
  <1> HIDE DEF zeroed
  <1>4. /\ reduced \in Ledger
        /\ reduced.balance = L.balance
        /\ reduced.totalPending = L.totalPending - L.pending[p]
        /\ reduced.net = L.net
        /\ reduced.budget = L.budget
    BY <1>1, <1>2 DEF Ledger
  <1> HIDE DEF reduced
  <1> QED
    BY <1>1, <1>3, <1>4 DEF Ledger

-----------------------------------------------------------------------------
\* Type correctness

\* Every update of the history list keeps it a list of bet numbers.
LEMMA RecordPlayerBetType ==
    ASSUME TypeOK, NEW p \in Players, NEW i \in Nat, RecordPlayerBet(p, i)
    PROVE  playerBets' \in [Players -> Seq(Nat)]
  <1>1. playerBets[p] \in Seq(Nat)
    BY DEF TypeOK
  <1>2. Append(playerBets[p], i) \in Seq(Nat)
    BY <1>1
  <1>3. Len(playerBets[p]) >= BET_HISTORY_CAP
          => Append(Tail(playerBets[p]), i) \in Seq(Nat)
    <2> SUFFICES ASSUME Len(playerBets[p]) >= BET_HISTORY_CAP
                 PROVE  Append(Tail(playerBets[p]), i) \in Seq(Nat)
      OBVIOUS
    <2>1. playerBets[p] # <<>>
      BY <1>1, ConstantsAssumption
    <2>2. Tail(playerBets[p]) \in Seq(Nat)
      BY <1>1, <2>1
    <2> QED
      BY <2>2
  <1>4. (IF Len(playerBets[p]) >= BET_HISTORY_CAP
         THEN Append(Tail(playerBets[p]), i)
         ELSE Append(playerBets[p], i)) \in Seq(Nat)
    BY <1>2, <1>3
  <1> QED
    BY <1>4 DEF RecordPlayerBet, TypeOK

\* The owner's actions.
LEMMA AdministerType ==
    ASSUME TypeOK, Administer
    PROVE  TypeOK'
  <1>1. ASSUME NEW m \in Modules, NEW budget \in Budgets, RegisterGame(m, budget)
        PROVE  TypeOK'
    <2>1. GameOf[m] \in Games /\ budget \in Nat
      BY ConstantsAssumption
    <2>2. ledger' \in Ledger
      BY <1>1, <2>1 DEF RegisterGame, SetBudget, TypeOK, Ledger
    <2>3. peak' \in [Games -> Nat]
      BY <1>1, <2>1 DEF RegisterGame, SetBudget, TypeOK
    <2> QED
      BY <1>1, <2>1, <2>2, <2>3
      DEF RegisterGame, SetBudget, TypeOK, seedVars, betVars
  <1>2. ASSUME NEW g \in Games, NEW active \in BOOLEAN, SetGameActive(g, active)
        PROVE  TypeOK'
    BY <1>2 DEF SetGameActive, TypeOK, seedVars, betVars, histVars
  <1>3. ASSUME NEW g \in Games, NEW budget \in Budgets, SetGameBudget(g, budget)
        PROVE  TypeOK'
    <2>1. budget \in Nat
      BY ConstantsAssumption
    <2>2. ledger' \in Ledger
      BY <1>3, <2>1 DEF SetGameBudget, SetBudget, TypeOK, Ledger
    <2>3. peak' \in [Games -> Nat]
      BY <1>3, <2>1 DEF SetGameBudget, SetBudget, TypeOK
    <2> QED
      BY <1>3, <2>2, <2>3
      DEF SetGameBudget, SetBudget, TypeOK, adminVars, seedVars, betVars
  <1>4. ASSUME NEW policy \in RiskPolicies, SetRiskPolicy(policy)
        PROVE  TypeOK'
    BY <1>4, ConstantsAssumption
    DEF SetRiskPolicy, TypeOK, seedVars, betVars, histVars
  <1>5. ASSUME NEW on \in BOOLEAN, SetPaused(on)
        PROVE  TypeOK'
    BY <1>5 DEF SetPaused, TypeOK, seedVars, betVars, histVars
  <1>6. ASSUME NEW count \in 1..MaxSeeds, ProvisionSeedHashes(count)
        PROVE  TypeOK'
    BY <1>6, ConstantsAssumption
    DEF ProvisionSeedHashes, TypeOK, adminVars, betVars, histVars
  <1>7. ASSUME NEW amount \in Deposits, DepositBankroll(amount)
        PROVE  TypeOK'
    <2>1. amount \in Nat
      BY ConstantsAssumption
    <2>2. ledger' \in Ledger
      BY <1>7, <2>1, ReceiveType DEF DepositBankroll, TypeOK
    <2> QED
      BY <1>7, <2>1, <2>2 DEF DepositBankroll, TypeOK, adminVars, seedVars, betVars
  <1> QED
    BY <1>1, <1>2, <1>3, <1>4, <1>5, <1>6, <1>7 DEF Administer

\* Placing, settling and refunding a single-shot bet.
LEMMA PlayBetType ==
    ASSUME TypeOK, PlayBet
    PROVE  TypeOK'
  <1>1. ASSUME NEW p \in Players, NEW g \in Games, NEW amount \in Stakes,
               NEW maxPayout \in Payouts, PlaceBet(p, g, amount, maxPayout)
        PROVE  TypeOK'
    <2>1. amount \in Nat
      BY ConstantsAssumption
    <2>2. ledger' \in Ledger
      BY <1>1, <2>1, ReceiveType DEF PlaceBet, TypeOK
    <2> DEFINE b == [player |-> p, amount |-> amount, game |-> g,
                     status |-> Pending, commitBlock |-> block,
                     seedIdx |-> nextHashIndex, payout |-> 0]
    <2>3. b \in Bet
      BY <2>1 DEF Bet, Pending, TypeOK
    <2>4. bets' = Append(bets, b)
      BY <1>1 DEF PlaceBet
    <2> HIDE DEF b
    <2>5. bets' \in Seq(Bet)
      BY <2>3, <2>4 DEF TypeOK
    <2>6. RecordPlayerBet(p, Len(bets) + 1) /\ Len(bets) + 1 \in Nat
      BY <1>1 DEF PlaceBet, TypeOK
    <2>7. playerBets' \in [Players -> Seq(Nat)]
      BY <2>6, RecordPlayerBetType
    <2>8. nextHashIndex' \in Nat
      BY <1>1 DEF PlaceBet, TypeOK
    <2> QED
      BY <1>1, <2>2, <2>5, <2>7, <2>8 DEF PlaceBet, TypeOK, adminVars, histVars
  <1>2. ASSUME NEW i \in 1..Len(bets), NEW payout \in Payouts \cup {0},
               RevealAndSettle(i, payout)
        PROVE  TypeOK'
    <2>1. bets[i] \in Bet /\ payout \in Nat
      BY ConstantsAssumption DEF TypeOK
    <2>2. /\ bets[i].game \in Games
          /\ bets[i].player \in Players
          /\ bets[i].amount \in Nat
          /\ bets[i].seedIdx \in Nat
      BY <2>1 DEF Bet
    <2> DEFINE paid == SettledPayout(ledger, bets[i].game, bets[i].amount, payout)
    <2>3. paid \in Nat
      BY <2>1, <2>2, SettledPayoutBounds DEF TypeOK
    <2>4. ledger' \in Ledger
      BY <1>2, <2>1, <2>2, SettleFacts DEF RevealAndSettle, TypeOK
    <2>5. bets' = [bets EXCEPT ![i].status = Settled, ![i].payout = paid]
      BY <1>2 DEF RevealAndSettle
    <2> HIDE DEF paid
    <2> DEFINE b == [bets[i] EXCEPT !.status = Settled]
               c == [b EXCEPT !.payout = paid]
    <2>6. b \in Bet
      BY <2>1 DEF Bet, Settled
    <2>7. c \in Bet
      BY <2>3, <2>6 DEF Bet
    <2>8. bets' = [bets EXCEPT ![i] = c]
      BY <2>5 DEF TypeOK
    <2> HIDE DEF c
    <2>9. bets' \in Seq(Bet)
      BY <2>7, <2>8 DEF TypeOK
    <2>10. revealed' \in SUBSET Nat
      BY <1>2, <2>2 DEF RevealAndSettle, TypeOK
    <2> QED
      BY <1>2, <2>4, <2>9, <2>10 DEF RevealAndSettle, TypeOK, adminVars, histVars
  <1>3. ASSUME NEW i \in 1..Len(bets), RefundExpired(i)
        PROVE  TypeOK'
    <2>1. bets[i] \in Bet
      BY DEF TypeOK
    <2>2. bets[i].player \in Players /\ bets[i].amount \in Nat
      BY <2>1 DEF Bet
    <2>3. ledger' \in Ledger
      BY <1>3, <2>2, OweFacts DEF RefundExpired, RefundBet, TypeOK
    <2>4. [bets[i] EXCEPT !.status = Refunded] \in Bet
      BY <2>1 DEF Bet, Refunded
    <2>5. bets' \in Seq(Bet)
      BY <1>3, <2>4 DEF RefundExpired, RefundBet, TypeOK
    <2> QED
      BY <1>3, <2>3, <2>5
      DEF RefundExpired, RefundBet, TypeOK, adminVars, seedVars, histVars
  <1> QED
    BY <1>1, <1>2, <1>3 DEF PlayBet

\* The primitives the game modules call.
LEMMA ModuleCallType ==
    ASSUME TypeOK, ModuleCall
    PROVE  TypeOK'
  <1>1. ASSUME NEW m \in EntryModules, ModuleReserveSeed(m)
        PROVE  TypeOK'
    BY <1>1 DEF ModuleReserveSeed, TypeOK, adminVars, betVars, histVars, EntryModules
  <1>2. ASSUME NEW m \in EntryModules, NEW idx \in reserved[m],
               ModuleRevealSeed(m, idx)
        PROVE  TypeOK'
    <2>1. idx \in Nat
      BY DEF TypeOK, EntryModules
    <2> QED
      BY <1>2, <2>1 DEF ModuleRevealSeed, TypeOK, adminVars, betVars, histVars
  <1>3. ASSUME NEW m \in EntryModules, NEW p \in Players, NEW amount \in Stakes,
               NEW maxPayout \in Payouts, ModuleEscrowStake(m, p, amount, maxPayout)
        PROVE  TypeOK'
    <2>1. m \in Modules /\ GameOf[m] \in Games /\ amount \in Nat
      BY ConstantsAssumption DEF EntryModules
    <2>2. ledger' \in Ledger
      BY <1>3, <2>1, EscrowFacts DEF ModuleEscrowStake, TypeOK
    <2>3. escrowed' \in [Modules -> [Players -> Int]]
      <3>1. escrowed[m] \in [Players -> Int]
        BY <2>1 DEF TypeOK
      <3>2. [escrowed[m] EXCEPT ![p] = @ + amount] \in [Players -> Int]
        BY <2>1, <3>1
      <3> QED
        BY <1>3, <2>1, <3>2 DEF ModuleEscrowStake, TypeOK
    <2>4. staked' \in Nat
      BY <1>3, <2>1 DEF ModuleEscrowStake, TypeOK
    <2> QED
      BY <1>3, <2>2, <2>3, <2>4
      DEF ModuleEscrowStake, TypeOK, adminVars, seedVars, betVars
  <1>4. ASSUME NEW m \in EntryModules, NEW p \in Players, NEW amount \in Payouts,
               ModuleCredit(m, p, amount)
        PROVE  TypeOK'
    <2>1. m \in Modules /\ GameOf[m] \in Games /\ amount \in Nat
      BY ConstantsAssumption DEF EntryModules
    <2>2. ledger' \in Ledger
      BY <1>4, <2>1, CreditFacts DEF ModuleCredit, TypeOK
    <2> QED
      BY <1>4, <2>2 DEF ModuleCredit, TypeOK, adminVars, seedVars, betVars, histVars
  <1>5. ASSUME NEW m \in EntryModules, NEW p \in Players, NEW amount \in Stakes,
               ModuleRefund(m, p, amount)
        PROVE  TypeOK'
    <2>1. m \in Modules /\ GameOf[m] \in Games /\ amount \in Nat
      BY ConstantsAssumption DEF EntryModules
    <2>2. ledger' \in Ledger
      BY <1>5, <2>1, RefundFacts DEF ModuleRefund, TypeOK
    <2>3. escrowed' \in [Modules -> [Players -> Int]]
      <3>1. escrowed[m] \in [Players -> Int]
        BY <2>1 DEF TypeOK
      <3>2. [escrowed[m] EXCEPT ![p] = @ - amount] \in [Players -> Int]
        BY <2>1, <3>1
      <3> QED
        BY <1>5, <2>1, <3>2 DEF ModuleRefund, TypeOK
    <2>4. refunded' \in [Games -> Nat]
      BY <1>5, <2>1 DEF ModuleRefund, TypeOK
    <2> QED
      BY <1>5, <2>2, <2>3, <2>4
      DEF ModuleRefund, TypeOK, adminVars, seedVars, betVars
  <1> QED
    BY <1>1, <1>2, <1>3, <1>4, <1>5 DEF ModuleCall

\* Claims and the owner's withdrawals.
LEMMA WithdrawType ==
    ASSUME TypeOK, Withdraw
    PROVE  TypeOK'
  <1>1. ASSUME NEW p \in Players, PlayerClaim(p)
        PROVE  TypeOK'
    <2>1. ledger' \in Ledger
      BY <1>1, ClaimFacts DEF PlayerClaim, TypeOK
    <2> QED
      BY <1>1, <2>1 DEF PlayerClaim, TypeOK, adminVars, seedVars, betVars, histVars
  <1>2. ASSUME NEW amount \in Deposits, ScheduleOwnerWithdraw(amount)
        PROVE  TypeOK'
    BY <1>2, ConstantsAssumption
    DEF ScheduleOwnerWithdraw, TypeOK, adminVars, seedVars, betVars, histVars
  <1>3. ASSUME ExecuteOwnerWithdraw
        PROVE  TypeOK'
    <2>1. /\ ledger.balance \in Nat /\ ledger.totalPending \in Nat
          /\ ownerWithdrawal \in Nat
      BY DEF TypeOK, Ledger
    <2>2. ownerWithdrawal <= ledger.balance
      BY <1>3, <2>1 DEF ExecuteOwnerWithdraw, FreeBankroll, Floor0
    <2>3. ledger' \in Ledger
      <3>1. ledger' = [ledger EXCEPT !.balance = @ - ownerWithdrawal]
        BY <1>3 DEF ExecuteOwnerWithdraw
      <3>2. ledger.balance - ownerWithdrawal \in Nat
        BY <2>1, <2>2
      <3> QED
        BY <3>1, <3>2 DEF TypeOK, Ledger
    <2> QED
      BY <1>3, <2>3 DEF ExecuteOwnerWithdraw, TypeOK, adminVars, seedVars, betVars
  <1>4. ASSUME CancelOwnerWithdraw
        PROVE  TypeOK'
    BY <1>4 DEF CancelOwnerWithdraw, TypeOK, adminVars, seedVars, betVars, histVars
  <1> QED
    BY <1>1, <1>2, <1>3, <1>4 DEF Withdraw

\* The initial state is well-typed,
LEMMA InitType == Init => TypeOK
  <1> SUFFICES ASSUME Init PROVE TypeOK
    OBVIOUS
  <1>1. ledger \in Ledger
    <2>1. /\ [p \in Players |-> 0] \in [Players -> Nat]
          /\ [g \in Games |-> 0] \in [Games -> Int]
          /\ [g \in Games |-> 0] \in [Games -> Nat]
      OBVIOUS
    <2> QED
      BY <2>1 DEF Init, EmptyLedger, Ledger
  <1>2. risk \in Risk
    BY ConstantsAssumption DEF Init
  <1>3. escrowed \in [Modules -> [Players -> Int]]
    BY DEF Init
  <1>4. bets \in Seq(Bet) /\ playerBets \in [Players -> Seq(Nat)]
    BY DEF Init
  <1>5. /\ gameModule \in [Games -> Modules \cup {NoModule}]
        /\ isModule \in [Modules -> BOOLEAN]
        /\ gameActive \in [Games -> BOOLEAN]
        /\ paused \in BOOLEAN
    BY DEF Init
  <1>6. /\ revealed \in SUBSET Nat
        /\ reserved \in [Modules -> SUBSET Nat]
        /\ refunded \in [Games -> Nat]
        /\ peak \in [Games -> Nat]
    BY DEF Init
  <1>7. /\ block \in Nat /\ seedCount \in Nat /\ nextHashIndex \in Nat
        /\ ownerWithdrawal \in Nat /\ capital \in Int /\ staked \in Nat
    BY DEF Init
  <1> QED
    BY <1>1, <1>2, <1>3, <1>4, <1>5, <1>6, <1>7 DEF TypeOK

\* and every step keeps it so.
LEMMA NextType == TypeOK /\ [Next]_vars => TypeOK'
  <1> SUFFICES ASSUME TypeOK, [Next]_vars PROVE TypeOK'
    OBVIOUS
  <1>1. CASE Tick
    BY <1>1 DEF Tick, TypeOK, adminVars, seedVars, betVars, histVars
  <1>2. CASE UNCHANGED vars
    BY <1>2 DEF vars, TypeOK, adminVars, seedVars, betVars, histVars
  <1> QED
    BY <1>1, <1>2, AdministerType, PlayBetType, ModuleCallType, WithdrawType DEF Next

\* The vault's state always has the types the contract declares; in particular
\* its balance and its debts never go negative.
THEOREM TypeCorrect == Spec => []TypeOK
  <1> QED
    BY InitType, NextType, PTL DEF Spec

-----------------------------------------------------------------------------
\* Blast radius

\* No game's current budget exceeds the largest one it ever had.  BlastRadius
\* alone is not inductive: a credit is clamped against the current budget.
BudgetBelowPeak == \A g \in Games : ledger.budget[g] <= peak[g]

BudgetInv == BlastRadius /\ BudgetBelowPeak

\* A step that books to a game no more than its headroom keeps BudgetInv.
LEMMA BookingKeepsBudgetInv ==
    ASSUME TypeOK, BudgetInv, TypeOK', UNCHANGED peak,
           NEW g \in Games, NEW d \in Int, NEW back \in Nat,
           Booked(ledger.net, ledger'.net, g, d),
           ledger'.budget = ledger.budget,
           refunded' = [refunded EXCEPT ![g] = @ + back],
           d <= back \/ d <= ledger.budget[g] - ledger.net[g]
    PROVE  BudgetInv'
  <1>1. /\ ledger.net \in [Games -> Int]
        /\ ledger.budget \in [Games -> Nat]
        /\ peak \in [Games -> Nat]
        /\ refunded \in [Games -> Nat]
    BY DEF TypeOK, Ledger
  <1>2. BudgetBelowPeak'
    BY DEF BudgetInv, BudgetBelowPeak
  <1>3. ASSUME NEW h \in Games
        PROVE  ledger'.net[h] <= peak'[h] + refunded'[h]
    <2>1. /\ ledger.net[h] <= peak[h] + refunded[h]
          /\ ledger.budget[h] <= peak[h]
      BY DEF BudgetInv, BlastRadius, BudgetBelowPeak
    <2>2. CASE h = g
      BY <1>1, <2>1, <2>2 DEF Booked
    <2>3. CASE h # g
      BY <1>1, <2>1, <2>3 DEF Booked
    <2> QED
      BY <2>2, <2>3
  <1> QED
    BY <1>2, <1>3 DEF BudgetInv, BlastRadius

\* So does a step that leaves every account and budget alone.
LEMMA IdleKeepsBudgetInv ==
    ASSUME BudgetInv, UNCHANGED <<peak, refunded>>,
           ledger'.net = ledger.net, ledger'.budget = ledger.budget
    PROVE  BudgetInv'
  BY DEF BudgetInv, BlastRadius, BudgetBelowPeak

\* And giving a game a new budget.
LEMMA SetBudgetKeepsBudgetInv ==
    ASSUME TypeOK, BudgetInv, NEW g \in Games, NEW budget \in Nat,
           SetBudget(g, budget)
    PROVE  BudgetInv'
  <1>1. /\ ledger.net \in [Games -> Int]
        /\ ledger.budget \in [Games -> Nat]
        /\ peak \in [Games -> Nat]
        /\ refunded \in [Games -> Nat]
    BY DEF TypeOK, Ledger
  <1>2. /\ ledger'.net = ledger.net
        /\ ledger'.budget = [ledger.budget EXCEPT ![g] = budget]
        /\ peak' = [peak EXCEPT ![g] = IF budget > @ THEN budget ELSE @]
        /\ refunded' = refunded
    BY DEF SetBudget, TypeOK, Ledger
  <1>3. ASSUME NEW h \in Games
        PROVE  /\ ledger'.net[h] <= peak'[h] + refunded'[h]
               /\ ledger'.budget[h] <= peak'[h]
    <2>1. /\ ledger.net[h] <= peak[h] + refunded[h]
          /\ ledger.budget[h] <= peak[h]
      BY DEF BudgetInv, BlastRadius, BudgetBelowPeak
    <2> QED
      BY <1>1, <1>2, <2>1
  <1> QED
    BY <1>3 DEF BudgetInv, BlastRadius, BudgetBelowPeak

\* Every action keeps BudgetInv: each books to a game at most its headroom or
\* what it hands back.
LEMMA NextBudgetInv ==
    ASSUME TypeOK, BudgetInv, [Next]_vars, TypeOK'
    PROVE  BudgetInv'
  <1>0. /\ ledger \in Ledger
        /\ ledger.net \in [Games -> Int] /\ ledger.budget \in [Games -> Nat]
        /\ refunded \in [Games -> Nat]
    BY DEF TypeOK, Ledger
  <1>1. ASSUME NEW m \in Modules, NEW budget \in Budgets, RegisterGame(m, budget)
        PROVE  BudgetInv'
    BY <1>1, ConstantsAssumption, SetBudgetKeepsBudgetInv DEF RegisterGame
  <1>2. ASSUME NEW g \in Games, NEW active \in BOOLEAN, SetGameActive(g, active)
        PROVE  BudgetInv'
    BY <1>2, IdleKeepsBudgetInv DEF SetGameActive, histVars
  <1>3. ASSUME NEW g \in Games, NEW budget \in Budgets, SetGameBudget(g, budget)
        PROVE  BudgetInv'
    BY <1>3, ConstantsAssumption, SetBudgetKeepsBudgetInv DEF SetGameBudget
  <1>4. ASSUME NEW policy \in RiskPolicies, SetRiskPolicy(policy)
        PROVE  BudgetInv'
    BY <1>4, IdleKeepsBudgetInv DEF SetRiskPolicy, histVars
  <1>5. ASSUME NEW on \in BOOLEAN, SetPaused(on)
        PROVE  BudgetInv'
    BY <1>5, IdleKeepsBudgetInv DEF SetPaused, histVars
  <1>6. ASSUME NEW count \in 1..MaxSeeds, ProvisionSeedHashes(count)
        PROVE  BudgetInv'
    BY <1>6, IdleKeepsBudgetInv DEF ProvisionSeedHashes, histVars
  <1>7. ASSUME NEW amount \in Deposits, DepositBankroll(amount)
        PROVE  BudgetInv'
    BY <1>0, <1>7, ConstantsAssumption, ReceiveFields, IdleKeepsBudgetInv
    DEF DepositBankroll
  <1>8. ASSUME NEW p \in Players, NEW g \in Games, NEW amount \in Stakes,
               NEW maxPayout \in Payouts, PlaceBet(p, g, amount, maxPayout)
        PROVE  BudgetInv'
    BY <1>0, <1>8, ConstantsAssumption, ReceiveFields, IdleKeepsBudgetInv
    DEF PlaceBet, histVars
  <1>9. ASSUME NEW i \in 1..Len(bets), NEW payout \in Payouts \cup {0},
               RevealAndSettle(i, payout)
        PROVE  BudgetInv'
    <2> DEFINE g == bets[i].game
               stake == bets[i].amount
               paid == SettledPayout(ledger, g, stake, payout)
    <2>1. bets[i] \in Bet /\ payout \in Nat
      BY ConstantsAssumption DEF TypeOK
    <2>2. g \in Games /\ stake \in Nat /\ bets[i].player \in Players
      BY <2>1 DEF Bet
    <2>3. /\ paid \in Nat
          /\ paid <= Floor0(ledger.budget[g] - ledger.net[g] + stake)
      BY <1>0, <2>1, <2>2, SettledPayoutBounds
    <2>4. /\ Booked(ledger.net, ledger'.net, g, paid - stake)
          /\ ledger'.budget = ledger.budget
      <3>1. ledger' = Settle(ledger, g, bets[i].player, stake, payout)
        BY <1>9 DEF RevealAndSettle
      <3> HIDE DEF g, stake
      <3>2. Booked(ledger.net, ledger'.net, g, paid - stake)
        BY <1>0, <2>1, <2>2, <3>1, SettleAccount
      <3>3. ledger'.budget = ledger.budget
        BY <1>0, <2>1, <2>2, <3>1, SettleFacts
      <3> QED
        BY <3>2, <3>3
    <2>5. ledger.budget[g] \in Nat /\ ledger.net[g] \in Int
      BY <1>0, <2>2
    <2> HIDE DEF paid
    <2>6. paid - stake <= 0 \/ paid - stake <= ledger.budget[g] - ledger.net[g]
      BY <2>2, <2>3, <2>5 DEF Floor0
    <2>7. UNCHANGED <<peak, refunded>>
      BY <1>9 DEF RevealAndSettle, histVars
    <2>9. paid - stake \in Int
      BY <2>2, <2>3
    <2> HIDE DEF g, stake
    <2>8. refunded' = [refunded EXCEPT ![g] = @ + 0]
      BY <1>0, <2>2, <2>7
    <2> QED
      BY <2>2, <2>4, <2>6, <2>7, <2>8, <2>9, BookingKeepsBudgetInv
  <1>10. ASSUME NEW i \in 1..Len(bets), RefundExpired(i)
         PROVE  BudgetInv'
    <2>1. bets[i] \in Bet
      BY DEF TypeOK
    <2>2. bets[i].player \in Players /\ bets[i].amount \in Nat
      BY <2>1 DEF Bet
    <2>3. ledger' = Owe(ledger, bets[i].player, bets[i].amount)
      BY <1>10 DEF RefundExpired, RefundBet
    <2>4. ledger'.net = ledger.net /\ ledger'.budget = ledger.budget
      BY <1>0, <2>2, <2>3, OweFacts
    <2>5. UNCHANGED <<peak, refunded>>
      BY <1>10 DEF RefundExpired, RefundBet, histVars
    <2> QED
      BY <2>4, <2>5, IdleKeepsBudgetInv
  <1>11. ASSUME NEW m \in EntryModules, ModuleReserveSeed(m)
         PROVE  BudgetInv'
    BY <1>11, IdleKeepsBudgetInv DEF ModuleReserveSeed, histVars
  <1>12. ASSUME NEW m \in EntryModules, NEW idx \in reserved[m],
                ModuleRevealSeed(m, idx)
         PROVE  BudgetInv'
    BY <1>12, IdleKeepsBudgetInv DEF ModuleRevealSeed, histVars
  <1>13. ASSUME NEW m \in EntryModules, NEW p \in Players, NEW amount \in Stakes,
                NEW maxPayout \in Payouts, ModuleEscrowStake(m, p, amount, maxPayout)
         PROVE  BudgetInv'
    <2>1. GameOf[m] \in Games /\ amount \in Nat
      BY ConstantsAssumption DEF EntryModules
    <2>2. /\ Booked(ledger.net, ledger'.net, GameOf[m], -amount)
          /\ ledger'.budget = ledger.budget
      <3>1. ledger' = EscrowStake(ledger, GameOf[m], amount)
        BY <1>13 DEF ModuleEscrowStake
      <3>2. Booked(ledger.net, ledger'.net, GameOf[m], -amount)
        BY <1>0, <2>1, <3>1, EscrowAccount
      <3>3. ledger'.budget = ledger.budget
        BY <1>0, <2>1, <3>1, EscrowFacts
      <3> QED
        BY <3>2, <3>3
    <2>3. UNCHANGED <<peak, refunded>>
      BY <1>13 DEF ModuleEscrowStake
    <2>4. refunded' = [refunded EXCEPT ![GameOf[m]] = @ + 0]
      BY <1>0, <2>1, <2>3
    <2>5. -amount \in Int /\ -amount <= 0
      BY <2>1
    <2> QED
      BY <2>1, <2>2, <2>3, <2>4, <2>5, BookingKeepsBudgetInv
  <1>14. ASSUME NEW m \in EntryModules, NEW p \in Players, NEW amount \in Payouts,
                ModuleCredit(m, p, amount)
         PROVE  BudgetInv'
    <2> DEFINE g == GameOf[m]
               paid == CreditedAmount(ledger, g, amount)
    <2>1. g \in Games /\ amount \in Nat
      BY ConstantsAssumption DEF EntryModules
    <2>2. paid \in Nat /\ paid <= Floor0(ledger.budget[g] - ledger.net[g])
      BY <1>0, <2>1, CreditedAmountBounds
    <2>3. /\ Booked(ledger.net, ledger'.net, g, paid)
          /\ ledger'.budget = ledger.budget
      <3>1. ledger' = CreditFromModule(ledger, g, p, amount)
        BY <1>14 DEF ModuleCredit
      <3> HIDE DEF g
      <3>2. Booked(ledger.net, ledger'.net, g, paid)
        BY <1>0, <2>1, <3>1, CreditAccount
      <3>3. ledger'.budget = ledger.budget
        BY <1>0, <2>1, <3>1, CreditFacts
      <3> QED
        BY <3>2, <3>3
    <2>4. ledger.budget[g] \in Nat /\ ledger.net[g] \in Int
      BY <1>0, <2>1
    <2> HIDE DEF paid
    <2>5. paid <= 0 \/ paid <= ledger.budget[g] - ledger.net[g]
      BY <2>2, <2>4 DEF Floor0
    <2>6. UNCHANGED <<peak, refunded>>
      BY <1>14 DEF ModuleCredit, histVars
    <2> HIDE DEF g
    <2>7. refunded' = [refunded EXCEPT ![g] = @ + 0]
      BY <1>0, <2>1, <2>6
    <2>8. paid \in Int
      BY <2>2
    <2> QED
      BY <2>1, <2>3, <2>5, <2>6, <2>7, <2>8, BookingKeepsBudgetInv
  <1>15. ASSUME NEW m \in EntryModules, NEW p \in Players, NEW amount \in Stakes,
                ModuleRefund(m, p, amount)
         PROVE  BudgetInv'
    <2>1. GameOf[m] \in Games /\ amount \in Nat
      BY ConstantsAssumption DEF EntryModules
    <2>2. /\ Booked(ledger.net, ledger'.net, GameOf[m], amount)
          /\ ledger'.budget = ledger.budget
      <3>1. ledger' = RefundFromModule(ledger, GameOf[m], p, amount)
        BY <1>15 DEF ModuleRefund
      <3>2. Booked(ledger.net, ledger'.net, GameOf[m], amount)
        BY <1>0, <2>1, <3>1, RefundAccount
      <3>3. ledger'.budget = ledger.budget
        BY <1>0, <2>1, <3>1, RefundFacts
      <3> QED
        BY <3>2, <3>3
    <2>3. refunded' = [refunded EXCEPT ![GameOf[m]] = @ + amount] /\ peak' = peak
      BY <1>15 DEF ModuleRefund
    <2>4. amount \in Int /\ amount <= amount
      BY <2>1
    <2> QED
      BY <2>1, <2>2, <2>3, <2>4, BookingKeepsBudgetInv
  <1>16. ASSUME NEW p \in Players, PlayerClaim(p)
         PROVE  BudgetInv'
    BY <1>0, <1>16, ClaimFacts, IdleKeepsBudgetInv DEF PlayerClaim, histVars
  <1>17. ASSUME NEW amount \in Deposits, ScheduleOwnerWithdraw(amount)
         PROVE  BudgetInv'
    BY <1>17, IdleKeepsBudgetInv DEF ScheduleOwnerWithdraw, histVars
  <1>18. ASSUME ExecuteOwnerWithdraw
         PROVE  BudgetInv'
    BY <1>0, <1>18, IdleKeepsBudgetInv DEF ExecuteOwnerWithdraw, Ledger
  <1>19. ASSUME CancelOwnerWithdraw
         PROVE  BudgetInv'
    BY <1>19, IdleKeepsBudgetInv DEF CancelOwnerWithdraw, histVars
  <1>20. ASSUME Tick
         PROVE  BudgetInv'
    BY <1>20, IdleKeepsBudgetInv DEF Tick, histVars
  <1>21. ASSUME UNCHANGED vars
         PROVE  BudgetInv'
    BY <1>21, IdleKeepsBudgetInv DEF vars, histVars
  <1>22. Administer => BudgetInv'
    BY <1>1, <1>2, <1>3, <1>4, <1>5, <1>6, <1>7 DEF Administer
  <1>23. PlayBet => BudgetInv'
    BY <1>8, <1>9, <1>10 DEF PlayBet
  <1>24. ModuleCall => BudgetInv'
    BY <1>11, <1>12, <1>13, <1>14, <1>15 DEF ModuleCall
  <1>25. Withdraw => BudgetInv'
    BY <1>16, <1>17, <1>18, <1>19 DEF Withdraw
  <1> QED
    BY <1>20, <1>21, <1>22, <1>23, <1>24, <1>25 DEF Next

\* Whatever its modules quote, resolve or ask for, no game ever costs the house
\* more than the largest budget the owner gave it plus the stakes it handed
\* back.
THEOREM BlastRadiusHolds == Spec => []BlastRadius
  <1>1. Init => BudgetInv
    <2> SUFFICES ASSUME Init PROVE BudgetInv
      OBVIOUS
    <2>1. ASSUME NEW g \in Games
          PROVE  /\ ledger.net[g] = 0 /\ ledger.budget[g] = 0
                 /\ peak[g] = 0 /\ refunded[g] = 0
      BY DEF Init, EmptyLedger
    <2> QED
      BY <2>1 DEF BudgetInv, BlastRadius, BudgetBelowPeak
  <1>2. TypeOK /\ TypeOK' /\ BudgetInv /\ [Next]_vars => BudgetInv'
    BY NextBudgetInv
  <1>3. BudgetInv => BlastRadius
    BY DEF BudgetInv
  <1> QED
    BY <1>1, <1>2, <1>3, TypeCorrect, PTL DEF Spec

-----------------------------------------------------------------------------
\* Seeds

\* Nothing is public that was not handed out: without it a placement could pick
\* a seed that is already known.
RevealedWereConsumed == \A idx \in revealed : idx < nextHashIndex

SeedInv == SeedsUsedOnce /\ SeedPublicIffSettled /\ RevealedWereConsumed

\* A step that neither hands out, reveals nor decides anything keeps SeedInv.
LEMMA IdleKeepsSeedInv ==
    ASSUME SeedInv, UNCHANGED <<bets, nextHashIndex, revealed, reserved>>,
           TypeOK, seedCount' \in Nat, seedCount' >= seedCount
    PROVE  SeedInv'
  <1>1. nextHashIndex <= seedCount' /\ nextHashIndex' = nextHashIndex
    BY DEF SeedInv, SeedsUsedOnce, TypeOK
  <1>2. SeedsUsedOnce'
    BY <1>1 DEF SeedInv, SeedsUsedOnce
  <1>3. SeedPublicIffSettled' /\ RevealedWereConsumed'
    BY DEF SeedInv, SeedPublicIffSettled, RevealedWereConsumed
  <1> QED
    BY <1>2, <1>3 DEF SeedInv

\* A placement takes the next index, which no bet or module has and nothing
\* revealed.
LEMMA PlaceBetSeedInv ==
    ASSUME TypeOK, SeedInv, NEW p \in Players, NEW g \in Games,
           NEW amount \in Stakes, NEW maxPayout \in Payouts,
           PlaceBet(p, g, amount, maxPayout)
    PROVE  SeedInv'
  <1> DEFINE n == Len(bets)
             b == [player |-> p, amount |-> amount, game |-> g,
                   status |-> Pending, commitBlock |-> block,
                   seedIdx |-> nextHashIndex, payout |-> 0]
  <1>1. /\ nextHashIndex < seedCount
        /\ nextHashIndex' = nextHashIndex + 1
        /\ bets' = Append(bets, b)
        /\ UNCHANGED <<seedCount, revealed, reserved>>
    BY DEF PlaceBet
  <1>2. n \in Nat /\ nextHashIndex \in Nat /\ seedCount \in Nat
    BY DEF TypeOK
  <1>3. b.seedIdx = nextHashIndex /\ b.status = Pending
    OBVIOUS
  <1> HIDE DEF b
  <1>4. /\ Len(bets') = n + 1
        /\ bets'[n + 1] = b
        /\ \A i \in 1..n : bets'[i] = bets[i]
    BY <1>1 DEF TypeOK
  <1> HIDE DEF n
  <1>5. \A i \in 1..n : bets[i].seedIdx < nextHashIndex /\ bets[i].seedIdx \in Nat
    <2> TAKE i \in 1..n
    <2>1. bets[i] \in Bet
      BY DEF TypeOK, n
    <2>2. bets[i].seedIdx \in Nat
      BY <2>1 DEF Bet
    <2> QED
      BY <2>2 DEF SeedInv, SeedsUsedOnce, n
  <1>6. \A i \in 1..Len(bets') :
            \/ i \in 1..n /\ bets'[i] = bets[i]
            \/ i = n + 1 /\ bets'[i] = b
    BY <1>2, <1>4
  <1>7. \A i \in 1..Len(bets') : bets'[i].seedIdx < nextHashIndex'
    BY <1>1, <1>2, <1>3, <1>5, <1>6
  <1>8. \A i, j \in 1..Len(bets') : bets'[i].seedIdx = bets'[j].seedIdx => i = j
    <2> TAKE i, j \in 1..Len(bets')
    <2>1. CASE i \in 1..n /\ j \in 1..n
      BY <1>4, <2>1 DEF SeedInv, SeedsUsedOnce, n
    <2>2. CASE i \in 1..n /\ j = n + 1
      BY <1>2, <1>3, <1>4, <1>5, <2>2
    <2>3. CASE i = n + 1 /\ j \in 1..n
      BY <1>2, <1>3, <1>4, <1>5, <2>3
    <2> QED
      BY <1>6, <2>1, <2>2, <2>3
  <1>9. \A m \in Modules : \A idx \in reserved'[m] :
            /\ idx < nextHashIndex'
            /\ \A i \in 1..Len(bets') : bets'[i].seedIdx # idx
            /\ \A o \in Modules \ {m} : idx \notin reserved'[o]
    <2> TAKE m \in Modules
    <2> TAKE idx \in reserved'[m]
    <2>1. idx \in reserved[m] /\ idx \in Nat
      BY <1>1 DEF TypeOK
    <2>2. /\ idx < nextHashIndex
          /\ \A i \in 1..n : bets[i].seedIdx # idx
          /\ \A o \in Modules \ {m} : idx \notin reserved[o]
      BY <2>1 DEF SeedInv, SeedsUsedOnce, n
    <2>3. idx < nextHashIndex'
      BY <1>1, <1>2, <2>1, <2>2
    <2>4. \A i \in 1..Len(bets') : bets'[i].seedIdx # idx
      BY <1>2, <1>3, <1>6, <2>1, <2>2
    <2> QED
      BY <1>1, <2>2, <2>3, <2>4
  <1>10. nextHashIndex' <= seedCount'
    BY <1>1, <1>2
  <1>11. nextHashIndex \notin revealed
    BY <1>2 DEF SeedInv, RevealedWereConsumed, TypeOK
  <1>12. SeedPublicIffSettled'
    <2> SUFFICES ASSUME NEW i \in 1..Len(bets')
                 PROVE  bets'[i].seedIdx \in revealed' <=> bets'[i].status = Settled
      BY DEF SeedPublicIffSettled
    <2>1. CASE i \in 1..n /\ bets'[i] = bets[i]
      BY <1>1, <2>1 DEF SeedInv, SeedPublicIffSettled, n
    <2>2. CASE i = n + 1 /\ bets'[i] = b
      BY <1>1, <1>3, <1>11, <2>2 DEF Pending, Settled
    <2> QED
      BY <1>6, <2>1, <2>2
  <1>13. RevealedWereConsumed'
    BY <1>1, <1>2 DEF SeedInv, RevealedWereConsumed, TypeOK
  <1> QED
    BY <1>7, <1>8, <1>9, <1>10, <1>12, <1>13 DEF SeedInv, SeedsUsedOnce

\* A settlement makes public exactly the seed of the bet it settles.
LEMMA DecideKeepsSeedInv ==
    ASSUME TypeOK, SeedInv, NEW i \in 1..Len(bets), NEW b \in Bet,
           b.seedIdx = bets[i].seedIdx,
           bets' = [bets EXCEPT ![i] = b],
           UNCHANGED <<seedCount, nextHashIndex, reserved>>,
           \/ b.status = Settled /\ revealed' = revealed \cup {b.seedIdx}
           \/ /\ b.status # Settled
              /\ bets[i].status # Settled
              /\ revealed' = revealed
    PROVE  SeedInv'
  <1>1. /\ Len(bets') = Len(bets)
        /\ bets'[i] = b
        /\ \A j \in 1..Len(bets) : j # i => bets'[j] = bets[j]
    BY DEF TypeOK
  <1>2. \A j \in 1..Len(bets) : bets'[j].seedIdx = bets[j].seedIdx
    BY <1>1
  <1>3. SeedsUsedOnce'
    BY <1>1, <1>2 DEF SeedInv, SeedsUsedOnce
  <1>4. SeedPublicIffSettled'
    <2> SUFFICES ASSUME NEW j \in 1..Len(bets)
                 PROVE  bets'[j].seedIdx \in revealed' <=> bets'[j].status = Settled
      BY <1>1 DEF SeedPublicIffSettled
    <2>1. bets[j].seedIdx \in revealed <=> bets[j].status = Settled
      BY DEF SeedInv, SeedPublicIffSettled
    <2>2. j # i => bets[j].seedIdx # bets[i].seedIdx
      BY DEF SeedInv, SeedsUsedOnce
    <2>3. CASE j = i
      BY <1>1, <2>1, <2>3
    <2>4. CASE j # i
      BY <1>1, <2>1, <2>2, <2>4
    <2> QED
      BY <2>3, <2>4
  <1>5. RevealedWereConsumed'
    BY DEF SeedInv, SeedsUsedOnce, RevealedWereConsumed
  <1> QED
    BY <1>3, <1>4, <1>5 DEF SeedInv

\* A module takes the next index, and reveals only indices that no bet has.
LEMMA ModuleSeedInv ==
    ASSUME TypeOK, SeedInv, NEW m \in Modules
    PROVE  /\ ModuleReserveSeed(m) => SeedInv'
           /\ \A idx \in reserved[m] : ModuleRevealSeed(m, idx) => SeedInv'
  <1>1. ASSUME ModuleReserveSeed(m)
        PROVE  SeedInv'
    <2>1. /\ nextHashIndex < seedCount
          /\ nextHashIndex' = nextHashIndex + 1
          /\ reserved' = [reserved EXCEPT ![m] = @ \cup {nextHashIndex}]
          /\ UNCHANGED <<seedCount, revealed, bets>>
      BY <1>1 DEF ModuleReserveSeed, betVars
    <2>2. nextHashIndex \in Nat /\ seedCount \in Nat /\ reserved \in [Modules -> SUBSET Nat]
      BY DEF TypeOK
    <2>3. \A i \in 1..Len(bets) : bets[i].seedIdx \in Nat
      <3> TAKE i \in 1..Len(bets)
      <3>1. bets[i] \in Bet
        BY DEF TypeOK
      <3> QED
        BY <3>1 DEF Bet
    <2>4. \A o \in Modules : \A idx \in reserved'[o] :
             \/ idx \in reserved[o]
             \/ o = m /\ idx = nextHashIndex
      BY <2>1, <2>2
    <2>5. \A o \in Modules : nextHashIndex \notin reserved[o]
      BY <2>2 DEF SeedInv, SeedsUsedOnce
    <2>6. \A o \in Modules : \A idx \in reserved'[o] : idx < nextHashIndex'
      BY <2>1, <2>2, <2>4 DEF SeedInv, SeedsUsedOnce
    <2>7. \A o \in Modules : \A idx \in reserved'[o] :
             \A i \in 1..Len(bets) : bets[i].seedIdx # idx
      BY <2>2, <2>3, <2>4 DEF SeedInv, SeedsUsedOnce
    <2>8. \A o \in Modules : \A idx \in reserved'[o] :
             \A q \in Modules \ {o} : idx \notin reserved'[q]
      BY <2>2, <2>4, <2>5 DEF SeedInv, SeedsUsedOnce
    <2>9. \A i \in 1..Len(bets) : bets[i].seedIdx < nextHashIndex'
      BY <2>1, <2>2, <2>3 DEF SeedInv, SeedsUsedOnce
    <2>10. SeedsUsedOnce'
      BY <2>1, <2>2, <2>6, <2>7, <2>8, <2>9 DEF SeedInv, SeedsUsedOnce
    <2>11. SeedPublicIffSettled'
      BY <2>1 DEF SeedInv, SeedPublicIffSettled
    <2>12. RevealedWereConsumed'
      BY <2>1, <2>2 DEF SeedInv, RevealedWereConsumed, TypeOK
    <2> QED
      BY <2>10, <2>11, <2>12 DEF SeedInv
  <1>2. ASSUME NEW idx \in reserved[m], ModuleRevealSeed(m, idx)
        PROVE  SeedInv'
    <2>1. /\ revealed' = revealed \cup {idx}
          /\ UNCHANGED <<seedCount, nextHashIndex, reserved, bets>>
      BY <1>2 DEF ModuleRevealSeed, betVars
    <2>2. idx < nextHashIndex /\ \A i \in 1..Len(bets) : bets[i].seedIdx # idx
      BY DEF SeedInv, SeedsUsedOnce
    <2>3. SeedsUsedOnce'
      BY <2>1 DEF SeedInv, SeedsUsedOnce
    <2>4. SeedPublicIffSettled'
      BY <2>1, <2>2 DEF SeedInv, SeedPublicIffSettled
    <2>5. RevealedWereConsumed'
      BY <2>1, <2>2 DEF SeedInv, RevealedWereConsumed
    <2> QED
      BY <2>3, <2>4, <2>5 DEF SeedInv
  <1> QED
    BY <1>1, <1>2

\* Every action keeps SeedInv.
LEMMA NextSeedInv ==
    ASSUME TypeOK, SeedInv, [Next]_vars, TypeOK'
    PROVE  SeedInv'
  <1>0. seedCount \in Nat /\ seedCount' \in Nat
    BY DEF TypeOK
  <1>1. ASSUME Administer
        PROVE  SeedInv'
    <2>1. /\ UNCHANGED <<bets, nextHashIndex, revealed, reserved>>
          /\ seedCount' = seedCount \/ seedCount' >= seedCount
      <3>1. ASSUME NEW count \in 1..MaxSeeds, ProvisionSeedHashes(count)
            PROVE  /\ UNCHANGED <<bets, nextHashIndex, revealed, reserved>>
                   /\ seedCount' >= seedCount
        BY <1>0, <3>1, ConstantsAssumption DEF ProvisionSeedHashes, betVars
      <3>2. ASSUME ~\E count \in 1..MaxSeeds : ProvisionSeedHashes(count)
            PROVE  UNCHANGED <<bets, nextHashIndex, revealed, reserved, seedCount>>
        BY <1>1, <3>2
        DEF Administer, RegisterGame, SetGameActive, SetGameBudget, SetRiskPolicy,
            SetPaused, DepositBankroll, seedVars, betVars
      <3> QED
        BY <3>1, <3>2
    <2>2. seedCount' >= seedCount
      BY <1>0, <2>1
    <2> QED
      BY <1>0, <2>1, <2>2, IdleKeepsSeedInv
  <1>2. ASSUME NEW i \in 1..Len(bets), NEW payout \in Payouts \cup {0},
               RevealAndSettle(i, payout)
        PROVE  SeedInv'
    <2> DEFINE b == bets'[i]
    <2>1. bets \in Seq(Bet) /\ bets' \in Seq(Bet)
      BY DEF TypeOK
    <2>2. bets' = [bets EXCEPT ![i] = b]
      BY <1>2, <2>1 DEF RevealAndSettle
    <2>3. i \in 1..Len(bets')
      BY <1>2, <2>1 DEF RevealAndSettle
    <2>4. b \in Bet /\ bets[i] \in Bet
      BY <2>1, <2>3
    <2>5. b.status = Settled /\ b.seedIdx = bets[i].seedIdx
      <3> DEFINE paid == SettledPayout(ledger, bets[i].game, bets[i].amount, payout)
      <3>1. bets' = [bets EXCEPT ![i].status = Settled, ![i].payout = paid]
        BY <1>2 DEF RevealAndSettle
      <3> HIDE DEF paid
      <3>2. b = [[bets[i] EXCEPT !.status = Settled] EXCEPT !.payout = paid]
        <4>1. i \in DOMAIN bets
          BY <1>2, <2>1
        <4> QED
          BY ONLY <3>1, <4>1, Zenon
      <3> QED
        BY <2>4, <3>2 DEF Bet
    <2>6. /\ UNCHANGED <<seedCount, nextHashIndex, reserved>>
          /\ revealed' = revealed \cup {b.seedIdx}
      BY <1>2, <2>5 DEF RevealAndSettle
    <2> HIDE DEF b
    <2> QED
      BY <2>2, <2>4, <2>5, <2>6, DecideKeepsSeedInv
  <1>3. ASSUME NEW i \in 1..Len(bets), RefundExpired(i)
        PROVE  SeedInv'
    <2> DEFINE b == [bets[i] EXCEPT !.status = Refunded]
    <2>1. bets[i] \in Bet
      BY DEF TypeOK
    <2>2. b \in Bet /\ b.status = Refunded /\ b.seedIdx = bets[i].seedIdx
      BY <2>1 DEF Bet, Refunded
    <2>3. bets' = [bets EXCEPT ![i] = b]
      BY <1>3 DEF RefundExpired, RefundBet
    <2>4. bets[i].status # Settled /\ Refunded # Settled
      BY <1>3 DEF RefundExpired, Pending, Settled, Refunded
    <2>5. UNCHANGED <<seedCount, nextHashIndex, reserved, revealed>>
      BY <1>3 DEF RefundExpired, RefundBet, seedVars
    <2> HIDE DEF b
    <2> QED
      BY <2>2, <2>3, <2>4, <2>5, DecideKeepsSeedInv
  <1>4. ASSUME PlayBet
        PROVE  SeedInv'
    BY <1>2, <1>3, <1>4, PlaceBetSeedInv DEF PlayBet
  <1>5. ASSUME NEW m \in EntryModules, NEW p \in Players,
               \/ \E amount \in Stakes, maxPayout \in Payouts :
                     ModuleEscrowStake(m, p, amount, maxPayout)
               \/ \E amount \in Payouts : ModuleCredit(m, p, amount)
               \/ \E amount \in Stakes : ModuleRefund(m, p, amount)
        PROVE  SeedInv'
    BY <1>0, <1>5, IdleKeepsSeedInv
    DEF ModuleEscrowStake, ModuleCredit, ModuleRefund, seedVars, betVars
  <1>6. ASSUME ModuleCall
        PROVE  SeedInv'
    BY <1>5, <1>6, ModuleSeedInv DEF ModuleCall, EntryModules
  <1>7. ASSUME Withdraw
        PROVE  SeedInv'
    BY <1>0, <1>7, IdleKeepsSeedInv
    DEF Withdraw, PlayerClaim, ScheduleOwnerWithdraw, ExecuteOwnerWithdraw,
        CancelOwnerWithdraw, seedVars, betVars
  <1>8. ASSUME Tick \/ UNCHANGED vars
        PROVE  SeedInv'
    BY <1>0, <1>8, IdleKeepsSeedInv DEF Tick, vars, seedVars, betVars
  <1> QED
    BY <1>1, <1>4, <1>6, <1>7, <1>8 DEF Next

\* Seeds are used and revealed as SeedInv says in every reachable state.
LEMMA SeedInvHolds == Spec => []SeedInv
  <1>1. Init => SeedInv
    BY DEF Init, SeedInv, SeedsUsedOnce, SeedPublicIffSettled, RevealedWereConsumed
  <1>2. TypeOK /\ TypeOK' /\ SeedInv /\ [Next]_vars => SeedInv'
    BY NextSeedInv
  <1> QED
    BY <1>1, <1>2, TypeCorrect, PTL DEF Spec

\* A committed seed decides one game only.
THEOREM SeedsAreUsedOnce == Spec => []SeedsUsedOnce
  <1>1. SeedInv => SeedsUsedOnce
    BY DEF SeedInv
  <1> QED
    BY <1>1, SeedInvHolds, PTL

\* The seed of a bet becomes public with its settlement and not otherwise: no
\* open bet can be read ahead, no refunded bet was.
THEOREM SeedsStaySecret == Spec => []SeedPublicIffSettled
  <1>1. SeedInv => SeedPublicIffSettled
    BY DEF SeedInv
  <1> QED
    BY <1>1, SeedInvHolds, PTL

-----------------------------------------------------------------------------
\* Solvency

\* A payment no larger than the free bankroll leaves a backed ledger backed.
LEMMA PayingFreeKeepsBacked ==
    ASSUME NEW L \in Ledger, NEW S \in Ledger, NEW paid \in Nat, Backed(L),
           paid <= FreeBankroll(L),
           S.balance = L.balance, S.totalPending = L.totalPending + paid
    PROVE  Backed(S)
  <1>1. /\ L.balance \in Nat /\ L.totalPending \in Nat
        /\ S.balance \in Nat /\ S.totalPending \in Nat
    BY DEF Ledger
  <1>2. paid <= L.balance - L.totalPending
    BY <1>1 DEF FreeBankroll, Floor0, Backed
  <1> QED
    BY <1>1, <1>2 DEF Backed

\* Any step of a backed vault that is no refund leaves it backed.
LEMMA StepKeepsBacked ==
    ASSUME TypeOK, TypeOK', Backed(ledger), [Next]_vars, ~RefundStep
    PROVE  Backed(ledger')
  <1>0. /\ ledger \in Ledger /\ ledger' \in Ledger
        /\ ledger.balance \in Nat /\ ledger.totalPending \in Nat
        /\ ledger.totalPending <= ledger.balance
    BY DEF TypeOK, Ledger, Backed
  <1>1. ASSUME ledger' = ledger
        PROVE  Backed(ledger')
    BY <1>0, <1>1 DEF Backed
  <1>2. ASSUME NEW amount \in Nat, ledger' = Receive(ledger, amount)
        PROVE  Backed(ledger')
    BY <1>0, <1>2, ReceiveFields DEF Backed
  <1>3. ASSUME NEW g \in Games, NEW budget \in Nat, SetBudget(g, budget)
        PROVE  Backed(ledger')
    BY <1>0, <1>3 DEF SetBudget, Backed, Ledger
  <1>4. ASSUME Administer
        PROVE  Backed(ledger')
    <2>1. ASSUME NEW m \in Modules, NEW budget \in Budgets, RegisterGame(m, budget)
          PROVE  Backed(ledger')
      BY <1>3, <2>1, ConstantsAssumption DEF RegisterGame
    <2>2. ASSUME NEW g \in Games, NEW budget \in Budgets, SetGameBudget(g, budget)
          PROVE  Backed(ledger')
      BY <1>3, <2>2, ConstantsAssumption DEF SetGameBudget
    <2>3. ASSUME NEW amount \in Deposits, DepositBankroll(amount)
          PROVE  Backed(ledger')
      BY <1>2, <2>3, ConstantsAssumption DEF DepositBankroll
    <2> QED
      BY <1>1, <1>4, <2>1, <2>2, <2>3
      DEF Administer, SetGameActive, SetRiskPolicy, SetPaused, ProvisionSeedHashes
  <1>5. ASSUME PlayBet
        PROVE  Backed(ledger')
    <2>1. ASSUME NEW p \in Players, NEW g \in Games, NEW amount \in Stakes,
                 NEW maxPayout \in Payouts, PlaceBet(p, g, amount, maxPayout)
          PROVE  Backed(ledger')
      BY <1>2, <2>1, ConstantsAssumption DEF PlaceBet
    <2>2. ASSUME NEW i \in 1..Len(bets), NEW payout \in Payouts \cup {0},
                 RevealAndSettle(i, payout)
          PROVE  Backed(ledger')
      <3> DEFINE g == bets[i].game
                 stake == bets[i].amount
                 paid == SettledPayout(ledger, g, stake, payout)
      <3>0. ledger \in Ledger
        BY DEF TypeOK
      <3>1. bets[i] \in Bet /\ payout \in Nat
        BY ConstantsAssumption DEF TypeOK
      <3>2. g \in Games /\ stake \in Nat /\ bets[i].player \in Players
        BY <3>1 DEF Bet
      <3>3. ledger' = Settle(ledger, g, bets[i].player, stake, payout)
        BY <2>2 DEF RevealAndSettle
      <3> HIDE DEF g, stake
      <3>4. paid \in Nat /\ paid <= FreeBankroll(ledger)
        BY <1>0, <3>1, <3>2, SettledPayoutBounds
      <3>5. /\ ledger'.balance = ledger.balance
            /\ ledger'.totalPending = ledger.totalPending + paid
        BY <3>0, <3>1, <3>2, <3>3, SettleFacts
      <3> HIDE DEF paid
      <3> QED
        BY <1>0, <3>4, <3>5, PayingFreeKeepsBacked
    <2>3. ASSUME NEW i \in 1..Len(bets), RefundExpired(i)
          PROVE  FALSE
      <3>1. bets[i].status = Pending /\ bets'[i].status = Refunded
        <4>1. bets \in Seq(Bet) /\ bets[i] \in Bet
          BY DEF TypeOK
        <4>2. bets'[i] = [bets[i] EXCEPT !.status = Refunded]
          BY <2>3, <4>1 DEF RefundExpired, RefundBet
        <4> QED
          BY <2>3, <4>1, <4>2 DEF RefundExpired, Bet
      <3> QED
        BY <3>1 DEF RefundStep
    <2> QED
      BY <1>5, <2>1, <2>2, <2>3 DEF PlayBet
  <1>6. ASSUME ModuleCall
        PROVE  Backed(ledger')
    <2>1. ASSUME NEW m \in EntryModules, NEW p \in Players, NEW amount \in Stakes,
                 NEW maxPayout \in Payouts, ModuleEscrowStake(m, p, amount, maxPayout)
          PROVE  Backed(ledger')
      <3>1. GameOf[m] \in Games /\ amount \in Nat
        BY ConstantsAssumption DEF EntryModules
      <3>2. ledger' = EscrowStake(ledger, GameOf[m], amount)
        BY <2>1 DEF ModuleEscrowStake
      <3>3. ledger \in Ledger
        BY DEF TypeOK
      <3>4. /\ ledger'.balance = ledger.balance + amount
            /\ ledger'.totalPending = ledger.totalPending
        BY <3>1, <3>2, <3>3, EscrowFacts
      <3> QED
        BY <1>0, <3>1, <3>4 DEF Backed
    <2>2. ASSUME NEW m \in EntryModules, NEW p \in Players, NEW amount \in Payouts,
                 ModuleCredit(m, p, amount)
          PROVE  Backed(ledger')
      <3> DEFINE g == GameOf[m]
                 paid == CreditedAmount(ledger, g, amount)
      <3>1. g \in Games /\ amount \in Nat
        BY ConstantsAssumption DEF EntryModules
      <3>2. ledger' = CreditFromModule(ledger, g, p, amount)
        BY <2>2 DEF ModuleCredit
      <3> HIDE DEF g
      <3>3. paid \in Nat /\ paid <= FreeBankroll(ledger)
        BY <1>0, <3>1, CreditedAmountBounds
      <3>4. /\ ledger'.balance = ledger.balance
            /\ ledger'.totalPending = ledger.totalPending + paid
        <4>1. ledger \in Ledger
          BY DEF TypeOK
        <4> QED
          BY <4>1, <3>1, <3>2, CreditFacts
      <3> HIDE DEF paid
      <3> QED
        BY <1>0, <3>3, <3>4, PayingFreeKeepsBacked
    <2>3. ASSUME NEW m \in EntryModules, NEW p \in Players, NEW amount \in Stakes,
                 ModuleRefund(m, p, amount)
          PROVE  Backed(ledger')
      <3>1. GameOf[m] \in Games /\ amount \in Nat
        BY ConstantsAssumption DEF EntryModules
      <3>2. /\ ledger' = RefundFromModule(ledger, GameOf[m], p, amount)
            /\ refunded' = [refunded EXCEPT ![GameOf[m]] = @ + amount]
        BY <2>3 DEF ModuleRefund
      <3>3. refunded \in [Games -> Nat] /\ refunded' = refunded
        BY DEF TypeOK, RefundStep
      <3>4. amount = 0
        BY <3>1, <3>2, <3>3
      <3>5. ledger \in Ledger
        BY DEF TypeOK
      <3>6. /\ ledger'.balance = ledger.balance
            /\ ledger'.totalPending = ledger.totalPending + amount
        BY <3>1, <3>2, <3>5, RefundFacts
      <3> QED
        BY <1>0, <3>4, <3>6 DEF Backed
    <2>4. ASSUME NEW m \in EntryModules, ModuleReserveSeed(m)
          PROVE  Backed(ledger')
      BY <1>1, <2>4 DEF ModuleReserveSeed
    <2>5. ASSUME NEW m \in EntryModules, NEW idx \in reserved[m],
                 ModuleRevealSeed(m, idx)
          PROVE  Backed(ledger')
      BY <1>1, <2>5 DEF ModuleRevealSeed
    <2> QED
      BY <1>6, <2>1, <2>2, <2>3, <2>4, <2>5 DEF ModuleCall
  <1>7. ASSUME Withdraw
        PROVE  Backed(ledger')
    <2>1. ASSUME NEW p \in Players, PlayerClaim(p)
          PROVE  Backed(ledger')
      <3>1. ledger.pending[p] \in Nat
        BY <1>0 DEF Ledger
      <3> QED
        BY <1>0, <2>1, <3>1, ClaimFacts DEF PlayerClaim, Backed
    <2>2. ASSUME ExecuteOwnerWithdraw
          PROVE  Backed(ledger')
      <3>1. ownerWithdrawal \in Nat
        BY DEF TypeOK
      <3>2. ownerWithdrawal <= ledger.balance - ledger.totalPending
        BY <1>0, <2>2, <3>1 DEF ExecuteOwnerWithdraw, FreeBankroll, Floor0
      <3>3. /\ ledger'.balance = ledger.balance - ownerWithdrawal
            /\ ledger'.totalPending = ledger.totalPending
        BY <1>0, <2>2 DEF ExecuteOwnerWithdraw, Ledger
      <3> QED
        BY <1>0, <3>1, <3>2, <3>3 DEF Backed
    <2> QED
      BY <1>1, <1>7, <2>1, <2>2
      DEF Withdraw, ScheduleOwnerWithdraw, CancelOwnerWithdraw
  <1>8. ASSUME Tick \/ UNCHANGED vars
        PROVE  Backed(ledger')
    BY <1>1, <1>8 DEF Tick, vars
  <1> QED
    BY <1>4, <1>5, <1>6, <1>7, <1>8 DEF Next

\* From a vault that can pay all it owes only a refund leads to one that
\* cannot: the two clamps, the owner's check against the free bankroll and the
\* bookkeeping of claims suffice for every other operation.
THEOREM OnlyRefundsUnbackHolds == Spec => OnlyRefundsUnback
  <1>1. TypeOK /\ TypeOK' /\ [Next]_vars
          => [Backed(ledger) /\ ~Backed(ledger)' => RefundStep]_vars
    BY StepKeepsBacked DEF Backed
  <1> QED
    BY <1>1, TypeCorrect, PTL DEF Spec, OnlyRefundsUnback

\* Past its reveal delay an open bet is either settleable, with its blockhash
\* still in the EVM's reach, or refundable: the library's 256-block arithmetic
\* and the EVM's agree at every boundary.
THEOREM NoBetInLimboHolds == Spec => []NoBetInLimbo
  <1>1. TypeOK => NoBetInLimbo
    <2> SUFFICES ASSUME TypeOK, NEW i \in 1..Len(bets)
                 PROVE  LET c == bets[i].commitBlock
                        IN  (IsPending(i) /\ block > c + REVEAL_DELAY) =>
                               (HashAvailable(c + REVEAL_DELAY) /\ IsRevealable(c))
                                   # IsExpired(c)
      BY DEF NoBetInLimbo
    <2> DEFINE c == bets[i].commitBlock
    <2>1. bets[i] \in Bet
      BY DEF TypeOK
    <2>2. c \in Nat /\ block \in Nat
      BY <2>1 DEF Bet, TypeOK
    <2> HIDE DEF c
    <2>3. block > c + REVEAL_DELAY =>
             ((HashAvailable(c + REVEAL_DELAY) /\ IsRevealable(c)) <=> ~IsExpired(c))
      BY <2>2, ConstantsAssumption DEF HashAvailable, IsRevealable, IsExpired
    <2> QED
      BY <2>3, Zenon DEF c, IsRevealable, HashAvailable, IsExpired
  <1> QED
    BY <1>1, TypeCorrect, PTL

-----------------------------------------------------------------------------
\* The seeds of the single-shot bets, as the modules beside them see them.  The
\* modules' own seeds are proved apart from these in the modules' theorems.

BetOver(X) == [player : X, amount : X, game : X, status : X, commitBlock : X,
               seedIdx : X, payout : X]

BetsShape == \E X : bets \in Seq(BetOver(X))

BetSeeds == {bets[i].seedIdx : i \in 1..Len(bets)}

HandedOut(idx) == idx \in Nat /\ idx < nextHashIndex

\* What the vault does to the seeds around the modules: it hands out the next
\* index to a bet, or it reveals a bet's.
VaultSeedStep ==
    /\ BetsShape'
    /\ \/ BetSeeds' = BetSeeds /\ UNCHANGED nextHashIndex
       \/ BetSeeds' = BetSeeds \cup {nextHashIndex} /\ nextHashIndex' = nextHashIndex + 1
    /\ revealed \subseteq revealed'
    /\ revealed' \subseteq revealed \cup BetSeeds

\* A bet that is marked keeps its seed.
LEMMA MarkedBetSeeds ==
    ASSUME NEW X, bets \in Seq(BetOver(X)), NEW i \in 1..Len(bets),
           NEW Y, NEW b \in BetOver(Y), b.seedIdx = bets[i].seedIdx,
           bets' = [bets EXCEPT ![i] = b]
    PROVE  BetsShape' /\ BetSeeds' = BetSeeds
  <1> DEFINE Z == X \cup Y
  <1>1. bets \in Seq(BetOver(Z))
    <2>1. \A c : c \in BetOver(X) => c \in BetOver(Z)
      BY DEF BetOver
    <2> HIDE DEF Z
    <2> QED
      BY <2>1
  <1>2. b \in BetOver(Z)
    BY DEF BetOver
  <1> HIDE DEF Z
  <1>3. bets' \in Seq(BetOver(Z)) /\ Len(bets') = Len(bets)
    BY <1>1, <1>2, ExceptSeq
  <1>4. \A j \in 1..Len(bets) : bets'[j].seedIdx = bets[j].seedIdx
    BY <1>1, <1>2, ExceptSeq
  <1> QED
    BY <1>3, <1>4 DEF BetsShape, BetSeeds

LEMMA VaultStepSeeds ==
    ASSUME BetsShape, VaultStep
    PROVE  VaultSeedStep
  <1>1. PICK X : bets \in Seq(BetOver(X))
    BY DEF BetsShape
  <1>2. ASSUME UNCHANGED <<bets, nextHashIndex, revealed>>
        PROVE  VaultSeedStep
    BY <1>2 DEF VaultSeedStep, BetsShape, BetSeeds
  <1>3. CASE Administer
    BY <1>2, <1>3 DEF Administer, RegisterGame, SetGameActive, SetGameBudget,
       SetRiskPolicy, SetPaused, ProvisionSeedHashes, DepositBankroll, seedVars, betVars
  <1>4. CASE Withdraw
    BY <1>2, <1>4 DEF Withdraw, PlayerClaim, ScheduleOwnerWithdraw,
       ExecuteOwnerWithdraw, CancelOwnerWithdraw, seedVars, betVars
  <1>5. CASE Tick
    BY <1>2, <1>5 DEF Tick, seedVars, betVars
  <1>6. ASSUME NEW p \in Players, NEW g \in Games, NEW amount \in Stakes,
               NEW maxPayout \in Payouts, PlaceBet(p, g, amount, maxPayout)
        PROVE  VaultSeedStep
    <2> DEFINE b == [player |-> p, amount |-> amount, game |-> g,
                     status |-> Pending, commitBlock |-> block,
                     seedIdx |-> nextHashIndex, payout |-> 0]
               Z == X \cup {p, amount, g, Pending, block, nextHashIndex, 0}
    <2>1. /\ bets' = Append(bets, b)
          /\ nextHashIndex' = nextHashIndex + 1
          /\ UNCHANGED revealed
      BY <1>6 DEF PlaceBet
    <2>2. b \in BetOver(Z) /\ b.seedIdx = nextHashIndex
      BY DEF BetOver
    <2>3. \A c : c \in BetOver(X) => c \in BetOver(Z)
      BY DEF BetOver
    <2> HIDE DEF b, Z
    <2>4. bets \in Seq(BetOver(Z))
      BY <1>1, <2>3
    <2>5. /\ bets' \in Seq(BetOver(Z))
          /\ Len(bets) \in Nat
          /\ Len(bets') = Len(bets) + 1
          /\ bets'[Len(bets) + 1] = b
          /\ \A i \in 1..Len(bets) : bets'[i] = bets[i]
      BY <2>1, <2>2, <2>4
    <2>6. BetSeeds' = BetSeeds \cup {nextHashIndex}
      <3>1. 1..Len(bets') = 1..Len(bets) \cup {Len(bets) + 1}
        BY <2>5
      <3> QED
        BY <2>2, <2>5, <3>1 DEF BetSeeds
    <2> QED
      BY <2>1, <2>5, <2>6 DEF VaultSeedStep, BetsShape
  <1>7. ASSUME NEW i \in 1..Len(bets), NEW payout \in Payouts \cup {0},
               RevealAndSettle(i, payout)
        PROVE  VaultSeedStep
    <2> DEFINE paid == SettledPayout(ledger, bets[i].game, bets[i].amount, payout)
               b == [bets[i] EXCEPT !.status = Settled, !.payout = paid]
    <2>1. bets[i] \in BetOver(X)
      BY <1>1
    <2>2. b \in BetOver(X \cup {Settled, paid}) /\ b.seedIdx = bets[i].seedIdx
      BY <2>1 DEF BetOver
    <2>3. bets' = [bets EXCEPT ![i] = b]
      BY <1>1, <1>7 DEF RevealAndSettle
    <2>4. revealed' = revealed \cup {bets[i].seedIdx} /\ UNCHANGED nextHashIndex
      BY <1>7 DEF RevealAndSettle
    <2> HIDE DEF b, paid
    <2>5. BetsShape' /\ BetSeeds' = BetSeeds
      BY <1>1, <2>2, <2>3, MarkedBetSeeds
    <2>6. bets[i].seedIdx \in BetSeeds
      BY DEF BetSeeds
    <2> QED
      BY <2>4, <2>5, <2>6 DEF VaultSeedStep
  <1>8. ASSUME NEW i \in 1..Len(bets), RefundExpired(i)
        PROVE  VaultSeedStep
    <2> DEFINE b == [bets[i] EXCEPT !.status = Refunded]
    <2>1. bets[i] \in BetOver(X)
      BY <1>1
    <2>2. b \in BetOver(X \cup {Refunded}) /\ b.seedIdx = bets[i].seedIdx
      BY <2>1 DEF BetOver
    <2>3. bets' = [bets EXCEPT ![i] = b] /\ UNCHANGED <<revealed, nextHashIndex>>
      BY <1>8 DEF RefundExpired, RefundBet, seedVars
    <2> HIDE DEF b
    <2>4. BetsShape' /\ BetSeeds' = BetSeeds
      BY <1>1, <2>2, <2>3, MarkedBetSeeds
    <2> QED
      BY <2>3, <2>4 DEF VaultSeedStep
  <1> QED
    BY <1>3, <1>4, <1>5, <1>6, <1>7, <1>8 DEF VaultStep, PlayBet
\* Around the modules, nothing is staked through one or handed back by one.
LEMMA VaultStepKeepsEscrow ==
    ASSUME VaultStep
    PROVE  escrowed' = escrowed
  <1>1. CASE Administer
    BY <1>1 DEF Administer, RegisterGame, SetGameActive, SetGameBudget, SetBudget,
       SetRiskPolicy, SetPaused, ProvisionSeedHashes, DepositBankroll, histVars
  <1>2. CASE PlayBet
    BY <1>2 DEF PlayBet, PlaceBet, RevealAndSettle, RefundExpired, RefundBet, histVars
  <1>3. CASE Withdraw
    BY <1>3 DEF Withdraw, PlayerClaim, ScheduleOwnerWithdraw, ExecuteOwnerWithdraw,
       CancelOwnerWithdraw, histVars
  <1>4. CASE Tick
    BY <1>4 DEF Tick, histVars
  <1> QED
    BY <1>1, <1>2, <1>3, <1>4 DEF VaultStep

-----------------------------------------------------------------------------
\* Conservation

\* What booking adds to one account it adds to the sum of all.
LEMMA BookedSum ==
    ASSUME NEW before \in [Games -> Int], NEW after \in [Games -> Int],
           NEW g \in Games, NEW d \in Int, Booked(before, after, g, d)
    PROVE  SumFunctionOnSet(after, Games) = SumFunctionOnSet(before, Games) + d
  <1>1. IsFiniteSet(Games)
    BY ConstantsAssumption
  <1>2. /\ \A h \in Games : before[h] \in Int /\ after[h] \in Int
        /\ \A h \in Games \ {g} : after[h] = before[h]
        /\ after[g] = before[g] + d
    BY DEF Booked
  <1>3. SumFunctionOnSet(after, Games)
          = SumFunctionOnSet(before, Games) + after[g] - before[g]
    BY ONLY <1>1, <1>2, SumChange
  <1>4. SumFunctionOnSet(before, Games) \in Int
    BY ONLY <1>1, <1>2, SumIn
  <1>5. before[g] \in Int
    OBVIOUS
  <1> QED
    BY ONLY <1>2, <1>3, <1>4, <1>5

AmountsOf(list) == [i \in 1..Len(list) |-> list[i].amount]
OpenIn(list) == {i \in 1..Len(list) : list[i].status = Pending}
StakesIn(list) == SumFunctionOnSet(AmountsOf(list), OpenIn(list))

LEMMA OpenStakesAre ==
    OpenStakes = StakesIn(bets) /\ OpenStakes' = StakesIn(bets')
  <1>1. /\ {i \in 1..Len(bets) : IsPending(i)} = OpenIn(bets)
        /\ {i \in 1..Len(bets') : IsPending(i)'} = OpenIn(bets')
    BY DEF IsPending, OpenIn
  <1> QED
    BY <1>1 DEF OpenStakes, StakesIn, AmountsOf

LEMMA StakesType ==
    ASSUME NEW list \in Seq(Bet)
    PROVE  /\ IsFiniteSet(OpenIn(list))
           /\ \A i \in 1..Len(list) : AmountsOf(list)[i] \in Int
           /\ StakesIn(list) \in Int
  <1>1. IsFiniteSet(OpenIn(list))
    <2>1. Len(list) \in Int /\ 1 \in Int
      OBVIOUS
    <2>2. IsFiniteSet(1..Len(list))
      BY <2>1, FS_Interval
    <2>3. OpenIn(list) \in SUBSET (1..Len(list))
      BY DEF OpenIn
    <2> QED
      BY <2>2, <2>3, FS_Subset
  <1>2. ASSUME NEW i \in 1..Len(list) PROVE AmountsOf(list)[i] \in Int
    <2>1. list[i] \in Bet
      OBVIOUS
    <2> QED
      BY <2>1 DEF AmountsOf, Bet
  <1>3. \A i \in OpenIn(list) : AmountsOf(list)[i] \in Int
    BY <1>2 DEF OpenIn
  <1>4. SumFunctionOnSet(AmountsOf(list), OpenIn(list)) \in Int
    BY ONLY <1>1, <1>3, SumIn
  <1> QED
    BY <1>1, <1>2, <1>4 DEF StakesIn

\* A new bet adds its stake.
LEMMA StakesOfPlaced ==
    ASSUME NEW list \in Seq(Bet), NEW b \in Bet, b.status = Pending
    PROVE  StakesIn(Append(list, b)) = StakesIn(list) + b.amount
  <1> DEFINE longer == Append(list, b)
             n == Len(list) + 1
  <1>1. /\ longer \in Seq(Bet) /\ Len(longer) = n /\ longer[n] = b
        /\ \A i \in 1..Len(list) : longer[i] = list[i]
        /\ 1..n = 1..Len(list) \cup {n} /\ n \notin 1..Len(list)
    OBVIOUS
  <1> HIDE DEF longer, n
  <1>2. OpenIn(longer) = OpenIn(list) \cup {n} /\ n \notin OpenIn(list)
    BY <1>1 DEF OpenIn
  <1>3. IsFiniteSet(OpenIn(list))
    BY StakesType
  <1>4. \A i \in OpenIn(list) \cup {n} : AmountsOf(longer)[i] \in Int
    BY <1>1, <1>2, StakesType DEF OpenIn
  <1>5. SumFunctionOnSet(AmountsOf(longer), OpenIn(list) \cup {n})
          = SumFunctionOnSet(AmountsOf(longer), OpenIn(list)) + AmountsOf(longer)[n]
    BY ONLY <1>2, <1>3, <1>4, SumAdd
  <1>6. \A i \in OpenIn(list) : AmountsOf(longer)[i] = AmountsOf(list)[i]
    BY <1>1 DEF OpenIn, AmountsOf
  <1>7. SumFunctionOnSet(AmountsOf(longer), OpenIn(list)) = StakesIn(list)
    BY <1>3, <1>6, SumSame DEF StakesIn
  <1>8. AmountsOf(longer)[n] = b.amount
    BY <1>1 DEF AmountsOf
  <1> QED
    BY <1>2, <1>5, <1>7, <1>8 DEF StakesIn, longer

\* A bet that is settled or refunded takes its stake out.
LEMMA StakesOfDecided ==
    ASSUME NEW list \in Seq(Bet), NEW after \in Seq(Bet), Len(after) = Len(list),
           NEW i \in 1..Len(list), list[i].status = Pending,
           after[i].status # Pending,
           \A j \in 1..Len(list) : j # i => after[j] = list[j]
    PROVE  StakesIn(after) = StakesIn(list) - list[i].amount
  <1>1. OpenIn(after) = OpenIn(list) \ {i} /\ i \in OpenIn(list)
    BY DEF OpenIn
  <1>2. IsFiniteSet(OpenIn(list)) /\ IsFiniteSet(OpenIn(list) \ {i})
    BY StakesType, FS_RemoveElement
  <1>3. \A j \in OpenIn(list) : AmountsOf(list)[j] \in Int
    BY StakesType DEF OpenIn
  <1>4. SumFunctionOnSet(AmountsOf(list), OpenIn(list))
          = AmountsOf(list)[i] + SumFunctionOnSet(AmountsOf(list), OpenIn(list) \ {i})
    BY ONLY <1>1, <1>2, <1>3, SumRemove
  <1>5. \A j \in OpenIn(list) \ {i} : AmountsOf(after)[j] = AmountsOf(list)[j]
    BY DEF OpenIn, AmountsOf
  <1>6. StakesIn(after) = SumFunctionOnSet(AmountsOf(list), OpenIn(list) \ {i})
    <2>1. SumFunctionOnSet(AmountsOf(after), OpenIn(list) \ {i})
            = SumFunctionOnSet(AmountsOf(list), OpenIn(list) \ {i})
      BY ONLY <1>2, <1>5, SumSame
    <2> QED
      BY <1>1, <2>1 DEF StakesIn
  <1>7. AmountsOf(list)[i] = list[i].amount /\ list[i].amount \in Int
    <2>1. list[i] \in Bet
      OBVIOUS
    <2> QED
      BY <2>1 DEF AmountsOf, Bet
  <1>8. StakesIn(after) \in Int
    BY StakesType
  <1> QED
    BY <1>4, <1>6, <1>7, <1>8 DEF StakesIn

\* What a step moves: the balance, the debts, the accounts, the capital and the
\* open stakes.
Moved(db, dp, dn, dc, ds) ==
    /\ ledger'.balance = ledger.balance + db
    /\ ledger'.totalPending = ledger.totalPending + dp
    /\ SumFunctionOnSet(ledger'.net, Games) = SumFunctionOnSet(ledger.net, Games) + dn
    /\ capital' = capital + dc
    /\ StakesIn(bets') = StakesIn(bets) + ds

\* A step that moves money by known amounts keeps the books if these balance.
LEMMA MoneyMoves ==
    ASSUME TypeOK, TypeOK', Conservation,
           NEW db \in Int, NEW dp \in Int, NEW dn \in Int, NEW dc \in Int, NEW ds \in Int,
           Moved(db, dp, dn, dc, ds),
           db - dp = dc - dn + ds
    PROVE  Conservation'
  <1>1. /\ ledger.balance \in Int /\ ledger.totalPending \in Int /\ capital \in Int
        /\ bets \in Seq(Bet)
    BY DEF TypeOK, Ledger
  <1>2. StakesIn(bets) \in Int
    BY <1>1, StakesType
  <1>3. SumFunctionOnSet(ledger.net, Games) \in Int
    <2>1. IsFiniteSet(Games) /\ \A g \in Games : ledger.net[g] \in Int
      BY ConstantsAssumption DEF TypeOK, Ledger
    <2> QED
      BY ONLY <2>1, SumIn
  <1>4. ledger.balance - ledger.totalPending
          = capital - SumFunctionOnSet(ledger.net, Games) + StakesIn(bets)
    BY OpenStakesAre DEF Conservation
  <1>5. OpenStakes' = StakesIn(bets')
    BY OpenStakesAre
  <1>6. ledger'.balance - ledger'.totalPending
          = capital' - SumFunctionOnSet(ledger'.net, Games) + OpenStakes'
    <2> DEFINE now == SumFunctionOnSet(ledger.net, Games)
               then == SumFunctionOnSet(ledger'.net, Games)
               open == StakesIn(bets)
    <2>1. /\ ledger'.balance = ledger.balance + db
          /\ ledger'.totalPending = ledger.totalPending + dp
          /\ then = now + dn
          /\ capital' = capital + dc
          /\ OpenStakes' = open + ds
          /\ db - dp = dc - dn + ds
          /\ ledger.balance - ledger.totalPending = capital - now + open
      BY <1>4, <1>5 DEF Moved
    <2>2. /\ ledger.balance \in Int /\ ledger.totalPending \in Int /\ capital \in Int
          /\ now \in Int /\ open \in Int
          /\ db \in Int /\ dp \in Int /\ dn \in Int /\ dc \in Int /\ ds \in Int
      BY <1>1, <1>2, <1>3
    <2> HIDE DEF now, then, open
    <2>3. ledger'.balance - ledger'.totalPending = capital' - then + OpenStakes'
      BY ONLY <2>1, <2>2
    <2> QED
      BY <2>3 DEF then
  <1> QED
    BY <1>6 DEF Conservation

LEMMA IdleConserves ==
    ASSUME TypeOK, TypeOK', Conservation, UNCHANGED <<bets, capital>>,
           ledger'.balance = ledger.balance,
           ledger'.totalPending = ledger.totalPending, ledger'.net = ledger.net
    PROVE  Conservation'
  BY OpenStakesAre DEF Conservation, OpenStakes, IsPending

LEMMA AdministerConserves ==
    ASSUME TypeOK, TypeOK', Conservation, Administer
    PROVE  Conservation'
  <1>1. ASSUME NEW g \in Games, NEW budget, SetBudget(g, budget), UNCHANGED bets
        PROVE  Conservation'
    BY <1>1, IdleConserves DEF SetBudget, TypeOK, Ledger
  <1>2. ASSUME NEW m \in Modules, NEW budget \in Budgets, RegisterGame(m, budget)
        PROVE  Conservation'
    BY <1>1, <1>2, ConstantsAssumption DEF RegisterGame, betVars
  <1>3. ASSUME NEW g \in Games, NEW budget \in Budgets, SetGameBudget(g, budget)
        PROVE  Conservation'
    BY <1>1, <1>3 DEF SetGameBudget, betVars
  <1>4. ASSUME NEW amount \in Deposits, DepositBankroll(amount)
        PROVE  Conservation'
    <2>1. amount \in Nat /\ ledger \in Ledger
      BY ConstantsAssumption DEF TypeOK
    <2>2. /\ ledger' = Receive(ledger, amount) /\ capital' = capital + amount
          /\ bets' = bets
      BY <1>4 DEF DepositBankroll, betVars
    <2>3. /\ ledger'.balance = ledger.balance + amount
          /\ ledger'.totalPending = ledger.totalPending + 0
          /\ SumFunctionOnSet(ledger'.net, Games) = SumFunctionOnSet(ledger.net, Games) + 0
          /\ StakesIn(bets') = StakesIn(bets) + 0
      <3>1. ledger.totalPending \in Int /\ \A g \in Games : ledger.net[g] \in Int
        BY DEF TypeOK, Ledger
      <3>2. SumFunctionOnSet(ledger.net, Games) \in Int
        BY ConstantsAssumption, <3>1, SumIn
      <3>3. StakesIn(bets) \in Int
        BY StakesType DEF TypeOK
      <3> QED
        BY <2>1, <2>2, <3>1, <3>2, <3>3, ReceiveFields
    <2>4. Moved(amount, 0, 0, amount, 0)
      BY <2>2, <2>3 DEF Moved
    <2>5. amount \in Int /\ amount - 0 = amount - 0 + 0
      BY <2>1
    <2> QED
      BY <2>4, <2>5, MoneyMoves
  <1>5. ASSUME SetPaused(TRUE) \/ SetPaused(FALSE)
        PROVE  Conservation'
    BY <1>5, IdleConserves DEF SetPaused, betVars, histVars
  <1>6. ASSUME NEW g \in Games, NEW active \in BOOLEAN, SetGameActive(g, active)
        PROVE  Conservation'
    BY <1>6, IdleConserves DEF SetGameActive, betVars, histVars
  <1>7. ASSUME NEW policy \in RiskPolicies, SetRiskPolicy(policy)
        PROVE  Conservation'
    BY <1>7, IdleConserves DEF SetRiskPolicy, betVars, histVars
  <1>8. ASSUME NEW count \in 1..MaxSeeds, ProvisionSeedHashes(count)
        PROVE  Conservation'
    BY <1>8, IdleConserves DEF ProvisionSeedHashes, betVars, histVars
  <1> QED
    BY <1>2, <1>3, <1>4, <1>5, <1>6, <1>7, <1>8 DEF Administer

\* A step that changes no bet and no capital, and books to one game what it adds
\* to the balance less what it adds to the debts.
LEMMA BookedConserves ==
    ASSUME TypeOK, TypeOK', Conservation, UNCHANGED <<bets, capital>>,
           NEW g \in Games, NEW db \in Int, NEW dp \in Int,
           ledger'.balance = ledger.balance + db,
           ledger'.totalPending = ledger.totalPending + dp,
           Booked(ledger.net, ledger'.net, g, dp - db)
    PROVE  Conservation'
  <1>1. ledger.net \in [Games -> Int] /\ ledger'.net \in [Games -> Int]
    BY DEF TypeOK, Ledger
  <1>2. SumFunctionOnSet(ledger'.net, Games)
          = SumFunctionOnSet(ledger.net, Games) + (dp - db)
    BY <1>1, BookedSum
  <1>3. StakesIn(bets) \in Int /\ capital \in Int
    BY StakesType DEF TypeOK
  <1>4. StakesIn(bets') = StakesIn(bets) + 0 /\ capital' = capital + 0
    BY <1>3
  <1> DEFINE dn == dp - db
  <1>5. dn \in Int /\ db - dp = 0 - dn + 0
    OBVIOUS
  <1>6. Moved(db, dp, dn, 0, 0)
    BY <1>2, <1>4 DEF Moved
  <1> HIDE DEF dn
  <1> QED
    BY <1>5, <1>6, MoneyMoves

LEMMA PlayBetConserves ==
    ASSUME TypeOK, TypeOK', Conservation, PlayBet
    PROVE  Conservation'
  <1>0. /\ ledger \in Ledger /\ bets \in Seq(Bet) /\ bets' \in Seq(Bet)
        /\ ledger.totalPending \in Int /\ capital \in Int /\ ledger.balance \in Int
        /\ \A g \in Games : ledger.net[g] \in Int
        /\ ledger.net \in [Games -> Int] /\ ledger'.net \in [Games -> Int]
    BY DEF TypeOK, Ledger
  <1>1. SumFunctionOnSet(ledger.net, Games) \in Int
    BY <1>0, ConstantsAssumption, SumIn
  <1>2. ASSUME NEW p \in Players, NEW g \in Games, NEW amount \in Stakes,
               NEW maxPayout \in Payouts, PlaceBet(p, g, amount, maxPayout)
        PROVE  Conservation'
    <2> DEFINE b == [player |-> p, amount |-> amount, game |-> g,
                     status |-> Pending, commitBlock |-> block,
                     seedIdx |-> nextHashIndex, payout |-> 0]
    <2>1. /\ amount \in Nat
          /\ ledger' = Receive(ledger, amount)
          /\ bets' = Append(bets, b)
          /\ capital' = capital
      BY <1>2, ConstantsAssumption DEF PlaceBet, histVars
    <2>2. b \in Bet /\ b.status = Pending /\ b.amount = amount
      BY <2>1 DEF TypeOK, Bet, Pending
    <2> HIDE DEF b
    <2>3. StakesIn(bets') = StakesIn(bets) + amount
      BY <1>0, <2>1, <2>2, StakesOfPlaced
    <2>4. /\ ledger'.balance = ledger.balance + amount
          /\ ledger'.totalPending = ledger.totalPending + 0
          /\ SumFunctionOnSet(ledger'.net, Games) = SumFunctionOnSet(ledger.net, Games) + 0
          /\ capital' = capital + 0
      BY <1>0, <1>1, <2>1, ReceiveFields
    <2>5. amount \in Int /\ amount - 0 = 0 - 0 + amount
      BY <2>1
    <2>6. Moved(amount, 0, 0, 0, amount)
      BY <2>3, <2>4 DEF Moved
    <2> QED
      BY <2>5, <2>6, MoneyMoves
  <1>3. ASSUME NEW i \in 1..Len(bets), NEW payout \in Payouts \cup {0},
               RevealAndSettle(i, payout)
        PROVE  Conservation'
    <2> DEFINE g == bets[i].game
               stake == bets[i].amount
               paid == SettledPayout(ledger, g, stake, payout)
    <2>1. bets[i] \in Bet /\ payout \in Nat
      BY <1>0, ConstantsAssumption
    <2>2. g \in Games /\ stake \in Nat /\ bets[i].player \in Players
      BY <2>1 DEF Bet
    <2>3. /\ bets[i].status = Pending
          /\ ledger' = Settle(ledger, g, bets[i].player, stake, payout)
          /\ capital' = capital
          /\ bets' = [bets EXCEPT ![i].status = Settled, ![i].payout = paid]
      BY <1>3 DEF RevealAndSettle, histVars
    <2> DEFINE decided == [bets[i] EXCEPT !.status = Settled, !.payout = paid]
    <2>4. bets' = [bets EXCEPT ![i] = decided]
      BY <1>0, <2>3
    <2>5. decided.status # Pending
      BY <2>1 DEF Bet, Pending, Settled
    <2> HIDE DEF decided
    <2>6. /\ Len(bets') = Len(bets) /\ bets'[i].status # Pending
          /\ \A j \in 1..Len(bets) : j # i => bets'[j] = bets[j]
      BY <1>0, <2>4, <2>5
    <2>7. StakesIn(bets') = StakesIn(bets) - stake
      BY <1>0, <2>3, <2>6, StakesOfDecided
    <2>8. paid \in Nat
      BY <1>0, <2>1, <2>2, SettledPayoutBounds
    <2> HIDE DEF g, stake
    <2>9. /\ ledger'.balance = ledger.balance
          /\ ledger'.totalPending = ledger.totalPending + paid
      BY <1>0, <2>1, <2>2, <2>3, SettleFacts
    <2>10. Booked(ledger.net, ledger'.net, g, paid - stake)
      BY <1>0, <2>1, <2>2, <2>3, SettleAccount
    <2> HIDE DEF paid
    <2>11. SumFunctionOnSet(ledger'.net, Games)
             = SumFunctionOnSet(ledger.net, Games) + (paid - stake)
      <3>1. paid - stake \in Int
        BY <2>2, <2>8
      <3> QED
        BY <1>0, <2>2, <2>10, <3>1, BookedSum
    <2>12. /\ ledger'.balance = ledger.balance + 0
           /\ capital' = capital + 0
           /\ StakesIn(bets') = StakesIn(bets) + (-stake)
      <3>1. StakesIn(bets) \in Int
        BY <1>0, StakesType
      <3> QED
        BY <1>0, <2>2, <2>3, <2>7, <2>9, <3>1
    <2>13. /\ paid - stake \in Int /\ paid \in Int /\ -stake \in Int
           /\ 0 - paid = 0 - (paid - stake) + (-stake)
      BY <2>2, <2>8
    <2> DEFINE cost == paid - stake
               freed == -stake
    <2>14. /\ Moved(0, paid, cost, 0, freed)
           /\ cost \in Int /\ freed \in Int /\ paid \in Int
           /\ 0 - paid = 0 - cost + freed
      BY <2>9, <2>11, <2>12, <2>13 DEF Moved
    <2> HIDE DEF cost, freed, paid
    <2>15. \A db, dp, dn, dc, ds \in Int :
              Moved(db, dp, dn, dc, ds) /\ db - dp = dc - dn + ds => Conservation'
      BY MoneyMoves
    <2>16. 0 \in Int /\ paid \in Int /\ cost \in Int /\ freed \in Int
      BY <2>14
    <2> QED
      BY ONLY <2>14, <2>15, <2>16
  <1>4. ASSUME NEW i \in 1..Len(bets), RefundExpired(i)
        PROVE  Conservation'
    <2> DEFINE stake == bets[i].amount
    <2>1. bets[i] \in Bet
      BY <1>0
    <2>2. stake \in Nat /\ bets[i].player \in Players
      BY <2>1 DEF Bet
    <2>3. /\ bets[i].status = Pending
          /\ ledger' = Owe(ledger, bets[i].player, stake)
          /\ capital' = capital
          /\ bets' = [bets EXCEPT ![i].status = Refunded]
      BY <1>4 DEF RefundExpired, RefundBet, histVars
    <2>4. /\ Len(bets') = Len(bets) /\ bets'[i].status # Pending
          /\ \A j \in 1..Len(bets) : j # i => bets'[j] = bets[j]
      BY <1>0, <2>1, <2>3 DEF Bet, Pending, Refunded
    <2>5. StakesIn(bets') = StakesIn(bets) - stake
      BY <1>0, <2>3, <2>4, StakesOfDecided
    <2> HIDE DEF stake
    <2>6. /\ ledger'.balance = ledger.balance
          /\ ledger'.totalPending = ledger.totalPending + stake
          /\ ledger'.net = ledger.net
      BY <1>0, <2>2, <2>3, OweFacts
    <2>7. /\ ledger'.balance = ledger.balance + 0
          /\ SumFunctionOnSet(ledger'.net, Games) = SumFunctionOnSet(ledger.net, Games) + 0
          /\ capital' = capital + 0
          /\ StakesIn(bets') = StakesIn(bets) + (-stake)
      <3>1. StakesIn(bets) \in Int
        BY <1>0, StakesType
      <3> QED
        BY <1>0, <1>1, <2>2, <2>3, <2>5, <2>6, <3>1
    <2>8. stake \in Int /\ -stake \in Int /\ 0 - stake = 0 - 0 + (-stake)
      BY <2>2
    <2>9. Moved(0, stake, 0, 0, -stake)
      BY <2>6, <2>7 DEF Moved
    <2> QED
      BY <2>8, <2>9, MoneyMoves
  <1> QED
    BY <1>2, <1>3, <1>4 DEF PlayBet

LEMMA ModuleCallConserves ==
    ASSUME TypeOK, TypeOK', Conservation, ModuleCall
    PROVE  Conservation'
  <1>0. /\ ledger \in Ledger
        /\ ledger.totalPending \in Int /\ ledger.balance \in Int
    BY DEF TypeOK, Ledger
  <1>1. ASSUME NEW m \in EntryModules, ModuleReserveSeed(m)
        PROVE  Conservation'
    BY <1>1, IdleConserves DEF ModuleReserveSeed, betVars, histVars
  <1>2. ASSUME NEW m \in EntryModules, NEW idx \in reserved[m], ModuleRevealSeed(m, idx)
        PROVE  Conservation'
    BY <1>2, IdleConserves DEF ModuleRevealSeed, betVars, histVars
  <1>3. ASSUME NEW m \in EntryModules, NEW p \in Players, NEW amount \in Stakes,
               NEW maxPayout \in Payouts, ModuleEscrowStake(m, p, amount, maxPayout)
        PROVE  Conservation'
    <2>1. GameOf[m] \in Games /\ amount \in Nat
      BY ConstantsAssumption DEF EntryModules
    <2>2. ledger' = EscrowStake(ledger, GameOf[m], amount) /\ UNCHANGED <<bets, capital>>
      BY <1>3 DEF ModuleEscrowStake, betVars
    <2>3. /\ ledger'.balance = ledger.balance + amount
          /\ ledger'.totalPending = ledger.totalPending + 0
      BY <1>0, <2>1, <2>2, EscrowFacts
    <2>4. Booked(ledger.net, ledger'.net, GameOf[m], -amount)
      BY <1>0, <2>1, <2>2, EscrowAccount
    <2>5. amount \in Int /\ -amount = 0 - amount
      BY <2>1
    <2> QED
      BY <2>1, <2>2, <2>3, <2>4, <2>5, BookedConserves
  <1>4. ASSUME NEW m \in EntryModules, NEW p \in Players, NEW amount \in Payouts,
               ModuleCredit(m, p, amount)
        PROVE  Conservation'
    <2> DEFINE paid == CreditedAmount(ledger, GameOf[m], amount)
    <2>1. GameOf[m] \in Games /\ amount \in Nat
      BY ConstantsAssumption DEF EntryModules
    <2>2. /\ ledger' = CreditFromModule(ledger, GameOf[m], p, amount)
          /\ UNCHANGED <<bets, capital>>
      BY <1>4 DEF ModuleCredit, betVars, histVars
    <2>3. paid \in Nat
      BY <1>0, <2>1, CreditedAmountBounds
    <2>4. /\ ledger'.balance = ledger.balance + 0
          /\ ledger'.totalPending = ledger.totalPending + paid
      BY <1>0, <2>1, <2>2, CreditFacts
    <2>5. Booked(ledger.net, ledger'.net, GameOf[m], paid)
      BY <1>0, <2>1, <2>2, CreditAccount
    <2> HIDE DEF paid
    <2>6. paid \in Int /\ paid = paid - 0
      BY <2>3
    <2> QED
      BY <2>1, <2>2, <2>4, <2>5, <2>6, BookedConserves
  <1>5. ASSUME NEW m \in EntryModules, NEW p \in Players, NEW amount \in Stakes,
               ModuleRefund(m, p, amount)
        PROVE  Conservation'
    <2>1. GameOf[m] \in Games /\ amount \in Nat
      BY ConstantsAssumption DEF EntryModules
    <2>2. /\ ledger' = RefundFromModule(ledger, GameOf[m], p, amount)
          /\ UNCHANGED <<bets, capital>>
      BY <1>5 DEF ModuleRefund, betVars
    <2>3. /\ ledger'.balance = ledger.balance + 0
          /\ ledger'.totalPending = ledger.totalPending + amount
      BY <1>0, <2>1, <2>2, RefundFacts
    <2>4. Booked(ledger.net, ledger'.net, GameOf[m], amount)
      BY <1>0, <2>1, <2>2, RefundAccount
    <2>5. amount \in Int /\ amount = amount - 0
      BY <2>1
    <2> QED
      BY <2>1, <2>2, <2>3, <2>4, <2>5, BookedConserves
  <1> QED
    BY <1>1, <1>2, <1>3, <1>4, <1>5 DEF ModuleCall

LEMMA WithdrawConserves ==
    ASSUME TypeOK, TypeOK', Conservation, Withdraw
    PROVE  Conservation'
  <1>0. /\ ledger \in Ledger
        /\ ledger.totalPending \in Int /\ ledger.balance \in Int /\ capital \in Int
        /\ ownerWithdrawal \in Int /\ \A g \in Games : ledger.net[g] \in Int
    BY DEF TypeOK, Ledger
  <1>1. SumFunctionOnSet(ledger.net, Games) \in Int /\ StakesIn(bets) \in Int
    BY <1>0, ConstantsAssumption, SumIn, StakesType DEF TypeOK
  <1>2. ASSUME NEW p \in Players, PlayerClaim(p)
        PROVE  Conservation'
    <2> DEFINE owed == ledger.pending[p]
    <2>1. owed \in Int
      BY <1>0 DEF Ledger
    <2>2. /\ ledger'.balance = ledger.balance + (-owed)
          /\ ledger'.totalPending = ledger.totalPending + (-owed)
          /\ SumFunctionOnSet(ledger'.net, Games) = SumFunctionOnSet(ledger.net, Games) + 0
          /\ capital' = capital + 0
          /\ StakesIn(bets') = StakesIn(bets) + 0
      BY <1>0, <1>1, <1>2, <2>1, ClaimFacts DEF PlayerClaim, betVars, histVars
    <2> HIDE DEF owed
    <2>3. -owed \in Int /\ (-owed) - (-owed) = 0 - 0 + 0
      BY <2>1
    <2>4. Moved(-owed, -owed, 0, 0, 0)
      BY <2>2 DEF Moved
    <2> QED
      BY <2>3, <2>4, MoneyMoves
  <1>3. ASSUME ExecuteOwnerWithdraw
        PROVE  Conservation'
    <2>1. /\ ledger'.balance = ledger.balance + (-ownerWithdrawal)
          /\ ledger'.totalPending = ledger.totalPending + 0
          /\ SumFunctionOnSet(ledger'.net, Games) = SumFunctionOnSet(ledger.net, Games) + 0
          /\ capital' = capital + (-ownerWithdrawal)
          /\ StakesIn(bets') = StakesIn(bets) + 0
      BY <1>0, <1>1, <1>3 DEF ExecuteOwnerWithdraw, Ledger, betVars
    <2>2. -ownerWithdrawal \in Int
          /\ (-ownerWithdrawal) - 0 = (-ownerWithdrawal) - 0 + 0
      BY <1>0
    <2>3. Moved(-ownerWithdrawal, 0, 0, -ownerWithdrawal, 0)
      BY <2>1 DEF Moved
    <2> QED
      BY <2>2, <2>3, MoneyMoves
  <1>4. ASSUME NEW amount \in Deposits, ScheduleOwnerWithdraw(amount)
        PROVE  Conservation'
    BY <1>4, IdleConserves DEF ScheduleOwnerWithdraw, betVars, histVars
  <1>5. ASSUME CancelOwnerWithdraw
        PROVE  Conservation'
    BY <1>5, IdleConserves DEF CancelOwnerWithdraw, betVars, histVars
  <1> QED
    BY <1>2, <1>3, <1>4, <1>5 DEF Withdraw

\* What the vault holds beyond its debts is always the owner's capital, less what
\* all games have cost, plus the stakes of the open bets: no operation creates or
\* loses money, and gameNet counts every bet once.
THEOREM ConservationHolds == Spec => []Conservation
  <1>1. Init => Conservation
    <2> SUFFICES ASSUME Init PROVE Conservation
      OBVIOUS
    <2>1. bets = <<>> /\ capital = 0 /\ ledger = EmptyLedger
      BY DEF Init
    <2>2. StakesIn(bets) = 0
      <3>1. OpenIn(bets) = {}
        BY <2>1 DEF OpenIn
      <3> QED
        BY <3>1, SumEmpty DEF StakesIn
    <2>3. SumFunctionOnSet(ledger.net, Games) = 0
      <3> DEFINE net == ledger.net
      <3>1. IsFiniteSet(Games) /\ \A g \in Games : net[g] = 0
        BY <2>1, ConstantsAssumption DEF EmptyLedger
      <3> HIDE DEF net
      <3>2. IsFiniteSet(Games) /\ {} \in SUBSET Games /\ \A g \in Games : net[g] \in Int
        BY <3>1
      <3>3. \A g \in Games \ {} : net[g] = 0
        BY <3>1
      <3>4. SumFunctionOnSet(net, Games) = SumFunctionOnSet(net, {})
        BY ONLY <3>2, <3>3, SumZeros
      <3> QED
        BY <3>4, SumEmpty DEF net
    <2>4. ledger.balance = 0 /\ ledger.totalPending = 0
      BY <2>1 DEF EmptyLedger
    <2> QED
      BY <2>1, <2>2, <2>3, <2>4, OpenStakesAre DEF Conservation
  <1>2. TypeOK /\ TypeOK' /\ Conservation /\ [Next]_vars => Conservation'
    <2> SUFFICES ASSUME TypeOK, TypeOK', Conservation, [Next]_vars PROVE Conservation'
      OBVIOUS
    <2>1. CASE Tick \/ UNCHANGED vars
      BY <2>1, IdleConserves DEF Tick, vars, betVars, histVars
    <2> QED
      BY <2>1, AdministerConserves, PlayBetConserves, ModuleCallConserves,
         WithdrawConserves
      DEF Next
  <1> QED
    BY <1>1, <1>2, TypeCorrect, PTL DEF Spec

=============================================================================
