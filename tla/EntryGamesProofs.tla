-------------------------- MODULE EntryGamesProofs --------------------------
(***************************************************************************)
(* Theorems about the games entered at their own module, for every set of  *)
(* players and modules, every window and timeout, and any number of rounds,*)
(* games and spins: the shared rounds (RoundGames), then mines (MinesGames)*)
(* with any coordinator, then the slots (SlotGames).  The three are proved *)
(* one after the other; nothing of one is used for another but the vault.  *)
(***************************************************************************)
EXTENDS RoundGames, MinesGames, SlotGames, CasinoVaultProofs

-----------------------------------------------------------------------------
\* Shared rounds

\* A round whose flags are Booleans, whatever its other fields are made of.
RoundOver(X) == [betWindowEnd : X, commitBlock : X, seedIdx : X,
                 settled : BOOLEAN, drawn : BOOLEAN, entries : X]

RoundShape ==
    /\ \E X : rounds \in [GameModules -> Seq(RoundOver(X))]
    /\ hasOpenRound \in [GameModules -> BOOLEAN]

-----------------------------------------------------------------------------
\* Sequences of rounds

\* A module's rounds are a sequence; its length and its elements.
LEMMA RoundsFacts ==
    ASSUME NEW X, rounds \in [GameModules -> Seq(RoundOver(X))],
           NEW m \in GameModules
    PROVE  /\ rounds[m] \in Seq(RoundOver(X))
           /\ Len(rounds[m]) \in Nat
           /\ DOMAIN rounds[m] = 1..Len(rounds[m])
           /\ \A id \in RoundsOf(m) : rounds[m][id] \in RoundOver(X)
           /\ rounds[m] # <<>> <=> Len(rounds[m]) > 0
  <1>1. rounds[m] \in Seq(RoundOver(X))
    OBVIOUS
  <1> QED
    BY <1>1 DEF RoundsOf

\* A round made of a larger set of values.
LEMMA WidenRounds ==
    ASSUME NEW X, NEW Y, X \subseteq Y, NEW s \in Seq(RoundOver(X))
    PROVE  s \in Seq(RoundOver(Y))
  <1>1. \A r : r \in RoundOver(X) => r \in RoundOver(Y)
    BY DEF RoundOver
  <1> QED
    BY <1>1

\* One round of one module is replaced by r.
RoundReplaced(m, id, r) ==
    /\ \E X : rounds' \in [GameModules -> Seq(RoundOver(X))]
    /\ \A n \in GameModules : Len(rounds'[n]) = Len(rounds[n])
    /\ \A n \in GameModules : n # m => rounds'[n] = rounds[n]
    /\ rounds'[m][id] = r
    /\ \A j \in RoundsOf(m) : j # id => rounds'[m][j] = rounds[m][j]

\* A step that replaces one round of one module keeps the shape.
LEMMA ReplaceRoundShape ==
    ASSUME RoundShape, NEW m \in GameModules, NEW id \in RoundsOf(m),
           NEW Y, NEW r \in RoundOver(Y),
           rounds' = [rounds EXCEPT ![m] = [rounds[m] EXCEPT ![id] = r]]
    PROVE  RoundReplaced(m, id, r)
  <1>1. PICK X : rounds \in [GameModules -> Seq(RoundOver(X))]
    BY DEF RoundShape
  <1> DEFINE Z == X \cup Y
             s == [rounds[m] EXCEPT ![id] = r]
  <1>2. \A n \in GameModules : rounds[n] \in Seq(RoundOver(Z))
    <2> SUFFICES ASSUME NEW n \in GameModules PROVE rounds[n] \in Seq(RoundOver(Z))
      OBVIOUS
    <2>1. rounds[n] \in Seq(RoundOver(X)) /\ X \subseteq Z
      BY <1>1
    <2> QED
      BY <2>1, WidenRounds
  <1>3. r \in RoundOver(Z)
    BY DEF RoundOver
  <1> HIDE DEF Z
  <1>4. s \in Seq(RoundOver(Z)) /\ Len(s) = Len(rounds[m])
    BY <1>2, <1>3, ExceptSeq DEF RoundsOf
  <1>5. /\ s[id] = r
        /\ \A j \in RoundsOf(m) : j # id => s[j] = rounds[m][j]
    BY <1>1, RoundsFacts DEF RoundsOf
  <1> HIDE DEF s
  <1>6. rounds' = [rounds EXCEPT ![m] = s]
    BY DEF s
  <1>7. rounds' \in [GameModules -> Seq(RoundOver(Z))]
    BY <1>1, <1>2, <1>4, <1>6
  <1>8. rounds'[m] = s /\ \A n \in GameModules : n # m => rounds'[n] = rounds[n]
    BY <1>1, <1>6
  <1> QED
    BY <1>4, <1>5, <1>7, <1>8 DEF RoundReplaced

\* A step that appends a round to one module's keeps the shape.
LEMMA AppendRoundShape ==
    ASSUME RoundShape, NEW m \in GameModules, NEW Y, NEW r \in RoundOver(Y),
           rounds' = [rounds EXCEPT ![m] = Append(@, r)]
    PROVE  /\ \E X : rounds' \in [GameModules -> Seq(RoundOver(X))]
           /\ \A n \in GameModules : n # m => rounds'[n] = rounds[n]
           /\ Len(rounds'[m]) = Len(rounds[m]) + 1
           /\ rounds'[m][Len(rounds[m]) + 1] = r
           /\ \A j \in RoundsOf(m) : rounds'[m][j] = rounds[m][j]
  <1>1. PICK X : rounds \in [GameModules -> Seq(RoundOver(X))]
    BY DEF RoundShape
  <1> DEFINE Z == X \cup Y
             s == Append(rounds[m], r)
  <1>2. \A n \in GameModules : rounds[n] \in Seq(RoundOver(Z))
    <2> SUFFICES ASSUME NEW n \in GameModules PROVE rounds[n] \in Seq(RoundOver(Z))
      OBVIOUS
    <2>1. rounds[n] \in Seq(RoundOver(X)) /\ X \subseteq Z
      BY <1>1
    <2> QED
      BY <2>1, WidenRounds
  <1>3. r \in RoundOver(Z)
    BY DEF RoundOver
  <1> HIDE DEF Z
  <1>4. /\ s \in Seq(RoundOver(Z))
        /\ Len(s) = Len(rounds[m]) + 1
        /\ s[Len(rounds[m]) + 1] = r
        /\ \A j \in RoundsOf(m) : s[j] = rounds[m][j]
    BY <1>2, <1>3 DEF RoundsOf
  <1> HIDE DEF s
  <1>5. rounds' = [rounds EXCEPT ![m] = s]
    BY <1>1 DEF s
  <1>6. rounds' \in [GameModules -> Seq(RoundOver(Z))]
    BY <1>1, <1>2, <1>4, <1>5
  <1>7. rounds'[m] = s /\ \A n \in GameModules : n # m => rounds'[n] = rounds[n]
    BY <1>1, <1>5
  <1> QED
    BY <1>4, <1>6, <1>7

-----------------------------------------------------------------------------
\* What a step does to the rounds of a module

NewestInv == RoundShape /\ OnlyNewestOpen

\* A round is opened behind settled ones.
LEMMA OpeningKeepsNewest ==
    ASSUME NewestInv, NEW m \in GameModules, ~hasOpenRound[m],
           NEW Y, NEW r \in RoundOver(Y), ~r.settled,
           rounds' = [rounds EXCEPT ![m] = Append(@, r)],
           hasOpenRound' = [hasOpenRound EXCEPT ![m] = TRUE]
    PROVE  NewestInv'
  <1>1. PICK X : rounds \in [GameModules -> Seq(RoundOver(X))]
    BY DEF NewestInv, RoundShape
  <1>2. /\ \E Z : rounds' \in [GameModules -> Seq(RoundOver(Z))]
        /\ \A n \in GameModules : n # m => rounds'[n] = rounds[n]
        /\ Len(rounds'[m]) = Len(rounds[m]) + 1
        /\ rounds'[m][Len(rounds[m]) + 1] = r
        /\ \A j \in RoundsOf(m) : rounds'[m][j] = rounds[m][j]
    <2>1. RoundShape
      BY DEF NewestInv
    <2> QED
      BY ONLY <2>1, m \in GameModules, r \in RoundOver(Y),
              rounds' = [rounds EXCEPT ![m] = Append(@, r)], AppendRoundShape
  <1>3. RoundShape'
    BY <1>2 DEF NewestInv, RoundShape
  <1>4. \A j \in RoundsOf(m) : rounds[m][j].settled
    BY <1>1, RoundsFacts DEF NewestInv, OnlyNewestOpen, RoundsOf, Current
  <1>5. OnlyNewestOpen'
    <2> SUFFICES ASSUME NEW n \in GameModules
                 PROVE  /\ \A id \in 1..Len(rounds'[n]) :
                              ~rounds'[n][id].settled => id = Len(rounds'[n])
                        /\ hasOpenRound'[n] <=>
                             /\ rounds'[n] # <<>>
                             /\ ~rounds'[n][Len(rounds'[n])].settled
      BY DEF OnlyNewestOpen, RoundsOf, Current
    <2>1. CASE n # m
      BY <1>2, <2>1 DEF NewestInv, RoundShape, OnlyNewestOpen, RoundsOf, Current
    <2>2. CASE n = m
      <3>1. Len(rounds[m]) \in Nat
        BY <1>1, RoundsFacts
      <3>2. \A id \in 1..Len(rounds'[m]) : ~rounds'[m][id].settled => id = Len(rounds'[m])
        BY <1>2, <1>4, <3>1 DEF RoundsOf
      <3>3. rounds'[m] # <<>>
        BY <1>2, <3>1
      <3>4. hasOpenRound'[m] = TRUE
        BY DEF NewestInv, RoundShape
      <3> QED
        BY <1>2, <2>2, <3>2, <3>3, <3>4
    <2> QED
      BY <2>1, <2>2
  <1> QED
    BY <1>3, <1>5 DEF NewestInv

\* An open round is settled or refunded: it was the newest, and now none is
\* open.
LEMMA ClosingKeepsNewest ==
    ASSUME NewestInv, NEW m \in GameModules, NEW id \in RoundsOf(m),
           ~rounds[m][id].settled, NEW Y, NEW r \in RoundOver(Y), r.settled,
           rounds' = [rounds EXCEPT ![m] = [rounds[m] EXCEPT ![id] = r]],
           hasOpenRound' = [hasOpenRound EXCEPT ![m] = FALSE]
    PROVE  NewestInv'
  <1>1. PICK X : rounds \in [GameModules -> Seq(RoundOver(X))]
    BY DEF NewestInv, RoundShape
  <1>2. /\ \E X_ : rounds' \in [GameModules -> Seq(RoundOver(X_))]
        /\ \A n \in GameModules : Len(rounds'[n]) = Len(rounds[n])
        /\ \A n \in GameModules : n # m => rounds'[n] = rounds[n]
        /\ rounds'[m][id] = r
        /\ \A j \in RoundsOf(m) : j # id => rounds'[m][j] = rounds[m][j]
    <2>1. RoundShape
      BY DEF NewestInv
    <2>2. RoundReplaced(m, id, r)
      BY ONLY <2>1, m \in GameModules, id \in RoundsOf(m), r \in RoundOver(Y),
              rounds' = [rounds EXCEPT ![m] = [rounds[m] EXCEPT ![id] = r]],
              ReplaceRoundShape
    <2> QED
      BY <2>2 DEF RoundReplaced
  <1>3. RoundShape'
    BY <1>2 DEF NewestInv, RoundShape
  <1>4. id = Len(rounds[m])
    BY DEF NewestInv, OnlyNewestOpen
  <1>5. \A j \in RoundsOf(m) : rounds'[m][j].settled
    BY <1>2, <1>4 DEF NewestInv, OnlyNewestOpen
  <1>6. OnlyNewestOpen'
    <2> SUFFICES ASSUME NEW n \in GameModules
                 PROVE  /\ \A j \in 1..Len(rounds'[n]) :
                              ~rounds'[n][j].settled => j = Len(rounds'[n])
                        /\ hasOpenRound'[n] <=>
                             /\ rounds'[n] # <<>>
                             /\ ~rounds'[n][Len(rounds'[n])].settled
      BY DEF OnlyNewestOpen, RoundsOf, Current
    <2>1. CASE n # m
      BY <1>2, <2>1 DEF NewestInv, RoundShape, OnlyNewestOpen, RoundsOf, Current
    <2>2. CASE n = m
      <3>1. hasOpenRound'[m] = FALSE
        BY DEF NewestInv, RoundShape
      <3>2. rounds'[m][Len(rounds'[m])].settled
        BY <1>2, <1>4, <1>5
      <3> QED
        BY <1>2, <1>5, <2>2, <3>1, <3>2 DEF RoundsOf
    <2> QED
      BY <2>1, <2>2
  <1> QED
    BY <1>3, <1>6 DEF NewestInv

\* A bet or a cash-out changes a round but not whether it is open.
LEMMA BettingKeepsNewest ==
    ASSUME NewestInv, NEW m \in GameModules, NEW id \in RoundsOf(m),
           NEW Y, NEW r \in RoundOver(Y), r.settled = rounds[m][id].settled,
           rounds' = [rounds EXCEPT ![m] = [rounds[m] EXCEPT ![id] = r]],
           UNCHANGED hasOpenRound
    PROVE  NewestInv'
  <1>1. /\ \E X : rounds' \in [GameModules -> Seq(RoundOver(X))]
        /\ \A n \in GameModules : Len(rounds'[n]) = Len(rounds[n])
        /\ \A n \in GameModules : n # m => rounds'[n] = rounds[n]
        /\ rounds'[m][id] = r
        /\ \A j \in RoundsOf(m) : j # id => rounds'[m][j] = rounds[m][j]
    <2>1. RoundShape
      BY DEF NewestInv
    <2>2. RoundReplaced(m, id, r)
      BY ONLY <2>1, m \in GameModules, id \in RoundsOf(m), r \in RoundOver(Y),
              rounds' = [rounds EXCEPT ![m] = [rounds[m] EXCEPT ![id] = r]],
              ReplaceRoundShape
    <2> QED
      BY <2>2 DEF RoundReplaced
  <1>2. RoundShape'
    BY <1>1 DEF NewestInv, RoundShape
  <1>3. \A j \in RoundsOf(m) : rounds'[m][j].settled = rounds[m][j].settled
    BY <1>1
  <1>4. rounds'[m] # <<>> /\ rounds[m] # <<>>
    <2>1. PICK X : rounds \in [GameModules -> Seq(RoundOver(X))]
      BY DEF NewestInv, RoundShape
    <2>2. Len(rounds[m]) > 0 /\ Len(rounds'[m]) > 0
      BY <1>1, <2>1, RoundsFacts DEF RoundsOf
    <2> QED
      BY <2>2
  <1>5. Len(rounds[m]) \in RoundsOf(m)
    <2>1. PICK X : rounds \in [GameModules -> Seq(RoundOver(X))]
      BY DEF NewestInv, RoundShape
    <2> QED
      BY <2>1, RoundsFacts DEF RoundsOf
  <1>6. OnlyNewestOpen'
    <2> SUFFICES ASSUME NEW n \in GameModules
                 PROVE  /\ \A j \in 1..Len(rounds'[n]) :
                              ~rounds'[n][j].settled => j = Len(rounds'[n])
                        /\ hasOpenRound[n] <=>
                             /\ rounds'[n] # <<>>
                             /\ ~rounds'[n][Len(rounds'[n])].settled
      BY DEF OnlyNewestOpen, RoundsOf, Current
    <2>1. CASE n # m
      BY <1>1, <2>1 DEF NewestInv, OnlyNewestOpen, RoundsOf, Current
    <2>2. CASE n = m
      <3>1. Len(rounds'[m]) = Len(rounds[m]) /\ UNCHANGED hasOpenRound
        BY <1>1
      <3>2. /\ \A j \in RoundsOf(m) : ~rounds[m][j].settled => j = Len(rounds[m])
            /\ hasOpenRound[m] <=> ~rounds[m][Len(rounds[m])].settled
        BY <1>4 DEF NewestInv, OnlyNewestOpen, Current
      <3>3. \A j \in 1..Len(rounds'[m]) :
               ~rounds'[m][j].settled => j = Len(rounds'[m])
        BY <1>3, <3>1, <3>2 DEF RoundsOf
      <3>4. rounds'[m][Len(rounds'[m])].settled = rounds[m][Len(rounds[m])].settled
        BY <1>3, <1>5, <3>1
      <3> QED
        BY <1>4, <2>2, <3>2, <3>3, <3>4
    <2> QED
      BY <2>1, <2>2
  <1> QED
    BY <1>2, <1>6 DEF NewestInv

\* New entries leave the flags of a round alone.
LEMMA NewEntriesShape ==
    ASSUME NEW X, NEW q \in RoundOver(X), NEW v
    PROVE  /\ [q EXCEPT !.entries = v] \in RoundOver(X \cup {v})
           /\ [q EXCEPT !.entries = v].settled = q.settled
  BY DEF RoundOver

\* A step that writes the entries of the newest, open round.
LEMMA NewEntriesKeepNewest ==
    ASSUME NewestInv, NEW m \in GameModules, hasOpenRound[m], NEW v,
           rounds' = [rounds EXCEPT ![m] =
                        [rounds[m] EXCEPT ![Len(rounds[m])] =
                            [rounds[m][Len(rounds[m])] EXCEPT !.entries = v]]],
           UNCHANGED hasOpenRound
    PROVE  NewestInv'
  <1>1. PICK X : rounds \in [GameModules -> Seq(RoundOver(X))]
    BY DEF NewestInv, RoundShape
  <1> DEFINE last == Len(rounds[m])
             r == [rounds[m][last] EXCEPT !.entries = v]
  <1>2. rounds[m] # <<>>
    BY DEF NewestInv, OnlyNewestOpen
  <1>3. last \in RoundsOf(m)
    BY <1>1, <1>2, RoundsFacts DEF RoundsOf
  <1>4. rounds[m][last] \in RoundOver(X)
    BY <1>1, <1>3, RoundsFacts
  <1>5. r \in RoundOver(X \cup {v}) /\ r.settled = rounds[m][last].settled
    BY <1>4, NewEntriesShape
  <1>6. rounds' = [rounds EXCEPT ![m] = [rounds[m] EXCEPT ![last] = r]]
    OBVIOUS
  <1> HIDE DEF last, r
  <1> QED
    BY <1>3, <1>5, <1>6, BettingKeepsNewest

-----------------------------------------------------------------------------
\* The steps

LEMMA StartRoundKeepsNewest ==
    ASSUME NewestInv, NEW m \in GameModules, StartRound(m)
    PROVE  NewestInv'
  <1> DEFINE Y == {Now + betWindow[m], block, nextHashIndex, <<>>}
  <1>1. NewRound(m) \in RoundOver(Y) /\ ~NewRound(m).settled
    BY DEF NewRound, RoundOver
  <1>2. ~hasOpenRound[m]
    BY DEF StartRound, MayOpen
  <1>3. /\ rounds' = [rounds EXCEPT ![m] = Append(@, NewRound(m))]
        /\ hasOpenRound' = [hasOpenRound EXCEPT ![m] = TRUE]
    BY DEF StartRound
  <1> HIDE DEF Y
  <1> QED
    BY <1>1, <1>2, <1>3, OpeningKeepsNewest

LEMMA PlaceCrashBetKeepsNewest ==
    ASSUME NewestInv, NEW m \in GameModules, NEW p, NEW amount, NEW auto,
           PlaceCrashBet(m, p, amount, auto)
    PROVE  NewestInv'
  <1> DEFINE bet == [player |-> p, stake |-> amount, auto |-> auto, manual |-> 0,
                     exposure |-> CrashExposure(amount, auto)]
             v == Append(rounds[m][Len(rounds[m])].entries, bet)
  <1>1. hasOpenRound[m] /\ UNCHANGED hasOpenRound
    BY DEF PlaceCrashBet, TakingBets
  <1>2. rounds' = [rounds EXCEPT ![m] =
                     [rounds[m] EXCEPT ![Len(rounds[m])] =
                         [rounds[m][Len(rounds[m])] EXCEPT !.entries = v]]]
    BY DEF PlaceCrashBet
  <1> HIDE DEF v
  <1> QED
    BY <1>1, <1>2, NewEntriesKeepNewest

LEMMA RequestCashoutKeepsNewest ==
    ASSUME NewestInv, NEW m \in GameModules, NEW p, NEW multiplier,
           RequestCashout(m, p, multiplier)
    PROVE  NewestInv'
  <1>1. hasOpenRound[m] /\ UNCHANGED hasOpenRound
    BY DEF RequestCashout
  <1>2. PICK i \in EntriesOf(Current(m), p) :
          rounds' = [rounds EXCEPT ![m][Len(rounds[m])].entries[i].manual = multiplier]
    BY DEF RequestCashout
  <1> DEFINE v == [rounds[m][Len(rounds[m])].entries EXCEPT ![i].manual = multiplier]
  <1>3. rounds' = [rounds EXCEPT ![m] =
                     [rounds[m] EXCEPT ![Len(rounds[m])] =
                         [rounds[m][Len(rounds[m])] EXCEPT !.entries = v]]]
    BY <1>2
  <1> HIDE DEF v
  <1> QED
    BY <1>1, <1>3, NewEntriesKeepNewest

LEMMA PlaceRouletteBetsKeepsNewest ==
    ASSUME NewestInv, NEW m \in GameModules, NEW p, NEW slip,
           PlaceRouletteBets(m, p, slip)
    PROVE  NewestInv'
  <1> DEFINE last     == Len(rounds[m])
             amount   == Total(slip, LAMBDA b : b.amount)
             exposure == Total(slip, LAMBDA b : b.amount * Multiplier(b.kind))
             bet == [player |-> p, stake |-> amount, slip |-> slip, exposure |-> exposure]
             v == Append(rounds[m][last].entries, bet)
             w(i) == [rounds[m][last].entries EXCEPT ![i] =
                         ExtendedBy(@, slip, amount, exposure)]
             With(x) == [rounds EXCEPT ![m] =
                          [rounds[m] EXCEPT ![last] = [rounds[m][last] EXCEPT !.entries = x]]]
  <1>1. hasOpenRound[m] /\ UNCHANGED hasOpenRound
    BY DEF PlaceRouletteBets, TakingBets
  <1>2. rounds' = With(v) \/ \E i \in EntriesOf(Current(m), p) : rounds' = With(w(i))
    BY DEF PlaceRouletteBets
  <1> HIDE DEF v, w, amount, exposure, bet
  <1>3. CASE rounds' = With(v)
    BY <1>1, <1>3, NewEntriesKeepNewest
  <1>4. ASSUME NEW i \in EntriesOf(Current(m), p), rounds' = With(w(i))
        PROVE  NewestInv'
    BY <1>1, <1>4, NewEntriesKeepNewest
  <1> QED
    BY <1>2, <1>3, <1>4

LEMMA SettleRoundKeepsNewest ==
    ASSUME NewestInv, NEW m \in GameModules, NEW id \in RoundsOf(m), NEW outcome,
           SettleRound(m, id, outcome)
    PROVE  NewestInv'
  <1>1. PICK X : rounds \in [GameModules -> Seq(RoundOver(X))]
    BY DEF NewestInv, RoundShape
  <1> DEFINE r == MarkSettled(rounds[m][id])
  <1>2. rounds[m][id] \in RoundOver(X)
    BY <1>1, RoundsFacts
  <1>3. r \in RoundOver(X) /\ r.settled
    BY <1>2 DEF MarkSettled, RoundOver
  <1>4. /\ ~rounds[m][id].settled
        /\ rounds' = [rounds EXCEPT ![m] = [rounds[m] EXCEPT ![id] = r]]
        /\ hasOpenRound' = [hasOpenRound EXCEPT ![m] = FALSE]
    BY DEF SettleRound
  <1> HIDE DEF r
  <1> QED
    BY <1>3, <1>4, ClosingKeepsNewest

LEMMA RefundRoundKeepsNewest ==
    ASSUME NewestInv, NEW m \in GameModules, NEW id \in RoundsOf(m), RefundRound(m, id)
    PROVE  NewestInv'
  <1>1. PICK X : rounds \in [GameModules -> Seq(RoundOver(X))]
    BY DEF NewestInv, RoundShape
  <1> DEFINE r == [rounds[m][id] EXCEPT !.settled = TRUE]
  <1>2. rounds[m][id] \in RoundOver(X)
    BY <1>1, RoundsFacts
  <1>3. r \in RoundOver(X) /\ r.settled
    BY <1>2 DEF RoundOver
  <1>4. /\ ~rounds[m][id].settled
        /\ rounds' = [rounds EXCEPT ![m] = [rounds[m] EXCEPT ![id] = r]]
        /\ hasOpenRound' = [hasOpenRound EXCEPT ![m] = FALSE]
    BY DEF RefundRound, ReturnStakes
  <1> HIDE DEF r
  <1> QED
    BY <1>3, <1>4, ClosingKeepsNewest

\* A step that touches neither variable.
LEMMA IdleKeepsNewest ==
    ASSUME NewestInv, UNCHANGED <<rounds, hasOpenRound>>
    PROVE  NewestInv'
  BY DEF NewestInv, RoundShape, OnlyNewestOpen, RoundsOf, Current

LEMMA RoundNextKeepsNewest ==
    ASSUME NewestInv, [RoundNext]_allVars
    PROVE  NewestInv'
  <1>1. CASE UNCHANGED allVars
    BY <1>1, IdleKeepsNewest DEF allVars, roundVars
  <1>2. CASE VaultStep /\ UNCHANGED roundVars
    BY <1>2, IdleKeepsNewest DEF roundVars
  <1>3. ASSUME NEW m \in GameModules, NEW seconds \in BetWindows, SetBetWindow(m, seconds)
        PROVE  NewestInv'
    BY <1>3, IdleKeepsNewest DEF SetBetWindow
  <1>4. ASSUME NEW m \in GameModules, NEW id \in 1..Len(rounds[m]),
               NEW outcome \in Outcomes(m), SettleRound(m, id, outcome)
        PROVE  NewestInv'
    BY <1>4, SettleRoundKeepsNewest DEF RoundsOf
  <1>5. ASSUME NEW m \in GameModules, NEW id \in 1..Len(rounds[m]), RefundRound(m, id)
        PROVE  NewestInv'
    BY <1>5, RefundRoundKeepsNewest DEF RoundsOf
  <1> QED
    BY <1>1, <1>2, <1>3, <1>4, <1>5, StartRoundKeepsNewest, PlaceCrashBetKeepsNewest,
       RequestCashoutKeepsNewest, PlaceRouletteBetsKeepsNewest
    DEF RoundNext, RoundStep

LEMMA RoundInitIsNewest == RoundInit => NewestInv
  <1> SUFFICES ASSUME RoundInit PROVE NewestInv
    OBVIOUS
  <1>1. rounds \in [GameModules -> Seq(RoundOver({}))]
    BY DEF RoundInit
  <1>2. RoundShape
    BY <1>1 DEF RoundInit, RoundShape
  <1>3. OnlyNewestOpen
    BY DEF RoundInit, OnlyNewestOpen, RoundsOf, Current
  <1> QED
    BY <1>2, <1>3 DEF NewestInv

\* Whatever rounds are opened, bet on, settled or refunded by whoever calls, in
\* whatever order: only the newest round of a module is ever open, and
\* _hasOpenRound, which startRound, placeBet and requestCashout go by, says
\* whether it is (CrashModule.sol and RouletteModule.sol).
THEOREM OnlyNewestOpenHolds == RoundSpec => []OnlyNewestOpen
  <1>1. RoundInit => NewestInv
    BY RoundInitIsNewest
  <1>2. NewestInv /\ [RoundNext]_allVars => NewestInv'
    BY RoundNextKeepsNewest
  <1>3. NewestInv => OnlyNewestOpen
    BY DEF NewestInv
  <1> QED
    BY <1>1, <1>2, <1>3, PTL DEF RoundSpec

-----------------------------------------------------------------------------
\* Seeds: a round's index is its own, and behind the next one to be handed out

SeedsApart ==
    /\ nextHashIndex \in Nat
    /\ \A idx \in BetSeeds \cup revealed : HandedOut(idx)
    /\ \A m \in GameModules : \A id \in RoundsOf(m) :
          HandedOut(rounds[m][id].seedIdx) /\ rounds[m][id].seedIdx \notin BetSeeds
    /\ \A m, n \in GameModules : \A id \in RoundsOf(m), j \in RoundsOf(n) :
          rounds[m][id].seedIdx = rounds[n][j].seedIdx => m = n /\ id = j

RoundSeedInv == BetsShape /\ SeedsApart /\ RoundSeedPublicIffDrawn

\* A bet's seed is never a round's, so the vault reveals none of theirs.
LEMMA VaultKeepsRoundSeeds ==
    ASSUME RoundSeedInv, VaultStep, UNCHANGED rounds
    PROVE  RoundSeedInv'
  <1>1. VaultSeedStep
    BY VaultStepSeeds DEF RoundSeedInv
  <1>2. SeedsApart'
    <2>1. nextHashIndex \in Nat /\ nextHashIndex' \in Nat /\ nextHashIndex' >= nextHashIndex
      BY <1>1 DEF VaultSeedStep, RoundSeedInv, SeedsApart
    <2>2. \A idx : HandedOut(idx) => HandedOut(idx)'
      BY <2>1 DEF HandedOut
    <2>3. \A idx \in (BetSeeds \cup revealed)' : HandedOut(idx)'
      BY <1>1, <2>1, <2>2 DEF VaultSeedStep, RoundSeedInv, SeedsApart, HandedOut
    <2>4. ASSUME NEW m \in GameModules, NEW id \in RoundsOf(m)
          PROVE  HandedOut(rounds[m][id].seedIdx)' /\ rounds[m][id].seedIdx \notin BetSeeds'
      BY <1>1, <2>1, <2>2 DEF VaultSeedStep, RoundSeedInv, SeedsApart, HandedOut
    <2> QED
      BY <2>1, <2>3, <2>4 DEF RoundSeedInv, SeedsApart, RoundsOf
  <1>3. RoundSeedPublicIffDrawn'
    <2> SUFFICES ASSUME NEW m \in GameModules, NEW id \in RoundsOf(m)
                 PROVE  /\ rounds[m][id].seedIdx \in revealed' <=> rounds[m][id].drawn
                        /\ rounds[m][id].drawn => rounds[m][id].settled
      BY DEF RoundSeedPublicIffDrawn, RoundsOf
    <2>1. rounds[m][id].seedIdx \notin BetSeeds
      BY DEF RoundSeedInv, SeedsApart
    <2> QED
      BY <1>1, <2>1 DEF VaultSeedStep, RoundSeedInv, RoundSeedPublicIffDrawn
  <1> QED
    BY <1>1, <1>2, <1>3 DEF RoundSeedInv, VaultSeedStep

\* A round takes the next index, which no bet has and which is not public.
LEMMA OpeningKeepsRoundSeeds ==
    ASSUME RoundShape, RoundSeedInv, NEW m \in GameModules,
           NEW Y, NEW r \in RoundOver(Y), r.seedIdx = nextHashIndex, ~r.drawn,
           rounds' = [rounds EXCEPT ![m] = Append(@, r)],
           nextHashIndex' = nextHashIndex + 1, UNCHANGED <<bets, revealed>>
    PROVE  RoundSeedInv'
  <1>1. /\ \A n \in GameModules : n # m => rounds'[n] = rounds[n]
        /\ Len(rounds'[m]) = Len(rounds[m]) + 1
        /\ rounds'[m][Len(rounds[m]) + 1] = r
        /\ \A j \in RoundsOf(m) : rounds'[m][j] = rounds[m][j]
    BY ONLY RoundShape, m \in GameModules, r \in RoundOver(Y),
            rounds' = [rounds EXCEPT ![m] = Append(@, r)], AppendRoundShape
  <1>2. Len(rounds[m]) \in Nat
    BY RoundsFacts DEF RoundShape
  <1>3. nextHashIndex \in Nat /\ BetSeeds' = BetSeeds
    BY DEF RoundSeedInv, SeedsApart, BetSeeds
  <1> DEFINE New(n, id) == n = m /\ id = Len(rounds[m]) + 1
  <1>4. ASSUME NEW n \in GameModules, NEW id \in 1..Len(rounds'[n])
        PROVE  \/ New(n, id) /\ rounds'[n][id] = r
               \/ ~New(n, id) /\ id \in RoundsOf(n) /\ rounds'[n][id] = rounds[n][id]
    <2>1. CASE n # m
      BY <1>1, <1>4, <2>1 DEF RoundsOf
    <2>2. CASE n = m
      BY <1>1, <1>2, <1>4, <2>2 DEF RoundsOf
    <2> QED
      BY <2>1, <2>2
  <1>5. \A n \in GameModules : \A id \in RoundsOf(n) :
           /\ rounds[n][id].seedIdx \in Nat
           /\ rounds[n][id].seedIdx < nextHashIndex
           /\ rounds[n][id].seedIdx \notin BetSeeds
    BY DEF RoundSeedInv, SeedsApart, HandedOut
  <1>6. \A idx \in BetSeeds \cup revealed : idx \in Nat /\ idx < nextHashIndex
    BY DEF RoundSeedInv, SeedsApart, HandedOut
  <1> HIDE DEF New
  <1>7. SeedsApart'
    <2>1. nextHashIndex' \in Nat /\ \A idx \in (BetSeeds \cup revealed)' : HandedOut(idx)'
      BY <1>3, <1>6 DEF HandedOut
    <2>2. ASSUME NEW n \in GameModules, NEW id \in 1..Len(rounds'[n])
          PROVE  HandedOut(rounds[n][id].seedIdx)' /\ rounds'[n][id].seedIdx \notin BetSeeds'
      BY <1>3, <1>4, <1>5, <1>6, <2>2 DEF HandedOut
    <2>3. ASSUME NEW n \in GameModules, NEW o \in GameModules,
                 NEW id \in 1..Len(rounds'[n]), NEW j \in 1..Len(rounds'[o]),
                 rounds'[n][id].seedIdx = rounds'[o][j].seedIdx
          PROVE  n = o /\ id = j
      <3>1. CASE New(n, id) /\ New(o, j)
        BY <3>1 DEF New
      <3>2. CASE New(n, id) /\ ~New(o, j)
        BY <1>3, <1>4, <1>5, <2>3, <3>2
      <3>3. CASE ~New(n, id) /\ New(o, j)
        BY <1>3, <1>4, <1>5, <2>3, <3>3
      <3>4. CASE ~New(n, id) /\ ~New(o, j)
        BY <1>4, <2>3, <3>4 DEF RoundSeedInv, SeedsApart
      <3> QED
        BY <3>1, <3>2, <3>3, <3>4
    <2> QED
      BY <2>1, <2>2, <2>3 DEF SeedsApart, RoundsOf
  <1>8. RoundSeedPublicIffDrawn'
    <2> SUFFICES ASSUME NEW n \in GameModules, NEW id \in 1..Len(rounds'[n])
                 PROVE  /\ rounds'[n][id].seedIdx \in revealed <=> rounds'[n][id].drawn
                        /\ rounds'[n][id].drawn => rounds'[n][id].settled
      BY DEF RoundSeedPublicIffDrawn, RoundsOf
    <2>1. CASE New(n, id)
      BY <1>3, <1>4, <1>6, <2>1
    <2>2. CASE ~New(n, id)
      BY <1>4, <2>2 DEF RoundSeedInv, RoundSeedPublicIffDrawn
    <2> QED
      BY <2>1, <2>2
  <1>9. BetsShape'
    BY DEF RoundSeedInv, BetsShape
  <1> QED
    BY <1>7, <1>8, <1>9 DEF RoundSeedInv

\* A round that is bet on, settled or refunded keeps its seed, and a step that
\* reveals a seed reveals this round's and draws it.
LEMMA ReplacingKeepsRoundSeeds ==
    ASSUME RoundShape, RoundSeedInv, NEW m \in GameModules, NEW id \in RoundsOf(m),
           NEW Y, NEW r \in RoundOver(Y), r.seedIdx = rounds[m][id].seedIdx,
           rounds' = [rounds EXCEPT ![m] = [rounds[m] EXCEPT ![id] = r]],
           UNCHANGED <<bets, nextHashIndex>>,
           r.drawn => r.settled,
           \/ revealed' = revealed /\ r.drawn = rounds[m][id].drawn
           \/ revealed' = revealed \cup {r.seedIdx} /\ r.drawn
    PROVE  RoundSeedInv'
  <1>1. /\ \E X : rounds' \in [GameModules -> Seq(RoundOver(X))]
        /\ \A n \in GameModules : Len(rounds'[n]) = Len(rounds[n])
        /\ \A n \in GameModules : n # m => rounds'[n] = rounds[n]
        /\ rounds'[m][id] = r
        /\ \A j \in RoundsOf(m) : j # id => rounds'[m][j] = rounds[m][j]
    <2>1. RoundReplaced(m, id, r)
      BY ONLY RoundShape, m \in GameModules, id \in RoundsOf(m), r \in RoundOver(Y),
              rounds' = [rounds EXCEPT ![m] = [rounds[m] EXCEPT ![id] = r]],
              ReplaceRoundShape
    <2> QED
      BY <2>1 DEF RoundReplaced
  <1>2. \A n \in GameModules : RoundsOf(n)' = RoundsOf(n)
    BY <1>1 DEF RoundsOf
  <1>3. \A n \in GameModules : \A j \in RoundsOf(n) :
           rounds'[n][j].seedIdx = rounds[n][j].seedIdx
    BY <1>1
  <1>4. BetSeeds' = BetSeeds /\ BetsShape'
    BY DEF RoundSeedInv, BetSeeds, BetsShape
  <1>5. revealed' \subseteq revealed \cup {rounds[m][id].seedIdx}
    OBVIOUS
  <1>6. SeedsApart'
    <2>1. \A idx : HandedOut(idx) => HandedOut(idx)'
      BY DEF HandedOut
    <2>2. nextHashIndex' \in Nat
      BY DEF RoundSeedInv, SeedsApart
    <2>3. \A idx \in (BetSeeds \cup revealed)' : HandedOut(idx)'
      BY <1>4, <1>5, <2>1 DEF RoundSeedInv, SeedsApart
    <2>4. ASSUME NEW n \in GameModules, NEW j \in RoundsOf(n)
          PROVE  HandedOut(rounds[n][j].seedIdx)' /\ rounds'[n][j].seedIdx \notin BetSeeds'
      BY <1>3, <1>4, <2>4 DEF RoundSeedInv, SeedsApart, HandedOut
    <2>5. ASSUME NEW n \in GameModules, NEW o \in GameModules,
                 NEW j \in RoundsOf(n), NEW k \in RoundsOf(o),
                 rounds'[n][j].seedIdx = rounds'[o][k].seedIdx
          PROVE  n = o /\ j = k
      BY <1>3, <2>5 DEF RoundSeedInv, SeedsApart
    <2> QED
      BY <1>2, <2>2, <2>3, <2>4, <2>5 DEF SeedsApart
  <1>7. RoundSeedPublicIffDrawn'
    <2> SUFFICES ASSUME NEW n \in GameModules, NEW j \in RoundsOf(n)
                 PROVE  /\ rounds'[n][j].seedIdx \in revealed' <=> rounds'[n][j].drawn
                        /\ rounds'[n][j].drawn => rounds'[n][j].settled
      BY <1>2 DEF RoundSeedPublicIffDrawn
    <2>1. CASE n = m /\ j = id
      BY <1>1, <2>1 DEF RoundSeedInv, RoundSeedPublicIffDrawn
    <2>2. CASE ~(n = m /\ j = id)
      <3>1. rounds'[n][j] = rounds[n][j]
        BY <1>1, <2>2
      <3>2. rounds[n][j].seedIdx # rounds[m][id].seedIdx
        BY <2>2 DEF RoundSeedInv, SeedsApart
      <3>3. rounds[n][j].seedIdx \in revealed' <=> rounds[n][j].seedIdx \in revealed
        BY <3>2
      <3> QED
        BY <3>1, <3>3 DEF RoundSeedInv, RoundSeedPublicIffDrawn
    <2> QED
      BY <2>1, <2>2
  <1> QED
    BY <1>4, <1>6, <1>7 DEF RoundSeedInv

\* Bets and cash-outs write entries only.
LEMMA NewEntriesKeepRoundSeeds ==
    ASSUME NewestInv, RoundSeedInv, NEW m \in GameModules, hasOpenRound[m], NEW v,
           rounds' = [rounds EXCEPT ![m] =
                        [rounds[m] EXCEPT ![Len(rounds[m])] =
                            [rounds[m][Len(rounds[m])] EXCEPT !.entries = v]]],
           UNCHANGED <<bets, nextHashIndex, revealed>>
    PROVE  RoundSeedInv'
  <1>1. PICK X : rounds \in [GameModules -> Seq(RoundOver(X))]
    BY DEF NewestInv, RoundShape
  <1> DEFINE last == Len(rounds[m])
             r == [rounds[m][last] EXCEPT !.entries = v]
  <1>2. last \in RoundsOf(m)
    <2>1. rounds[m] # <<>>
      BY DEF NewestInv, OnlyNewestOpen
    <2> QED
      BY <1>1, <2>1, RoundsFacts DEF RoundsOf
  <1>3. rounds[m][last] \in RoundOver(X)
    BY <1>1, <1>2, RoundsFacts
  <1>4. /\ r \in RoundOver(X \cup {v})
        /\ r.seedIdx = rounds[m][last].seedIdx
        /\ r.drawn = rounds[m][last].drawn
        /\ r.settled = rounds[m][last].settled
    BY <1>3 DEF RoundOver
  <1>5. r.drawn => r.settled
    BY <1>2, <1>4 DEF RoundSeedInv, RoundSeedPublicIffDrawn
  <1>6. rounds' = [rounds EXCEPT ![m] = [rounds[m] EXCEPT ![last] = r]]
    OBVIOUS
  <1>7. RoundShape
    BY DEF NewestInv
  <1> HIDE DEF last, r
  <1> QED
    BY <1>2, <1>4, <1>5, <1>6, <1>7, ReplacingKeepsRoundSeeds

LEMMA RoundStepKeepsRoundSeeds ==
    ASSUME NewestInv, RoundSeedInv, RoundStep
    PROVE  RoundSeedInv'
  <1>1. RoundShape
    BY DEF NewestInv
  <1>2. PICK X : rounds \in [GameModules -> Seq(RoundOver(X))]
    BY <1>1 DEF RoundShape
  <1>3. ASSUME NEW m \in GameModules, NEW seconds \in BetWindows, SetBetWindow(m, seconds)
        PROVE  RoundSeedInv'
    BY <1>3 DEF SetBetWindow, vars, seedVars, betVars, RoundSeedInv, BetsShape, BetSeeds,
       SeedsApart, HandedOut, RoundsOf, RoundSeedPublicIffDrawn
  <1>4. ASSUME NEW m \in GameModules, StartRound(m)
        PROVE  RoundSeedInv'
    <2> DEFINE Y == {Now + betWindow[m], block, nextHashIndex, <<>>}
    <2>1. /\ NewRound(m) \in RoundOver(Y)
          /\ NewRound(m).seedIdx = nextHashIndex
          /\ ~NewRound(m).drawn
      BY DEF NewRound, RoundOver
    <2>2. /\ rounds' = [rounds EXCEPT ![m] = Append(@, NewRound(m))]
          /\ nextHashIndex' = nextHashIndex + 1
          /\ UNCHANGED <<bets, revealed>>
      BY <1>4 DEF StartRound, ModuleReserveSeed, betVars
    <2> HIDE DEF Y
    <2> QED
      BY <1>1, <2>1, <2>2, OpeningKeepsRoundSeeds
  <1>5. ASSUME NEW m \in GameModules, NEW p \in Players, NEW amount \in Stakes,
               NEW auto \in AutoCashouts, PlaceCrashBet(m, p, amount, auto)
        PROVE  RoundSeedInv'
    <2> DEFINE bet == [player |-> p, stake |-> amount, auto |-> auto, manual |-> 0,
                       exposure |-> CrashExposure(amount, auto)]
               v == Append(rounds[m][Len(rounds[m])].entries, bet)
    <2>1. hasOpenRound[m] /\ UNCHANGED <<bets, nextHashIndex, revealed>>
      BY <1>5 DEF PlaceCrashBet, TakingBets, ModuleEscrowStake, seedVars, betVars
    <2>2. rounds' = [rounds EXCEPT ![m] =
                       [rounds[m] EXCEPT ![Len(rounds[m])] =
                           [rounds[m][Len(rounds[m])] EXCEPT !.entries = v]]]
      BY <1>5 DEF PlaceCrashBet
    <2> HIDE DEF v
    <2> QED
      BY <2>1, <2>2, NewEntriesKeepRoundSeeds
  <1>6. ASSUME NEW m \in GameModules, NEW p \in Players, NEW multiplier \in ManualCashouts,
               RequestCashout(m, p, multiplier)
        PROVE  RoundSeedInv'
    <2>1. hasOpenRound[m] /\ UNCHANGED <<bets, nextHashIndex, revealed>>
      BY <1>6 DEF RequestCashout, vars, seedVars, betVars
    <2>2. PICK i \in EntriesOf(Current(m), p) :
            rounds' = [rounds EXCEPT ![m][Len(rounds[m])].entries[i].manual = multiplier]
      BY <1>6 DEF RequestCashout
    <2> DEFINE v == [rounds[m][Len(rounds[m])].entries EXCEPT ![i].manual = multiplier]
    <2>3. rounds' = [rounds EXCEPT ![m] =
                       [rounds[m] EXCEPT ![Len(rounds[m])] =
                           [rounds[m][Len(rounds[m])] EXCEPT !.entries = v]]]
      BY <2>2
    <2> HIDE DEF v
    <2> QED
      BY <2>1, <2>3, NewEntriesKeepRoundSeeds
  <1>7. ASSUME NEW m \in GameModules, NEW p \in Players, NEW slip \in BetSlips,
               PlaceRouletteBets(m, p, slip)
        PROVE  RoundSeedInv'
    <2> DEFINE last     == Len(rounds[m])
               amount   == Total(slip, LAMBDA b : b.amount)
               exposure == Total(slip, LAMBDA b : b.amount * Multiplier(b.kind))
               bet == [player |-> p, stake |-> amount, slip |-> slip, exposure |-> exposure]
               v == Append(rounds[m][last].entries, bet)
               w(i) == [rounds[m][last].entries EXCEPT ![i] =
                           ExtendedBy(@, slip, amount, exposure)]
               With(x) == [rounds EXCEPT ![m] =
                            [rounds[m] EXCEPT ![last] = [rounds[m][last] EXCEPT !.entries = x]]]
    <2>1. hasOpenRound[m] /\ UNCHANGED <<bets, nextHashIndex, revealed>>
      BY <1>7 DEF PlaceRouletteBets, TakingBets, ModuleEscrowStake, seedVars, betVars
    <2>2. rounds' = With(v) \/ \E i \in EntriesOf(Current(m), p) : rounds' = With(w(i))
      BY <1>7 DEF PlaceRouletteBets
    <2> HIDE DEF v, w, amount, exposure, bet
    <2>3. CASE rounds' = With(v)
      BY <2>1, <2>3, NewEntriesKeepRoundSeeds
    <2>4. ASSUME NEW i \in EntriesOf(Current(m), p), rounds' = With(w(i))
          PROVE  RoundSeedInv'
      BY <2>1, <2>4, NewEntriesKeepRoundSeeds
    <2> QED
      BY <2>2, <2>3, <2>4
  <1>8. ASSUME NEW m \in GameModules, NEW id \in RoundsOf(m), NEW outcome \in Outcomes(m),
               SettleRound(m, id, outcome)
        PROVE  RoundSeedInv'
    <2> DEFINE r == MarkSettled(rounds[m][id])
    <2>1. rounds[m][id] \in RoundOver(X)
      BY <1>2, RoundsFacts
    <2>2. r \in RoundOver(X) /\ r.seedIdx = rounds[m][id].seedIdx /\ r.drawn /\ r.settled
      BY <2>1 DEF MarkSettled, RoundOver
    <2>3. /\ rounds' = [rounds EXCEPT ![m] = [rounds[m] EXCEPT ![id] = r]]
          /\ revealed' = revealed \cup {r.seedIdx}
          /\ UNCHANGED <<bets, nextHashIndex>>
      BY <1>8, <2>2 DEF SettleRound, betVars
    <2> HIDE DEF r
    <2> QED
      BY <1>1, <2>2, <2>3, ReplacingKeepsRoundSeeds
  <1>9. ASSUME NEW m \in GameModules, NEW id \in RoundsOf(m), RefundRound(m, id)
        PROVE  RoundSeedInv'
    <2> DEFINE r == [rounds[m][id] EXCEPT !.settled = TRUE]
    <2>1. rounds[m][id] \in RoundOver(X)
      BY <1>2, RoundsFacts
    <2>2. /\ r \in RoundOver(X)
          /\ r.seedIdx = rounds[m][id].seedIdx
          /\ r.drawn = rounds[m][id].drawn
          /\ r.drawn => r.settled
      BY <2>1 DEF RoundOver
    <2>3. /\ rounds' = [rounds EXCEPT ![m] = [rounds[m] EXCEPT ![id] = r]]
          /\ UNCHANGED <<bets, nextHashIndex, revealed>>
      BY <1>9 DEF RefundRound, ReturnStakes, seedVars, betVars
    <2> HIDE DEF r
    <2> QED
      BY <1>1, <2>2, <2>3, ReplacingKeepsRoundSeeds
  <1> QED
    BY <1>3, <1>4, <1>5, <1>6, <1>7, <1>8, <1>9 DEF RoundStep, RoundsOf

RoundLifeInv == NewestInv /\ RoundSeedInv

LEMMA RoundLifeInvHolds == RoundSpec => []RoundLifeInv
  <1> USE DEF RoundLifeInv
  <1>1. RoundInit => RoundLifeInv
    <2> SUFFICES ASSUME RoundInit PROVE RoundLifeInv
      OBVIOUS
    <2>1. NewestInv
      BY RoundInitIsNewest
    <2>2. bets = <<>> /\ nextHashIndex = 0 /\ revealed = {}
      BY DEF RoundInit, Init
    <2>3. BetsShape /\ BetSeeds = {}
      <3>1. bets \in Seq(BetOver({}))
        BY <2>2
      <3> QED
        BY <2>2, <3>1 DEF BetsShape, BetSeeds
    <2>4. \A m \in GameModules : RoundsOf(m) = {}
      BY DEF RoundInit, RoundsOf
    <2> QED
      BY <2>1, <2>2, <2>3, <2>4 DEF RoundSeedInv, SeedsApart, RoundSeedPublicIffDrawn
  <1>2. RoundLifeInv /\ [RoundNext]_allVars => RoundLifeInv'
    <2> SUFFICES ASSUME RoundLifeInv, [RoundNext]_allVars PROVE RoundLifeInv'
      OBVIOUS
    <2>1. NewestInv'
      BY RoundNextKeepsNewest
    <2>2. CASE RoundStep
      BY <2>1, <2>2, RoundStepKeepsRoundSeeds
    <2>3. CASE VaultStep /\ UNCHANGED roundVars
      BY <2>1, <2>3, VaultKeepsRoundSeeds DEF roundVars
    <2>4. CASE UNCHANGED allVars
      BY <2>1, <2>4 DEF allVars, roundVars, vars, seedVars, betVars, RoundSeedInv, BetsShape,
         BetSeeds, SeedsApart, HandedOut, RoundsOf, RoundSeedPublicIffDrawn
    <2> QED
      BY <2>2, <2>3, <2>4 DEF RoundNext
  <1> QED
    BY <1>1, <1>2, PTL DEF RoundSpec

\* The seed of a round is public exactly when the round was settled with it:
\* not while bets and cash-outs come in, never when the round is refunded, and
\* not through any bet or other round, in whatever order they are revealed
\* (CrashModule.sol and RouletteModule.sol, with revealSeed of CasinoVault.sol).
THEOREM RoundSeedsStaySecret == RoundSpec => []RoundSeedPublicIffDrawn
  <1>1. RoundLifeInv => RoundSeedPublicIffDrawn
    BY DEF RoundLifeInv, RoundSeedInv
  <1> QED
    BY <1>1, RoundLifeInvHolds, PTL
-----------------------------------------------------------------------------
\* What a player has in a round

StakeBy(e, p) == IF e.player = p THEN e.stake ELSE 0

StakesBy(entries, p) == [i \in 1..Len(entries) |-> StakeBy(entries[i], p)]

LEMMA StakeOfSum ==
    ASSUME NEW entries, NEW p
    PROVE  StakeOf(entries, p) = SumFunctionOnSet(StakesBy(entries, p), 1..Len(entries))
  BY DEF StakeOf, Total, SumFunction, StakesBy, StakeBy

LEMMA StakeOfType ==
    ASSUME NEW E, \A e \in E : e.stake \in Nat, NEW entries \in Seq(E), NEW p
    PROVE  /\ StakeOf(entries, p) \in Nat
           /\ \A i \in 1..Len(entries) :
                 StakesBy(entries, p)[i] \in Nat /\ StakesBy(entries, p)[i] \in Int
           /\ IsFiniteSet(1..Len(entries))
  <1>1. IsFiniteSet(1..Len(entries))
    <2>1. Len(entries) \in Nat
      OBVIOUS
    <2> QED
      BY <2>1, FS_Interval
  <1>2. \A i \in 1..Len(entries) : StakesBy(entries, p)[i] \in Nat
    <2>1. \A i \in 1..Len(entries) : entries[i] \in E
      OBVIOUS
    <2> QED
      BY <2>1 DEF StakesBy, StakeBy
  <1>3. SumFunctionOnSet(StakesBy(entries, p), 1..Len(entries)) \in Nat
    BY <1>1, <1>2, SumIn
  <1> QED
    BY <1>1, <1>2, <1>3, StakeOfSum

\* A further entry adds its stake.
LEMMA StakeOfAppended ==
    ASSUME NEW E, \A e \in E : e.stake \in Nat, NEW entries \in Seq(E), NEW e \in E, NEW p
    PROVE  StakeOf(Append(entries, e), p) = StakeOf(entries, p) + StakeBy(e, p)
  <1> DEFINE n == Len(entries)
             f == StakesBy(entries, p)
             longer == Append(entries, e)
             g == StakesBy(longer, p)
  <1>1. /\ n \in Nat /\ longer \in Seq(E) /\ Len(longer) = n + 1
        /\ longer[n + 1] = e
        /\ \A i \in 1..n : longer[i] = entries[i]
    OBVIOUS
  <1>2. \A i \in 1..(n + 1) : g[i] \in Int
    <2> HIDE DEF longer, n
    <2> QED
      BY <1>1, StakeOfType
  <1>3. \A i \in 1..n : g[i] = f[i]
    <2> HIDE DEF longer
    <2> QED
      BY <1>1 DEF StakesBy
  <1>4. g[n + 1] = StakeBy(e, p)
    <2> HIDE DEF longer
    <2> QED
      BY <1>1 DEF StakesBy
  <1> HIDE DEF f, g, n, longer
  <1>5. SumFunctionOnSet(g, 1..(n + 1)) = SumFunctionOnSet(f, 1..n) + g[n + 1]
    BY ONLY <1>1, <1>2, <1>3, SumGrows
  <1>6. StakeOf(longer, p) = SumFunctionOnSet(g, 1..(n + 1))
    BY <1>1, StakeOfSum DEF g
  <1>7. StakeOf(entries, p) = SumFunctionOnSet(f, 1..n)
    BY StakeOfSum DEF f, n
  <1> QED
    BY <1>4, <1>5, <1>6, <1>7 DEF longer

\* A replaced entry changes it by the difference.
LEMMA StakeOfReplaced ==
    ASSUME NEW E, \A e \in E : e.stake \in Nat, NEW entries \in Seq(E),
           NEW i \in 1..Len(entries), NEW e \in E, NEW p
    PROVE  StakeOf([entries EXCEPT ![i] = e], p)
             = StakeOf(entries, p) + StakeBy(e, p) - StakeBy(entries[i], p)
  <1> DEFINE S == 1..Len(entries)
             f == StakesBy(entries, p)
             other == [entries EXCEPT ![i] = e]
             g == StakesBy(other, p)
  <1>1. /\ other \in Seq(E) /\ Len(other) = Len(entries)
        /\ other[i] = e
        /\ \A j \in S : j # i => other[j] = entries[j]
    BY ExceptSeq
  <1>2. \A j \in S : f[j] \in Int /\ g[j] \in Int
    <2> HIDE DEF other
    <2> QED
      BY <1>1, StakeOfType
  <1>3. \A j \in S \ {i} : g[j] = f[j]
    <2> HIDE DEF other
    <2> QED
      BY <1>1 DEF StakesBy
  <1>9. g[i] = StakeBy(e, p) /\ f[i] = StakeBy(entries[i], p)
    <2> HIDE DEF other
    <2> QED
      BY <1>1 DEF StakesBy
  <1>4. IsFiniteSet(S)
    BY StakeOfType
  <1>5. i \in S
    OBVIOUS
  <1>6. StakeOf(other, p) = SumFunctionOnSet(g, S)
    <2> HIDE DEF other
    <2> QED
      BY <1>1, StakeOfSum
  <1>7. StakeOf(entries, p) = SumFunctionOnSet(f, S)
    BY StakeOfSum
  <1> HIDE DEF f, g, S, other
  <1>8. SumFunctionOnSet(g, S) = SumFunctionOnSet(f, S) + g[i] - f[i]
    <2>1. DifferAt(f, g, S, i)
      BY ONLY <1>2, <1>3, <1>5 DEF DifferAt
    <2> QED
      BY ONLY <1>4, <2>1, SumDiffer
  <1> QED
    BY <1>6, <1>7, <1>8, <1>9 DEF other

-----------------------------------------------------------------------------
\* What a bet can win

LEMMA ProductsDivide ==
    ASSUME NEW a \in Nat, NEW b \in Nat, NEW c \in Nat, b <= c
    PROVE  (a * b) \div 100 \in Nat /\ (a * b) \div 100 <= (a * c) \div 100
  <1>1. a * b \in Nat /\ a * c \in Nat /\ a * b <= a * c
    OBVIOUS
  <1> DEFINE x == a * b
             y == a * c
  <1> HIDE DEF x, y
  <1>2. \A u, v \in Nat : u <= v => u \div 100 \in Nat /\ u \div 100 <= v \div 100
    OBVIOUS
  <1> QED
    BY <1>1, <1>2

CrashEntry == [player : Players, stake : Nat, auto : Nat, manual : Nat, exposure : Nat]

\* The exposure a bet was admitted with, and the largest target a player can
\* ask for by hand.
CrashBounded(e) ==
    /\ e.exposure = CrashExposure(e.stake, e.auto)
    /\ e.manual <= CRASH_MAX_AUTOCASHOUT

LEMMA CrashWithinExposure ==
    ASSUME NEW e \in CrashEntry, CrashBounded(e), NEW crashPoint \in Nat
    PROVE  CrashPayout(e, crashPoint) <= e.exposure
  <1> DEFINE most == IF e.auto = 0 THEN CRASH_MAX_AUTOCASHOUT ELSE e.auto
             target == CashoutTarget(e.auto, e.manual)
  <1>1. e.stake \in Nat /\ e.auto \in Nat /\ e.manual \in Nat
    BY DEF CrashEntry
  <1>2. most \in Nat /\ target \in Nat
    BY <1>1, RoundAssumption DEF CashoutTarget, Smaller
  <1>3. target <= most
    BY <1>1, RoundAssumption DEF CashoutTarget, Smaller, CrashBounded
  <1>4. e.exposure = (e.stake * most) \div 100
    BY DEF CrashBounded, CrashExposure
  <1> HIDE DEF most, target
  <1>5. /\ (e.stake * target) \div 100 <= (e.stake * most) \div 100
        /\ 0 <= (e.stake * most) \div 100
    BY <1>1, <1>2, <1>3, ProductsDivide
  <1>6. \/ CrashPayout(e, crashPoint) = (e.stake * target) \div 100
        \/ CrashPayout(e, crashPoint) = 0
    BY DEF CrashPayout, target
  <1> QED
    BY <1>4, <1>5, <1>6

WheelEntry == [player : Players, stake : Nat, slip : Seq(WheelBet), exposure : Nat]

WheelBounded(e) == \A result \in Results : WheelPayout(e.slip, result) <= e.exposure

\* The two sums placeBets takes over a slip, and the one settleRound takes.
Wins(slip, result) ==
    [i \in 1..Len(slip) |-> IF result \in Covered(slip[i])
                            THEN slip[i].amount * Multiplier(slip[i].kind) ELSE 0]
Risks(slip) == [i \in 1..Len(slip) |-> slip[i].amount * Multiplier(slip[i].kind)]
Amounts(slip) == [i \in 1..Len(slip) |-> slip[i].amount]

SlipAmount(slip) == Total(slip, LAMBDA b : b.amount)
SlipExposure(slip) == Total(slip, LAMBDA b : b.amount * Multiplier(b.kind))

LEMMA SlipSums ==
    ASSUME NEW slip, NEW result
    PROVE  /\ WheelPayout(slip, result) = SumFunctionOnSet(Wins(slip, result), 1..Len(slip))
           /\ SlipExposure(slip) = SumFunctionOnSet(Risks(slip), 1..Len(slip))
           /\ SlipAmount(slip) = SumFunctionOnSet(Amounts(slip), 1..Len(slip))
  BY DEF WheelPayout, SlipExposure, SlipAmount, Total, SumFunction, Wins, Risks, Amounts

LEMMA SlipTerms ==
    ASSUME NEW slip \in Seq(WheelBet), NEW result
    PROVE  /\ Len(slip) \in Nat /\ IsFiniteSet(1..Len(slip))
           /\ \A i \in 1..Len(slip) :
                 /\ Amounts(slip)[i] \in Nat /\ Risks(slip)[i] \in Nat
                 /\ Wins(slip, result)[i] \in Nat
                 /\ Wins(slip, result)[i] \in Int /\ Risks(slip)[i] \in Int
                 /\ Wins(slip, result)[i] <= Risks(slip)[i]
  <1>1. Len(slip) \in Nat
    OBVIOUS
  <1>2. ASSUME NEW i \in 1..Len(slip)
        PROVE  slip[i].amount \in Nat /\ slip[i].amount * Multiplier(slip[i].kind) \in Nat
    <2>1. slip[i] \in WheelBet
      OBVIOUS
    <2>2. slip[i].amount \in Nat
      BY <2>1 DEF WheelBet
    <2>3. Multiplier(slip[i].kind) \in {2, 3, 36}
      BY DEF Multiplier
    <2>4. \A a \in Nat, k \in {2, 3, 36} : a * k \in Nat
      OBVIOUS
    <2> QED
      BY <2>2, <2>3, <2>4
  <1>3. IsFiniteSet(1..Len(slip))
    BY <1>1, FS_Interval
  <1>4. ASSUME NEW i \in 1..Len(slip)
        PROVE  /\ Amounts(slip)[i] = slip[i].amount
               /\ Risks(slip)[i] = slip[i].amount * Multiplier(slip[i].kind)
               /\ Wins(slip, result)[i] \in {0, slip[i].amount * Multiplier(slip[i].kind)}
    BY DEF Amounts, Risks, Wins
  <1>5. \A x, y : x \in Nat /\ y \in {0, x} => y \in Nat /\ y \in Int /\ x \in Int /\ y <= x
    OBVIOUS
  <1> QED
    BY <1>1, <1>2, <1>3, <1>4, <1>5

\* No number makes a slip win more than its exposure.
LEMMA SlipWithinExposure ==
    ASSUME NEW slip \in Seq(WheelBet), NEW result
    PROVE  /\ WheelPayout(slip, result) \in Nat /\ SlipExposure(slip) \in Nat
           /\ SlipAmount(slip) \in Nat
           /\ WheelPayout(slip, result) <= SlipExposure(slip)
  <1> DEFINE S == 1..Len(slip)
  <1>1. SumFunctionOnSet(Wins(slip, result), S) \in Nat
    BY SlipTerms, SumIn
  <1>2. SumFunctionOnSet(Risks(slip), S) \in Nat
    BY SlipTerms, SumIn
  <1>3. SumFunctionOnSet(Amounts(slip), S) \in Nat
    BY SlipTerms, SumIn
  <1>4. SumFunctionOnSet(Wins(slip, result), S) <= SumFunctionOnSet(Risks(slip), S)
    BY SlipTerms, SumLess
  <1> QED
    BY <1>1, <1>2, <1>3, <1>4, SlipSums

\* Two slips win what each of them wins.
LEMMA SlipsJoined ==
    ASSUME NEW s \in Seq(WheelBet), NEW t \in Seq(WheelBet), NEW result
    PROVE  /\ s \o t \in Seq(WheelBet)
           /\ WheelPayout(s \o t, result) = WheelPayout(s, result) + WheelPayout(t, result)
  <1> DEFINE u == s \o t
             n == Len(s)
             k == Len(t)
  <1>1. /\ n \in Nat /\ k \in Nat /\ u \in Seq(WheelBet) /\ Len(u) = n + k
        /\ \A i \in 1..n : u[i] = s[i]
        /\ \A j \in 1..k : u[n + j] = t[j]
    OBVIOUS
  <1> HIDE DEF u
  <1>2. /\ \A i \in 1..n : i \in 1..(n + k)
        /\ \A j \in 1..k : n + j \in 1..(n + k)
    BY <1>1
  <1>3. \A i \in 1..n : Wins(s, result)[i] \in Int /\ Wins(u, result)[i] = Wins(s, result)[i]
    <2>1. \A i \in 1..n : Wins(s, result)[i] \in Int
      BY SlipTerms
    <2> QED
      BY <1>1, <1>2, <2>1 DEF Wins
  <1>4. \A j \in 1..k :
           Wins(t, result)[j] \in Int /\ Wins(u, result)[n + j] = Wins(t, result)[j]
    <2>1. \A j \in 1..k : Wins(t, result)[j] \in Int
      BY SlipTerms
    <2> QED
      BY <1>1, <1>2, <2>1 DEF Wins
  <1>6. n \in Nat /\ k \in Nat
    BY <1>1
  <1> HIDE DEF n, k
  <1>5. SumFunctionOnSet(Wins(u, result), 1..(n + k))
          = SumFunctionOnSet(Wins(s, result), 1..n) + SumFunctionOnSet(Wins(t, result), 1..k)
    <2>1. Follows(Wins(u, result), Wins(s, result), n, Wins(t, result), k)
      BY ONLY <1>3, <1>4 DEF Follows
    <2> QED
      BY ONLY <1>6, <2>1, SumJoined
  <1> QED
    BY <1>1, <1>5, SlipSums DEF u, n, k

-----------------------------------------------------------------------------
\* The book of a module: the stakes it holds, by player, and the bets behind them

\* The bets of a round, crash or roulette.
EntryOf(m) ==
    IF m \in wheels THEN {e \in WheelEntry : WheelBounded(e)}
                    ELSE {e \in CrashEntry : CrashBounded(e)}

EntriesShape == \A m \in GameModules : \A id \in RoundsOf(m) :
                   rounds[m][id].entries \in Seq(EntryOf(m))

RoundStake(r, p) == IF Returned(r) THEN 0 ELSE StakeOf(r.entries, p)

RoundStakes(list, p) == [id \in 1..Len(list) |-> RoundStake(list[id], p)]

RoundBookInv ==
    /\ escrowed \in [Modules -> [Players -> Int]]
    /\ EntriesShape
    /\ RoundRefundsMatchStakes

LEMMA RoundBookSums ==
    /\ RoundRefundsMatchStakes
         <=> \A m \in GameModules, p \in Players :
                escrowed[m][p] = SumFunctionOnSet(RoundStakes(rounds[m], p), 1..Len(rounds[m]))
    /\ RoundRefundsMatchStakes'
         <=> \A m \in GameModules, p \in Players :
                escrowed'[m][p]
                  = SumFunctionOnSet(RoundStakes(rounds'[m], p), 1..Len(rounds'[m]))
  BY DEF RoundRefundsMatchStakes, SumFunction, RoundStakes, RoundStake, RoundsOf

LEMMA EntryStakes ==
    ASSUME NEW m
    PROVE  \A e \in EntryOf(m) : e.stake \in Nat /\ e.player \in Players
  BY DEF EntryOf, WheelEntry, CrashEntry

LEMMA RoundStakeType ==
    ASSUME NEW m, NEW r, r.entries \in Seq(EntryOf(m)), NEW p
    PROVE  RoundStake(r, p) \in Int
  <1>1. StakeOf(r.entries, p) \in Nat
    BY EntryStakes, StakeOfType
  <1> QED
    BY <1>1 DEF RoundStake

\* A new round holds no bets.
LEMMA OpeningKeepsBook ==
    ASSUME RoundShape, RoundBookInv, NEW m \in GameModules, NEW Y, NEW r \in RoundOver(Y),
           r.entries = <<>>, rounds' = [rounds EXCEPT ![m] = Append(@, r)],
           UNCHANGED <<escrowed, wheels>>
    PROVE  RoundBookInv'
  <1> DEFINE n == Len(rounds[m])
  <1>1. /\ \E X : rounds' \in [GameModules -> Seq(RoundOver(X))]
        /\ \A o \in GameModules : o # m => rounds'[o] = rounds[o]
        /\ Len(rounds'[m]) = n + 1
        /\ rounds'[m][n + 1] = r
        /\ \A j \in RoundsOf(m) : rounds'[m][j] = rounds[m][j]
    BY ONLY RoundShape, rounds' = [rounds EXCEPT ![m] = Append(@, r)], AppendRoundShape
  <1>2. n \in Nat
    BY RoundsFacts DEF RoundShape
  <1>3. \A o : EntryOf(o)' = EntryOf(o)
    BY DEF EntryOf
  <1>4. ASSUME NEW o \in GameModules, NEW id \in 1..Len(rounds'[o])
        PROVE  rounds'[o][id].entries \in Seq(EntryOf(o))
    <2>1. CASE o = m /\ id = n + 1
      <3>1. rounds'[o][id].entries = <<>>
        BY <1>1, <2>1
      <3>2. <<>> \in Seq(EntryOf(o))
        OBVIOUS
      <3> QED
        BY <3>1, <3>2
    <2>2. CASE ~(o = m /\ id = n + 1)
      <3>1. id \in RoundsOf(o) /\ rounds'[o][id] = rounds[o][id]
        BY <1>1, <1>2, <1>4, <2>2 DEF RoundsOf
      <3> QED
        BY <3>1 DEF RoundBookInv, EntriesShape
    <2> QED
      BY <2>1, <2>2
  <1> HIDE DEF n
  <1>5. ASSUME NEW o \in GameModules, NEW p \in Players
        PROVE  escrowed[o][p]
                 = SumFunctionOnSet(RoundStakes(rounds'[o], p), 1..Len(rounds'[o]))
    <2>0. escrowed[o][p] = SumFunctionOnSet(RoundStakes(rounds[o], p), 1..Len(rounds[o]))
      BY RoundBookSums DEF RoundBookInv
    <2>1. CASE o # m
      BY <1>1, <2>0, <2>1
    <2>2. CASE o = m
      <3>1. \A id \in 1..(n + 1) : RoundStakes(rounds'[m], p)[id] \in Int
        BY <1>1, <1>4, <2>2, RoundStakeType DEF RoundStakes
      <3>2. \A id \in 1..n : RoundStakes(rounds'[m], p)[id] = RoundStakes(rounds[m], p)[id]
        BY <1>1, <1>2 DEF RoundStakes, RoundsOf, n
      <3>3. SumFunctionOnSet(RoundStakes(rounds'[m], p), 1..(n + 1))
              = SumFunctionOnSet(RoundStakes(rounds[m], p), 1..n)
                  + RoundStakes(rounds'[m], p)[n + 1]
        BY ONLY <1>2, <3>1, <3>2, SumGrows
      <3>4. RoundStakes(rounds'[m], p)[n + 1] = 0
        <4>1. RoundStakes(rounds'[m], p)[n + 1] = RoundStake(r, p)
          BY <1>1, <1>2 DEF RoundStakes
        <4>2. StakeOf(<<>>, p) = 0
          <5>1. 1..Len(<<>>) = {}
            OBVIOUS
          <5> QED
            BY <5>1, StakeOfSum, SumEmpty
        <4> QED
          BY <4>1, <4>2 DEF RoundStake
      <3>5. escrowed[m][p] \in Int
        BY GateAssumption DEF RoundBookInv, EntryModules
      <3> QED
        BY <1>1, <2>0, <2>2, <3>3, <3>4, <3>5 DEF n
    <2> QED
      BY <2>1, <2>2
  <1>6. EntriesShape'
    BY <1>3, <1>4 DEF EntriesShape, RoundsOf
  <1> QED
    BY <1>5, <1>6, RoundBookSums DEF RoundBookInv

\* A step that turns a round into r moves the difference, player by player.
RoundBalances(m, id, r) ==
    /\ escrowed' \in [Modules -> [Players -> Int]]
    /\ \A o \in GameModules : o # m => escrowed'[o] = escrowed[o]
    /\ \A p \in Players :
          escrowed'[m][p] = escrowed[m][p] + RoundStake(r, p) - RoundStake(rounds[m][id], p)

LEMMA RoundReplacingKeepsBook ==
    ASSUME RoundShape, RoundBookInv, NEW m \in GameModules, NEW id \in RoundsOf(m),
           NEW Y, NEW r \in RoundOver(Y), r.entries \in Seq(EntryOf(m)), RoundBalances(m, id, r),
           rounds' = [rounds EXCEPT ![m] = [rounds[m] EXCEPT ![id] = r]], UNCHANGED wheels
    PROVE  RoundBookInv'
  <1>1. /\ \E X : rounds' \in [GameModules -> Seq(RoundOver(X))]
        /\ \A n \in GameModules : Len(rounds'[n]) = Len(rounds[n])
        /\ \A n \in GameModules : n # m => rounds'[n] = rounds[n]
        /\ rounds'[m][id] = r
        /\ \A j \in RoundsOf(m) : j # id => rounds'[m][j] = rounds[m][j]
    <2>1. RoundReplaced(m, id, r)
      BY ONLY RoundShape, rounds' = [rounds EXCEPT ![m] = [rounds[m] EXCEPT ![id] = r]],
              ReplaceRoundShape
    <2> QED
      BY <2>1 DEF RoundReplaced
  <1>2. Len(rounds[m]) \in Nat
    BY RoundsFacts DEF RoundShape
  <1>3. \A o : EntryOf(o)' = EntryOf(o)
    BY DEF EntryOf
  <1>4. ASSUME NEW o \in GameModules, NEW j \in RoundsOf(o)
        PROVE  /\ rounds[o][j].entries \in Seq(EntryOf(o))
               /\ rounds'[o][j].entries \in Seq(EntryOf(o))
    BY <1>1 DEF RoundBookInv, EntriesShape
  <1>5. ASSUME NEW o \in GameModules, NEW p \in Players
        PROVE  escrowed'[o][p]
                 = SumFunctionOnSet(RoundStakes(rounds'[o], p), 1..Len(rounds'[o]))
    <2>0. escrowed[o][p] = SumFunctionOnSet(RoundStakes(rounds[o], p), 1..Len(rounds[o]))
      BY RoundBookSums DEF RoundBookInv
    <2>1. CASE o # m
      BY <1>1, <2>0, <2>1 DEF RoundBalances
    <2>2. CASE o = m
      <3> DEFINE f == RoundStakes(rounds[m], p)
                 g == RoundStakes(rounds'[m], p)
                 S == 1..Len(rounds[m])
      <3>1. \A j \in S : f[j] \in Int /\ g[j] \in Int
        <4>1. \A j \in S : /\ f[j] = RoundStake(rounds[m][j], p)
                           /\ g[j] = RoundStake(rounds'[m][j], p)
          BY <1>1 DEF RoundStakes
        <4> QED
          BY <1>4, <4>1, RoundStakeType DEF RoundsOf
      <3>2. \A j \in S \ {id} : g[j] = f[j]
        BY <1>1 DEF RoundStakes, RoundsOf
      <3>3. f[id] = RoundStake(rounds[m][id], p) /\ g[id] = RoundStake(r, p) /\ id \in S
        BY <1>1 DEF RoundStakes, RoundsOf
      <3>4. IsFiniteSet(S)
        BY ONLY <1>2, FS_Interval
      <3>5. f[id] \in Int /\ g[id] \in Int /\ SumFunctionOnSet(f, S) \in Int
        BY <3>1, <3>3, <3>4, SumIn
      <3>6. escrowed[m][p] = SumFunctionOnSet(f, S)
        BY <2>0, <2>2
      <3> HIDE DEF f, g, S
      <3>7. SumFunctionOnSet(g, S) = SumFunctionOnSet(f, S) + g[id] - f[id]
        <4>1. DifferAt(f, g, S, id)
          BY ONLY <3>1, <3>2, <3>3 DEF DifferAt
        <4> QED
          BY ONLY <3>4, <4>1, SumDiffer
      <3>8. escrowed'[m][p] = escrowed[m][p] + g[id] - f[id]
        BY <3>3 DEF RoundBalances
      <3>9. escrowed'[m][p] = SumFunctionOnSet(g, S)
        BY <3>5, <3>6, <3>7, <3>8
      <3> QED
        BY <1>1, <2>2, <3>9 DEF g, S
    <2> QED
      BY <2>1, <2>2
  <1>6. EntriesShape'
    BY <1>1, <1>3, <1>4 DEF EntriesShape, RoundsOf
  <1> QED
    BY <1>5, <1>6, RoundBookSums DEF RoundBookInv, RoundBalances

\* A bet, or a change to one, of the open round: it is not a returned one.
LEMMA BettingKeepsBook ==
    ASSUME NewestInv, RoundBookInv, NEW m \in GameModules, hasOpenRound[m],
           NEW v \in Seq(EntryOf(m)),
           rounds' = [rounds EXCEPT ![m] =
                        [rounds[m] EXCEPT ![Len(rounds[m])] =
                            [rounds[m][Len(rounds[m])] EXCEPT !.entries = v]]],
           UNCHANGED wheels,
           escrowed' \in [Modules -> [Players -> Int]],
           \A o \in GameModules : o # m => escrowed'[o] = escrowed[o],
           \A p \in Players : escrowed'[m][p]
              = escrowed[m][p] + StakeOf(v, p) - StakeOf(Current(m).entries, p)
    PROVE  RoundBookInv'
  <1>1. PICK X : rounds \in [GameModules -> Seq(RoundOver(X))]
    BY DEF NewestInv, RoundShape
  <1> DEFINE last == Len(rounds[m])
             r == [rounds[m][last] EXCEPT !.entries = v]
  <1>2. last \in RoundsOf(m) /\ ~rounds[m][last].settled
    <2>1. rounds[m] # <<>> /\ ~rounds[m][last].settled
      BY DEF NewestInv, OnlyNewestOpen, Current
    <2> QED
      BY <1>1, <2>1, RoundsFacts DEF RoundsOf
  <1>3. rounds[m][last] \in RoundOver(X)
    BY <1>1, <1>2, RoundsFacts
  <1>4. r \in RoundOver(X \cup {v}) /\ r.entries = v /\ r.settled = rounds[m][last].settled
    BY <1>3 DEF RoundOver
  <1>5. \A p \in Players : /\ RoundStake(r, p) = StakeOf(v, p)
                           /\ RoundStake(rounds[m][last], p) = StakeOf(Current(m).entries, p)
    BY <1>2, <1>4 DEF RoundStake, Returned, Current
  <1>6. rounds' = [rounds EXCEPT ![m] = [rounds[m] EXCEPT ![last] = r]]
    OBVIOUS
  <1>7. RoundShape
    BY DEF NewestInv
  <1> HIDE DEF last, r
  <1>8. RoundBalances(m, last, r)
    BY <1>5 DEF RoundBalances
  <1>9. r.entries \in Seq(EntryOf(m))
    BY <1>4
  <1> QED
    BY <1>2, <1>4, <1>6, <1>7, <1>8, <1>9, RoundReplacingKeepsBook

LEMMA CurrentEntries ==
    ASSUME NewestInv, RoundBookInv, NEW m \in GameModules, hasOpenRound[m]
    PROVE  Current(m).entries \in Seq(EntryOf(m))
  <1>1. PICK X : rounds \in [GameModules -> Seq(RoundOver(X))]
    BY DEF NewestInv, RoundShape
  <1>2. rounds[m] # <<>>
    BY DEF NewestInv, OnlyNewestOpen
  <1>3. Len(rounds[m]) \in RoundsOf(m)
    BY <1>1, <1>2, RoundsFacts DEF RoundsOf
  <1> QED
    BY <1>3 DEF RoundBookInv, EntriesShape, Current

\* escrowStake adds the stake to the player's.
LEMMA EscrowTakes ==
    ASSUME RoundBookInv, NEW m \in GameModules, NEW p \in Players, NEW amount \in Nat,
           NEW maxPayout, ModuleEscrowStake(m, p, amount, maxPayout)
    PROVE  /\ escrowed' \in [Modules -> [Players -> Int]]
           /\ \A o \in GameModules : o # m => escrowed'[o] = escrowed[o]
           /\ \A q \in Players : escrowed'[m][q] \in Int /\ escrowed[m][q] \in Int
           /\ \A q \in Players :
                 escrowed'[m][q] = escrowed[m][q] + (IF p = q THEN amount ELSE 0)
  <1>1. escrowed' = [escrowed EXCEPT ![m][p] = @ + amount]
    BY DEF ModuleEscrowStake
  <1> QED
    BY GateAssumption, <1>1 DEF RoundBookInv, EntryModules

\* A further bet of the open round, with the stake that comes with it.
LEMMA FurtherBetKeepsBook ==
    ASSUME NewestInv, RoundBookInv, NEW m \in GameModules, hasOpenRound[m],
           NEW e \in EntryOf(m), NEW maxPayout,
           ModuleEscrowStake(m, e.player, e.stake, maxPayout),
           rounds' = [rounds EXCEPT ![m] =
                        [rounds[m] EXCEPT ![Len(rounds[m])] =
                            [rounds[m][Len(rounds[m])] EXCEPT
                                !.entries = Append(Current(m).entries, e)]]],
           UNCHANGED wheels
    PROVE  RoundBookInv'
  <1> DEFINE old == Current(m).entries
             v == Append(old, e)
  <1>1. old \in Seq(EntryOf(m))
    BY CurrentEntries
  <1>2. e.stake \in Nat /\ e.player \in Players
    BY EntryStakes
  <1> HIDE DEF old
  <1>3. v \in Seq(EntryOf(m))
    BY <1>1
  <1>4. \A p \in Players :
           /\ StakeOf(v, p) = StakeOf(old, p) + StakeBy(e, p)
           /\ StakeOf(old, p) \in Nat
    BY <1>1, EntryStakes, StakeOfAppended, StakeOfType
  <1>5. /\ escrowed' \in [Modules -> [Players -> Int]]
        /\ \A o \in GameModules : o # m => escrowed'[o] = escrowed[o]
        /\ \A q \in Players : escrowed'[m][q] \in Int /\ escrowed[m][q] \in Int
        /\ \A q \in Players : escrowed'[m][q] = escrowed[m][q] + StakeBy(e, q)
    BY <1>2, EscrowTakes DEF StakeBy
  <1>6. \A p \in Players : escrowed'[m][p] = escrowed[m][p] + StakeOf(v, p) - StakeOf(old, p)
    <2> TAKE p \in Players
    <2>1. StakeBy(e, p) \in Int
      BY <1>2 DEF StakeBy
    <2> QED
      BY <1>4, <1>5, <2>1
  <1>7. rounds' = [rounds EXCEPT ![m] =
                        [rounds[m] EXCEPT ![Len(rounds[m])] =
                            [rounds[m][Len(rounds[m])] EXCEPT !.entries = v]]]
    BY DEF old
  <1> HIDE DEF v
  <1> QED
    BY <1>3, <1>5, <1>6, <1>7, BettingKeepsBook DEF old

\* A bet of the open round that is changed.
LEMMA ChangedBetKeepsBook ==
    ASSUME NewestInv, RoundBookInv, NEW m \in GameModules, hasOpenRound[m],
           NEW i \in 1..Len(Current(m).entries), NEW e \in EntryOf(m),
           escrowed' \in [Modules -> [Players -> Int]],
           \A o \in GameModules : o # m => escrowed'[o] = escrowed[o],
           \A p \in Players : escrowed'[m][p]
              = escrowed[m][p] + StakeBy(e, p) - StakeBy(Current(m).entries[i], p),
           rounds' = [rounds EXCEPT ![m] =
                        [rounds[m] EXCEPT ![Len(rounds[m])] =
                            [rounds[m][Len(rounds[m])] EXCEPT
                                !.entries = [Current(m).entries EXCEPT ![i] = e]]]],
           UNCHANGED wheels
    PROVE  RoundBookInv'
  <1> DEFINE old == Current(m).entries
             v == [old EXCEPT ![i] = e]
  <1>1. old \in Seq(EntryOf(m))
    BY CurrentEntries
  <1>2. old[i] \in EntryOf(m)
    BY <1>1
  <1> HIDE DEF old
  <1>3. v \in Seq(EntryOf(m))
    BY <1>1, ExceptSeq DEF old
  <1>4. \A p \in Players :
           /\ StakeOf(v, p) = StakeOf(old, p) + StakeBy(e, p) - StakeBy(old[i], p)
           /\ StakeOf(old, p) \in Nat
    <2>1. \A x \in EntryOf(m) : x.stake \in Nat
      BY EntryStakes
    <2>2. i \in 1..Len(old)
      BY DEF old
    <2>3. \A p : StakeOf(old, p) \in Nat
      BY <1>1, <2>1, StakeOfType
    <2>4. \A p : StakeOf([old EXCEPT ![i] = e], p)
                    = StakeOf(old, p) + StakeBy(e, p) - StakeBy(old[i], p)
      BY ONLY <1>1, <2>1, <2>2, e \in EntryOf(m), StakeOfReplaced
    <2> QED
      BY <2>3, <2>4
  <1>5. \A p \in Players : /\ StakeBy(e, p) \in Int /\ StakeBy(old[i], p) \in Int
                           /\ escrowed[m][p] \in Int
    BY GateAssumption, <1>2, EntryStakes DEF StakeBy, RoundBookInv, EntryModules
  <1>6. \A p \in Players : escrowed'[m][p] = escrowed[m][p] + StakeOf(v, p) - StakeOf(old, p)
    <2> TAKE p \in Players
    <2>1. escrowed'[m][p] = escrowed[m][p] + StakeBy(e, p) - StakeBy(old[i], p)
      BY DEF old
    <2> HIDE DEF v
    <2> QED
      BY <1>4, <1>5, <2>1
  <1>7. rounds' = [rounds EXCEPT ![m] =
                        [rounds[m] EXCEPT ![Len(rounds[m])] =
                            [rounds[m][Len(rounds[m])] EXCEPT !.entries = v]]]
    BY DEF old
  <1> HIDE DEF v
  <1> QED
    BY <1>3, <1>6, <1>7, BettingKeepsBook DEF old

LEMMA CrashBetKeepsBook ==
    ASSUME RoundLifeInv, RoundBookInv, NEW m \in GameModules \ wheels, NEW p \in Players,
           NEW amount \in Stakes, NEW auto \in AutoCashouts,
           PlaceCrashBet(m, p, amount, auto)
    PROVE  RoundBookInv'
  <1> DEFINE exposure == CrashExposure(amount, auto)
             e == [player |-> p, stake |-> amount, auto |-> auto, manual |-> 0,
                   exposure |-> exposure]
  <1>1. amount \in Nat /\ auto \in Nat
    BY ConstantsAssumption, RoundAssumption
  <1>2. exposure \in Nat
    <2> DEFINE most == IF auto = 0 THEN CRASH_MAX_AUTOCASHOUT ELSE auto
    <2>1. most \in Nat
      BY <1>1, RoundAssumption
    <2> HIDE DEF most
    <2>2. (amount * most) \div 100 \in Nat
      BY <1>1, <2>1, ProductsDivide
    <2> QED
      BY <2>2 DEF CrashExposure, most
  <1>3. e \in EntryOf(m) /\ e.player = p /\ e.stake = amount
    <2>1. e \in CrashEntry
      BY <1>1, <1>2 DEF CrashEntry
    <2>2. CrashBounded(e)
      BY RoundAssumption DEF CrashBounded
    <2> QED
      BY <2>1, <2>2 DEF EntryOf
  <1>4. /\ hasOpenRound[m]
        /\ ModuleEscrowStake(m, p, amount, exposure)
        /\ rounds' = [rounds EXCEPT ![m] =
                        [rounds[m] EXCEPT ![Len(rounds[m])] =
                            [rounds[m][Len(rounds[m])] EXCEPT
                                !.entries = Append(Current(m).entries, e)]]]
        /\ UNCHANGED wheels
    BY DEF PlaceCrashBet, TakingBets, Current
  <1>5. NewestInv /\ m \in GameModules
    BY DEF RoundLifeInv
  <1> HIDE DEF e, exposure
  <1> QED
    BY <1>3, <1>4, <1>5, FurtherBetKeepsBook

LEMMA CashoutKeepsBook ==
    ASSUME RoundLifeInv, RoundBookInv, NEW m \in GameModules \ wheels, NEW p \in Players,
           NEW multiplier \in ManualCashouts, RequestCashout(m, p, multiplier)
    PROVE  RoundBookInv'
  <1>1. hasOpenRound[m] /\ NewestInv /\ m \in GameModules
    BY DEF RequestCashout, RoundLifeInv
  <1>2. PICK i \in EntriesOf(Current(m), p) :
            rounds' = [rounds EXCEPT ![m][Len(rounds[m])].entries[i].manual = multiplier]
    BY DEF RequestCashout
  <1> DEFINE old == Current(m).entries
             e == [old[i] EXCEPT !.manual = multiplier]
  <1>3. i \in 1..Len(old)
    BY DEF EntriesOf
  <1>4. old \in Seq(EntryOf(m))
    BY <1>1, CurrentEntries
  <1>5. old[i] \in EntryOf(m)
    <2> HIDE DEF old
    <2> QED
      BY <1>3, <1>4
  <1>6. old[i] \in CrashEntry /\ CrashBounded(old[i])
    BY <1>5 DEF EntryOf
  <1>7. multiplier \in Nat /\ multiplier <= CRASH_MAX_AUTOCASHOUT
    BY RoundAssumption DEF RequestCashout
  <1> DEFINE b == old[i]
  <1>8. rounds' = [rounds EXCEPT ![m] =
                      [rounds[m] EXCEPT ![Len(rounds[m])] =
                          [rounds[m][Len(rounds[m])] EXCEPT
                              !.entries = [Current(m).entries EXCEPT ![i] = e]]]]
    BY <1>2 DEF Current
  <1>9. e \in EntryOf(m) /\ \A q \in Players : StakeBy(e, q) = StakeBy(b, q)
    <2>1. b \in CrashEntry /\ CrashBounded(b) /\ e = [b EXCEPT !.manual = multiplier]
      BY <1>6
    <2> HIDE DEF b, e
    <2>2. e \in CrashEntry /\ CrashBounded(e)
      BY <1>7, <2>1 DEF CrashEntry, CrashBounded
    <2>3. e.stake = b.stake /\ e.player = b.player
      BY <2>1 DEF CrashEntry
    <2> QED
      BY <2>2, <2>3 DEF EntryOf, StakeBy
  <1>10. /\ escrowed' = escrowed /\ UNCHANGED wheels
         /\ escrowed' \in [Modules -> [Players -> Int]]
    BY DEF RequestCashout, vars, histVars, RoundBookInv
  <1>11. \A q \in Players :
            escrowed'[m][q] = escrowed[m][q] + StakeBy(e, q) - StakeBy(old[i], q)
    <2> TAKE q \in Players
    <2>1. StakeBy(b, q) \in Int
      BY <1>5, EntryStakes DEF StakeBy
    <2>2. StakeBy(e, q) = StakeBy(b, q)
      BY <1>9
    <2>3. escrowed[m][q] \in Int
      BY GateAssumption, <1>10 DEF EntryModules
    <2> HIDE DEF e
    <2> QED
      BY <1>10, <2>1, <2>2, <2>3
  <1>12. \A o \in GameModules : o # m => escrowed'[o] = escrowed[o]
    BY <1>10
  <1> HIDE DEF e
  <1> QED
    BY <1>1, <1>3, <1>8, <1>9, <1>10, <1>11, <1>12, ChangedBetKeepsBook

LEMMA WheelBetsKeepBook ==
    ASSUME RoundLifeInv, RoundBookInv, NEW m \in GameModules \cap wheels, NEW p \in Players,
           NEW slip \in BetSlips, PlaceRouletteBets(m, p, slip)
    PROVE  RoundBookInv'
  <1> DEFINE amount == SlipAmount(slip)
             exposure == SlipExposure(slip)
             old == Current(m).entries
             e == [player |-> p, stake |-> amount, slip |-> slip, exposure |-> exposure]
             With(v) == [rounds EXCEPT ![m] =
                          [rounds[m] EXCEPT ![Len(rounds[m])] =
                              [rounds[m][Len(rounds[m])] EXCEPT !.entries = v]]]
  <1>1. slip \in Seq(WheelBet)
    BY RoundAssumption
  <1>2. /\ amount \in Nat /\ exposure \in Nat
        /\ \A result : WheelPayout(slip, result) \in Nat /\ WheelPayout(slip, result) <= exposure
    BY <1>1, SlipWithinExposure
  <1>3. /\ hasOpenRound[m] /\ UNCHANGED wheels
        /\ ModuleEscrowStake(m, p, amount, exposure)
        /\ \/ rounds' = With(Append(old, e))
           \/ \E i \in EntriesOf(Current(m), p) :
                 rounds' = With([old EXCEPT ![i] = ExtendedBy(old[i], slip, amount, exposure)])
    BY DEF PlaceRouletteBets, TakingBets, SlipAmount, SlipExposure, Current
  <1>4. NewestInv /\ m \in GameModules
    BY DEF RoundLifeInv
  <1> HIDE DEF amount, exposure
  <1>5. CASE rounds' = With(Append(old, e))
    <2>1. e \in EntryOf(m) /\ e.player = p /\ e.stake = amount
      <3>1. e \in WheelEntry
        BY <1>1, <1>2 DEF WheelEntry
      <3>2. WheelBounded(e)
        BY <1>2 DEF WheelBounded
      <3> QED
        BY <3>1, <3>2 DEF EntryOf
    <2> HIDE DEF e
    <2> QED
      BY <1>3, <1>4, <1>5, <2>1, FurtherBetKeepsBook
  <1>6. ASSUME NEW i \in EntriesOf(Current(m), p),
               rounds' = With([old EXCEPT ![i] = ExtendedBy(old[i], slip, amount, exposure)])
        PROVE  RoundBookInv'
    <2> DEFINE b == old[i]
               c == ExtendedBy(b, slip, amount, exposure)
    <2>1. i \in 1..Len(old) /\ b.player = p
      BY DEF EntriesOf
    <2>2. old \in Seq(EntryOf(m))
      BY <1>3, <1>4, CurrentEntries
    <2>3. b \in EntryOf(m)
      <3> HIDE DEF old
      <3> QED
        BY <2>1, <2>2
    <2>4. b \in WheelEntry /\ WheelBounded(b)
      BY <2>3 DEF EntryOf
    <2>5. rounds' = With([old EXCEPT ![i] = c])
      BY <1>6
    <2> HIDE DEF b
    <2>6. /\ b.stake \in Nat /\ b.exposure \in Nat /\ b.slip \in Seq(WheelBet)
          /\ b.player \in Players
      BY <2>4 DEF WheelEntry
    <2>7. /\ b.slip \o slip \in Seq(WheelBet)
          /\ \A result : WheelPayout(b.slip \o slip, result)
                            = WheelPayout(b.slip, result) + WheelPayout(slip, result)
      BY <1>1, <2>6, SlipsJoined
    <2>8. c = [player |-> b.player, stake |-> b.stake + amount, slip |-> b.slip \o slip,
               exposure |-> b.exposure + exposure]
      <3>1. c = [b EXCEPT !.slip = b.slip \o slip, !.stake = b.stake + amount,
                          !.exposure = b.exposure + exposure]
        BY <2>4 DEF ExtendedBy, WheelEntry
      <3> QED
        BY <2>4, <3>1 DEF WheelEntry
    <2> HIDE DEF c
    <2>9. c.player = p /\ c.stake = b.stake + amount /\ c.exposure = b.exposure + exposure
          /\ c.slip = b.slip \o slip
      BY <2>1, <2>8 DEF b
    <2>10. c \in WheelEntry
      BY <1>2, <2>6, <2>7, <2>8 DEF WheelEntry
    <2>11. WheelBounded(c)
      <3> SUFFICES ASSUME NEW result \in Results
                   PROVE  WheelPayout(c.slip, result) <= c.exposure
        BY DEF WheelBounded
      <3>1. WheelPayout(b.slip, result) <= b.exposure
        BY <2>4 DEF WheelBounded
      <3>2. WheelPayout(b.slip, result) \in Nat
        BY <2>6, SlipWithinExposure
      <3>3. WheelPayout(c.slip, result)
              = WheelPayout(b.slip, result) + WheelPayout(slip, result)
        BY <2>7, <2>9
      <3>4. WheelPayout(slip, result) \in Nat /\ WheelPayout(slip, result) <= exposure
        BY <1>2
      <3> QED
        BY <1>2, <2>6, <2>9, <3>1, <3>2, <3>3, <3>4
    <2>12. c \in EntryOf(m)
      BY <2>10, <2>11 DEF EntryOf
    <2>13. /\ escrowed' \in [Modules -> [Players -> Int]]
           /\ \A o \in GameModules : o # m => escrowed'[o] = escrowed[o]
           /\ \A q \in Players : escrowed'[m][q] \in Int /\ escrowed[m][q] \in Int
           /\ \A q \in Players :
                 escrowed'[m][q] = escrowed[m][q] + (IF p = q THEN amount ELSE 0)
      BY <1>2, <1>3, <1>4, EscrowTakes
    <2>14. \A q \in Players :
              escrowed'[m][q] = escrowed[m][q] + StakeBy(c, q) - StakeBy(b, q)
      <3> TAKE q \in Players
      <3>1. b.player = p
        BY <2>1 DEF b
      <3>2. CASE q = p
        <4>1. StakeBy(c, q) = b.stake + amount /\ StakeBy(b, q) = b.stake
          BY <2>9, <3>1, <3>2 DEF StakeBy
        <4> QED
          BY <1>2, <2>6, <2>13, <3>2, <4>1
      <3>3. CASE q # p
        <4>1. StakeBy(c, q) = 0 /\ StakeBy(b, q) = 0
          BY <2>9, <3>1, <3>3 DEF StakeBy
        <4> QED
          BY <2>13, <3>3, <4>1
      <3> QED
        BY <3>2, <3>3
    <2> QED
      BY <1>3, <1>4, <2>1, <2>5, <2>12, <2>13, <2>14, ChangedBetKeepsBook DEF b
  <1> QED
    BY <1>3, <1>5, <1>6

LEMMA RoundStepKeepsBook ==
    ASSUME RoundLifeInv, RoundBookInv, RoundStep
    PROVE  RoundBookInv'
  <1>1. NewestInv /\ RoundShape
    BY DEF RoundLifeInv, NewestInv
  <1>2. PICK X : rounds \in [GameModules -> Seq(RoundOver(X))]
    BY <1>1 DEF RoundShape
  <1>3. ASSUME NEW m \in GameModules, NEW seconds \in BetWindows, SetBetWindow(m, seconds)
        PROVE  RoundBookInv'
    BY <1>3 DEF SetBetWindow, vars, histVars, RoundBookInv, EntriesShape, EntryOf,
       RoundRefundsMatchStakes, RoundsOf
  <1>4. ASSUME NEW m \in GameModules, StartRound(m)
        PROVE  RoundBookInv'
    <2> DEFINE Y == {Now + betWindow[m], block, nextHashIndex, <<>>}
    <2>1. NewRound(m) \in RoundOver(Y) /\ NewRound(m).entries = <<>>
      BY DEF NewRound, RoundOver
    <2>2. /\ rounds' = [rounds EXCEPT ![m] = Append(@, NewRound(m))]
          /\ UNCHANGED <<escrowed, wheels>>
      BY <1>4 DEF StartRound, ModuleReserveSeed, histVars
    <2> HIDE DEF Y
    <2> QED
      BY <1>1, <2>1, <2>2, OpeningKeepsBook
  <1>5. ASSUME NEW m \in GameModules, NEW id \in RoundsOf(m)
        PROVE  /\ rounds[m][id] \in RoundOver(X)
               /\ rounds[m][id].entries \in Seq(EntryOf(m))
               /\ rounds[m][id].drawn => rounds[m][id].settled
    <2>1. rounds[m][id] \in RoundOver(X)
      BY <1>2, RoundsFacts
    <2> QED
      BY <2>1 DEF RoundBookInv, EntriesShape, RoundLifeInv, RoundSeedInv, RoundSeedPublicIffDrawn
  <1>6. ASSUME NEW m \in GameModules, NEW id \in RoundsOf(m), NEW p \in Players
        PROVE  escrowed[m][p] \in Int /\ RoundStake(rounds[m][id], p) \in Int
    BY GateAssumption, <1>5, RoundStakeType DEF RoundBookInv, EntryModules
  <1>7. ASSUME NEW m \in GameModules, NEW id \in RoundsOf(m), NEW outcome \in Outcomes(m),
               SettleRound(m, id, outcome)
        PROVE  RoundBookInv'
    <2> DEFINE r == MarkSettled(rounds[m][id])
    <2>1. r \in RoundOver(X) /\ r.entries = rounds[m][id].entries /\ r.settled /\ r.drawn
      BY <1>5 DEF MarkSettled, RoundOver
    <2>2. /\ rounds' = [rounds EXCEPT ![m] = [rounds[m] EXCEPT ![id] = r]]
          /\ UNCHANGED <<escrowed, wheels>> /\ ~rounds[m][id].settled
      BY <1>7 DEF SettleRound, histVars
    <2> HIDE DEF r
    <2>3. \A p \in Players : RoundStake(r, p) = RoundStake(rounds[m][id], p)
      BY <2>1, <2>2 DEF RoundStake, Returned
    <2>4. \A p \in Players : escrowed[m][p]
             = escrowed[m][p] + RoundStake(r, p) - RoundStake(rounds[m][id], p)
      <3> TAKE p \in Players
      <3>1. escrowed[m][p] \in Int /\ RoundStake(rounds[m][id], p) \in Int
        BY <1>6
      <3>2. RoundStake(r, p) = RoundStake(rounds[m][id], p)
        BY <2>3
      <3> QED
        BY <3>1, <3>2
    <2>5. RoundBalances(m, id, r)
      BY <2>2, <2>4 DEF RoundBalances, RoundBookInv
    <2>6. r.entries \in Seq(EntryOf(m))
      BY <1>5, <2>1
    <2> QED
      BY <1>1, <2>1, <2>2, <2>5, <2>6, RoundReplacingKeepsBook
  <1>8. ASSUME NEW m \in GameModules, NEW id \in RoundsOf(m), RefundRound(m, id)
        PROVE  RoundBookInv'
    <2> DEFINE r == [rounds[m][id] EXCEPT !.settled = TRUE]
               back(p) == StakeOf(rounds[m][id].entries, p)
    <2>1. /\ r \in RoundOver(X) /\ r.entries = rounds[m][id].entries
          /\ r.settled /\ r.drawn = rounds[m][id].drawn
      BY <1>5 DEF RoundOver
    <2>2. /\ rounds' = [rounds EXCEPT ![m] = [rounds[m] EXCEPT ![id] = r]]
          /\ escrowed' = [escrowed EXCEPT ![m] = [p \in Players |-> @[p] - back(p)]]
          /\ UNCHANGED wheels /\ ~rounds[m][id].settled
      BY <1>8 DEF RefundRound, ReturnStakes
    <2> HIDE DEF r
    <2>3. \A p \in Players : RoundStake(r, p) = 0 /\ RoundStake(rounds[m][id], p) = back(p)
      <3>1. Returned(r) /\ ~Returned(rounds[m][id])
        BY <1>5, <2>1, <2>2 DEF Returned
      <3> QED
        BY <3>1 DEF RoundStake
    <2>4. \A p \in Players : back(p) \in Int
      BY <1>6, <2>3
    <2> HIDE DEF back
    <2>5. /\ escrowed' \in [Modules -> [Players -> Int]]
          /\ \A o \in GameModules : o # m => escrowed'[o] = escrowed[o]
          /\ \A p \in Players : escrowed'[m][p] = escrowed[m][p] - back(p)
      BY GateAssumption, <2>2, <2>4 DEF RoundBookInv, EntryModules
    <2>6. \A p \in Players : escrowed'[m][p]
             = escrowed[m][p] + RoundStake(r, p) - RoundStake(rounds[m][id], p)
      BY <1>6, <2>3, <2>4, <2>5
    <2>7. RoundBalances(m, id, r)
      BY <2>5, <2>6 DEF RoundBalances
    <2>8. r.entries \in Seq(EntryOf(m))
      BY <1>5, <2>1
    <2> QED
      BY <1>1, <2>1, <2>2, <2>7, <2>8, RoundReplacingKeepsBook
  <1> QED
    BY <1>3, <1>4, <1>7, <1>8, CrashBetKeepsBook, CashoutKeepsBook, WheelBetsKeepBook
    DEF RoundStep, RoundsOf

LEMMA RoundBookHolds == RoundSpec => []RoundBookInv
  <1>1. RoundInit => RoundBookInv
    <2> SUFFICES ASSUME RoundInit PROVE RoundBookInv
      OBVIOUS
    <2>1. \A m \in GameModules : rounds[m] = <<>> /\ RoundsOf(m) = {}
      BY DEF RoundInit, RoundsOf
    <2>2. escrowed = [m \in Modules |-> [p \in Players |-> 0]]
      BY DEF RoundInit, Init
    <2>3. RoundRefundsMatchStakes
      <3>1. \A m \in GameModules, p \in Players :
               SumFunctionOnSet(RoundStakes(rounds[m], p), 1..Len(rounds[m])) = 0
        BY <2>1, SumEmpty DEF RoundsOf
      <3> QED
        BY GateAssumption, <2>2, <3>1, RoundBookSums DEF EntryModules
    <2> QED
      BY <2>1, <2>2, <2>3 DEF RoundBookInv, EntriesShape
  <1>2. RoundLifeInv /\ RoundBookInv /\ [RoundNext]_allVars => RoundBookInv'
    <2> SUFFICES ASSUME RoundLifeInv, RoundBookInv, [RoundNext]_allVars PROVE RoundBookInv'
      OBVIOUS
    <2>1. CASE RoundStep
      BY <2>1, RoundStepKeepsBook
    <2>2. CASE VaultStep /\ UNCHANGED roundVars
      <3>1. escrowed' = escrowed
        BY <2>2, VaultStepKeepsEscrow
      <3> QED
        BY <2>2, <3>1 DEF roundVars, RoundBookInv, EntriesShape, EntryOf, RoundRefundsMatchStakes,
           RoundsOf
    <2>3. CASE UNCHANGED allVars
      BY <2>3 DEF allVars, vars, histVars, roundVars, RoundBookInv, EntriesShape, EntryOf,
         RoundRefundsMatchStakes, RoundsOf
    <2> QED
      BY <2>1, <2>2, <2>3 DEF RoundNext
  <1> QED
    BY <1>1, <1>2, RoundLifeInvHolds, PTL DEF RoundSpec

\* What a crash or roulette module holds of a player's stakes is what the player
\* staked in the rounds that are open or were drawn: a refund returns the whole
\* stake of one round to each of its players, once, and a settlement returns
\* nothing that a refund could return again (CrashModule.sol and
\* RouletteModule.sol, with escrowStake and refundFromModule of CasinoVault.sol).
THEOREM RoundRefundsMatch == RoundSpec => []RoundRefundsMatchStakes
  <1>1. RoundBookInv => RoundRefundsMatchStakes
    BY DEF RoundBookInv
  <1> QED
    BY <1>1, RoundBookHolds, PTL

\* Whatever the seed gives and whatever cash-out the player asked for, a bet wins
\* no more than the exposure the vault admitted it with; for roulette, where one
\* entry collects the slips of several calls, no number makes their winnings
\* exceed the sum of the exposures (settleRound of CrashModule.sol and
\* RouletteModule.sol, against placeBet and placeBets).
THEOREM PayoutWithinExposureHolds == RoundSpec => []PayoutWithinExposure
  <1>1. RoundBookInv => PayoutWithinExposure
    <2> SUFFICES ASSUME RoundBookInv, NEW m \in GameModules, NEW id \in RoundsOf(m),
                        NEW i \in 1..Len(rounds[m][id].entries), NEW outcome \in Outcomes(m)
                 PROVE  Payout(m, rounds[m][id].entries[i], outcome)
                           <= rounds[m][id].entries[i].exposure
      BY DEF PayoutWithinExposure
    <2>1. rounds[m][id].entries[i] \in EntryOf(m)
      <3>1. rounds[m][id].entries \in Seq(EntryOf(m))
        BY DEF RoundBookInv, EntriesShape
      <3> QED
        BY <3>1
    <2>2. CASE m \in wheels
      BY <2>1, <2>2 DEF EntryOf, WheelBounded, Payout, Outcomes
    <2>3. CASE m \notin wheels
      <3>1. outcome \in Nat
        BY <2>3, RoundAssumption DEF Outcomes
      <3> QED
        BY <2>1, <2>3, <3>1, CrashWithinExposure DEF EntryOf, Payout
    <2> QED
      BY <2>2, <2>3
  <1> QED
    BY <1>1, RoundBookHolds, PTL

-----------------------------------------------------------------------------
\* Mines

\* A game whose flag is a Boolean, whatever its other fields are made of.
GameOver(X) == [player : X, amount : X, status : X, mineCount : X, pendingCell : X,
                busted : X, finalized : BOOLEAN, opened : X, commitBlock : X,
                pickBlock : X, seedIdx : X, root : X, layout : X]

GamesShape == \E X : games \in [GameModules -> Seq(GameOver(X))]

-----------------------------------------------------------------------------
\* Sequences of games

\* A module's games are a sequence; its length and its elements.
LEMMA GamesFacts ==
    ASSUME NEW X, games \in [GameModules -> Seq(GameOver(X))],
           NEW m \in GameModules
    PROVE  /\ games[m] \in Seq(GameOver(X))
           /\ Len(games[m]) \in Nat
           /\ DOMAIN games[m] = 1..Len(games[m])
           /\ \A id \in GamesOf(m) : games[m][id] \in GameOver(X)
           /\ games[m] # <<>> <=> Len(games[m]) > 0
  <1>1. games[m] \in Seq(GameOver(X))
    OBVIOUS
  <1> QED
    BY <1>1 DEF GamesOf

\* A game made of a larger set of values.
LEMMA WidenGames ==
    ASSUME NEW X, NEW Y, X \subseteq Y, NEW s \in Seq(GameOver(X))
    PROVE  s \in Seq(GameOver(Y))
  <1>1. \A r : r \in GameOver(X) => r \in GameOver(Y)
    BY DEF GameOver
  <1> QED
    BY <1>1

\* One game of one module is replaced by r.
GameReplaced(m, id, r) ==
    /\ \E X : games' \in [GameModules -> Seq(GameOver(X))]
    /\ \A n \in GameModules : Len(games'[n]) = Len(games[n])
    /\ \A n \in GameModules : n # m => games'[n] = games[n]
    /\ games'[m][id] = r
    /\ \A j \in GamesOf(m) : j # id => games'[m][j] = games[m][j]

\* A step that replaces one game of one module keeps the shape.
LEMMA ReplaceGameShape ==
    ASSUME GamesShape, NEW m \in GameModules, NEW id \in GamesOf(m),
           NEW Y, NEW r \in GameOver(Y),
           games' = [games EXCEPT ![m] = [games[m] EXCEPT ![id] = r]]
    PROVE  GameReplaced(m, id, r)
  <1>1. PICK X : games \in [GameModules -> Seq(GameOver(X))]
    BY DEF GamesShape
  <1> DEFINE Z == X \cup Y
             s == [games[m] EXCEPT ![id] = r]
  <1>2. \A n \in GameModules : games[n] \in Seq(GameOver(Z))
    <2> SUFFICES ASSUME NEW n \in GameModules PROVE games[n] \in Seq(GameOver(Z))
      OBVIOUS
    <2>1. games[n] \in Seq(GameOver(X)) /\ X \subseteq Z
      BY <1>1
    <2> QED
      BY <2>1, WidenGames
  <1>3. r \in GameOver(Z)
    BY DEF GameOver
  <1> HIDE DEF Z
  <1>4. s \in Seq(GameOver(Z)) /\ Len(s) = Len(games[m])
    BY <1>2, <1>3, ExceptSeq DEF GamesOf
  <1>5. /\ s[id] = r
        /\ \A j \in GamesOf(m) : j # id => s[j] = games[m][j]
    BY <1>1, GamesFacts DEF GamesOf
  <1> HIDE DEF s
  <1>6. games' = [games EXCEPT ![m] = s]
    BY DEF s
  <1>7. games' \in [GameModules -> Seq(GameOver(Z))]
    BY <1>1, <1>2, <1>4, <1>6
  <1>8. games'[m] = s /\ \A n \in GameModules : n # m => games'[n] = games[n]
    BY <1>1, <1>6
  <1> QED
    BY <1>4, <1>5, <1>7, <1>8 DEF GameReplaced

\* A step that appends a game to one module's keeps the shape.
LEMMA AppendGameShape ==
    ASSUME GamesShape, NEW m \in GameModules, NEW Y, NEW r \in GameOver(Y),
           games' = [games EXCEPT ![m] = Append(@, r)]
    PROVE  /\ \E X : games' \in [GameModules -> Seq(GameOver(X))]
           /\ \A n \in GameModules : n # m => games'[n] = games[n]
           /\ Len(games'[m]) = Len(games[m]) + 1
           /\ games'[m][Len(games[m]) + 1] = r
           /\ \A j \in GamesOf(m) : games'[m][j] = games[m][j]
  <1>1. PICK X : games \in [GameModules -> Seq(GameOver(X))]
    BY DEF GamesShape
  <1> DEFINE Z == X \cup Y
             s == Append(games[m], r)
  <1>2. \A n \in GameModules : games[n] \in Seq(GameOver(Z))
    <2> SUFFICES ASSUME NEW n \in GameModules PROVE games[n] \in Seq(GameOver(Z))
      OBVIOUS
    <2>1. games[n] \in Seq(GameOver(X)) /\ X \subseteq Z
      BY <1>1
    <2> QED
      BY <2>1, WidenGames
  <1>3. r \in GameOver(Z)
    BY DEF GameOver
  <1> HIDE DEF Z
  <1>4. /\ s \in Seq(GameOver(Z))
        /\ Len(s) = Len(games[m]) + 1
        /\ s[Len(games[m]) + 1] = r
        /\ \A j \in GamesOf(m) : s[j] = games[m][j]
    BY <1>2, <1>3 DEF GamesOf
  <1> HIDE DEF s
  <1>5. games' = [games EXCEPT ![m] = s]
    BY <1>1 DEF s
  <1>6. games' \in [GameModules -> Seq(GameOver(Z))]
    BY <1>1, <1>2, <1>4, <1>5
  <1>7. games'[m] = s /\ \A n \in GameModules : n # m => games'[n] = games[n]
    BY <1>1, <1>5
  <1> QED
    BY <1>4, <1>6, <1>7

-----------------------------------------------------------------------------
\* Seeds: a game's index is its own, and behind the next one to be handed out

BoardsApart ==
    /\ nextHashIndex \in Nat
    /\ \A idx \in BetSeeds \cup revealed : HandedOut(idx)
    /\ \A m \in GameModules : \A id \in GamesOf(m) :
          HandedOut(games[m][id].seedIdx) /\ games[m][id].seedIdx \notin BetSeeds
    /\ \A m, n \in GameModules : \A id \in GamesOf(m), j \in GamesOf(n) :
          games[m][id].seedIdx = games[n][j].seedIdx => m = n /\ id = j

BoardInv == GamesShape /\ BetsShape /\ BoardsApart /\ BoardHiddenWhileOpen

FinalizedClosed(g) == g.finalized => g.status # Pending /\ g.root # NoRoot

\* A bet's seed is never a game's, so the vault reveals none of theirs.
LEMMA VaultKeepsBoards ==
    ASSUME BoardInv, VaultStep, UNCHANGED games
    PROVE  BoardInv'
  <1>1. VaultSeedStep
    BY VaultStepSeeds DEF BoardInv
  <1>2. BoardsApart'
    <2>1. nextHashIndex \in Nat /\ nextHashIndex' \in Nat /\ nextHashIndex' >= nextHashIndex
      BY <1>1 DEF VaultSeedStep, BoardInv, BoardsApart
    <2>2. \A idx : HandedOut(idx) => HandedOut(idx)'
      BY <2>1 DEF HandedOut
    <2>3. \A idx \in (BetSeeds \cup revealed)' : HandedOut(idx)'
      BY <1>1, <2>1, <2>2 DEF VaultSeedStep, BoardInv, BoardsApart, HandedOut
    <2>4. ASSUME NEW m \in GameModules, NEW id \in GamesOf(m)
          PROVE  HandedOut(games[m][id].seedIdx)' /\ games[m][id].seedIdx \notin BetSeeds'
      BY <1>1, <2>1, <2>2 DEF VaultSeedStep, BoardInv, BoardsApart, HandedOut
    <2> QED
      BY <2>1, <2>3, <2>4 DEF BoardInv, BoardsApart, GamesOf
  <1>3. BoardHiddenWhileOpen'
    <2> SUFFICES ASSUME NEW m \in GameModules, NEW id \in GamesOf(m)
                 PROVE  /\ games[m][id].seedIdx \in revealed' <=> games[m][id].finalized
                        /\ FinalizedClosed(games[m][id])
      BY DEF BoardHiddenWhileOpen, FinalizedClosed, GamesOf
    <2>1. games[m][id].seedIdx \notin BetSeeds
      BY DEF BoardInv, BoardsApart
    <2> QED
      BY <1>1, <2>1 DEF VaultSeedStep, BoardInv, BoardHiddenWhileOpen, FinalizedClosed
  <1> QED
    BY <1>1, <1>2, <1>3 DEF BoardInv, GamesShape, VaultSeedStep

\* A game takes the next index, which no bet has and which is not public.
LEMMA PlacingKeepsBoards ==
    ASSUME BoardInv, NEW m \in GameModules,
           NEW Y, NEW r \in GameOver(Y), r.seedIdx = nextHashIndex, ~r.finalized,
           games' = [games EXCEPT ![m] = Append(@, r)],
           nextHashIndex' = nextHashIndex + 1, UNCHANGED <<bets, revealed>>
    PROVE  BoardInv'
  <1>0. GamesShape
    BY DEF BoardInv
  <1>1. /\ \E X : games' \in [GameModules -> Seq(GameOver(X))]
        /\ \A n \in GameModules : n # m => games'[n] = games[n]
        /\ Len(games'[m]) = Len(games[m]) + 1
        /\ games'[m][Len(games[m]) + 1] = r
        /\ \A j \in GamesOf(m) : games'[m][j] = games[m][j]
    BY ONLY <1>0, m \in GameModules, r \in GameOver(Y),
            games' = [games EXCEPT ![m] = Append(@, r)], AppendGameShape
  <1>2. Len(games[m]) \in Nat
    BY <1>0, GamesFacts DEF GamesShape
  <1>3. nextHashIndex \in Nat /\ BetSeeds' = BetSeeds
    BY DEF BoardInv, BoardsApart, BetSeeds
  <1> DEFINE New(n, id) == n = m /\ id = Len(games[m]) + 1
  <1>4. ASSUME NEW n \in GameModules, NEW id \in 1..Len(games'[n])
        PROVE  \/ New(n, id) /\ games'[n][id] = r
               \/ ~New(n, id) /\ id \in GamesOf(n) /\ games'[n][id] = games[n][id]
    <2>1. CASE n # m
      BY <1>1, <1>4, <2>1 DEF GamesOf
    <2>2. CASE n = m
      BY <1>1, <1>2, <1>4, <2>2 DEF GamesOf
    <2> QED
      BY <2>1, <2>2
  <1>5. \A n \in GameModules : \A id \in GamesOf(n) :
           /\ games[n][id].seedIdx \in Nat
           /\ games[n][id].seedIdx < nextHashIndex
           /\ games[n][id].seedIdx \notin BetSeeds
    BY DEF BoardInv, BoardsApart, HandedOut
  <1>6. \A idx \in BetSeeds \cup revealed : idx \in Nat /\ idx < nextHashIndex
    BY DEF BoardInv, BoardsApart, HandedOut
  <1> HIDE DEF New
  <1>7. BoardsApart'
    <2>1. nextHashIndex' \in Nat /\ \A idx \in (BetSeeds \cup revealed)' : HandedOut(idx)'
      BY <1>3, <1>6 DEF HandedOut
    <2>2. ASSUME NEW n \in GameModules, NEW id \in 1..Len(games'[n])
          PROVE  HandedOut(games[n][id].seedIdx)' /\ games'[n][id].seedIdx \notin BetSeeds'
      BY <1>3, <1>4, <1>5, <1>6, <2>2 DEF HandedOut
    <2>3. ASSUME NEW n \in GameModules, NEW o \in GameModules,
                 NEW id \in 1..Len(games'[n]), NEW j \in 1..Len(games'[o]),
                 games'[n][id].seedIdx = games'[o][j].seedIdx
          PROVE  n = o /\ id = j
      <3>1. CASE New(n, id) /\ New(o, j)
        BY <3>1 DEF New
      <3>2. CASE New(n, id) /\ ~New(o, j)
        BY <1>3, <1>4, <1>5, <2>3, <3>2
      <3>3. CASE ~New(n, id) /\ New(o, j)
        BY <1>3, <1>4, <1>5, <2>3, <3>3
      <3>4. CASE ~New(n, id) /\ ~New(o, j)
        BY <1>4, <2>3, <3>4 DEF BoardInv, BoardsApart
      <3> QED
        BY <3>1, <3>2, <3>3, <3>4
    <2> QED
      BY <2>1, <2>2, <2>3 DEF BoardsApart, GamesOf
  <1>8. BoardHiddenWhileOpen'
    <2> SUFFICES ASSUME NEW n \in GameModules, NEW id \in 1..Len(games'[n])
                 PROVE  /\ games'[n][id].seedIdx \in revealed <=> games'[n][id].finalized
                        /\ FinalizedClosed(games'[n][id])
      BY DEF BoardHiddenWhileOpen, FinalizedClosed, GamesOf
    <2>1. CASE New(n, id)
      BY <1>3, <1>4, <1>6, <2>1 DEF FinalizedClosed
    <2>2. CASE ~New(n, id)
      BY <1>4, <2>2 DEF BoardInv, BoardHiddenWhileOpen, FinalizedClosed
    <2> QED
      BY <2>1, <2>2
  <1>9. BetsShape'
    BY DEF BoardInv, BetsShape
  <1> QED
    BY <1>1, <1>7, <1>8, <1>9 DEF BoardInv, GamesShape

\* A game that is played, settled or refunded keeps its seed, and a step that
\* reveals a seed reveals this game's and finalizes it.
LEMMA ReplacingKeepsBoards ==
    ASSUME BoardInv, NEW m \in GameModules, NEW id \in GamesOf(m),
           NEW Y, NEW r \in GameOver(Y), r.seedIdx = games[m][id].seedIdx,
           games' = [games EXCEPT ![m] = [games[m] EXCEPT ![id] = r]],
           UNCHANGED <<bets, nextHashIndex>>,
           FinalizedClosed(r),
           \/ revealed' = revealed /\ r.finalized = games[m][id].finalized
           \/ revealed' = revealed \cup {r.seedIdx} /\ r.finalized
    PROVE  BoardInv'
  <1>0. GamesShape
    BY DEF BoardInv
  <1>1. /\ \E X : games' \in [GameModules -> Seq(GameOver(X))]
        /\ \A n \in GameModules : Len(games'[n]) = Len(games[n])
        /\ \A n \in GameModules : n # m => games'[n] = games[n]
        /\ games'[m][id] = r
        /\ \A j \in GamesOf(m) : j # id => games'[m][j] = games[m][j]
    <2>1. GameReplaced(m, id, r)
      BY ONLY <1>0, m \in GameModules, id \in GamesOf(m), r \in GameOver(Y),
              games' = [games EXCEPT ![m] = [games[m] EXCEPT ![id] = r]],
              ReplaceGameShape
    <2> QED
      BY <2>1 DEF GameReplaced
  <1>2. \A n \in GameModules : GamesOf(n)' = GamesOf(n)
    BY <1>1 DEF GamesOf
  <1>3. \A n \in GameModules : \A j \in GamesOf(n) :
           games'[n][j].seedIdx = games[n][j].seedIdx
    BY <1>1
  <1>4. BetSeeds' = BetSeeds /\ BetsShape'
    BY DEF BoardInv, BetSeeds, BetsShape
  <1>5. revealed' \subseteq revealed \cup {games[m][id].seedIdx}
    OBVIOUS
  <1>6. BoardsApart'
    <2>1. \A idx : HandedOut(idx) => HandedOut(idx)'
      BY DEF HandedOut
    <2>2. nextHashIndex' \in Nat
      BY DEF BoardInv, BoardsApart
    <2>3. \A idx \in (BetSeeds \cup revealed)' : HandedOut(idx)'
      BY <1>4, <1>5, <2>1 DEF BoardInv, BoardsApart
    <2>4. ASSUME NEW n \in GameModules, NEW j \in GamesOf(n)
          PROVE  HandedOut(games[n][j].seedIdx)' /\ games'[n][j].seedIdx \notin BetSeeds'
      BY <1>3, <1>4, <2>4 DEF BoardInv, BoardsApart, HandedOut
    <2>5. ASSUME NEW n \in GameModules, NEW o \in GameModules,
                 NEW j \in GamesOf(n), NEW k \in GamesOf(o),
                 games'[n][j].seedIdx = games'[o][k].seedIdx
          PROVE  n = o /\ j = k
      BY <1>3, <2>5 DEF BoardInv, BoardsApart
    <2> QED
      BY <1>2, <2>2, <2>3, <2>4, <2>5 DEF BoardsApart
  <1>7. BoardHiddenWhileOpen'
    <2> SUFFICES ASSUME NEW n \in GameModules, NEW j \in GamesOf(n)
                 PROVE  /\ games'[n][j].seedIdx \in revealed' <=> games'[n][j].finalized
                        /\ FinalizedClosed(games'[n][j])
      BY <1>2 DEF BoardHiddenWhileOpen, FinalizedClosed
    <2>1. CASE n = m /\ j = id
      BY <1>1, <2>1 DEF BoardInv, BoardHiddenWhileOpen, FinalizedClosed
    <2>2. CASE ~(n = m /\ j = id)
      <3>1. games'[n][j] = games[n][j]
        BY <1>1, <2>2
      <3>2. games[n][j].seedIdx # games[m][id].seedIdx
        BY <2>2 DEF BoardInv, BoardsApart
      <3>3. games[n][j].seedIdx \in revealed' <=> games[n][j].seedIdx \in revealed
        BY <3>2
      <3> QED
        BY <3>1, <3>3 DEF BoardInv, BoardHiddenWhileOpen, FinalizedClosed
    <2> QED
      BY <2>1, <2>2
  <1> QED
    BY <1>1, <1>4, <1>6, <1>7 DEF BoardInv, GamesShape

-----------------------------------------------------------------------------
\* Stakes: what a module holds of a player's is what its games kept of it

KeptIn(list, p) == [id \in 1..Len(list) |-> Kept(list[id], p)]

StakesShape ==
    /\ escrowed \in [Modules -> [Players -> Int]]
    /\ \A m \in GameModules : \A id \in GamesOf(m) :
          games[m][id].player \in Players /\ games[m][id].amount \in Nat

MinesBookInv == StakesShape /\ MinesRefundsMatchStakes

LEMMA KeptType ==
    ASSUME NEW g, g.amount \in Nat, NEW p
    PROVE  Kept(g, p) \in Int
  BY DEF Kept

LEMMA MinesBookSums ==
    /\ MinesRefundsMatchStakes
         <=> \A m \in GameModules, p \in Players :
                escrowed[m][p] = SumFunctionOnSet(KeptIn(games[m], p), 1..Len(games[m]))
    /\ MinesRefundsMatchStakes'
         <=> \A m \in GameModules, p \in Players :
                escrowed'[m][p] = SumFunctionOnSet(KeptIn(games'[m], p), 1..Len(games'[m]))
  BY DEF MinesRefundsMatchStakes, SumFunction, KeptIn, GamesOf

\* A new game keeps the stake that came with it.
LEMMA PlacingKeepsBook ==
    ASSUME GamesShape, MinesBookInv, NEW m \in GameModules, NEW Y, NEW r \in GameOver(Y),
           r.player \in Players, r.amount \in Nat, r.status # Refunded, ~r.finalized,
           games' = [games EXCEPT ![m] = Append(@, r)],
           escrowed' = [escrowed EXCEPT ![m][r.player] = @ + r.amount]
    PROVE  MinesBookInv'
  <1> DEFINE n == Len(games[m])
  <1>1. /\ \A o \in GameModules : o # m => games'[o] = games[o]
        /\ Len(games'[m]) = n + 1
        /\ games'[m][n + 1] = r
        /\ \A j \in GamesOf(m) : games'[m][j] = games[m][j]
    BY ONLY GamesShape, m \in GameModules, r \in GameOver(Y),
            games' = [games EXCEPT ![m] = Append(@, r)], AppendGameShape
  <1>2. n \in Nat
    BY GamesFacts DEF GamesShape
  <1>3. /\ escrowed' \in [Modules -> [Players -> Int]]
        /\ \A o \in Modules : o # m => escrowed'[o] = escrowed[o]
        /\ \A p \in Players :
              escrowed'[m][p] = escrowed[m][p] + (IF p = r.player THEN r.amount ELSE 0)
    BY GateAssumption DEF MinesBookInv, StakesShape, EntryModules
  <1> HIDE DEF n
  <1>4. ASSUME NEW o \in GameModules, NEW id \in 1..Len(games'[o])
        PROVE  games'[o][id].player \in Players /\ games'[o][id].amount \in Nat
    <2>1. CASE o = m /\ id = n + 1
      BY <1>1, <2>1
    <2>2. CASE ~(o = m /\ id = n + 1)
      <3>1. id \in GamesOf(o) /\ games'[o][id] = games[o][id]
        BY <1>1, <1>2, <1>4, <2>2 DEF GamesOf, n
      <3> QED
        BY <3>1 DEF MinesBookInv, StakesShape
    <2> QED
      BY <2>1, <2>2
  <1>5. ASSUME NEW o \in GameModules, NEW p \in Players
        PROVE  escrowed'[o][p]
                 = SumFunctionOnSet(KeptIn(games'[o], p), 1..Len(games'[o]))
    <2>0. escrowed[o][p] = SumFunctionOnSet(KeptIn(games[o], p), 1..Len(games[o]))
      BY MinesBookSums DEF MinesBookInv
    <2>1. CASE o # m
      BY GateAssumption, <1>1, <1>3, <2>0, <2>1 DEF EntryModules
    <2>2. CASE o = m
      <3>1. \A id \in 1..(n + 1) : KeptIn(games'[m], p)[id] \in Int
        BY <1>1, <1>4, <2>2, KeptType DEF KeptIn
      <3>2. \A id \in 1..n : KeptIn(games'[m], p)[id] = KeptIn(games[m], p)[id]
        BY <1>1, <1>2 DEF KeptIn, GamesOf, n
      <3>3. SumFunctionOnSet(KeptIn(games'[m], p), 1..(n + 1))
              = SumFunctionOnSet(KeptIn(games[m], p), 1..n) + KeptIn(games'[m], p)[n + 1]
        BY ONLY <1>2, <3>1, <3>2, SumGrows
      <3>4. KeptIn(games'[m], p)[n + 1] = IF p = r.player THEN r.amount ELSE 0
        <4>1. KeptIn(games'[m], p)[n + 1] = Kept(r, p)
          BY <1>1, <1>2 DEF KeptIn
        <4> QED
          BY <4>1 DEF Kept
      <3>5. escrowed[m][p] = SumFunctionOnSet(KeptIn(games[m], p), 1..n)
        BY <2>0, <2>2 DEF n
      <3> QED
        BY <1>1, <1>3, <2>2, <3>3, <3>4, <3>5
    <2> QED
      BY <2>1, <2>2
  <1> QED
    BY <1>3, <1>4, <1>5, MinesBookSums DEF MinesBookInv, StakesShape, GamesOf

\* A step that turns a game into r hands back what r no longer keeps.
MinesBalances(m, id, r) ==
    /\ escrowed' \in [Modules -> [Players -> Int]]
    /\ \A o \in GameModules : o # m => escrowed'[o] = escrowed[o]
    /\ \A p \in Players :
          escrowed'[m][p] = escrowed[m][p] + Kept(r, p) - Kept(games[m][id], p)
    /\ r.player = games[m][id].player /\ r.amount = games[m][id].amount

LEMMA MinesReplacingKeepsBook ==
    ASSUME GamesShape, MinesBookInv, NEW m \in GameModules, NEW id \in GamesOf(m),
           NEW Y, NEW r \in GameOver(Y), MinesBalances(m, id, r),
           games' = [games EXCEPT ![m] = [games[m] EXCEPT ![id] = r]]
    PROVE  MinesBookInv'
  <1>1. /\ \E X : games' \in [GameModules -> Seq(GameOver(X))]
        /\ \A n \in GameModules : Len(games'[n]) = Len(games[n])
        /\ \A n \in GameModules : n # m => games'[n] = games[n]
        /\ games'[m][id] = r
        /\ \A j \in GamesOf(m) : j # id => games'[m][j] = games[m][j]
    <2>1. GameReplaced(m, id, r)
      BY ONLY GamesShape, games' = [games EXCEPT ![m] = [games[m] EXCEPT ![id] = r]],
              ReplaceGameShape
    <2> QED
      BY <2>1 DEF GameReplaced
  <1>2. Len(games[m]) \in Nat
    BY GamesFacts DEF GamesShape
  <1>3. ASSUME NEW o \in GameModules, NEW j \in GamesOf(o)
        PROVE  /\ games[o][j].player \in Players /\ games[o][j].amount \in Nat
               /\ games'[o][j].player \in Players /\ games'[o][j].amount \in Nat
    BY <1>1 DEF MinesBookInv, StakesShape, MinesBalances
  <1>4. ASSUME NEW o \in GameModules, NEW p \in Players
        PROVE  escrowed'[o][p]
                 = SumFunctionOnSet(KeptIn(games'[o], p), 1..Len(games'[o]))
    <2>0. escrowed[o][p] = SumFunctionOnSet(KeptIn(games[o], p), 1..Len(games[o]))
      BY MinesBookSums DEF MinesBookInv
    <2>1. CASE o # m
      BY <1>1, <2>0, <2>1 DEF MinesBalances
    <2>2. CASE o = m
      <3> DEFINE f == KeptIn(games[m], p)
                 g == KeptIn(games'[m], p)
                 S == 1..Len(games[m])
      <3>1. \A j \in S : f[j] \in Int /\ g[j] \in Int
        <4>1. \A j \in S : f[j] = Kept(games[m][j], p) /\ g[j] = Kept(games'[m][j], p)
          BY <1>1 DEF KeptIn
        <4> QED
          BY <1>3, <4>1, KeptType DEF GamesOf
      <3>2. \A j \in S \ {id} : g[j] = f[j]
        BY <1>1 DEF KeptIn, GamesOf
      <3>3. f[id] = Kept(games[m][id], p) /\ g[id] = Kept(r, p) /\ id \in S
        BY <1>1 DEF KeptIn, GamesOf
      <3>4. IsFiniteSet(S)
        BY ONLY <1>2, FS_Interval
      <3>5. f[id] \in Int /\ g[id] \in Int /\ SumFunctionOnSet(f, S) \in Int
        BY <3>1, <3>3, <3>4, SumIn
      <3>6. escrowed[m][p] = SumFunctionOnSet(f, S)
        BY <2>0, <2>2
      <3> HIDE DEF f, g, S
      <3>7. SumFunctionOnSet(g, S) = SumFunctionOnSet(f, S) + g[id] - f[id]
        <4>1. id \in S
          BY <3>3
        <4> QED
          BY ONLY <3>1, <3>2, <3>4, <4>1, SumChange
      <3>8. escrowed'[m][p] = escrowed[m][p] + g[id] - f[id]
        BY <3>3 DEF MinesBalances
      <3>9. escrowed'[m][p] = SumFunctionOnSet(g, S)
        BY <3>5, <3>6, <3>7, <3>8
      <3> QED
        BY <1>1, <2>2, <3>9 DEF g, S
    <2> QED
      BY <2>1, <2>2
  <1> QED
    BY <1>1, <1>3, <1>4, MinesBookSums DEF MinesBookInv, StakesShape, GamesOf, MinesBalances

\* An open game that is played on keeps what it kept.
LEMMA PlayingBalances ==
    ASSUME MinesBookInv, NEW m \in GameModules, NEW id \in GamesOf(m), NEW r,
           r.player = games[m][id].player, r.amount = games[m][id].amount,
           \A p \in Players : Kept(r, p) = Kept(games[m][id], p), UNCHANGED escrowed
    PROVE  MinesBalances(m, id, r)
  <1>1. games[m][id].amount \in Nat
    BY DEF MinesBookInv, StakesShape
  <1>2. \A p \in Players : Kept(games[m][id], p) \in Int /\ escrowed[m][p] \in Int
    BY GateAssumption, <1>1, KeptType DEF MinesBookInv, StakesShape, EntryModules
  <1> QED
    BY <1>2 DEF MinesBalances, MinesBookInv, StakesShape

\* A game whose stake is handed back keeps as much less.
LEMMA GivingBackBalances ==
    ASSUME MinesBookInv, NEW m \in GameModules, NEW id \in GamesOf(m), NEW r,
           r.player = games[m][id].player, r.amount = games[m][id].amount,
           Kept(r, r.player) = Kept(games[m][id], r.player) - r.amount,
           GiveBack(m, games[m][id].player, games[m][id].amount)
    PROVE  MinesBalances(m, id, r)
  <1> DEFINE g == games[m][id]
  <1>1. g.amount \in Nat /\ g.player \in Players
    BY DEF MinesBookInv, StakesShape
  <1>2. escrowed' = [escrowed EXCEPT ![m][g.player] = @ - g.amount]
    BY DEF GiveBack
  <1>3. escrowed \in [Modules -> [Players -> Int]] /\ m \in Modules
    BY GateAssumption DEF MinesBookInv, StakesShape, EntryModules
  <1>4. Kept(g, g.player) \in Int
    BY <1>1, KeptType
  <1>5. ASSUME NEW p \in Players, p # g.player
        PROVE  Kept(r, p) = 0 /\ Kept(g, p) = 0
    BY <1>5 DEF Kept
  <1> HIDE DEF g
  <1>6. /\ escrowed' \in [Modules -> [Players -> Int]]
        /\ \A o \in Modules : o # m => escrowed'[o] = escrowed[o]
        /\ \A p \in Players : p # g.player => escrowed'[m][p] = escrowed[m][p]
        /\ escrowed'[m][g.player] = escrowed[m][g.player] - g.amount
    BY <1>1, <1>2, <1>3
  <1>7. Kept(r, g.player) = Kept(g, g.player) - g.amount
    BY DEF g
  <1>8. \A p \in Players : escrowed'[m][p] = escrowed[m][p] + Kept(r, p) - Kept(g, p)
    <2> TAKE p \in Players
    <2>1. escrowed[m][p] \in Int
      BY <1>3
    <2>2. CASE p = g.player
      BY <1>1, <1>4, <1>6, <1>7, <2>1, <2>2
    <2>3. CASE p # g.player
      BY <1>5, <1>6, <2>1, <2>3
    <2> QED
      BY <2>2, <2>3
  <1> QED
    BY GateAssumption, <1>6, <1>8 DEF MinesBalances, g, EntryModules

-----------------------------------------------------------------------------
\* The steps of a game

MinesInv == BoardInv /\ MinesBookInv

LEMMA MinesStepKeepsInv ==
    ASSUME MinesInv, MinesStep
    PROVE  MinesInv'
  <1>0. GamesShape /\ BoardInv /\ MinesBookInv
    BY DEF MinesInv, BoardInv
  <1>1. PICK X : games \in [GameModules -> Seq(GameOver(X))]
    BY <1>0 DEF GamesShape
  <1> DEFINE With(m, id, r) == [games EXCEPT ![m] = [games[m] EXCEPT ![id] = r]]
  <1>2. \A m \in GameModules : \A id \in GamesOf(m) :
            /\ games[m][id] \in GameOver(X)
            /\ FinalizedClosed(games[m][id])
            /\ m \in DOMAIN games /\ id \in DOMAIN games[m]
    <2>1. \A m \in GameModules : \A id \in GamesOf(m) :
            games[m][id] \in GameOver(X) /\ m \in DOMAIN games /\ id \in DOMAIN games[m]
      BY <1>1, GamesFacts DEF GamesOf
    <2> QED
      BY <1>0, <2>1 DEF BoardInv, BoardHiddenWhileOpen, FinalizedClosed
  <1>3. ASSUME NEW m \in GameModules, NEW p \in Players, NEW amount \in Stakes,
               NEW mineCount \in MineCounts, PlaceMinesBet(m, p, amount, mineCount)
        PROVE  MinesInv'
    <2> DEFINE r == [player |-> p, amount |-> amount, status |-> Pending,
                     mineCount |-> mineCount, pendingCell |-> NoCell, busted |-> FALSE,
                     finalized |-> FALSE, opened |-> {}, commitBlock |-> block,
                     pickBlock |-> 0, seedIdx |-> nextHashIndex, root |-> NoRoot,
                     layout |-> {}]
               Y == {p, amount, Pending, mineCount, NoCell, FALSE, {}, block, 0,
                     nextHashIndex, NoRoot}
    <2>1. /\ r \in GameOver(Y) /\ r.seedIdx = nextHashIndex /\ ~r.finalized
          /\ r.player = p /\ r.amount = amount /\ r.status # Refunded
      BY DEF GameOver, Pending, Refunded
    <2>2. /\ games' = [games EXCEPT ![m] = Append(@, r)]
          /\ nextHashIndex' = nextHashIndex + 1
          /\ UNCHANGED <<bets, revealed>>
          /\ escrowed' = [escrowed EXCEPT ![m][p] = @ + amount]
      BY <1>3 DEF PlaceMinesBet, TakeStake, betVars
    <2>3. amount \in Nat
      BY ConstantsAssumption
    <2> HIDE DEF r, Y
    <2>4. BoardInv'
      BY <1>0, <2>1, <2>2, PlacingKeepsBoards
    <2>5. MinesBookInv'
      BY <1>0, <2>1, <2>2, <2>3, PlacingKeepsBook
    <2> QED
      BY <2>4, <2>5 DEF MinesInv
  \* A step of an open game, which cannot be finalized.
  <1>4. ASSUME NEW m \in GameModules, NEW id \in GamesOf(m),
               NEW Y, NEW r \in GameOver(Y),
               r.seedIdx = games[m][id].seedIdx, ~games[m][id].finalized, ~r.finalized,
               games' = With(m, id, r), UNCHANGED <<bets, nextHashIndex, revealed>>,
               MinesBalances(m, id, r)
        PROVE  MinesInv'
    <2>1. FinalizedClosed(r) /\ r.finalized = games[m][id].finalized
      <3>1. r.finalized \in BOOLEAN /\ games[m][id].finalized \in BOOLEAN
        BY <1>2, <1>4 DEF GameOver
      <3> QED
        BY <1>4, <3>1 DEF FinalizedClosed
    <2>2. BoardInv'
      BY <1>0, <1>4, <2>1, ReplacingKeepsBoards
    <2>3. MinesBookInv'
      BY <1>0, <1>4, MinesReplacingKeepsBook
    <2> QED
      BY <2>2, <2>3 DEF MinesInv
  <1>5. \A m \in GameModules : \A id \in GamesOf(m) :
            games[m][id].status = Pending => ~games[m][id].finalized
    BY <1>2 DEF FinalizedClosed
  \* A step that plays an open game on hands nothing back.
  <1>5a. ASSUME NEW m \in GameModules, NEW id \in GamesOf(m),
                NEW Y, NEW r \in GameOver(Y),
                r.seedIdx = games[m][id].seedIdx, games[m][id].status = Pending,
                r.finalized = games[m][id].finalized, r.status # Refunded,
                r.player = games[m][id].player, r.amount = games[m][id].amount,
                games' = With(m, id, r),
                UNCHANGED <<bets, nextHashIndex, revealed, escrowed>>
         PROVE  MinesInv'
    <2>1. ~games[m][id].finalized /\ ~r.finalized
      BY <1>5, <1>5a
    <2>2. \A p \in Players : Kept(r, p) = Kept(games[m][id], p)
      BY <1>5a, <2>1 DEF Kept, Pending, Refunded
    <2>3. MinesBalances(m, id, r)
      BY <1>0, <1>5a, <2>2, PlayingBalances
    <2> QED
      BY <1>4, <1>5a, <2>1, <2>3
  <1>6. ASSUME NEW m \in GameModules, NEW id \in GamesOf(m),
               VoidExpired(m, id) \/ CancelPick(m, id)
        PROVE  MinesInv'
    <2> DEFINE r == [games[m][id] EXCEPT !.status = Refunded, !.pendingCell = NoCell]
    <2>1. /\ r \in GameOver(X \cup {Refunded, NoCell}) /\ r.seedIdx = games[m][id].seedIdx
          /\ r.finalized = games[m][id].finalized
          /\ r.player = games[m][id].player /\ r.amount = games[m][id].amount
          /\ r.status = Refunded
      BY <1>2 DEF GameOver
    <2>2. games[m][id].status = Pending /\ VoidGame(m, id)
      BY <1>6 DEF VoidExpired, CancelPick
    <2>3. games' = With(m, id, r) /\ UNCHANGED <<bets, nextHashIndex, revealed>>
      BY <1>1, <1>2, <2>2 DEF VoidGame, GiveBack, seedVars, betVars
    <2>4. GiveBack(m, games[m][id].player, games[m][id].amount)
      BY <2>2 DEF VoidGame
    <2>5. games[m][id].amount \in Nat
      BY <1>0 DEF MinesBookInv, StakesShape
    <2> HIDE DEF r
    <2>6. Kept(r, r.player) = Kept(games[m][id], r.player) - r.amount
      BY <1>5, <2>1, <2>2, <2>5 DEF Kept, Pending, Refunded
    <2>7. MinesBalances(m, id, r)
      BY <1>0, <2>1, <2>4, <2>6, GivingBackBalances
    <2> QED
      BY <1>4, <1>5, <2>1, <2>2, <2>3, <2>7
  <1>7. ASSUME NEW m \in GameModules, NEW id \in GamesOf(m), NEW layout, NEW root,
               CommitRoot(m, id, layout, root)
        PROVE  MinesInv'
    <2> DEFINE r == [games[m][id] EXCEPT !.root = root, !.layout = layout]
    <2>1. /\ r \in GameOver(X \cup {root, layout}) /\ r.seedIdx = games[m][id].seedIdx
          /\ r.finalized = games[m][id].finalized
          /\ r.player = games[m][id].player /\ r.amount = games[m][id].amount
          /\ r.status = games[m][id].status
      BY <1>2 DEF GameOver
    <2>2. games[m][id].status = Pending
      BY <1>7 DEF CommitRoot
    <2>3. games' = With(m, id, r) /\ UNCHANGED <<bets, nextHashIndex, revealed, escrowed>>
      BY <1>1, <1>2, <1>7 DEF CommitRoot, vars, seedVars, betVars, histVars
    <2>4. r.status # Refunded
      BY <2>1, <2>2 DEF Pending, Refunded
    <2> HIDE DEF r
    <2> QED
      BY <1>5a, <2>1, <2>2, <2>3, <2>4
  <1>8. ASSUME NEW m \in GameModules, NEW id \in GamesOf(m), NEW cell, PickCell(m, id, cell)
        PROVE  MinesInv'
    <2> DEFINE r == [games[m][id] EXCEPT !.pendingCell = cell, !.pickBlock = block]
    <2>1. /\ r \in GameOver(X \cup {cell, block}) /\ r.seedIdx = games[m][id].seedIdx
          /\ r.finalized = games[m][id].finalized
          /\ r.player = games[m][id].player /\ r.amount = games[m][id].amount
          /\ r.status = games[m][id].status
      BY <1>2 DEF GameOver
    <2>2. games[m][id].status = Pending
      BY <1>8 DEF PickCell
    <2>3. games' = With(m, id, r) /\ UNCHANGED <<bets, nextHashIndex, revealed, escrowed>>
      BY <1>1, <1>2, <1>8 DEF PickCell, vars, seedVars, betVars, histVars
    <2>4. r.status # Refunded
      BY <2>1, <2>2 DEF Pending, Refunded
    <2> HIDE DEF r
    <2> QED
      BY <1>5a, <2>1, <2>2, <2>3, <2>4
  <1>9. ASSUME NEW m \in GameModules, NEW id \in GamesOf(m), ResolveCell(m, id)
        PROVE  MinesInv'
    <2> DEFINE g == games[m][id]
               opened == g.opened \cup {g.pendingCell}
               hit == [g EXCEPT !.pendingCell = NoCell, !.busted = TRUE, !.status = Settled]
               safe == [g EXCEPT !.pendingCell = NoCell, !.opened = opened]
               Y == X \cup {NoCell, TRUE, Settled, opened}
    <2>1. /\ hit \in GameOver(Y) /\ hit.seedIdx = g.seedIdx /\ hit.finalized = g.finalized
          /\ safe \in GameOver(Y) /\ safe.seedIdx = g.seedIdx /\ safe.finalized = g.finalized
          /\ hit.player = g.player /\ hit.amount = g.amount /\ hit.status = Settled
          /\ safe.player = g.player /\ safe.amount = g.amount /\ safe.status = g.status
      BY <1>2 DEF GameOver
    <2>2. g.status = Pending /\ UNCHANGED <<bets, nextHashIndex, revealed, escrowed>>
      BY <1>9 DEF ResolveCell, vars, seedVars, betVars, histVars
    <2>3. games' = With(m, id, hit) \/ games' = With(m, id, safe)
      <3>1. CASE g.pendingCell \in g.root
        <4>1. games' = [games EXCEPT ![m][id].pendingCell = NoCell,
                                     ![m][id].busted = TRUE, ![m][id].status = Settled]
          BY <1>9, <3>1 DEF ResolveCell
        <4>2. games' = With(m, id, hit)
          BY <1>1, <1>2, <4>1
        <4> QED
          BY <4>2
      <3>2. CASE g.pendingCell \notin g.root
        <4>1. games' = [games EXCEPT ![m][id].pendingCell = NoCell,
                                     ![m][id].opened = @ \cup {g.pendingCell}]
          BY <1>9, <3>2 DEF ResolveCell
        <4>2. games' = With(m, id, safe)
          BY <1>1, <1>2, <4>1
        <4> QED
          BY <4>2
      <3> QED
        BY <3>1, <3>2
    <2>6. hit.status # Refunded /\ safe.status # Refunded
      BY <2>1, <2>2 DEF Pending, Settled, Refunded
    <2> HIDE DEF hit, safe, Y
    <2>4. CASE games' = With(m, id, hit)
      BY <1>5a, <2>1, <2>2, <2>4, <2>6
    <2>5. CASE games' = With(m, id, safe)
      BY <1>5a, <2>1, <2>2, <2>5, <2>6
    <2> QED
      BY <2>3, <2>4, <2>5
  <1>10. ASSUME NEW m \in GameModules, NEW id \in GamesOf(m), Cashout(m, id)
         PROVE  MinesInv'
    <2> DEFINE r == [games[m][id] EXCEPT !.status = Settled]
    <2>1. /\ r \in GameOver(X \cup {Settled}) /\ r.seedIdx = games[m][id].seedIdx
          /\ r.finalized = games[m][id].finalized
          /\ r.player = games[m][id].player /\ r.amount = games[m][id].amount
          /\ r.status = Settled
      BY <1>2 DEF GameOver
    <2>2. games[m][id].status = Pending
      BY <1>10 DEF Cashout
    <2>3. games' = With(m, id, r) /\ UNCHANGED <<bets, nextHashIndex, revealed, escrowed>>
      BY <1>1, <1>2, <1>10 DEF Cashout, ModuleCredit, seedVars, betVars, histVars
    <2>4. r.status # Refunded
      BY <2>1, <2>2 DEF Settled, Refunded
    <2> HIDE DEF r
    <2> QED
      BY <1>5a, <2>1, <2>2, <2>3, <2>4
  \* The one step that publishes a seed: of this game, which is over.
  <1>11. ASSUME NEW m \in GameModules, NEW id \in GamesOf(m), Finalize(m, id)
         PROVE  MinesInv'
    <2> DEFINE r == [games[m][id] EXCEPT !.finalized = TRUE]
    <2>1. /\ r \in GameOver(X) /\ r.seedIdx = games[m][id].seedIdx
          /\ r.finalized /\ r.status = games[m][id].status /\ r.root = games[m][id].root
          /\ r.player = games[m][id].player /\ r.amount = games[m][id].amount
          /\ r.layout = games[m][id].layout
      BY <1>2 DEF GameOver
    <2>2. FinalizedClosed(r)
      BY <1>11, <2>1 DEF Finalize, FinalizedClosed
    <2>3. games' = With(m, id, r) /\ UNCHANGED <<bets, nextHashIndex>>
          /\ revealed' = revealed \cup {r.seedIdx}
      BY <1>1, <1>2, <1>11, <2>1 DEF Finalize, GiveBack, betVars
    <2> HIDE DEF r
    <2>4. games[m][id].amount \in Nat
      BY <1>0 DEF MinesBookInv, StakesShape
    <2>5. ~games[m][id].finalized
      BY <1>11 DEF Finalize
    <2>6. MinesBalances(m, id, r)
      <3>1. CASE r.root = r.layout
        <4>1. \A p \in Players : Kept(r, p) = Kept(games[m][id], p)
          BY <2>1, <2>5, <3>1 DEF Kept
        <4>2. UNCHANGED escrowed
          BY <1>11, <2>1, <3>1 DEF Finalize, histVars
        <4> QED
          BY <1>0, <2>1, <4>1, <4>2, PlayingBalances
      <3>2. CASE r.root # r.layout
        <4>1. Kept(r, r.player) = Kept(games[m][id], r.player) - r.amount
          BY <2>1, <2>4, <2>5, <3>2 DEF Kept
        <4>2. GiveBack(m, games[m][id].player, games[m][id].amount)
          BY <1>11, <2>1, <3>2 DEF Finalize
        <4> QED
          BY <1>0, <2>1, <4>1, <4>2, GivingBackBalances
      <3> QED
        BY <3>1, <3>2
    <2>7. BoardInv'
      BY <1>0, <2>1, <2>2, <2>3, ReplacingKeepsBoards
    <2>8. MinesBookInv'
      BY <1>0, <2>1, <2>3, <2>6, MinesReplacingKeepsBook
    <2> QED
      BY <2>7, <2>8 DEF MinesInv
  <1> QED
    BY <1>3, <1>6, <1>7, <1>8, <1>9, <1>10, <1>11 DEF MinesStep

LEMMA MinesInvHolds == MinesSpec => []MinesInv
  <1>1. MinesInit => MinesInv
    <2> SUFFICES ASSUME MinesInit PROVE MinesInv
      OBVIOUS
    <2>1. bets = <<>> /\ nextHashIndex = 0 /\ revealed = {}
      BY DEF MinesInit, Init
    <2>2. BetsShape /\ BetSeeds = {}
      <3>1. bets \in Seq(BetOver({}))
        BY <2>1
      <3> QED
        BY <2>1, <3>1 DEF BetsShape, BetSeeds
    <2>3. \A m \in GameModules : GamesOf(m) = {}
      BY DEF MinesInit, GamesOf
    <2>4. GamesShape
      <3>1. <<>> \in Seq(GameOver({}))
        OBVIOUS
      <3>2. games \in [GameModules -> Seq(GameOver({}))]
        BY <3>1 DEF MinesInit
      <3> QED
        BY <3>2 DEF GamesShape
    <2>5. BoardInv
      BY <2>1, <2>2, <2>3, <2>4 DEF BoardInv, BoardsApart, BoardHiddenWhileOpen
    <2>6. escrowed = [m \in Modules |-> [p \in Players |-> 0]]
      BY DEF MinesInit, Init
    <2>7. StakesShape
      BY <2>3, <2>6 DEF StakesShape
    <2>8. MinesRefundsMatchStakes
      <3>1. \A m \in GameModules, p \in Players :
               SumFunctionOnSet(KeptIn(games[m], p), 1..Len(games[m])) = 0
        BY <2>3, SumEmpty DEF GamesOf
      <3> QED
        BY GateAssumption, <2>6, <3>1, MinesBookSums DEF EntryModules
    <2> QED
      BY <2>5, <2>7, <2>8 DEF MinesInv, MinesBookInv
  <1>2. MinesInv /\ [MinesNext]_minesVars => MinesInv'
    <2> SUFFICES ASSUME MinesInv, [MinesNext]_minesVars PROVE MinesInv'
      OBVIOUS
    <2>1. CASE MinesStep
      BY <2>1, MinesStepKeepsInv
    <2>2. CASE VaultStep /\ UNCHANGED games
      <3>1. BoardInv'
        BY <2>2, VaultKeepsBoards DEF MinesInv
      <3>2. escrowed' = escrowed
        BY <2>2, VaultStepKeepsEscrow
      <3>3. MinesBookInv'
        BY <2>2, <3>2 DEF MinesInv, MinesBookInv, StakesShape, MinesRefundsMatchStakes, GamesOf
      <3> QED
        BY <3>1, <3>3 DEF MinesInv
    <2>3. CASE UNCHANGED minesVars
      <3>1. BoardInv'
        BY <2>3 DEF minesVars, vars, seedVars, betVars, MinesInv, BoardInv, GamesShape,
           BetsShape, BetSeeds, BoardsApart, HandedOut, GamesOf, BoardHiddenWhileOpen
      <3>2. MinesBookInv'
        BY <2>3 DEF minesVars, vars, histVars, MinesInv, MinesBookInv, StakesShape,
           MinesRefundsMatchStakes, GamesOf
      <3> QED
        BY <3>1, <3>2 DEF MinesInv
    <2> QED
      BY <2>1, <2>2, <2>3 DEF MinesNext
  <1> QED
    BY <1>1, <1>2, PTL DEF MinesSpec

\* The seed of a mines game, which is its whole board, is public exactly when the
\* game was finalized, after it was over and with the root committed: not through
\* a pick, a cash-out or a refund, nor through any bet or other game
\* (MinesModule.sol, with revealSeed of CasinoVault.sol).
THEOREM BoardsStayHidden == MinesSpec => []BoardHiddenWhileOpen
  <1>1. MinesInv => BoardHiddenWhileOpen
    BY DEF MinesInv, BoardInv
  <1> QED
    BY <1>1, MinesInvHolds, PTL

\* A mines module hands back a player's stake for a game that was voided, once
\* more for one whose committed root was exposed, and for no other: whatever
\* order cancelPick, cashout, resolveCell, commitRoot and finalize come in
\* (MinesModule.sol, with refundFromModule of CasinoVault.sol, which takes the
\* module's word for the amount).
THEOREM MinesRefundsMatch == MinesSpec => []MinesRefundsMatchStakes
  <1>1. MinesInv => MinesRefundsMatchStakes
    BY DEF MinesInv, MinesBookInv
  <1> QED
    BY <1>1, MinesInvHolds, PTL

-----------------------------------------------------------------------------
\* Slots

\* A spin whose player, stake and kind are typed, whatever its other fields are.
SpinOver(X) == [player : Players, amount : Nat, status : X, freeSpin : BOOLEAN,
                commitBlock : X, seedIdx : X, payout : X]

SpinsShape == \E X : spins \in [GameModules -> Seq(SpinOver(X))]

-----------------------------------------------------------------------------
\* Sequences of spins

\* A module's spins are a sequence; its length and its elements.
LEMMA SpinsFacts ==
    ASSUME NEW X, spins \in [GameModules -> Seq(SpinOver(X))],
           NEW m \in GameModules
    PROVE  /\ spins[m] \in Seq(SpinOver(X))
           /\ Len(spins[m]) \in Nat
           /\ DOMAIN spins[m] = 1..Len(spins[m])
           /\ \A id \in SpinsOf(m) : spins[m][id] \in SpinOver(X)
           /\ spins[m] # <<>> <=> Len(spins[m]) > 0
  <1>1. spins[m] \in Seq(SpinOver(X))
    OBVIOUS
  <1> QED
    BY <1>1 DEF SpinsOf

\* A spin made of a larger set of values.
LEMMA WidenSpins ==
    ASSUME NEW X, NEW Y, X \subseteq Y, NEW s \in Seq(SpinOver(X))
    PROVE  s \in Seq(SpinOver(Y))
  <1>1. \A r : r \in SpinOver(X) => r \in SpinOver(Y)
    BY DEF SpinOver
  <1> QED
    BY <1>1

\* One spin of one module is replaced by r.
SpinReplaced(m, id, r) ==
    /\ \E X : spins' \in [GameModules -> Seq(SpinOver(X))]
    /\ \A n \in GameModules : Len(spins'[n]) = Len(spins[n])
    /\ \A n \in GameModules : n # m => spins'[n] = spins[n]
    /\ spins'[m][id] = r
    /\ \A j \in SpinsOf(m) : j # id => spins'[m][j] = spins[m][j]

\* A step that replaces one spin of one module keeps the shape.
LEMMA ReplaceSpinShape ==
    ASSUME SpinsShape, NEW m \in GameModules, NEW id \in SpinsOf(m),
           NEW Y, NEW r \in SpinOver(Y),
           spins' = [spins EXCEPT ![m] = [spins[m] EXCEPT ![id] = r]]
    PROVE  SpinReplaced(m, id, r)
  <1>1. PICK X : spins \in [GameModules -> Seq(SpinOver(X))]
    BY DEF SpinsShape
  <1> DEFINE Z == X \cup Y
             s == [spins[m] EXCEPT ![id] = r]
  <1>2. \A n \in GameModules : spins[n] \in Seq(SpinOver(Z))
    <2> SUFFICES ASSUME NEW n \in GameModules PROVE spins[n] \in Seq(SpinOver(Z))
      OBVIOUS
    <2>1. spins[n] \in Seq(SpinOver(X)) /\ X \subseteq Z
      BY <1>1
    <2> QED
      BY <2>1, WidenSpins
  <1>3. r \in SpinOver(Z)
    BY DEF SpinOver
  <1> HIDE DEF Z
  <1>4. s \in Seq(SpinOver(Z)) /\ Len(s) = Len(spins[m])
    BY <1>2, <1>3, ExceptSeq DEF SpinsOf
  <1>5. /\ s[id] = r
        /\ \A j \in SpinsOf(m) : j # id => s[j] = spins[m][j]
    BY <1>1, SpinsFacts DEF SpinsOf
  <1> HIDE DEF s
  <1>6. spins' = [spins EXCEPT ![m] = s]
    BY DEF s
  <1>7. spins' \in [GameModules -> Seq(SpinOver(Z))]
    BY <1>1, <1>2, <1>4, <1>6
  <1>8. spins'[m] = s /\ \A n \in GameModules : n # m => spins'[n] = spins[n]
    BY <1>1, <1>6
  <1> QED
    BY <1>4, <1>5, <1>7, <1>8 DEF SpinReplaced

\* A step that appends a spin to one module's keeps the shape.
LEMMA AppendSpinShape ==
    ASSUME SpinsShape, NEW m \in GameModules, NEW Y, NEW r \in SpinOver(Y),
           spins' = [spins EXCEPT ![m] = Append(@, r)]
    PROVE  /\ \E X : spins' \in [GameModules -> Seq(SpinOver(X))]
           /\ \A n \in GameModules : n # m => spins'[n] = spins[n]
           /\ Len(spins'[m]) = Len(spins[m]) + 1
           /\ spins'[m][Len(spins[m]) + 1] = r
           /\ \A j \in SpinsOf(m) : spins'[m][j] = spins[m][j]
  <1>1. PICK X : spins \in [GameModules -> Seq(SpinOver(X))]
    BY DEF SpinsShape
  <1> DEFINE Z == X \cup Y
             s == Append(spins[m], r)
  <1>2. \A n \in GameModules : spins[n] \in Seq(SpinOver(Z))
    <2> SUFFICES ASSUME NEW n \in GameModules PROVE spins[n] \in Seq(SpinOver(Z))
      OBVIOUS
    <2>1. spins[n] \in Seq(SpinOver(X)) /\ X \subseteq Z
      BY <1>1
    <2> QED
      BY <2>1, WidenSpins
  <1>3. r \in SpinOver(Z)
    BY DEF SpinOver
  <1> HIDE DEF Z
  <1>4. /\ s \in Seq(SpinOver(Z))
        /\ Len(s) = Len(spins[m]) + 1
        /\ s[Len(spins[m]) + 1] = r
        /\ \A j \in SpinsOf(m) : s[j] = spins[m][j]
    BY <1>2, <1>3 DEF SpinsOf
  <1> HIDE DEF s
  <1>5. spins' = [spins EXCEPT ![m] = s]
    BY <1>1 DEF s
  <1>6. spins' \in [GameModules -> Seq(SpinOver(Z))]
    BY <1>1, <1>2, <1>4, <1>5
  <1>7. spins'[m] = s /\ \A n \in GameModules : n # m => spins'[n] = spins[n]
    BY <1>1, <1>5
  <1> QED
    BY <1>4, <1>6, <1>7


-----------------------------------------------------------------------------
\* Stakes and free spins: what one slot's spins keep of a player's

CashIn(list, p) == [id \in 1..Len(list) |-> CashKept(list[id], p)]
CashSum(list, p) == SumFunctionOnSet(CashIn(list, p), 1..Len(list))
FreeIn(list, p) == {id \in 1..Len(list) : StandsFree(list[id], p)}
FreeOne(s, p) == IF StandsFree(s, p) THEN 1 ELSE 0

LEMMA SpinKeeps ==
    ASSUME NEW X, NEW s \in SpinOver(X), NEW p
    PROVE  CashKept(s, p) \in Nat /\ FreeOne(s, p) \in {0, 1}
  BY DEF CashKept, FreeOne, SpinOver

LEMMA FreeCounts ==
    ASSUME NEW list, Len(list) \in Nat, NEW p
    PROVE  IsFiniteSet(FreeIn(list, p)) /\ Cardinality(FreeIn(list, p)) \in Nat
  <1>1. IsFiniteSet(1..Len(list)) /\ FreeIn(list, p) \subseteq 1..Len(list)
    BY FS_Interval DEF FreeIn
  <1> QED
    BY <1>1, FS_Subset, FS_CardinalityType

\* One slot's spins change by c in the money and by f in the free spins they
\* keep of each player's.
SpinsChange(m, c, f) ==
    /\ SpinsShape'
    /\ \A n \in GameModules : n # m => spins'[n] = spins[n]
    /\ \A p \in Players : CashSum(spins'[m], p) = CashSum(spins[m], p) + c[p]
    /\ \A p \in Players : Cardinality(FreeIn(spins'[m], p))
                             = Cardinality(FreeIn(spins[m], p)) + f[p]

\* A new spin adds what it keeps.
LEMMA SpinAppended ==
    ASSUME SpinsShape, NEW m \in GameModules, NEW Y, NEW r \in SpinOver(Y),
           spins' = [spins EXCEPT ![m] = Append(@, r)]
    PROVE  SpinsChange(m, [p \in Players |-> CashKept(r, p)], [p \in Players |-> FreeOne(r, p)])
  <1> DEFINE n == Len(spins[m])
             old == spins[m]
             new == spins'[m]
  <1>1. /\ \E X : spins' \in [GameModules -> Seq(SpinOver(X))]
        /\ \A o \in GameModules : o # m => spins'[o] = spins[o]
        /\ Len(new) = n + 1
        /\ new[n + 1] = r
        /\ \A j \in SpinsOf(m) : new[j] = old[j]
    BY ONLY SpinsShape, m \in GameModules, r \in SpinOver(Y),
            spins' = [spins EXCEPT ![m] = Append(@, r)], AppendSpinShape
  <1>2. PICK X : spins \in [GameModules -> Seq(SpinOver(X))]
    BY DEF SpinsShape
  <1>3. n \in Nat /\ \A j \in 1..n : old[j] \in SpinOver(X) /\ new[j] = old[j]
    BY <1>1, <1>2, SpinsFacts DEF SpinsOf
  <1> HIDE DEF n, old, new
  <1>4. ASSUME NEW p \in Players
        PROVE  CashSum(new, p) = CashSum(old, p) + CashKept(r, p)
    <2> DEFINE f == CashIn(old, p)
               g == CashIn(new, p)
    <2>1. \A j \in 1..n : f[j] = CashKept(old[j], p)
      BY DEF CashIn, n, old
    <2>2. \A j \in 1..(n + 1) : g[j] = CashKept(new[j], p)
      BY <1>1 DEF CashIn
    <2>3. \A j \in 1..(n + 1) : g[j] \in Int
      <3>1. \A j \in 1..n : CashKept(new[j], p) \in Nat
        BY <1>3, SpinKeeps
      <3>2. CashKept(new[n + 1], p) \in Nat
        BY <1>1, SpinKeeps
      <3> QED
        BY <1>3, <2>2, <3>1, <3>2
    <2>4. \A j \in 1..n : g[j] = f[j]
      BY <1>3, <2>1, <2>2
    <2>5. g[n + 1] = CashKept(r, p)
      BY <1>1, <1>3, <2>2
    <2>6. CashSum(new, p) = SumFunctionOnSet(g, 1..(n + 1))
          /\ CashSum(old, p) = SumFunctionOnSet(f, 1..n)
      BY <1>1 DEF CashSum, n, old
    <2> HIDE DEF f, g
    <2>7. SumFunctionOnSet(g, 1..(n + 1)) = SumFunctionOnSet(f, 1..n) + g[n + 1]
      BY ONLY <1>3, <2>3, <2>4, SumGrows
    <2> QED
      BY <2>5, <2>6, <2>7
  <1>5. ASSUME NEW p \in Players
        PROVE  Cardinality(FreeIn(new, p)) = Cardinality(FreeIn(old, p)) + FreeOne(r, p)
    <2>1. \A j : j \in FreeIn(new, p) <=> j \in FreeIn(old, p) \/ (j = n + 1 /\ StandsFree(r, p))
      BY <1>1, <1>3 DEF FreeIn, n, old
    <2>2. n + 1 \notin FreeIn(old, p)
      BY <1>3 DEF FreeIn, n, old
    <2>3. IsFiniteSet(FreeIn(old, p)) /\ Cardinality(FreeIn(old, p)) \in Nat
      BY <1>3, FreeCounts DEF n, old
    <2>4. CASE StandsFree(r, p)
      <3>1. FreeIn(new, p) = FreeIn(old, p) \cup {n + 1}
        BY <2>1, <2>4
      <3> QED
        BY <2>2, <2>3, <2>4, <3>1, FS_AddElement DEF FreeOne
    <2>5. CASE ~StandsFree(r, p)
      <3>1. FreeIn(new, p) = FreeIn(old, p)
        BY <2>1, <2>5
      <3> QED
        BY <2>3, <2>5, <3>1 DEF FreeOne
    <2> QED
      BY <2>4, <2>5
  <1> QED
    BY <1>1, <1>4, <1>5 DEF SpinsChange, SpinsShape, old, new

\* A spin that changes adds what it keeps less what it kept.
LEMMA SpinChanged ==
    ASSUME SpinsShape, NEW m \in GameModules, NEW id \in SpinsOf(m),
           NEW Y, NEW r \in SpinOver(Y),
           spins' = [spins EXCEPT ![m] = [spins[m] EXCEPT ![id] = r]]
    PROVE  SpinsChange(m, [p \in Players |-> CashKept(r, p) - CashKept(spins[m][id], p)],
                          [p \in Players |-> FreeOne(r, p) - FreeOne(spins[m][id], p)])
  <1> DEFINE n == Len(spins[m])
             old == spins[m]
             new == spins'[m]
  <1>1. /\ \E X : spins' \in [GameModules -> Seq(SpinOver(X))]
        /\ \A o \in GameModules : Len(spins'[o]) = Len(spins[o])
        /\ \A o \in GameModules : o # m => spins'[o] = spins[o]
        /\ new[id] = r
        /\ \A j \in SpinsOf(m) : j # id => new[j] = old[j]
    <2>1. SpinReplaced(m, id, r)
      BY ONLY SpinsShape, m \in GameModules, id \in SpinsOf(m), r \in SpinOver(Y),
              spins' = [spins EXCEPT ![m] = [spins[m] EXCEPT ![id] = r]],
              ReplaceSpinShape
    <2> QED
      BY <2>1 DEF SpinReplaced
  <1>2. PICK X : spins \in [GameModules -> Seq(SpinOver(X))]
    BY DEF SpinsShape
  <1>3. /\ n \in Nat /\ id \in 1..n /\ Len(new) = n
        /\ \A j \in 1..n : old[j] \in SpinOver(X)
        /\ \A j \in 1..n : j # id => new[j] = old[j]
    BY <1>1, <1>2, SpinsFacts DEF SpinsOf
  <1> HIDE DEF n, old, new
  <1>4. ASSUME NEW p \in Players
        PROVE  CashSum(new, p) = CashSum(old, p) + (CashKept(r, p) - CashKept(old[id], p))
    <2> DEFINE f == CashIn(old, p)
               g == CashIn(new, p)
    <2>1. \A j \in 1..n : f[j] = CashKept(old[j], p) /\ g[j] = CashKept(new[j], p)
      BY <1>3 DEF CashIn, n, old
    <2>2. \A j \in 1..n : CashKept(old[j], p) \in Nat
      BY <1>3, SpinKeeps
    <2>3. CashKept(r, p) \in Nat
      BY SpinKeeps
    <2>4. \A j \in 1..n : f[j] \in Int /\ g[j] \in Int
      BY <1>1, <1>3, <2>1, <2>2, <2>3
    <2>5. \A j \in (1..n) \ {id} : g[j] = f[j]
      BY <1>3, <2>1
    <2>6. CashSum(new, p) = SumFunctionOnSet(g, 1..n) /\ CashSum(old, p) = SumFunctionOnSet(f, 1..n)
      BY <1>3 DEF CashSum, n, old
    <2>7. IsFiniteSet(1..n)
      BY <1>3, FS_Interval
    <2>8. f[id] = CashKept(old[id], p) /\ g[id] = CashKept(r, p)
      BY <1>1, <1>3, <2>1
    <2> HIDE DEF f, g
    <2>9. SumFunctionOnSet(g, 1..n) = SumFunctionOnSet(f, 1..n) + g[id] - f[id]
      <3>1. DifferAt(f, g, 1..n, id)
        BY <1>3, <2>4, <2>5 DEF DifferAt
      <3> QED
        BY ONLY <2>7, <3>1, SumDiffer
    <2>10. SumFunctionOnSet(f, 1..n) \in Int
      BY <2>4, <2>7, SumIn
    <2>11. CashKept(old[id], p) \in Nat
      BY <1>3, <2>2
    <2> QED
      BY <2>3, <2>6, <2>8, <2>9, <2>10, <2>11
  <1>5. ASSUME NEW p \in Players
        PROVE  Cardinality(FreeIn(new, p))
                 = Cardinality(FreeIn(old, p)) + (FreeOne(r, p) - FreeOne(old[id], p))
    <2>1. \A j : j # id => (j \in FreeIn(new, p) <=> j \in FreeIn(old, p))
      BY <1>1, <1>3 DEF FreeIn, n, old
    <2>2. /\ id \in FreeIn(new, p) <=> StandsFree(r, p)
          /\ id \in FreeIn(old, p) <=> StandsFree(old[id], p)
      BY <1>1, <1>3 DEF FreeIn, n, old
    <2>3. IsFiniteSet(FreeIn(old, p)) /\ Cardinality(FreeIn(old, p)) \in Nat
      BY <1>3, FreeCounts DEF n, old
    <2>4. CASE StandsFree(r, p) /\ ~StandsFree(old[id], p)
      <3>1. FreeIn(new, p) = FreeIn(old, p) \cup {id}
        BY <2>1, <2>2, <2>4
      <3>2. Cardinality(FreeIn(new, p)) = Cardinality(FreeIn(old, p)) + 1
        BY <2>2, <2>3, <2>4, <3>1, FS_AddElement
      <3>3. FreeOne(r, p) = 1 /\ FreeOne(old[id], p) = 0
        BY <2>4 DEF FreeOne
      <3> QED
        BY <2>3, <3>2, <3>3
    <2>5. CASE ~StandsFree(r, p) /\ StandsFree(old[id], p)
      <3>1. FreeIn(new, p) = FreeIn(old, p) \ {id}
        BY <2>1, <2>2, <2>5
      <3>2. Cardinality(FreeIn(new, p)) = Cardinality(FreeIn(old, p)) - 1
        BY <2>2, <2>3, <2>5, <3>1, FS_RemoveElement
      <3>3. FreeOne(r, p) = 0 /\ FreeOne(old[id], p) = 1
        BY <2>5 DEF FreeOne
      <3> QED
        BY <3>2, <3>3, <2>3
    <2>6. CASE StandsFree(r, p) <=> StandsFree(old[id], p)
      <3>1. FreeIn(new, p) = FreeIn(old, p)
        BY <2>1, <2>2, <2>6
      <3>2. FreeOne(r, p) = FreeOne(old[id], p) /\ FreeOne(r, p) \in {0, 1}
        BY <2>6 DEF FreeOne
      <3> QED
        BY <2>3, <3>1, <3>2
    <2> QED
      BY <2>4, <2>5, <2>6
  <1> QED
    BY <1>1, <1>4, <1>5 DEF SpinsChange, SpinsShape, old, new

-----------------------------------------------------------------------------
\* The book of the slots and the loyalty counter they share

Loyalty == [total : Nat, earned : Nat, used : Nat]

LoyaltyShape ==
    /\ playerState \in [Players -> Loyalty]
    /\ escrowed \in [Modules -> [Players -> Int]]

SlotInv == SpinsShape /\ LoyaltyShape /\ FreeSpinsAddUp /\ SlotRefundsMatchStakes

\* The free spins each slot keeps of a player's.
FreeBy(p) == [m \in GameModules |-> Cardinality(FreeIn(spins[m], p))]

LEMMA SlotSums ==
    /\ SlotRefundsMatchStakes
         <=> \A m \in GameModules, p \in Players : escrowed[m][p] = CashSum(spins[m], p)
    /\ SlotRefundsMatchStakes'
         <=> \A m \in GameModules, p \in Players : escrowed'[m][p] = CashSum(spins'[m], p)
    /\ FreeSpinsAddUp
         <=> \A p \in Players :
                /\ playerState[p].used = SumFunctionOnSet(FreeBy(p), GameModules)
                /\ playerState[p].used <= playerState[p].earned
    /\ FreeSpinsAddUp'
         <=> \A p \in Players :
                /\ playerState'[p].used = SumFunctionOnSet(FreeBy(p)', GameModules)
                /\ playerState'[p].used <= playerState'[p].earned
  <1>1. /\ \A m, p : FreeStanding(m, p) = FreeIn(spins[m], p)
        /\ \A m, p : FreeStanding(m, p)' = FreeIn(spins'[m], p)
    BY DEF FreeStanding, FreeIn, SpinsOf
  <1> QED
    BY <1>1 DEF SlotRefundsMatchStakes, FreeSpinsAddUp, CashSum, CashIn, FreeBy,
       SumFunction, SpinsOf

LEMMA FreeByFacts ==
    ASSUME SpinsShape, NEW p
    PROVE  /\ IsFiniteSet(GameModules)
           /\ \A m \in GameModules : FreeBy(p)[m] \in Nat
  <1>1. IsFiniteSet(GameModules)
    BY GateAssumption, SlotAssumption, FS_Subset DEF EntryModules
  <1>2. PICK X : spins \in [GameModules -> Seq(SpinOver(X))]
    BY DEF SpinsShape
  <1>3. ASSUME NEW m \in GameModules PROVE FreeBy(p)[m] \in Nat
    <2>1. Len(spins[m]) \in Nat
      BY <1>2, SpinsFacts
    <2> QED
      BY <2>1, FreeCounts DEF FreeBy
  <1> QED
    BY <1>1, <1>3

\* A step that moves the escrow and the counter as it moves one slot's spins.
LEMMA SlotMoves ==
    ASSUME SlotInv, NEW m \in GameModules,
           NEW c \in [Players -> Int], NEW f \in [Players -> Int], SpinsChange(m, c, f),
           LoyaltyShape',
           \A o \in GameModules : o # m => escrowed'[o] = escrowed[o],
           \A p \in Players : escrowed'[m][p] = escrowed[m][p] + c[p],
           \A p \in Players : playerState'[p].used = playerState[p].used + f[p],
           \A p \in Players : playerState'[p].used <= playerState'[p].earned
    PROVE  SlotInv'
  <1>0. SpinsShape /\ SpinsShape' /\ \A o \in GameModules : o # m => spins'[o] = spins[o]
    BY DEF SlotInv, SpinsChange
  <1>1. SlotRefundsMatchStakes'
    <2> SUFFICES ASSUME NEW o \in GameModules, NEW p \in Players
                 PROVE  escrowed'[o][p] = CashSum(spins'[o], p)
      BY SlotSums
    <2>1. escrowed[o][p] = CashSum(spins[o], p)
      BY SlotSums DEF SlotInv
    <2>2. CASE o # m
      BY <1>0, <2>1, <2>2
    <2>3. CASE o = m
      BY <2>1, <2>3 DEF SpinsChange
    <2> QED
      BY <2>2, <2>3
  <1>2. FreeSpinsAddUp'
    <2> SUFFICES ASSUME NEW p \in Players
                 PROVE  playerState'[p].used = SumFunctionOnSet(FreeBy(p)', GameModules)
      BY SlotSums
    <2> DEFINE g == FreeBy(p)
               h == FreeBy(p)'
    <2>1. IsFiniteSet(GameModules) /\ \A o \in GameModules : g[o] \in Nat /\ h[o] \in Nat
      <3>1. IsFiniteSet(GameModules) /\ \A o \in GameModules : g[o] \in Nat
        BY <1>0, FreeByFacts
      <3>2. \A o \in GameModules : h[o] \in Nat
        <4>1. PICK X : spins' \in [GameModules -> Seq(SpinOver(X))]
          BY <1>0 DEF SpinsShape
        <4> TAKE o \in GameModules
        <4>2. spins'[o] \in Seq(SpinOver(X))
          BY <4>1
        <4>3. Len(spins'[o]) \in Nat
          BY <4>2
        <4>4. h[o] = Cardinality(FreeIn(spins'[o], p))
          BY DEF FreeBy
        <4> QED
          BY <4>3, <4>4, FreeCounts
      <3> QED
        BY <3>1, <3>2
    <2>2. DifferAt(g, h, GameModules, m)
      BY <1>0, <2>1 DEF DifferAt, FreeBy
    <2>3. h[m] = g[m] + f[p]
      BY DEF FreeBy, SpinsChange
    <2>4. playerState[p].used = SumFunctionOnSet(g, GameModules)
      BY SlotSums DEF SlotInv
    <2> HIDE DEF g, h
    <2>5. SumFunctionOnSet(h, GameModules) = SumFunctionOnSet(g, GameModules) + h[m] - g[m]
      BY ONLY <2>1, <2>2, SumDiffer
    <2>6. SumFunctionOnSet(g, GameModules) \in Int
      BY <2>1, SumIn
    <2>7. f[p] \in Int /\ g[m] \in Nat /\ h[m] \in Nat
      BY <2>1
    <2>8. SumFunctionOnSet(h, GameModules) = SumFunctionOnSet(g, GameModules) + f[p]
      BY <2>3, <2>5, <2>6, <2>7
    <2>9. playerState'[p].used = SumFunctionOnSet(h, GameModules)
      BY <2>4, <2>8
    <2> QED
      BY <2>9 DEF h
  <1> QED
    BY <1>0, <1>1, <1>2 DEF SlotInv

\* A player whose free spin stands has used one.
LEMMA StandingWasUsed ==
    ASSUME SlotInv, NEW m \in GameModules, NEW id \in SpinsOf(m),
           NEW p \in Players, StandsFree(spins[m][id], p)
    PROVE  playerState[p].used >= 1
  <1> DEFINE g == FreeBy(p)
  <1>0. SpinsShape
    BY DEF SlotInv
  <1>1. IsFiniteSet(GameModules) /\ \A o \in GameModules : g[o] \in Nat
    BY <1>0, FreeByFacts
  <1>2. PICK X : spins \in [GameModules -> Seq(SpinOver(X))]
    BY <1>0 DEF SpinsShape
  <1>3. Len(spins[m]) \in Nat /\ id \in FreeIn(spins[m], p)
    BY <1>2, SpinsFacts DEF FreeIn, SpinsOf
  <1>4. g[m] >= 1
    <2>1. IsFiniteSet(FreeIn(spins[m], p)) /\ Cardinality(FreeIn(spins[m], p)) \in Nat
      BY <1>3, FreeCounts
    <2>2. Cardinality(FreeIn(spins[m], p)) # 0
      BY <1>3, <2>1, FS_EmptySet
    <2> QED
      BY <2>1, <2>2 DEF FreeBy
  <1>5. playerState[p].used = SumFunctionOnSet(g, GameModules)
    BY SlotSums DEF SlotInv
  <1> HIDE DEF g
  <1>6. SumFunctionOnSet(g, GameModules) = g[m] + SumFunctionOnSet(g, GameModules \ {m})
    <2>1. \A o \in GameModules : g[o] \in Int
      BY <1>1
    <2> QED
      BY ONLY <1>1, <2>1, m \in GameModules, SumRemove
  <1>7. SumFunctionOnSet(g, GameModules \ {m}) \in Nat
    <2>1. IsFiniteSet(GameModules \ {m}) /\ \A o \in GameModules \ {m} : g[o] \in Nat
      BY <1>1, FS_RemoveElement
    <2> QED
      BY <2>1, SumIn
  <1> QED
    BY <1>1, <1>4, <1>5, <1>6, <1>7

-----------------------------------------------------------------------------
\* The steps of a slot

\* What a step does to a player's counter and to what the slots keep of theirs:
\* the player whose counter is written is the one whose spin it is.
LEMMA CounterWritten ==
    ASSUME LoyaltyShape, NEW q \in Players, NEW v \in Loyalty,
           playerState' = [playerState EXCEPT ![q] = v]
    PROVE  /\ playerState' \in [Players -> Loyalty]
           /\ playerState'[q] = v
           /\ \A p \in Players : p # q => playerState'[p] = playerState[p]
  BY DEF LoyaltyShape

\* A paid spin uses no free one, and what it earns is only added.
LEMMA RecordedUse ==
    ASSUME NEW s \in Loyalty, NEW stake \in Nat
    PROVE  /\ RecordSpin(s, stake) \in Loyalty
           /\ RecordSpin(s, stake).used = s.used
           /\ RecordSpin(s, stake).earned >= s.earned
  <1> DEFINE gain == IF (s.total + 1) % SPINS_PER_BONUS = 0 THEN FREE_SPINS_PER_BONUS ELSE 0
             t == s.total + 1
  <1>1. gain \in Nat /\ t \in Nat
    BY SlotAssumption DEF Loyalty
  <1>2. RecordSpin(s, stake) = IF stake < LOYALTY_MIN_STAKE THEN s
                               ELSE [s EXCEPT !.total = t, !.earned = s.earned + gain]
    BY DEF RecordSpin, Loyalty
  <1> HIDE DEF gain, t
  <1>3. s \in [total : Nat, earned : Nat, used : Nat]
    BY DEF Loyalty
  <1>4. CASE stake < LOYALTY_MIN_STAKE
    <2>1. RecordSpin(s, stake) = s
      BY <1>2, <1>4
    <2> QED
      BY <1>3, <2>1 DEF Loyalty
  <1>5. CASE ~(stake < LOYALTY_MIN_STAKE)
    <2> DEFINE e == s.earned + gain
    <2>1. e \in Nat /\ e >= s.earned
      BY <1>1, <1>3
    <2>2. RecordSpin(s, stake) = [s EXCEPT !.total = t, !.earned = e]
      BY <1>2, <1>5
    <2> HIDE DEF e
    <2>3. [s EXCEPT !.total = t] \in [total : Nat, earned : Nat, used : Nat]
      BY <1>1, <1>3
    <2> QED
      BY <1>1, <1>3, <2>1, <2>2, <2>3 DEF Loyalty
  <1> QED
    BY <1>4, <1>5

\* Giving a used free spin back takes one off.
LEMMA RestoredUse ==
    ASSUME NEW s \in Loyalty, NEW free \in BOOLEAN, free => s.used >= 1
    PROVE  /\ Restored(s, free) \in Loyalty
           /\ Restored(s, free).used = s.used - (IF free THEN 1 ELSE 0)
           /\ Restored(s, free).earned = s.earned
  <1>1. s \in [total : Nat, earned : Nat, used : Nat]
    BY DEF Loyalty
  <1>2. CASE free
    <2> DEFINE u == s.used - 1
    <2>1. u \in Nat /\ Floor0(u) = u
      BY <1>1, <1>2 DEF Floor0
    <2>2. Restored(s, free) = [s EXCEPT !.used = u]
      BY <1>2, <2>1 DEF Restored
    <2> QED
      BY <1>1, <1>2, <2>1, <2>2 DEF Loyalty
  <1>3. CASE ~free
    BY <1>1, <1>3 DEF Restored, Loyalty
  <1> QED
    BY <1>2, <1>3

LEMMA NewSpinKeeps ==
    ASSUME NEW p \in Players, NEW stake \in Nat, NEW free \in BOOLEAN
    PROVE  /\ NewSpin(p, stake, free) \in SpinOver({Pending, block, nextHashIndex, 0})
           /\ \A q \in Players :
                 /\ CashKept(NewSpin(p, stake, free), q) = IF q = p /\ ~free THEN stake ELSE 0
                 /\ FreeOne(NewSpin(p, stake, free), q) = IF q = p /\ free THEN 1 ELSE 0
  BY DEF NewSpin, SpinOver, CashKept, FreeOne, StandsFree, Pending, Refunded

LEMMA PlaceSpinKeepsSlots ==
    ASSUME SlotInv, NEW m \in GameModules, NEW p \in Players, NEW amount \in Stakes,
           PlaceSpin(m, p, amount)
    PROVE  SlotInv'
  <1> DEFINE r == NewSpin(p, amount, FALSE)
             v == RecordSpin(playerState[p], amount)
             c == [q \in Players |-> CashKept(r, q)]
             f == [q \in Players |-> FreeOne(r, q)]
             Y == {Pending, block, nextHashIndex, 0}
  <1>1. /\ spins' = [spins EXCEPT ![m] = Append(@, r)]
        /\ playerState' = [playerState EXCEPT ![p] = v]
        /\ escrowed' = [escrowed EXCEPT ![m][p] = @ + amount]
    BY DEF PlaceSpin, TakeStake
  <1>2. amount \in Nat /\ m \in Modules
    BY GateAssumption, ConstantsAssumption DEF EntryModules
  <1>3. r \in SpinOver(Y)
        /\ \A q \in Players : CashKept(r, q) = (IF q = p THEN amount ELSE 0) /\ FreeOne(r, q) = 0
    BY <1>2, NewSpinKeeps
  <1>4. SpinsShape /\ LoyaltyShape /\ playerState[p] \in Loyalty
    BY DEF SlotInv, LoyaltyShape
  <1>5. v \in Loyalty /\ v.used = playerState[p].used /\ v.earned >= playerState[p].earned
    BY <1>2, <1>4, RecordedUse
  <1> HIDE DEF r, v, Y
  <1>6. SpinsChange(m, c, f)
    BY ONLY <1>1, <1>3, <1>4, m \in GameModules, SpinAppended
  <1>7. /\ playerState' \in [Players -> Loyalty]
        /\ playerState'[p] = v
        /\ \A q \in Players : q # p => playerState'[q] = playerState[q]
    BY ONLY <1>1, <1>4, <1>5, p \in Players, CounterWritten
  <1>8. /\ escrowed' \in [Modules -> [Players -> Int]]
        /\ \A o \in GameModules : o # m => escrowed'[o] = escrowed[o]
        /\ \A q \in Players : escrowed'[m][q] = escrowed[m][q] + (IF q = p THEN amount ELSE 0)
    BY GateAssumption, <1>1, <1>2, <1>4 DEF LoyaltyShape, EntryModules
  <1>9. c \in [Players -> Int] /\ f \in [Players -> Int]
    BY <1>2, <1>3
  <1>10. \A q \in Players : /\ c[q] = (IF q = p THEN amount ELSE 0)
                            /\ f[q] = 0
    BY <1>3
  <1>11. \A q \in Players : /\ playerState[q] \in Loyalty
                            /\ playerState[q].used <= playerState[q].earned
    BY <1>4, SlotSums DEF SlotInv, LoyaltyShape
  <1>12. \A q \in Players : playerState'[q].used = playerState[q].used + f[q]
    BY <1>5, <1>7, <1>10, <1>11 DEF Loyalty
  <1>13. \A q \in Players : playerState'[q].used <= playerState'[q].earned
    BY <1>5, <1>7, <1>11 DEF Loyalty
  <1>14. LoyaltyShape'
    BY <1>7, <1>8 DEF LoyaltyShape
  <1>15. \A q \in Players : escrowed'[m][q] = escrowed[m][q] + c[q]
    BY <1>8, <1>10
  <1> HIDE DEF c, f
  <1> QED
    BY <1>6, <1>8, <1>9, <1>12, <1>13, <1>14, <1>15, SlotMoves

LEMMA PlaceFreeSpinKeepsSlots ==
    ASSUME SlotInv, NEW m \in GameModules, NEW p \in Players, PlaceFreeSpin(m, p)
    PROVE  SlotInv'
  <1> DEFINE r == NewSpin(p, FREE_SPIN_REFERENCE_STAKE, TRUE)
             v == [playerState[p] EXCEPT !.used = @ + 1]
             c == [q \in Players |-> CashKept(r, q)]
             f == [q \in Players |-> FreeOne(r, q)]
             Y == {Pending, block, nextHashIndex, 0}
  <1>1. /\ spins' = [spins EXCEPT ![m] = Append(@, r)]
        /\ playerState' = [playerState EXCEPT ![p].used = @ + 1]
        /\ UNCHANGED escrowed
        /\ Available(p) > 0
    BY DEF PlaceFreeSpin, ModuleReserveSeed, histVars
  <1>2. r \in SpinOver(Y)
        /\ \A q \in Players : CashKept(r, q) = 0 /\ FreeOne(r, q) = IF q = p THEN 1 ELSE 0
    <2>1. FREE_SPIN_REFERENCE_STAKE \in Nat
      BY SlotAssumption
    <2> HIDE DEF r, v, c, f
    <2>2. /\ r \in SpinOver(Y)
          /\ \A q \in Players :
                /\ CashKept(r, q) = IF q = p /\ ~TRUE
                                   THEN FREE_SPIN_REFERENCE_STAKE ELSE 0
                /\ FreeOne(r, q) = IF q = p /\ TRUE THEN 1 ELSE 0
      BY <2>1, NewSpinKeeps DEF r
    <2> QED
      BY <2>2
  <1>3. SpinsShape /\ LoyaltyShape
        /\ \A q \in Players : /\ playerState[q] \in Loyalty
                              /\ playerState[q].used <= playerState[q].earned
    BY SlotSums DEF SlotInv, LoyaltyShape
  <1>4. v \in Loyalty /\ v.used = playerState[p].used + 1 /\ v.earned = playerState[p].earned
    BY <1>3 DEF Loyalty
  <1>5. playerState[p].used < playerState[p].earned
    BY <1>1, <1>3 DEF Available, Floor0, Loyalty
  <1>6. playerState' = [playerState EXCEPT ![p] = v]
    BY <1>1, <1>3 DEF LoyaltyShape
  <1> HIDE DEF r, v, Y
  <1>7. SpinsChange(m, c, f)
    BY ONLY <1>1, <1>2, <1>3, m \in GameModules, SpinAppended
  <1>8. /\ playerState' \in [Players -> Loyalty]
        /\ playerState'[p] = v
        /\ \A q \in Players : q # p => playerState'[q] = playerState[q]
    BY ONLY <1>6, <1>3, <1>4, p \in Players, CounterWritten
  <1>9. c \in [Players -> Int] /\ f \in [Players -> Int]
    BY <1>2
  <1>10. \A q \in Players : c[q] = 0 /\ f[q] = IF q = p THEN 1 ELSE 0
    BY <1>2
  <1>11. \A q \in Players : playerState'[q].used = playerState[q].used + f[q]
    BY <1>3, <1>4, <1>8, <1>10 DEF Loyalty
  <1>12. \A q \in Players : playerState'[q].used <= playerState'[q].earned
    BY <1>3, <1>4, <1>5, <1>8 DEF Loyalty
  <1>13. LoyaltyShape'
    BY <1>1, <1>3, <1>8 DEF LoyaltyShape
  <1>14. \A q \in Players : escrowed'[m][q] = escrowed[m][q] + c[q]
    BY GateAssumption, <1>1, <1>3, <1>10 DEF LoyaltyShape, EntryModules
  <1> HIDE DEF c, f
  <1> QED
    BY <1>1, <1>7, <1>9, <1>11, <1>12, <1>13, <1>14, SlotMoves

\* A settled spin keeps what it kept as an open one.
LEMMA SettleSpinKeepsSlots ==
    ASSUME SlotInv, NEW m \in GameModules, NEW id \in SpinsOf(m), NEW pay, NEW crosses,
           NEW mult, SettleSpin(m, id, pay, crosses, mult)
    PROVE  SlotInv'
  <1>1. PICK X : spins \in [GameModules -> Seq(SpinOver(X))]
    BY DEF SlotInv, SpinsShape
  <1> DEFINE s == spins[m][id]
             amount == CreditedAmount(ledger, GameOf[m],
                           Smaller((s.amount * pay) \div 100, MaxPayout(m, s.amount)))
             r == MarkPaid(s, amount)
             Y == X \cup {Settled, amount}
             c == [q \in Players |-> CashKept(r, q) - CashKept(s, q)]
             f == [q \in Players |-> FreeOne(r, q) - FreeOne(s, q)]
  <1>2. s \in SpinOver(X) /\ s.status = Pending
    BY <1>1, SpinsFacts DEF SettleSpin
  <1> HIDE DEF amount
  <1>3. /\ r \in SpinOver(Y) /\ r.status = Settled /\ r.player = s.player
        /\ r.amount = s.amount /\ r.freeSpin = s.freeSpin
    BY <1>2 DEF SpinOver, MarkPaid
  <1>4. spins' = [spins EXCEPT ![m][id] = r] /\ UNCHANGED <<escrowed, playerState>>
    BY DEF SettleSpin, amount, histVars, loyaltyVars
  <1>5. spins' = [spins EXCEPT ![m] = [spins[m] EXCEPT ![id] = r]]
    BY <1>1, <1>4
  <1>6. SpinsShape /\ LoyaltyShape
        /\ \A q \in Players : /\ playerState[q] \in Loyalty
                              /\ playerState[q].used <= playerState[q].earned
    BY SlotSums DEF SlotInv, LoyaltyShape
  <1>7. \A q \in Players : /\ CashKept(r, q) = CashKept(s, q) /\ CashKept(s, q) \in Nat
                           /\ FreeOne(r, q) = FreeOne(s, q) /\ FreeOne(s, q) \in {0, 1}
    BY <1>2, <1>3, SpinKeeps DEF CashKept, FreeOne, StandsFree, Pending, Settled, Refunded
  <1> HIDE DEF r, Y
  <1>8. SpinsChange(m, c, f)
    BY ONLY <1>3, <1>5, <1>6, m \in GameModules, id \in SpinsOf(m), SpinChanged
  <1> HIDE DEF s
  <1>9. /\ c \in [Players -> Int] /\ f \in [Players -> Int]
        /\ \A q \in Players : c[q] = 0 /\ f[q] = 0
    BY <1>7
  <1> HIDE DEF c, f
  <1>10. /\ LoyaltyShape'
         /\ \A o \in GameModules : o # m => escrowed'[o] = escrowed[o]
         /\ \A q \in Players : escrowed'[m][q] = escrowed[m][q] + c[q]
         /\ \A q \in Players : playerState'[q].used = playerState[q].used + f[q]
         /\ \A q \in Players : playerState'[q].used <= playerState'[q].earned
    BY GateAssumption, <1>4, <1>6, <1>9 DEF LoyaltyShape, Loyalty, EntryModules
  <1> QED
    BY <1>8, <1>9, <1>10, SlotMoves

\* A refund gives back what the spin kept: the stake, or the free spin.
LEMMA RefundSpinKeepsSlots ==
    ASSUME SlotInv, NEW m \in GameModules, NEW id \in SpinsOf(m), RefundSpin(m, id)
    PROVE  SlotInv'
  <1>1. PICK X : spins \in [GameModules -> Seq(SpinOver(X))]
    BY DEF SlotInv, SpinsShape
  <1> DEFINE s == spins[m][id]
             r == [s EXCEPT !.status = Refunded]
             v == Restored(playerState[s.player], s.freeSpin)
             Y == X \cup {Refunded}
             c == [q \in Players |-> CashKept(r, q) - CashKept(s, q)]
             f == [q \in Players |-> FreeOne(r, q) - FreeOne(s, q)]
  <1>2. s \in SpinOver(X) /\ s.status = Pending
    BY <1>1, SpinsFacts DEF RefundSpin, RefundDue
  <1>3. r \in SpinOver(Y) /\ r.status = Refunded
    BY <1>2 DEF SpinOver
  <1>4. /\ s.player \in Players /\ s.amount \in Nat /\ s.freeSpin \in BOOLEAN
    BY <1>2 DEF SpinOver
  <1>5. /\ spins' = [spins EXCEPT ![m] = [spins[m] EXCEPT ![id] = r]]
        /\ playerState' = [playerState EXCEPT ![s.player] = v]
    BY <1>1 DEF RefundSpin
  <1>6. SpinsShape /\ LoyaltyShape
        /\ \A q \in Players : /\ playerState[q] \in Loyalty
                              /\ playerState[q].used <= playerState[q].earned
    BY SlotSums DEF SlotInv, LoyaltyShape
  <1>7. \A q \in Players :
           /\ CashKept(r, q) = 0 /\ FreeOne(r, q) = 0
           /\ CashKept(s, q) = IF q = s.player /\ ~s.freeSpin THEN s.amount ELSE 0
           /\ FreeOne(s, q) = IF q = s.player /\ s.freeSpin THEN 1 ELSE 0
    BY <1>2, <1>3 DEF CashKept, FreeOne, StandsFree, Pending, Refunded
  <1>8. s.freeSpin => playerState[s.player].used >= 1
    <2> SUFFICES ASSUME s.freeSpin PROVE playerState[s.player].used >= 1
      OBVIOUS
    <2>1. StandsFree(spins[m][id], s.player)
      BY <1>2 DEF StandsFree, Pending, Refunded
    <2> QED
      BY <1>4, <2>1, StandingWasUsed
  <1>9. /\ v \in Loyalty /\ v.earned = playerState[s.player].earned
        /\ v.used = playerState[s.player].used - (IF s.freeSpin THEN 1 ELSE 0)
    BY <1>4, <1>6, <1>8, RestoredUse
  <1> HIDE DEF r, Y, v
  <1>10. SpinsChange(m, c, f)
    BY ONLY <1>3, <1>5, <1>6, m \in GameModules, id \in SpinsOf(m), SpinChanged
  <1>11. /\ playerState' \in [Players -> Loyalty]
         /\ playerState'[s.player] = v
         /\ \A q \in Players : q # s.player => playerState'[q] = playerState[q]
    <2> HIDE DEF s
    <2> QED
      BY ONLY <1>4, <1>5, <1>6, <1>9, CounterWritten
  <1>12. /\ escrowed' \in [Modules -> [Players -> Int]]
         /\ \A o \in GameModules : o # m => escrowed'[o] = escrowed[o]
         /\ \A q \in Players : escrowed'[m][q]
               = escrowed[m][q] - (IF q = s.player /\ ~s.freeSpin THEN s.amount ELSE 0)
    <2>0. escrowed \in [Modules -> [Players -> Int]] /\ m \in Modules
      BY GateAssumption, <1>6 DEF LoyaltyShape, EntryModules
    <2>1. CASE s.freeSpin
      <3>1. UNCHANGED escrowed
        BY <2>1 DEF RefundSpin, RefundedInCash, histVars
      <3> QED
        BY <2>0, <2>1, <3>1
    <2>2. CASE ~s.freeSpin
      <3>1. escrowed' = [escrowed EXCEPT ![m][s.player] = @ - s.amount]
        BY <2>2 DEF RefundSpin, RefundedInCash, GiveBack
      <3> HIDE DEF s
      <3> QED
        BY GateAssumption, <1>4, <2>0, <2>2, <3>1 DEF EntryModules
    <2> QED
      BY <1>4, <2>1, <2>2
  <1> HIDE DEF s
  <1>13. /\ c \in [Players -> Int] /\ f \in [Players -> Int]
         /\ \A q \in Players :
               /\ c[q] = 0 - (IF q = s.player /\ ~s.freeSpin THEN s.amount ELSE 0)
               /\ f[q] = 0 - (IF q = s.player /\ s.freeSpin THEN 1 ELSE 0)
    BY <1>4, <1>7
  <1> HIDE DEF c, f
  <1>14. LoyaltyShape'
    BY <1>11, <1>12 DEF LoyaltyShape
  <1>15. \A q \in Players : escrowed'[m][q] = escrowed[m][q] + c[q]
    <2>1. \A q \in Players : escrowed[m][q] \in Int
      BY GateAssumption, <1>6 DEF LoyaltyShape, EntryModules
    <2> QED
      BY <1>4, <1>12, <1>13, <2>1
  <1>16. \A q \in Players : playerState'[q].used = playerState[q].used + f[q]
    BY <1>4, <1>6, <1>9, <1>11, <1>13 DEF Loyalty
  <1>17. \A q \in Players : playerState'[q].used <= playerState'[q].earned
    BY <1>4, <1>6, <1>9, <1>11 DEF Loyalty
  <1> QED
    BY <1>10, <1>12, <1>13, <1>14, <1>15, <1>16, <1>17, SlotMoves

LEMMA IdleKeepsSlots ==
    ASSUME SlotInv, UNCHANGED <<spins, playerState, escrowed>> PROVE SlotInv'
  BY DEF SlotInv, SpinsShape, LoyaltyShape, FreeSpinsAddUp, FreeStanding,
     SlotRefundsMatchStakes, SpinsOf

LEMMA SlotInvHolds == SlotSpec => []SlotInv
  <1>1. SlotInit => SlotInv
    <2> SUFFICES ASSUME SlotInit PROVE SlotInv
      OBVIOUS
    <2>1. /\ spins = [m \in GameModules |-> <<>>]
          /\ playerState = [p \in Players |-> [total |-> 0, earned |-> 0, used |-> 0]]
          /\ escrowed = [m \in Modules |-> [p \in Players |-> 0]]
      BY DEF SlotInit, Init
    <2>2. SpinsShape
      <3>1. <<>> \in Seq(SpinOver({}))
        OBVIOUS
      <3>2. spins \in [GameModules -> Seq(SpinOver({}))]
        BY <2>1, <3>1
      <3> QED
        BY <3>2 DEF SpinsShape
    <2>3. LoyaltyShape
      BY <2>1 DEF LoyaltyShape, Loyalty
    <2>4. \A m \in GameModules : 1..Len(spins[m]) = {}
      BY <2>1
    <2>5. SlotRefundsMatchStakes
      <3>1. \A m \in GameModules, p \in Players : CashSum(spins[m], p) = 0
        BY <2>4, SumEmpty DEF CashSum
      <3> QED
        BY GateAssumption, <2>1, <3>1, SlotSums DEF EntryModules
    <2>6. FreeSpinsAddUp
      <3> SUFFICES ASSUME NEW p \in Players
                   PROVE  SumFunctionOnSet(FreeBy(p), GameModules) = 0
        BY <2>1, SlotSums
      <3>1. \A m \in GameModules : FreeBy(p)[m] = 0
        <4> TAKE m \in GameModules
        <4>1. FreeIn(spins[m], p) = {}
          BY <2>4 DEF FreeIn
        <4> QED
          BY <4>1, FS_EmptySet DEF FreeBy
      <3>2. IsFiniteSet(GameModules)
        BY <2>2, FreeByFacts
      <3>3. SumFunctionOnSet(FreeBy(p), GameModules) = SumFunctionOnSet(FreeBy(p), {})
        BY <3>1, <3>2, SumZeros
      <3> QED
        BY <3>3, SumEmpty
    <2> QED
      BY <2>2, <2>3, <2>5, <2>6 DEF SlotInv
  <1>2. SlotInv /\ [SlotNext]_slotVars => SlotInv'
    <2> SUFFICES ASSUME SlotInv, [SlotNext]_slotVars PROVE SlotInv'
      OBVIOUS
    <2>1. ASSUME NEW m \in GameModules, NEW x \in MaxMults, SetMaxMult(m, x)
          PROVE  SlotInv'
      BY <2>1, IdleKeepsSlots DEF SetMaxMult, vars, histVars, loyaltyVars
    <2>2. ASSUME NEW m \in GameModules, NEW allowed \in BOOLEAN, SetModule(m, allowed)
          PROVE  SlotInv'
      BY <2>2, IdleKeepsSlots DEF SetModule, vars, histVars
    <2>3. ASSUME NEW m \in GameModules, NEW p \in Players, ClaimChargeReward(m, p)
          PROVE  SlotInv'
      BY <2>3, IdleKeepsSlots DEF ClaimChargeReward, ModuleCredit, histVars, loyaltyVars
    <2>4. CASE SlotStep
      BY <2>1, <2>2, <2>3, <2>4, PlaceSpinKeepsSlots, PlaceFreeSpinKeepsSlots,
         SettleSpinKeepsSlots, RefundSpinKeepsSlots DEF SlotStep
    <2>5. CASE VaultStep /\ UNCHANGED <<spins, maxMult, loyaltyVars, chargeVars>>
      BY <2>5, VaultStepKeepsEscrow, IdleKeepsSlots DEF loyaltyVars
    <2>6. CASE UNCHANGED slotVars
      BY <2>6, IdleKeepsSlots DEF slotVars, vars, histVars, loyaltyVars
    <2> QED
      BY <2>4, <2>5, <2>6 DEF SlotNext
  <1> QED
    BY <1>1, <1>2, PTL DEF SlotSpec

\* The free spins a player used are those that stand in either slot, open or
\* settled, and no more than were earned, whatever order spins are placed,
\* settled and refunded in on the slots that share the counter (recordSpin,
\* useFreeSpin and restoreFreeSpin of SlotLoyalty.sol, called by SlotBase.sol).
THEOREM FreeSpinsAddUpHolds == SlotSpec => []FreeSpinsAddUp
  <1>1. SlotInv => FreeSpinsAddUp
    BY DEF SlotInv
  <1> QED
    BY <1>1, SlotInvHolds, PTL

\* A slot hands back in cash the stake of a paid spin that expired, once, and
\* nothing for a free spin, whose stake was never paid (SlotBase.sol, with
\* refundFromModule of CasinoVault.sol, which takes the module's word).
THEOREM SlotRefundsMatch == SlotSpec => []SlotRefundsMatchStakes
  <1>1. SlotInv => SlotRefundsMatchStakes
    BY DEF SlotInv
  <1> QED
    BY <1>1, SlotInvHolds, PTL

=============================================================================
