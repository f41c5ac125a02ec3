-------------------------- MODULE RevealBotProofs --------------------------
(***************************************************************************)
(* What TLAPS proves of RevealBot, for any number of games of any kind,    *)
(* any number of items, blocks and faults: nothing that is owed is         *)
(* forgotten, and the book every contract keeps is the one BetBook         *)
(* promises.                                                               *)
(***************************************************************************)
EXTENDS RevealBot, SequenceTheorems, WellFoundedInduction, TLAPS

-----------------------------------------------------------------------------
\* The inductive invariant

BetCalls   == {"refundExpired", "refundRound", "revealAndSettle", "settleSpin", "settleRound"}
MinesCalls == {"commitRoot", "resolveCell", "finalize"}
CallsOf(k) == IF k = "mines" THEN MinesCalls ELSE BetCalls

Statuses == {"open", "settled", "refunded"}
ItemSet  == [game : Games \cup OtherGames, commit : Nat, status : Statuses, closes : Nat,
             root : BOOLEAN, picking : BOOLEAN, picks : Nat, finalized : BOOLEAN]

\* The state without what only decides when a step happens: the lanes' nonces
\* and counters are free.
BotTypeOK ==
    /\ kind \in [Games -> Kinds]
    /\ head \in Nat
    /\ items \in [Books -> Seq(ItemSet)]
    /\ DOMAIN pool = Games /\ DOMAIN work = Games
    /\ cursor \in [Games -> Nat]
    /\ floor \in [Games -> Nat]
    /\ pending \in [Games -> SUBSET Nat]
    /\ todo \in [Games -> SUBSET Nat]

\* Only a mines game has a root, a pick waits only for a game that has one, and
\* only a decided game is finalized.
Shaped(b, item) ==
    /\ item.root => b \in Games /\ kind[b] = "mines"
    /\ item.picking => item.root
    /\ item.finalized => item.status # "open"

ItemsShaped == \A b \in Books : \A id \in 1..Len(items[b]) : Shaped(b, items[b][id])

\* Done for good: unlike Owed, this never becomes false again.  A mines game
\* between two picks is owed nothing, and the next pick makes it owed again.
DoneAt(g, id) == IF kind[g] = "mines" THEN Item(g, id).finalized
                                      ELSE Item(g, id).status # "open"

\* What the mempool holds is about items of the wallet's game.
PoolsSound ==
    \A g \in Games : \A n \in DOMAIN pool[g] :
        /\ pool[g][n].id \in 1..Total(g)
        /\ pool[g][n].call \in CallsOf(kind[g])

\* A job is about an item of its game; while it waits its own transaction is in
\* the mempool, and once a last call is mined its item is done.
JobSound(g, id) ==
    LET job == work[g][id]
    IN  /\ id \in 1..Total(g)
        /\ job = [pc |-> job.pc, call |-> job.call, nonce |-> job.nonce]
        /\ job.call \in CallsOf(kind[g])
        /\ job.pc = "wait" => /\ job.nonce \in DOMAIN pool[g]
                              /\ pool[g][job.nonce].id = id
                              /\ pool[g][job.nonce].call = job.call
        /\ job.pc = "mined" /\ job.call \in LastCalls => DoneAt(g, id)

JobsSound == \A g \in Games : \A id \in DOMAIN work[g] : JobSound(g, id)

\* The bot's memory is of ids that exist.
MemorySound ==
    \A g \in Games : /\ cursor[g] <= Total(g) + 1
                     /\ pending[g] \subseteq 1..Total(g)
                     /\ todo[g] \subseteq 1..Total(g)

\* NothingForgotten, of everything that is not done.
UndoneIsPending ==
    \A g \in Games : \A id \in 1..Total(g) :
        /\ Item(g, id).game = g /\ ~DoneAt(g, id)
        /\ floor[g] <= id /\ id < cursor[g]
        => id \in pending[g]

BotInv ==
    /\ BotTypeOK /\ ItemsShaped /\ PoolsSound /\ JobsSound /\ MemorySound
    /\ UndoneIsPending

-----------------------------------------------------------------------------
\* Lemmas about the operators

LEMMA MinFacts ==
  ASSUME NEW S \in SUBSET Nat, S # {}
  PROVE  Min(S) \in S /\ \A y \in S : Min(S) <= y
  <1> DEFINE R == OpToRel(<, Nat)
  <1>1. \A x, y \in Nat : y < x => <<y, x>> \in R
    BY DEF OpToRel
  <1>2. IsWellFoundedOn(R, Nat)
    BY NatLessThanWellFounded
  <1> HIDE DEF R
  <1>3. PICK x \in S : \A y \in S : ~ (<<y, x>> \in R)
    BY <1>2, WFMin
  <1>4. ASSUME NEW y \in S PROVE x <= y
    <2>1. x \in Nat /\ y \in Nat
      OBVIOUS
    <2>2. ~ (y < x)
      BY <1>1, <1>3, <2>1
    <2> QED
      BY <2>1, <2>2
  <1> QED
    BY <1>4 DEF Min

\* Where a fresh bot starts: at an id, whatever the total.
LEMMA MaxWithOne ==
  ASSUME NEW x \in Int
  PROVE  Max({1, x}) \in Nat /\ 1 <= Max({1, x})
  <1>1. \E y \in {1, x} : \A z \in {1, x} : y >= z
    <2>1. CASE x <= 1
      BY <2>1
    <2>2. CASE x > 1
      BY <2>2
    <2> QED
      BY <2>1, <2>2
  <1>2. Max({1, x}) \in {1, x} /\ \A z \in {1, x} : Max({1, x}) >= z
    BY <1>1 DEF Max
  <1>3. Max({1, x}) \in Int /\ Max({1, x}) >= 1
    BY <1>2
  <1> QED
    BY <1>3

LEMMA BookFacts ==
  ASSUME RevealBotConstants, BotTypeOK, NEW g \in Games
  PROVE  /\ BookOf(g) \in Books
         /\ items[BookOf(g)] \in Seq(ItemSet)
         /\ Total(g) = Len(items[BookOf(g)])
         /\ Total(g) \in Nat
         /\ \A id \in 1..Total(g) : /\ Item(g, id) = items[BookOf(g)][id]
                                    /\ Item(g, id) \in ItemSet
         /\ kind[g] \in {"single", "slot", "mines", "round"}
         /\ kind[g] = "mines" => BookOf(g) = g
         /\ g # Vault
  <1>1. BookOf(g) \in Books /\ (kind[g] = "mines" => BookOf(g) = g)
    BY DEF BookOf, Books
  <1>2. items[BookOf(g)] \in Seq(ItemSet)
    BY <1>1 DEF BotTypeOK
  <1>3. \A id \in 1..Len(items[BookOf(g)]) : items[BookOf(g)][id] \in ItemSet
    BY <1>2, ElementOfSeq
  <1>4. Len(items[BookOf(g)]) \in Nat
    BY <1>2, LenProperties
  <1>5. kind[g] \in {"single", "slot", "mines", "round"} /\ g # Vault
    BY DEF BotTypeOK, RevealBotConstants
  <1> QED
    BY <1>1, <1>2, <1>3, <1>4, <1>5 DEF Total, Item

\* In a game that is not a mines game nothing has a root, waits for a pick or is
\* finalized only to be undone: a decided item is done.
LEMMA ShapeFacts ==
  ASSUME RevealBotConstants, BotTypeOK, ItemsShaped, NEW g \in Games, NEW id \in 1..Total(g)
  PROVE  /\ Item(g, id).picking => Item(g, id).root
         /\ Item(g, id).finalized => Item(g, id).status # "open"
         /\ kind[g] # "mines" => ~Item(g, id).root
  <1>1. Shaped(BookOf(g), items[BookOf(g)][id]) /\ Item(g, id) = items[BookOf(g)][id]
    BY BookFacts DEF ItemsShaped
  <1>2. kind[g] # "mines" => ~(BookOf(g) \in Games /\ kind[BookOf(g)] = "mines")
    BY DEF BookOf, RevealBotConstants
  <1> QED
    BY <1>1, <1>2 DEF Shaped

\* What a call that does not revert makes of an item.
LEMMA OutcomeFacts ==
  ASSUME RevealBotConstants, head \in Nat, NEW item \in ItemSet, NEW b, Shaped(b, item),
         NEW k, NEW call \in CallsOf(k),
         k = "mines" => b \in Games /\ kind[b] = "mines",
         ~Reverts(call, item), NEW after \in Outcomes(call, item)
  PROVE  /\ after \in ItemSet
         /\ Shaped(b, after)
         /\ after.game = item.game
         /\ item.status # "open" => after.status = item.status
         /\ item.finalized => after.finalized
         /\ call \in LastCalls /\ k = "mines" => after.finalized
         /\ call \in LastCalls /\ k # "mines" => after.status # "open"
  <1>1. CASE call \in {"refundExpired", "refundRound"}
    <2>1. after = [item EXCEPT !.status = "refunded"]
      BY <1>1 DEF Outcomes
    <2>2. item.status = "open" /\ k # "mines"
      BY <1>1 DEF Reverts, CallsOf, MinesCalls
    <2> QED
      BY <2>1, <2>2 DEF ItemSet, Shaped, Statuses
  <1>2. CASE call \in {"revealAndSettle", "settleSpin", "settleRound"}
    <2>1. PICK s \in {"refunded", "settled"} : after = [item EXCEPT !.status = s]
      BY <1>2 DEF Outcomes
    <2>2. item.status = "open" /\ k # "mines"
      BY <1>2 DEF Reverts, CallsOf, MinesCalls
    <2> QED
      BY <2>1, <2>2 DEF ItemSet, Shaped, Statuses
  <1>3. CASE call = "commitRoot"
    <2>1. \/ after = [item EXCEPT !.status = "refunded"]
          \/ after = [item EXCEPT !.root = TRUE]
      BY <1>3 DEF Outcomes
    <2>2. item.status = "open" /\ ~item.root /\ k = "mines" /\ call \notin LastCalls
      BY <1>3 DEF Reverts, CallsOf, BetCalls, LastCalls
    <2> QED
      BY <2>1, <2>2 DEF ItemSet, Shaped, Statuses
  <1>4. CASE call = "resolveCell"
    <2>1. \/ after = [item EXCEPT !.picking = FALSE]
          \/ after = [item EXCEPT !.picking = FALSE, !.status = "settled"]
      BY <1>4 DEF Outcomes
    <2>2. item.status = "open" /\ k = "mines" /\ call \notin LastCalls
      BY <1>4 DEF Reverts, CallsOf, BetCalls, LastCalls
    <2> QED
      BY <2>1, <2>2 DEF ItemSet, Shaped, Statuses
  <1>5. CASE call = "finalize"
    <2>1. after = [item EXCEPT !.finalized = TRUE]
      BY <1>5 DEF Outcomes
    <2>2. item.status # "open" /\ k = "mines"
      BY <1>5 DEF Reverts, CallsOf, BetCalls
    <2> QED
      BY <2>1, <2>2 DEF ItemSet, Shaped, Statuses
  <1> QED
    BY <1>1, <1>2, <1>3, <1>4, <1>5 DEF CallsOf, BetCalls, MinesCalls

\* A job sends what its kind of game needs, and drops only what is done or is
\* another game's.
LEMMA DecisionFacts ==
  ASSUME RevealBotConstants, BotTypeOK, NEW g \in Games, NEW item
  PROVE  /\ Decision(g, item) \in {"drop", "keep"} \cup CallsOf(kind[g])
         /\ Decision(g, item) = "drop" =>
                kind[g] # "mines" /\ (item.game # g \/ item.status # "open")
  <1>1. CASE kind[g] \in {"single", "slot"}
    <2>1. Decision(g, item) = ShotDecision(g, item)
      BY <1>1 DEF Decision
    <2>2. ShotDecision(g, item) \in {"drop", "keep", "refundExpired", "revealAndSettle", "settleSpin"}
      BY DEF ShotDecision
    <2>3. ShotDecision(g, item) = "drop" => item.game # g \/ item.status # "open"
      BY DEF ShotDecision
    <2> QED
      BY <1>1, <2>1, <2>2, <2>3 DEF CallsOf, BetCalls
  <1>2. CASE kind[g] = "mines"
    <2>1. Decision(g, item) = MinesDecision(item)
      BY <1>2 DEF Decision
    <2>2. MinesDecision(item) \in {"keep", "commitRoot", "resolveCell", "finalize"}
      BY DEF MinesDecision
    <2> QED
      BY <1>2, <2>1, <2>2 DEF CallsOf, MinesCalls
  <1>3. CASE kind[g] = "round"
    <2>1. Decision(g, item) = RoundDecision(item)
      BY <1>3 DEF Decision
    <2>2. RoundDecision(item) \in {"drop", "keep", "refundRound", "settleRound"}
      BY DEF RoundDecision
    <2>3. RoundDecision(item) = "drop" => item.status # "open"
      BY DEF RoundDecision
    <2> QED
      BY <1>3, <2>1, <2>2, <2>3 DEF CallsOf, BetCalls
  <1> QED
    BY <1>1, <1>2, <1>3, BookFacts

-----------------------------------------------------------------------------
\* What a step may do to the contracts' items: nothing decided or finalized is
\* taken back, and no item changes hands.

ItemsGoOn ==
    \A b \in Books :
        /\ Len(items[b]) <= Len(items'[b])
        /\ \A id \in 1..Len(items[b]) :
              /\ items'[b][id].game = items[b][id].game
              /\ items[b][id].status # "open" => items'[b][id].status = items[b][id].status
              /\ items[b][id].finalized => items'[b][id].finalized

LEMMA ItemsStay ==
  ASSUME BotTypeOK, items' = items
  PROVE  ItemsGoOn
  <1>1. \A b \in Books : Len(items[b]) \in Nat
    BY LenProperties DEF BotTypeOK
  <1> QED
    BY <1>1 DEF ItemsGoOn

\* One item is replaced.
LEMMA ItemChanged ==
  ASSUME BotTypeOK, ItemsShaped, NEW b \in Books, NEW id \in 1..Len(items[b]),
         NEW item \in ItemSet, Shaped(b, item),
         item.game = items[b][id].game,
         items[b][id].status # "open" => item.status = items[b][id].status,
         items[b][id].finalized => item.finalized,
         items' = [items EXCEPT ![b][id] = item], kind' = kind
  PROVE  /\ items' \in [Books -> Seq(ItemSet)]
         /\ ItemsShaped'
         /\ ItemsGoOn
         /\ \A c \in Books : Len(items'[c]) = Len(items[c])
         /\ \A c \in Books : \A j \in 1..Len(items[c]) :
                items'[c][j] = IF c = b /\ j = id THEN item ELSE items[c][j]
         /\ items'[b][id] = item
  <1>1. \A c \in Books : items[c] \in Seq(ItemSet) /\ Len(items[c]) \in Nat
    BY LenProperties DEF BotTypeOK
  <1> DEFINE changed == [items[b] EXCEPT ![id] = item]
  <1>2. /\ changed \in Seq(ItemSet)
        /\ Len(changed) = Len(items[b])
        /\ \A j \in 1..Len(items[b]) : changed[j] = IF j = id THEN item ELSE items[b][j]
    BY <1>1, ExceptSeq
  <1>3. items' = [items EXCEPT ![b] = changed]
    OBVIOUS
  <1> HIDE DEF changed
  <1>4. /\ items'[b] = changed
        /\ \A c \in Books \ {b} : items'[c] = items[c]
        /\ items' \in [Books -> Seq(ItemSet)]
    BY <1>1, <1>2, <1>3 DEF BotTypeOK
  <1>5. \A c \in Books : Len(items'[c]) = Len(items[c])
    BY <1>2, <1>4
  <1>6. items'[b][id] = item
    BY <1>2, <1>4
  <1>7. \A c \in Books : \A j \in 1..Len(items[c]) :
            items'[c][j] = IF c = b /\ j = id THEN item ELSE items[c][j]
    BY <1>2, <1>4
  <1>8. ItemsShaped'
    <2> SUFFICES ASSUME NEW c \in Books, NEW j \in 1..Len(items[c])
                 PROVE  Shaped(c, items[c][j])'
      BY <1>5 DEF ItemsShaped
    <2>1. CASE c = b /\ j = id
      BY <2>1, <1>7 DEF Shaped
    <2>2. CASE ~ (c = b /\ j = id)
      BY <2>2, <1>7 DEF Shaped, ItemsShaped
    <2> QED
      BY <2>1, <2>2
  <1>9. ItemsGoOn
    BY <1>1, <1>5, <1>7 DEF ItemsGoOn
  <1> QED
    BY <1>4, <1>5, <1>6, <1>7, <1>8, <1>9

\* One item is placed.
LEMMA ItemPlaced ==
  ASSUME BotTypeOK, ItemsShaped, NEW b \in Books, NEW game \in Games \cup OtherGames,
         NEW closes \in Nat,
         items' = [items EXCEPT ![b] = Append(@, NewItem(game, closes))], kind' = kind
  PROVE  /\ items' \in [Books -> Seq(ItemSet)]
         /\ ItemsShaped'
         /\ ItemsGoOn
         /\ \A c \in Books \ {b} : items'[c] = items[c]
         /\ Len(items'[b]) = Len(items[b]) + 1
         /\ \A j \in 1..Len(items[b]) : items'[b][j] = items[b][j]
         /\ items'[b][Len(items[b]) + 1].status = "open"
  <1>1. \A c \in Books : items[c] \in Seq(ItemSet) /\ Len(items[c]) \in Nat
    BY LenProperties DEF BotTypeOK
  <1> DEFINE new == NewItem(game, closes)
  <1>2. /\ new \in ItemSet
        /\ \A c \in Books : Shaped(c, new)
        /\ new.status = "open"
    BY DEF NewItem, ItemSet, Shaped, Statuses, BotTypeOK
  <1>a. new \in ItemSet
    BY <1>2
  <1> HIDE DEF new
  <1> DEFINE longer == Append(items[b], new)
  <1>3. /\ longer \in Seq(ItemSet)
        /\ Len(longer) = Len(items[b]) + 1
        /\ \A j \in 1..Len(items[b]) : longer[j] = items[b][j]
        /\ longer[Len(items[b]) + 1] = new
    BY <1>1, <1>a, AppendProperties
  <1>4. items' = [items EXCEPT ![b] = longer]
    BY DEF new
  <1> HIDE DEF longer
  <1>5. /\ items'[b] = longer
        /\ \A c \in Books \ {b} : items'[c] = items[c]
        /\ items' \in [Books -> Seq(ItemSet)]
    BY <1>1, <1>3, <1>4 DEF BotTypeOK
  <1>6. ItemsShaped'
    <2> SUFFICES ASSUME NEW c \in Books, NEW j \in 1..Len(items'[c])
                 PROVE  Shaped(c, items[c][j])'
      BY DEF ItemsShaped
    <2>1. CASE c = b /\ j = Len(items[b]) + 1
      BY <2>1, <1>2, <1>3, <1>5 DEF Shaped
    <2>2. CASE ~ (c = b /\ j = Len(items[b]) + 1)
      <3>1. j \in 1..Len(items[c]) /\ items'[c][j] = items[c][j]
        BY <2>2, <1>1, <1>3, <1>5
      <3> QED
        BY <3>1 DEF Shaped, ItemsShaped
    <2> QED
      BY <2>1, <2>2
  <1>7. ItemsGoOn
    BY <1>1, <1>3, <1>5 DEF ItemsGoOn
  <1> QED
    BY <1>2, <1>3, <1>5, <1>6, <1>7

\* What is done stays done.
LEMMA DonePersists ==
  ASSUME RevealBotConstants, BotTypeOK, BotTypeOK', ItemsGoOn, kind' = kind, NEW g \in Games
  PROVE  /\ Total(g) <= Total(g)'
         /\ 1..Total(g) \subseteq (1..Total(g))'
         /\ \A id \in 1..Total(g) : /\ Item(g, id)'.game = Item(g, id).game
                                    /\ DoneAt(g, id) => DoneAt(g, id)'
  <1>1. BookOf(g) \in Books /\ BookOf(g)' = BookOf(g)
    BY BookFacts DEF BookOf
  <1>2. Total(g) \in Nat /\ Total(g)' \in Nat
    <2>1. \A c \in Books : Len(items[c]) \in Nat /\ Len(items'[c]) \in Nat
      BY LenProperties DEF BotTypeOK, Books
    <2> QED
      BY <2>1, <1>1 DEF Total
  <1>3. Total(g) <= Total(g)'
    BY <1>1 DEF ItemsGoOn, Total
  <1>4. \A id \in 1..Total(g) : /\ Item(g, id)'.game = Item(g, id).game
                                /\ DoneAt(g, id) => DoneAt(g, id)'
    BY <1>1 DEF ItemsGoOn, Total, Item, DoneAt
  <1> QED
    BY <1>2, <1>3, <1>4

LEMMA PoolsKept ==
  ASSUME RevealBotConstants, BotTypeOK, BotTypeOK', ItemsGoOn, PoolsSound,
         pool' = pool, kind' = kind
  PROVE  PoolsSound'
  <1> SUFFICES ASSUME NEW g \in Games, NEW n \in DOMAIN pool[g]
               PROVE  /\ pool[g][n].id \in (1..Total(g))'
                      /\ pool[g][n].call \in CallsOf(kind[g])
    BY DEF PoolsSound
  <1>1. 1..Total(g) \subseteq (1..Total(g))'
    BY DonePersists
  <1> QED
    BY <1>1 DEF PoolsSound

LEMMA JobKept ==
  ASSUME RevealBotConstants, BotTypeOK, BotTypeOK', ItemsGoOn, kind' = kind,
         NEW g \in Games, NEW id \in DOMAIN work[g], JobSound(g, id),
         work'[g][id] = work[g][id],
         work[g][id].pc = "wait" =>
            /\ work[g][id].nonce \in DOMAIN pool'[g]
            /\ pool'[g][work[g][id].nonce] = pool[g][work[g][id].nonce]
  PROVE  JobSound(g, id)'
  <1>1. 1..Total(g) \subseteq (1..Total(g))' /\ (DoneAt(g, id) => DoneAt(g, id)')
    BY DonePersists DEF JobSound
  <1> QED
    BY <1>1 DEF JobSound

LEMMA JobsKept ==
  ASSUME RevealBotConstants, BotTypeOK, BotTypeOK', ItemsGoOn, JobsSound, kind' = kind,
         pool' = pool, work' = work
  PROVE  JobsSound'
  <1> SUFFICES ASSUME NEW g \in Games, NEW id \in DOMAIN work[g]
               PROVE  JobSound(g, id)'
    BY DEF JobsSound
  <1>1. JobSound(g, id)
    BY DEF JobsSound
  <1>2. work[g][id].pc = "wait" => work[g][id].nonce \in DOMAIN pool[g]
    BY <1>1 DEF JobSound
  <1> QED
    BY <1>1, <1>2, JobKept

LEMMA MemoryKept ==
  ASSUME RevealBotConstants, BotTypeOK, BotTypeOK', ItemsGoOn, kind' = kind,
         MemorySound, UndoneIsPending, UNCHANGED <<cursor, pending, floor, todo>>
  PROVE  MemorySound' /\ UndoneIsPending'
  <1>1. MemorySound'
    <2> SUFFICES ASSUME NEW g \in Games
                 PROVE  /\ cursor[g] <= Total(g)' + 1
                        /\ pending[g] \subseteq (1..Total(g))'
                        /\ todo[g] \subseteq (1..Total(g))'
      BY DEF MemorySound
    <2>1. Total(g) <= Total(g)' /\ 1..Total(g) \subseteq (1..Total(g))'
      BY DonePersists
    <2>2. Total(g) \in Nat /\ cursor[g] \in Nat
      BY BookFacts DEF BotTypeOK
    <2>3. Total(g)' \in Nat
      BY LenProperties, BookFacts DEF BotTypeOK, Total, BookOf, Books
    <2> QED
      BY <2>1, <2>2, <2>3 DEF MemorySound
  <1>2. UndoneIsPending'
    <2> SUFFICES ASSUME NEW g \in Games, NEW id \in (1..Total(g))',
                        Item(g, id)'.game = g, ~DoneAt(g, id)',
                        floor[g] <= id, id < cursor[g]
                 PROVE  id \in pending[g]
      BY DEF UndoneIsPending
    <2>1. Total(g) \in Nat /\ cursor[g] \in Nat /\ cursor[g] <= Total(g) + 1
      BY BookFacts DEF BotTypeOK, MemorySound
    <2>2. Total(g)' \in Nat
      BY LenProperties, BookFacts DEF BotTypeOK, Total, BookOf, Books
    <2>3. id \in 1..Total(g)
      BY <2>1, <2>2
    <2> QED
      BY <2>3, DonePersists DEF UndoneIsPending
  <1> QED
    BY <1>1, <1>2

\* A step of players, of the chain's clock, or of a lane: the bot's jobs and
\* memory, and the mempool, are as they were.
LEMMA OutsideStep ==
  ASSUME RevealBotConstants, BotInv, ItemsGoOn, ItemsShaped',
         items' \in [Books -> Seq(ItemSet)], head' \in Nat,
         UNCHANGED <<kind, pool, work, cursor, pending, floor, todo>>
  PROVE  BotInv'
  <1> USE DEF BotInv
  <1>1. BotTypeOK'
    BY DEF BotTypeOK
  <1>2. PoolsSound'
    BY <1>1, PoolsKept
  <1>3. JobsSound'
    BY <1>1, JobsKept
  <1>4. MemorySound' /\ UndoneIsPending'
    BY <1>1, MemoryKept
  <1> QED
    BY <1>1, <1>2, <1>3, <1>4

-----------------------------------------------------------------------------
\* BotInv is inductive

LEMMA BotInvInit == RevealBotConstants /\ Init => BotInv
  <1> SUFFICES ASSUME RevealBotConstants, Init
               PROVE  BotInv
    OBVIOUS
  <1> USE DEF Init
  <1>1. BotTypeOK
    <2>1. <<>> \in Seq(ItemSet)
      BY EmptySeq
    <2>2. items \in [Books -> Seq(ItemSet)]
      BY <2>1
    <2> QED
      BY <2>2 DEF BotTypeOK
  <1>2. \A b \in Books : Len(items[b]) = 0
    BY EmptySeq
  <1>3. ItemsShaped
    BY <1>2 DEF ItemsShaped
  <1>4. \A g \in Games : Total(g) = 0
    BY <1>1, <1>2, BookFacts
  <1>5. \A g \in Games : DOMAIN pool[g] = {} /\ DOMAIN work[g] = {}
    <2>1. DOMAIN << >> = {}
      OBVIOUS
    <2> QED
      BY <2>1
  <1>6. PoolsSound /\ JobsSound
    BY <1>5 DEF PoolsSound, JobsSound
  <1>7. MemorySound /\ UndoneIsPending
    BY <1>4 DEF MemorySound, UndoneIsPending
  <1> QED
    BY <1>1, <1>3, <1>6, <1>7 DEF BotInv

\* An item a player changes by a pick, a cash-out, a cancelled pick or a refund.
LEMMA PlayerStepKeeps ==
  ASSUME RevealBotConstants, BotInv, NEW g \in Games, PlayerStep(g)
  PROVE  BotInv'
  <1>1. CASE Place(g)
    <2>1. PICK closes \in Nat : items' = [items EXCEPT ![BookOf(g)] = Append(@, NewItem(g, closes))]
      <3>1. (IF kind[g] = "round" THEN head + 1 + BET_WINDOW ELSE 0) \in Nat
        BY DEF BotInv, BotTypeOK, RevealBotConstants
      <3> QED
        BY <3>1, <1>1 DEF Place
    <2>2. items' \in [Books -> Seq(ItemSet)] /\ ItemsShaped' /\ ItemsGoOn
      <3>1. BotTypeOK /\ ItemsShaped /\ BookOf(g) \in Books /\ kind' = kind
        BY <1>1, BookFacts DEF BotInv, Place, deployVars
      <3> QED
        BY ONLY <3>1, <2>1, ItemPlaced
    <2> QED
      BY <1>1, <2>2, OutsideStep DEF Place, deployVars, tickVars, memoVars, BotInv, BotTypeOK
  <1>2. ASSUME NEW id \in 1..Total(g),
               \/ kind[g] = "mines" /\ (PickCell(g, id) \/ CashOut(g, id) \/ CancelPick(g, id))
               \/ AnyoneRefunds(g, id)
        PROVE  BotInv'
    <2> DEFINE was == Item(g, id)
    <2>1. was \in ItemSet /\ was = items[BookOf(g)][id] /\ BookOf(g) \in Books
          /\ Shaped(BookOf(g), was)
      BY BookFacts DEF BotInv, ItemsShaped
    <2>2. \E item \in ItemSet :
            /\ Shaped(BookOf(g), item)
            /\ item.game = was.game
            /\ was.status # "open" => item.status = was.status
            /\ was.finalized => item.finalized
            /\ ChangeItem(BookOf(g), id, item)
      <3>1. CASE kind[g] = "mines" /\ PickCell(g, id)
        <4> DEFINE item == [was EXCEPT !.picking = TRUE, !.picks = @ + 1]
        <4>1. ChangeItem(g, id, item) /\ BookOf(g) = g /\ was.root /\ was.status = "open"
          BY <3>1, BookFacts DEF PickCell, BotInv
        <4>a. was.picks + 1 \in Nat
          BY <2>1 DEF ItemSet
        <4>2. item \in ItemSet /\ item.game = was.game /\ item.status = was.status
              /\ item.finalized = was.finalized /\ item.root = was.root
          BY <2>1, <4>a DEF ItemSet
        <4>3. Shaped(BookOf(g), item)
          BY <2>1, <4>1, <4>2 DEF Shaped
        <4> QED
          BY <4>1, <4>2, <4>3
      <3>2. CASE kind[g] = "mines" /\ CashOut(g, id)
        <4> DEFINE item == [was EXCEPT !.status = "settled"]
        <4>1. ChangeItem(g, id, item) /\ BookOf(g) = g /\ was.root /\ was.status = "open"
          BY <3>2, BookFacts DEF CashOut, BotInv
        <4>2. item \in ItemSet /\ item.game = was.game /\ item.status = "settled"
              /\ item.finalized = was.finalized /\ item.root = was.root
              /\ item.picking = was.picking
          BY <2>1 DEF ItemSet, Statuses
        <4>3. Shaped(BookOf(g), item)
          BY <2>1, <4>1, <4>2 DEF Shaped
        <4> QED
          BY <4>1, <4>2, <4>3
      <3>3. CASE kind[g] = "mines" /\ CancelPick(g, id)
        <4> DEFINE item == [was EXCEPT !.picking = FALSE, !.status = "refunded"]
        <4>1. ChangeItem(g, id, item) /\ BookOf(g) = g /\ was.status = "open"
          BY <3>3, BookFacts DEF CancelPick, BotInv
        <4>2. item \in ItemSet /\ item.game = was.game /\ item.status = "refunded"
              /\ item.finalized = was.finalized /\ item.root = was.root
              /\ item.picking = FALSE
          BY <2>1 DEF ItemSet, Statuses
        <4>3. Shaped(BookOf(g), item)
          BY <2>1, <4>1, <4>2 DEF Shaped
        <4> QED
          BY <4>1, <4>2, <4>3
      <3>4. CASE AnyoneRefunds(g, id)
        <4> DEFINE item == [was EXCEPT !.status = "refunded"]
        <4>1. ChangeItem(BookOf(g), id, item)
          BY <3>4 DEF AnyoneRefunds
        <4>a. was.status = "open"
          BY <3>4 DEF AnyoneRefunds, Reverts
        <4>2. item \in ItemSet /\ item.game = was.game /\ item.status = "refunded"
              /\ item.finalized = was.finalized /\ item.root = was.root
              /\ item.picking = was.picking
          BY <2>1 DEF ItemSet, Statuses
        <4>3. Shaped(BookOf(g), item)
          BY <2>1, <4>1, <4>2 DEF Shaped
        <4> QED
          BY <4>1, <4>a, <4>2, <4>3
      <3> QED
        BY <1>2, <3>1, <3>2, <3>3, <3>4
    <2> HIDE DEF was
    <2>3. PICK item \in ItemSet :
            /\ Shaped(BookOf(g), item)
            /\ item.game = was.game
            /\ was.status # "open" => item.status = was.status
            /\ was.finalized => item.finalized
            /\ ChangeItem(BookOf(g), id, item)
      BY <2>2
    <2>4. /\ items' = [items EXCEPT ![BookOf(g)][id] = item]
          /\ UNCHANGED <<kind, head, pool, work, cursor, pending, floor, todo>>
      BY <2>3 DEF ChangeItem, deployVars, tickVars, memoVars
    <2>5. id \in 1..Len(items[BookOf(g)]) /\ BotTypeOK /\ ItemsShaped
      BY BookFacts DEF BotInv
    <2>6. items' \in [Books -> Seq(ItemSet)] /\ ItemsShaped' /\ ItemsGoOn
      BY ONLY <2>1, <2>3, <2>4, <2>5, ItemChanged
    <2> QED
      BY <2>4, <2>6, OutsideStep DEF BotInv, BotTypeOK
  <1> QED
    BY <1>1, <1>2 DEF PlayerStep

\* A mined transaction, and the job it is delivered to.
LEMMA MineStep ==
  ASSUME RevealBotConstants, BotInv, NEW g \in Games, MineTx(g)
  PROVE  BotInv'
  <1> DEFINE n == mined[g]
             call == pool[g][n].call
             id == pool[g][n].id
             b == BookOf(g)
             was == items[b][id]
             failed == Reverts(call, was)
             pc == IF failed THEN "reverted" ELSE "mined"
  <1>1. PICK after \in IF failed THEN {was} ELSE Outcomes(call, was) :
            items' = [items EXCEPT ![b][id] = after]
    BY DEF MineTx
  <1>2. /\ n \in DOMAIN pool[g]
        /\ pool' = [pool EXCEPT ![g] = Restrict(@, DOMAIN @ \ {n})]
        /\ work' = [work EXCEPT ![g] = Delivered(@, n, pc)]
        /\ UNCHANGED <<kind, head, cursor, pending, floor, todo>>
    BY DEF MineTx, deployVars, memoVars
  <1>3. id \in 1..Total(g) /\ call \in CallsOf(kind[g])
    BY <1>2 DEF BotInv, PoolsSound
  <1>4. /\ b \in Books /\ was \in ItemSet /\ was = Item(g, id) /\ Shaped(b, was)
        /\ id \in 1..Len(items[b])
        /\ (kind[g] = "mines" => b \in Games /\ kind[b] = "mines")
    BY <1>3, BookFacts DEF BotInv, ItemsShaped
  <1>5. ~failed => /\ after \in ItemSet
                   /\ Shaped(b, after)
                   /\ after.game = was.game
                   /\ was.status # "open" => after.status = was.status
                   /\ was.finalized => after.finalized
                   /\ call \in LastCalls /\ kind[g] = "mines" => after.finalized
                   /\ call \in LastCalls /\ kind[g] # "mines" => after.status # "open"
    <2> SUFFICES ASSUME ~failed
                 PROVE  /\ after \in ItemSet
                        /\ Shaped(b, after)
                        /\ after.game = was.game
                        /\ was.status # "open" => after.status = was.status
                        /\ was.finalized => after.finalized
                        /\ call \in LastCalls /\ kind[g] = "mines" => after.finalized
                        /\ call \in LastCalls /\ kind[g] # "mines" => after.status # "open"
      OBVIOUS
    <2>1. after \in Outcomes(call, was) /\ ~Reverts(call, was)
      BY <1>1
    <2>2. head \in Nat
      BY DEF BotInv, BotTypeOK
    <2> HIDE DEF n, call, id, b, was, failed, pc
    <2> QED
      BY ONLY <2>1, <2>2, <1>3, <1>4, OutcomeFacts, RevealBotConstants
  <1> HIDE DEF was, failed, call, id, b, n, pc
  <1>6. /\ after \in ItemSet
        /\ Shaped(b, after)
        /\ after.game = was.game
        /\ was.status # "open" => after.status = was.status
        /\ was.finalized => after.finalized
    BY <1>1, <1>4, <1>5
  <1>7. /\ items' \in [Books -> Seq(ItemSet)]
        /\ ItemsShaped'
        /\ ItemsGoOn
        /\ items'[b][id] = after
    <2>1. BotTypeOK /\ ItemsShaped /\ kind' = kind
      BY <1>2 DEF BotInv
    <2>2. /\ b \in Books /\ id \in 1..Len(items[b])
          /\ after \in ItemSet /\ Shaped(b, after)
          /\ after.game = items[b][id].game
          /\ items[b][id].status # "open" => after.status = items[b][id].status
          /\ items[b][id].finalized => after.finalized
      BY <1>4, <1>6 DEF was
    <2>3. items' = [items EXCEPT ![b][id] = after]
      BY <1>1
    <2> QED
      BY ONLY <2>1, <2>2, <2>3, ItemChanged
  <1>8. BotTypeOK'
    BY <1>2, <1>7 DEF BotInv, BotTypeOK
  <1>9. MemorySound' /\ UndoneIsPending'
    BY <1>2, <1>7, <1>8, MemoryKept DEF BotInv
  <1>10. \A h \in Games : /\ DOMAIN pool'[h] = IF h = g THEN DOMAIN pool[h] \ {n} ELSE DOMAIN pool[h]
                          /\ \A m \in DOMAIN pool'[h] : pool'[h][m] = pool[h][m]
    BY <1>2 DEF Restrict, BotInv, BotTypeOK
  <1>11. PoolsSound'
    <2> SUFFICES ASSUME NEW h \in Games, NEW m \in DOMAIN pool'[h]
                 PROVE  /\ pool'[h][m].id \in (1..Total(h))'
                        /\ pool'[h][m].call \in CallsOf(kind'[h])
      BY DEF PoolsSound
    <2>1. m \in DOMAIN pool[h] /\ pool'[h][m] = pool[h][m]
      BY <1>10
    <2>2. 1..Total(h) \subseteq (1..Total(h))'
      BY <1>2, <1>7, <1>8, DonePersists DEF BotInv
    <2> QED
      BY <2>1, <2>2, <1>2 DEF BotInv, PoolsSound
  <1>12. JobsSound'
    <2> SUFFICES ASSUME NEW h \in Games, NEW i \in DOMAIN work'[h]
                 PROVE  JobSound(h, i)'
      BY DEF JobsSound
    <2>1. i \in DOMAIN work[h]
      BY <1>2 DEF BotInv, BotTypeOK, Delivered
    <2>2. JobSound(h, i)
      BY <2>1 DEF BotInv, JobsSound
    <2>3. CASE h = g /\ work[h][i].pc = "wait" /\ work[h][i].nonce = n
      <3>1. work'[h][i] = [work[h][i] EXCEPT !.pc = pc]
        BY <2>1, <2>3, <1>2 DEF BotInv, BotTypeOK, Delivered
      <3>2. /\ work[h][i] = [pc |-> work[h][i].pc, call |-> work[h][i].call,
                             nonce |-> work[h][i].nonce]
            /\ i = id /\ work[h][i].call = call
        BY <2>2, <2>3 DEF JobSound, id, call
      <3>3. /\ work'[h][i].pc = pc /\ work'[h][i].call = call /\ work'[h][i].nonce = n
            /\ work'[h][i] = [pc |-> pc, call |-> call, nonce |-> n]
        BY <3>1, <3>2, <2>3
      <3>4. i \in (1..Total(h))'
        BY <1>2, <1>7, <1>8, <2>2, DonePersists DEF BotInv, JobSound
      <3>5. pc = "mined" /\ call \in LastCalls => DoneAt(h, i)'
        <4> SUFFICES ASSUME pc = "mined", call \in LastCalls
                     PROVE  DoneAt(h, i)'
          OBVIOUS
        <4>1. ~failed
          BY DEF pc
        <4>2. Item(h, i)' = after
          BY <1>2, <1>7, <3>2, <2>3 DEF Item, b, BookOf
        <4> QED
          BY <4>1, <4>2, <1>2, <1>5, <2>3 DEF DoneAt
      <3>6. pc \in {"mined", "reverted"} /\ call \in CallsOf(kind'[h])
        BY <1>2, <1>3, <2>3 DEF pc
      <3> QED
        BY <3>3, <3>4, <3>5, <3>6 DEF JobSound
    <2>4. CASE ~ (h = g /\ work[h][i].pc = "wait" /\ work[h][i].nonce = n)
      <3>1. work'[h][i] = work[h][i]
        BY <2>1, <2>4, <1>2 DEF BotInv, BotTypeOK, Delivered
      <3>2. work[h][i].pc = "wait" =>
              /\ work[h][i].nonce \in DOMAIN pool'[h]
              /\ pool'[h][work[h][i].nonce] = pool[h][work[h][i].nonce]
        BY <2>2, <2>4, <1>10 DEF JobSound
      <3>3. BotTypeOK /\ kind' = kind
        BY <1>2 DEF BotInv
      <3> QED
        BY <1>7, <1>8, <2>1, <2>2, <3>1, <3>2, <3>3, JobKept
    <2> QED
      BY <2>3, <2>4
  <1> QED
    BY <1>7, <1>8, <1>9, <1>11, <1>12 DEF BotInv

LEMMA PlaceElsewhereStep ==
  ASSUME RevealBotConstants, BotInv, NEW other \in OtherGames, PlaceElsewhere(other)
  PROVE  BotInv'
  <1>1. /\ items' = [items EXCEPT ![Vault] = Append(@, NewItem(other, 0))]
        /\ UNCHANGED <<kind, head, pool, work, cursor, pending, floor, todo>>
    BY DEF PlaceElsewhere, deployVars, tickVars, memoVars
  <1>2. BotTypeOK /\ ItemsShaped /\ Vault \in Books
    BY DEF BotInv, Books
  <1>3. items' \in [Books -> Seq(ItemSet)] /\ ItemsShaped' /\ ItemsGoOn
    <2>1. other \in Games \cup OtherGames /\ 0 \in Nat /\ kind' = kind
      BY <1>1
    <2> QED
      BY ONLY <2>1, <1>1, <1>2, ItemPlaced
  <1> QED
    BY <1>1, <1>3, OutsideStep DEF BotInv, BotTypeOK

\* A tick's listing, the clock, the pump: steps that leave the items alone.
LEMMA QuietStep ==
  ASSUME RevealBotConstants, BotInv, items' = items, head' \in Nat,
         UNCHANGED <<kind, pool, work, cursor, pending, floor, todo>>
  PROVE  BotInv'
  <1>1. ItemsGoOn
    BY ItemsStay DEF BotInv
  <1>2. ItemsShaped' /\ items' \in [Books -> Seq(ItemSet)]
    BY DEF BotInv, ItemsShaped, Shaped, BotTypeOK
  <1> QED
    BY <1>1, <1>2, OutsideStep

LEMMA ScanStep ==
  ASSUME RevealBotConstants, BotInv, NEW g \in Games, Scan(g)
  PROVE  BotInv'
  <1> DEFINE from == IF cursor[g] # 0 THEN cursor[g] ELSE Max({1, Total(g) - DISCOVERY + 1})
             open == pending[g] \cup (from..Total(g))
  <1>1. /\ cursor' = [cursor EXCEPT ![g] = Total(g) + 1]
        /\ floor' = [floor EXCEPT ![g] = IF cursor[g] = 0 THEN from ELSE @]
        /\ pending' = [pending EXCEPT ![g] = open]
        /\ todo' = [todo EXCEPT ![g] = open]
        /\ UNCHANGED <<kind, head, items, pool, work>>
    BY DEF Scan, deployVars, chainVars
  <1>2. \A h \in Games : Total(h) \in Nat /\ Total(h)' = Total(h) /\ BookOf(h)' = BookOf(h)
    BY <1>1, BookFacts DEF BotInv, Total, BookOf
  <1>3. from \in Nat /\ 1 <= from
    <2>1. CASE cursor[g] # 0
      BY <2>1 DEF BotInv, BotTypeOK
    <2>2. CASE cursor[g] = 0
      <3>1. Total(g) - DISCOVERY + 1 \in Int
        BY <1>2 DEF RevealBotConstants
      <3> QED
        BY <2>2, <3>1, MaxWithOne
    <2> QED
      BY <2>1, <2>2
  <1> HIDE DEF from
  <1>4. open \subseteq 1..Total(g)
    BY <1>2, <1>3 DEF BotInv, MemorySound
  <1>5. BotTypeOK'
    <2>1. open \in SUBSET Nat
      BY <1>2, <1>4
    <2> QED
      BY <1>1, <1>2, <1>3, <2>1 DEF BotInv, BotTypeOK
  <1>6. ItemsGoOn
    BY <1>1, ItemsStay DEF BotInv
  <1>7. ItemsShaped'
    BY <1>1 DEF BotInv, ItemsShaped, Shaped
  <1>8. PoolsSound' /\ JobsSound'
    BY <1>1, <1>5, <1>6, PoolsKept, JobsKept DEF BotInv
  <1>9. MemorySound'
    <2> SUFFICES ASSUME NEW h \in Games
                 PROVE  /\ cursor'[h] <= Total(h) + 1
                        /\ pending'[h] \subseteq 1..Total(h)
                        /\ todo'[h] \subseteq 1..Total(h)
      BY <1>2 DEF MemorySound
    <2>1. CASE h = g
      BY <2>1, <1>1, <1>2, <1>4 DEF BotInv, BotTypeOK
    <2>2. CASE h # g
      BY <2>2, <1>1 DEF BotInv, BotTypeOK, MemorySound
    <2> QED
      BY <2>1, <2>2
  <1>10. UndoneIsPending'
    <2> SUFFICES ASSUME NEW h \in Games, NEW id \in 1..Total(h),
                        Item(h, id).game = h, ~DoneAt(h, id),
                        floor'[h] <= id, id < cursor'[h]
                 PROVE  id \in pending'[h]
      <3>1. \A h \in Games : \A id : Item(h, id)' = Item(h, id) /\ DoneAt(h, id)' = DoneAt(h, id)
        BY <1>1, <1>2 DEF Item, DoneAt
      <3> QED
        BY <3>1, <1>2 DEF UndoneIsPending
    <2>1. CASE h # g
      BY <2>1, <1>1 DEF BotInv, BotTypeOK, UndoneIsPending
    <2>2. CASE h = g /\ from <= id
      BY <2>2, <1>1, <1>2, <1>3 DEF BotInv, BotTypeOK
    <2>3. CASE h = g /\ ~ (from <= id)
      <3>1. cursor[g] # 0
        BY <2>3, <1>1, <1>2, <1>3 DEF BotInv, BotTypeOK
      <3>2. from = cursor[g] /\ floor'[g] = floor[g]
        BY <3>1, <1>1 DEF from, BotInv, BotTypeOK
      <3>3. id < cursor[g] /\ floor[g] <= id
        BY <2>3, <3>2, <1>2, <1>3
      <3>4. id \in pending[g]
        BY <2>3, <3>3 DEF BotInv, UndoneIsPending
      <3> QED
        BY <2>3, <3>4, <1>1 DEF BotInv, BotTypeOK
    <2> QED
      BY <2>1, <2>2, <2>3
  <1> QED
    BY <1>5, <1>7, <1>8, <1>9, <1>10 DEF BotInv

\* The bot's own steps leave the contracts alone, and let go of an id only when
\* it is done or another game's.
LEMMA BotMemory ==
  ASSUME RevealBotConstants, BotInv, NEW g \in Games, NEW gone,
         gone = {} \/ \E id \in 1..Total(g) :
                          gone = {id} /\ (DoneAt(g, id) \/ Item(g, id).game # g),
         pending' = [pending EXCEPT ![g] = @ \ gone],
         \A h \in Games : todo'[h] \subseteq todo[h],
         todo' \in [Games -> SUBSET Nat],
         DOMAIN pool' = Games, DOMAIN work' = Games,
         UNCHANGED <<kind, head, items, cursor, floor>>
  PROVE  BotTypeOK' /\ ItemsShaped' /\ ItemsGoOn /\ MemorySound' /\ UndoneIsPending'
  <1>1. BotTypeOK'
    BY DEF BotInv, BotTypeOK
  <1>2. ItemsShaped' /\ ItemsGoOn
    BY ItemsStay DEF BotInv, ItemsShaped, Shaped
  <1>3. \A h \in Games : /\ Total(h)' = Total(h)
                         /\ \A id : Item(h, id)' = Item(h, id) /\ DoneAt(h, id)' = DoneAt(h, id)
    BY DEF Total, BookOf, Item, DoneAt
  <1>4. \A h \in Games : /\ pending'[h] \subseteq pending[h]
                         /\ h # g => pending'[h] = pending[h]
                         /\ h = g => pending'[h] = pending[h] \ gone
    BY DEF BotInv, BotTypeOK
  <1>5. MemorySound'
    BY <1>3, <1>4 DEF BotInv, MemorySound
  <1>6. UndoneIsPending'
    <2> SUFFICES ASSUME NEW h \in Games, NEW id \in 1..Total(h),
                        Item(h, id).game = h, ~DoneAt(h, id),
                        floor[h] <= id, id < cursor[h]
                 PROVE  id \in pending'[h]
      BY <1>3 DEF UndoneIsPending
    <2>1. id \in pending[h]
      BY DEF BotInv, UndoneIsPending
    <2>2. h = g => id \notin gone
      OBVIOUS
    <2> QED
      BY <2>1, <2>2, <1>4
  <1> QED
    BY <1>1, <1>2, <1>5, <1>6

LEMMA StartStep ==
  ASSUME RevealBotConstants, BotInv, NEW g \in Games, StartJob(g)
  PROVE  BotInv'
  <1> DEFINE id == Min(todo[g])
             decision == Decision(g, Item(g, id))
             new == [pc |-> "send", call |-> decision, nonce |-> NextNonce(g)]
  <1>1. /\ todo[g] # {}
        /\ todo' = [todo EXCEPT ![g] = @ \ {id}]
        /\ \/ /\ decision = "drop"
              /\ pending' = [pending EXCEPT ![g] = @ \ {id}]
              /\ work' = work
           \/ /\ decision # "drop"
              /\ pending' = pending
              /\ work' = work
           \/ /\ decision \notin {"drop", "keep"}
              /\ pending' = pending
              /\ work' = [work EXCEPT ![g] = Put(@, id, new)]
        /\ UNCHANGED <<kind, head, items, pool, cursor, floor>>
    BY DEF StartJob, deployVars, chainVars
  <1>2. id \in todo[g] /\ id \in 1..Total(g)
    BY <1>1, MinFacts DEF BotInv, BotTypeOK, MemorySound
  <1>3. /\ decision \in {"drop", "keep"} \cup CallsOf(kind[g])
        /\ decision = "drop" => DoneAt(g, id) \/ Item(g, id).game # g
    BY DecisionFacts DEF BotInv, DoneAt
  <1> HIDE DEF id, decision
  <1>4. DOMAIN pool' = Games /\ DOMAIN work' = Games
    BY <1>1 DEF BotInv, BotTypeOK
  <1>5. \A h \in Games : todo'[h] \subseteq todo[h]
    BY <1>1 DEF BotInv, BotTypeOK
  <1>6. todo' \in [Games -> SUBSET Nat]
    BY <1>1 DEF BotInv, BotTypeOK
  <1>7. BotTypeOK' /\ ItemsShaped' /\ ItemsGoOn /\ MemorySound' /\ UndoneIsPending'
    <2>1. CASE pending' = [pending EXCEPT ![g] = @ \ {id}] /\ decision = "drop"
      BY <2>1, <1>1, <1>2, <1>3, <1>4, <1>5, <1>6, BotMemory
    <2>2. CASE pending' = pending
      <3>1. pending' = [pending EXCEPT ![g] = @ \ {}]
        BY <2>2 DEF BotInv, BotTypeOK
      <3> QED
        BY <3>1, <1>1, <1>4, <1>5, <1>6, BotMemory
    <2> QED
      BY <2>1, <2>2, <1>1
  <1>8. PoolsSound'
    BY <1>1, <1>7, PoolsKept DEF BotInv
  <1>9. JobsSound'
    <2>1. CASE work' = work
      BY <2>1, <1>1, <1>7, JobsKept DEF BotInv
    <2>2. CASE /\ decision \notin {"drop", "keep"}
               /\ work' = [work EXCEPT ![g] = Put(@, id, new)]
      <3> SUFFICES ASSUME NEW h \in Games, NEW i \in DOMAIN work'[h]
                   PROVE  JobSound(h, i)'
        BY DEF JobsSound
      <3>a. /\ new.pc = "send" /\ new.call = decision /\ new.nonce = NextNonce(g)
            /\ new = [pc |-> new.pc, call |-> new.call, nonce |-> new.nonce]
        OBVIOUS
      <3> HIDE DEF new
      <3>1. CASE h # g \/ i # id
        <4>1. i \in DOMAIN work[h] /\ work'[h][i] = work[h][i]
          BY <3>1, <2>2 DEF BotInv, BotTypeOK, Put
        <4>2. JobSound(h, i)
          BY <4>1 DEF BotInv, JobsSound
        <4>3. work[h][i].pc = "wait" => work[h][i].nonce \in DOMAIN pool[h]
          BY <4>2 DEF JobSound
        <4> QED
          BY <4>1, <4>2, <4>3, <1>1, <1>7, JobKept DEF BotInv
      <3>2. CASE h = g /\ i = id
        <4>1. work'[h][i] = new
          BY <3>2, <2>2 DEF BotInv, BotTypeOK, Put
        <4>2. decision \in CallsOf(kind'[g])
          BY <2>2, <1>1, <1>3
        <4>3. id \in (1..Total(g))'
          BY <1>1, <1>2 DEF Total, BookOf
        <4> QED
          BY <3>2, <3>a, <4>1, <4>2, <4>3 DEF JobSound
      <3> QED
        BY <3>1, <3>2
    <2> QED
      BY <2>1, <2>2, <1>1
  <1> QED
    BY <1>7, <1>8, <1>9 DEF BotInv

\* A lane's step: the mempool loses nothing, and every job but one is as it was.
LEMMA LaneJobs ==
  ASSUME RevealBotConstants, BotInv, BotTypeOK', ItemsGoOn, kind' = kind,
         NEW g \in Games, NEW id,
         \A h \in Games : \A n \in DOMAIN pool[h] :
            n \in DOMAIN pool'[h] /\ pool'[h][n] = pool[h][n],
         \A h \in Games : \A i \in DOMAIN work'[h] :
            \/ i \in DOMAIN work[h] /\ work'[h][i] = work[h][i]
            \/ h = g /\ i = id /\ JobSound(g, id)'
  PROVE  JobsSound'
  <1> SUFFICES ASSUME NEW h \in Games, NEW i \in DOMAIN work'[h],
                      i \in DOMAIN work[h], work'[h][i] = work[h][i]
               PROVE  JobSound(h, i)'
    BY DEF JobsSound
  <1>1. JobSound(h, i)
    BY DEF BotInv, JobsSound
  <1>2. work[h][i].pc = "wait" => work[h][i].nonce \in DOMAIN pool[h]
    BY <1>1 DEF JobSound
  <1> QED
    BY <1>1, <1>2, JobKept DEF BotInv

\* A transaction joins the mempool.
LEMMA BroadcastFacts ==
  ASSUME RevealBotConstants, BotInv, NEW g \in Games, NEW id \in DOMAIN work[g],
         work[g][id].nonce \notin DOMAIN pool[g], Broadcast(g, id)
  PROVE  /\ DOMAIN pool' = Games
         /\ \A h \in Games : \A n \in DOMAIN pool[h] :
               n \in DOMAIN pool'[h] /\ pool'[h][n] = pool[h][n]
         /\ \A h \in Games : \A n \in DOMAIN pool'[h] :
               \/ n \in DOMAIN pool[h] /\ pool'[h][n] = pool[h][n]
               \/ h = g /\ n = work[g][id].nonce
         /\ work[g][id].nonce \in DOMAIN pool'[g]
         /\ pool'[g][work[g][id].nonce].call = work[g][id].call
         /\ pool'[g][work[g][id].nonce].id = id
  <1> DEFINE n0 == work[g][id].nonce
             tx == [call |-> work[g][id].call, id |-> id]
  <1>1. pool' = [pool EXCEPT ![g] = Put(@, n0, tx)] /\ DOMAIN pool = Games
    BY DEF Broadcast, BotInv, BotTypeOK
  <1> HIDE DEF n0, tx
  <1>2. \A h \in Games : pool'[h] = IF h = g THEN Put(pool[g], n0, tx) ELSE pool[h]
    BY <1>1
  <1>3. DOMAIN pool' = Games /\ n0 \notin DOMAIN pool[g]
    BY <1>1 DEF n0
  <1>4. /\ DOMAIN Put(pool[g], n0, tx) = DOMAIN pool[g] \cup {n0}
        /\ \A n \in DOMAIN pool[g] : Put(pool[g], n0, tx)[n] = pool[g][n]
        /\ Put(pool[g], n0, tx)[n0] = tx
    BY <1>3 DEF Put
  <1>5. tx.call = work[g][id].call /\ tx.id = id
    BY DEF tx
  <1> QED
    BY <1>2, <1>3, <1>4, <1>5 DEF n0

LEMMA PoolsExtended ==
  ASSUME RevealBotConstants, BotInv, BotTypeOK', ItemsGoOn, kind' = kind,
         NEW g \in Games, NEW id \in DOMAIN work[g],
         work[g][id].nonce \notin DOMAIN pool[g], Broadcast(g, id)
  PROVE  PoolsSound'
  <1> SUFFICES ASSUME NEW h \in Games, NEW n \in DOMAIN pool'[h]
               PROVE  /\ pool'[h][n].id \in (1..Total(h))'
                      /\ pool'[h][n].call \in CallsOf(kind[h])
    BY DEF PoolsSound
  <1>a. /\ \/ n \in DOMAIN pool[h] /\ pool'[h][n] = pool[h][n]
           \/ h = g /\ n = work[g][id].nonce
        /\ pool'[g][work[g][id].nonce].call = work[g][id].call
        /\ pool'[g][work[g][id].nonce].id = id
    BY BroadcastFacts
  <1>1. 1..Total(h) \subseteq (1..Total(h))'
    BY DonePersists DEF BotInv
  <1>2. CASE n \in DOMAIN pool[h] /\ pool'[h][n] = pool[h][n]
    BY <1>1, <1>2 DEF BotInv, PoolsSound
  <1>3. CASE h = g /\ n = work[g][id].nonce
    <2>1. JobSound(g, id)
      BY DEF BotInv, JobsSound
    <2>2. pool'[h][n].id = id /\ pool'[h][n].call = work[g][id].call
      BY <1>3, <1>a
    <2> QED
      BY <1>1, <1>3, <2>1, <2>2 DEF JobSound
  <1> QED
    BY <1>2, <1>3, <1>a

LEMMA SendOkStep ==
  ASSUME RevealBotConstants, BotInv, NEW g \in Games, NEW id \in DOMAIN work[g], SendOk(g, id)
  PROVE  BotInv'
  <1> DEFINE job == work[g][id]
  <1>1. /\ job.nonce \notin DOMAIN pool[g]
        /\ Broadcast(g, id)
        /\ work' = [work EXCEPT ![g][id].pc = "wait"]
        /\ UNCHANGED <<kind, head, items, cursor, pending, floor, todo>>
    BY DEF SendOk, deployVars, memoVars
  <1>2. BotTypeOK' /\ ItemsShaped' /\ ItemsGoOn /\ MemorySound' /\ UndoneIsPending'
    <2>1. pending' = [pending EXCEPT ![g] = @ \ {}]
      BY <1>1 DEF BotInv, BotTypeOK
    <2>2. DOMAIN pool' = Games
      BY <1>1, BroadcastFacts
    <2>3. DOMAIN work' = Games
      BY <1>1 DEF BotInv, BotTypeOK
    <2>4. (\A h \in Games : todo'[h] \subseteq todo[h]) /\ todo' \in [Games -> SUBSET Nat]
      BY <1>1 DEF BotInv, BotTypeOK
    <2> QED
      BY <1>1, <2>1, <2>2, <2>3, <2>4, BotMemory
  <1>3. PoolsSound'
    BY <1>1, <1>2, PoolsExtended
  <1>4. JobsSound'
    <2>1. \A h \in Games : \A i \in DOMAIN work'[h] :
            /\ i \in DOMAIN work[h]
            /\ h # g \/ i # id => work'[h][i] = work[h][i]
      BY <1>1 DEF BotInv, BotTypeOK
    <2>2. JobSound(g, id)
      BY DEF BotInv, JobsSound
    <2>3. work'[g][id] = [job EXCEPT !.pc = "wait"]
      BY <1>1 DEF BotInv, BotTypeOK
    <2>4. /\ work'[g][id].pc = "wait" /\ work'[g][id].call = job.call
          /\ work'[g][id].nonce = job.nonce
          /\ work'[g][id] = [pc |-> "wait", call |-> job.call, nonce |-> job.nonce]
      <3>1. job = [pc |-> job.pc, call |-> job.call, nonce |-> job.nonce]
        BY <2>2 DEF JobSound
      <3> DEFINE c == job.call
                 n == job.nonce
                 p == job.pc
      <3> HIDE DEF job, c, n, p
      <3>2. job = [pc |-> p, call |-> c, nonce |-> n]
        BY <3>1 DEF c, n, p
      <3>3. work'[g][id] = [pc |-> "wait", call |-> c, nonce |-> n]
        BY <2>3, <3>2
      <3> QED
        BY <3>3 DEF c, n
    <2>5. job.nonce \in DOMAIN pool'[g] /\ pool'[g][job.nonce].id = id
          /\ pool'[g][job.nonce].call = job.call
      BY <1>1, BroadcastFacts
    <2>6. id \in (1..Total(g))' /\ kind' = kind /\ job.call \in CallsOf(kind[g])
      BY <1>1, <1>2, <2>2, DonePersists DEF BotInv, JobSound
    <2>7. JobSound(g, id)'
      BY <2>4, <2>5, <2>6 DEF JobSound
    <2>8. \A h \in Games : \A i \in DOMAIN work'[h] :
            \/ i \in DOMAIN work[h] /\ work'[h][i] = work[h][i]
            \/ h = g /\ i = id /\ JobSound(g, id)'
      BY <2>1, <2>7
    <2>9. \A h \in Games : \A n \in DOMAIN pool[h] :
            n \in DOMAIN pool'[h] /\ pool'[h][n] = pool[h][n]
      BY <1>1, BroadcastFacts
    <2>10. BotTypeOK' /\ ItemsGoOn /\ kind' = kind
      BY <1>1, <1>2
    <2> QED
      BY ONLY <2>8, <2>9, <2>10, LaneJobs, RevealBotConstants, BotInv
  <1> QED
    BY <1>2, <1>3, <1>4 DEF BotInv

\* A job ends, letting go of its id if that is done.
LEMMA EndJobStep ==
  ASSUME RevealBotConstants, BotInv, NEW g \in Games, NEW id \in DOMAIN work[g],
         NEW finished \in BOOLEAN, EndJob(g, id, finished),
         finished => DoneAt(g, id),
         UNCHANGED <<kind, head, items, cursor, floor, todo>>,
         \/ pool' = pool
         \/ work[g][id].nonce \notin DOMAIN pool[g] /\ Broadcast(g, id)
  PROVE  BotInv'
  <1> DEFINE gone == IF finished THEN {id} ELSE {}
  <1>1. id \in 1..Total(g)
    BY DEF BotInv, JobsSound, JobSound
  <1>2. BotTypeOK' /\ ItemsShaped' /\ ItemsGoOn /\ MemorySound' /\ UndoneIsPending'
    <2>1. pending' = [pending EXCEPT ![g] = @ \ gone]
      BY DEF EndJob, BotInv, BotTypeOK
    <2>2. gone = {} \/ \E i \in 1..Total(g) :
                          gone = {i} /\ (DoneAt(g, i) \/ Item(g, i).game # g)
      BY <1>1
    <2>3. DOMAIN pool' = Games
      BY BroadcastFacts DEF BotInv, BotTypeOK
    <2>4. DOMAIN work' = Games
      BY DEF EndJob, BotInv, BotTypeOK
    <2>5. (\A h \in Games : todo'[h] \subseteq todo[h]) /\ todo' \in [Games -> SUBSET Nat]
      BY DEF BotInv, BotTypeOK
    <2> HIDE DEF gone
    <2> QED
      BY <2>1, <2>2, <2>3, <2>4, <2>5, BotMemory
  <1>3. PoolsSound'
    <2>1. CASE pool' = pool
      BY <2>1, <1>2, PoolsKept DEF BotInv
    <2>2. CASE work[g][id].nonce \notin DOMAIN pool[g] /\ Broadcast(g, id)
      BY <2>2, <1>2, PoolsExtended
    <2> QED
      BY <2>1, <2>2
  <1>4. JobsSound'
    <2>1. \A h \in Games : \A i \in DOMAIN work'[h] :
            i \in DOMAIN work[h] /\ work'[h][i] = work[h][i]
      BY DEF EndJob, Restrict, BotInv, BotTypeOK
    <2>2. \A h \in Games : \A n \in DOMAIN pool[h] :
            n \in DOMAIN pool'[h] /\ pool'[h][n] = pool[h][n]
      BY BroadcastFacts
    <2> QED
      BY <1>2, <2>1, <2>2, LaneJobs
  <1> QED
    BY <1>2, <1>3, <1>4 DEF BotInv

\* A send that fails gives the id up only when the item it was about is decided.
LEMMA JobEnds ==
  ASSUME RevealBotConstants, BotInv, NEW g \in Games, NEW id \in DOMAIN work[g],
         SendFails(g, id) \/ SendReplyLost(g, id) \/ Receipt(g, id)
  PROVE  BotInv'
  <1>1. CASE SendFails(g, id)
    <2>1. NamesDecided(g, id) \in BOOLEAN
      BY DEF NamesDecided
    <2>2. NamesDecided(g, id) => DoneAt(g, id)
      BY DEF NamesDecided, DoneAt
    <2>3. EndJob(g, id, NamesDecided(g, id)) /\ pool' = pool
          /\ UNCHANGED <<kind, head, items, cursor, floor, todo>>
      BY <1>1 DEF SendFails, deployVars, chainVars
    <2> QED
      BY <2>1, <2>2, <2>3, EndJobStep
  <1>2. CASE SendReplyLost(g, id)
    <2>1. /\ EndJob(g, id, FALSE) /\ work[g][id].nonce \notin DOMAIN pool[g] /\ Broadcast(g, id)
          /\ UNCHANGED <<kind, head, items, cursor, floor, todo>>
      BY <1>2 DEF SendReplyLost, deployVars
    <2> QED
      BY <2>1, EndJobStep
  <1>3. CASE Receipt(g, id)
    <2> DEFINE finished == work[g][id].pc = "mined" /\ work[g][id].call \in LastCalls
    <2>1. finished \in BOOLEAN
      OBVIOUS
    <2>2. finished => DoneAt(g, id)
      BY DEF BotInv, JobsSound, JobSound
    <2>3. EndJob(g, id, finished) /\ pool' = pool
          /\ UNCHANGED <<kind, head, items, cursor, floor, todo>>
      BY <1>3 DEF Receipt, deployVars, chainVars
    <2> HIDE DEF finished
    <2> QED
      BY <2>1, <2>2, <2>3, EndJobStep
  <1> QED
    BY <1>1, <1>2, <1>3

\* A restart forgets every id, and looks back from the start.
LEMMA RestartStep ==
  ASSUME RevealBotConstants, BotInv, Restart
  PROVE  BotInv'
  <1>1. /\ todo' = [g \in Games |-> {}] /\ pending' = [g \in Games |-> {}]
        /\ work' = [g \in Games |-> << >>] /\ cursor' = [g \in Games |-> 0]
        /\ UNCHANGED <<kind, head, items, pool, floor>>
    BY DEF Restart, deployVars, chainVars
  <1>2. BotTypeOK'
    BY <1>1 DEF BotInv, BotTypeOK
  <1>3. ItemsShaped' /\ ItemsGoOn
    BY <1>1, ItemsStay DEF BotInv, ItemsShaped, Shaped
  <1>4. PoolsSound'
    BY <1>1, <1>2, <1>3, PoolsKept DEF BotInv
  <1>5. JobsSound'
    <2>1. \A g \in Games : DOMAIN work'[g] = {}
      <3>1. DOMAIN << >> = {}
        OBVIOUS
      <3> QED
        BY <3>1, <1>1
    <2> QED
      BY <2>1 DEF JobsSound
  <1>6. \A g \in Games : Total(g)' \in Nat
    <2>1. \A g \in Games : Total(g)' = Total(g)
      BY <1>1 DEF Total, BookOf
    <2> QED
      BY <2>1, BookFacts DEF BotInv
  <1>7. MemorySound'
    BY <1>1, <1>6 DEF MemorySound
  <1>8. UndoneIsPending'
    BY <1>1, <1>6 DEF UndoneIsPending
  <1> QED
    BY <1>2, <1>3, <1>4, <1>5, <1>7, <1>8 DEF BotInv

LEMMA BotInvStep == RevealBotConstants /\ BotInv /\ [Next]_vars => BotInv'
  <1> SUFFICES ASSUME RevealBotConstants, BotInv, [Next]_vars
               PROVE  BotInv'
    OBVIOUS
  <1> USE DEF deployVars, chainVars, laneVars, tickVars, memoVars
  <1>0. head \in Nat
    BY DEF BotInv, BotTypeOK
  <1>1. CASE Tick
    BY <1>0, <1>1, QuietStep DEF Tick
  <1>2. CASE TickEnds
    BY <1>0, <1>2, QuietStep DEF TickEnds
  <1>3. CASE NewBlock
    BY <1>0, <1>3, QuietStep DEF NewBlock
  <1>4. CASE Restart
    BY <1>4, RestartStep
  <1>5. ASSUME NEW other \in OtherGames, PlaceElsewhere(other)
        PROVE  BotInv'
    BY <1>5, PlaceElsewhereStep
  <1>6. ASSUME NEW g \in Games, BotStep(g)
        PROVE  BotInv'
    BY <1>6, ScanStep, StartStep, SendOkStep, JobEnds DEF BotStep
  <1>7. ASSUME NEW g \in Games, PlayerStep(g)
        PROVE  BotInv'
    BY <1>7, PlayerStepKeeps
  <1>8. ASSUME NEW g \in Games, MineTx(g)
        PROVE  BotInv'
    BY <1>8, MineStep
  <1>9. ASSUME NEW g \in Games, Refuel(g)
        PROVE  BotInv'
    BY <1>0, <1>9, QuietStep DEF Refuel
  <1>10. CASE UNCHANGED vars
    BY <1>0, <1>10, QuietStep DEF vars
  <1> QED
    BY <1>1, <1>2, <1>3, <1>4, <1>5, <1>6, <1>7, <1>8, <1>9, <1>10 DEF Next

LEMMA BotInvHolds == Spec => []BotInv
  BY RevealBotConstants, BotInvInit, BotInvStep, PTL DEF Spec

\* What is still owed is not done.
LEMMA OwedIsUndone ==
  ASSUME RevealBotConstants, BotInv, NEW g \in Games, NEW id \in 1..Total(g), OwedAt(g, id)
  PROVE  ~DoneAt(g, id) /\ Item(g, id).game = g
  <1>1. CASE kind[g] = "mines"
    BY <1>1, ShapeFacts DEF OwedAt, Owed, DoneAt, BotInv
  <1>2. CASE kind[g] # "mines"
    BY <1>2 DEF OwedAt, Owed, DoneAt
  <1> QED
    BY <1>1, <1>2

\* Whatever fails, races, reverts or restarts, an item the bot has looked at and
\* still owes something is in its memory (done(), due() and the catch blocks of
\* reveal-bot-v15.js).
THEOREM NothingForgottenHolds == Spec => []NothingForgotten
  <1>1. RevealBotConstants /\ BotInv => NothingForgotten
    BY OwedIsUndone DEF NothingForgotten, BotInv, UndoneIsPending
  <1> QED
    BY <1>1, RevealBotConstants, BotInvHolds, PTL

-----------------------------------------------------------------------------
\* The book every contract keeps is the one BetBook promises

StatusedOf(lists) == [b \in Books |-> [id \in DOMAIN lists[b] |-> lists[b][id].status]]
Statused == StatusedOf(items)
LateIds  == [b \in Books |-> {id \in DOMAIN items[b] :
                ~items[b][id].root /\ Expired(items[b][id].commit, head + 1)}]
Picking  == [b \in Books |-> {id \in DOMAIN items[b] : items[b][id].picking}]

LEMMA StatusedFacts ==
  ASSUME NEW lists \in [Books -> Seq(ItemSet)], NEW b \in Books
  PROVE  /\ DOMAIN lists[b] = 1..Len(lists[b]) /\ Len(lists[b]) \in Nat
         /\ StatusedOf(lists)[b] \in Seq(Statuses)
         /\ Len(StatusedOf(lists)[b]) = Len(lists[b])
         /\ \A id \in 1..Len(lists[b]) : StatusedOf(lists)[b][id] = lists[b][id].status
  <1>1. lists[b] \in Seq(ItemSet)
    OBVIOUS
  <1>2. DOMAIN lists[b] = 1..Len(lists[b]) /\ Len(lists[b]) \in Nat
    BY <1>1, LenProperties
  <1>3. \A id \in 1..Len(lists[b]) : lists[b][id].status \in Statuses
    <2>1. \A id \in 1..Len(lists[b]) : lists[b][id] \in ItemSet
      BY <1>1, ElementOfSeq
    <2> QED
      BY <2>1 DEF ItemSet
  <1>4. StatusedOf(lists)[b] = [id \in 1..Len(lists[b]) |-> lists[b][id].status]
    BY <1>2 DEF StatusedOf
  <1>5. StatusedOf(lists)[b] \in [1..Len(lists[b]) -> Statuses]
    BY <1>3, <1>4
  <1>6. StatusedOf(lists)[b] \in Seq(Statuses)
    BY <1>2, <1>5, SeqDef
  <1>7. Len(StatusedOf(lists)[b]) \in Nat /\ DOMAIN StatusedOf(lists)[b] = 1..Len(StatusedOf(lists)[b])
    BY <1>6, LenProperties
  <1>8. DOMAIN StatusedOf(lists)[b] = 1..Len(lists[b])
    BY <1>4
  <1>9. Len(StatusedOf(lists)[b]) = Len(lists[b])
    BY <1>2, <1>7, <1>8
  <1> QED
    BY <1>2, <1>4, <1>6, <1>9

\* What becomes of one item is a step of its book when the item settles in time,
\* is refunded late or in the middle of a pick, or keeps its status.
BookAllows(was, item) ==
    \/ item.status = was.status
    \/ /\ was.status = "open" /\ item.status = "settled"
       /\ was.root \/ ~Expired(was.commit, head + 1)
    \/ /\ was.status = "open" /\ item.status = "refunded"
       /\ was.picking \/ (~was.root /\ Expired(was.commit, head + 1))

\* The only item a step changes.
OnlyItem(b, id, item) ==
    \A c \in Books :
        /\ Len(items'[c]) = Len(items[c])
        /\ \A j \in 1..Len(items[c]) :
              items'[c][j] = IF c = b /\ j = id THEN item ELSE items[c][j]

LEMMA BookChanged ==
  ASSUME items \in [Books -> Seq(ItemSet)], items' \in [Books -> Seq(ItemSet)],
         NEW b \in Books, NEW id \in 1..Len(items[b]), NEW item,
         OnlyItem(b, id, item),
         BookAllows(items[b][id], item)
  PROVE  Book!BookNext
  <1>a. \A c \in Books : Len(items'[c]) = Len(items[c])
    BY DEF OnlyItem
  <1>b. \A c \in Books : \A j \in 1..Len(items[c]) :
            items'[c][j] = IF c = b /\ j = id THEN item ELSE items[c][j]
    BY DEF OnlyItem
  <1>1. \A c \in Books : DOMAIN items[c] = 1..Len(items[c]) /\ DOMAIN items'[c] = DOMAIN items[c]
    BY <1>a, LenProperties
  <1>2. Statused' = [c \in Books |-> [j \in DOMAIN items[c] |->
                        IF c = b /\ j = id THEN item.status ELSE items[c][j].status]]
    BY <1>1, <1>b DEF Statused, StatusedOf
  <1>3. /\ id \in DOMAIN items[b] /\ id \in 1..Len(Statused[b])
        /\ Statused[b][id] = items[b][id].status
    BY <1>1, StatusedFacts DEF Statused
  <1>4. Statused' = [Statused EXCEPT ![b][id] = item.status]
    BY <1>2, <1>3 DEF Statused, StatusedOf
  <1>5. CASE item.status = items[b][id].status
    <2>1. Statused' = Statused
      BY <1>2, <1>5 DEF Statused, StatusedOf
    <2> QED
      BY <2>1 DEF Book!BookNext, Book!Wait, Statused, StatusedOf
  <1>6. CASE /\ items[b][id].status = "open" /\ item.status = "settled"
             /\ items[b][id].root \/ ~Expired(items[b][id].commit, head + 1)
    <2>1. id \notin LateIds[b]
      BY <1>6 DEF LateIds
    <2>2. Book!Settle(b, id)
      BY <1>3, <1>4, <1>6, <2>1 DEF Book!Settle, Statused, StatusedOf, LateIds
    <2> QED
      BY <1>3, <2>2 DEF Book!BookNext, Statused, StatusedOf
  <1>7. CASE /\ items[b][id].status = "open" /\ item.status = "refunded"
             /\ \/ items[b][id].picking
                \/ ~items[b][id].root /\ Expired(items[b][id].commit, head + 1)
    <2>1. id \in LateIds[b] \cup Picking[b]
      BY <1>3, <1>7 DEF LateIds, Picking
    <2>2. Book!Refund(b, id)
      BY <1>3, <1>4, <1>7, <2>1 DEF Book!Refund, Statused, StatusedOf, LateIds, Picking
    <2> QED
      BY <1>3, <2>2 DEF Book!BookNext, Statused, StatusedOf
  <1> QED
    BY <1>5, <1>6, <1>7 DEF BookAllows

LEMMA BookPlaced ==
  ASSUME items \in [Books -> Seq(ItemSet)], items' \in [Books -> Seq(ItemSet)],
         NEW b \in Books,
         \A c \in Books \ {b} : items'[c] = items[c],
         Len(items'[b]) = Len(items[b]) + 1,
         \A j \in 1..Len(items[b]) : items'[b][j] = items[b][j],
         items'[b][Len(items[b]) + 1].status = "open"
  PROVE  Book!BookNext
  <1> DEFINE longer == Append(Statused[b], "open")
             n == Len(items[b])
  <1>1. /\ Statused[b] \in Seq(Statuses) /\ Len(Statused[b]) = n /\ n \in Nat
        /\ \A id \in 1..n : Statused[b][id] = items[b][id].status
    BY StatusedFacts DEF Statused
  <1>2. "open" \in Statuses
    BY DEF Statuses
  <1>3. /\ longer \in Seq(Statuses)
        /\ Len(longer) = n + 1
        /\ \A i \in 1..n : longer[i] = Statused[b][i]
        /\ longer[n + 1] = "open"
    BY <1>1, <1>2, AppendProperties
  <1>4. /\ Statused'[b] \in Seq(Statuses)
        /\ Len(Statused'[b]) = n + 1
        /\ \A id \in 1..(n + 1) : Statused'[b][id] = items'[b][id].status
    <2>1. Statused' = StatusedOf(items')
      BY DEF Statused, StatusedOf
    <2> QED
      BY <2>1, StatusedFacts DEF Statused
  <1> HIDE DEF longer, n
  <1>5. \A i \in 1..(n + 1) : Statused'[b][i] = longer[i]
    <2> SUFFICES ASSUME NEW i \in 1..(n + 1) PROVE Statused'[b][i] = longer[i]
      OBVIOUS
    <2>1. CASE i \in 1..n
      BY <2>1, <1>1, <1>3, <1>4 DEF n
    <2>2. CASE i = n + 1
      BY <2>2, <1>1, <1>3, <1>4 DEF n
    <2> QED
      BY <2>1, <2>2, <1>1
  <1>6. Statused'[b] = longer
    BY <1>3, <1>4, <1>5, SeqEqual
  <1>7. \A c \in Books \ {b} : Statused'[c] = Statused[c]
    BY DEF Statused, StatusedOf
  <1>8. Statused' = [Statused EXCEPT ![b] = longer]
    BY <1>6, <1>7 DEF Statused, StatusedOf
  <1>9. Book!Take(b)
    BY <1>8 DEF Book!Take, Statused, StatusedOf, longer
  <1> QED
    BY <1>9 DEF Book!BookNext

LEMMA BookWaits ==
  ASSUME items' = items
  PROVE  Book!BookNext
  BY DEF Book!BookNext, Book!Wait

\* The contract's side of every call: in time it settles, late it refunds.
LEMMA OutcomeAllowed ==
  ASSUME RevealBotConstants, head \in Nat, NEW item \in ItemSet, NEW b, Shaped(b, item),
         NEW k, NEW call \in CallsOf(k),
         k # "mines" => ~item.root,
         ~Reverts(call, item), NEW after \in Outcomes(call, item)
  PROVE  BookAllows(item, after)
  <1>1. CASE call \in {"refundExpired", "refundRound"}
    <2>1. after = [item EXCEPT !.status = "refunded"]
      BY <1>1 DEF Outcomes
    <2>2. item.status = "open" /\ k # "mines" /\ Expired(item.commit, head + 1)
      BY <1>1 DEF Reverts, CallsOf, MinesCalls
    <2>3. after.status = "refunded"
      BY <2>1 DEF ItemSet
    <2> QED
      BY <2>2, <2>3 DEF BookAllows
  <1>2. CASE call \in {"revealAndSettle", "settleSpin", "settleRound"}
    <2>1. after = [item EXCEPT !.status = IF Expired(item.commit, head + 1) THEN "refunded"
                                                                           ELSE "settled"]
      BY <1>2 DEF Outcomes
    <2>2. item.status = "open" /\ k # "mines"
      BY <1>2 DEF Reverts, CallsOf, MinesCalls
    <2>3. after.status = IF Expired(item.commit, head + 1) THEN "refunded" ELSE "settled"
      BY <2>1 DEF ItemSet
    <2> QED
      BY <2>2, <2>3 DEF BookAllows
  <1>3. CASE call = "commitRoot"
    <2>1. after = IF Expired(item.commit, head + 1) THEN [item EXCEPT !.status = "refunded"]
                                                    ELSE [item EXCEPT !.root = TRUE]
      BY <1>3 DEF Outcomes
    <2>2. item.status = "open" /\ ~item.root
      BY <1>3 DEF Reverts
    <2>3. after.status = IF Expired(item.commit, head + 1) THEN "refunded" ELSE item.status
      BY <2>1 DEF ItemSet
    <2> QED
      BY <2>2, <2>3 DEF BookAllows
  <1>4. CASE call = "resolveCell"
    <2>1. \/ after = [item EXCEPT !.picking = FALSE]
          \/ after = [item EXCEPT !.picking = FALSE, !.status = "settled"]
      BY <1>4 DEF Outcomes
    <2>2. item.status = "open" /\ item.root
      BY <1>4 DEF Reverts, Shaped
    <2>3. after.status = item.status \/ after.status = "settled"
      BY <2>1 DEF ItemSet
    <2> QED
      BY <2>2, <2>3 DEF BookAllows
  <1>5. CASE call = "finalize"
    <2>1. after = [item EXCEPT !.finalized = TRUE]
      BY <1>5 DEF Outcomes
    <2>2. after.status = item.status
      BY <2>1 DEF ItemSet
    <2> QED
      BY <2>2 DEF BookAllows
  <1> QED
    BY <1>1, <1>2, <1>3, <1>4, <1>5 DEF CallsOf, BetCalls, MinesCalls

LEMMA BookPlayer ==
  ASSUME RevealBotConstants, BotInv, BotInv', NEW g \in Games, PlayerStep(g)
  PROVE  Book!BookNext
  <1>0. BotTypeOK /\ ItemsShaped /\ head \in Nat /\ items \in [Books -> Seq(ItemSet)]
        /\ items' \in [Books -> Seq(ItemSet)]
    BY DEF BotInv, BotTypeOK
  <1>1. CASE Place(g)
    <2>1. PICK closes \in Nat : items' = [items EXCEPT ![BookOf(g)] = Append(@, NewItem(g, closes))]
      <3>1. (IF kind[g] = "round" THEN head + 1 + BET_WINDOW ELSE 0) \in Nat
        BY <1>0 DEF RevealBotConstants
      <3> QED
        BY <3>1, <1>1 DEF Place
    <2>2. BookOf(g) \in Books /\ kind' = kind
      BY <1>1, BookFacts DEF BotInv, Place, deployVars
    <2>3. /\ \A c \in Books \ {BookOf(g)} : items'[c] = items[c]
          /\ Len(items'[BookOf(g)]) = Len(items[BookOf(g)]) + 1
          /\ \A j \in 1..Len(items[BookOf(g)]) : items'[BookOf(g)][j] = items[BookOf(g)][j]
          /\ items'[BookOf(g)][Len(items[BookOf(g)]) + 1].status = "open"
      BY ONLY <1>0, <2>1, <2>2, ItemPlaced
    <2> QED
      BY ONLY <1>0, <2>2, <2>3, BookPlaced
  <1>2. ASSUME NEW id \in 1..Total(g),
               \/ kind[g] = "mines" /\ (PickCell(g, id) \/ CashOut(g, id) \/ CancelPick(g, id))
               \/ AnyoneRefunds(g, id)
        PROVE  Book!BookNext
    <2> DEFINE was == Item(g, id)
    <2>1. /\ was \in ItemSet /\ was = items[BookOf(g)][id] /\ BookOf(g) \in Books
          /\ Shaped(BookOf(g), was) /\ id \in 1..Len(items[BookOf(g)])
      <3>1. /\ was \in ItemSet /\ was = items[BookOf(g)][id] /\ BookOf(g) \in Books
            /\ id \in 1..Len(items[BookOf(g)])
        BY <1>0, BookFacts
      <3> QED
        BY <1>0, <3>1 DEF ItemsShaped
    <2>2. \E item : ChangeItem(BookOf(g), id, item) /\ BookAllows(was, item)
      <3>1. CASE kind[g] = "mines" /\ PickCell(g, id)
        <4> DEFINE item == [was EXCEPT !.picking = TRUE, !.picks = @ + 1]
        <4>1. ChangeItem(g, id, item) /\ BookOf(g) = g
          BY <1>0, <3>1, BookFacts DEF PickCell
        <4>2. item.status = was.status
          BY <2>1 DEF ItemSet
        <4> QED
          BY <4>1, <4>2 DEF BookAllows
      <3>2. CASE kind[g] = "mines" /\ CashOut(g, id)
        <4> DEFINE item == [was EXCEPT !.status = "settled"]
        <4>1. ChangeItem(g, id, item) /\ BookOf(g) = g /\ was.root /\ was.status = "open"
          BY <1>0, <3>2, BookFacts DEF CashOut
        <4>2. item.status = "settled"
          BY <2>1 DEF ItemSet
        <4> QED
          BY <4>1, <4>2 DEF BookAllows
      <3>3. CASE kind[g] = "mines" /\ CancelPick(g, id)
        <4> DEFINE item == [was EXCEPT !.picking = FALSE, !.status = "refunded"]
        <4>1. ChangeItem(g, id, item) /\ BookOf(g) = g /\ was.picking /\ was.status = "open"
          BY <1>0, <3>3, BookFacts DEF CancelPick
        <4>2. item.status = "refunded"
          BY <2>1 DEF ItemSet
        <4> QED
          BY <4>1, <4>2 DEF BookAllows
      <3>4. CASE AnyoneRefunds(g, id)
        <4> DEFINE item == [was EXCEPT !.status = "refunded"]
        <4>1. ChangeItem(BookOf(g), id, item) /\ kind[g] # "mines"
              /\ was.status = "open" /\ Expired(was.commit, head + 1)
          BY <3>4 DEF AnyoneRefunds, Reverts
        <4>2. item.status = "refunded"
          BY <2>1 DEF ItemSet
        <4>3. ~was.root
          BY <1>0, <4>1, ShapeFacts
        <4> QED
          BY <4>1, <4>2, <4>3 DEF BookAllows
      <3> QED
        BY <1>2, <3>1, <3>2, <3>3, <3>4
    <2>3. PICK item : ChangeItem(BookOf(g), id, item) /\ BookAllows(was, item)
      BY <2>2
    <2> HIDE DEF was
    <2>4. /\ items' = [items EXCEPT ![BookOf(g)][id] = item]
          /\ BookAllows(items[BookOf(g)][id], item)
      BY <2>1, <2>3 DEF ChangeItem
    <2>5. \A c \in Books : DOMAIN items[c] = 1..Len(items[c])
                           /\ DOMAIN items'[c] = 1..Len(items'[c])
                           /\ Len(items[c]) \in Nat /\ Len(items'[c]) \in Nat
      BY <1>0, LenProperties
    <2>6. \A c \in Books : DOMAIN items'[c] = DOMAIN items[c]
      BY <1>0, <2>4
    <2>7. \A c \in Books : Len(items'[c]) = Len(items[c])
      BY <2>5, <2>6
    <2>8. \A c \in Books : \A j \in 1..Len(items[c]) :
            items'[c][j] = IF c = BookOf(g) /\ j = id THEN item ELSE items[c][j]
      BY <1>0, <2>1, <2>4, <2>5
    <2>9. OnlyItem(BookOf(g), id, item)
      BY <2>7, <2>8 DEF OnlyItem
    <2> QED
      BY ONLY <1>0, <2>1, <2>4, <2>9, BookChanged
  <1> QED
    BY <1>1, <1>2 DEF PlayerStep

LEMMA BookMined ==
  ASSUME RevealBotConstants, BotInv, BotInv', NEW g \in Games, MineTx(g)
  PROVE  Book!BookNext
  <1> DEFINE n == mined[g]
             call == pool[g][n].call
             id == pool[g][n].id
             b == BookOf(g)
             was == items[b][id]
             failed == Reverts(call, was)
  <1>0. BotTypeOK /\ ItemsShaped /\ head \in Nat /\ items \in [Books -> Seq(ItemSet)]
        /\ items' \in [Books -> Seq(ItemSet)]
    BY DEF BotInv, BotTypeOK
  <1>1. PICK after \in IF failed THEN {was} ELSE Outcomes(call, was) :
            items' = [items EXCEPT ![b][id] = after]
    BY DEF MineTx
  <1>2. n \in DOMAIN pool[g]
    BY DEF MineTx
  <1>3. id \in 1..Total(g) /\ call \in CallsOf(kind[g])
    BY <1>2 DEF BotInv, PoolsSound
  <1>4. /\ b \in Books /\ was \in ItemSet /\ Shaped(b, was)
        /\ id \in 1..Len(items[b])
        /\ kind[g] # "mines" => ~was.root
    <2>1. b \in Books /\ was \in ItemSet /\ id \in 1..Len(items[b]) /\ was = Item(g, id)
      BY <1>0, <1>3, BookFacts
    <2>2. Shaped(b, was)
      BY <1>0, <2>1 DEF ItemsShaped
    <2>3. kind[g] # "mines" => ~Item(g, id).root
      BY <1>0, <1>3, ShapeFacts
    <2> QED
      BY <2>1, <2>2, <2>3
  <1>5. BookAllows(was, after)
    <2>1. CASE failed
      BY <1>1, <2>1 DEF BookAllows
    <2>2. CASE ~failed
      <3>1. after \in Outcomes(call, was) /\ ~Reverts(call, was)
        BY <1>1, <2>2
      <3> HIDE DEF n, call, id, b, was, failed
      <3> QED
        BY ONLY <3>1, <1>0, <1>3, <1>4, OutcomeAllowed, RevealBotConstants
    <2> QED
      BY <2>1, <2>2
  <1> HIDE DEF n, call, id, b, failed
  <1>6. \A c \in Books : DOMAIN items[c] = 1..Len(items[c])
                         /\ DOMAIN items'[c] = 1..Len(items'[c])
                         /\ Len(items[c]) \in Nat /\ Len(items'[c]) \in Nat
    BY <1>0, LenProperties
  <1>7. \A c \in Books : DOMAIN items'[c] = DOMAIN items[c]
    BY <1>0, <1>1
  <1>8. \A c \in Books : Len(items'[c]) = Len(items[c])
    BY <1>6, <1>7
  <1>9. \A c \in Books : \A j \in 1..Len(items[c]) :
          items'[c][j] = IF c = b /\ j = id THEN after ELSE items[c][j]
    BY <1>0, <1>1, <1>4, <1>6
  <1>10. OnlyItem(b, id, after)
    BY <1>8, <1>9 DEF OnlyItem
  <1> QED
    BY ONLY <1>0, <1>4, <1>5, <1>10, BookChanged

LEMMA BookStep ==
  RevealBotConstants /\ BotInv /\ BotInv' /\ [Next]_vars => [Book!BookNext]_(Book!bookVars)
  <1> SUFFICES ASSUME RevealBotConstants, BotInv, BotInv', [Next]_vars
               PROVE  Book!BookNext
    OBVIOUS
  <1> USE DEF deployVars, chainVars, laneVars, tickVars, memoVars
  <1>1. CASE Tick \/ TickEnds \/ NewBlock \/ Restart
    BY <1>1, BookWaits DEF Tick, TickEnds, NewBlock, Restart
  <1>2. ASSUME NEW other \in OtherGames, PlaceElsewhere(other)
        PROVE  Book!BookNext
    <2>1. /\ items' = [items EXCEPT ![Vault] = Append(@, NewItem(other, 0))] /\ kind' = kind
          /\ Vault \in Books /\ other \in Games \cup OtherGames /\ 0 \in Nat
          /\ BotTypeOK /\ ItemsShaped
      BY <1>2 DEF PlaceElsewhere, Books, BotInv
    <2>2. items \in [Books -> Seq(ItemSet)] /\ items' \in [Books -> Seq(ItemSet)]
      BY DEF BotInv, BotTypeOK
    <2>3. /\ \A c \in Books \ {Vault} : items'[c] = items[c]
          /\ Len(items'[Vault]) = Len(items[Vault]) + 1
          /\ \A j \in 1..Len(items[Vault]) : items'[Vault][j] = items[Vault][j]
          /\ items'[Vault][Len(items[Vault]) + 1].status = "open"
      BY ONLY <2>1, ItemPlaced
    <2> QED
      BY ONLY <2>1, <2>2, <2>3, BookPlaced
  <1>3. ASSUME NEW g \in Games, BotStep(g)
        PROVE  Book!BookNext
    <2>1. items' = items
      BY <1>3 DEF BotStep, Scan, StartJob, SendOk, SendFails, SendReplyLost, Receipt
    <2> QED
      BY <2>1, BookWaits
  <1>4. ASSUME NEW g \in Games, PlayerStep(g)
        PROVE  Book!BookNext
    BY <1>4, BookPlayer
  <1>5. ASSUME NEW g \in Games, MineTx(g)
        PROVE  Book!BookNext
    BY <1>5, BookMined
  <1>6. ASSUME NEW g \in Games, Refuel(g)
        PROVE  Book!BookNext
    BY <1>6, BookWaits DEF Refuel
  <1>7. CASE UNCHANGED vars
    BY <1>7, BookWaits DEF vars
  <1> QED
    BY <1>1, <1>2, <1>3, <1>4, <1>5, <1>6, <1>7 DEF Next

LEMMA BookStarts == Init => Book!BookInit
  <1> SUFFICES ASSUME Init PROVE Book!BookInit
    OBVIOUS
  <1>1. \A b \in Books : items[b] = <<>>
    BY DEF Init
  <1>2. \A b \in Books : DOMAIN items[b] = {}
    <2>1. DOMAIN <<>> = {}
      OBVIOUS
    <2> QED
      BY <1>1, <2>1
  <1>3. \A b \in Books : [id \in DOMAIN items[b] |-> items[b][id].status] = <<>>
    <2> SUFFICES ASSUME NEW b \in Books
                 PROVE  [id \in DOMAIN items[b] |-> items[b][id].status] = <<>>
      OBVIOUS
    <2> DEFINE s == [id \in 1..0 |-> items[b][id].status]
    <2>1. s \in [1..0 -> Statuses]
      OBVIOUS
    <2>2. s \in Seq(Statuses)
      BY <2>1, SeqDef
    <2>3. Len(s) = 0
      <3>1. Len(s) \in Nat /\ DOMAIN s = 1..Len(s)
        BY <2>2, LenProperties
      <3> QED
        BY <3>1
    <2>4. s = <<>>
      BY ONLY <2>2, <2>3, EmptySeq
    <2>5. DOMAIN items[b] = 1..0
      BY <1>2
    <2> QED
      BY <2>4, <2>5
  <1> QED
    BY <1>2, <1>3 DEF Book!BookInit

\* Players, the bot, its retries and restarts, and anyone's refunds keep the
\* casino's book together: every item is taken once and decided once, refunded
\* only late or in the middle of a pick, and never touched after that (settle and
\* refund of the v15 contracts, under the bot of reveal-bot-v15.js).
THEOREM BookIsKeptHolds == Spec => BookIsKept
  BY RevealBotConstants, BotInvHolds, BookStarts, BookStep, PTL DEF Spec, BookIsKept, Book!BookSpec

=============================================================================
