---------------------------- MODULE ZkDealsProofs ----------------------------
(***************************************************************************)
(* Theorems about ZkDeals, for every set of seats and of prompt players,   *)
(* and any number of hands, moves and faults.                              *)
(***************************************************************************)
EXTENDS ZkDeals, FiniteSetTheorems, WellFoundedInduction, TLAPS

DealIds == Nat \ {0}
Phases == {"keys", "shuffle", "holeshares", "prepare"}
Setups ==
  [deal : DealIds, hand : Nat, parts : SUBSET Players, phase : Phases,
   keys : SUBSET Players, turn : Nat, proofs : SUBSET Players,
   forged : SUBSET Players, bad : SUBSET Players, shares : SUBSET Players,
   late : BOOLEAN, predeal : BOOLEAN, prepared : BOOLEAN, preparing : BOOLEAN]
LiveSessions == [deal : DealIds, phase : {"live"}]
Txs == [kind : {"prepare", "start"}, deal : DealIds, hand : Nat, parts : SUBSET Players]

DealsTypeOK ==
  /\ prompt \in SUBSET Players /\ present \in SUBSET Players
  /\ hand \in Nat /\ bound \in Nat /\ file \in Nat
  /\ prep.deal \in Nat
  /\ sess \in [Slots -> Setups \cup LiveSessions \cup {None}]
  /\ next \in Setups \cup {None}
  /\ await \in {"nothing", "prepare", "start"}
  /\ pool \in Seq(Txs)

\* What a deal in preparation has gathered, and whom its clock is for.
SetupFair(s) ==
  /\ s.forged \cap prompt = {} /\ s.bad \subseteq s.forged
  /\ s.shares \cap prompt # {} => s.forged = {}
  /\ s.phase \in {"keys", "shuffle"} => s.shares = {}
  /\ s.phase = "prepare" => s.shares = s.parts
  /\ ~s.predeal /\ s.late /\ s.bad = {} => Missing(s) \cap prompt = {}
  /\ s.prepared \/ s.preparing => s.phase = "prepare"

SetupsFair == \A i \in Slots : sess[i] \in Setups => SetupFair(sess[i])

\* The process works on a deal of its own between hands, on the next one
\* during a hand, and never on both; both are for the hand to come.
Lanes ==
  /\ main \in Setups =>
       /\ ~Live /\ next = None
       /\ main.hand = hand + 1
       /\ ~main.predeal /\ ~main.preparing
  /\ next \in Setups => next.hand = hand + 1
  /\ await # "nothing" => main \in Setups /\ main.phase = "prepare"

\* Where the transaction of a deal is: under way and the last one sent,
\* mined and the last word, or not sent.
Sent(s) ==
  /\ pool # <<>> /\ pool[Len(pool)] = PrepareTx(s)
  /\ \A j \in 1..(Len(pool) - 1) : pool[j].deal # s.deal
Committed(s) == pool = <<>> /\ prep.deal = s.deal
Unsent(s) == \A j \in DOMAIN pool : pool[j].deal # s.deal

Whereabouts ==
  /\ next \in Setups =>
       IF next.preparing THEN Sent(next)
       ELSE IF next.prepared THEN Committed(next) ELSE Unsent(next)
  /\ main \in Setups /\ await = "nothing" =>
       IF main.prepared THEN Committed(main) ELSE Unsent(main)
  /\ await = "prepare" => Sent(main)

\* A start is sent alone, for the deal last committed and persisted; only a
\* restart makes the process forget it.
StartAlone ==
  \A j \in DOMAIN pool : pool[j].kind = "start" =>
    /\ Len(pool) = 1 /\ ~Live
    /\ prep.deal = pool[j].deal /\ file = pool[j].deal
    /\ next = None
    /\ main = None \/ (await = "start" /\ main.deal = pool[j].deal)

\* The keys to a live hand are on disk.
KeysOnDisk == Live /\ ~startLost => file = bound

DealsInv ==
  /\ DealsTypeOK /\ PromptKeepSeats
  /\ SetupsFair /\ Lanes /\ Whereabouts /\ StartAlone /\ KeysOnDisk

-----------------------------------------------------------------------------
\* Seats, counted

\* A non-empty set of naturals has a minimum.
LEMMA MinFacts ==
  ASSUME NEW S \in SUBSET Nat, S # {}
  PROVE  Min(S) \in S /\ \A y \in S : Min(S) <= y
  <1> DEFINE R == OpToRel(<, Nat)
  <1>1. \A x, y \in Nat : y < x => <<y, x>> \in R
    BY DEF OpToRel
  <1>2. IsWellFoundedOn(R, Nat)
    BY NatLessThanWellFounded
  <1> HIDE DEF R
  <1>3. PICK x \in S : \A y \in S : ~ (<<y, x>> \in R)
    BY <1>2, WFMin
  <1>4. ASSUME NEW y \in S PROVE x <= y
    <2>1. x \in Nat /\ y \in Nat
      OBVIOUS
    <2>2. ~ (y < x)
      BY <1>1, <1>3, <2>1
    <2> QED
      BY <2>1, <2>2
  <1> QED
    BY <1>4 DEF Min

\* A non-empty bounded set of naturals has a greatest element.
LEMMA GreatestExists ==
  ASSUME NEW b \in Nat, NEW S \in SUBSET (0..b), S # {}
  PROVE  \E x \in S : \A y \in S : y <= x
  <1> DEFINE T == {b - y : y \in S}
  <1>1. T \in SUBSET Nat /\ T # {}
    <2>1. ASSUME NEW y \in S PROVE b - y \in Nat
      <3>1. y \in 0..b
        OBVIOUS
      <3> QED
        BY <3>1
    <2> QED
      BY <2>1
  <1>2. Min(T) \in T /\ \A z \in T : Min(T) <= z
    BY <1>1, MinFacts
  <1>3. PICK x \in S : Min(T) = b - x
    BY <1>2
  <1>4. ASSUME NEW y \in S PROVE y <= x
    <2>1. x \in 0..b /\ y \in 0..b
      OBVIOUS
    <2>2. b - x <= b - y
      BY <1>2, <1>3
    <2> QED
      BY <2>1, <2>2
  <1> QED
    BY <1>4

\* The seats of S up to p.
UpTo(S, p) == {q \in S : q <= p}

\* How many of the seats there are up to one of them.
LEMMA UpToFacts ==
  ASSUME NEW S \in SUBSET Nat, IsFiniteSet(S), NEW p \in S
  PROVE  /\ IsFiniteSet(UpTo(S, p)) /\ p \in UpTo(S, p)
         /\ Cardinality(UpTo(S, p)) \in 0..Cardinality(S)
         /\ Cardinality(S) \in Nat
         /\ \A r \in S : r < p => Cardinality(UpTo(S, r)) < Cardinality(UpTo(S, p))
  <1>1. UpTo(S, p) \in SUBSET S /\ p \in UpTo(S, p) /\ p \in Nat
    BY DEF UpTo
  <1>2. /\ IsFiniteSet(UpTo(S, p)) /\ Cardinality(UpTo(S, p)) <= Cardinality(S)
        /\ Cardinality(UpTo(S, p)) \in Nat /\ Cardinality(S) \in Nat
    BY <1>1, FS_Subset, FS_CardinalityType
  <1>3. ASSUME NEW r \in S, r < p
        PROVE  Cardinality(UpTo(S, r)) < Cardinality(UpTo(S, p))
    <2>1. r \in Nat
      OBVIOUS
    <2>2. UpTo(S, r) \in SUBSET UpTo(S, p) /\ UpTo(S, r) # UpTo(S, p)
      <3>1. \A q \in S : q <= r => q <= p
        BY <1>1, <1>3, <2>1
      <3>2. p \notin UpTo(S, r)
        BY <1>1, <1>3, <2>1 DEF UpTo
      <3> QED
        BY <1>1, <3>1, <3>2 DEF UpTo
    <2>3. /\ Cardinality(UpTo(S, r)) <= Cardinality(UpTo(S, p))
          /\ Cardinality(UpTo(S, r)) # Cardinality(UpTo(S, p))
          /\ IsFiniteSet(UpTo(S, r))
      BY <1>2, <2>2, FS_Subset
    <2>4. Cardinality(UpTo(S, r)) \in Nat
      BY <2>3, FS_CardinalityType
    <2> QED
      BY <1>2, <2>3, <2>4
  <1> QED
    BY <1>1, <1>2, <1>3

\* The i-th seat of a deal is one of its seats.
LEMMA NthFacts ==
  ASSUME NEW S \in SUBSET Nat, IsFiniteSet(S), NEW i \in 1..Cardinality(S)
  PROVE  Nth(S, i) \in S
  <1> DEFINE c(p) == Cardinality(UpTo(S, p))
             T == {p \in S : c(p) >= i}
  <1>1. Cardinality(S) \in Nat /\ S # {}
    BY FS_CardinalityType, FS_EmptySet
  <1>2. \A p \in S : /\ c(p) \in 0..Cardinality(S)
                     /\ \A r \in S : r < p => c(r) < c(p)
    BY UpToFacts
  <1>3. T # {}
    <2> DEFINE C == {c(p) : p \in S}
    <2>1. C \in SUBSET (0..Cardinality(S)) /\ C # {}
      BY <1>1, <1>2
    <2>2. PICK m \in C : \A y \in C : y <= m
      BY <1>1, <2>1, GreatestExists
    <2>3. PICK p \in S : m = c(p)
      BY <2>2
    <2>4. ASSUME NEW r \in S PROVE r <= p
      <3>1. r \in Nat /\ p \in Nat
        OBVIOUS
      <3>2. c(r) <= c(p)
        BY <2>2, <2>3
      <3>3. c(r) \in Nat /\ c(p) \in Nat
        BY <1>1, <1>2
      <3> HIDE DEF c
      <3>4. ~ (p < r)
        BY <1>2, <3>2, <3>3
      <3> QED
        BY <3>1, <3>4
    <2>5. UpTo(S, p) = S
      BY <2>4 DEF UpTo
    <2> QED
      BY <1>1, <2>5
  <1>4. PICK p \in T : \A y \in T : p <= y
    <2>1. T \in SUBSET Nat
      OBVIOUS
    <2> HIDE DEF T
    <2> QED
      BY <1>3, <2>1, MinFacts
  <1>5. p \in S /\ p \in Nat /\ c(p) >= i /\ c(p) \in Nat
    <2>1. p \in S /\ c(p) >= i
      OBVIOUS
    <2>2. c(p) \in 0..Cardinality(S)
      BY <1>2, <2>1
    <2> HIDE DEF c
    <2> QED
      BY <1>1, <2>1, <2>2
  <1>6. c(p) = i
    <2> SUFFICES ASSUME c(p) > i PROVE FALSE
      BY <1>5
    <2> DEFINE B == UpTo(S, p) \ {p}
    <2>1. IsFiniteSet(UpTo(S, p)) /\ p \in UpTo(S, p)
      BY <1>5, UpToFacts
    <2>2. IsFiniteSet(B) /\ Cardinality(B) = c(p) - 1
      BY <2>1, FS_RemoveElement
    <2>3. B # {}
      <3> HIDE DEF B, c
      <3>1. c(p) - 1 # 0
        BY <1>5
      <3> QED
        BY <2>2, <3>1, FS_EmptySet
    <2>4. B \in SUBSET (0..p) /\ B \in SUBSET S
      <3>1. ASSUME NEW q \in B PROVE q \in 0..p /\ q \in S
        <4>1. q \in S /\ q <= p
          BY DEF UpTo
        <4>2. q \in Nat
          BY <4>1
        <4> QED
          BY <1>5, <4>1, <4>2
      <3> QED
        BY <3>1
    <2> HIDE DEF T
    <2>5. PICK r \in B : \A y \in B : y <= r
      BY <1>5, <2>3, <2>4, GreatestExists
    <2>6. r \in S /\ r \in Nat /\ r < p
      BY <1>5, <2>4 DEF UpTo
    <2>7. UpTo(S, r) = B
      <3>1. ASSUME NEW q \in S PROVE q <= r <=> (q <= p /\ q # p)
        <4>1. q \in Nat
          OBVIOUS
        <4>2. q <= r => q <= p /\ q # p
          BY <1>5, <2>6, <4>1
        <4>3. q <= p /\ q # p => q \in B
          BY DEF UpTo
        <4> QED
          BY <2>5, <4>2, <4>3
      <3> QED
        BY <3>1 DEF UpTo
    <2>8. r \in T
      BY <1>5, <2>2, <2>6, <2>7 DEF T
    <2>9. p <= r
      BY <1>4, <2>8
    <2> QED
      BY <1>5, <2>6, <2>9
  <1>7. \E q \in S : Cardinality({x \in S : x <= q}) = i
    BY <1>5, <1>6 DEF UpTo
  <1> QED
    BY <1>7 DEF Nth

-----------------------------------------------------------------------------
\* Deals and sessions

\* The pool as a sequence of transactions.
LEMMA PoolFacts ==
  ASSUME DealsTypeOK
  PROVE  /\ Len(pool) \in Nat /\ DOMAIN pool = 1..Len(pool)
         /\ \A j \in 1..Len(pool) : pool[j] \in Txs /\ pool[j].deal \in DealIds
         /\ pool # <<>> => Len(pool) > 0
  <1>1. pool \in Seq(Txs)
    BY DEF DealsTypeOK
  <1>2. \A j \in 1..Len(pool) : pool[j] \in Txs
    BY <1>1
  <1> QED
    BY <1>1, <1>2 DEF Txs

\* A fresh deal is nobody's.
LEMMA FreshFacts ==
  ASSUME DealsTypeOK
  PROVE  Fresh \in DealIds /\ Fresh \notin Remembered
  <1> DEFINE n == Len(pool)
             g == [j \in 1..(n + 5) |->
                     IF j <= n THEN pool[j].deal
                     ELSE IF j = n + 1 THEN main.deal
                     ELSE IF j = n + 2 THEN next.deal
                     ELSE IF j = n + 3 THEN bound
                     ELSE IF j = n + 4 THEN prep.deal ELSE file]
             S == (1..(n + 6)) \ Remembered
  <1>1. n \in Nat /\ DOMAIN pool = 1..n
    BY PoolFacts
  <1> HIDE DEF n
  <1>2. \A d \in Remembered : \E j \in 1..(n + 5) : g[j] = d
    <2> TAKE d \in Remembered
    <2>1. CASE \E j \in 1..n : d = pool[j].deal
      BY <1>1, <2>1
    <2>2. CASE d = main.deal
      <3>1. n + 1 \in 1..(n + 5) /\ ~(n + 1 <= n)
        BY <1>1
      <3> QED
        BY <2>2, <3>1
    <2>3. CASE d = next.deal
      <3>1. n + 2 \in 1..(n + 5) /\ ~(n + 2 <= n) /\ n + 2 # n + 1
        BY <1>1
      <3> QED
        BY <2>3, <3>1
    <2>4. CASE d = bound
      <3>1. n + 3 \in 1..(n + 5) /\ ~(n + 3 <= n) /\ n + 3 # n + 1 /\ n + 3 # n + 2
        BY <1>1
      <3> QED
        BY <2>4, <3>1
    <2>5. CASE d = prep.deal
      <3>1. /\ n + 4 \in 1..(n + 5) /\ ~(n + 4 <= n)
            /\ n + 4 # n + 1 /\ n + 4 # n + 2 /\ n + 4 # n + 3
        BY <1>1
      <3> QED
        BY <2>5, <3>1
    <2>6. CASE d = file
      <3>1. /\ n + 5 \in 1..(n + 5) /\ ~(n + 5 <= n)
            /\ n + 5 # n + 1 /\ n + 5 # n + 2 /\ n + 5 # n + 3 /\ n + 5 # n + 4
        BY <1>1
      <3> QED
        BY <2>6, <3>1
    <2> QED
      BY <1>1, <2>1, <2>2, <2>3, <2>4, <2>5, <2>6 DEF Remembered
  <1>3. \A j \in 1..(n + 5) : g[j] \in Remembered
    BY <1>1 DEF Remembered
  <1>4. DOMAIN g = 1..(n + 5)
    OBVIOUS
  <1> HIDE DEF g
  <1>5. g \in [1..(n + 5) -> Remembered]
    <2>1. g = [j \in 1..(n + 5) |-> g[j]]
      BY DEF g
    <2> QED
      BY <1>3, <2>1
  <1>6. g \in Surjection(1..(n + 5), Remembered)
    BY <1>2, <1>5 DEF Surjection
  <1>7. IsFiniteSet(1..(n + 5)) /\ Cardinality(1..(n + 5)) = n + 5
        /\ Cardinality(1..(n + 6)) = n + 6
    <2>1. 1 \in Int /\ n + 5 \in Int /\ n + 6 \in Int /\ ~(1 > n + 5) /\ ~(1 > n + 6)
      BY <1>1
    <2>2. /\ IsFiniteSet(1..(n + 5))
          /\ Cardinality(1..(n + 5)) = (n + 5) - 1 + 1
          /\ Cardinality(1..(n + 6)) = (n + 6) - 1 + 1
      BY <2>1, FS_Interval
    <2> QED
      BY <1>1, <2>2
  <1>8. IsFiniteSet(Remembered) /\ Cardinality(Remembered) <= n + 5
    BY <1>6, <1>7, FS_Surjection
  <1>9. S # {}
    <2> SUFFICES ASSUME S = {} PROVE FALSE
      OBVIOUS
    <2>1. 1..(n + 6) \in SUBSET Remembered
      OBVIOUS
    <2>2. Cardinality(1..(n + 6)) <= Cardinality(Remembered)
      BY <1>8, <2>1, FS_Subset
    <2>3. Cardinality(Remembered) \in Nat
      BY <1>8, FS_CardinalityType
    <2> QED
      BY <1>1, <1>7, <1>8, <2>2, <2>3
  <1>10. S \in SUBSET Nat /\ S \in SUBSET DealIds
    BY <1>1 DEF DealIds
  <1>11. Min(S) \in S
    BY <1>9, <1>10, MinFacts
  <1> QED
    BY <1>10, <1>11 DEF Fresh, n

\* A session is a deal being set up, or a running hand's, or none.
LEMMA SessionKinds ==
  /\ \A s \in Setups : /\ s # None /\ s \notin LiveSessions
                       /\ s.phase \in Phases /\ s.phase \notin {"none", "live"}
                       /\ s.deal \in DealIds
  /\ \A s \in LiveSessions : /\ s # None /\ s \notin Setups /\ s.phase = "live"
                             /\ s.deal \in DealIds
  /\ None.phase = "none" /\ None.deal = 0 /\ None \notin Setups /\ None \notin LiveSessions
  /\ 0 \notin DealIds
  <1>1. \A s \in Setups : s.phase \in Phases /\ s.deal \in DealIds
    BY DEF Setups
  <1>2. \A s \in LiveSessions : s.phase = "live" /\ s.deal \in DealIds
    BY DEF LiveSessions
  <1>3. None.phase = "none" /\ None.deal = 0
    BY DEF None, NoDeal
  <1> QED
    BY <1>1, <1>2, <1>3 DEF Phases, DealIds

\* Whom a phase waits for are seats of the deal.
LEMMA MissingFacts ==
  ASSUME DealsAssumption, NEW s \in Setups
  PROVE  Missing(s) \in SUBSET s.parts /\ s.parts \in SUBSET Players
  <1>1. /\ s.parts \in SUBSET Players /\ s.turn \in Nat /\ IsFiniteSet(s.parts)
        /\ s.parts \in SUBSET Nat
    BY FS_Subset DEF Setups, DealsAssumption
  <1>2. Cardinality(s.parts) \in Nat
    BY <1>1, FS_CardinalityType
  <1>3. s.turn < Cardinality(s.parts) => Nth(s.parts, s.turn + 1) \in s.parts
    <2> SUFFICES ASSUME s.turn < Cardinality(s.parts)
                 PROVE  Nth(s.parts, s.turn + 1) \in s.parts
      OBVIOUS
    <2>1. s.turn + 1 \in 1..Cardinality(s.parts)
      BY <1>1, <1>2
    <2> QED
      BY <1>1, <2>1, NthFacts
  <1> QED
    BY <1>1, <1>3 DEF Missing

\* Nobody prompt is struck.
LEMMA OffenderFacts ==
  ASSUME DealsAssumption, NEW s \in Setups, SetupFair(s), ~s.predeal
  PROVE  Offender(s) \cap prompt = {}
  <1>1. CASE s.bad # {}
    BY <1>1 DEF SetupFair, Offender
  <1>2. CASE s.bad = {} /\ s.late /\ Missing(s) # {}
    <2>1. Missing(s) \in SUBSET Nat
      BY MissingFacts DEF DealsAssumption
    <2>2. Min(Missing(s)) \in Missing(s)
      BY <1>2, <2>1, MinFacts
    <2>3. Missing(s) \cap prompt = {}
      BY <1>2 DEF SetupFair
    <2> QED
      BY <1>2, <2>2, <2>3 DEF Offender
  <1>3. CASE s.bad = {} /\ ~(s.late /\ Missing(s) # {})
    BY <1>3 DEF Offender
  <1> QED
    BY <1>1, <1>2, <1>3

-----------------------------------------------------------------------------
\* The invariant and the steps

\* The two slots, as Set writes them.
LEMMA SetFacts ==
  ASSUME NEW m, NEW n, Set(m, n)
  PROVE  /\ main' = m /\ next' = n
         /\ m \in Setups \cup LiveSessions \cup {None} /\ n \in Setups \cup {None}
              => sess' \in [Slots -> Setups \cup LiveSessions \cup {None}]
         /\ \A i \in Slots : sess'[i] = m \/ sess'[i] = n
  BY DEF Set, main, next, Slots

LEMMA SlotFacts ==
  ASSUME DealsTypeOK
  PROVE  /\ main \in Setups \cup LiveSessions \cup {None}
         /\ next \in Setups \cup {None}
         /\ sess["main"] = main /\ sess["next"] = next
         /\ \A i \in Slots : sess[i] = main \/ sess[i] = next
         /\ Set(main, next) <=> sess' = sess
  BY DEF DealsTypeOK, main, next, Slots, Set

LEMMA DealsInvInit == DealsAssumption /\ Init => DealsInv
  <1> SUFFICES ASSUME DealsAssumption, Init PROVE DealsInv
    OBVIOUS
  <1> USE DEF Init
  <1>1. main = None /\ next = None /\ \A i \in Slots : sess[i] = None
    BY DEF main, next, Slots
  <1>2. bound = 0 /\ ~Live /\ file = 0 /\ prep.deal = 0
    BY SessionKinds DEF Live, NoDeal
  <1>3. pool = <<>> /\ Len(pool) = 0 /\ DOMAIN pool = {}
    OBVIOUS
  <1>4. DealsTypeOK
    <2>1. prompt \in SUBSET Players /\ present \in SUBSET Players
      BY DEF DealsAssumption
    <2>2. sess \in [Slots -> Setups \cup LiveSessions \cup {None}]
      OBVIOUS
    <2> QED
      BY <1>1, <1>2, <1>3, <2>1, <2>2 DEF DealsTypeOK
  <1>5. PromptKeepSeats
    BY DEF PromptKeepSeats
  <1>6. SetupsFair /\ Lanes
    BY <1>1, SessionKinds DEF SetupsFair, Lanes
  <1>7. Whereabouts /\ StartAlone
    BY <1>1, <1>3, SessionKinds DEF Whereabouts, StartAlone
  <1>8. KeysOnDisk
    BY <1>2 DEF KeysOnDisk
  <1> QED
    BY <1>4, <1>5, <1>6, <1>7, <1>8 DEF DealsInv

\* Sessions are dropped, a hand ends, seats come and go: whatever is left is
\* as it was.
LEMMA Dropped ==
  ASSUME DealsInv,
         NEW m \in {main, None}, NEW n \in {next, None}, Set(m, n),
         \/ m = main /\ await' = await
         \/ await' = "nothing" /\ (m = None \/ await = "nothing"),
         UNCHANGED <<prompt, hand, prep, pool>>,
         bound' \in {bound, NoDeal}, startLost' = startLost \/ bound' = NoDeal,
         \/ file' = file
         \/ file' = NoDeal /\ Live /\ bound' = NoDeal,
         present' \in SUBSET Players, PromptKeepSeats'
  PROVE  DealsInv'
  <1> USE DEF DealsInv
  <1>1. main' = m /\ next' = n /\ \A i \in Slots : sess'[i] = m \/ sess'[i] = n
    BY SetFacts
  <1>2. /\ main \in Setups \cup LiveSessions \cup {None} /\ next \in Setups \cup {None}
        /\ SetupFair(main) \/ main \notin Setups
        /\ SetupFair(next) \/ next \notin Setups
    BY SlotFacts DEF SetupsFair, Slots
  <1>3. Live' => Live /\ bound' = bound
    BY DEF Live, NoDeal
  <1>4. DealsTypeOK'
    <2>1. sess' \in [Slots -> Setups \cup LiveSessions \cup {None}]
      BY <1>2, SetFacts
    <2>2. await' \in {"nothing", "prepare", "start"}
      BY DEF DealsTypeOK
    <2>3. bound' \in Nat /\ file' \in Nat
      BY DEF DealsTypeOK, NoDeal
    <2> QED
      BY <1>1, <1>2, <2>1, <2>2, <2>3 DEF DealsTypeOK
  <1>5. SetupsFair'
    <2>1. \A s : SetupFair(s)' <=> SetupFair(s)
      BY DEF SetupFair, Missing
    <2> QED
      BY <1>1, <1>2, <2>1, SessionKinds DEF SetupsFair
  <1>6. Lanes'
    BY <1>1, <1>2, <1>3, SessionKinds DEF Lanes
  <1>7. Whereabouts'
    BY <1>1, <1>2, SessionKinds
       DEF Whereabouts, Sent, Committed, Unsent, PrepareTx, Lanes
  <1>8. StartAlone'
    BY <1>1, <1>3 DEF StartAlone
  <1>9. KeysOnDisk'
    BY <1>3 DEF KeysOnDisk, Live
  <1> QED
    BY <1>4, <1>5, <1>6, <1>7, <1>8, <1>9

\* Work on a deal that leaves it the same deal.
SameDeal(s, t) ==
  /\ t.deal = s.deal /\ t.hand = s.hand /\ t.parts = s.parts
  /\ t.predeal = s.predeal /\ t.prepared = s.prepared /\ t.preparing = s.preparing
  /\ s.phase = "prepare" => t.phase = "prepare"

LEMMA Worked ==
  ASSUME DealsInv, NEW i \in Slots, sess[i] \in Setups, NEW t \in Setups,
         SameDeal(sess[i], t), SetupFair(t), sess' = [sess EXCEPT ![i] = t],
         UNCHANGED <<prompt, present, hand, bound, prep, await, file, pool, startLost>>
  PROVE  DealsInv'
  <1> USE DEF DealsInv
  <1>1. /\ main \in Setups \cup LiveSessions \cup {None} /\ next \in Setups \cup {None}
        /\ DOMAIN sess = Slots
    BY SlotFacts DEF DealsTypeOK
  <1>2. \/ i = "main" /\ main \in Setups /\ main' = t /\ next' = next /\ SameDeal(main, t)
        \/ i = "next" /\ next \in Setups /\ main' = main /\ next' = t /\ SameDeal(next, t)
    BY <1>1 DEF Slots, main, next
  <1>3. DealsTypeOK'
    <2>1. sess' \in [Slots -> Setups \cup LiveSessions \cup {None}]
      BY DEF DealsTypeOK
    <2>2. next' \in Setups \cup {None}
      BY <1>1, <1>2
    <2> QED
      BY <2>1, <2>2 DEF DealsTypeOK
  <1>4. SetupsFair'
    <2>1. \A s : SetupFair(s)' <=> SetupFair(s)
      BY DEF SetupFair, Missing
    <2>2. \A j \in Slots : sess'[j] = sess[j] \/ sess'[j] = t
      BY <1>1
    <2> QED
      BY <2>1, <2>2 DEF SetupsFair
  <1>5. PromptKeepSeats' /\ KeysOnDisk'
    BY DEF PromptKeepSeats, KeysOnDisk, Live
  <1>6. CASE main \in Setups /\ main' = t /\ next' = next /\ SameDeal(main, t)
    <2>1. Lanes'
      BY <1>6 DEF Lanes, SameDeal, Live
    <2>2. Whereabouts'
      BY <1>6 DEF Whereabouts, Sent, Committed, Unsent, PrepareTx, Lanes, SameDeal
    <2>3. StartAlone'
      BY <1>6, SessionKinds DEF StartAlone, SameDeal, Live
    <2> QED
      BY <1>3, <1>4, <1>5, <2>1, <2>2, <2>3
  <1>7. CASE next \in Setups /\ main' = main /\ next' = t /\ SameDeal(next, t)
    <2>1. Lanes'
      BY <1>7, SessionKinds DEF Lanes, SameDeal, Live
    <2>2. Whereabouts'
      BY <1>7, SessionKinds
         DEF Whereabouts, Sent, Committed, Unsent, PrepareTx, Lanes, SameDeal
    <2>3. StartAlone'
      BY <1>7, SessionKinds DEF StartAlone
    <2> QED
      BY <1>3, <1>4, <1>5, <2>1, <2>2, <2>3
  <1> QED
    BY <1>2, <1>6, <1>7

\* A session's answers, deadline and verdict.
LEMMA AnswerStep ==
  ASSUME DealsInv, NEW i \in Slots, NEW p \in Players,
         PostKey(i, p) \/ PostShuffle(i, p) \/ PostShares(i, p)
  PROVE  DealsInv'
  <1> DEFINE s == sess[i]
  <1>1. s \in Setups /\ SetupFair(s)
    <2>1. s.phase \in Phases
      BY DEF PostKey, PostShuffle, PostShares, Phases
    <2>2. s \in Setups
      BY <2>1, SlotFacts, SessionKinds DEF DealsInv, Phases
    <2> QED
      BY <2>2 DEF DealsInv, SetupsFair
  <1> HIDE DEF s
  <1>2. CASE PostKey(i, p)
    <2> DEFINE t == [s EXCEPT !.keys = @ \cup {p}]
    <2>1. s.phase = "keys" /\ sess' = [sess EXCEPT ![i] = t]
          /\ UNCHANGED <<prompt, present, hand, bound, prep, await, file, pool, startLost>>
      BY <1>2 DEF PostKey, Post, chainVars, botVars, s
    <2>2. t \in Setups /\ SameDeal(s, t) /\ t.phase = "keys" /\ t.keys = s.keys \cup {p}
          /\ t.shares = s.shares /\ t.forged = s.forged /\ t.bad = s.bad /\ t.late = s.late
      BY <1>1, <2>1 DEF Setups, SameDeal
    <2> HIDE DEF t
    <2>3. Missing(t) \subseteq Missing(s)
      BY <2>1, <2>2 DEF Missing, SameDeal
    <2>4. SetupFair(t)
      BY <1>1, <2>1, <2>2, <2>3 DEF SetupFair, SameDeal
    <2> QED
      BY <1>1, <2>1, <2>2, <2>4, Worked DEF s
  <1>3. CASE PostShuffle(i, p)
    <2> DEFINE t == [s EXCEPT !.turn = @ + 1, !.late = FALSE]
    <2>1. s.phase = "shuffle" /\ sess' = [sess EXCEPT ![i] = t]
          /\ UNCHANGED <<prompt, present, hand, bound, prep, await, file, pool, startLost>>
      BY <1>3 DEF PostShuffle, Post, chainVars, botVars, s
    <2>2. t \in Setups /\ SameDeal(s, t) /\ t.phase = "shuffle"
          /\ t.shares = s.shares /\ t.forged = s.forged /\ t.bad = s.bad /\ t.late = FALSE
      <3>1. s.turn + 1 \in Nat
        BY <1>1 DEF Setups
      <3>2. t \in Setups
        BY <1>1, <3>1 DEF Setups
      <3> QED
        BY <1>1, <2>1, <3>2 DEF Setups, SameDeal
    <2> HIDE DEF t
    <2>3. SetupFair(t)
      BY <1>1, <2>1, <2>2 DEF SetupFair, SameDeal
    <2> QED
      BY <1>1, <2>1, <2>2, <2>3, Worked DEF s
  <1>4. CASE PostShares(i, p)
    <2> DEFINE t == [s EXCEPT !.shares = @ \cup {p}]
    <2>1. s.phase \in {"holeshares", "prepare"} /\ sess' = [sess EXCEPT ![i] = t]
          /\ p \in s.parts \ s.shares /\ MayShare(s, p)
          /\ UNCHANGED <<prompt, present, hand, bound, prep, await, file, pool, startLost>>
      BY <1>4 DEF PostShares, Post, chainVars, botVars, s
    <2>2. t \in Setups /\ SameDeal(s, t) /\ t.phase = s.phase /\ t.shares = s.shares \cup {p}
          /\ t.forged = s.forged /\ t.bad = s.bad /\ t.late = s.late
      BY <1>1, <2>1 DEF Setups, SameDeal
    <2> HIDE DEF t
    <2>3. Missing(t) \subseteq Missing(s)
      BY <2>1, <2>2 DEF Missing, SameDeal
    <2>4. SetupFair(t)
      BY <1>1, <2>1, <2>2, <2>3 DEF SetupFair, SameDeal, MayShare
    <2> QED
      BY <1>1, <2>1, <2>2, <2>4, Worked DEF s
  <1> QED
    BY <1>2, <1>3, <1>4

LEMMA ProofStep ==
  ASSUME DealsInv, NEW i \in Slots, NEW p \in Players, NEW good \in BOOLEAN,
         PostProof(i, p, good)
  PROVE  DealsInv'
  <1> DEFINE s == sess[i]
             done == s.turn = Cardinality(s.parts) /\ s.proofs \cup {p} = s.parts
             t == [s EXCEPT !.proofs = @ \cup {p},
                            !.forged = IF good THEN @ ELSE @ \cup {p},
                            !.phase = IF done THEN "holeshares" ELSE @,
                            !.late = IF done THEN FALSE ELSE @]
  <1>1. /\ s.phase = "shuffle" /\ sess' = [sess EXCEPT ![i] = t]
        /\ good \/ p \notin prompt
        /\ UNCHANGED <<prompt, present, hand, bound, prep, await, file, pool, startLost>>
    BY DEF PostProof, Post, chainVars, botVars
  <1>2. s \in Setups /\ SetupFair(s)
    BY <1>1, SlotFacts, SessionKinds DEF DealsInv, SetupsFair
  <1> HIDE DEF s, done
  <1>3. /\ t \in Setups /\ SameDeal(s, t)
        /\ t.phase = IF done THEN "holeshares" ELSE "shuffle"
        /\ t.proofs = s.proofs \cup {p} /\ t.turn = s.turn
        /\ t.forged = IF good THEN s.forged ELSE s.forged \cup {p}
        /\ t.shares = s.shares /\ t.bad = s.bad
        /\ t.late = IF done THEN FALSE ELSE s.late
    <2>1. s.late \in BOOLEAN
      BY <1>2 DEF Setups
    <2>2. CASE done
      BY <1>1, <1>2, <2>1, <2>2 DEF Setups, SameDeal, Phases
    <2>3. CASE ~done
      BY <1>1, <1>2, <2>1, <2>3 DEF Setups, SameDeal, Phases
    <2> QED
      BY <2>2, <2>3
  <1> HIDE DEF t
  <1>4. t.late => ~done /\ Missing(t) \subseteq Missing(s)
    BY <1>1, <1>3 DEF Missing, SameDeal
  <1>5. SetupFair(t)
    BY <1>1, <1>2, <1>3, <1>4 DEF SetupFair, SameDeal
  <1> QED
    BY <1>1, <1>2, <1>3, <1>5, Worked DEF s

LEMMA ClockStep ==
  ASSUME DealsInv, NEW i \in Slots, FlagForgery(i) \/ DeadlinePasses(i)
  PROVE  DealsInv'
  <1> DEFINE s == sess[i]
  <1>1. s \in Setups /\ SetupFair(s)
    <2>1. s.phase \in Phases
      BY DEF FlagForgery, DeadlinePasses, Phases
    <2>2. s \in Setups
      BY <2>1, SlotFacts, SessionKinds DEF DealsInv, Phases
    <2> QED
      BY <2>2 DEF DealsInv, SetupsFair
  <1> HIDE DEF s
  <1>2. CASE FlagForgery(i)
    <2>1. PICK p \in s.forged : Post(i, [s EXCEPT !.bad = {p}])
      BY <1>2 DEF FlagForgery, s
    <2> DEFINE t == [s EXCEPT !.bad = {p}]
    <2>2. sess' = [sess EXCEPT ![i] = t]
          /\ UNCHANGED <<prompt, present, hand, bound, prep, await, file, pool, startLost>>
      BY <2>1 DEF Post, chainVars, botVars
    <2>3. t \in Setups /\ SameDeal(s, t) /\ t.phase = s.phase
          /\ t.shares = s.shares /\ t.forged = s.forged /\ t.bad = {p}
      <3>1. {p} \in SUBSET Players
        BY <1>1 DEF Setups
      <3> QED
        BY <1>1, <3>1 DEF Setups, SameDeal
    <2> HIDE DEF t
    <2>4. SetupFair(t)
      BY <1>1, <2>3 DEF SetupFair, SameDeal
    <2> QED
      BY <1>1, <2>2, <2>3, <2>4, Worked DEF s
  <1>3. CASE DeadlinePasses(i)
    <2> DEFINE t == [s EXCEPT !.late = TRUE]
    <2>1. /\ sess' = [sess EXCEPT ![i] = t]
          /\ UNCHANGED <<prompt, present, hand, bound, prep, await, file, pool, startLost>>
          /\ s.predeal \/ s.bad # {} \/ Missing(s) \cap prompt = {}
      BY <1>1, <1>3 DEF DeadlinePasses, Post, chainVars, botVars, s
    <2>2. t \in Setups /\ SameDeal(s, t) /\ t.phase = s.phase /\ t.keys = s.keys
          /\ t.turn = s.turn /\ t.proofs = s.proofs
          /\ t.shares = s.shares /\ t.forged = s.forged /\ t.bad = s.bad
      BY <1>1 DEF Setups, SameDeal
    <2> HIDE DEF t
    <2>3. Missing(t) = Missing(s)
      BY <2>2 DEF Missing, SameDeal
    <2>4. SetupFair(t)
      BY <1>1, <2>1, <2>2, <2>3 DEF SetupFair, SameDeal
    <2> QED
      BY <1>1, <2>1, <2>2, <2>4, Worked DEF s
  <1> QED
    BY <1>2, <1>3

\* No start is under way while the process works on a deal, or has none.
LEMMA NoStart ==
  ASSUME DealsInv,
         Live \/ next # None \/ (main # None /\ await # "start")
  PROVE  \A j \in DOMAIN pool : pool[j].kind # "start"
  BY DEF DealsInv, StartAlone

\* The pre-deal becomes the table's deal, with a clock of its own.
LEMMA TakeNextStep ==
  ASSUME DealsInv, Between, main \notin Setups, main # None \/ next # None,
         Set(TakeNext, None),
         UNCHANGED <<prompt, present, hand, bound, prep, await, pool, startLost>>,
         file' \in {file, NoDeal}
  PROVE  DealsInv'
  <1> DEFINE t == [next EXCEPT !.predeal = FALSE, !.late = FALSE]
  <1> USE DEF DealsInv
  <1>1. main' = TakeNext /\ next' = None /\ \A i \in Slots : sess'[i] \in {TakeNext, None}
    BY SetFacts
  <1>2. ~Live' /\ ~Live /\ await = "nothing" /\ await' = "nothing"
    BY DEF Between, Idle, Live
  <1>3. \A j \in DOMAIN pool : pool[j].kind # "start"
    BY <1>2, NoStart
  <1>4. \/ TakeNext = None
        \/ /\ TakeNext = t /\ t \in Setups /\ SetupFair(t)
           /\ next \in Setups /\ ~next.preparing
           /\ t.deal = next.deal /\ t.hand = next.hand /\ t.prepared = next.prepared
           /\ t.predeal = FALSE /\ t.preparing = FALSE
    <2> SUFFICES ASSUME Takeable
                 PROVE  /\ t \in Setups /\ SetupFair(t)
                        /\ next \in Setups /\ ~next.preparing
                        /\ t.deal = next.deal /\ t.hand = next.hand
                        /\ t.prepared = next.prepared
                        /\ t.predeal = FALSE /\ t.preparing = FALSE
      BY DEF TakeNext
    <2>1. next \in Setups /\ SetupFair(next) /\ ~next.preparing
      BY SlotFacts, SessionKinds DEF Takeable, SetupsFair, Slots
    <2>2. /\ t \in Setups /\ t.deal = next.deal /\ t.hand = next.hand
          /\ t.prepared = next.prepared /\ t.preparing = next.preparing
          /\ t.phase = next.phase /\ t.forged = next.forged /\ t.bad = next.bad
          /\ t.shares = next.shares /\ t.parts = next.parts
      BY <2>1 DEF Setups
    <2>3. t.late = FALSE /\ t.predeal = FALSE
      BY <2>1 DEF Setups
    <2>4. t.preparing = FALSE
      BY <2>1, <2>2 DEF Setups
    <2> HIDE DEF t
    <2>5. SetupFair(t)
      BY <2>1, <2>2, <2>3 DEF SetupFair
    <2> QED
      BY <2>1, <2>2, <2>3, <2>4, <2>5
  <1> HIDE DEF t
  <1>5. DealsTypeOK'
    <2>1. TakeNext \in Setups \cup {None}
      BY <1>4
    <2>2. sess' \in [Slots -> Setups \cup LiveSessions \cup {None}]
      BY <2>1, SetFacts
    <2>3. file' \in Nat
      BY DEF DealsTypeOK, NoDeal
    <2> QED
      BY <1>1, <1>2, <2>2, <2>3 DEF DealsTypeOK
  <1>6. SetupsFair'
    <2>1. \A s : SetupFair(s)' <=> SetupFair(s)
      BY DEF SetupFair, Missing
    <2> QED
      BY <1>1, <1>4, <2>1, SessionKinds DEF SetupsFair
  <1>7. PromptKeepSeats' /\ KeysOnDisk'
    BY <1>2 DEF PromptKeepSeats, KeysOnDisk
  <1>8. Lanes'
    BY <1>1, <1>2, <1>4, SessionKinds DEF Lanes
  <1>9. Whereabouts'
    BY <1>1, <1>2, <1>4, SessionKinds DEF Whereabouts, Committed, Unsent
  <1>10. StartAlone'
    BY <1>3 DEF StartAlone
  <1> QED
    BY <1>5, <1>6, <1>7, <1>8, <1>9, <1>10

\* A session for the seats of the next hand.
LEMMA NewSessionFacts ==
  ASSUME DealsInv, NEW ahead \in BOOLEAN
  PROVE  LET t == NewSession(ahead)
         IN  /\ t \in Setups /\ SetupFair(t) /\ t.hand = hand + 1
             /\ t.predeal = ahead /\ ~t.prepared /\ ~t.preparing
             /\ Unsent(t)
  <1> DEFINE t == NewSession(ahead)
  <1>1. Fresh \in DealIds /\ Fresh \notin Remembered
    BY FreshFacts DEF DealsInv
  <1>2. /\ t \in Setups /\ t.deal = Fresh /\ t.phase = "keys" /\ t.shares = {} /\ t.forged = {}
        /\ t.bad = {} /\ t.late = FALSE /\ t.hand = hand + 1 /\ t.predeal = ahead
        /\ t.prepared = FALSE /\ t.preparing = FALSE
    BY <1>1 DEF NewSession, Setups, Phases, DealsInv, DealsTypeOK
  <1>3. Unsent(t)
    BY <1>1, <1>2 DEF Unsent, Remembered
  <1> HIDE DEF t
  <1>4. SetupFair(t)
    BY <1>2 DEF SetupFair
  <1> QED
    BY <1>2, <1>3, <1>4 DEF t

\* A session is opened in slot i, where there was none that counts.
LEMMA OpenStep ==
  ASSUME DealsInv, OpenSession \/ PredealOpen
  PROVE  DealsInv'
  <1> USE DEF DealsInv
  <1>1. /\ UNCHANGED <<prompt, present, hand, bound, prep, await, file, pool, startLost>>
        /\ await = "nothing" /\ (Live' <=> Live)
    BY DEF OpenSession, PredealOpen, chainVars, botVars, Between, Playing, Idle, Live
  <1>2. PICK t : /\ t \in Setups /\ SetupFair(t) /\ t.hand = hand + 1
                 /\ ~t.prepared /\ ~t.preparing /\ Unsent(t)
                 /\ \/ ~t.predeal /\ OpenSession /\ main' = t /\ next' = None
                       /\ Set(t, None)
                    \/ PredealOpen /\ main' = main /\ next' = t /\ Set(main, t)
    <2>1. CASE OpenSession
      <3> DEFINE t == NewSession(FALSE)
      <3>1. next = None
        BY <2>1, SlotFacts, SessionKinds DEF OpenSession, Preparing, Lanes
      <3>2. Set(t, None)
        BY <2>1, <3>1 DEF OpenSession
      <3>3. /\ t \in Setups /\ SetupFair(t) /\ t.hand = hand + 1
            /\ t.predeal = FALSE /\ ~t.prepared /\ ~t.preparing /\ Unsent(t)
        BY NewSessionFacts
      <3> HIDE DEF t
      <3> QED
        BY <2>1, <3>2, <3>3, SetFacts
    <2>2. CASE PredealOpen
      <3> DEFINE t == NewSession(TRUE)
      <3>1. Set(main, t)
        BY <2>2 DEF PredealOpen
      <3>2. /\ t \in Setups /\ SetupFair(t) /\ t.hand = hand + 1
            /\ ~t.prepared /\ ~t.preparing /\ Unsent(t)
        BY NewSessionFacts
      <3> HIDE DEF t
      <3> QED
        BY <2>2, <3>1, <3>2, SetFacts
    <2> QED
      BY <2>1, <2>2
  <1>3. \A j \in DOMAIN pool : pool[j].kind # "start"
    <2>1. CASE OpenSession
      BY <2>1 DEF OpenSession, NoOrphanStart
    <2>2. CASE PredealOpen
      BY <2>2, NoStart DEF PredealOpen, Playing
    <2> QED
      BY <2>1, <2>2
  <1>4. /\ sess' \in [Slots -> Setups \cup LiveSessions \cup {None}]
        /\ \A i \in Slots : sess'[i] \in {main, t, None}
    BY <1>2, SetFacts, SlotFacts
  <1>5. DealsTypeOK'
    <2>1. next' \in Setups \cup {None}
      BY <1>2
    <2> QED
      BY <1>1, <1>4, <2>1 DEF DealsTypeOK
  <1>6. SetupsFair'
    <2>1. \A s : SetupFair(s)' <=> SetupFair(s)
      BY <1>1 DEF SetupFair, Missing
    <2>2. main \in Setups => SetupFair(main)
      BY SlotFacts DEF SetupsFair, Slots
    <2> QED
      BY <1>2, <1>4, <2>1, <2>2, SessionKinds DEF SetupsFair
  <1>7. PromptKeepSeats' /\ KeysOnDisk' /\ StartAlone'
    BY <1>1, <1>3 DEF PromptKeepSeats, KeysOnDisk, StartAlone
  <1>8. CASE ~t.predeal /\ OpenSession /\ main' = t /\ next' = None
    <2>1. ~Live
      BY <1>8 DEF OpenSession, Between
    <2>2. Lanes' /\ Whereabouts'
      BY <1>1, <1>2, <1>8, <2>1, SessionKinds DEF Lanes, Whereabouts, Unsent
    <2> QED
      BY <1>5, <1>6, <1>7, <2>2
  <1>9. CASE PredealOpen /\ main' = main /\ next' = t
    <2>1. main \notin Setups
      BY <1>9 DEF PredealOpen, Playing, Lanes
    <2>2. Lanes' /\ Whereabouts'
      BY <1>1, <1>2, <1>9, <2>1 DEF Lanes, Whereabouts, Unsent
    <2> QED
      BY <1>5, <1>6, <1>7, <2>2
  <1> QED
    BY <1>2, <1>8, <1>9

LEMMA KeysStep ==
  ASSUME DealsInv, KeysComplete \/ PredealKeys
  PROVE  DealsInv'
  <1>1. PICK i \in Slots : /\ sess[i].phase = "keys"
                           /\ sess' = [sess EXCEPT ![i] = ToShuffle(sess[i])]
    <2>1. DOMAIN sess = Slots
      BY DEF DealsInv, DealsTypeOK
    <2>2. CASE KeysComplete
      <3>1. main.phase = "keys" /\ Set(ToShuffle(main), next)
        BY <2>2 DEF KeysComplete, KeysIn
      <3>2. sess' = [sess EXCEPT !["main"] = ToShuffle(main)]
        BY <2>1, <3>1 DEF Set, main, next, Slots
      <3> QED
        BY <3>1, <3>2 DEF main, Slots
    <2>3. CASE PredealKeys
      <3>1. next.phase = "keys" /\ Set(main, ToShuffle(next))
        BY <2>3 DEF PredealKeys, KeysIn
      <3>2. sess' = [sess EXCEPT !["next"] = ToShuffle(next)]
        BY <2>1, <3>1 DEF Set, main, next, Slots
      <3> QED
        BY <3>1, <3>2 DEF next, Slots
    <2> QED
      BY <2>2, <2>3
  <1> DEFINE s == sess[i]
             t == ToShuffle(s)
  <1>2. s \in Setups /\ SetupFair(s)
    BY <1>1, SlotFacts, SessionKinds DEF DealsInv, SetupsFair
  <1> HIDE DEF s
  <1>3. /\ t \in Setups /\ SameDeal(s, t) /\ t.phase = "shuffle" /\ t.late = FALSE
        /\ t.shares = s.shares /\ t.forged = s.forged /\ t.bad = s.bad
    <2>1. t \in Setups
      BY <1>2 DEF ToShuffle, Setups, Phases
    <2> QED
      BY <1>1, <1>2, <2>1 DEF ToShuffle, Setups, SameDeal, s
  <1>4. s.phase = "keys" /\ sess' = [sess EXCEPT ![i] = t]
    BY <1>1 DEF s
  <1> HIDE DEF t
  <1>5. SetupFair(t)
    BY <1>2, <1>3, <1>4 DEF SetupFair, SameDeal
  <1>6. UNCHANGED <<prompt, present, hand, bound, prep, await, file, pool, startLost>>
    BY DEF KeysComplete, PredealKeys, chainVars, botVars
  <1> QED
    BY <1>2, <1>3, <1>4, <1>5, <1>6, Worked DEF s

LEMMA RecoverStep ==
  ASSUME DealsInv, RecoverSession
  PROVE  DealsInv'
  <1> USE DEF DealsInv
  <1>1. /\ UNCHANGED <<prompt, present, hand, bound, prep, await, file, pool, startLost>>
        /\ await = "nothing" /\ Live /\ Live' /\ file = bound
        /\ main' = LiveSession(bound) /\ next' = next
        /\ Set(LiveSession(bound), next)
        /\ \A i \in Slots : sess'[i] \in {LiveSession(bound), next}
    BY SetFacts DEF RecoverSession, chainVars, botVars, Idle, Live
  <1>2. LiveSession(bound) \in LiveSessions
    BY <1>1 DEF Live, NoDeal, LiveSession, LiveSessions, DealIds, DealsTypeOK
  <1>3. \A j \in DOMAIN pool : pool[j].kind # "start"
    BY <1>1, NoStart
  <1>4. DealsTypeOK'
    BY <1>1, <1>2, SetFacts, SlotFacts DEF DealsTypeOK
  <1>5. SetupsFair'
    <2>1. \A s : SetupFair(s)' <=> SetupFair(s)
      BY <1>1 DEF SetupFair, Missing
    <2>2. next \in Setups => SetupFair(next)
      BY SlotFacts DEF SetupsFair, Slots
    <2> QED
      BY <1>1, <1>2, <2>1, <2>2, SessionKinds DEF SetupsFair
  <1>6. PromptKeepSeats' /\ KeysOnDisk' /\ StartAlone'
    BY <1>1, <1>3 DEF PromptKeepSeats, KeysOnDisk, StartAlone
  <1>7. Lanes' /\ Whereabouts'
    BY <1>1, <1>2, SessionKinds
       DEF Lanes, Whereabouts, Sent, Committed, Unsent, PrepareTx
  <1> QED
    BY <1>4, <1>5, <1>6, <1>7

-----------------------------------------------------------------------------
\* Transactions

LEMMA TxFacts ==
  ASSUME NEW s \in Setups
  PROVE  /\ PrepareTx(s) \in Txs /\ StartTx(s) \in Txs
         /\ PrepareTx(s).kind = "prepare" /\ StartTx(s).kind = "start"
         /\ PrepareTx(s).deal = s.deal /\ StartTx(s).deal = s.deal
         /\ PrepareTx(s).hand = s.hand
  BY DEF PrepareTx, StartTx, Txs, Setups

\* One transaction more, at the end.
LEMMA AppendFacts ==
  ASSUME NEW q \in Seq(Txs), NEW t \in Txs
  PROVE  /\ Append(q, t) \in Seq(Txs) /\ Append(q, t) # <<>>
         /\ Len(q) \in Nat /\ Len(Append(q, t)) = Len(q) + 1
         /\ DOMAIN q = 1..Len(q) /\ DOMAIN Append(q, t) = 1..(Len(q) + 1)
         /\ Append(q, t)[Len(q) + 1] = t
         /\ \A j \in 1..Len(q) : Append(q, t)[j] = q[j]
  OBVIOUS

\* One less, from the front.
LEMMA TailFacts ==
  ASSUME NEW q \in Seq(Txs), q # <<>>
  PROVE  /\ Len(q) \in Nat \ {0} /\ DOMAIN q = 1..Len(q)
         /\ Head(q) = q[1] /\ Head(q) \in Txs
         /\ Tail(q) \in Seq(Txs) /\ Len(Tail(q)) = Len(q) - 1
         /\ DOMAIN Tail(q) = 1..(Len(q) - 1)
         /\ \A j \in 1..(Len(q) - 1) : Tail(q)[j] = q[j + 1]
         /\ Len(q) = 1 => Tail(q) = <<>>
  <1>1. /\ Len(q) \in Nat \ {0} /\ DOMAIN q = 1..Len(q)
        /\ Head(q) = q[1] /\ Head(q) \in Txs
        /\ Tail(q) \in Seq(Txs) /\ Len(Tail(q)) = Len(q) - 1
        /\ DOMAIN Tail(q) = 1..(Len(q) - 1)
        /\ \A j \in 1..(Len(q) - 1) : Tail(q)[j] = q[j + 1]
    OBVIOUS
  <1>2. \A r \in Seq(Txs) : Len(r) = 0 => r = <<>>
    OBVIOUS
  <1> QED
    BY <1>1, <1>2

LEMMA PrepareStep ==
  ASSUME DealsInv, PrepareDeal
  PROVE  DealsInv'
  <1> DEFINE t == [main EXCEPT !.phase = "prepare"]
  <1> USE DEF DealsInv
  <1>1. /\ main \in Setups /\ SetupFair(main) /\ await = "nothing" /\ ~Live /\ next = None
        /\ main.hand = hand + 1 /\ ~main.predeal /\ ~main.preparing
        /\ main.shares = main.parts
    <2>1. main \in Setups /\ await = "nothing" /\ ~Live
      BY SlotFacts, SessionKinds
         DEF PrepareDeal, InTime, Current, Preparing, Between, Idle
    <2>2. SetupFair(main)
      BY <2>1, SlotFacts DEF SetupsFair, Slots
    <2> QED
      BY <2>1, <2>2 DEF Lanes, PrepareDeal, SharesIn, SetupFair
  <1>2. /\ t \in Setups /\ SameDeal(main, t) /\ t.phase = "prepare" /\ t.shares = main.shares
        /\ t.forged = main.forged /\ t.bad = main.bad
    BY <1>1 DEF Setups, Phases, SameDeal
  <1>3. Set(t, None) /\ main' = t /\ next' = None
        /\ UNCHANGED <<prompt, present, hand, bound, prep, startLost>>
    BY <1>1, SetFacts DEF PrepareDeal, chainVars
  <1> HIDE DEF t
  <1>4. SetupFair(t)
    BY <1>1, <1>2 DEF SetupFair, SameDeal, Missing
  <1>5. \A j \in DOMAIN pool : pool[j].kind # "start"
    BY <1>1, SessionKinds, NoStart
  <1>6. pool \in Seq(Txs)
    BY DEF DealsTypeOK
  <1>7. /\ sess' \in [Slots -> Setups \cup LiveSessions \cup {None}]
        /\ \A i \in Slots : sess'[i] \in {t, None}
    BY <1>2, <1>3, SetFacts
  <1>8. SetupsFair'
    <2>1. \A s : SetupFair(s)' <=> SetupFair(s)
      BY <1>3 DEF SetupFair, Missing
    <2> QED
      BY <1>4, <1>7, <2>1, SessionKinds DEF SetupsFair
  <1>9. PromptKeepSeats' /\ KeysOnDisk' /\ ~Live'
    BY <1>1, <1>3 DEF PromptKeepSeats, KeysOnDisk, Live
  <1>10. Lanes'
    BY <1>1, <1>2, <1>3, <1>9, SessionKinds DEF Lanes, SameDeal
  <1>11. CASE main.prepared
    <2>1. /\ await' = "start" /\ pool' = Append(pool, StartTx(main)) /\ file' = main.deal
          /\ pool = <<>> /\ prep.deal = main.deal
      BY <1>1, <1>11 DEF PrepareDeal, Persisted, Whereabouts, Committed
    <2>2. /\ pool' \in Seq(Txs) /\ Len(pool') = 1 /\ DOMAIN pool' = 1..1
          /\ pool'[1].kind = "start" /\ pool'[1].deal = main.deal
      BY <1>1, <2>1, TxFacts, AppendFacts
    <2>3. DealsTypeOK'
      BY <1>1, <1>3, <1>7, <2>1, <2>2, SessionKinds DEF DealsTypeOK, DealIds
    <2>4. Whereabouts'
      BY <1>3, <2>1, SessionKinds DEF Whereabouts
    <2>5. StartAlone'
      BY <1>2, <1>3, <1>9, <2>1, <2>2 DEF StartAlone, SameDeal
    <2> QED
      BY <1>8, <1>9, <1>10, <2>3, <2>4, <2>5
  <1>12. CASE ~main.prepared
    <2>1. /\ await' = "prepare" /\ pool' = Append(pool, PrepareTx(main)) /\ file' = file
          /\ Unsent(main)
      BY <1>1, <1>12 DEF PrepareDeal, Whereabouts
    <2>2. PrepareTx(main) \in Txs /\ PrepareTx(main).kind = "prepare"
          /\ PrepareTx(t) = PrepareTx(main)
      BY <1>1, <1>2, TxFacts DEF PrepareTx, SameDeal
    <2>3. /\ pool' \in Seq(Txs) /\ pool' # <<>>
          /\ Len(pool) \in Nat /\ Len(pool') = Len(pool) + 1
          /\ DOMAIN pool = 1..Len(pool) /\ DOMAIN pool' = 1..(Len(pool) + 1)
          /\ pool'[Len(pool) + 1] = PrepareTx(main)
          /\ \A j \in 1..Len(pool) : pool'[j] = pool[j]
      BY <1>6, <2>1, <2>2, AppendFacts
    <2>4. DealsTypeOK'
      BY <1>1, <1>3, <1>7, <2>1, <2>3 DEF DealsTypeOK
    <2>5. Sent(main)'
      BY <1>2, <1>3, <2>1, <2>2, <2>3 DEF Sent, Unsent, SameDeal, PrepareTx
    <2>6. Whereabouts'
      BY <1>3, <2>1, <2>5, SessionKinds DEF Whereabouts
    <2>7. StartAlone'
      BY <1>5, <2>2, <2>3 DEF StartAlone
    <2> QED
      BY <1>8, <1>9, <1>10, <2>4, <2>6, <2>7
  <1> QED
    BY <1>11, <1>12

LEMMA PredealPrepareStep ==
  ASSUME DealsInv, PredealPrepare
  PROVE  DealsInv'
  <1> DEFINE t == [next EXCEPT !.phase = "prepare", !.preparing = TRUE]
  <1> USE DEF DealsInv
  <1>1. /\ next \in Setups /\ SetupFair(next) /\ await = "nothing" /\ Live
        /\ main \notin Setups /\ main # None
        /\ ~next.prepared /\ ~next.preparing /\ next.shares = next.parts
    <2>1. next \in Setups /\ await = "nothing" /\ Live /\ main \notin Setups
          /\ main = LiveSession(bound) /\ ~next.prepared /\ ~next.preparing
      BY SlotFacts, SessionKinds
         DEF PredealPrepare, Playing, Idle, SharesIn, Lanes, LiveSession
    <2>2. SetupFair(next)
      BY <2>1, SlotFacts DEF SetupsFair, Slots
    <2>3. main # None
      BY <2>1 DEF LiveSession, None
    <2> QED
      BY <2>1, <2>2, <2>3 DEF PredealPrepare, SharesIn, SetupFair
  <1>2. /\ t \in Setups /\ t.phase = "prepare" /\ t.shares = next.shares
        /\ t.forged = next.forged /\ t.bad = next.bad /\ t.parts = next.parts
        /\ t.deal = next.deal /\ t.hand = next.hand /\ t.preparing = TRUE
        /\ t.predeal = next.predeal
    <2>1. "prepare" \in Phases
      BY DEF Phases
    <2>2. t \in Setups
      BY <1>1, <2>1 DEF Setups
    <2> QED
      BY <1>1, <2>2 DEF Setups
  <1>3. Set(main, t) /\ main' = main /\ next' = t
        /\ pool' = Append(pool, PrepareTx(next))
        /\ UNCHANGED <<prompt, present, hand, bound, prep, await, file, startLost>>
    BY SetFacts DEF PredealPrepare, chainVars
  <1> HIDE DEF t
  <1>4. SetupFair(t)
    BY <1>1, <1>2 DEF SetupFair, Missing
  <1>5. \A j \in DOMAIN pool : pool[j].kind # "start"
    BY <1>1, NoStart
  <1>6. pool \in Seq(Txs)
    BY DEF DealsTypeOK
  <1>7. /\ sess' \in [Slots -> Setups \cup LiveSessions \cup {None}]
        /\ \A i \in Slots : sess'[i] \in {main, t}
    BY <1>2, <1>3, SetFacts, SlotFacts
  <1>8. SetupsFair'
    <2>1. \A s : SetupFair(s)' <=> SetupFair(s)
      BY <1>3 DEF SetupFair, Missing
    <2> QED
      BY <1>1, <1>4, <1>7, <2>1, SessionKinds DEF SetupsFair
  <1>9. PromptKeepSeats' /\ KeysOnDisk' /\ Live'
    BY <1>1, <1>3 DEF PromptKeepSeats, KeysOnDisk, Live
  <1>10. Lanes'
    BY <1>1, <1>2, <1>3, <1>9, SessionKinds DEF Lanes
  <1>11. PrepareTx(next) \in Txs /\ PrepareTx(next).kind = "prepare"
         /\ PrepareTx(t) = PrepareTx(next)
    BY <1>1, <1>2, TxFacts DEF PrepareTx
  <1>12. /\ pool' \in Seq(Txs) /\ pool' # <<>>
         /\ Len(pool) \in Nat /\ Len(pool') = Len(pool) + 1
         /\ DOMAIN pool = 1..Len(pool) /\ DOMAIN pool' = 1..(Len(pool) + 1)
         /\ pool'[Len(pool) + 1] = PrepareTx(next)
         /\ \A j \in 1..Len(pool) : pool'[j] = pool[j]
    BY <1>6, <1>3, <1>11, AppendFacts
  <1>13. DealsTypeOK'
    BY <1>2, <1>3, <1>7, <1>12 DEF DealsTypeOK
  <1>14. Sent(next)'
    <2>1. Unsent(next)
      BY <1>1 DEF Whereabouts
    <2> QED
      BY <1>2, <1>3, <1>11, <1>12, <2>1 DEF Sent, Unsent, PrepareTx
  <1>15. Whereabouts'
    BY <1>1, <1>2, <1>3, <1>14 DEF Whereabouts
  <1>16. StartAlone'
    BY <1>5, <1>11, <1>12 DEF StartAlone
  <1> QED
    BY <1>8, <1>9, <1>10, <1>13, <1>15, <1>16

\* What the chain makes of transaction t.
Effect(t, ok) ==
  /\ \/ UNCHANGED <<hand, bound, prep>>
     \/ /\ t.kind = "prepare" /\ prep'.deal = t.deal
        /\ UNCHANGED <<hand, bound>>
     \/ /\ t.kind = "start" /\ Startable(t)
        /\ bound' = prep.deal /\ hand' = hand + 1 /\ prep' = None
        /\ ok \/ startLost'
  /\ ok /\ t.kind = "prepare" /\ t.hand = hand + 1 => prep'.deal = t.deal
  /\ ok /\ t.kind = "prepare" => UNCHANGED <<hand, bound>>
  /\ ok /\ t.kind = "start" => bound' = prep.deal /\ hand' = hand + 1 /\ prep' = None
  /\ startLost => startLost'

LEMMA EffectTypes ==
  ASSUME DealsInv, NEW t \in Txs, NEW ok \in BOOLEAN, Effect(t, ok)
  PROVE  /\ hand' \in Nat /\ bound' \in Nat /\ prep'.deal \in Nat
         /\ t.kind = "prepare" => UNCHANGED <<hand, bound>>
         /\ t.deal \in DealIds /\ t.deal # 0
         /\ t.kind \in {"prepare", "start"}
  <1>1. t.deal \in DealIds /\ t.kind \in {"prepare", "start"}
    BY DEF Txs
  <1> QED
    BY <1>1, SessionKinds DEF Effect, DealsInv, DealsTypeOK, DealIds

\* The process waits for this transaction.
LEMMA AwaitedStep ==
  ASSUME DealsInv, pool # <<>>, NEW ok \in BOOLEAN, NEW t \in Txs, t = Head(pool),
         await = t.kind, main.deal = t.deal, Outcome(t, ok), Effect(t, ok),
         UNCHANGED <<prompt, present>>
  PROVE  DealsInv'
  <1> USE DEF DealsInv
  <1>1. /\ pool \in Seq(Txs) /\ Len(pool) \in Nat \ {0} /\ DOMAIN pool = 1..Len(pool)
        /\ t = pool[1] /\ Tail(pool) \in Seq(Txs)
        /\ Len(pool) = 1 => Tail(pool) = <<>>
    BY TailFacts DEF DealsTypeOK
  <1>2. /\ hand' \in Nat /\ bound' \in Nat /\ prep'.deal \in Nat
        /\ t.kind = "prepare" => UNCHANGED <<hand, bound>>
        /\ t.deal \in DealIds /\ t.deal # 0
        /\ t.kind \in {"prepare", "start"}
    BY EffectTypes
  <1>3. /\ main \in Setups /\ main.phase = "prepare" /\ ~Live /\ next = None
        /\ main.hand = hand + 1 /\ SetupFair(main) /\ ~main.predeal /\ ~main.preparing
    BY <1>2, SlotFacts DEF Lanes, SetupsFair, Slots
  <1>4. Len(pool) = 1 /\ Tail(pool) = <<>>
    <2>1. CASE t.kind = "prepare"
      <3>1. ~ (1 \in 1..(Len(pool) - 1))
        BY <1>1, <2>1 DEF Whereabouts, Sent
      <3> QED
        BY <1>1, <3>1
    <2>2. CASE t.kind = "start"
      BY <1>1, <2>2 DEF StartAlone
    <2> QED
      BY <1>2, <2>1, <2>2
  <1>5. \A s : SetupFair(s)' <=> SetupFair(s)
    BY DEF SetupFair, Missing
  <1>6. PromptKeepSeats'
    BY DEF PromptKeepSeats
  <1>7. CASE ~ok
    <2>1. /\ Set(None, None) /\ file' = 0 /\ await' = "nothing" /\ pool' = <<>>
          /\ main' = None /\ next' = None /\ \A i \in Slots : sess'[i] = None
          /\ sess' \in [Slots -> Setups \cup LiveSessions \cup {None}]
      BY <1>3, <1>4, <1>7, SetFacts DEF Outcome, NoDeal
    <2>2. DealsTypeOK'
      BY <1>2, <2>1 DEF DealsTypeOK
    <2>3. SetupsFair' /\ Lanes' /\ Whereabouts' /\ StartAlone'
      BY <2>1, SessionKinds DEF SetupsFair, Lanes, Whereabouts, StartAlone
    <2>4. KeysOnDisk'
      BY <1>3, <1>7 DEF KeysOnDisk, Effect, Live
    <2> QED
      BY <1>6, <2>2, <2>3, <2>4
  <1>8. CASE ok /\ t.kind = "prepare"
    <2> DEFINE m == [main EXCEPT !.prepared = TRUE]
    <2>1. /\ Set(m, None) /\ file' = main.deal /\ await' = "start"
          /\ pool' = Append(<<>>, StartTx(main))
      BY <1>3, <1>4, <1>8 DEF Outcome, Persisted
    <2>2. t = PrepareTx(main)
      BY <1>1, <1>4, <1>8 DEF Whereabouts, Sent
    <2>3. prep'.deal = main.deal /\ UNCHANGED <<hand, bound>>
      BY <1>2, <1>3, <1>8, <2>2, TxFacts DEF Effect
    <2>4. /\ m \in Setups /\ SameDeal([m EXCEPT !.prepared = main.prepared], main)
          /\ m.phase = "prepare" /\ m.deal = main.deal
          /\ m.hand = main.hand /\ m.predeal = main.predeal /\ m.preparing = main.preparing
          /\ m.forged = main.forged /\ m.bad = main.bad /\ m.shares = main.shares
          /\ m.parts = main.parts
      BY <1>3 DEF Setups, SameDeal
    <2>5. /\ pool' \in Seq(Txs) /\ Len(pool') = 1 /\ DOMAIN pool' = 1..1
          /\ pool'[1].kind = "start" /\ pool'[1].deal = main.deal
      BY <1>3, <2>1, TxFacts, AppendFacts
    <2> HIDE DEF m
    <2>6. /\ main' = m /\ next' = None /\ \A i \in Slots : sess'[i] \in {m, None}
          /\ sess' \in [Slots -> Setups \cup LiveSessions \cup {None}]
      BY <2>1, <2>4, SetFacts
    <2>7. DealsTypeOK'
      BY <1>2, <1>3, <2>1, <2>5, <2>6, SessionKinds DEF DealsTypeOK, DealIds
    <2>8. SetupFair(m)
      BY <1>3, <2>4 DEF SetupFair, Missing
    <2>9. SetupsFair'
      BY <1>5, <2>6, <2>8, SessionKinds DEF SetupsFair
    <2>10. ~Live' /\ KeysOnDisk'
      BY <1>3, <2>3 DEF KeysOnDisk, Live
    <2>11. Lanes' /\ Whereabouts'
      BY <1>3, <2>1, <2>3, <2>4, <2>6, <2>10, SessionKinds DEF Lanes, Whereabouts
    <2>12. StartAlone'
      BY <2>1, <2>3, <2>4, <2>5, <2>6, <2>10 DEF StartAlone
    <2> QED
      BY <1>6, <2>7, <2>9, <2>10, <2>11, <2>12
  <1>9. CASE ok /\ t.kind = "start"
    <2>1. /\ Set(LiveSession(main.deal), None) /\ file' = file /\ await' = "nothing"
          /\ pool' = <<>>
      BY <1>3, <1>4, <1>9 DEF Outcome
    <2>2. bound' = prep.deal /\ prep.deal = t.deal /\ file = t.deal
      BY <1>1, <1>9 DEF Effect, StartAlone
    <2>3. LiveSession(main.deal) \in LiveSessions
      BY <1>2 DEF LiveSession, LiveSessions
    <2>4. /\ main' = LiveSession(main.deal) /\ next' = None
          /\ \A i \in Slots : sess'[i] \in {LiveSession(main.deal), None}
          /\ sess' \in [Slots -> Setups \cup LiveSessions \cup {None}]
      BY <2>1, <2>3, SetFacts
    <2>5. DealsTypeOK'
      BY <1>2, <2>1, <2>4 DEF DealsTypeOK
    <2>6. SetupsFair' /\ Lanes' /\ Whereabouts' /\ StartAlone'
      BY <2>1, <2>3, <2>4, SessionKinds DEF SetupsFair, Lanes, Whereabouts, StartAlone
    <2>7. KeysOnDisk'
      BY <2>1, <2>2 DEF KeysOnDisk
    <2> QED
      BY <1>6, <2>5, <2>6, <2>7
  <1> QED
    BY <1>2, <1>7, <1>8, <1>9

\* It does not wait for it.
LEMMA UnawaitedStep ==
  ASSUME DealsInv, pool # <<>>, NEW ok \in BOOLEAN, NEW t \in Txs, t = Head(pool),
         ~(await = t.kind /\ main.deal = t.deal), Outcome(t, ok), Effect(t, ok),
         UNCHANGED <<prompt, present>>
  PROVE  DealsInv'
  <1> USE DEF DealsInv
  <1>1. /\ pool \in Seq(Txs) /\ Len(pool) \in Nat \ {0} /\ DOMAIN pool = 1..Len(pool)
        /\ t = pool[1] /\ Tail(pool) \in Seq(Txs)
        /\ Len(pool) = 1 => Tail(pool) = <<>>
        /\ Len(Tail(pool)) = Len(pool) - 1
        /\ DOMAIN Tail(pool) = 1..(Len(pool) - 1)
        /\ \A j \in 1..(Len(pool) - 1) : Tail(pool)[j] = pool[j + 1]
    BY TailFacts DEF DealsTypeOK
  <1>2. /\ hand' \in Nat /\ bound' \in Nat /\ prep'.deal \in Nat
        /\ t.kind = "prepare" => UNCHANGED <<hand, bound>>
        /\ t.deal \in DealIds /\ t.deal # 0
        /\ t.kind \in {"prepare", "start"}
    BY EffectTypes
  <1>3. pool' = Tail(pool) /\ UNCHANGED <<await, file>>
    BY DEF Outcome
  <1>4. \A s : SetupFair(s)' <=> SetupFair(s)
    BY DEF SetupFair, Missing
  <1>5. PromptKeepSeats'
    BY DEF PromptKeepSeats
  \* Whatever follows in the pool is a commitment.
  <1>6. StartAlone'
    <2>1. \A j \in 1..(Len(pool) - 1) : pool[j + 1].kind # "start"
      BY <1>1 DEF StartAlone
    <2> QED
      BY <1>1, <1>3, <2>1 DEF StartAlone
  <1>7. CASE t.kind = "start"
    <2>1. main = None /\ next = None /\ await = "nothing" /\ Len(pool) = 1
          /\ prep.deal = file /\ ~Live
      BY <1>1, <1>7, SessionKinds DEF StartAlone, Lanes
    <2>2. sess' = sess /\ main' = None /\ next' = None
      BY <1>2, <2>1, SessionKinds DEF Outcome, main, next
    <2>3. DealsTypeOK'
      BY <1>1, <1>2, <1>3, <2>2 DEF DealsTypeOK
    <2>4. SetupsFair' /\ Lanes' /\ Whereabouts'
      BY <1>3, <1>4, <2>1, <2>2, SessionKinds DEF SetupsFair, Lanes, Whereabouts
    <2>5. KeysOnDisk'
      BY <1>3, <1>7, <2>1 DEF KeysOnDisk, Effect, Live
    <2> QED
      BY <1>5, <1>6, <2>3, <2>4, <2>5
  <1>8. CASE t.kind = "prepare" /\ next.deal # t.deal
    <2>1. sess' = sess /\ main' = main /\ next' = next /\ UNCHANGED <<hand, bound>>
      BY <1>2, <1>8 DEF Outcome, main, next
    <2>2. DealsTypeOK'
      BY <1>1, <1>2, <1>3, <2>1 DEF DealsTypeOK
    <2>3. SetupsFair' /\ Lanes'
      BY <1>3, <1>4, <2>1 DEF SetupsFair, Lanes, Live
    <2>4. KeysOnDisk'
      BY <1>3, <1>8, <2>1 DEF KeysOnDisk, Effect, Live
    <2>5. ASSUME NEW s \in Setups, s.deal # t.deal
          PROVE  /\ Sent(s) => pool' # <<>> /\ pool'[Len(pool')] = PrepareTx(s)
                               /\ \A j \in 1..(Len(pool') - 1) : pool'[j].deal # s.deal
                 /\ ~Committed(s)
                 /\ Unsent(s) => \A j \in DOMAIN pool' : pool'[j].deal # s.deal
      <3>1. ~Committed(s)
        BY DEF Committed
      <3>2. Unsent(s) => \A j \in DOMAIN pool' : pool'[j].deal # s.deal
        BY <1>1, <1>3 DEF Unsent
      <3>3. ASSUME Sent(s)
            PROVE  pool' # <<>> /\ pool'[Len(pool')] = PrepareTx(s)
                   /\ \A j \in 1..(Len(pool') - 1) : pool'[j].deal # s.deal
        <4>1. Len(pool) # 1
          BY <1>1, <2>5, <3>3, TxFacts DEF Sent
        <4>2. Len(pool') = Len(pool) - 1 /\ Len(pool) - 1 \in 1..(Len(pool) - 1)
              /\ (Len(pool) - 1) + 1 = Len(pool)
          BY <1>1, <1>3, <4>1
        <4>3. pool'[Len(pool')] = PrepareTx(s) /\ pool' # <<>>
          <5>1. Tail(pool)[Len(pool) - 1] = pool[Len(pool)]
            BY <1>1, <4>2
          <5>2. pool' # <<>>
            <6>1. Len(pool') # 0
              BY <1>1, <4>2
            <6>2. Len(<<>>) = 0
              OBVIOUS
            <6> QED
              BY ONLY <6>1, <6>2
          <5> QED
            BY <1>3, <3>3, <4>2, <5>1, <5>2 DEF Sent
        <4>4. ASSUME NEW j \in 1..(Len(pool') - 1) PROVE pool'[j].deal # s.deal
          <5>1. j \in 1..(Len(pool) - 1) /\ j + 1 \in 1..(Len(pool) - 1)
            BY <1>1, <4>2
          <5> QED
            BY <1>1, <1>3, <3>3, <5>1 DEF Sent
        <4> QED
          BY <4>3, <4>4
      <3> QED
        BY <3>1, <3>2, <3>3
    <2>6. main \in Setups /\ await = "nothing" => main.deal # t.deal \/ ~Unsent(main)
      BY <1>1 DEF Unsent
    <2>7. main \in Setups /\ await = "nothing" => main.deal # t.deal
      BY <1>1, <2>6 DEF Whereabouts, Committed
    <2>8. await = "prepare" => main \in Setups /\ main.deal # t.deal
      BY <1>8 DEF Lanes
    <2>9. Whereabouts'
      <3>1. next \in Setups => (IF next.preparing THEN Sent(next)
                                ELSE IF next.prepared THEN Committed(next) ELSE Unsent(next))'
        BY <1>8, <2>1, <2>5 DEF Whereabouts, Sent, Committed, Unsent, PrepareTx
      <3>2. main \in Setups /\ await = "nothing" =>
              (IF main.prepared THEN Committed(main) ELSE Unsent(main))'
        BY <2>1, <2>5, <2>7 DEF Whereabouts, Unsent
      <3>3. await = "prepare" => Sent(main)'
        BY <2>1, <2>5, <2>8 DEF Whereabouts, Sent, PrepareTx
      <3> QED
        BY <1>3, <2>1, <3>1, <3>2, <3>3 DEF Whereabouts
    <2> QED
      BY <1>5, <1>6, <2>2, <2>3, <2>4, <2>9
  <1>9. CASE t.kind = "prepare" /\ next.deal = t.deal
    <2> DEFINE n == [next EXCEPT !.prepared = TRUE, !.preparing = FALSE]
    <2>1. next \in Setups /\ SetupFair(next) /\ main \notin Setups /\ await = "nothing"
      BY <1>2, <1>9, SlotFacts, SessionKinds DEF SetupsFair, Slots, Lanes
    <2>2. next.preparing /\ Sent(next)
      BY <1>1, <1>9, <2>1 DEF Whereabouts, Unsent, Committed
    <2>3. Len(pool) = 1 /\ pool' = <<>> /\ t = PrepareTx(next)
      <3>1. ~ (1 \in 1..(Len(pool) - 1))
        BY <1>1, <1>9, <2>2 DEF Sent
      <3>2. Len(pool) = 1
        BY <1>1, <3>1
      <3> QED
        BY <1>1, <1>3, <2>2, <3>2 DEF Sent
    <2>4. UNCHANGED <<hand, bound>>
      BY <1>2, <1>9
    <2>5. KeysOnDisk'
      BY <1>3, <1>9, <2>4 DEF KeysOnDisk, Effect, Live
    <2>7. /\ n \in Setups /\ n.deal = next.deal /\ n.hand = next.hand
          /\ n.preparing = FALSE /\ n.prepared = TRUE
          /\ n.phase = next.phase /\ n.forged = next.forged /\ n.bad = next.bad
          /\ n.shares = next.shares /\ n.parts = next.parts /\ n.predeal = next.predeal
          /\ n.late = next.late /\ n.keys = next.keys /\ n.turn = next.turn
          /\ n.proofs = next.proofs
      <3>1. n \in Setups
        BY <2>1 DEF Setups
      <3> QED
        BY <2>1, <3>1 DEF Setups
    <2>6. \/ ok /\ Set(main, n)
          \/ ~ok /\ Set(main, None)
      <3>1. CASE ok
        BY <1>9, <3>1 DEF Outcome
      <3>2. CASE ~ok
        BY <1>9, <3>2 DEF Outcome
      <3> QED
        BY <3>1, <3>2
    <2> HIDE DEF n
    <2>8. SetupFair(n)
      <3>1. Missing(n) = Missing(next)
        BY <2>7 DEF Missing
      <3>2. next.phase = "prepare"
        BY <2>1, <2>2 DEF SetupFair
      <3> QED
        BY <2>1, <2>7, <3>1, <3>2 DEF SetupFair
    <2>9. PICK k \in {n, None} : Set(main, k) /\ (k = n => ok)
      BY <2>6, <2>7, SessionKinds
    <2>10. /\ main' = main /\ next' = k /\ \A i \in Slots : sess'[i] \in {main, k}
          /\ sess' \in [Slots -> Setups \cup LiveSessions \cup {None}]
      BY <2>7, <2>9, SetFacts, SlotFacts
    <2>11. DealsTypeOK'
      BY <1>1, <1>2, <1>3, <2>7, <2>10 DEF DealsTypeOK
    <2>12. SetupsFair'
      BY <1>4, <2>1, <2>8, <2>10, SessionKinds DEF SetupsFair
    <2>13. Lanes'
      BY <1>3, <2>1, <2>4, <2>7, <2>10, SessionKinds DEF Lanes, Live
    <2>14. k = n => prep'.deal = n.deal
      BY <1>9, <2>1, <2>3, <2>7, <2>9, TxFacts DEF Effect, Lanes
    <2>15. Whereabouts'
      BY <1>3, <2>1, <2>3, <2>7, <2>10, <2>14, SessionKinds DEF Whereabouts, Committed
    <2> QED
      BY <1>5, <1>6, <2>5, <2>11, <2>12, <2>13, <2>15
  <1> QED
    BY <1>2, <1>7, <1>8, <1>9

LEMMA TxStep ==
  ASSUME DealsInv, TxMined \/ TxLost
  PROVE  DealsInv'
  <1> DEFINE t == Head(pool)
  <1>1. pool # <<>> /\ t \in Txs /\ UNCHANGED <<prompt, present>>
    BY TailFacts DEF TxMined, TxLost, DealsInv, DealsTypeOK, chainVars
  <1> HIDE DEF t
  <1>2. \E ok \in BOOLEAN : Outcome(t, ok) /\ Effect(t, ok)
    <2>1. CASE TxMined
      <3>1. /\ Mined(t)
            /\ \/ Outcome(t, Succeeds(t)) /\ UNCHANGED startLost
               \/ /\ Succeeds(t) /\ Outcome(t, FALSE)
                  /\ startLost' = (startLost \/ t.kind = "start")
        BY <2>1 DEF TxMined, t
      <3>2. t.kind = "prepare" \/ t.kind = "start"
        BY <1>1 DEF Txs
      <3>3. CASE t.kind = "prepare"
        <4>1. /\ UNCHANGED <<hand, bound>>
              /\ startLost => startLost'
              /\ \/ UNCHANGED prep
                 \/ prep'.deal = t.deal
              /\ t.hand = hand + 1 => prep'.deal = t.deal
          <5>1. /\ prep' = IF t.hand = hand + 1 THEN [deal |-> t.deal, parts |-> t.parts]
                                                 ELSE prep
                /\ UNCHANGED <<hand, bound>>
            BY <3>1, <3>3 DEF Mined
          <5>2. startLost => startLost'
            BY <3>1
          <5> QED
            BY <5>1, <5>2
        <4>2. ASSUME NEW ok \in BOOLEAN PROVE Effect(t, ok)
          <5>1. \/ UNCHANGED <<hand, bound, prep>>
                \/ t.kind = "prepare" /\ prep'.deal = t.deal /\ UNCHANGED <<hand, bound>>
            BY <3>3, <4>1
          <5>2. t.kind # "start"
            BY <3>3
          <5> QED
            BY <4>1, <5>1, <5>2 DEF Effect
        <4>3. Outcome(t, TRUE) \/ Outcome(t, FALSE)
          <5>1. CASE Succeeds(t)
            BY <3>1, <5>1 DEF Outcome
          <5>2. CASE ~Succeeds(t)
            BY <3>1, <5>2 DEF Outcome
          <5> QED
            BY <5>1, <5>2
        <4> QED
          BY <4>2, <4>3
      <3>4. CASE t.kind = "start" /\ Startable(t)
        <4>1. bound' = prep.deal /\ hand' = hand + 1 /\ prep' = None
          BY <3>1, <3>4 DEF Mined
        <4>2. Succeeds(t)
          BY <3>4 DEF Succeeds
        <4>3. \/ Outcome(t, TRUE) /\ UNCHANGED startLost
              \/ Outcome(t, FALSE) /\ startLost'
          <5>1. CASE Outcome(t, Succeeds(t)) /\ UNCHANGED startLost
            BY <4>2, <5>1 DEF Outcome
          <5>2. CASE Outcome(t, FALSE) /\ startLost' = (startLost \/ t.kind = "start")
            BY <3>4, <5>2
          <5> QED
            BY <3>1, <5>1, <5>2
        <4>4. Effect(t, TRUE) \/ startLost' # startLost
          BY <3>4, <4>1 DEF Effect
        <4>5. startLost' => Effect(t, FALSE)
          BY <3>4, <4>1 DEF Effect
        <4> QED
          BY <4>3, <4>4, <4>5
      <3>5. CASE t.kind = "start" /\ ~Startable(t)
        <4>1. UNCHANGED <<hand, bound, prep>> /\ ~Succeeds(t)
          BY <3>1, <3>5 DEF Mined, Succeeds
        <4>2. Outcome(t, FALSE) /\ UNCHANGED startLost
          <5>1. Outcome(t, Succeeds(t)) /\ UNCHANGED startLost
            BY <3>1, <4>1
          <5> QED
            BY <4>1, <5>1 DEF Outcome
        <4>3. Effect(t, FALSE)
          BY <3>5, <4>1, <4>2 DEF Effect
        <4> QED
          BY <4>2, <4>3
      <3> QED
        BY <3>2, <3>3, <3>4, <3>5
    <2>2. CASE TxLost
      <3>1. Outcome(t, FALSE) /\ UNCHANGED <<hand, bound, prep, startLost>>
        BY <2>2 DEF TxLost, chainVars, t
      <3>2. Effect(t, FALSE)
        BY <3>1 DEF Effect
      <3> QED
        BY <3>1, <3>2
    <2> QED
      BY <2>1, <2>2
  <1> QED
    BY <1>1, <1>2, AwaitedStep, UnawaitedStep DEF t

-----------------------------------------------------------------------------
\* The steps that drop something

LEMMA DropStep ==
  ASSUME DealsAssumption, DealsInv,
         \/ NoGame \/ KeysRetry \/ Strike \/ PredealDrop \/ CancelNoSession
         \/ HandSettled \/ HandCancelled \/ Restart
         \/ \E p \in Players : Leave(p) \/ Return(p)
         \/ UNCHANGED vars
  PROVE  DealsInv'
  <1> USE DEF chainVars, botVars
  <1>1. prompt \in SUBSET Players /\ present \in SUBSET Players /\ prompt \subseteq present
    BY DEF DealsInv, DealsTypeOK, PromptKeepSeats
  <1>2. CASE NoGame \/ KeysRetry
    <2>1. Set(None, next) /\ await = "nothing" /\ await' = "nothing"
          /\ UNCHANGED <<prompt, present, hand, bound, prep, pool, file, startLost>>
      BY <1>2 DEF NoGame, KeysRetry, Between, Idle
    <2> QED
      BY <1>1, <2>1, Dropped DEF PromptKeepSeats
  <1>3. CASE Strike
    <2>1. Set(None, next) /\ await = "nothing" /\ await' = "nothing"
          /\ present' = present \ Offender(main)
          /\ UNCHANGED <<prompt, hand, bound, prep, pool, file, startLost>>
      BY <1>3 DEF Strike, Between, Idle
    <2>2. main \in Setups
      BY <1>3, SlotFacts, SessionKinds
         DEF Strike, Current, Preparing, DealsInv
    <2>3. SetupFair(main) /\ ~main.predeal
      BY <2>2, SlotFacts DEF DealsInv, SetupsFair, Slots, Lanes
    <2>4. Offender(main) \cap prompt = {}
      BY <2>2, <2>3, OffenderFacts
    <2>5. prompt' \subseteq present' /\ present' \in SUBSET Players
      BY <1>1, <2>1, <2>4
    <2> QED
      BY <2>1, <2>5, Dropped DEF PromptKeepSeats
  <1>4. CASE PredealDrop
    <2>1. Set(main, None) /\ await' = await
          /\ UNCHANGED <<prompt, present, hand, bound, prep, pool, file, startLost>>
      BY <1>4 DEF PredealDrop
    <2> QED
      BY <1>1, <2>1, Dropped DEF PromptKeepSeats
  <1>5. CASE CancelNoSession
    <2>1. Set(None, next) /\ await = "nothing" /\ await' = "nothing" /\ bound' = NoDeal
          /\ UNCHANGED <<prompt, present, hand, prep, pool, file>>
      BY <1>5 DEF CancelNoSession, Idle
    <2> QED
      BY <1>1, <2>1, Dropped DEF PromptKeepSeats
  <1>6. CASE HandSettled
    <2>1. Set(main, next) /\ await' = await /\ bound' = NoDeal
          /\ UNCHANGED <<prompt, present, hand, prep, pool, file>>
      BY <1>6, SlotFacts DEF HandSettled, DealsInv
    <2> QED
      BY <1>1, <2>1, Dropped DEF PromptKeepSeats
  <1>7. CASE HandCancelled
    <2>1. Set(None, next) /\ await = "nothing" /\ await' = "nothing" /\ bound' = NoDeal
          /\ Live /\ file' = NoDeal
          /\ UNCHANGED <<prompt, present, hand, prep, pool>>
      BY <1>7 DEF HandCancelled, Playing, Idle
    <2> QED
      BY <1>1, <2>1, Dropped DEF PromptKeepSeats
  <1>8. CASE Restart
    <2>1. Set(None, None) /\ await' = "nothing"
          /\ UNCHANGED <<prompt, present, hand, bound, prep, pool, file, startLost>>
      BY <1>8 DEF Restart, Set
    <2> QED
      BY <1>1, <2>1, Dropped DEF PromptKeepSeats
  <1>9. CASE \E p \in Players : Leave(p) \/ Return(p)
    <2>1. Set(main, next) /\ await' = await
          /\ UNCHANGED <<prompt, hand, bound, prep, pool, file, startLost>>
      BY <1>9, SlotFacts DEF Leave, Return, DealsInv
    <2>2. present' \in SUBSET Players /\ prompt' \subseteq present'
      BY <1>1, <1>9 DEF Leave, Return
    <2> QED
      BY <2>1, <2>2, Dropped DEF PromptKeepSeats
  <1>10. CASE UNCHANGED vars
    <2>1. Set(main, next) /\ await' = await
          /\ UNCHANGED <<prompt, present, hand, bound, prep, pool, file, startLost>>
      BY <1>10, SlotFacts DEF vars, DealsInv
    <2> QED
      BY <1>1, <2>1, Dropped DEF PromptKeepSeats
  <1> QED
    BY <1>2, <1>3, <1>4, <1>5, <1>6, <1>7, <1>8, <1>9, <1>10

LEMMA TakenStep ==
  ASSUME DealsInv, HandEnded \/ AdoptStray
  PROVE  DealsInv'
  <1>1. /\ Between /\ Set(TakeNext, None)
        /\ UNCHANGED <<prompt, present, hand, bound, prep, await, pool, startLost>>
        /\ file' \in {file, NoDeal}
    BY DEF HandEnded, AdoptStray, chainVars, botVars
  <1>2. main \notin Setups /\ (main # None \/ next # None)
    BY SessionKinds, SlotFacts DEF HandEnded, AdoptStray
  <1> QED
    BY <1>1, <1>2, TakeNextStep

LEMMA DealsInvStep == DealsAssumption /\ DealsInv /\ [Next]_vars => DealsInv'
  <1> SUFFICES ASSUME DealsAssumption, DealsInv, [Next]_vars PROVE DealsInv'
    OBVIOUS
  <1>1. CASE BetweenTick
    BY <1>1, DropStep, TakenStep, OpenStep, KeysStep, PrepareStep DEF BetweenTick
  <1>2. CASE PredealTick
    BY <1>2, OpenStep, KeysStep, PredealPrepareStep, DropStep DEF PredealTick
  <1>3. CASE RecoverSession
    BY <1>3, RecoverStep
  <1>4. CASE TxMined \/ TxLost
    BY <1>4, TxStep
  <1>5. CASE \E i \in Slots : \/ DeadlinePasses(i) \/ FlagForgery(i)
                              \/ \E p \in Players : Answer(i, p) \/ PostProof(i, p, FALSE)
    BY <1>5, ClockStep, AnswerStep, ProofStep DEF Answer
  <1>6. CASE \/ CancelNoSession \/ HandSettled \/ HandCancelled \/ Restart
             \/ \E p \in Players : Leave(p) \/ Return(p)
             \/ UNCHANGED vars
    BY <1>6, DropStep
  <1> QED
    BY <1>1, <1>2, <1>3, <1>4, <1>5, <1>6 DEF Next, Tick

LEMMA DealsInvHolds == Spec => []DealsInv
  BY DealsAssumption, DealsInvInit, DealsInvStep, PTL DEF Spec

\* Nobody who stays and answers in time is ever sat out by the coordinator,
\* for any seats and prompt players, whoever else stalls, forges or leaves:
\* a strike (sitOutIdle) falls only on a forger, or on the first seat missing
\* when a deadline of a deal on the table's own clock passes.
THEOREM PromptKeepSeatsHolds == Spec => []PromptKeepSeats
  <1>1. DealsInv => PromptKeepSeats
    BY DEF DealsInv
  <1> QED
    BY <1>1, DealsInvHolds, PTL

\* A deck with a stage that does not verify is never started with a prompt
\* player in the deal: her client withholds its shares (verifyChain), and
\* without them the deal is not committed.
THEOREM ForgedDeckNeverStartsHolds == Spec => []ForgedDeckNeverStarts
  <1>1. DealsInv => ForgedDeckNeverStarts
    <2> SUFFICES ASSUME DealsInv, main.phase = "prepare", main.parts \cap prompt # {}
                 PROVE  main.forged = {}
      BY DEF ForgedDeckNeverStarts
    <2>1. main \in Setups
      BY SlotFacts, SessionKinds DEF DealsInv
    <2> QED
      BY <2>1, SlotFacts DEF DealsInv, SetupsFair, SetupFair, Slots
  <1> QED
    BY <1>1, DealsInvHolds, PTL

\* The deal a live hand is bound to is the one whose session is on disk,
\* whatever was lost or restarted before, unless the receipt of its start was
\* lost: the start binds the deal committed last (ZkTableDealer.startHand),
\* and transactions are mined in the order they were sent.
THEOREM LiveHandServableHolds == Spec => []LiveHandServable
  <1>1. DealsInv => LiveHandServable
    BY DEF DealsInv, KeysOnDisk, LiveHandServable
  <1> QED
    BY <1>1, DealsInvHolds, PTL
=============================================================================
