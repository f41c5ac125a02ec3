------------------------------ MODULE ZkDeals ------------------------------
(***************************************************************************)
(* How the coordinator of a poker table gets from hand to hand             *)
(* (poker-zk-dealer.js between hands, and its pre-deal during one): it     *)
(* opens a session for the seats that would be dealt in, takes a key from  *)
(* each, passes the deck round to be shuffled, takes the proofs and the    *)
(* shares of each other's cards, commits the deal on chain and starts the  *)
(* hand; the next hand's session runs ahead while a hand is live.  What    *)
(* happens inside a live hand is ZkHand's subject: here it just ends.      *)
(*                                                                         *)
(* The process may be restarted, a transaction may be lost or its receipt  *)
(* may (faults); its transactions are mined in the order they were sent.   *)
(* A deal id is the least one nobody remembers.                            *)
(***************************************************************************)
EXTENDS Naturals, Sequences, FiniteSets, FiniteSetsExt

CONSTANTS
  Players,      \* seats, numbers: the deal's order is theirs
  PromptSets,   \* who may be the ones that stay and answer in time
  MaxHands,     \* bound: hands played
  MaxMoves,     \* bound: the others' leaving and coming back
  MaxFaults     \* bound: restarts, lost transactions, lost receipts

ASSUME DealsAssumption ==
  /\ Players \subseteq Nat /\ IsFiniteSet(Players)
  /\ PromptSets \subseteq SUBSET Players
  /\ MaxHands \in Nat /\ MaxMoves \in Nat /\ MaxFaults \in Nat

VARIABLES
  prompt,       \* those who stay and whose clients answer in time
  present,      \* seats that would be dealt into the next hand
  hand, bound,  \* handCounter; the deal of the live hand, 0 between hands
  prep,         \* the last deal committed for hand + 1
  sess,         \* the table's session and the pre-deal session
  skip,         \* no further pre-deal during this hand
  grace,        \* the hand whose keys window was given twice
  await,        \* the transaction the tick waits for
  file,         \* the deal whose session is persisted
  pool,         \* the process's transactions not yet mined
  startLost,    \* the receipt of the live hand's start was lost
  moves, faults

vars == <<prompt, present, hand, bound, prep, sess, skip, grace, await, file, pool,
          startLost, moves, faults>>

NoDeal == 0
Live == bound # NoDeal
None == [deal |-> NoDeal, phase |-> "none"]
Slots == {"main", "next"}
main == sess["main"]
next == sess["next"]

Eligible == Cardinality(present) >= 2

\* The i-th participant of a deal.
Nth(S, i) == CHOOSE p \in S : Cardinality({q \in S : q <= p}) = i

Remembered ==
  {main.deal, next.deal, bound, prep.deal, file}
    \cup {pool[i].deal : i \in DOMAIN pool}
Fresh == Min((1..(Len(pool) + 6)) \ Remembered)

NewSession(ahead) ==
  [deal |-> Fresh, hand |-> hand + 1, parts |-> present, phase |-> "keys",
   keys |-> {}, turn |-> 0, proofs |-> {}, forged |-> {}, bad |-> {},
   shares |-> {}, late |-> FALSE, predeal |-> ahead, prepared |-> FALSE,
   preparing |-> FALSE]

\* A session of a running hand: its setup is behind it.
LiveSession(deal) == [deal |-> deal, phase |-> "live"]

Init ==
  /\ prompt \in PromptSets
  /\ present \in {P \in SUBSET Players : prompt \subseteq P}
  /\ hand = 0 /\ bound = NoDeal /\ prep = None
  /\ sess = [i \in Slots |-> None]
  /\ skip = FALSE /\ grace = 0
  /\ await = "nothing" /\ file = NoDeal /\ pool = <<>>
  /\ startLost = FALSE
  /\ moves = 0 /\ faults = 0

chainVars == <<prompt, present, hand, bound, prep>>
botVars == <<skip, grace, await, file, pool, startLost>>

---------------------------------------------------------------------------
(* Clients: both deals are worked on, each in its own lane.                *)

Post(i, s) ==
  /\ sess' = [sess EXCEPT ![i] = s]
  /\ UNCHANGED <<chainVars, botVars, moves, faults>>

PostKey(i, p) ==
  LET s == sess[i]
  IN  /\ s.phase = "keys" /\ p \in s.parts \ s.keys
      /\ Post(i, [s EXCEPT !.keys = @ \cup {p}])

PostShuffle(i, p) ==
  LET s == sess[i]
  IN  /\ s.phase = "shuffle" /\ s.turn < Cardinality(s.parts)
      /\ p = Nth(s.parts, s.turn + 1)
      /\ Post(i, [s EXCEPT !.turn = @ + 1, !.late = FALSE])

\* A proof is stored before it is verified; the last one ends the phase.
PostProof(i, p, good) ==
  LET s == sess[i]
      done == s.turn = Cardinality(s.parts) /\ s.proofs \cup {p} = s.parts
  IN  /\ s.phase = "shuffle" /\ p \in s.parts \ s.proofs
      /\ \E j \in 1..s.turn : p = Nth(s.parts, j)
      /\ good \/ p \notin prompt
      /\ Post(i, [s EXCEPT !.proofs = @ \cup {p},
                           !.forged = IF good THEN @ ELSE @ \cup {p},
                           !.phase = IF done THEN "holeshares" ELSE @,
                           !.late = IF done THEN FALSE ELSE @])

\* verifyChain: no share for a deck with a stage that does not verify.
\* (MayShareUnverified: the coordinator's word is enough.)
MayShareUnverified(s, p) == TRUE
MayShare(s, p) == p \in prompt => s.forged = {}

PostShares(i, p) ==
  LET s == sess[i]
  IN  /\ s.phase \in {"holeshares", "prepare"} /\ p \in s.parts \ s.shares
      /\ MayShare(s, p)
      /\ Post(i, [s EXCEPT !.shares = @ \cup {p}])

\* The background verification of a stored proof fails.
FlagForgery(i) ==
  LET s == sess[i]
  IN  /\ s.phase \in {"shuffle", "holeshares", "prepare"} /\ s.bad = {}
      /\ \E p \in s.forged : Post(i, [s EXCEPT !.bad = {p}])

Answer(i, p) ==
  PostKey(i, p) \/ PostShuffle(i, p) \/ PostProof(i, p, TRUE) \/ PostShares(i, p)

---------------------------------------------------------------------------
(* Deadlines                                                               *)

\* Whom the phase waits for.  (MissingDecksOnly: once the decks are all in,
\* for nobody.)
MissingDecksOnly(s) ==
  CASE s.phase = "keys" -> s.parts \ s.keys
    [] s.phase = "shuffle" -> IF s.turn < Cardinality(s.parts)
                              THEN {Nth(s.parts, s.turn + 1)} ELSE {}
    [] s.phase = "holeshares" -> s.parts \ s.shares
    [] OTHER -> {}
Missing(s) ==
  CASE s.phase = "keys" -> s.parts \ s.keys
    [] s.phase = "shuffle" -> IF s.turn < Cardinality(s.parts)
                              THEN {Nth(s.parts, s.turn + 1)}
                              ELSE s.parts \ s.proofs
    [] s.phase = "holeshares" -> s.parts \ s.shares
    [] OTHER -> {}

\* The window of a phase outlasts the verification of a proof and a prompt
\* client; of a pre-deal, worked on in the background, not even that.
DeadlinePasses(i) ==
  LET s == sess[i]
  IN  /\ s.phase \in {"keys", "shuffle", "holeshares"} /\ ~s.late
      /\ \/ s.predeal
         \/ IF s.forged = {} THEN Missing(s) \cap prompt = {} ELSE s.bad # {}
      /\ Post(i, [s EXCEPT !.late = TRUE])

---------------------------------------------------------------------------
(* The tick between hands                                                  *)

Idle == await = "nothing"
Between == Idle /\ ~Live

\* _takeNext: the pre-deal is taken over if its shuffles are proven and no
\* transaction of it is under way, with a clock of its own.
\* (TakeNextStale: with the clock it had.)
Takeable == next.phase \in {"holeshares", "prepare"} /\ ~next.preparing
TakeNextStale ==
  IF Takeable THEN [next EXCEPT !.predeal = FALSE] ELSE None
TakeNext ==
  IF Takeable THEN [next EXCEPT !.predeal = FALSE, !.late = FALSE] ELSE None

Set(m, n) == sess' = [i \in Slots |-> IF i = "main" THEN m ELSE n]

HandEnded ==
  /\ Between /\ main.phase = "live"
  /\ Set(TakeNext, None)
  /\ file' = NoDeal /\ skip' = FALSE
  /\ UNCHANGED <<chainVars, grace, await, pool, startLost, moves, faults>>

AdoptStray ==
  /\ Between /\ main = None /\ next # None
  /\ Set(TakeNext, None)
  /\ UNCHANGED <<chainVars, botVars, moves, faults>>

Preparing == main.phase \notin {"none", "live"}
Current == Preparing /\ main.hand = hand + 1 /\ main.parts = present

NoGame ==
  /\ Between /\ ~Eligible /\ Preparing
  /\ Set(None, next)
  /\ UNCHANGED <<chainVars, botVars, moves, faults>>

\* A startHand sent before a restart is mined, or gone, by the time the new
\* process collects a deal of its own (a timing assumption).
NoOrphanStart == \A i \in DOMAIN pool : pool[i].kind # "start"

OpenSession ==
  /\ Between /\ Eligible /\ NoOrphanStart
  /\ (main = None /\ next = None) \/ (Preparing /\ ~Current)
  /\ Set(NewSession(FALSE), next)
  /\ UNCHANGED <<chainVars, botVars, moves, faults>>

\* The offender of the tick: a forger at once, at the deadline the first
\* that is missing.
Offender(s) ==
  IF s.bad # {} THEN s.bad
  ELSE IF s.late /\ Missing(s) # {} THEN {Min(Missing(s))} ELSE {}

\* Once per hand the keys are asked for again instead.
SecondChance == main.bad = {} /\ main.phase = "keys" /\ grace # main.hand

KeysRetry ==
  /\ Between /\ Current /\ Offender(main) # {} /\ SecondChance
  /\ grace' = main.hand
  /\ Set(None, next)
  /\ UNCHANGED <<chainVars, skip, await, file, pool, startLost, moves, faults>>

\* sitOutIdle.  A strike that fails is tried again on the next tick; the
\* third failure tries cancelHand, which reverts between hands.
Strike ==
  /\ Between /\ Current /\ Offender(main) # {} /\ ~SecondChance
  /\ present' = present \ Offender(main)
  /\ Set(None, next)
  /\ UNCHANGED <<prompt, hand, bound, prep, botVars, moves, faults>>

InTime == Between /\ Current /\ Offender(main) = {}

KeysIn(s) == s.phase = "keys" /\ s.keys = s.parts
ToShuffle(s) == [s EXCEPT !.phase = "shuffle", !.late = FALSE]
SharesIn(s) == s.phase = "holeshares" /\ s.shares = s.parts

KeysComplete ==
  /\ InTime /\ KeysIn(main)
  /\ Set(ToShuffle(main), next)
  /\ UNCHANGED <<chainVars, botVars, moves, faults>>

PrepareTx(s) ==
  [kind |-> "prepare", deal |-> s.deal, hand |-> s.hand, parts |-> s.parts]
StartTx(s) == [PrepareTx(s) EXCEPT !.kind = "start"]

\* Commit the deal; when that is done already, persist it and start.
\* (PersistLate: the file is left for after the start.)
PersistLate == NoDeal
Persisted == main.deal

PrepareDeal ==
  /\ InTime
  /\ SharesIn(main) \/ main.phase = "prepare"
  /\ Set([main EXCEPT !.phase = "prepare"], next)
  /\ IF main.prepared
     THEN /\ await' = "start" /\ pool' = Append(pool, StartTx(main))
          /\ file' = Persisted
     ELSE /\ await' = "prepare" /\ pool' = Append(pool, PrepareTx(main))
          /\ UNCHANGED file
  /\ UNCHANGED <<chainVars, skip, grace, startLost, moves, faults>>

---------------------------------------------------------------------------
(* The tick of a live hand                                                 *)

Playing == Idle /\ Live /\ main = LiveSession(bound)

PredealOpen ==
  /\ Playing /\ next = None /\ ~skip /\ Eligible
  /\ Set(main, NewSession(TRUE))
  /\ UNCHANGED <<chainVars, botVars, moves, faults>>

PredealKeys ==
  /\ Playing /\ KeysIn(next)
  /\ Set(main, ToShuffle(next))
  /\ UNCHANGED <<chainVars, botVars, moves, faults>>

\* In the background: the tick does not wait for it.
PredealPrepare ==
  /\ Playing
  /\ SharesIn(next) \/ next.phase = "prepare"
  /\ ~next.prepared /\ ~next.preparing
  /\ Set(main, [next EXCEPT !.phase = "prepare", !.preparing = TRUE])
  /\ pool' = Append(pool, PrepareTx(next))
  /\ UNCHANGED <<chainVars, skip, grace, await, file, startLost, moves, faults>>

\* No strike for a pre-deal that stalls.
PredealDrop ==
  /\ Playing /\ next.phase \in {"keys", "shuffle", "holeshares"} /\ next.late
  /\ ~KeysIn(next) /\ ~SharesIn(next)
  /\ Set(main, None) /\ skip' = TRUE
  /\ UNCHANGED <<chainVars, grace, await, file, pool, startLost, moves, faults>>

RecoverSession ==
  /\ Idle /\ Live /\ main.deal # bound /\ file = bound
  /\ Set(LiveSession(bound), next)
  /\ UNCHANGED <<chainVars, botVars, moves, faults>>

\* cancelHand: every stake goes back.
CancelNoSession ==
  /\ Idle /\ Live /\ main.deal # bound /\ file # bound
  /\ bound' = NoDeal
  /\ Set(None, next)
  /\ skip' = FALSE /\ startLost' = FALSE
  /\ UNCHANGED <<prompt, present, hand, prep, grace, await, file, pool, moves, faults>>

---------------------------------------------------------------------------
(* Transactions                                                            *)

\* What the process does with the outcome of transaction t, if it waits.
Outcome(t, ok) ==
  IF await = t.kind /\ main.deal = t.deal THEN
    CASE ~ok ->
           /\ Set(None, next) /\ file' = NoDeal
           /\ await' = "nothing" /\ pool' = Tail(pool) /\ UNCHANGED skip
      [] ok /\ t.kind = "prepare" ->
           /\ Set([main EXCEPT !.prepared = TRUE], next) /\ file' = Persisted
           /\ await' = "start" /\ pool' = Append(Tail(pool), StartTx(main))
           /\ UNCHANGED skip
      [] OTHER ->
           /\ Set(LiveSession(main.deal), next) /\ skip' = FALSE
           /\ await' = "nothing" /\ pool' = Tail(pool) /\ UNCHANGED file
  ELSE
    /\ IF next.deal # t.deal THEN UNCHANGED <<sess, skip>>
       ELSE IF ok THEN /\ Set(main, [next EXCEPT !.prepared = TRUE, !.preparing = FALSE])
                       /\ UNCHANGED skip
       ELSE Set(main, None) /\ skip' = TRUE
    /\ pool' = Tail(pool)
    /\ UNCHANGED <<await, file>>

\* ZkTableDealer.startHand binds the deal last committed for this hand, if
\* its seats are the ones the room deals to.
Startable(t) == ~Live /\ Eligible /\ prep.deal # NoDeal /\ prep.parts = present

Mined(t) ==
  CASE t.kind = "prepare" ->
         /\ prep' = IF t.hand = hand + 1 THEN [deal |-> t.deal, parts |-> t.parts]
                                         ELSE prep
         /\ UNCHANGED <<hand, bound>>
    [] t.kind = "start" /\ Startable(t) ->
         bound' = prep.deal /\ hand' = hand + 1 /\ prep' = None
    [] OTHER -> UNCHANGED <<prep, hand, bound>>

Succeeds(t) == IF t.kind = "prepare" THEN prep.deal # t.deal ELSE Startable(t)

TxMined ==
  /\ pool # <<>>
  /\ LET t == Head(pool)
     IN  /\ Mined(t)
         /\ \/ Outcome(t, Succeeds(t)) /\ UNCHANGED <<faults, startLost>>
            \/ /\ faults < MaxFaults /\ faults' = faults + 1
               /\ Succeeds(t) /\ Outcome(t, FALSE)
               /\ startLost' = (startLost \/ t.kind = "start")
  /\ UNCHANGED <<prompt, present, grace, moves>>

TxLost ==
  /\ pool # <<>> /\ faults < MaxFaults
  /\ faults' = faults + 1
  /\ Outcome(Head(pool), FALSE)
  /\ UNCHANGED <<chainVars, grace, startLost, moves>>

---------------------------------------------------------------------------
(* The table                                                               *)

\* The hand is settled; or the coordinator calls it off, session and all.
HandSettled ==
  /\ Live /\ hand < MaxHands
  /\ bound' = NoDeal /\ startLost' = FALSE
  /\ UNCHANGED <<prompt, present, hand, prep, sess, skip, grace, await, file, pool,
                 moves, faults>>

HandCancelled ==
  /\ Playing /\ hand < MaxHands
  /\ bound' = NoDeal
  /\ Set(None, next) /\ file' = NoDeal /\ startLost' = FALSE
  /\ UNCHANGED <<prompt, present, hand, prep, skip, grace, await, pool, moves, faults>>

Leave(p) ==
  /\ p \in present \ prompt /\ moves < MaxMoves
  /\ present' = present \ {p} /\ moves' = moves + 1
  /\ UNCHANGED <<prompt, hand, bound, prep, sess, botVars, faults>>

Return(p) ==
  /\ p \in Players \ present /\ moves < MaxMoves
  /\ present' = present \cup {p} /\ moves' = moves + 1
  /\ UNCHANGED <<prompt, hand, bound, prep, sess, botVars, faults>>

Restart ==
  /\ faults < MaxFaults /\ faults' = faults + 1
  /\ sess' = [i \in Slots |-> None]
  /\ skip' = FALSE /\ grace' = 0 /\ await' = "nothing"
  /\ UNCHANGED <<chainVars, file, pool, startLost, moves>>

---------------------------------------------------------------------------
BetweenTick ==
  \/ HandEnded \/ AdoptStray \/ NoGame \/ OpenSession \/ KeysRetry \/ Strike
  \/ KeysComplete \/ PrepareDeal
PredealTick == PredealOpen \/ PredealKeys \/ PredealPrepare \/ PredealDrop
Tick == BetweenTick \/ PredealTick \/ RecoverSession \/ CancelNoSession

Next ==
  \/ Tick \/ TxMined \/ TxLost
  \/ \E i \in Slots : \/ DeadlinePasses(i) \/ FlagForgery(i)
                      \/ \E p \in Players : Answer(i, p) \/ PostProof(i, p, FALSE)
  \/ HandSettled \/ HandCancelled \/ Restart
  \/ \E p \in Players : Leave(p) \/ Return(p)

Spec == Init /\ [][Next]_vars

(***************************************************************************)
(* The process ticks every table, its transactions are mined, deadlines    *)
(* pass and hands end; prompt clients answer, and a forged proof fails.    *)
(***************************************************************************)
Fairness ==
  /\ WF_vars(Tick) /\ WF_vars(TxMined) /\ WF_vars(HandSettled)
  /\ \A i \in Slots : /\ WF_vars(DeadlinePasses(i)) /\ WF_vars(FlagForgery(i))
                      /\ \A p \in Players : WF_vars(p \in prompt /\ Answer(i, p))

FairSpec == Spec /\ Fairness

---------------------------------------------------------------------------
(* Properties                                                              *)

\* "It punishes the slowest CONNECTION at the table rather than an absent
\* player": a player who is there and answers in time is never sat out,
\* whoever forges, stalls or leaves, and whatever the pre-deal's clock says.
PromptKeepSeats == prompt \subseteq present

\* "Money is not at risk yet: a bad shuffle can never reach startHand":
\* with a prompt player in the deal a deck with a forged stage never starts.
ForgedDeckNeverStarts ==
  await = "start" /\ main.phase = "prepare" /\ main.parts \cap prompt # {}
    => main.forged = {}

\* In-play ciphertexts survive a restart: a live hand is bound to a deal the
\* process has in memory or on disk, unless the receipt of its start is lost.
LiveHandServable ==
  Live /\ ~startLost => bound \in {main.deal, file}

\* The table is never wedged: two players who stay and answer are dealt the
\* next hand, whoever else stalls, forges, leaves or comes back, over
\* restarts and lost transactions.
HandsKeepComing == Cardinality(prompt) >= 2 => <>(hand = MaxHands)

\* The relay's condition for giving player p the others' shares of her cards.
HolesRelayed(p) ==
  /\ main.phase = "prepare" /\ main.prepared /\ ~main.predeal
  /\ p \in main.parts /\ main.parts \ {p} \subseteq main.shares

\* "A player must never see their NEXT hand's cards before that hand exists
\* (they could dodge blinds on bad holes with perfect information)."
NoCardsBeforeHand ==
  \A p \in Players : HolesRelayed(p) => bound = main.deal
=============================================================================
