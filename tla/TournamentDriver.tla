------------------------- MODULE TournamentDriver -------------------------
(***************************************************************************)
(* scripts/lib/poker-tournament-driver.js: the bot that runs an event.     *)
(* Each tick reads the chain and makes at most one call: start it, report  *)
(* a busted seat or forfeit an abandoned one, move a player, raise the     *)
(* blinds; or it holds the event's tables until they are all between hands.*)
(* The tables are ticked on their own, so what a tick read may have        *)
(* changed when its call is mined: the contract then refuses it.           *)
(***************************************************************************)
EXTENDS PokerTournament

VARIABLES
  freeze,     \* tables that start no hand
  call        \* the call that waits to be mined

driverVars == <<freeze, call>>
vars == <<trnVars, driverVars>>

NoCall == [kind |-> "none"]
Idle == call = NoCall

Init ==
  /\ TrnInit
  /\ freeze = {} /\ call = NoCall

---------------------------------------------------------------------------
(* What a tick decides                                                     *)

\* The first seat, table by table, to stand up between hands: busted, or
\* sat out for too long.
\* (StandUpsBusted: the absent ones are waited for.)
StandUpsBusted ==
  {x \in Open \X Seats : CanReportBust(x[1], x[2])}
StandUps ==
  {x \in Open \X Seats : CanReportBust(x[1], x[2]) \/ CanForfeitIdle(x[1], x[2])}
Before(x, y) == x[1] < y[1] \/ (x[1] = y[1] /\ x[2] <= y[2])
FirstOf(S) == CHOOSE x \in S : \A y \in S : Before(x, y)

StandUp ==
  LET x == FirstOf(StandUps)
  IN  [kind |-> IF CanReportBust(x[1], x[2]) THEN "bust" ELSE "forfeit",
       table |-> x[1], seat |-> x[2]]

Active == {t \in Open : Count(t) > 0}
Total == SumFunction([t \in Active |-> Count(t)])
Quiet == {t \in Active : ~InHand(t)}
WithSpace(T) == {t \in T : Count(t) < SEATS}

\* The first of T with the fewest, or the most, players.
Smallest(T) == CHOOSE t \in T : \A u \in T : Count(t) < Count(u) \/ (Count(t) = Count(u) /\ t <= u)
Fullest(T)  == CHOOSE t \in T : \A u \in T : Count(t) > Count(u) \/ (Count(t) = Count(u) /\ t <= u)

Move(from, to) ==
  [kind |-> "move", table |-> from, seat |-> Min(Occupied(from)),
   to |-> to, dest |-> Min(Seats \ Occupied(to))]

\* Everyone fits on fewer tables: drain the smallest into the fullest.
Consolidation ==
  IF Cardinality(Active) > 1 /\ Total <= (Cardinality(Active) - 1) * SEATS /\ Quiet # {}
  THEN LET from == Smallest(Quiet)
           to == WithSpace(Quiet \ {from})
       IN  IF to = {} THEN NoCall ELSE Move(from, Fullest(to))
  ELSE NoCall

\* A player alone at a table.
Rescue ==
  LET lone == {t \in Quiet : Count(t) = 1}
      from == Min(lone)
      to == WithSpace(Quiet \ {from})
  IN  IF lone = {} \/ to = {} THEN NoCall ELSE Move(from, Smallest(to))

\* Two tables apart by two players or more.
EvenOut ==
  IF Cardinality(Quiet) > 1 /\ Count(Fullest(Quiet)) - Count(Smallest(Quiet)) >= 2
  THEN Move(Fullest(Quiet), Smallest(Quiet)) ELSE NoCall

Rebalance ==
  IF tables = 1 THEN NoCall
  ELSE IF Consolidation # NoCall THEN Consolidation
  ELSE IF Rescue # NoCall THEN Rescue ELSE EvenOut

\* Due, and the big blind does not cover every chip twice already.
LevelDue == Due /\ bb < BlindCap

Busy == \E t \in Open : InHand(t)
NothingToDo == StandUps = {} /\ Rebalance = NoCall
Holding == LevelDue /\ NothingToDo /\ Busy

\* Where the level waits for the tables to be idle, they start no hand.
\* (HoldBusy: only those that have a hand are told to.)
HoldBusy == {t \in Open : InHand(t)}
Hold == Open

\* Tables are released when no level is due.
\* (ReleasedNever: only by the level-up.)
ReleasedNever == freeze
Released == IF LevelDue THEN freeze ELSE {}

\* A scheduled event starts with two and more when its time has come, another
\* one when it is full.
StartDue == \E scheduled \in BOOLEAN : entrants >= IF scheduled THEN 2 ELSE MAX_PLAYERS

Decision ==
  CASE status = "registering" -> [kind |-> "start"]
    [] StandUps # {} -> StandUp
    [] StandUps = {} /\ Rebalance # NoCall -> Rebalance
    [] LevelDue /\ NothingToDo /\ ~Busy -> [kind |-> "level"]
    [] OTHER -> NoCall

Tick ==
  /\ Idle
  /\ Running \/ (CanStart /\ StartDue)
  /\ call' = Decision
  /\ freeze' = IF Running THEN IF Holding THEN Hold ELSE Released ELSE freeze
  /\ UNCHANGED trnVars

---------------------------------------------------------------------------
(* What becomes of the call                                                *)

Accepted ==
  CASE call.kind = "start" -> CanStart
    [] call.kind = "bust" -> CanReportBust(call.table, call.seat)
    [] call.kind = "forfeit" -> CanForfeitIdle(call.table, call.seat)
    [] call.kind = "move" -> CanMove(call.table, call.seat, call.to, call.dest)
    [] call.kind = "level" -> CanLevelUp
    [] OTHER -> FALSE

Effect ==
  CASE call.kind = "start" -> Start
    [] call.kind \in {"bust", "forfeit"} -> Eliminate(call.table, call.seat)
    [] call.kind = "move" -> MovePlayer(call.table, call.seat, call.to, call.dest)
    [] call.kind = "level" -> LevelUp

\* After a level-up the tables stay held while the next level is due too.
CallMined ==
  /\ ~Idle /\ Accepted /\ Effect
  /\ call' = NoCall
  /\ freeze' = IF call.kind = "level" /\ ~Due' THEN {} ELSE freeze

\* A level-up that fails releases the tables.
CallFails ==
  /\ ~Idle /\ ~Accepted
  /\ call' = NoCall /\ freeze' = IF call.kind = "level" THEN {} ELSE freeze
  /\ UNCHANGED trnVars

\* The call that was under way is lost; if it was mined before, it was CallMined.
Restart ==
  /\ freeze' = {} /\ call' = NoCall
  /\ UNCHANGED trnVars

---------------------------------------------------------------------------
TableStep ==
  \E t \in Tables :
    \/ BeginStart(t, t \in freeze) \/ StartMined(t) \/ HandEnds(t)
    \/ \E s \in Seats : \/ WalkAway(t, s) \/ Strike(t, s, t \in freeze)
                        \/ WindowElapses(t, s) \/ SitIn(t, s)

\* The creator starts a field of two and more whenever she likes.
Step ==
  \/ Tick \/ CallMined \/ CallFails
  \/ TableStep /\ UNCHANGED driverVars
  \/ Register /\ UNCHANGED driverVars
  \/ Unregister /\ UNCHANGED driverVars
  \/ Cancel /\ UNCHANGED driverVars
  \/ WithdrawFees /\ UNCHANGED driverVars
  \/ Start /\ UNCHANGED driverVars
  \/ LevelDurationPasses /\ UNCHANGED driverVars

Next == Step \/ Restart

Spec == Init /\ [][Next]_vars

(***************************************************************************)
(* The bot ticks and its calls are mined; hands end, players walk on, and  *)
(* the sat-out window elapses.  A pass takes about a second, a hand and    *)
(* the pause after it several: so the driver comes to look at a table mid- *)
(* hand and between hands again and again, and wins some of the races      *)
(* against the start of the next one.  In the end it is not restarted.     *)
(***************************************************************************)
Fairness ==
  /\ <>[][Step]_vars
  /\ SF_vars(Tick) /\ SF_vars(CallMined) /\ WF_vars(CallFails)
  /\ \A t \in Tables : WF_vars(UNCHANGED driverVars /\ HandEnds(t))
  /\ WF_vars(UNCHANGED driverVars /\ \E t \in Tables, s \in Seats :
                Strike(t, s, t \in freeze) \/ WindowElapses(t, s))

FairSpec == Spec /\ Fairness

---------------------------------------------------------------------------
(* Properties                                                              *)

\* While the owner leaves the fees where they are, the contract holds what
\* it may have to pay: every refund before the start, then every place still
\* open with the host's cut; however entries come and go and whoever stands up.
UntakenFeesBack == feesOut = 0 => Backed

\* The chips in play and those of the seats stood up are what the field was
\* given: over hands, moves and forfeits, and `remaining` counts the seats.
ChipsAccountedFor ==
  Running =>
    /\ SumFunction([t \in Open |-> Chips(t, Seats)]) + chipsOut = STACK * entrants
    /\ SumFunction([t \in Open |-> Count(t)]) = remaining /\ remaining >= 2

\* "Clear the freeze whenever a level-up isn't pending so normal play resumes":
\* the tables of a running event are not held for ever.
TablesReleased == []<>(~Running \/ freeze = {})

\* The liveness below is that of an event that can pay its places: its fees
\* were not taken out.

\* "When a level is due we FREEZE new hands on this event's tables; the
\* in-progress ones drain, then all-idle is reached and levelUp fires."
LevelsRise == []<>(feesOut > 0 \/ ~LevelDue)

\* Busted seats are reported, and a player who never comes back is forfeited:
\* neither holds up the event for ever.
Awaited(t, s) == s \in Occupied(t) /\ (seat[t][s].stack = 0 \/ seat[t][s].away)
Waiting == {x \in Tables \X Seats : Running /\ Awaited(x[1], x[2])}
SeatsFreed == []<>(feesOut > 0 \/ Waiting = {})

\* "@notice Cancel a tournament that never started; refunds buy-ins + sponsor."
CancelRefunds == status = "registering" => balance >= RefundAll
=============================================================================
