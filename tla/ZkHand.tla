------------------------------- MODULE ZkHand -------------------------------
(***************************************************************************)
(* One live poker hand under the zkShuffle protocol: the betting on chain  *)
(* (PokerRoom), the card ledger (ZkTableDealer), the coordinator that      *)
(* collects decryption shares and posts reveals (poker-zk-dealer.js) and   *)
(* the players' clients that give the shares out (zk-agent.js).  The hand  *)
(* starts with everybody's shares of the OTHERS' cards collected.  A card  *)
(* is open to whoever holds every participant's share of it.               *)
(*                                                                         *)
(* The two cards of a hand are one card here, and so are the three of a    *)
(* flop: the code asks for, holds back and posts them together.  Chips are *)
(* reduced to who has any at stake.  A deadline passes when it likes, and  *)
(* is pushed out by clearing "late"; a transaction lands, and its receipt  *)
(* may be lost (a fault).                                                  *)
(***************************************************************************)
EXTENDS Naturals, FiniteSets, FiniteSetsExt

CONSTANTS
  N,            \* players dealt in: participants 1..N
  BOARD,        \* streets that turn board cards
  MaxFaults     \* bound: receipts lost and restarts of an honest coordinator,
                \*   accusations out of turn of a curious one

ASSUME HandAssumption ==
  /\ N \in Nat /\ N >= 2
  /\ BOARD \in Nat \ {0}
  /\ MaxFaults \in Nat

VARIABLES
  street, inHand,   \* the hand on chain: its street, who has not folded
  paid,             \* who has chips committed to it
  status,           \* "live", or how it ended
  acc, lapsed,      \* the open accusation; its rescue window is over
  vindicated,       \* <<seat, card>> answered on chain, the share recorded
  chBoard, chHoles, \* board cards and players' cards published on chain
  ready,            \* showdownReady
  known,            \* card -> whose shares have left their clients, to date
  sess,             \* the coordinator's session for the table
  file,             \* the persisted session is on disk
  curious,          \* the operator also asks and accuses out of turn
  faults

chainVars == <<street, inHand, paid, status, acc, lapsed, vindicated,
               chBoard, chHoles, ready>>
vars == <<street, inHand, paid, status, acc, lapsed, vindicated, chBoard,
          chHoles, ready, known, sess, file, curious, faults>>

Players == 1..N

opened == {c \in DOMAIN known : known[c] = Players}
Trusted == INSTANCE TrustedDealer

SHOWDOWN == BOARD + 1
Board(s) == <<"board", s>>
Hole(p) == <<"hole", p>>
Cards == {Board(s) : s \in 1..BOARD} \cup {Hole(p) : p \in Players}
Due(s) == IF s > BOARD THEN BOARD ELSE s
IsHole(c) == c[1] = "hole"

None == [who |-> 0]
NoSession == [board |-> BOARD + 1]
Live == status = "live"

---------------------------------------------------------------------------
(* The session                                                             *)

NewSession(shares, board, marked) ==
  [shares |-> shares, board |-> board, holes |-> {}, marked |-> marked,
   accused |-> None, late |-> FALSE]

NoShares == [c \in Cards |-> {}]
PreCollected == [c \in Cards |-> IF IsHole(c) THEN Players \ {c[2]} ELSE {}]

Serving == Live /\ sess # NoSession
HaveAll(c) == sess.shares[c] = Players

\* Every due card not yet on chain is asked for, and its clock runs.
BoardOwed == Due(street) > sess.board
ReadyTo ==
  Max({n \in sess.board..Due(street) :
         \A s \in (sess.board + 1)..n : HaveAll(Board(s))})

AtShowdown == street = SHOWDOWN /\ ~BoardOwed
ReadyHoles == {p \in inHand \ sess.holes : HaveAll(Hole(p))}
AllShown == inHand \subseteq sess.holes

\* The card the table waits for, and the first seat that owes its share.
Stuck ==
  /\ Serving
  /\ \/ BoardOwed /\ ReadyTo = sess.board
     \/ AtShowdown /\ ~AllShown /\ ReadyHoles = {}
Missing ==
  IF BoardOwed THEN Board(sess.board + 1) ELSE Hole(Min(inHand \ sess.holes))
Offender == Min(Players \ sess.shares[Missing])
TimedOut == Stuck /\ sess.late

---------------------------------------------------------------------------
Init ==
  /\ street = 0 /\ inHand = Players /\ status = "live"
  /\ paid \in {P \in SUBSET Players : Cardinality(P) = 2}
  /\ acc = None /\ lapsed = FALSE
  /\ vindicated = {}
  /\ chBoard = 0 /\ chHoles = {} /\ ready = FALSE
  /\ known = PreCollected
  /\ \/ sess = NewSession(PreCollected, 0, FALSE) /\ file = TRUE
     \/ sess = NoSession /\ file = FALSE
  /\ curious \in BOOLEAN
  /\ faults = 0

---------------------------------------------------------------------------
(* Betting.  The room does not wait for the board.                         *)

Fold(p) ==
  /\ Live /\ p \in inHand /\ street < SHOWDOWN
  /\ inHand' = inHand \ {p}
  /\ IF Cardinality(inHand') = 1
     THEN status' = "settled" /\ acc' = None /\ lapsed' = FALSE
     ELSE UNCHANGED <<status, acc, lapsed>>
  /\ UNCHANGED <<street, paid, vindicated, chBoard, chHoles, ready, known,
                 sess, file, curious, faults>>

\* Everybody left has called; a run-out jumps to the showdown.
CloseStreet ==
  /\ Live /\ street < SHOWDOWN
  /\ street' \in {street + 1, SHOWDOWN}
  /\ paid' = paid \cup inHand
  /\ UNCHANGED <<inHand, status, acc, lapsed, vindicated, chBoard, chHoles,
                 ready, known, sess, file, curious, faults>>

---------------------------------------------------------------------------
(* Clients                                                                 *)

\* mayRelease and the fold gate, on the street the client reads from the
\* chain.  (Without the fold gate: MayReleaseFolded.)
MayReleaseFolded(p, c) ==
  IF IsHole(c) THEN c[2] # p \/ street = SHOWDOWN
               ELSE c[2] <= Due(street)
MayRelease(p, c) ==
  IF IsHole(c) THEN c[2] # p \/ (street = SHOWDOWN /\ p \in inHand)
               ELSE c[2] <= Due(street)

\* What the relay asks player p for: a curious one, for everything.
Asked(p) ==
  {c \in Cards :
     /\ p \notin sess.shares[c]
     /\ \/ curious
        \/ IF IsHole(c) THEN \/ c[2] # p
                             \/ AtShowdown /\ p \in inHand \ sess.holes
                        ELSE c[2] \in (sess.board + 1)..Due(street)}

Add(f, C, p) == [c \in Cards |-> IF c \in C THEN f[c] \cup {p} ELSE f[c]]

PostShares(p) ==
  /\ Serving
  /\ LET C == {c \in Asked(p) : MayRelease(p, c)}
     IN  /\ C # {}
         /\ sess' = [sess EXCEPT !.shares = Add(@, C, p)]
         /\ known' = Add(known, C, p)
  /\ UNCHANGED <<chainVars, file, curious, faults>>

\* selfRescue answers, unless the card is the accused's own and still secret.
WouldRescue ==
  acc.card = Hole(acc.who) => chBoard = BOARD /\ acc.who \in inHand

SelfRescue(p) ==
  /\ Live /\ acc.who = p
  /\ WouldRescue
  /\ vindicated' = vindicated \cup {<<p, acc.card>>}
  /\ known' = Add(known, {acc.card}, p)
  /\ acc' = None /\ lapsed' = FALSE
  /\ UNCHANGED <<street, inHand, paid, status, chBoard, chHoles, ready, sess,
                 file, curious, faults>>

---------------------------------------------------------------------------
(* Time                                                                    *)

\* A deadline matters only while the table waits for a share.
ShareDeadlinePasses ==
  /\ Stuck /\ ~sess.late
  /\ sess' = [sess EXCEPT !.late = TRUE]
  /\ UNCHANGED <<chainVars, known, file, curious, faults>>

WindowLapses ==
  /\ Live /\ acc # None /\ ~lapsed
  /\ lapsed' = TRUE
  /\ UNCHANGED <<street, inHand, paid, status, acc, vindicated, chBoard,
                 chHoles, ready, known, sess, file, curious, faults>>

---------------------------------------------------------------------------
(* The coordinator's tick                                                  *)

MayFail == ~curious /\ faults < MaxFaults

\* The receipt arrives and the session moves to s, or it is lost.
Receipt(s) ==
  \/ sess' = s /\ UNCHANGED faults
  \/ MayFail /\ sess' = sess /\ faults' = faults + 1

\* Every ready card is sent; a batch cut short lands from the front.
RevealBoard ==
  /\ Serving /\ BoardOwed /\ ReadyTo > sess.board /\ chBoard = sess.board
  /\ \E n \in (sess.board + 1)..ReadyTo :
       /\ chBoard' = n
       /\ LET s == [sess EXCEPT !.board = n, !.late = FALSE]
          IN  IF n = ReadyTo THEN Receipt(s)
              ELSE /\ MayFail /\ faults' = faults + 1
                   /\ sess' \in {s, sess}
  /\ UNCHANGED <<street, inHand, paid, status, acc, lapsed, vindicated,
                 chHoles, ready, known, file, curious>>

\* A retry of a card that did land reverts, and the chain is read instead.
ResyncBoard ==
  /\ Serving /\ BoardOwed /\ ReadyTo > sess.board /\ chBoard > sess.board
  /\ sess' = [sess EXCEPT !.board = chBoard, !.late = FALSE]
  /\ UNCHANGED <<chainVars, known, file, curious, faults>>

\* _finishShowdown: the reveal that completes the hand settles it, unless
\* the gas left does not allow it.
Finish(holes) ==
  IF ready \/ ~(inHand \subseteq holes) THEN UNCHANGED <<ready, status, acc, lapsed>>
  ELSE /\ ready' = TRUE
       /\ \/ status' = "settled" /\ acc' = None /\ lapsed' = FALSE
          \/ UNCHANGED <<status, acc, lapsed>>

\* What the session takes as shown: of the ready hands, those on the chain.
Shown(holes) == sess.holes \cup (ReadyHoles \cap holes)

\* A reveal of cards already published reverts, and they are adopted.
RevealHoles ==
  /\ Serving /\ AtShowdown /\ ReadyHoles # {}
  /\ \E L \in SUBSET (ReadyHoles \ chHoles) :
       /\ chHoles' = chHoles \cup L
       /\ Finish(chHoles')
       /\ LET s == [sess EXCEPT !.holes = Shown(chHoles')]
          IN  IF ReadyHoles \subseteq chHoles' THEN Receipt(s)
              ELSE /\ MayFail /\ faults' = faults + 1
                   /\ sess' \in {s, sess}
  /\ UNCHANGED <<street, inHand, paid, vindicated, chBoard, known, file,
                 curious>>

MarkReady ==
  /\ Serving /\ AtShowdown /\ AllShown /\ ~sess.marked
  /\ ready' = TRUE
  /\ Receipt([sess EXCEPT !.marked = TRUE])
  /\ UNCHANGED <<street, inHand, paid, status, acc, lapsed, vindicated,
                 chBoard, chHoles, known, file, curious>>

\* _clearHand: an accusation dies with its hand, and the table's session.
EndHand(how) ==
  /\ status' = how
  /\ acc' = None /\ lapsed' = FALSE
  /\ sess' = NoSession /\ file' = FALSE
  /\ UNCHANGED <<street, inHand, paid, vindicated, chBoard, chHoles, ready,
                 known, curious, faults>>

ResolveShowdown ==
  /\ Serving /\ AtShowdown /\ AllShown /\ sess.marked
  /\ ready /\ chBoard = BOARD /\ inHand \subseteq chHoles
  /\ EndHand("settled")

\* The accusation is gone: the share it named was recorded on chain.
IngestRescue ==
  /\ Stuck /\ sess.accused # None /\ acc = None
  /\ LET a == sess.accused
         s == [sess EXCEPT !.accused = None, !.late = FALSE]
     IN  sess' = IF <<a.who, a.card>> \in vindicated
                 THEN [s EXCEPT !.shares[a.card] = @ \cup {a.who}] ELSE s
  /\ UNCHANGED <<chainVars, known, file, curious, faults>>

AdoptAccusation ==
  /\ TimedOut /\ acc # None /\ ~lapsed
  /\ sess' = [sess EXCEPT !.accused = acc, !.late = FALSE]
  /\ UNCHANGED <<chainVars, known, file, curious, faults>>

Penalize ==
  /\ TimedOut /\ acc # None /\ lapsed
  /\ EndHand("penalized")

\* Nothing at stake, nothing to forfeit.  (CancelUnpaidLive: a folded seat
\* is not thought of.)
CancelUnpaidLive ==
  /\ TimedOut /\ acc = None /\ sess.accused = None
  /\ Offender \notin paid /\ Offender \in inHand
  /\ EndHand("cancelled")

CancelUnpaid ==
  /\ TimedOut /\ acc = None /\ sess.accused = None
  /\ Offender \notin paid
  /\ EndHand("cancelled")

\* accusationAllowed: what the dealer lets anyone be accused of.
\* (AllowedBeforeBoard: own cards as soon as the street is the showdown.)
AllowedBeforeBoard(p, c) ==
  IF IsHole(c) THEN c[2] = p => street = SHOWDOWN /\ p \in inHand
               ELSE c[2] <= Due(street)
AccusationAllowed(p, c) ==
  IF IsHole(c) THEN c[2] = p => street = SHOWDOWN /\ chBoard = BOARD /\ p \in inHand
               ELSE c[2] <= Due(street)

Accusable(p, c) ==
  /\ acc = None /\ p \in paid
  /\ <<p, c>> \notin vindicated
  /\ AccusationAllowed(p, c)

AccuseAbandon ==
  /\ TimedOut /\ sess.accused = None
  /\ Accusable(Offender, Missing)
  /\ acc' = [who |-> Offender, card |-> Missing]
  /\ Receipt([sess EXCEPT !.accused = acc', !.late = FALSE])
  /\ UNCHANGED <<street, inHand, paid, status, lapsed, vindicated, chBoard,
                 chHoles, ready, known, file, curious>>

Tick ==
  \/ RevealBoard \/ ResyncBoard \/ RevealHoles \/ MarkReady \/ ResolveShowdown
  \/ IngestRescue \/ AdoptAccusation \/ Penalize \/ CancelUnpaid
  \/ AccuseAbandon

\* The operator's own idea of whom to accuse, and of what.
CuriousAccuse(p, c) ==
  /\ curious /\ Live /\ Accusable(p, c)
  /\ faults < MaxFaults /\ faults' = faults + 1
  /\ acc' = [who |-> p, card |-> c]
  /\ UNCHANGED <<street, inHand, paid, status, lapsed, vindicated, chBoard,
                 chHoles, ready, known, sess, file, curious>>

CuriousPenalize ==
  /\ curious /\ Live /\ acc # None /\ lapsed
  /\ EndHand("penalized")

---------------------------------------------------------------------------
(* Restart                                                                 *)

Restart ==
  /\ Serving /\ MayFail
  /\ faults' = faults + 1
  /\ sess' = NoSession
  /\ UNCHANGED <<chainVars, known, file, curious>>

RecoverSession ==
  /\ Live /\ sess = NoSession /\ file
  /\ sess' = NewSession(NoShares, chBoard, ready)
  /\ UNCHANGED <<chainVars, known, file, curious, faults>>

CancelNoSession ==
  /\ Live /\ sess = NoSession /\ ~file
  /\ EndHand("cancelled")

---------------------------------------------------------------------------
Next ==
  \/ \E p \in Players : Fold(p) \/ PostShares(p) \/ SelfRescue(p)
  \/ CloseStreet \/ ShareDeadlinePasses \/ WindowLapses
  \/ Tick \/ CuriousPenalize
  \/ \E p \in Players, c \in Cards : CuriousAccuse(p, c)
  \/ Restart \/ RecoverSession \/ CancelNoSession

Spec == Init /\ [][Next]_vars

(***************************************************************************)
(* The process ticks every table; the action clock closes every street     *)
(* (timeoutAct may be called by anyone); deadlines pass.  No client is     *)
(* bound to answer, ever.                                                  *)
(***************************************************************************)
Fairness ==
  /\ WF_vars(Tick) /\ WF_vars(RecoverSession) /\ WF_vars(CancelNoSession)
  /\ WF_vars(CloseStreet) /\ WF_vars(ShareDeadlinePasses) /\ WF_vars(WindowLapses)

FairSpec == Spec /\ Fairness

---------------------------------------------------------------------------
(* Properties                                                              *)

\* Whatever a curious operator asks for, and whomever it accuses, the cards
\* come open as a trusted dealer would turn them: no board card before its
\* street, nobody's own cards before the showdown, a folded hand never; and
\* the pot is paid only when one player is left or all that decides is open.
\* The gates are mayRelease and selfRescue in the client and
\* accusationAllowed in the contract, and each must agree with the others.
DealtAsIfTrusted == Trusted!TrustedSpec

\* Every accusation that stands is one the accused's client would answer:
\* whatever the operator may accuse of, a player who is there cannot be made
\* to forfeit.  (All-in before the board is out, her own cards are not asked.)
AccusedCanAnswer == acc # None => WouldRescue

\* A share that was delivered on chain and that the session will not fetch.
RescueForgotten ==
  /\ Stuck /\ sess.accused = None
  /\ <<Offender, Missing>> \in vindicated

\* The hand ends, whoever leaves and whenever the coordinator restarts, as
\* long as no rescue is forgotten.
HandEnds == []~RescueForgotten => <>~Live

\* "A seat that withholds shares MID-hand triggers cancelHandPenalized":
\* under an honest coordinator, whoever forfeits has not given out the share
\* it was accused of.
ForfeitsOnlyWithheld ==
  [][~curious /\ status' = "penalized" => acc.who \notin known[acc.card]]_vars

\* The hand ends, whoever leaves and whenever the coordinator restarts.
HandAlwaysEnds == <>~Live
=============================================================================
