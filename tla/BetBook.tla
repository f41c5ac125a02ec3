------------------------------ MODULE BetBook ------------------------------
(***************************************************************************)
(* What the casino promises about a bet, a spin, a mines game or a round,  *)
(* whoever settles it and however the transactions race: it is taken once  *)
(* and decided once, refunded only when its blockhash is gone or its       *)
(* coordinator stalls, never settled after that, and nothing that was      *)
(* decided is touched again.  A book is the list one contract keeps.       *)
(***************************************************************************)
EXTENDS Naturals, Sequences

CONSTANT Books

VARIABLES
    status,    \* per book, the status of every item in the order of the ids
    expired,   \* per book, the ids whose blockhash is gone before it was used
    stalled    \* per book, the ids that wait for a coordinator

bookVars == <<status, expired, stalled>>

BookInit == /\ status = [b \in Books |-> <<>>]
            /\ expired = [b \in Books |-> {}]
            /\ stalled = [b \in Books |-> {}]

Take(b) == status' = [status EXCEPT ![b] = Append(@, "open")]

Settle(b, id) ==
    /\ status[b][id] = "open"
    /\ id \notin expired[b]
    /\ status' = [status EXCEPT ![b][id] = "settled"]

Refund(b, id) ==
    /\ status[b][id] = "open"
    /\ id \in expired[b] \cup stalled[b]
    /\ status' = [status EXCEPT ![b][id] = "refunded"]

\* Blocks pass, picks are made and answered.
Wait == status' = status

BookNext ==
    \/ Wait
    \/ \E b \in Books : \/ Take(b)
                        \/ \E id \in 1..Len(status[b]) : Settle(b, id) \/ Refund(b, id)

BookSpec == BookInit /\ [][BookNext]_bookVars
=============================================================================
