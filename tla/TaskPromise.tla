---------------------------- MODULE TaskPromise ----------------------------
(***************************************************************************)
(* What the task escrow promises, without clocks, accounts or a pooled     *)
(* balance: every task has a box of its own, money is put into a box once, *)
(* and leaves it whole and once, to the taker if the work was delivered    *)
(* and back to the poster if it was not.                                   *)
(***************************************************************************)
EXTENDS Naturals

CONSTANTS TaskIds, Amounts

VARIABLES
  stage,  \* where each task stands
  box     \* the money set aside for each task

vars == <<stage, box>>

Stages == {"unknown", "open", "delivered", "paidTaker", "paidPoster"}

TypeOK ==
  /\ stage \in [TaskIds -> Stages]
  /\ box \in [TaskIds -> Nat]

Init ==
  /\ stage = [t \in TaskIds |-> "unknown"]
  /\ box = [t \in TaskIds |-> 0]

Open(t, amount) ==
  /\ stage[t] = "unknown"
  /\ stage' = [stage EXCEPT ![t] = "open"]
  /\ box' = [box EXCEPT ![t] = amount]

Deliver(t) ==
  /\ stage[t] = "open"
  /\ stage' = [stage EXCEPT ![t] = "delivered"]
  /\ UNCHANGED box

Empty(t, from, to) ==
  /\ stage[t] = from
  /\ stage' = [stage EXCEPT ![t] = to]
  /\ box' = [box EXCEPT ![t] = 0]

PayTaker(t)  == Empty(t, "delivered", "paidTaker")
PayPoster(t) == Empty(t, "open", "paidPoster")

Next ==
  \E t \in TaskIds :
    \/ \E amount \in Amounts : Open(t, amount)
    \/ Deliver(t)
    \/ PayTaker(t)
    \/ PayPoster(t)

Spec == Init /\ [][Next]_vars

=============================================================================
