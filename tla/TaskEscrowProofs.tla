-------------------------- MODULE TaskEscrowProofs --------------------------
(***************************************************************************)
(* Theorems about TaskEscrow for every number of users, tasks, hashes,     *)
(* amounts and every value of the bounds.                                  *)
(*                                                                         *)
(* The inductive invariant is TypeOK, UnknownIdsUntouched and Solvent      *)
(* together: Solvent alone is not inductive, because Fund writes the       *)
(* record of nextTaskId, and the sum grows by exactly the amount only if   *)
(* that record owed nothing before, which is what UnknownIdsUntouched says.*)
(* What users may count on needs it as well, and that the parties of a     *)
(* funded task are accounts.                                               *)
(***************************************************************************)
EXTENDS TaskEscrow, NatSumTheorems

(* A step of the owner or the clock leaves money and tasks alone.          *)
LEMMA QuietStep ==
  ASSUME AdminStep \/ Tick
  PROVE  UNCHANGED <<bal, tasks, nextTaskId, usedResultHashes>>
BY DEF AdminStep, Tick, SetTreasury, SetFeeRateBps, SetReleaseDelaySecs,
       SetMinTaskAmount, SetMaxTaskAmount, SetPaused, taskVars

(* The fee is a part of the amount.                                        *)
LEMMA FeeBound ==
  ASSUME NEW amount \in Nat, NEW bps \in 0..BpsScale
  PROVE  FeeOf(amount, bps) \in 0..amount
<1>1. amount * (BpsScale - bps) >= 0
  BY DEF BpsScale
<1>2. amount * bps \in Nat /\ amount * bps <= amount * BpsScale
  BY <1>1 DEF BpsScale
<1> DEFINE p == amount * bps
<1>3. p \in Nat /\ p <= amount * 10000
  BY <1>2 DEF BpsScale
<1>4. FeeOf(amount, bps) = p \div 10000
  BY DEF FeeOf, BpsScale
<1> HIDE DEF p
<1>5. p \div 10000 \in 0..amount
  BY <1>3
<1> QED
  BY <1>4, <1>5

(* A transfer keeps balances natural; the escrow loses at most the amount  *)
(* when it pays, and gains it when it is paid.                             *)
LEMMA TransferFacts ==
  ASSUME NEW b \in [Addresses -> Nat], NEW from \in Addresses,
         NEW to \in Addresses \cup {Zero}, NEW amount \in Nat,
         CanTransfer(b, from, to, amount)
  PROVE  /\ Transferred(b, from, to, amount) \in [Addresses -> Nat]
         /\ Transferred(b, from, to, amount)[Escrow] >= b[Escrow] - amount
         /\ from # Escrow /\ to = Escrow
              => Transferred(b, from, to, amount)[Escrow] = b[Escrow] + amount
BY DEF CanTransfer, Transferred, Addresses

\* The mapping's default value is a task.
LEMMA ZeroTaskType == ZeroTask \in Task
BY DEF ZeroTask, Task, Statuses

\* The types hold at deployment.
LEMMA InitTypeOK == Init => TypeOK
<1> SUFFICES ASSUME Init PROVE TypeOK
  OBVIOUS
<1>1. bal \in [Addresses -> Nat] /\ treasury \in Addresses
  BY EscrowConstants DEF Init, Addresses
<1>2. tasks \in [TaskIds -> Task]
  BY ZeroTaskType DEF Init
<1>3. /\ feeRateBps \in 0..MaxFeeBps /\ releaseDelaySecs \in 0..MaxReleaseDelay
      /\ minTaskAmount \in Nat /\ maxTaskAmount \in Nat
      /\ nextTaskId \in 1..(NumTasks + 1)
  BY EscrowConstants DEF Init
<1> QED
  BY <1>1, <1>2, <1>3 DEF Init, TypeOK

(* Fund writes a record of type Task and moves tokens.                     *)
LEMMA FundType ==
  ASSUME TypeOK, NEW poster \in Users, NEW taker \in Addresses,
         NEW amount \in Amounts, NEW deadline \in 1..MaxTime,
         Fund(poster, taker, amount, deadline)
  PROVE  TypeOK'
<1>1. amount \in Nat /\ poster \in Addresses /\ Escrow \in Addresses
  BY EscrowConstants DEF Addresses
<1>2. bal' \in [Addresses -> Nat]
  BY <1>1, TransferFacts DEF Fund, TypeOK
<1>3. tasks' \in [TaskIds -> Task]
  <2> DEFINE r == [poster |-> poster, taker |-> taker, amount |-> amount,
                   resultHash |-> Zero, deadline |-> deadline,
                   releaseAfter |-> 0, status |-> "FUNDED"]
  <2>1. r \in Task
    BY <1>1, EscrowConstants DEF Task, Statuses
  <2>2. tasks' = [tasks EXCEPT ![nextTaskId] = r]
    BY DEF Fund
  <2> HIDE DEF r
  <2> QED BY <2>1, <2>2 DEF TypeOK
<1>4. nextTaskId' \in 1..(NumTasks + 1)
  BY EscrowConstants DEF Fund, TypeOK
<1> QED
  BY <1>2, <1>3, <1>4 DEF Fund, TypeOK, config

\* deliver keeps the types.
LEMMA DeliverType ==
  ASSUME TypeOK, NEW sender \in Users, NEW t \in TaskIds,
         NEW hash \in Hashes \cup {Zero}, Deliver(sender, t, hash)
  PROVE  TypeOK'
<1>1. now + releaseDelaySecs \in Nat /\ hash \in Hashes
  BY EscrowConstants DEF TypeOK, Deliver, MayDeliver
<1>2. tasks' \in [TaskIds -> Task]
  <2> DEFINE r == [tasks[t] EXCEPT !.resultHash = hash,
                                   !.releaseAfter = now + releaseDelaySecs,
                                   !.status = "DONE"]
  <2>1. tasks[t] \in Task
    BY DEF TypeOK
  <2>2. r \in Task
    BY <1>1, <2>1 DEF Task, Statuses
  <2>3. tasks' = [tasks EXCEPT ![t] = r]
    BY DEF Deliver
  <2> HIDE DEF r
  <2> QED BY <2>2, <2>3 DEF TypeOK
<1>3. usedResultHashes' \subseteq Hashes
  BY <1>1 DEF Deliver, TypeOK
<1> QED
  BY <1>2, <1>3 DEF Deliver, TypeOK, config

(* What release pays out, in two transfers.                                *)
LEMMA ReleaseMoney ==
  ASSUME TypeOK, NEW sender \in Users, NEW t \in TaskIds, Release(sender, t)
  PROVE  /\ bal' \in [Addresses -> Nat]
         /\ bal'[Escrow] >= bal[Escrow] - tasks[t].amount
<1> DEFINE fee  == FeeOf(tasks[t].amount, feeRateBps)
           net  == tasks[t].amount - fee
           paid == Transferred(bal, Escrow, tasks[t].taker, net)
<1>1. tasks[t].amount \in Nat /\ tasks[t].taker \in Addresses \cup {Zero}
  BY DEF TypeOK, Task
<1>2. feeRateBps \in 0..BpsScale /\ treasury \in Addresses \cup {Zero}
  BY EscrowConstants DEF TypeOK, BpsScale
<1>3. fee \in 0..tasks[t].amount
  BY <1>1, <1>2, FeeBound
<1>4. fee \in Nat /\ net \in Nat /\ net + fee = tasks[t].amount
  BY <1>1, <1>3
<1>5. /\ CanTransfer(bal, Escrow, tasks[t].taker, net)
      /\ CanTransfer(paid, Escrow, treasury, fee)
      /\ bal' = Transferred(paid, Escrow, treasury, fee)
  BY DEF Release, Releasable
<1>6. bal \in [Addresses -> Nat] /\ Escrow \in Addresses
  BY DEF TypeOK, Addresses
<1> HIDE DEF fee, net, paid
<1>7. paid \in [Addresses -> Nat] /\ paid[Escrow] >= bal[Escrow] - net
  BY <1>1, <1>4, <1>5, <1>6, TransferFacts DEF paid
<1>8. bal' \in [Addresses -> Nat] /\ bal'[Escrow] >= paid[Escrow] - fee
  BY <1>2, <1>4, <1>5, <1>6, <1>7, TransferFacts
<1> QED
  BY <1>4, <1>6, <1>7, <1>8, <1>1

\* release keeps the types.
LEMMA ReleaseType ==
  ASSUME TypeOK, NEW sender \in Users, NEW t \in TaskIds, Release(sender, t)
  PROVE  TypeOK'
<1>1. tasks' \in [TaskIds -> Task]
  BY DEF Release, TypeOK, Task, Statuses
<1> QED
  BY <1>1, ReleaseMoney DEF Release, TypeOK, config

\* A refund takes at most the amount of its task from the contract.
LEMMA RefundMoney ==
  ASSUME TypeOK, NEW t \in TaskIds, Refund(t)
  PROVE  /\ bal' \in [Addresses -> Nat]
         /\ bal'[Escrow] >= bal[Escrow] - tasks[t].amount
<1>1. /\ tasks[t].amount \in Nat /\ tasks[t].poster \in Addresses \cup {Zero}
      /\ bal \in [Addresses -> Nat] /\ Escrow \in Addresses
  BY DEF TypeOK, Task, Addresses
<1> QED
  BY <1>1, TransferFacts DEF Refund, Refundable

\* refund keeps the types.
LEMMA RefundType ==
  ASSUME TypeOK, NEW t \in TaskIds, Refund(t)
  PROVE  TypeOK'
<1>1. tasks' \in [TaskIds -> Task]
  BY DEF Refund, TypeOK, Task, Statuses
<1> QED
  BY <1>1, RefundMoney DEF Refund, TypeOK, config

\* Administration and time keep the types.
LEMMA QuietType ==
  ASSUME TypeOK, AdminStep \/ Tick
  PROVE  TypeOK'
<1>1. UNCHANGED <<bal, tasks, nextTaskId, usedResultHashes>>
  BY QuietStep
<1>2. now' \in Nat
  BY DEF TypeOK, AdminStep, Tick, SetTreasury, SetFeeRateBps,
     SetReleaseDelaySecs, SetMinTaskAmount, SetMaxTaskAmount, SetPaused
<1>3. /\ treasury' \in Addresses /\ feeRateBps' \in 0..MaxFeeBps
      /\ releaseDelaySecs' \in 0..MaxReleaseDelay
      /\ minTaskAmount' \in Nat /\ maxTaskAmount' \in Nat
      /\ paused' \in BOOLEAN
  BY EscrowConstants DEF TypeOK, AdminStep, Tick, SetTreasury, SetFeeRateBps,
     SetReleaseDelaySecs, SetMinTaskAmount, SetMaxTaskAmount, SetPaused, config
<1> QED
  BY <1>1, <1>2, <1>3 DEF TypeOK

\* Every call keeps the types.
LEMMA NextType == TypeOK /\ [Next]_vars => TypeOK'
<1> SUFFICES ASSUME TypeOK, [Next]_vars PROVE TypeOK'
  OBVIOUS
<1>1. CASE TaskStep
  BY <1>1, FundType, DeliverType, ReleaseType, RefundType DEF TaskStep
<1>2. CASE AdminStep \/ Tick
  BY <1>2, QuietType
<1>3. CASE UNCHANGED vars
  BY <1>3 DEF TypeOK, vars, config
<1> QED
  BY <1>1, <1>2, <1>3 DEF Next

(* Every variable of the contract keeps its type; in particular the fee    *)
(* stays under its cap and no balance goes below zero.                     *)
THEOREM TypeCorrect == Spec => []TypeOK
<1>1. Init => TypeOK
  BY InitTypeOK
<1>2. TypeOK /\ [Next]_vars => TypeOK'
  BY NextType
<1> QED
  BY <1>1, <1>2, PTL DEF Spec

-----------------------------------------------------------------------------
(* What a task owes is a natural number, as a summand of SumTo.            *)
LEMMA LockedSummand ==
  ASSUME TypeOK
  PROVE  \A k \in Nat : Summand(Locked, k) \in Nat
BY DEF TypeOK, Locked, Task, Summand

(* Only the record of t changed: the sum moves by what t's record did.     *)
LEMMA LockedChange ==
  ASSUME TypeOK, TypeOK', NEW t \in TaskIds,
         \A k \in TaskIds : k # t => tasks'[k] = tasks[k]
  PROVE  SumTo(Locked', NumTasks) + Locked[t]
           = SumTo(Locked, NumTasks) + Locked'[t]
<1>1. t \in Nat /\ t # 0 /\ t <= NumTasks /\ NumTasks \in Nat
  BY EscrowConstants DEF TaskIds
<1>2. \A k \in Nat : Summand(Locked, k) \in Nat
  BY LockedSummand
<1>3. \A k \in Nat : Summand(Locked', k) \in Nat
  BY DEF TypeOK, Locked, Task, Summand
<1>4. \A k \in Nat : k # t => Summand(Locked, k) = Summand(Locked', k)
  BY DEF Locked, Summand
<1>5. Summand(Locked, t) = Locked[t] /\ Summand(Locked', t) = Locked'[t]
  BY DEF Locked, Summand
<1> HIDE DEF Locked
<1>6. SumTo(Locked', NumTasks) + Summand(Locked, t)
        = SumTo(Locked, NumTasks) + Summand(Locked', t)
  BY <1>1, <1>2, <1>3, <1>4, SumUpdate
<1> QED
  BY <1>5, <1>6

\* The sum of the locked amounts is a number.
LEMMA SumsNatural ==
  ASSUME TypeOK
  PROVE  SumTo(Locked, NumTasks) \in Nat
BY LockedSummand, SumEquation, EscrowConstants

Inv == TypeOK /\ UnknownIdsUntouched /\ Solvent

\* The books agree at deployment.
LEMMA InitInv == Init => Inv
<1> SUFFICES ASSUME Init PROVE Inv
  OBVIOUS
<1>1. TypeOK
  BY InitTypeOK
<1>2. UnknownIdsUntouched
  BY DEF Init, UnknownIdsUntouched
<1>3. \A k \in Nat : Summand(Locked, k) = 0
  BY DEF Init, Locked, Summand, ZeroTask
<1>4. SumTo(Locked, NumTasks) = 0
  BY <1>3, SumOfZeros, EscrowConstants
<1>5. bal[Escrow] \in Nat
  BY <1>1 DEF TypeOK, Addresses
<1> QED
  BY <1>1, <1>2, <1>4, <1>5 DEF Inv, Solvent

(* Fund: the record that is overwritten owed nothing.                      *)
LEMMA FundInv ==
  ASSUME Inv, NEW poster \in Users, NEW taker \in Addresses,
         NEW amount \in Amounts, NEW deadline \in 1..MaxTime,
         Fund(poster, taker, amount, deadline)
  PROVE  UnknownIdsUntouched' /\ Solvent'
<1> USE DEF Inv
<1>1. TypeOK'
  BY FundType
<1>2. nextTaskId \in TaskIds /\ nextTaskId' = nextTaskId + 1
  BY EscrowConstants DEF Fund, TypeOK, TaskIds
<1>3. \A k \in TaskIds : k # nextTaskId => tasks'[k] = tasks[k]
  BY DEF Fund, TypeOK
<1>4. UnknownIdsUntouched'
  BY <1>2, <1>3 DEF UnknownIdsUntouched, TaskIds, TypeOK
<1>5. amount \in Nat /\ poster \in Addresses /\ Escrow \in Addresses
      /\ poster # Escrow
  BY EscrowConstants DEF Addresses
<1>6. bal'[Escrow] = bal[Escrow] + amount
  BY <1>5, TransferFacts DEF Fund, TypeOK
<1>7. Locked[nextTaskId] = 0
  BY <1>2 DEF UnknownIdsUntouched, Locked, ZeroTask, TypeOK, TaskIds
<1>8. Locked'[nextTaskId] = amount
  BY <1>2 DEF Fund, Locked, TypeOK
<1>9. SumTo(Locked', NumTasks) + Locked[nextTaskId]
        = SumTo(Locked, NumTasks) + Locked'[nextTaskId]
  BY <1>1, <1>2, <1>3, LockedChange
<1>10. SumTo(Locked', NumTasks) = SumTo(Locked, NumTasks) + amount
  <2>1. SumTo(Locked, NumTasks) \in Nat
    BY SumsNatural
  <2>2. SumTo(Locked', NumTasks) \in Nat
    BY <1>1, EscrowConstants, SumEquation DEF TypeOK, Locked, Task, Summand
  <2> QED BY <1>5, <1>7, <1>8, <1>9, <2>1, <2>2
<1>11. Solvent'
  <2>1. SumTo(Locked, NumTasks) \in Nat /\ bal[Escrow] \in Nat
    BY <1>5, SumsNatural DEF TypeOK
  <2> QED BY <1>5, <1>6, <1>10, <2>1 DEF Solvent
<1> QED
  BY <1>4, <1>11

(* A call that pays a task's amount and closes it: release and refund.     *)
LEMMA PayOutInv ==
  ASSUME Inv, TypeOK', NEW t \in TaskIds,
         tasks[t].status \in {"FUNDED", "DONE"}, t < nextTaskId,
         nextTaskId' = nextTaskId,
         tasks' = [tasks EXCEPT ![t].status = tasks'[t].status],
         tasks'[t].status \in {"RELEASED", "REFUNDED"},
         bal'[Escrow] >= bal[Escrow] - tasks[t].amount
  PROVE  UnknownIdsUntouched' /\ Solvent'
<1> USE DEF Inv
<1>1. \A k \in TaskIds : k # t => tasks'[k] = tasks[k]
  BY DEF TypeOK
<1>2. UnknownIdsUntouched'
  BY <1>1 DEF UnknownIdsUntouched, TaskIds, TypeOK
<1>3. Locked[t] = tasks[t].amount /\ Locked'[t] = 0
  BY DEF Locked
<1>4. SumTo(Locked', NumTasks) + Locked[t] = SumTo(Locked, NumTasks) + Locked'[t]
  BY <1>1, LockedChange
<1>5. SumTo(Locked, NumTasks) \in Nat /\ SumTo(Locked', NumTasks) \in Nat
  <2>1. \A k \in Nat : Summand(Locked', k) \in Nat
    BY DEF TypeOK, Locked, Task, Summand
  <2> QED BY <2>1, SumsNatural, EscrowConstants, SumEquation
<1>6. bal[Escrow] \in Nat /\ bal'[Escrow] \in Nat /\ tasks[t].amount \in Nat
  BY DEF TypeOK, Addresses, Task
<1>7. Solvent'
  BY <1>3, <1>4, <1>5, <1>6 DEF Solvent
<1> QED
  BY <1>2, <1>7

\* deliver keeps the books.
LEMMA DeliverInv ==
  ASSUME Inv, NEW sender \in Users, NEW t \in TaskIds,
         NEW hash \in Hashes \cup {Zero}, Deliver(sender, t, hash)
  PROVE  UnknownIdsUntouched' /\ Solvent'
<1> USE DEF Inv
<1>1. TypeOK'
  BY DeliverType
<1>2. \A k \in TaskIds : k # t => tasks'[k] = tasks[k]
  BY DEF Deliver, TypeOK
<1>3. t < nextTaskId
  <2> SUFFICES ASSUME t >= nextTaskId PROVE FALSE
    BY DEF TypeOK, TaskIds
  <2>1. tasks[t] = ZeroTask
    BY DEF UnknownIdsUntouched
  <2> QED BY <2>1, EscrowConstants DEF Deliver, MayDeliver, ZeroTask, Addresses
<1>4. UnknownIdsUntouched'
  BY <1>2, <1>3 DEF UnknownIdsUntouched, TaskIds, TypeOK, Deliver
<1>5. tasks'[t].status = "DONE" /\ tasks'[t].amount = tasks[t].amount
      /\ tasks[t].status = "FUNDED"
  BY DEF Deliver, MayDeliver, TypeOK, Task
<1>6. Locked'[t] = Locked[t]
  BY <1>5 DEF Locked
<1>7. SumTo(Locked', NumTasks) + Locked[t] = SumTo(Locked, NumTasks) + Locked'[t]
  BY <1>1, <1>2, LockedChange
<1>8. /\ SumTo(Locked, NumTasks) \in Nat /\ SumTo(Locked', NumTasks) \in Nat
      /\ Locked[t] \in Nat
  <2>1. \A k \in Nat : Summand(Locked', k) \in Nat
    BY <1>1 DEF TypeOK, Locked, Task, Summand
  <2>2. Locked[t] \in Nat
    BY DEF Locked, TypeOK, Task
  <2> QED BY <2>1, <2>2, SumsNatural, EscrowConstants, SumEquation
<1>9. Solvent'
  BY <1>6, <1>7, <1>8 DEF Solvent, Deliver
<1> QED
  BY <1>4, <1>9

\* release pays out what it stops counting as locked.
LEMMA ReleaseInv ==
  ASSUME Inv, NEW sender \in Users, NEW t \in TaskIds, Release(sender, t)
  PROVE  UnknownIdsUntouched' /\ Solvent'
<1> USE DEF Inv
<1>1. tasks[t].status = "DONE"
  BY DEF Release, Releasable, MayRelease
<1>2. t < nextTaskId
  BY <1>1 DEF UnknownIdsUntouched, ZeroTask, TypeOK, TaskIds
<1>3. tasks'[t].status = "RELEASED" /\ nextTaskId' = nextTaskId
      /\ tasks' = [tasks EXCEPT ![t].status = "RELEASED"]
  BY DEF Release, TypeOK, Task
<1> QED
  BY <1>1, <1>2, <1>3, ReleaseType, ReleaseMoney, PayOutInv

(* Refund of an id that was never funded pays address(0), which the token  *)
(* refuses: that is why the zero record is safe.                           *)
LEMMA RefundKnown ==
  ASSUME Inv, NEW t \in TaskIds, Refund(t)
  PROVE  t < nextTaskId
<1> USE DEF Inv
<1> SUFFICES ASSUME t >= nextTaskId PROVE FALSE
  BY DEF TypeOK, TaskIds
<1>1. tasks[t].poster = Zero
  BY DEF UnknownIdsUntouched, ZeroTask
<1> QED
  BY <1>1 DEF Refund, Refundable, CanTransfer

\* refund pays out what it stops counting as locked.
LEMMA RefundInv ==
  ASSUME Inv, NEW t \in TaskIds, Refund(t)
  PROVE  UnknownIdsUntouched' /\ Solvent'
<1> USE DEF Inv
<1>1. tasks[t].status = "FUNDED"
  BY DEF Refund, Refundable, MayRefund
<1>2. t < nextTaskId
  BY RefundKnown
<1>3. tasks'[t].status = "REFUNDED" /\ nextTaskId' = nextTaskId
      /\ tasks' = [tasks EXCEPT ![t].status = "REFUNDED"]
  BY DEF Refund, TypeOK, Task
<1> QED
  BY <1>1, <1>2, <1>3, RefundType, RefundMoney, PayOutInv

\* Every call keeps the books.
LEMMA NextInv == Inv /\ [Next]_vars => Inv'
<1> SUFFICES ASSUME Inv, [Next]_vars PROVE Inv'
  OBVIOUS
<1>1. TypeOK'
  BY NextType DEF Inv
<1>2. CASE TaskStep
  BY <1>1, <1>2, FundInv, DeliverInv, ReleaseInv, RefundInv DEF TaskStep, Inv
<1>3. CASE UNCHANGED <<bal, tasks, nextTaskId>>
  BY <1>1, <1>3 DEF Inv, UnknownIdsUntouched, Solvent, Locked
<1>4. CASE AdminStep \/ Tick
  BY <1>3, <1>4, QuietStep
<1>5. CASE UNCHANGED vars
  BY <1>3, <1>5 DEF vars
<1> QED
  BY <1>2, <1>4, <1>5 DEF Next

\* So they agree in every behaviour.
LEMMA InvAlways == Spec => []Inv
<1>1. Init => Inv
  BY InitInv
<1>2. Inv /\ [Next]_vars => Inv'
  BY NextInv
<1> QED
  BY <1>1, <1>2, PTL DEF Spec

(* The escrow can always pay every open task, for any number of tasks,     *)
(* accounts and fee changes.                                               *)
THEOREM AlwaysSolvent == Spec => []Solvent
<1>1. Inv => Solvent
  BY DEF Inv
<1> QED
  BY <1>1, InvAlways, PTL

(* The zero record of an id that was never funded is never moved.          *)
THEOREM UnknownIdsStayZero == Spec => []UnknownIdsUntouched
<1>1. Inv => UnknownIdsUntouched
  BY DEF Inv
<1> QED
  BY <1>1, InvAlways, PTL

-----------------------------------------------------------------------------
(* A delivered hash is recorded as used; with it the uniqueness of results *)
(* and the bound on lock times are inductive.                              *)
HashesRecorded ==
  \A t \in TaskIds :
    tasks[t].resultHash # Zero => tasks[t].resultHash \in usedResultHashes

ResultInv == Inv /\ HashesRecorded /\ ResultHashUnique /\ BoundedLock

\* It holds at deployment, when no task has a result.
LEMMA InitResultInv == Init => ResultInv
<1> SUFFICES ASSUME Init PROVE ResultInv
  OBVIOUS
<1>1. \A t \in TaskIds : tasks[t] = ZeroTask
  BY DEF Init
<1>2. HashesRecorded /\ ResultHashUnique
  BY <1>1 DEF HashesRecorded, ResultHashUnique, ZeroTask
<1>3. BoundedLock
  BY <1>1, EscrowConstants DEF BoundedLock, ZeroTask, Init
<1> QED
  BY <1>2, <1>3, InitInv DEF ResultInv

\* A funded task starts without a result and with a bounded lock.
LEMMA FundResult ==
  ASSUME ResultInv, NEW poster \in Users, NEW taker \in Addresses,
         NEW amount \in Amounts, NEW deadline \in 1..MaxTime,
         Fund(poster, taker, amount, deadline)
  PROVE  HashesRecorded' /\ ResultHashUnique' /\ BoundedLock'
<1> USE DEF ResultInv, Inv
<1>1. nextTaskId \in TaskIds
  BY EscrowConstants DEF Fund, TypeOK, TaskIds
<1>2. \A k \in TaskIds : k # nextTaskId => tasks'[k] = tasks[k]
  BY DEF Fund, TypeOK
<1>3. /\ tasks'[nextTaskId].resultHash = Zero
      /\ tasks'[nextTaskId].status = "FUNDED"
      /\ tasks'[nextTaskId].deadline = deadline
  BY <1>1 DEF Fund, TypeOK
<1>4. HashesRecorded' /\ ResultHashUnique'
  BY <1>1, <1>2, <1>3 DEF HashesRecorded, ResultHashUnique, Fund
<1>5. now' = now /\ deadline <= now + MaxDeadlineSecs
  BY DEF Fund
<1>6. BoundedLock'
  BY <1>1, <1>2, <1>3, <1>5 DEF BoundedLock
<1> QED
  BY <1>4, <1>6

\* deliver records the hash it gives to its task.
LEMMA DeliverResult ==
  ASSUME ResultInv, NEW sender \in Users, NEW t \in TaskIds,
         NEW hash \in Hashes \cup {Zero}, Deliver(sender, t, hash)
  PROVE  HashesRecorded' /\ ResultHashUnique' /\ BoundedLock'
<1> USE DEF ResultInv, Inv
<1>1. \A k \in TaskIds : k # t => tasks'[k] = tasks[k]
  BY DEF Deliver, TypeOK
<1>2. /\ tasks'[t].resultHash = hash /\ tasks'[t].status = "DONE"
      /\ tasks'[t].deadline = tasks[t].deadline
      /\ tasks'[t].releaseAfter = now + releaseDelaySecs
  BY DEF Deliver, TypeOK, Task
<1>3. hash # Zero /\ hash \notin usedResultHashes
      /\ usedResultHashes' = usedResultHashes \cup {hash}
  BY DEF Deliver, MayDeliver
<1>4. HashesRecorded'
  BY <1>1, <1>2, <1>3 DEF HashesRecorded
<1>5. ResultHashUnique'
  BY <1>1, <1>2, <1>3 DEF HashesRecorded, ResultHashUnique
<1>6. now' = now /\ now <= tasks[t].deadline
  BY DEF Deliver, MayDeliver
<1>7. /\ now \in Nat /\ releaseDelaySecs \in Nat
      /\ releaseDelaySecs <= MaxReleaseDelay /\ tasks[t].deadline \in Nat
  BY EscrowConstants DEF TypeOK, Task
<1>8. tasks'[t].releaseAfter <= tasks'[t].deadline + MaxReleaseDelay
  BY <1>2, <1>6, <1>7, EscrowConstants
<1>9. BoundedLock'
  BY <1>1, <1>2, <1>6, <1>8 DEF BoundedLock
<1> QED
  BY <1>4, <1>5, <1>9

\* Closing a task leaves its result alone.
LEMMA CloseResult ==
  ASSUME ResultInv, NEW t \in TaskIds,
         (\E sender \in Users : Release(sender, t)) \/ Refund(t)
  PROVE  HashesRecorded' /\ ResultHashUnique' /\ BoundedLock'
<1> USE DEF ResultInv, Inv
<1>1. \A k \in TaskIds : k # t => tasks'[k] = tasks[k]
  BY DEF Release, Releasable, Refundable, Refund, TypeOK
<1>2. /\ tasks'[t].resultHash = tasks[t].resultHash
      /\ tasks'[t].deadline = tasks[t].deadline
  BY DEF Release, Refund, TypeOK, Task
<1>3. /\ usedResultHashes' = usedResultHashes /\ now' = now
  BY DEF Release, Refund
<1>4. \/ tasks[t].status = "DONE" /\ tasks'[t].status = "RELEASED"
      \/ tasks[t].status = "FUNDED" /\ tasks'[t].status = "REFUNDED"
  BY DEF Release, Releasable, MayRelease, Refund, Refundable, MayRefund, TypeOK, Task
<1>5. HashesRecorded'
  BY <1>1, <1>2, <1>3 DEF HashesRecorded
<1>6. ResultHashUnique'
  BY <1>1, <1>2, <1>4 DEF ResultHashUnique
<1>7. BoundedLock'
  BY <1>1, <1>2, <1>3, <1>4 DEF BoundedLock
<1> QED
  BY <1>5, <1>6, <1>7

\* Other calls do not touch tasks.
LEMMA QuietResult ==
  ASSUME ResultInv, AdminStep \/ Tick \/ UNCHANGED vars
  PROVE  HashesRecorded' /\ ResultHashUnique' /\ BoundedLock'
<1> USE DEF ResultInv, Inv
<1>1. UNCHANGED <<tasks, usedResultHashes>>
  BY QuietStep DEF vars
<1>2. now' \in Nat /\ now \in Nat /\ now <= now'
  BY DEF TypeOK, AdminStep, Tick, SetTreasury, SetFeeRateBps, vars,
     SetReleaseDelaySecs, SetMinTaskAmount, SetMaxTaskAmount, SetPaused
<1>3. HashesRecorded' /\ ResultHashUnique'
  BY <1>1 DEF HashesRecorded, ResultHashUnique
<1>4. \A t \in TaskIds : tasks[t].deadline \in Nat
  BY DEF TypeOK, Task
<1>5. BoundedLock'
  BY <1>1, <1>2, <1>4, EscrowConstants DEF BoundedLock
<1> QED
  BY <1>3, <1>5

\* Every call keeps it.
LEMMA NextResultInv == ResultInv /\ [Next]_vars => ResultInv'
<1> SUFFICES ASSUME ResultInv, [Next]_vars PROVE ResultInv'
  OBVIOUS
<1>1. Inv'
  BY NextInv DEF ResultInv
<1>2. CASE TaskStep
  BY <1>1, <1>2, FundResult, DeliverResult, CloseResult DEF TaskStep, ResultInv
<1>3. CASE AdminStep \/ Tick \/ UNCHANGED vars
  BY <1>1, <1>3, QuietResult DEF ResultInv
<1> QED
  BY <1>2, <1>3 DEF Next

\* So it holds of every behaviour.
LEMMA ResultInvAlways == Spec => []ResultInv
<1>1. Init => ResultInv
  BY InitResultInv
<1>2. ResultInv /\ [Next]_vars => ResultInv'
  BY NextResultInv
<1> QED
  BY <1>1, <1>2, PTL DEF Spec

(* No result is sold twice: delivered hashes are pairwise different.       *)
THEOREM ResultsUnique == Spec => []ResultHashUnique
<1>1. ResultInv => ResultHashUnique
  BY DEF ResultInv
<1> QED
  BY <1>1, ResultInvAlways, PTL

(* No task is locked beyond its deadline plus the longest release delay.   *)
THEOREM LockBounded == Spec => []BoundedLock
<1>1. ResultInv => BoundedLock
  BY DEF ResultInv
<1> QED
  BY <1>1, ResultInvAlways, PTL

(* All the books at once: what the run of the contracts checks for two      *)
(* tasks holds for any number of tasks, accounts, amounts and settings.    *)
THEOREM EscrowAlwaysSound == Spec => []EscrowSound
<1>1. TypeOK /\ Inv /\ ResultInv => EscrowSound
  BY DEF Inv, ResultInv, EscrowSound
<1> QED
  BY <1>1, TypeCorrect, InvAlways, ResultInvAlways, PTL

-----------------------------------------------------------------------------
(* The refinement: the stages of the statuses, then one step per operation.*)
LEMMA StatusStages ==
  /\ StageOfStatus("FUNDED") = "open"
  /\ StageOfStatus("DONE") = "delivered"
  /\ StageOfStatus("RELEASED") = "paidTaker"
  /\ StageOfStatus("REFUNDED") = "paidPoster"
BY DEF StageOfStatus

stageMap == [t \in TaskIds |-> StageOf(t)]

(* One task moves from one stage to another and its box changes.           *)
LEMMA OneStage ==
  ASSUME TypeOK, TypeOK', NEW t \in TaskIds, NEW to, NEW left,
         \A k \in TaskIds : k # t => tasks'[k] = tasks[k],
         \/ nextTaskId' = nextTaskId
         \/ nextTaskId' = nextTaskId + 1 /\ t = nextTaskId,
         t < nextTaskId', StageOfStatus(tasks'[t].status) = to,
         Locked'[t] = left
  PROVE  /\ stageMap' = [stageMap EXCEPT ![t] = to]
         /\ Locked' = [Locked EXCEPT ![t] = left]
<1>1. \A k \in TaskIds : k # t => StageOf(k)' = StageOf(k)
  <2> TAKE k \in TaskIds
  <2> SUFFICES ASSUME k # t PROVE StageOf(k)' = StageOf(k)
    OBVIOUS
  <2>1. k \in Nat /\ t \in Nat /\ nextTaskId \in Nat
    BY DEF TypeOK, TaskIds
  <2> QED BY <2>1 DEF StageOf
<1>2. StageOf(t)' = to
  <2>1. t \in Nat /\ nextTaskId' \in Nat /\ ~(t >= nextTaskId')
    BY DEF TypeOK, TaskIds
  <2> QED BY <2>1 DEF StageOf
<1>3. stageMap' = [stageMap EXCEPT ![t] = to]
  BY <1>1, <1>2 DEF stageMap
<1>4. Locked' = [Locked EXCEPT ![t] = left]
  BY DEF Locked
<1> QED
  BY <1>3, <1>4

\* fundTask is the promise's funding.
LEMMA PromiseFund ==
  ASSUME Inv, NEW poster \in Users, NEW taker \in Addresses,
         NEW amount \in Amounts, NEW deadline \in 1..MaxTime,
         Fund(poster, taker, amount, deadline),
         NEW t, t = nextTaskId
  PROVE  t \in TaskIds /\ Promise!Open(t, amount)
<1> USE DEF Inv
<1>1. TypeOK'
  BY FundType
<1>2. t \in TaskIds /\ nextTaskId' = t + 1 /\ t < nextTaskId'
  BY EscrowConstants DEF Fund, TypeOK, TaskIds
<1>3. \A k \in TaskIds : k # t => tasks'[k] = tasks[k]
  BY DEF Fund, TypeOK
<1>4. tasks'[t].status = "FUNDED" /\ tasks'[t].amount = amount
  BY <1>2 DEF Fund, TypeOK
<1>5. Locked'[t] = amount
  BY <1>2, <1>4 DEF Locked
<1>6. /\ stageMap' = [stageMap EXCEPT ![t] = "open"]
      /\ Locked' = [Locked EXCEPT ![t] = amount]
  BY <1>1, <1>2, <1>3, <1>4, <1>5, StatusStages, OneStage
<1>7. stageMap[t] = "unknown"
  BY <1>2 DEF stageMap, StageOf, TaskIds
<1> QED
  BY <1>2, <1>6, <1>7 DEF Promise!Open, stageMap

(* A known task whose status the caller's guard fixes is in that stage.    *)
LEMMA KnownStage ==
  ASSUME TypeOK, NEW t \in TaskIds, t < nextTaskId
  PROVE  stageMap[t] = StageOfStatus(tasks[t].status)
<1>1. t \in Nat /\ nextTaskId \in Nat /\ ~(t >= nextTaskId)
  BY DEF TypeOK, TaskIds
<1> QED
  BY <1>1 DEF stageMap, StageOf

\* deliver is the promise's delivery.
LEMMA PromiseDeliver ==
  ASSUME Inv, NEW sender \in Users, NEW t \in TaskIds,
         NEW hash \in Hashes \cup {Zero}, Deliver(sender, t, hash)
  PROVE  Promise!Deliver(t)
<1> USE DEF Inv
<1>1. TypeOK'
  BY DeliverType
<1>2. t < nextTaskId
  <2> SUFFICES ASSUME t >= nextTaskId PROVE FALSE
    BY DEF TypeOK, TaskIds
  <2>1. tasks[t] = ZeroTask
    BY DEF UnknownIdsUntouched
  <2> QED BY <2>1, EscrowConstants DEF Deliver, MayDeliver, ZeroTask, Addresses
<1>3. /\ \A k \in TaskIds : k # t => tasks'[k] = tasks[k]
      /\ nextTaskId' = nextTaskId
  BY DEF Deliver, TypeOK
<1>4. tasks[t].status = "FUNDED" /\ tasks'[t].status = "DONE"
      /\ tasks'[t].amount = tasks[t].amount
  BY DEF Deliver, MayDeliver, TypeOK, Task
<1>5. Locked'[t] = Locked[t]
  BY <1>4 DEF Locked
<1>6. /\ stageMap' = [stageMap EXCEPT ![t] = "delivered"]
      /\ Locked' = [Locked EXCEPT ![t] = Locked[t]]
  BY <1>1, <1>2, <1>3, <1>4, <1>5, StatusStages, OneStage
<1>7. Locked' = Locked
  BY <1>6 DEF Locked
<1>8. stageMap[t] = "open"
  BY <1>2, <1>4, StatusStages, KnownStage
<1> QED
  BY <1>6, <1>7, <1>8 DEF Promise!Deliver, stageMap

\* release is the promise's payment.
LEMMA PromiseRelease ==
  ASSUME Inv, NEW sender \in Users, NEW t \in TaskIds, Release(sender, t)
  PROVE  Promise!PayTaker(t)
<1> USE DEF Inv
<1>1. TypeOK'
  BY ReleaseType
<1>2. tasks[t].status = "DONE" /\ tasks'[t].status = "RELEASED"
      /\ nextTaskId' = nextTaskId
      /\ \A k \in TaskIds : k # t => tasks'[k] = tasks[k]
  BY DEF Release, Releasable, MayRelease, TypeOK, Task
<1>3. t < nextTaskId
  BY <1>2 DEF UnknownIdsUntouched, ZeroTask, TypeOK, TaskIds
<1>4. Locked'[t] = 0
  BY <1>2 DEF Locked
<1>5. /\ stageMap' = [stageMap EXCEPT ![t] = "paidTaker"]
      /\ Locked' = [Locked EXCEPT ![t] = 0]
  BY <1>1, <1>2, <1>3, <1>4, StatusStages, OneStage
<1>6. stageMap[t] = "delivered"
  BY <1>2, <1>3, StatusStages, KnownStage
<1> QED
  BY <1>5, <1>6 DEF Promise!PayTaker, Promise!Empty, stageMap

\* refund is the promise's refund.
LEMMA PromiseRefund ==
  ASSUME Inv, NEW t \in TaskIds, Refund(t)
  PROVE  Promise!PayPoster(t)
<1> USE DEF Inv
<1>1. TypeOK'
  BY RefundType
<1>2. tasks[t].status = "FUNDED" /\ tasks'[t].status = "REFUNDED"
      /\ nextTaskId' = nextTaskId
      /\ \A k \in TaskIds : k # t => tasks'[k] = tasks[k]
  BY DEF Refund, Refundable, MayRefund, TypeOK, Task
<1>3. t < nextTaskId
  BY RefundKnown
<1>4. Locked'[t] = 0
  BY <1>2 DEF Locked
<1>5. /\ stageMap' = [stageMap EXCEPT ![t] = "paidPoster"]
      /\ Locked' = [Locked EXCEPT ![t] = 0]
  BY <1>1, <1>2, <1>3, <1>4, StatusStages, OneStage
<1>6. stageMap[t] = "open"
  BY <1>2, <1>3, StatusStages, KnownStage
<1> QED
  BY <1>5, <1>6 DEF Promise!PayPoster, Promise!Empty, stageMap

\* Deployment is where the promise begins.
LEMMA PromiseInit == Init => Promise!Init
<1> SUFFICES ASSUME Init PROVE Promise!Init
  OBVIOUS
<1>1. \A t \in TaskIds : StageOf(t) = "unknown"
  BY DEF Init, StageOf, TaskIds
<1>2. Locked = [t \in TaskIds |-> 0]
  BY DEF Init, Locked, ZeroTask
<1> QED
  BY <1>1, <1>2 DEF Promise!Init

\* Every call is a step of the promise, or none.
LEMMA PromiseStep == Inv /\ [Next]_vars => [Promise!Next]_(Promise!vars)
<1> SUFFICES ASSUME Inv, [Next]_vars PROVE [Promise!Next]_(Promise!vars)
  OBVIOUS
<1>1. CASE TaskStep
  <2>1. Promise!Next
    BY <1>1, PromiseFund, PromiseDeliver, PromiseRelease, PromiseRefund
       DEF TaskStep, Promise!Next
  <2> QED BY <2>1
<1>2. CASE UNCHANGED <<tasks, nextTaskId>>
  BY <1>2 DEF Promise!vars, StageOf, Locked
<1>3. CASE AdminStep \/ Tick
  BY <1>2, <1>3, QuietStep
<1>4. CASE UNCHANGED vars
  BY <1>2, <1>4 DEF vars
<1> QED
  BY <1>1, <1>3, <1>4 DEF Next

(* The contract implements the one-box-per-task promise: money enters a    *)
(* task once and leaves it whole and once, to the taker after delivery or  *)
(* to the poster without it.                                               *)
THEOREM ImplementsPromise == Spec => KeepsPromise
<1>1. Init => Promise!Init
  BY PromiseInit
<1>2. Inv /\ [Next]_vars => [Promise!Next]_(Promise!vars)
  BY PromiseStep
<1> QED
  BY <1>1, <1>2, InvAlways, PTL DEF Spec, Promise!Spec, KeepsPromise

-----------------------------------------------------------------------------
(* What users may count on.  The parties of a funded task are real accounts: *)
(* without that a refund or a release would be refused by the token.         *)
PartiesInv == \A t \in TaskIds : t < nextTaskId => tasks[t].poster \in Users /\ tasks[t].taker \in Addresses

FundsInv == Inv /\ PartiesInv /\ AccountsWhole

(* A higher rate is no lower fee.                                          *)
LEMMA FeeGrows ==
  ASSUME NEW amount \in Nat, NEW bps \in Nat, NEW most \in Nat, bps <= most
  PROVE  FeeOf(amount, bps) <= FeeOf(amount, most)
<1>1. PICK d \in Nat : most = bps + d
  <2>1. most - bps \in Nat /\ most = bps + (most - bps)
    OBVIOUS
  <2> QED BY <2>1
<1>2. amount * most = amount * bps + amount * d /\ amount * bps \in Nat /\ amount * d \in Nat
  BY <1>1
<1>3. PICK p \in Nat, q \in Nat : p = amount * bps /\ q = amount * most /\ p <= q
  BY <1>2
<1>4. p \div 10000 <= q \div 10000
  BY <1>3
<1> QED BY <1>3, <1>4 DEF FeeOf, BpsScale

(* The least a taker is paid is a part of the amount, and no more than what *)
(* any rate the owner may set leaves.                                       *)
LEMMA LeastNetBound ==
  ASSUME NEW amount \in Nat
  PROVE  /\ LeastNet(amount) \in 0..amount
         /\ \A bps \in 0..MaxFeeBps : LeastNet(amount) <= amount - FeeOf(amount, bps)
<1>1. MaxFeeBps \in 0..BpsScale /\ MaxFeeBps \in Nat
  BY EscrowConstants DEF BpsScale
<1>2. FeeOf(amount, MaxFeeBps) \in 0..amount
  BY <1>1, FeeBound
<1>3. LeastNet(amount) = amount - FeeOf(amount, MaxFeeBps)
  BY DEF LeastNet, FeeOf
<1>4. ASSUME NEW bps \in 0..MaxFeeBps PROVE LeastNet(amount) <= amount - FeeOf(amount, bps)
  <2>1. bps \in Nat /\ bps <= MaxFeeBps /\ bps \in 0..BpsScale
    BY <1>1 DEF BpsScale
  <2>2. FeeOf(amount, bps) <= FeeOf(amount, MaxFeeBps) /\ FeeOf(amount, bps) \in 0..amount
    BY <1>1, <2>1, FeeGrows, FeeBound
  <2> QED BY <1>2, <1>3, <2>2
<1> QED BY <1>2, <1>3, <1>4

(* What one user spent and earned are functions from ids to numbers.       *)
LEMMA BooksTyped ==
  ASSUME TypeOK, NEW u \in Users
  PROVE  SpentBy(u) \in [1..NumTasks -> Nat] /\ EarnedBy(u) \in [1..NumTasks -> Nat]
<1>1. \A t \in TaskIds : tasks[t].amount \in Nat
  BY DEF TypeOK, Task
<1>2. \A t \in TaskIds : LeastNet(tasks[t].amount) \in Nat
  BY <1>1, LeastNetBound
<1> QED BY <1>1, <1>2 DEF SpentBy, EarnedBy, TaskIds

(* Only the record of t changed: the account stays whole if what it lost is *)
(* what it now spends on t, less what it now earned from t.                 *)
LEMMA AccountMoves ==
  ASSUME TypeOK, TypeOK', NEW u \in Users, NEW t \in TaskIds,
         \A k \in TaskIds : k # t => tasks'[k] = tasks[k],
         bal[u] + SumTo(SpentBy(u), NumTasks) >= InitialBalance + SumTo(EarnedBy(u), NumTasks),
         (bal'[u] + SpentBy(u)'[t]) + EarnedBy(u)[t] >= (bal[u] + SpentBy(u)[t]) + EarnedBy(u)'[t]
  PROVE  bal'[u] + SumTo(SpentBy(u)', NumTasks) >= InitialBalance + SumTo(EarnedBy(u)', NumTasks)
<1>1. NumTasks \in Nat /\ t \in 1..NumTasks /\ InitialBalance \in Nat
  BY EscrowConstants DEF TaskIds
<1>2. PICK s, s1, e, e1 : s = SpentBy(u) /\ s1 = SpentBy(u)' /\ e = EarnedBy(u) /\ e1 = EarnedBy(u)'
  OBVIOUS
<1>3. s \in [1..NumTasks -> Nat] /\ e \in [1..NumTasks -> Nat]
  BY <1>2, BooksTyped
<1>4. s1 \in [1..NumTasks -> Nat] /\ e1 \in [1..NumTasks -> Nat]
  <2>1. SpentBy(u)' \in [1..NumTasks -> Nat] /\ EarnedBy(u)' \in [1..NumTasks -> Nat]
    <3>1. \A k \in TaskIds : (tasks'[k]).amount \in Nat
      BY DEF TypeOK, Task
    <3>2. \A k \in TaskIds : LeastNet((tasks'[k]).amount) \in Nat
      BY <3>1, LeastNetBound
    <3> QED BY <3>1, <3>2 DEF SpentBy, EarnedBy, TaskIds
  <2> QED BY <1>2, <2>1
<1>5. \A k \in 1..NumTasks : k # t => s[k] = s1[k] /\ e[k] = e1[k]
  BY <1>2 DEF SpentBy, EarnedBy, TaskIds
<1>6. SumTo(s1, NumTasks) + s[t] = SumTo(s, NumTasks) + s1[t]
  BY <1>1, <1>3, <1>4, <1>5, SumChange
<1>7. SumTo(e1, NumTasks) + e[t] = SumTo(e, NumTasks) + e1[t]
  BY <1>1, <1>3, <1>4, <1>5, SumChange
<1>8. /\ SumTo(s, NumTasks) \in Nat /\ SumTo(s1, NumTasks) \in Nat
      /\ SumTo(e, NumTasks) \in Nat /\ SumTo(e1, NumTasks) \in Nat
      /\ s[t] \in Nat /\ s1[t] \in Nat /\ e[t] \in Nat /\ e1[t] \in Nat
  BY <1>1, <1>3, <1>4, SumIsNat
<1>9. bal[u] \in Nat /\ bal'[u] \in Nat
  BY DEF TypeOK, Addresses
<1>10. PICK S, S1, E, E1 \in Nat : /\ S = SumTo(s, NumTasks) /\ S1 = SumTo(s1, NumTasks)
                                   /\ E = SumTo(e, NumTasks) /\ E1 = SumTo(e1, NumTasks)
  BY <1>8
<1>11. bal[u] + S >= InitialBalance + E /\ (bal'[u] + s1[t]) + e[t] >= (bal[u] + s[t]) + e1[t]
  BY <1>2, <1>10
<1>12. bal'[u] + S1 >= InitialBalance + E1
  BY <1>1, <1>6, <1>7, <1>8, <1>9, <1>10, <1>11
<1> QED BY <1>2, <1>10, <1>12

(* Where the tokens of a transfer go.                                      *)
LEMMA TransferTo ==
  ASSUME NEW b \in [Addresses -> Nat], NEW from \in Addresses, NEW to \in Addresses,
         NEW amount \in Nat, CanTransfer(b, from, to, amount), NEW u \in Addresses
  PROVE  /\ u # from => Transferred(b, from, to, amount)[u] >= b[u]
         /\ u = to /\ u # from => Transferred(b, from, to, amount)[u] = b[u] + amount
         /\ Transferred(b, from, to, amount)[u] + amount >= b[u]
         /\ u = from /\ u # to => Transferred(b, from, to, amount)[u] = b[u] - amount
BY DEF CanTransfer, Transferred

(* fund takes from the poster what the new task will have cost.            *)
LEMMA FundFunds ==
  ASSUME FundsInv, NEW poster \in Users, NEW taker \in Addresses, NEW amount \in Amounts,
         NEW deadline \in 1..MaxTime, Fund(poster, taker, amount, deadline)
  PROVE  PartiesInv' /\ AccountsWhole'
<1> USE DEF FundsInv, Inv
<1>1. TypeOK'
  BY FundType
<1>2. nextTaskId \in TaskIds /\ nextTaskId' = nextTaskId + 1 /\ amount \in Nat
  BY EscrowConstants DEF Fund, TypeOK, TaskIds
<1>3. \A k \in TaskIds : k # nextTaskId => tasks'[k] = tasks[k]
  BY DEF Fund, TypeOK
<1>4. /\ tasks'[nextTaskId].poster = poster /\ tasks'[nextTaskId].taker = taker
      /\ tasks'[nextTaskId].amount = amount /\ tasks'[nextTaskId].status = "FUNDED"
  BY <1>2 DEF Fund, TypeOK
<1>5. tasks[nextTaskId] = ZeroTask
  BY <1>2 DEF UnknownIdsUntouched, TypeOK, TaskIds
<1>6. PartiesInv'
  BY <1>2, <1>3, <1>4 DEF PartiesInv, TaskIds, TypeOK
<1>7. ASSUME NEW u \in Users
      PROVE  bal'[u] + SumTo(SpentBy(u)', NumTasks) >= InitialBalance + SumTo(EarnedBy(u)', NumTasks)
  <2>1. /\ SpentBy(u)[nextTaskId] = 0 /\ EarnedBy(u)[nextTaskId] = 0
        /\ EarnedBy(u)'[nextTaskId] = 0
        /\ SpentBy(u)'[nextTaskId] = IF u = poster THEN amount ELSE 0
    BY <1>2, <1>4, <1>5, EscrowConstants DEF SpentBy, EarnedBy, ZeroTask, Addresses
  <2>2. bal[u] \in Nat /\ bal'[u] \in Nat /\ u # Escrow
    BY <1>1, EscrowConstants DEF TypeOK, Addresses
  <2>3. bal'[u] >= bal[u] \/ (u = poster /\ bal'[u] + amount >= bal[u])
    BY <1>2, TransferTo DEF Fund, TypeOK, Addresses
  <2>4. (bal'[u] + SpentBy(u)'[nextTaskId]) + EarnedBy(u)[nextTaskId]
          >= (bal[u] + SpentBy(u)[nextTaskId]) + EarnedBy(u)'[nextTaskId]
    BY <1>2, <2>1, <2>2, <2>3
  <2> QED BY <1>1, <1>2, <1>3, <2>4, AccountMoves DEF AccountsWhole
<1> QED BY <1>6, <1>7 DEF AccountsWhole

(* deliver moves no money and changes no party.                            *)
LEMMA DeliverFunds ==
  ASSUME FundsInv, NEW sender \in Users, NEW t \in TaskIds, NEW hash \in Hashes \cup {Zero},
         Deliver(sender, t, hash)
  PROVE  PartiesInv' /\ AccountsWhole'
<1> USE DEF FundsInv, Inv
<1>1. \A k \in TaskIds : /\ tasks'[k].poster = tasks[k].poster /\ tasks'[k].taker = tasks[k].taker
                         /\ tasks'[k].amount = tasks[k].amount
                         /\ tasks'[k].status = tasks[k].status
                            \/ (tasks[k].status = "FUNDED" /\ tasks'[k].status = "DONE")
  BY DEF Deliver, MayDeliver, TypeOK, Task
<1>2. \A u \in Users : SpentBy(u)' = SpentBy(u) /\ EarnedBy(u)' = EarnedBy(u)
  BY <1>1 DEF SpentBy, EarnedBy
<1>3. nextTaskId' = nextTaskId /\ bal' = bal
  BY DEF Deliver
<1>4. PartiesInv'
  BY <1>1, <1>3 DEF PartiesInv
<1> QED BY <1>2, <1>3, <1>4 DEF AccountsWhole

(* release pays the taker at least the least net; the fee goes elsewhere.  *)
LEMMA ReleaseFunds ==
  ASSUME FundsInv, NEW sender \in Users, NEW t \in TaskIds, Release(sender, t)
  PROVE  PartiesInv' /\ AccountsWhole'
<1> USE DEF FundsInv, Inv
<1>1. TypeOK'
  BY ReleaseType
<1>2. /\ tasks[t].status = "DONE" /\ tasks'[t].status = "RELEASED" /\ nextTaskId' = nextTaskId
      /\ \A k \in TaskIds : k # t => tasks'[k] = tasks[k]
      /\ tasks'[t].poster = tasks[t].poster /\ tasks'[t].taker = tasks[t].taker
      /\ tasks'[t].amount = tasks[t].amount
  BY DEF Release, Releasable, MayRelease, TypeOK, Task
<1>3. t < nextTaskId
  BY <1>2 DEF UnknownIdsUntouched, ZeroTask, TypeOK, TaskIds
<1>4. PartiesInv'
  BY <1>2 DEF PartiesInv
<1>5. PICK taker, amount, fee, net, paid :
        /\ taker = tasks[t].taker /\ amount = tasks[t].amount /\ fee = FeeOf(amount, feeRateBps)
        /\ net = amount - fee /\ paid = Transferred(bal, Escrow, taker, net)
  OBVIOUS
<1>6. amount \in Nat /\ taker \in Addresses /\ treasury \in Addresses /\ feeRateBps \in 0..MaxFeeBps
  BY <1>3, <1>5 DEF PartiesInv, TypeOK, Task
<1>7. fee \in 0..amount /\ net \in Nat /\ fee \in Nat
  <2>1. feeRateBps \in 0..BpsScale
    BY <1>6, EscrowConstants DEF BpsScale
  <2>2. fee \in 0..amount
    BY <1>5, <1>6, <2>1, FeeBound
  <2> QED BY <1>5, <1>6, <2>2
<1>8. /\ CanTransfer(bal, Escrow, taker, net) /\ CanTransfer(paid, Escrow, treasury, fee)
      /\ bal' = Transferred(paid, Escrow, treasury, fee)
  BY <1>5 DEF Release, Releasable
<1>9. bal \in [Addresses -> Nat] /\ Escrow \in Addresses
  BY DEF TypeOK, Addresses
<1>10. paid \in [Addresses -> Nat]
  BY <1>5, <1>6, <1>7, <1>8, <1>9, TransferFacts
<1>11. ASSUME NEW u \in Users
       PROVE  bal'[u] + SumTo(SpentBy(u)', NumTasks) >= InitialBalance + SumTo(EarnedBy(u)', NumTasks)
  <2>1. u # Escrow /\ u \in Addresses /\ bal[u] \in Nat /\ bal'[u] \in Nat /\ paid[u] \in Nat
    BY <1>1, <1>10, EscrowConstants DEF TypeOK, Addresses
  <2>2. paid[u] >= bal[u] /\ (u = taker => paid[u] = bal[u] + net)
    BY <1>5, <1>6, <1>7, <1>8, <1>9, <2>1, TransferTo
  <2>3. bal'[u] >= paid[u]
    BY <1>6, <1>7, <1>8, <1>9, <1>10, <2>1, TransferTo
  <2>4. LeastNet(amount) <= net /\ LeastNet(amount) \in Nat
    BY <1>5, <1>6, LeastNetBound
  <2>5. SpentBy(u)'[t] = SpentBy(u)[t]
    BY <1>2 DEF SpentBy
  <2>6. EarnedBy(u)[t] = 0 /\ EarnedBy(u)'[t] = IF u = taker THEN LeastNet(amount) ELSE 0
    BY <1>2, <1>5 DEF EarnedBy
  <2>7. SpentBy(u)[t] \in Nat
    BY BooksTyped DEF TaskIds
  <2>8. bal'[u] >= bal[u] + EarnedBy(u)'[t] /\ EarnedBy(u)'[t] \in Nat
    BY <1>7, <2>1, <2>2, <2>3, <2>4, <2>6
  <2>9. (bal'[u] + SpentBy(u)'[t]) + EarnedBy(u)[t] >= (bal[u] + SpentBy(u)[t]) + EarnedBy(u)'[t]
    BY <2>1, <2>5, <2>6, <2>7, <2>8
  <2> QED BY <1>1, <1>2, <2>9, AccountMoves DEF AccountsWhole
<1> QED BY <1>4, <1>11 DEF AccountsWhole

(* refund gives back what the task had cost.                               *)
LEMMA RefundFunds ==
  ASSUME FundsInv, NEW t \in TaskIds, Refund(t)
  PROVE  PartiesInv' /\ AccountsWhole'
<1> USE DEF FundsInv, Inv
<1>1. TypeOK'
  BY RefundType
<1>2. /\ tasks[t].status = "FUNDED" /\ tasks'[t].status = "REFUNDED" /\ nextTaskId' = nextTaskId
      /\ \A k \in TaskIds : k # t => tasks'[k] = tasks[k]
      /\ tasks'[t].poster = tasks[t].poster /\ tasks'[t].taker = tasks[t].taker
      /\ tasks'[t].amount = tasks[t].amount
  BY DEF Refund, Refundable, MayRefund, TypeOK, Task
<1>3. t < nextTaskId
  BY RefundKnown
<1>4. PartiesInv'
  BY <1>2 DEF PartiesInv
<1>5. PICK poster, amount : poster = tasks[t].poster /\ amount = tasks[t].amount
  OBVIOUS
<1>6. /\ amount \in Nat /\ poster \in Users /\ CanTransfer(bal, Escrow, poster, amount)
      /\ bal' = Transferred(bal, Escrow, poster, amount)
      /\ bal \in [Addresses -> Nat] /\ Escrow \in Addresses /\ poster \in Addresses
  BY <1>3, <1>5 DEF PartiesInv, TypeOK, Task, Refund, Refundable, Addresses
<1>7. ASSUME NEW u \in Users
      PROVE  bal'[u] + SumTo(SpentBy(u)', NumTasks) >= InitialBalance + SumTo(EarnedBy(u)', NumTasks)
  <2>1. u # Escrow /\ u \in Addresses /\ bal[u] \in Nat /\ bal'[u] \in Nat
    BY <1>1, EscrowConstants DEF TypeOK, Addresses
  <2>2. bal'[u] >= bal[u] /\ (u = poster => bal'[u] = bal[u] + amount)
    BY <1>6, <2>1, TransferTo
  <2>3. SpentBy(u)[t] = (IF u = poster THEN amount ELSE 0) /\ SpentBy(u)'[t] = 0
    BY <1>2, <1>5 DEF SpentBy
  <2>4. EarnedBy(u)[t] = 0 /\ EarnedBy(u)'[t] = 0
    BY <1>2 DEF EarnedBy
  <2>5. (bal'[u] + SpentBy(u)'[t]) + EarnedBy(u)[t] >= (bal[u] + SpentBy(u)[t]) + EarnedBy(u)'[t]
    BY <1>6, <2>1, <2>2, <2>3, <2>4
  <2> QED BY <1>1, <1>2, <2>5, AccountMoves DEF AccountsWhole
<1> QED BY <1>4, <1>7 DEF AccountsWhole

(* Every call keeps the accounts whole.                                    *)
LEMMA NextFundsInv == FundsInv /\ [Next]_vars => FundsInv'
<1> SUFFICES ASSUME FundsInv, [Next]_vars PROVE FundsInv'
  OBVIOUS
<1>1. Inv'
  BY NextInv DEF FundsInv
<1>2. CASE TaskStep
  BY <1>1, <1>2, FundFunds, DeliverFunds, ReleaseFunds, RefundFunds DEF TaskStep, FundsInv
<1>3. CASE UNCHANGED <<bal, tasks, nextTaskId>>
  <2>1. PartiesInv'
    BY <1>3 DEF FundsInv, PartiesInv
  <2>2. \A u \in Users : SpentBy(u)' = SpentBy(u) /\ EarnedBy(u)' = EarnedBy(u)
    BY <1>3 DEF SpentBy, EarnedBy
  <2>3. AccountsWhole'
    BY <1>3, <2>2 DEF FundsInv, AccountsWhole
  <2> QED BY <1>1, <2>1, <2>3 DEF FundsInv
<1>4. CASE AdminStep \/ Tick
  BY <1>3, <1>4, QuietStep
<1>5. CASE UNCHANGED vars
  BY <1>3, <1>5 DEF vars
<1> QED BY <1>2, <1>4, <1>5 DEF Next

(* At deployment nobody has spent or earned.                               *)
LEMMA InitFundsInv == Init => FundsInv
<1> SUFFICES ASSUME Init PROVE FundsInv
  OBVIOUS
<1>1. Inv
  BY InitInv
<1>2. PartiesInv
  BY DEF Init, PartiesInv, TaskIds
<1>3. ASSUME NEW u \in Users
      PROVE  bal[u] + SumTo(SpentBy(u), NumTasks) >= InitialBalance + SumTo(EarnedBy(u), NumTasks)
  <2>1. \A k \in Nat : Summand(SpentBy(u), k) = 0 /\ Summand(EarnedBy(u), k) = 0
    BY EscrowConstants DEF Init, SpentBy, EarnedBy, Summand, ZeroTask, Addresses
  <2>2. SumTo(SpentBy(u), NumTasks) = 0 /\ SumTo(EarnedBy(u), NumTasks) = 0
    BY <2>1, SumOfZeros, EscrowConstants
  <2>3. bal[u] = InitialBalance /\ InitialBalance \in Nat
    BY EscrowConstants DEF Init, Addresses
  <2> QED BY <2>2, <2>3
<1> QED BY <1>1, <1>2, <1>3 DEF FundsInv, AccountsWhole

(* One pot pays: it holds at least what every open task locked.            *)
LEMMA NothingTrapped == FundsInv => NoTrappedFunds
<1> SUFFICES ASSUME FundsInv, NEW t \in TaskIds, t < nextTaskId
             PROVE  /\ tasks[t].status = "FUNDED" /\ now > tasks[t].deadline => Refundable(t)
                    /\ tasks[t].status = "DONE" /\ now >= tasks[t].releaseAfter
                         => \A sender \in Users : Releasable(sender, t)
  BY DEF NoTrappedFunds
<1> USE DEF FundsInv, Inv
<1>1. tasks[t].amount \in Nat /\ tasks[t].poster \in Users /\ tasks[t].taker \in Addresses
  BY DEF PartiesInv, TypeOK, Task
<1>2. /\ Zero \notin Addresses /\ Escrow \in Addresses /\ bal \in [Addresses -> Nat] /\ bal[Escrow] \in Nat
      /\ treasury \in Addresses /\ tasks[t].poster \in Addresses
  BY <1>1, EscrowConstants DEF TypeOK, Addresses
<1>3. ASSUME tasks[t].status \in {"FUNDED", "DONE"} PROVE bal[Escrow] >= tasks[t].amount
  <2>1. t \in Nat /\ t # 0 /\ t <= NumTasks /\ NumTasks \in Nat
    BY EscrowConstants DEF TaskIds
  <2>2. Summand(Locked, t) = tasks[t].amount
    BY <1>3 DEF Summand, Locked
  <2>3. Summand(Locked, t) <= SumTo(Locked, NumTasks)
    BY <2>1, LockedSummand, SumCoversSummand
  <2> QED BY <1>1, <1>2, <2>2, <2>3, SumsNatural DEF Solvent
<1>4. ASSUME tasks[t].status = "FUNDED", now > tasks[t].deadline PROVE Refundable(t)
  BY <1>1, <1>2, <1>3, <1>4 DEF Refundable, MayRefund, CanTransfer
<1>5. ASSUME tasks[t].status = "DONE", now >= tasks[t].releaseAfter, NEW sender \in Users
      PROVE  Releasable(sender, t)
  <2>1. PICK taker, amount, fee, net, paid :
          /\ taker = tasks[t].taker /\ amount = tasks[t].amount /\ fee = FeeOf(amount, feeRateBps)
          /\ net = amount - fee /\ paid = Transferred(bal, Escrow, taker, net)
    OBVIOUS
  <2>2. feeRateBps \in 0..BpsScale
    BY EscrowConstants DEF TypeOK, BpsScale
  <2>3. amount \in Nat /\ fee \in 0..amount
    BY <1>1, <2>1, <2>2, FeeBound
  <2>4. net \in Nat /\ fee \in Nat /\ net + fee = amount /\ bal[Escrow] >= amount
    BY <1>3, <1>5, <2>1, <2>3
  <2>5. CanTransfer(bal, Escrow, taker, net)
    BY <1>1, <1>2, <2>1, <2>4 DEF CanTransfer
  <2>6. paid \in [Addresses -> Nat] /\ paid[Escrow] >= bal[Escrow] - net
    BY <1>1, <1>2, <2>1, <2>4, <2>5, TransferFacts
  <2>7. paid[Escrow] \in Nat /\ paid[Escrow] >= fee
    BY <1>2, <2>4, <2>6
  <2>8. CanTransfer(paid, Escrow, treasury, fee)
    BY <1>2, <2>7 DEF CanTransfer
  <2>9. MayRelease(sender, t)
    BY <1>5 DEF MayRelease
  <2> QED BY <2>1, <2>5, <2>8, <2>9 DEF Releasable
<1> QED BY <1>4, <1>5

(* Whatever the owner did to fee and treasury, no account is short of more *)
(* than its unrefunded tasks cost, takers have their share, and whoever is *)
(* owed money can fetch it, paused or not.                                 *)
THEOREM FundsAlwaysSafe == Spec => []FundsSafe
<1>1. Init => FundsInv
  BY InitFundsInv
<1>2. FundsInv /\ [Next]_vars => FundsInv'
  BY NextFundsInv
<1>3. FundsInv => FundsSafe
  BY NothingTrapped DEF FundsInv, FundsSafe
<1> QED BY <1>1, <1>2, <1>3, PTL DEF Spec

=============================================================================
