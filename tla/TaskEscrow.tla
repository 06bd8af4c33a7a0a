----------------------------- MODULE TaskEscrow -----------------------------
(***************************************************************************)
(* contracts/src/SimpleTaskEscrow.sol with the balances of the             *)
(* SynaptexToken it holds.  One action per external function; a            *)
(* transaction is atomic, so a require that fails in the token undoes the  *)
(* whole call and the action is simply not enabled.                        *)
(*                                                                         *)
(* Solidity gives every task id a zero record, and status 0 is FUNDED: an  *)
(* id that was never funded reads as a FUNDED task of amount 0 whose       *)
(* deadline passed long ago.  The model keeps that, so tasks is total.     *)
(***************************************************************************)
EXTENDS Naturals, NatSums

CONSTANTS
  Users,            \* accounts that call the contract (EOA or AgentAccount)
  Escrow,           \* the contract's own address
  Zero,             \* address(0) and bytes32(0)
  Hashes,           \* result hashes other than bytes32(0)
  Amounts,          \* amounts a poster may try to fund
  NumTasks,         \* bound: ids 1..NumTasks are looked at
  MaxTime,          \* bound: the last block timestamp
  MaxDeadlineSecs,  \* maxDeadlineSecs, which has no setter
  MaxReleaseDelay,  \* the 7 days setReleaseDelaySecs accepts at most
  MaxFeeBps,        \* the 1000 basis points setFeeRateBps accepts at most
  FeeRates,         \* values the owner tries for feeRateBps
  ReleaseDelays,    \* values the owner tries for releaseDelaySecs
  MinAmounts,       \* values the owner tries for minTaskAmount
  MaxAmounts,       \* values the owner tries for maxTaskAmount
  InitialBalance    \* tokens of each user at deployment

Addresses == Users \cup {Escrow}
TaskIds   == 1..NumTasks
BpsScale  == 10000

ASSUME EscrowConstants ==
  /\ Escrow \notin Users /\ Zero \notin Addresses /\ Zero \notin Hashes
  /\ Amounts \subseteq Nat /\ FeeRates \subseteq Nat
  /\ ReleaseDelays \subseteq Nat /\ MinAmounts \subseteq Nat
  /\ MaxAmounts \subseteq Nat
  /\ NumTasks \in Nat /\ MaxTime \in Nat /\ InitialBalance \in Nat
  /\ MaxDeadlineSecs \in Nat /\ MaxReleaseDelay \in Nat
  /\ MaxFeeBps \in 0..BpsScale

VARIABLES
  now,               \* block.timestamp
  bal,               \* balanceOf of the token
  tasks,             \* mapping id -> Task
  nextTaskId,
  usedResultHashes,
  treasury,
  feeRateBps,
  releaseDelaySecs,
  minTaskAmount,
  maxTaskAmount,
  paused

config   == <<treasury, feeRateBps, releaseDelaySecs, minTaskAmount,
              maxTaskAmount, paused>>
taskVars == <<tasks, nextTaskId, usedResultHashes>>
vars     == <<now, bal, tasks, nextTaskId, usedResultHashes, config>>

Statuses == {"FUNDED", "DONE", "RELEASED", "REFUNDED"}

Task == [poster: Addresses \cup {Zero}, taker: Addresses \cup {Zero},
         amount: Nat, resultHash: Hashes \cup {Zero},
         deadline: Nat, releaseAfter: Nat, status: Statuses]

(* The value Solidity reads for an id that was never written.              *)
ZeroTask == [poster |-> Zero, taker |-> Zero, amount |-> 0,
             resultHash |-> Zero, deadline |-> 0, releaseAfter |-> 0,
             status |-> "FUNDED"]

-----------------------------------------------------------------------------
(* The token's _transfer: its two requires and its effect.                 *)
CanTransferMutant(b, from, to, amount) == b[from] >= amount
CanTransfer(b, from, to, amount) == to # Zero /\ b[from] >= amount

Transferred(b, from, to, amount) ==
  LET debited == [b EXCEPT ![from] = @ - amount]
  IN  [debited EXCEPT ![to] = @ + amount]

FeeOfMutant(amount, bps) == (amount * bps + BpsScale - 1) \div BpsScale
FeeOf(amount, bps) == (amount * bps) \div BpsScale

Init ==
  /\ now = 0
  /\ bal = [a \in Addresses |-> IF a \in Users THEN InitialBalance ELSE 0]
  /\ tasks = [t \in TaskIds |-> ZeroTask]
  /\ nextTaskId = 1
  /\ usedResultHashes = {}
  /\ treasury \in Users
  /\ feeRateBps \in {f \in FeeRates : f <= MaxFeeBps}
  /\ releaseDelaySecs \in {d \in ReleaseDelays : d <= MaxReleaseDelay}
  /\ minTaskAmount \in MinAmounts
  /\ maxTaskAmount \in MaxAmounts
  /\ paused = FALSE

(* The bound on the clock leaves every task room to expire and be released.*)
WithinHorizon == now + MaxDeadlineSecs + MaxReleaseDelay < MaxTime

Fund(poster, taker, amount, deadline) ==
  /\ ~paused
  /\ taker # Zero /\ taker # poster
  /\ minTaskAmount <= amount /\ amount <= maxTaskAmount
  /\ now < deadline /\ deadline <= now + MaxDeadlineSecs
  /\ nextTaskId <= NumTasks /\ WithinHorizon       \* bounds of the model
  /\ CanTransfer(bal, poster, Escrow, amount)
  /\ tasks' = [tasks EXCEPT ![nextTaskId] =
                 [poster |-> poster, taker |-> taker, amount |-> amount,
                  resultHash |-> Zero, deadline |-> deadline,
                  releaseAfter |-> 0, status |-> "FUNDED"]]
  /\ nextTaskId' = nextTaskId + 1
  /\ bal' = Transferred(bal, poster, Escrow, amount)
  /\ UNCHANGED <<now, usedResultHashes, config>>

MayDeliverMutantReuse(sender, t, hash) ==
  /\ tasks[t].status = "FUNDED" /\ sender = tasks[t].taker
  /\ now <= tasks[t].deadline /\ hash # Zero

MayDeliverMutantLate(sender, t, hash) ==
  /\ tasks[t].status = "FUNDED" /\ sender = tasks[t].taker
  /\ hash # Zero /\ hash \notin usedResultHashes

MayDeliver(sender, t, hash) ==
  /\ tasks[t].status = "FUNDED"
  /\ sender = tasks[t].taker
  /\ now <= tasks[t].deadline
  /\ hash # Zero
  /\ hash \notin usedResultHashes

Deliver(sender, t, hash) ==
  /\ MayDeliver(sender, t, hash)
  /\ usedResultHashes' = usedResultHashes \cup {hash}
  /\ tasks' = [tasks EXCEPT ![t].resultHash = hash,
                            ![t].releaseAfter = now + releaseDelaySecs,
                            ![t].status = "DONE"]
  /\ UNCHANGED <<now, bal, nextTaskId, config>>

MayReleaseMutant(sender, t) ==
  tasks[t].status = "DONE" /\ sender = tasks[t].poster

MayRelease(sender, t) ==
  /\ tasks[t].status = "DONE"
  /\ sender = tasks[t].poster \/ now >= tasks[t].releaseAfter

(* Every require of release and of its two transfers.                      *)
Releasable(sender, t) ==
  LET fee == FeeOf(tasks[t].amount, feeRateBps)
      net == tasks[t].amount - fee
  IN  /\ MayRelease(sender, t)
      /\ CanTransfer(bal, Escrow, tasks[t].taker, net)
      /\ CanTransfer(Transferred(bal, Escrow, tasks[t].taker, net), Escrow, treasury, fee)

(* The fee and the treasury are the ones in force at release.              *)
Release(sender, t) ==
  LET fee  == FeeOf(tasks[t].amount, feeRateBps)
      paid == Transferred(bal, Escrow, tasks[t].taker, tasks[t].amount - fee)
  IN  /\ Releasable(sender, t)
      /\ tasks' = [tasks EXCEPT ![t].status = "RELEASED"]
      /\ bal' = Transferred(paid, Escrow, treasury, fee)
      /\ UNCHANGED <<now, nextTaskId, usedResultHashes, config>>

(* Anyone may call it, so the sender does not matter.                      *)
MayRefundMutantStatus(t) == now > tasks[t].deadline

MayRefundMutantDone(t) ==
  tasks[t].status \in {"FUNDED", "DONE"} /\ now > tasks[t].deadline

MayRefundMutantPaused(t) ==
  ~paused /\ tasks[t].status = "FUNDED" /\ now > tasks[t].deadline

MayRefund(t) ==
  /\ tasks[t].status = "FUNDED"
  /\ now > tasks[t].deadline

(* Every require of refund and of its transfer.                            *)
Refundable(t) == MayRefund(t) /\ CanTransfer(bal, Escrow, tasks[t].poster, tasks[t].amount)

Refund(t) ==
  /\ Refundable(t)
  /\ tasks' = [tasks EXCEPT ![t].status = "REFUNDED"]
  /\ bal' = Transferred(bal, Escrow, tasks[t].poster, tasks[t].amount)
  /\ UNCHANGED <<now, nextTaskId, usedResultHashes, config>>

-----------------------------------------------------------------------------
(* The owner's setters.                                                    *)
SetTreasury(account) ==
  /\ account # Zero
  /\ treasury' = account
  /\ UNCHANGED <<now, bal, taskVars, feeRateBps, releaseDelaySecs,
                 minTaskAmount, maxTaskAmount, paused>>

SetFeeRateBpsMutant(bps) ==
  /\ feeRateBps' = bps
  /\ UNCHANGED <<now, bal, taskVars, treasury, releaseDelaySecs,
                 minTaskAmount, maxTaskAmount, paused>>

SetFeeRateBps(bps) ==
  /\ bps <= MaxFeeBps
  /\ feeRateBps' = bps
  /\ UNCHANGED <<now, bal, taskVars, treasury, releaseDelaySecs,
                 minTaskAmount, maxTaskAmount, paused>>

SetReleaseDelaySecs(secs) ==
  /\ secs <= MaxReleaseDelay
  /\ releaseDelaySecs' = secs
  /\ UNCHANGED <<now, bal, taskVars, treasury, feeRateBps,
                 minTaskAmount, maxTaskAmount, paused>>

SetMinTaskAmount(amount) ==
  /\ minTaskAmount' = amount
  /\ UNCHANGED <<now, bal, taskVars, treasury, feeRateBps, releaseDelaySecs,
                 maxTaskAmount, paused>>

SetMaxTaskAmount(amount) ==
  /\ maxTaskAmount' = amount
  /\ UNCHANGED <<now, bal, taskVars, treasury, feeRateBps, releaseDelaySecs,
                 minTaskAmount, paused>>

SetPaused(p) ==
  /\ paused' = p
  /\ UNCHANGED <<now, bal, taskVars, treasury, feeRateBps, releaseDelaySecs,
                 minTaskAmount, maxTaskAmount>>

Tick ==
  /\ now < MaxTime
  /\ now' = now + 1
  /\ UNCHANGED <<bal, taskVars, config>>

AdminStep ==
  \/ \E account \in Addresses : SetTreasury(account)
  \/ \E bps \in FeeRates : SetFeeRateBps(bps)
  \/ \E secs \in ReleaseDelays : SetReleaseDelaySecs(secs)
  \/ \E amount \in MinAmounts : SetMinTaskAmount(amount)
  \/ \E amount \in MaxAmounts : SetMaxTaskAmount(amount)
  \/ \E p \in BOOLEAN : SetPaused(p)

TaskStep ==
  \/ \E poster \in Users, taker \in Addresses, amount \in Amounts,
        deadline \in 1..MaxTime : Fund(poster, taker, amount, deadline)
  \/ \E sender \in Users, t \in TaskIds, hash \in Hashes \cup {Zero} :
        Deliver(sender, t, hash)
  \/ \E sender \in Users, t \in TaskIds : Release(sender, t)
  \/ \E t \in TaskIds : Refund(t)

Next == TaskStep \/ AdminStep \/ Tick

Spec == Init /\ [][Next]_vars

(* Anyone may send release and refund, but nobody is obliged to.  The two  *)
(* who gain do: a taker collects once its window has passed, a poster      *)
(* takes back what was not delivered.  Blocks keep coming.                 *)
SelfInterest ==
  /\ WF_vars(Tick)
  /\ \A t \in TaskIds, u \in Users :
       /\ WF_vars(tasks[t].taker = u /\ Release(u, t))
       /\ WF_vars(tasks[t].poster = u /\ Refund(t))

FairSpec == Spec /\ SelfInterest

-----------------------------------------------------------------------------
(* Type invariant.                                                         *)
TypeOK ==
  /\ now \in Nat
  /\ bal \in [Addresses -> Nat]
  /\ tasks \in [TaskIds -> Task]
  /\ nextTaskId \in 1..(NumTasks + 1)
  /\ usedResultHashes \subseteq Hashes
  /\ treasury \in Addresses
  /\ feeRateBps \in 0..MaxFeeBps
  /\ releaseDelaySecs \in 0..MaxReleaseDelay
  /\ minTaskAmount \in Nat /\ maxTaskAmount \in Nat
  /\ paused \in BOOLEAN

(* What the contract still owes for each task.                             *)
Locked == [t \in TaskIds |->
             IF tasks[t].status \in {"FUNDED", "DONE"} THEN tasks[t].amount
                                                      ELSE 0]

(* The pooled balance covers every task that is still open, whatever       *)
(* happened to the others (release l.186, refund l.219 pay from one pot).  *)
Solvent == bal[Escrow] >= SumTo(Locked, NumTasks)

(* Two tasks never carry the same delivered result (l.73-74), and exactly  *)
(* the delivered tasks carry one.                                          *)
ResultHashUnique ==
  /\ \A s, t \in TaskIds :
       s # t /\ tasks[s].resultHash # Zero
         => tasks[s].resultHash # tasks[t].resultHash
  /\ \A t \in TaskIds :
       tasks[t].status \in {"DONE", "RELEASED"} <=> tasks[t].resultHash # Zero

(* An id that was never funded reads as FUNDED with a deadline of 0, and   *)
(* still no call can move it (l.57, l.219-224).                            *)
UnknownIdsUntouched ==
  \A t \in TaskIds : t >= nextTaskId => tasks[t] = ZeroTask

(* No open task outlives its deadline by more than the longest delay the   *)
(* owner may set: neither a late delivery nor a later setter moves it.     *)
BoundedLock ==
  \A t \in TaskIds :
    /\ tasks[t].deadline <= now + MaxDeadlineSecs
    /\ tasks[t].status = "DONE"
         => tasks[t].releaseAfter <= tasks[t].deadline + MaxReleaseDelay

(* Least a taker is paid for a released task, at the highest fee.          *)
LeastNet(amount) == amount - (amount * MaxFeeBps) \div BpsScale

SpentBy(u) == [t \in TaskIds |->
  IF tasks[t].poster = u /\ tasks[t].status # "REFUNDED"
  THEN tasks[t].amount ELSE 0]

EarnedBy(u) == [t \in TaskIds |->
  IF tasks[t].taker = u /\ tasks[t].status = "RELEASED"
  THEN LeastNet(tasks[t].amount) ELSE 0]

(* Every account is whole: it is short only of what its unrefunded tasks   *)
(* cost, and has at least 90% of every released task it took, whatever the *)
(* owner did to fee and treasury between fund and release (l.198-205).     *)
AccountsWhole ==
  \A u \in Users :
    bal[u] + SumTo(SpentBy(u), NumTasks)
      >= InitialBalance + SumTo(EarnedBy(u), NumTasks)

(* Pausing stops new money only: an expired task can be refunded and a     *)
(* delivered one released after its window in every reachable state, by    *)
(* the one it pays (l.186-235 have no whenNotPaused).                      *)
NoTrappedFunds ==
  \A t \in TaskIds : t < nextTaskId =>
    /\ tasks[t].status = "FUNDED" /\ now > tasks[t].deadline
         => Refundable(t)
    /\ tasks[t].status = "DONE" /\ now >= tasks[t].releaseAfter
         => \A sender \in Users : Releasable(sender, t)

(* The books of the contract, over every interleaving of posters, takers,  *)
(* strangers and the owner: money, ids, results and deadlines.             *)
EscrowSound ==
  TypeOK /\ Solvent /\ UnknownIdsUntouched /\ ResultHashUnique /\ BoundedLock

(* What a user may count on: nobody is short, and nothing stays inside.    *)
FundsSafe == AccountsWhole /\ NoTrappedFunds

(* l.30-31 of the contract: "anyone after deadline if still FUNDED/DONE -> *)
(* REFUNDED".                                                              *)
DoneRefundableAfterDeadline ==
  \A t \in TaskIds :
    tasks[t].status = "DONE" /\ now > tasks[t].deadline => Refundable(t)

(* With takers and posters acting in their own interest every funded task  *)
(* ends RELEASED or REFUNDED.                                              *)
EveryTaskSettles ==
  \A t \in TaskIds :
    nextTaskId > t ~> tasks[t].status \in {"RELEASED", "REFUNDED"}

(* The pooled, clocked contract implements the one-box-per-task promise.   *)
StageOfStatus(status) ==
  CASE status = "FUNDED"   -> "open"
    [] status = "DONE"     -> "delivered"
    [] status = "RELEASED" -> "paidTaker"
    [] status = "REFUNDED" -> "paidPoster"

StageOf(t) ==
  IF t >= nextTaskId THEN "unknown" ELSE StageOfStatus(tasks[t].status)

Promise == INSTANCE TaskPromise WITH
             stage <- [t \in TaskIds |-> StageOf(t)], box <- Locked

(* Every behaviour of the contract is a behaviour of TaskPromise.          *)
KeepsPromise == Promise!Spec

=============================================================================
