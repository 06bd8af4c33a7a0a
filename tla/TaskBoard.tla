----------------------------- MODULE TaskBoard -----------------------------
(***************************************************************************)
(* The task API (packages/api-server/src/routes/tasks.ts) and the worker   *)
(* that polls it from the same process (workers/task-worker.ts).           *)
(*                                                                         *)
(* The board is one JSON file.  Every route reads it, changes it and       *)
(* writes it back without an await, so a request is one step.  The board   *)
(* numbers tasks itself, and hands out calldata for a contract, which      *)
(* BoardChain adds: the board itself never asks the chain.                 *)
(*                                                                         *)
(* uid is the order in which tasks were created.  It is no field of the    *)
(* code: it tells apart tasks that get the same id.                        *)
(***************************************************************************)
EXTENDS Naturals, Sequences, FiniteSets

CONSTANTS
    MaxTasks,   \* bound: tasks created
    Polls,      \* bound: polls of the worker that may be under way at once
    Batch       \* 3: tasks a poll works on

ASSUME BoardAssumption == MaxTasks \in Nat \ {0} /\ Batch \in Nat \ {0}

VARIABLES
    file,       \* tasks.json; what cannot be parsed reads as no task
    created,    \* history: tasks created so far
    late,       \* tasks whose deadline has passed
    ripe,       \* delivered tasks whose dispute window has passed
    polls,      \* what each poll still has to work on, as it was listed
    torn,       \* history: the file was lost
    calldata    \* history: calldata handed to clients

vars == <<file, created, late, ripe, polls, torn, calldata>>

Uids  == 1..MaxTasks
NoUid == 0

Statuses == {"FUNDED", "DONE", "RELEASED", "REFUNDED"}
Authors  == Polls \cup {"client"}
TaskRecord == [id : Nat, uid : Uids, status : Statuses,
               result : Uids \cup {NoUid}, by : Authors \cup {"nobody"}]
Call == [fn : {"fund", "deliver", "release", "refund"}, id : Nat, uid : Uids]

Init ==
    /\ file = <<>> /\ created = 0 /\ late = {} /\ ripe = {}
    /\ polls = [p \in Polls |-> {}] /\ torn = FALSE
    /\ calldata = {}
-----------------------------------------------------------------------------
(* The routes.                                                             *)

\* Plausible slips: ids do not grow; ids start at 0.
NextIdMutant == IF file = <<>> THEN 1 ELSE file[Len(file)].id
NextIdMutantZero == IF file = <<>> THEN 0 ELSE file[Len(file)].id + 1

\* Ids grow along the file, so the last one is Math.max.
NextId == IF file = <<>> THEN 1 ELSE file[Len(file)].id + 1

Issue(fn, id, uid) == calldata' = calldata \cup {[fn |-> fn, id |-> id, uid |-> uid]}

CreateTask ==
    /\ created < MaxTasks
    /\ created' = created + 1
    /\ file' = Append(file, [id |-> NextId, uid |-> created', status |-> "FUNDED",
                             result |-> NoUid, by |-> "nobody"])
    /\ Issue("fund", NextId, created')
    /\ UNCHANGED <<late, ripe, polls, torn>>

\* findIndex: the first record with the id, and its status as required
FindsTask(i, id, status) ==
    /\ i \in DOMAIN file /\ file[i].id = id
    /\ \A j \in 1..(i - 1) : file[j].id # id
    /\ file[i].status = status

\* A plausible slip: a task that is DONE takes a second result.
MayDeliverMutant(i, id) == \E status \in {"FUNDED", "DONE"} : FindsTask(i, id, status)

MayDeliver(i, id) == FindsTask(i, id, "FUNDED")

\* POST /:id/deliver with the answer an author has worked out for task uid;
\* neither the deadline nor earlier results are looked at.
DeliverTask(i, id, uid, author) ==
    /\ MayDeliver(i, id)
    /\ file' = [file EXCEPT ![i].status = "DONE", ![i].result = uid, ![i].by = author]
    /\ Issue("deliver", id, uid)

\* A client that knows the task it answers, with the right taker or none.
ClientDelivers(i) ==
    /\ DeliverTask(i, file[i].id, file[i].uid, "client")
    /\ UNCHANGED <<created, late, ripe, polls, torn>>

\* A plausible slip: a poster may reclaim what was delivered too late.
MayRefundMutant(i) ==
    (\E status \in {"FUNDED", "DONE"} : FindsTask(i, file[i].id, status)) /\ file[i].uid \in late

MayRefund(i) == FindsTask(i, file[i].id, "FUNDED") /\ file[i].uid \in late

ReleaseTask(i, isPoster) ==
    /\ FindsTask(i, file[i].id, "DONE")
    /\ isPoster \/ file[i].uid \in ripe
    /\ file' = [file EXCEPT ![i].status = "RELEASED"]
    /\ Issue("release", file[i].id, file[i].uid)
    /\ UNCHANGED <<created, late, ripe, polls, torn>>

RefundTask(i) ==
    /\ MayRefund(i)
    /\ file' = [file EXCEPT ![i].status = "REFUNDED"]
    /\ Issue("refund", file[i].id, file[i].uid)
    /\ UNCHANGED <<created, late, ripe, polls, torn>>

DeadlinePasses(uid) ==
    /\ uid \in 1..created \ late /\ late' = late \cup {uid}
    /\ UNCHANGED <<file, created, ripe, polls, torn, calldata>>

WindowPasses(i) ==
    /\ file[i].status = "DONE" /\ ripe' = ripe \cup {file[i].uid}
    /\ UNCHANGED <<file, created, late, polls, torn, calldata>>
-----------------------------------------------------------------------------
(* The worker.  setInterval does not wait for the poll before.             *)

Pending == {i \in DOMAIN file : file[i].status = "FUNDED"}

\* A plausible slip: the first tasks whatever their status.
WorkListMutantFirst == {file[i] : i \in {j \in Pending : j <= Batch}}

\* GET /tasks?status=FUNDED, and slice(0, 3)
WorkList ==
    {file[i] : i \in {j \in Pending : Cardinality({k \in Pending : k < j}) < Batch}}

\* A list is worked off in its order, which is that of the ids.
First(tasks) == CHOOSE t \in tasks : \A u \in tasks : t.id <= u.id

PollStarts(p) ==
    /\ polls[p] = {} /\ WorkList # {}
    /\ polls' = [polls EXCEPT ![p] = WorkList]
    /\ UNCHANGED <<file, created, late, ripe, torn, calldata>>

PollMoves(p) == polls[p] # {} /\ polls' = [polls EXCEPT ![p] = @ \ {First(@)}]

\* The language model has answered the task.
WorkerDelivers(p) ==
    /\ PollMoves(p)
    /\ \E i \in DOMAIN file : DeliverTask(i, First(polls[p]).id, First(polls[p]).uid, p)
    /\ UNCHANGED <<created, late, ripe, torn>>

\* The language model fails, or the board refuses the result.
WorkerMovesOn(p) ==
    /\ PollMoves(p)
    /\ UNCHANGED <<file, created, late, ripe, torn, calldata>>

\* A plausible slip: the worker outlives the server.
StoppedMutant == polls

\* The worker runs in the server's process and dies with it.
Stopped == [p \in Polls |-> {}]

\* The process dies and is started again; a write it was in is cut short.
Crash(lost) ==
    /\ polls' = Stopped
    /\ file' = IF lost THEN <<>> ELSE file
    /\ torn' = (torn \/ (lost /\ file # <<>>))
    /\ UNCHANGED <<created, late, ripe, calldata>>
-----------------------------------------------------------------------------
BoardStep ==
    \/ CreateTask
    \/ \E i \in DOMAIN file :
          \/ ClientDelivers(i) \/ RefundTask(i) \/ WindowPasses(i)
          \/ \E isPoster \in BOOLEAN : ReleaseTask(i, isPoster)
    \/ \E uid \in Uids : DeadlinePasses(uid)

TaskEnds(p) == WorkerDelivers(p) \/ WorkerMovesOn(p)

WorkerStep == \E p \in Polls : PollStarts(p) \/ TaskEnds(p)

Next == BoardStep \/ WorkerStep \/ \E lost \in BOOLEAN : Crash(lost)

Spec == Init /\ [][Next]_vars

\* The interval timer fires, no call of the language model hangs for ever, for
\* no task do they fail for ever, and the process stops crashing.
Fairness ==
    /\ \A p \in Polls : WF_vars(PollStarts(p)) /\ WF_vars(TaskEnds(p))
    /\ \A uid \in Uids : SF_vars(\E p \in Polls : WorkerDelivers(p) /\ First(polls[p]).uid = uid)
    /\ <>[][\A lost \in BOOLEAN : ~Crash(lost)]_vars

FairSpec == Spec /\ Fairness
-----------------------------------------------------------------------------
(* Properties.                                                             *)

TypeOK ==
    /\ file \in Seq(TaskRecord) /\ created \in 0..MaxTasks
    /\ late \subseteq 1..created /\ ripe \subseteq 1..created
    /\ \A p \in Polls : polls[p] \subseteq TaskRecord /\ Cardinality(polls[p]) <= Batch
    /\ torn \in BOOLEAN /\ calldata \subseteq Call

\* An id names one task of the board, and ids grow with creation: no request
\* reaches another task than the one it was sent for.
IdsUnique ==
    \A i, j \in DOMAIN file :
        i < j => file[i].id < file[j].id /\ file[i].uid < file[j].uid

\* The answer a task holds is the one that was worked out for it, though a poll
\* answers long after it read the list, and ids come again after a lost file.
AnswerFitsTask ==
    \A i \in DOMAIN file : file[i].result \in {NoUid, file[i].uid}

\* Overlapping polls and clients may answer the same task: the first answer
\* stays, and only a delivered task is ever released, an undelivered refunded.
AnswerIsFinal ==
    [][\A i \in DOMAIN file : file' # <<>> =>
         /\ file'[i].uid = file[i].uid /\ file'[i].id = file[i].id
         /\ file[i].by # "nobody" => /\ file'[i].by = file[i].by
                                     /\ file'[i].status \in {"DONE", "RELEASED"}
         /\ file[i].status \in {"RELEASED", "REFUNDED"} => file'[i] = file[i]]_vars

\* What clients were handed for one task never contradicts itself, whoever asked,
\* polls and clients at once or after a crash: one id, a release only of what was
\* delivered, and never a refund beside a delivery.  Another task comes under the
\* same id only after the file was lost.
CalldataAgrees ==
    /\ \A c, d \in calldata :
          /\ c.uid = d.uid => c.id = d.id /\ ~(c.fn = "refund" /\ d.fn = "deliver")
          /\ c.id = d.id => c.uid = d.uid \/ torn
    /\ \A c \in calldata :
          c.fn = "release" => \E d \in calldata : d.fn = "deliver" /\ d.uid = c.uid

\* A task on the board does not wait for ever behind the tasks listed first:
\* it is answered or refunded, unless the file is lost.
EveryTaskAnswered ==
    \A uid \in Uids :
        (created >= uid) ~>
            (torn \/ \E i \in DOMAIN file : file[i].uid = uid /\ file[i].status # "FUNDED")

\* The board's records, the answers they hold and the calldata that went out for
\* them, over overlapping polls, clients, crashes and lost files.
BoardSound == TypeOK /\ IdsUnique /\ AnswerFitsTask /\ CalldataAgrees
=============================================================================
