-------------------------- MODULE TaskBoardProofs --------------------------
(* Proofs about TaskBoard, for any number of tasks, any set of polls and   *)
(* lists of any length.                                                    *)
EXTENDS TaskBoard, NatSumTheorems, FiniteSetTheorems

\* What a poll still has to work on stands in the file, under the same id and
\* for the same task, whatever its status has become.
Listed ==
    \A p \in Polls : \A t \in polls[p] :
        /\ t \in TaskRecord
        /\ \E i \in DOMAIN file : file[i].id = t.id /\ file[i].uid = t.uid

\* The inductive invariant.
BoardInv ==
    /\ file \in Seq(TaskRecord) /\ created \in 0..MaxTasks
    /\ polls \in [Polls -> SUBSET TaskRecord]
    /\ \A i \in DOMAIN file : file[i].uid <= created
    /\ IdsUnique /\ AnswerFitsTask /\ Listed

\* What the types say of one record of the file.
LEMMA Entries ==
    ASSUME file \in Seq(TaskRecord), NEW i \in DOMAIN file
    PROVE  /\ i \in Nat /\ i \in 1..Len(file) /\ file[i] \in TaskRecord
           /\ file[i].id \in Nat /\ file[i].uid \in Uids /\ file[i].uid \in Nat
<1>1. i \in Nat /\ i \in 1..Len(file) /\ file[i] \in TaskRecord
  OBVIOUS
<1> QED
  BY <1>1 DEF TaskRecord, Uids

\* A list that is not empty has a first task, and it is on the list.
LEMMA FirstListed ==
    ASSUME NEW tasks \in SUBSET TaskRecord, tasks # {}
    PROVE  First(tasks) \in tasks
<1> DEFINE keys == {t.id : t \in tasks}
<1>1. keys \subseteq Nat /\ keys # {}
  BY DEF TaskRecord
<1>2. PICK m \in keys : \A k \in keys : m <= k
  <2> HIDE DEF keys
  <2> QED BY <1>1, LeastElement
<1>3. \E t \in tasks : \A u \in tasks : t.id <= u.id
  BY <1>2
<1> QED
  BY <1>3 DEF First

\* Changing the status, the result or the author of one record keeps every id
\* and every task where it was.
LEMMA SameTasks ==
    ASSUME BoardInv, file' \in Seq(TaskRecord), Len(file') = Len(file),
           \A i \in DOMAIN file : file'[i].id = file[i].id /\ file'[i].uid = file[i].uid,
           \A i \in DOMAIN file : file'[i].result \in {NoUid, file[i].uid},
           created' = created,
           polls' \in [Polls -> SUBSET TaskRecord],
           \A p \in Polls : polls'[p] \subseteq polls[p]
    PROVE  BoardInv'
<1>1. DOMAIN file' = DOMAIN file
  BY DEF BoardInv
<1>2. IdsUnique' /\ AnswerFitsTask'
  BY <1>1 DEF BoardInv, IdsUnique, AnswerFitsTask
<1>3. Listed'
  BY <1>1 DEF BoardInv, Listed
<1> QED
  BY <1>1, <1>2, <1>3 DEF BoardInv

\* A new task takes an id above all others, so no id in a list changes hands.
LEMMA CreateTaskInv == ASSUME BoardInv, BoardAssumption, CreateTask PROVE BoardInv'
<1> DEFINE new == [id |-> NextId, uid |-> created', status |-> "FUNDED",
                   result |-> NoUid, by |-> "nobody"]
<1> USE DEF BoardInv
<1>1. created \in Nat /\ created' = created + 1 /\ created' \in Uids /\ created' \in 0..MaxTasks
  BY DEF CreateTask, Uids, BoardAssumption
<1>2. NextId \in Nat /\ \A i \in DOMAIN file : file[i].id < NextId
  <2>1. CASE file = <<>>
    BY <2>1 DEF NextId
  <2>2. CASE file # <<>>
    <3>1. Len(file) \in DOMAIN file /\ file[Len(file)] \in TaskRecord
      BY <2>2
    <3>2. \A i \in DOMAIN file : file[i] \in TaskRecord /\ file[i].id \in Nat
      BY Entries
    <3>3. \A i \in DOMAIN file : file[i].id <= file[Len(file)].id
      BY <3>1, <3>2 DEF IdsUnique
    <3> QED
      BY <2>2, <3>1, <3>2, <3>3 DEF NextId
  <2> QED BY <2>1, <2>2
<1>3. new \in TaskRecord
  BY <1>1, <1>2 DEF TaskRecord, Statuses
<1>4. file' = Append(file, new)
  BY DEF CreateTask
<1>5. /\ file' \in Seq(TaskRecord) /\ DOMAIN file' = 1..(Len(file) + 1)
      /\ \A i \in DOMAIN file : file'[i] = file[i]
      /\ file'[Len(file) + 1] = new
  BY <1>3, <1>4
<1>6. \A i \in DOMAIN file' : i \in DOMAIN file \/ i = Len(file) + 1
  BY <1>5
<1>7. \A i \in DOMAIN file : file[i] \in TaskRecord /\ file[i].uid \in Nat /\ file[i].uid < created'
  BY <1>1, Entries
<1>8. IdsUnique'
  BY <1>2, <1>5, <1>6, <1>7 DEF IdsUnique
<1>9. AnswerFitsTask'
  BY <1>5, <1>6 DEF AnswerFitsTask
<1>10. polls' = polls
  BY DEF CreateTask
<1>11. Listed'
  BY <1>5, <1>10 DEF Listed
<1>12. \A i \in DOMAIN file' : file'[i].uid <= created'
  BY <1>1, <1>5, <1>6, <1>7
<1> QED
  BY <1>1, <1>5, <1>8, <1>9, <1>10, <1>11, <1>12

\* A delivery of an answer to the task it was worked out for.
LEMMA DeliverInv ==
    ASSUME BoardInv, NEW i \in DOMAIN file, NEW id, NEW uid, NEW author \in Authors,
           DeliverTask(i, id, uid, author), uid = file[i].uid, created' = created,
           polls' \in [Polls -> SUBSET TaskRecord],
           \A p \in Polls : polls'[p] \subseteq polls[p]
    PROVE  BoardInv'
<1>1. file[i] \in TaskRecord
  BY DEF BoardInv
<1> DEFINE done == [file[i] EXCEPT !.status = "DONE", !.result = uid, !.by = author]
<1>2. done \in TaskRecord
  BY <1>1 DEF TaskRecord, Statuses
<1>3. file' = [file EXCEPT ![i] = done]
  BY <1>1 DEF DeliverTask, BoardInv
<1>4. file' \in Seq(TaskRecord) /\ Len(file') = Len(file)
  BY <1>2, <1>3 DEF BoardInv
<1>5. \A j \in DOMAIN file : file'[j] = IF j = i THEN done ELSE file[j]
  BY <1>3 DEF BoardInv
<1>6. done.id = file[i].id /\ done.uid = file[i].uid /\ done.result = file[i].uid
  BY <1>1 DEF TaskRecord
<1> QED
  BY <1>4, <1>5, <1>6, SameTasks DEF BoardInv, AnswerFitsTask

\* Release and refund change a status and nothing else of a record.
LEMMA StatusInv ==
    ASSUME BoardInv, NEW i \in DOMAIN file, NEW status \in Statuses,
           file' = [file EXCEPT ![i].status = status],
           created' = created, polls' = polls
    PROVE  BoardInv'
<1>1. file[i] \in TaskRecord
  BY DEF BoardInv
<1> DEFINE done == [file[i] EXCEPT !.status = status]
<1>2. done \in TaskRecord
  BY <1>1 DEF TaskRecord
<1>3. file' = [file EXCEPT ![i] = done]
  BY DEF BoardInv
<1>4. file' \in Seq(TaskRecord) /\ Len(file') = Len(file)
  BY <1>2, <1>3 DEF BoardInv
<1>5. \A j \in DOMAIN file : file'[j] = IF j = i THEN done ELSE file[j]
  BY <1>3 DEF BoardInv
<1>6. done.id = file[i].id /\ done.uid = file[i].uid /\ done.result = file[i].result
  BY <1>1 DEF TaskRecord
<1> QED
  BY <1>4, <1>5, <1>6, SameTasks DEF BoardInv, AnswerFitsTask

\* A worker's answer carries the task it was listed with, and the id still
\* names that task.
LEMMA WorkerInv ==
    ASSUME BoardInv, NEW p \in Polls, WorkerDelivers(p)
    PROVE  BoardInv'
<1> DEFINE t == First(polls[p])
<1>1. polls[p] \in SUBSET TaskRecord /\ t \in polls[p] /\ t \in TaskRecord
  BY FirstListed DEF WorkerDelivers, PollMoves, BoardInv
<1>2. PICK i \in DOMAIN file : DeliverTask(i, t.id, t.uid, p)
  BY DEF WorkerDelivers
<1>3. file[i].id = t.id
  BY <1>2 DEF DeliverTask, MayDeliver, FindsTask
<1>4. PICK j \in DOMAIN file : file[j].id = t.id /\ file[j].uid = t.uid
  BY <1>1 DEF BoardInv, Listed
<1>5. i \in Nat /\ j \in Nat /\ file[i].id \in Nat
  BY Entries DEF BoardInv
<1>6. i = j
  BY <1>3, <1>4, <1>5 DEF BoardInv, IdsUnique
<1>7. /\ polls' \in [Polls -> SUBSET TaskRecord]
      /\ \A q \in Polls : polls'[q] \subseteq polls[q]
  BY <1>1 DEF WorkerDelivers, PollMoves, BoardInv
<1>8. created' = created /\ p \in Authors
  BY DEF WorkerDelivers, Authors
<1> QED
  BY <1>2, <1>4, <1>6, <1>7, <1>8, DeliverInv

\* The invariant holds of an empty board.
THEOREM BoardInvInit == BoardAssumption /\ Init => BoardInv
  BY DEF BoardAssumption, Init, BoardInv, IdsUnique, AnswerFitsTask, Listed

\* Every step, of clients, polls and files, keeps it.
THEOREM BoardInvNext == BoardAssumption /\ BoardInv /\ [Next]_vars => BoardInv'
<1> SUFFICES ASSUME BoardAssumption, BoardInv, [Next]_vars PROVE BoardInv'
  OBVIOUS
<1>1. CASE file' = file /\ created' = created /\ polls' = polls
  BY <1>1 DEF BoardInv, IdsUnique, AnswerFitsTask, Listed
<1>2. CASE UNCHANGED vars
  BY <1>1, <1>2 DEF vars
<1>3. CASE BoardStep
  <2>1. CASE CreateTask
    BY <2>1, CreateTaskInv
  <2>2. ASSUME NEW i \in DOMAIN file, ClientDelivers(i) PROVE BoardInv'
    <3>1. /\ DeliverTask(i, file[i].id, file[i].uid, "client")
          /\ created' = created /\ polls' = polls /\ "client" \in Authors
      BY <2>2 DEF ClientDelivers, Authors
    <3> QED
      BY <3>1, DeliverInv DEF BoardInv
  <2>3. ASSUME NEW i \in DOMAIN file, RefundTask(i) PROVE BoardInv'
    BY <2>3, StatusInv DEF RefundTask, Statuses
  <2>4. ASSUME NEW i \in DOMAIN file, NEW isPoster \in BOOLEAN, ReleaseTask(i, isPoster)
        PROVE  BoardInv'
    BY <2>4, StatusInv DEF ReleaseTask, Statuses
  <2>5. ASSUME NEW i \in DOMAIN file, WindowPasses(i) PROVE BoardInv'
    BY <1>1, <2>5 DEF WindowPasses
  <2>6. ASSUME NEW uid \in Uids, DeadlinePasses(uid) PROVE BoardInv'
    BY <1>1, <2>6 DEF DeadlinePasses
  <2> QED
    BY <1>3, <2>1, <2>2, <2>3, <2>4, <2>5, <2>6 DEF BoardStep
<1>4. ASSUME NEW p \in Polls, PollStarts(p) PROVE BoardInv'
  <2>1. \A t \in WorkList : t \in TaskRecord /\ \E i \in DOMAIN file : file[i] = t
    BY Entries DEF WorkList, Pending, BoardInv
  <2>2. /\ polls' = [polls EXCEPT ![p] = WorkList]
        /\ file' = file /\ created' = created
    BY <1>4 DEF PollStarts
  <2>3. polls' \in [Polls -> SUBSET TaskRecord]
    BY <2>1, <2>2 DEF BoardInv
  <2>4. Listed'
    BY <2>1, <2>2 DEF BoardInv, Listed
  <2> QED
    BY <2>2, <2>3, <2>4 DEF BoardInv, IdsUnique, AnswerFitsTask
<1>5. ASSUME NEW p \in Polls, WorkerDelivers(p) PROVE BoardInv'
  BY <1>5, WorkerInv
<1>6. ASSUME NEW p \in Polls, WorkerMovesOn(p) PROVE BoardInv'
  <2>1. /\ polls' \in [Polls -> SUBSET TaskRecord]
        /\ \A q \in Polls : polls'[q] \subseteq polls[q]
    BY <1>6 DEF WorkerMovesOn, PollMoves, BoardInv
  <2>2. file' = file /\ created' = created
    BY <1>6 DEF WorkerMovesOn
  <2> QED
    BY <2>1, <2>2 DEF BoardInv, IdsUnique, AnswerFitsTask, Listed
<1>8. ASSUME NEW lost \in BOOLEAN, Crash(lost) PROVE BoardInv'
  <2>1. polls' = [p \in Polls |-> {}] /\ created' = created
    BY <1>8 DEF Crash, Stopped
  <2>2. Listed'
    BY <2>1 DEF Listed
  <2>3. CASE file' = file
    BY <2>1, <2>2, <2>3 DEF BoardInv, IdsUnique, AnswerFitsTask
  <2>4. CASE file' = <<>>
    BY <2>1, <2>2, <2>4 DEF BoardInv, IdsUnique, AnswerFitsTask
  <2> QED
    BY <1>8, <2>3, <2>4 DEF Crash
<1> QED
  BY <1>2, <1>3, <1>4, <1>5, <1>6, <1>8 DEF Next, WorkerStep, TaskEnds

\* Ids of the board are never given twice while the file is there, so that a
\* request reaches the task it was sent for.
THEOREM BoardIdsUnique == Spec => []IdsUnique
<1>1. BoardInv => IdsUnique
  BY DEF BoardInv
<1> QED
  BY <1>1, BoardInvInit, BoardInvNext, BoardAssumption, PTL DEF Spec

\* The worker's late answers reach the tasks they were worked out for, through
\* overlapping polls, refunds, crashes and the loss of the file.
THEOREM BoardAnswersFit == Spec => []AnswerFitsTask
<1>1. BoardInv => AnswerFitsTask
  BY DEF BoardInv
<1> QED
  BY <1>1, BoardInvInit, BoardInvNext, BoardAssumption, PTL DEF Spec
-----------------------------------------------------------------------------
(* The rest of what the runs check: the other types, the counting of board *)
(* and contract, and that the first answer stays.                          *)

\* What a poll lists is one of a finite set of at most Batch tasks.
LEMMA WorkListBounded ==
    ASSUME file \in Seq(TaskRecord), BoardAssumption
    PROVE  IsFiniteSet(WorkList) /\ Cardinality(WorkList) <= Batch
<1> DEFINE before(j) == {k \in Pending : k < j}
           chosen == {j \in Pending : Cardinality(before(j)) < Batch}
<1>1. /\ Pending \subseteq 1..Len(file) /\ Len(file) \in Nat /\ IsFiniteSet(1..Len(file))
  BY FS_Interval DEF Pending
<1>2. IsFiniteSet(Pending) /\ IsFiniteSet(chosen) /\ \A j \in Pending : IsFiniteSet(before(j))
  <2>1. IsFiniteSet(Pending)
    BY <1>1, FS_Subset
  <2>2. chosen \in SUBSET Pending /\ \A j \in Pending : before(j) \in SUBSET Pending
    OBVIOUS
  <2> QED
    BY <2>1, <2>2, FS_Subset
<1>3. Batch \in Nat \ {0}
  BY DEF BoardAssumption
<1>4. Cardinality(chosen) <= Batch
  <2>1. CASE chosen = {}
    <3> HIDE DEF chosen
    <3>1. Cardinality(chosen) = 0
      BY <2>1, FS_EmptySet, Zenon
    <3> QED
      BY <3>1, <1>3
  <2>2. CASE chosen # {}
    <3> DEFINE bounds == {n \in Nat : \A j \in chosen : j <= n}
    <3>0. \A j \in chosen : j \in Nat /\ j # 0 /\ j \in Pending /\ j <= Len(file)
      BY <1>1
    <3>1. Len(file) \in bounds /\ bounds \subseteq Nat
      BY <1>1, <3>0
    <3>2. PICK m \in bounds : \A n \in bounds : m <= n
      <4> HIDE DEF bounds
      <4> QED BY <3>1, LeastElement
    <3>9. m \in Nat /\ \A j \in chosen : j <= m
      BY <3>2
    <3>8. ASSUME NEW n \in Nat, \A j \in chosen : j <= n PROVE m <= n
      BY <3>2, <3>8
    <3> HIDE DEF bounds
    <3>3. m \in chosen
      <4> SUFFICES ASSUME m \notin chosen PROVE FALSE
        OBVIOUS
      <4> HIDE DEF chosen
      <4>1. PICK k \in chosen : TRUE
        BY <2>2
      <4>2. \A j \in chosen : j \in Nat /\ j # 0 /\ j <= m - 1
        BY <3>0, <3>9
      <4>3. m - 1 \in Nat
        BY <4>1, <4>2, <3>9
      <4> QED
        BY <3>8, <3>9, <4>2, <4>3
    <3>4. chosen \ {m} \in SUBSET before(m)
      <4> HIDE DEF chosen
      <4>1. \A j \in chosen \ {m} : j \in Pending /\ j < m
        BY <3>0, <3>9
      <4> QED
        BY <4>1
    <3>5. Cardinality(chosen \ {m}) <= Cardinality(before(m))
      BY <3>3, <3>4, <1>2, FS_Subset
    <3>6. /\ Cardinality(chosen \ {m}) = Cardinality(chosen) - 1
          /\ Cardinality(chosen) \in Nat /\ Cardinality(before(m)) \in Nat
      BY <3>3, <1>2, FS_RemoveElement, FS_CardinalityType
    <3>7. Cardinality(before(m)) < Batch
      BY <3>3
    <3> HIDE DEF chosen, before
    <3> QED
      BY <3>5, <3>6, <3>7, <1>3
  <2> QED
    BY <2>1, <2>2
<1>5. [j \in chosen |-> file[j]] \in Surjection(chosen, WorkList)
  <2>1. WorkList = {file[j] : j \in chosen}
    BY DEF WorkList
  <2> HIDE DEF chosen
  <2> QED
    BY <2>1 DEF Surjection
<1>6. IsFiniteSet(WorkList) /\ Cardinality(WorkList) <= Cardinality(chosen)
  <2> HIDE DEF chosen
  <2> QED
    BY <1>2, <1>5, FS_Surjection
<1> HIDE DEF chosen
<1> QED
  BY <1>2, <1>3, <1>4, <1>6, FS_CardinalityType

\* No list of a poll is ever longer than Batch.
PollsBounded ==
    \A p \in Polls : IsFiniteSet(polls[p]) /\ Cardinality(polls[p]) <= Batch

\* Before the first poll every list is empty.
LEMMA PollsBoundedInit == BoardAssumption /\ Init => PollsBounded
  BY FS_EmptySet DEF BoardAssumption, Init, PollsBounded

\* A list is what WorkList was, or a list with its first task taken off, or empty.
LEMMA PollsBoundedNext ==
    BoardAssumption /\ BoardInv /\ PollsBounded /\ [Next]_vars => PollsBounded'
<1> SUFFICES ASSUME BoardAssumption, BoardInv, PollsBounded, [Next]_vars PROVE PollsBounded'
  OBVIOUS
<1> USE DEF PollsBounded
<1>1. Batch \in Nat
  BY DEF BoardAssumption
<1>2. CASE polls' = polls
  BY <1>2
<1>3. ASSUME NEW p \in Polls, PollStarts(p) PROVE PollsBounded'
  <2>1. polls' = [polls EXCEPT ![p] = WorkList] /\ polls \in [Polls -> SUBSET TaskRecord]
    BY <1>3 DEF PollStarts, BoardInv
  <2>2. IsFiniteSet(WorkList) /\ Cardinality(WorkList) <= Batch
    BY WorkListBounded DEF BoardInv
  <2> QED
    BY <2>1, <2>2
<1>4. ASSUME NEW p \in Polls, PollMoves(p) PROVE PollsBounded'
  <2> DEFINE t == First(polls[p])
  <2>1. /\ polls' = [polls EXCEPT ![p] = polls[p] \ {t}]
        /\ polls \in [Polls -> SUBSET TaskRecord] /\ polls[p] # {}
    BY <1>4 DEF PollMoves, BoardInv
  <2>2. t \in polls[p]
    BY <2>1, FirstListed
  <2> HIDE DEF t
  <2>3. /\ IsFiniteSet(polls[p] \ {t})
        /\ Cardinality(polls[p] \ {t}) = Cardinality(polls[p]) - 1
        /\ Cardinality(polls[p]) \in Nat
    BY <2>2, FS_RemoveElement, FS_CardinalityType
  <2>4. Cardinality(polls[p] \ {t}) <= Batch
    BY <1>1, <2>3
  <2> QED
    BY <2>1, <2>3, <2>4
<1>5. ASSUME NEW lost \in BOOLEAN, Crash(lost) PROVE PollsBounded'
  <2>1. \A p \in Polls : polls'[p] = {}
    BY <1>5 DEF Crash, Stopped
  <2>2. IsFiniteSet({}) /\ Cardinality({}) = 0
    BY FS_EmptySet
  <2> QED
    BY <1>1, <2>1, <2>2
<1>6. CASE UNCHANGED vars
  BY <1>2, <1>6 DEF vars
<1>7. CASE BoardStep
  BY <1>2, <1>7 DEF BoardStep, CreateTask, ClientDelivers, RefundTask, WindowPasses,
                    ReleaseTask, DeadlinePasses
<1>9. CASE WorkerStep
  BY <1>3, <1>4, <1>9 DEF WorkerStep, TaskEnds, WorkerDelivers, WorkerMovesOn
<1> QED
  BY <1>5, <1>6, <1>7, <1>9 DEF Next

\* A worker's answer is a delivery for the task whose id it names.
LEMMA WorkerAnswers ==
    ASSUME BoardInv, NEW p \in Polls, WorkerDelivers(p)
    PROVE  \E i \in DOMAIN file : DeliverTask(i, file[i].id, file[i].uid, p)
<1> DEFINE t == First(polls[p])
<1>1. t \in polls[p]
  BY FirstListed DEF WorkerDelivers, PollMoves, BoardInv
<1>2. PICK i \in DOMAIN file : DeliverTask(i, t.id, t.uid, p)
  BY DEF WorkerDelivers
<1> HIDE DEF t
<1>3. file[i].id = t.id
  BY <1>2 DEF DeliverTask, MayDeliver, FindsTask
<1>4. PICK j \in DOMAIN file : file[j].id = t.id /\ file[j].uid = t.uid
  BY <1>1 DEF BoardInv, Listed
<1>5. i \in Nat /\ j \in Nat /\ file[i].id \in Nat
  BY Entries DEF BoardInv
<1>6. i = j
  BY <1>3, <1>4, <1>5 DEF BoardInv, IdsUnique
<1> QED
  BY <1>2, <1>3, <1>4, <1>6

\* What a step can do to the file, and the calldata that comes with it.
Answers(i) ==
    \E author : DeliverTask(i, file[i].id, file[i].uid, author)
Closes(i, fn, from, to) ==
    /\ file[i].status = from
    /\ file' = [file EXCEPT ![i].status = to]
    /\ Issue(fn, file[i].id, file[i].uid)
Touches(i) ==
    Answers(i) \/ Closes(i, "release", "DONE", "RELEASED")
               \/ Closes(i, "refund", "FUNDED", "REFUNDED")

\* What a step may do to the file, and what else changes when it does.
LEMMA StepsOfFile ==
    ASSUME BoardInv, [Next]_vars
    PROVE  \/ UNCHANGED <<file, created, torn, calldata>>
           \/ CreateTask
           \/ /\ \E i \in DOMAIN file : Touches(i)
              /\ UNCHANGED <<created, torn>>
           \/ \E lost \in BOOLEAN : Crash(lost)
<1>1. CASE UNCHANGED vars
  BY <1>1 DEF vars
<1>2. CASE BoardStep
  <2>1. ASSUME NEW i \in DOMAIN file, ClientDelivers(i)
        PROVE  Touches(i) /\ UNCHANGED <<created, torn>>
    BY <2>1 DEF ClientDelivers, Touches, Answers
  <2>2. ASSUME NEW i \in DOMAIN file, RefundTask(i)
        PROVE  Touches(i) /\ UNCHANGED <<created, torn>>
    BY <2>2 DEF RefundTask, MayRefund, Touches, Closes, FindsTask
  <2>3. ASSUME NEW i \in DOMAIN file, NEW isPoster \in BOOLEAN, ReleaseTask(i, isPoster)
        PROVE  Touches(i) /\ UNCHANGED <<created, torn>>
    BY <2>3 DEF ReleaseTask, Touches, Closes, FindsTask
  <2>4. CASE \/ \E i \in DOMAIN file : WindowPasses(i)
             \/ \E uid \in Uids : DeadlinePasses(uid)
    BY <2>4 DEF WindowPasses, DeadlinePasses
  <2> QED
    BY <1>2, <2>1, <2>2, <2>3, <2>4 DEF BoardStep
<1>3. CASE WorkerStep
  <2>1. ASSUME NEW p \in Polls, WorkerDelivers(p)
        PROVE  (\E i \in DOMAIN file : Touches(i)) /\ UNCHANGED <<created, torn>>
    BY <2>1, WorkerAnswers DEF WorkerDelivers, Touches, Answers
  <2>2. ASSUME NEW p \in Polls, PollStarts(p) \/ WorkerMovesOn(p)
        PROVE  UNCHANGED <<file, created, torn, calldata>>
    BY <2>2 DEF PollStarts, WorkerMovesOn
  <2> QED
    BY <1>3, <2>1, <2>2 DEF WorkerStep, TaskEnds
<1> QED
  BY <1>1, <1>2, <1>3 DEF Next

\* Only a task that was delivered has an author, and it is never refunded.
Answered ==
    \A i \in DOMAIN file : file[i].by # "nobody" => file[i].status \in {"DONE", "RELEASED"}

\* A record that is touched keeps its id and its task, and its answer once it has one.
LEMMA TouchKeeps ==
    ASSUME BoardInv, Answered, NEW i \in DOMAIN file, Touches(i)
    PROVE  /\ Answered' /\ DOMAIN file' = DOMAIN file /\ Len(file') = Len(file)
           /\ \A j \in DOMAIN file :
                 /\ file'[j].uid = file[j].uid /\ file'[j].id = file[j].id
                 /\ file[j].by # "nobody" => /\ file'[j].by = file[j].by
                                             /\ file'[j].status \in {"DONE", "RELEASED"}
                 /\ file[j].status \in {"RELEASED", "REFUNDED"} => file'[j] = file[j]
<1>1. file \in Seq(TaskRecord) /\ file[i] \in TaskRecord
  BY DEF BoardInv
<1>2. \A j \in DOMAIN file : file[j] \in TaskRecord
  BY <1>1
<1>3. CASE Answers(i)
  <2>1. PICK author : DeliverTask(i, file[i].id, file[i].uid, author)
    BY <1>3 DEF Answers
  <2> DEFINE done == [file[i] EXCEPT !.status = "DONE", !.result = file[i].uid, !.by = author]
  <2>2. file' = [file EXCEPT ![i] = done] /\ file[i].status = "FUNDED"
    BY <1>1, <2>1 DEF DeliverTask, MayDeliver, FindsTask
  <2>3. /\ done.id = file[i].id /\ done.uid = file[i].uid /\ done.status = "DONE"
    BY <1>1 DEF TaskRecord
  <2>4. file[i].by = "nobody"
    BY <2>2 DEF Answered
  <2> HIDE DEF done
  <2>5. /\ DOMAIN file' = DOMAIN file /\ Len(file') = Len(file)
        /\ \A j \in DOMAIN file : file'[j] = IF j = i THEN done ELSE file[j]
    BY <1>1, <2>2
  <2> QED
    BY <2>2, <2>3, <2>4, <2>5 DEF Answered
<1>4. ASSUME NEW fn, NEW from, NEW to, Closes(i, fn, from, to),
             <<from, to>> \in {<<"DONE", "RELEASED">>, <<"FUNDED", "REFUNDED">>}
      PROVE  /\ Answered' /\ DOMAIN file' = DOMAIN file /\ Len(file') = Len(file)
             /\ \A j \in DOMAIN file :
                 /\ file'[j].uid = file[j].uid /\ file'[j].id = file[j].id
                 /\ file[j].by # "nobody" => /\ file'[j].by = file[j].by
                                             /\ file'[j].status \in {"DONE", "RELEASED"}
                 /\ file[j].status \in {"RELEASED", "REFUNDED"} => file'[j] = file[j]
  <2> DEFINE done == [file[i] EXCEPT !.status = to]
  <2>1. file' = [file EXCEPT ![i] = done] /\ file[i].status = from
    BY <1>1, <1>4 DEF Closes
  <2>2. /\ done.id = file[i].id /\ done.uid = file[i].uid /\ done.status = to
        /\ done.by = file[i].by
    BY <1>1 DEF TaskRecord
  <2>3. \/ from = "DONE" /\ to = "RELEASED"
        \/ from = "FUNDED" /\ to = "REFUNDED" /\ file[i].by = "nobody"
    BY <1>4, <2>1 DEF Answered
  <2> HIDE DEF done
  <2>4. /\ DOMAIN file' = DOMAIN file /\ Len(file') = Len(file)
        /\ \A j \in DOMAIN file : file'[j] = IF j = i THEN done ELSE file[j]
    BY <1>1, <2>1
  <2> QED
    BY <2>1, <2>2, <2>3, <2>4 DEF Answered
<1> QED
  BY <1>3, <1>4 DEF Touches

\* Nothing is answered at the start.
LEMMA AnsweredInit == Init => Answered
  BY DEF Init, Answered

\* Every step keeps it: only a task that is marked done gets an author.
LEMMA AnsweredNext == BoardInv /\ Answered /\ [Next]_vars => Answered'
<1> SUFFICES ASSUME BoardInv, Answered, [Next]_vars PROVE Answered'
  OBVIOUS
<1>1. CASE file' = file
  BY <1>1 DEF Answered
<1>2. CASE CreateTask
  <2>1. PICK new : file' = Append(file, new) /\ new.by = "nobody"
    BY <1>2 DEF CreateTask
  <2>2. /\ DOMAIN file' = 1..(Len(file) + 1) /\ file'[Len(file) + 1] = new
        /\ \A i \in DOMAIN file : file'[i] = file[i]
    BY <2>1 DEF BoardInv
  <2>3. \A i \in DOMAIN file' : i \in DOMAIN file \/ i = Len(file) + 1
    BY <2>2 DEF BoardInv
  <2> QED
    BY <2>1, <2>2, <2>3 DEF Answered
<1>3. CASE \E lost \in BOOLEAN : Crash(lost)
  BY <1>1, <1>3 DEF Crash, Answered
<1> QED
  BY <1>1, <1>2, <1>3, StepsOfFile, TouchKeeps

\* Whoever answers a task first, poll or client, the answer stays; and what was
\* released or refunded is never changed again.
THEOREM AnswersStay == Spec => AnswerIsFinal
<1> DEFINE Kept == \A i \in DOMAIN file : file' # <<>> =>
         /\ file'[i].uid = file[i].uid /\ file'[i].id = file[i].id
         /\ file[i].by # "nobody" => /\ file'[i].by = file[i].by
                                     /\ file'[i].status \in {"DONE", "RELEASED"}
         /\ file[i].status \in {"RELEASED", "REFUNDED"} => file'[i] = file[i]
<1>1. BoardInv /\ Answered /\ [Next]_vars => [Kept]_vars
  <2> SUFFICES ASSUME BoardInv, Answered, [Next]_vars PROVE Kept
    OBVIOUS
  <2>1. CASE file' = file
    BY <2>1 DEF Answered
  <2>2. CASE CreateTask
    <3>1. \A i \in DOMAIN file : file'[i] = file[i]
      BY <2>2 DEF CreateTask, BoardInv
    <3> QED
      BY <3>1 DEF Answered
  <2>3. CASE \E lost \in BOOLEAN : Crash(lost)
    BY <2>1, <2>3 DEF Crash
  <2>4. CASE \E i \in DOMAIN file : Touches(i)
    BY <2>4, TouchKeeps
  <2> QED
    BY <2>1, <2>2, <2>3, <2>4, StepsOfFile
<1> QED
  BY <1>1, BoardInvInit, BoardInvNext, AnsweredInit, AnsweredNext, BoardAssumption, PTL
     DEF Spec, AnswerIsFinal

\* The types that BoardInv says nothing of.
RestTyped ==
    /\ late \subseteq 1..created /\ ripe \subseteq 1..created
    /\ torn \in BOOLEAN /\ calldata \subseteq Call

\* An empty board is typed.
LEMMA RestTypedInit == BoardAssumption /\ Init => RestTyped
  BY DEF Init, RestTyped

\* The calldata of a step names a task the board knows.
LEMMA IssuedTyped ==
    ASSUME BoardInv, BoardAssumption, calldata \subseteq Call, CreateTask \/ \E i \in DOMAIN file : Touches(i)
    PROVE  calldata' \subseteq Call
<1>1. CASE CreateTask
  <2>1. created' \in Uids
    BY <1>1 DEF CreateTask, BoardInv, BoardAssumption, Uids
  <2>2. NextId \in Nat
    <3>1. CASE file # <<>>
      <4>1. Len(file) \in DOMAIN file
        BY <3>1 DEF BoardInv
      <4> QED
        BY <3>1, <4>1, Entries DEF NextId, BoardInv
    <3> QED
      BY <3>1 DEF NextId
  <2>3. [fn |-> "fund", id |-> NextId, uid |-> created'] \in Call
    BY <2>1, <2>2 DEF Call
  <2> QED
    BY <1>1, <2>3 DEF CreateTask, Issue
<1>2. ASSUME NEW i \in DOMAIN file, Touches(i) PROVE calldata' \subseteq Call
  <2>1. \A fn \in {"deliver", "release", "refund"} :
            [fn |-> fn, id |-> file[i].id, uid |-> file[i].uid] \in Call
    BY Entries DEF BoardInv, Call
  <2>2. \E fn \in {"deliver", "release", "refund"} : Issue(fn, file[i].id, file[i].uid)
    BY <1>2 DEF Touches, Answers, Closes, DeliverTask
  <2> QED
    BY <2>1, <2>2 DEF Issue
<1> QED
  BY <1>1, <1>2

\* Every step keeps the types of what the board does not own.
LEMMA RestTypedNext ==
    BoardAssumption /\ BoardInv /\ RestTyped /\ [Next]_vars => RestTyped'
<1> SUFFICES ASSUME BoardAssumption, BoardInv, RestTyped, [Next]_vars PROVE RestTyped'
  OBVIOUS
<1>0. created \in Nat /\ (created' = created \/ created' = created + 1)
  <2>1. created' = created \/ CreateTask
    BY StepsOfFile DEF Crash
  <2> QED
    BY <2>1 DEF CreateTask, BoardInv, BoardAssumption
<1>1. 1..created \subseteq 1..created'
  BY <1>0
<1>2. late' \subseteq 1..created' /\ ripe' \subseteq 1..created'
  <2>1. CASE UNCHANGED <<late, ripe>>
    BY <1>1, <2>1 DEF RestTyped
  <2>2. ASSUME NEW i \in DOMAIN file, WindowPasses(i)
        PROVE  late' \subseteq 1..created' /\ ripe' \subseteq 1..created'
    <3>1. file[i].uid \in 1..created
      BY Entries, <1>0 DEF BoardInv, Uids
    <3> QED
      BY <1>1, <2>2, <3>1 DEF WindowPasses, RestTyped
  <2>3. ASSUME NEW uid \in Uids, DeadlinePasses(uid)
        PROVE  late' \subseteq 1..created' /\ ripe' \subseteq 1..created'
    BY <1>1, <2>3 DEF DeadlinePasses, RestTyped
  <2>4. CASE BoardStep
    BY <2>1, <2>2, <2>3, <2>4 DEF BoardStep, CreateTask, ClientDelivers, RefundTask, ReleaseTask
  <2>5. CASE WorkerStep \/ \E lost \in BOOLEAN : Crash(lost)
    BY <2>1, <2>5 DEF WorkerStep, TaskEnds, PollStarts, WorkerDelivers, WorkerMovesOn, Crash
  <2>6. CASE UNCHANGED vars
    BY <2>1, <2>6 DEF vars
  <2> QED
    BY <2>4, <2>5, <2>6 DEF Next
<1>4. ASSUME torn' \in BOOLEAN, calldata' \subseteq Call PROVE RestTyped'
  BY <1>2, <1>4 DEF RestTyped
<1>5. CASE UNCHANGED <<torn, calldata>>
  BY <1>4, <1>5 DEF RestTyped
<1>6. CASE CreateTask
  BY <1>4, <1>6, IssuedTyped DEF RestTyped, CreateTask
<1>7. CASE (\E i \in DOMAIN file : Touches(i)) /\ UNCHANGED torn
  BY <1>4, <1>7, IssuedTyped DEF RestTyped
<1>8. ASSUME NEW lost \in BOOLEAN, Crash(lost) PROVE RestTyped'
  BY <1>4, <1>8 DEF RestTyped, Crash
<1> QED
  BY <1>5, <1>6, <1>7, <1>8, StepsOfFile

\* While the file was never lost, ids count the tasks created, and a call names
\* the task it is for by that number.
InOrder ==
    ~torn =>
      /\ Len(file) = created
      /\ \A i \in DOMAIN file : file[i].id = i /\ file[i].uid = i
      /\ \A call \in calldata : call.id = call.uid

\* Nothing was created yet, so nothing out of order.
LEMMA InOrderInit == Init => InOrder
  BY DEF Init, InOrder

\* As long as the file is whole, ids and creations are counted alike.
LEMMA InOrderNext ==
    BoardAssumption /\ BoardInv /\ Answered /\ InOrder /\ [Next]_vars => InOrder'
<1> SUFFICES ASSUME BoardAssumption, BoardInv, Answered, InOrder, [Next]_vars, ~torn'
             PROVE  InOrder'
  BY DEF InOrder
<1>0. ~torn
  <2>1. \A lost \in BOOLEAN : Crash(lost) => torn' = (torn \/ (lost /\ file # <<>>))
    BY DEF Crash
  <2> QED
    BY <2>1, StepsOfFile DEF CreateTask
<1>1. CASE UNCHANGED <<file, created, calldata>>
  BY <1>0, <1>1 DEF InOrder
<1>3. CASE CreateTask
  <2>1. created \in Nat /\ created' = created + 1 /\ Len(file) = created
    BY <1>0, <1>3 DEF CreateTask, BoardInv, BoardAssumption, InOrder
  <2>2. NextId = created'
    <3>1. CASE file = <<>>
      BY <2>1, <3>1 DEF NextId
    <3>2. CASE file # <<>>
      <4>1. Len(file) \in DOMAIN file
        BY <3>2 DEF BoardInv
      <4> QED
        BY <1>0, <2>1, <3>2, <4>1 DEF NextId, InOrder
    <3> QED
      BY <3>1, <3>2
  <2>3. PICK new : file' = Append(file, new) /\ new.id = created' /\ new.uid = created'
    BY <1>3, <2>2 DEF CreateTask
  <2>4. /\ DOMAIN file' = 1..(Len(file) + 1) /\ file'[Len(file) + 1] = new
        /\ Len(file') = Len(file) + 1
        /\ \A i \in DOMAIN file : file'[i] = file[i]
    BY <2>3 DEF BoardInv
  <2>5. \A i \in DOMAIN file' : file'[i].id = i /\ file'[i].uid = i
    <3>1. \A i \in DOMAIN file' : i \in DOMAIN file \/ i = Len(file) + 1
      BY <2>4 DEF BoardInv
    <3> QED
      BY <1>0, <2>1, <2>3, <2>4, <3>1 DEF InOrder
  <2>6. \A call \in calldata' : call.id = call.uid
    BY <1>0, <1>3, <2>2 DEF InOrder, CreateTask, Issue
  <2> QED
    BY <1>0, <2>1, <2>4, <2>5, <2>6 DEF InOrder
<1>4. ASSUME NEW i \in DOMAIN file, Touches(i), UNCHANGED created PROVE InOrder'
  <2>1. /\ DOMAIN file' = DOMAIN file /\ Len(file') = Len(file)
        /\ \A j \in DOMAIN file : file'[j].uid = file[j].uid /\ file'[j].id = file[j].id
    BY <1>4, TouchKeeps
  <2>2. \E fn : Issue(fn, file[i].id, file[i].uid)
    BY <1>4 DEF Touches, Answers, Closes, DeliverTask
  <2>3. \A call \in calldata' : call.id = call.uid
    BY <1>0, <2>2 DEF InOrder, Issue
  <2> QED
    BY <1>0, <1>4, <2>1, <2>3 DEF InOrder
<1>5. ASSUME NEW lost \in BOOLEAN, Crash(lost) PROVE InOrder'
  <2>1. file' = file
    BY <1>5 DEF Crash
  <2> QED
    BY <1>1, <1>5, <2>1 DEF Crash
<1> QED
  BY <1>1, <1>3, <1>4, <1>5, StepsOfFile

\* A record shows what was handed out for its task: a task that was delivered has
\* its call, and no call is ahead of the status.
CallsInv ==
    /\ \A c \in calldata : c.uid <= created
    /\ \A c \in calldata : \A i \in DOMAIN file : file[i].uid = c.uid =>
          /\ c.id = file[i].id
          /\ c.fn = "deliver" => file[i].status \in {"DONE", "RELEASED"}
          /\ c.fn = "release" => file[i].status = "RELEASED"
          /\ c.fn = "refund" => file[i].status = "REFUNDED"
    /\ \A i \in DOMAIN file : file[i].status \in {"DONE", "RELEASED"} =>
          \E d \in calldata : d.fn = "deliver" /\ d.uid = file[i].uid
    /\ \A c, d \in calldata :
          c.uid = d.uid => c.id = d.id /\ ~(c.fn = "refund" /\ d.fn = "deliver")
    /\ \A c \in calldata :
          c.fn = "release" => \E d \in calldata : d.fn = "deliver" /\ d.uid = c.uid

\* Nothing was handed out yet.
LEMMA CallsInit == Init => CallsInv
  BY DEF Init, CallsInv

\* A record that is touched changes its status, and the call for that is handed out.
LEMMA TouchIssues ==
    ASSUME BoardInv, NEW i \in DOMAIN file, Touches(i)
    PROVE  \E fn, from, to :
             /\ \/ fn = "deliver" /\ from = "FUNDED" /\ to = "DONE"
                \/ fn = "release" /\ from = "DONE" /\ to = "RELEASED"
                \/ fn = "refund" /\ from = "FUNDED" /\ to = "REFUNDED"
             /\ file[i].status = from
             /\ \A j \in DOMAIN file : file'[j].status = IF j = i THEN to ELSE file[j].status
             /\ calldata' = calldata \cup {[fn |-> fn, id |-> file[i].id, uid |-> file[i].uid]}
<1>1. file \in Seq(TaskRecord) /\ file[i] \in TaskRecord
  BY DEF BoardInv
<1>2. CASE Answers(i)
  <2>1. PICK author : DeliverTask(i, file[i].id, file[i].uid, author)
    BY <1>2 DEF Answers
  <2> DEFINE done == [file[i] EXCEPT !.status = "DONE", !.result = file[i].uid, !.by = author]
  <2>2. file' = [file EXCEPT ![i] = done] /\ file[i].status = "FUNDED" /\ done.status = "DONE"
    BY <1>1, <2>1 DEF DeliverTask, MayDeliver, FindsTask, TaskRecord
  <2> HIDE DEF done
  <2>3. \A j \in DOMAIN file : file'[j].status = IF j = i THEN "DONE" ELSE file[j].status
    BY <1>1, <2>2
  <2> QED
    BY <2>1, <2>2, <2>3 DEF DeliverTask, Issue
<1>3. ASSUME NEW fn, NEW from, NEW to, Closes(i, fn, from, to)
      PROVE  /\ file[i].status = from
             /\ \A j \in DOMAIN file : file'[j].status = IF j = i THEN to ELSE file[j].status
             /\ calldata' = calldata \cup {[fn |-> fn, id |-> file[i].id, uid |-> file[i].uid]}
  <2> DEFINE done == [file[i] EXCEPT !.status = to]
  <2>1. file' = [file EXCEPT ![i] = done] /\ done.status = to
    BY <1>1, <1>3 DEF Closes, TaskRecord
  <2> HIDE DEF done
  <2>2. \A j \in DOMAIN file : file'[j].status = IF j = i THEN to ELSE file[j].status
    BY <1>1, <2>1
  <2> QED
    BY <1>3, <2>2 DEF Closes, Issue
<1> QED
  BY <1>2, <1>3 DEF Touches

\* Only the status of the record a call is for moves, and it moves to where that
\* call belongs; nothing was handed out for a new task.
LEMMA CallsNext ==
    BoardAssumption /\ BoardInv /\ Answered /\ RestTyped /\ CallsInv /\ [Next]_vars => CallsInv'
<1> SUFFICES ASSUME BoardAssumption, BoardInv, Answered, RestTyped, CallsInv, [Next]_vars
             PROVE  CallsInv'
  OBVIOUS
<1>0. created \in Nat /\ \A c \in calldata : c.uid \in Nat
  BY DEF BoardInv, BoardAssumption, RestTyped, Call, Uids
<1>1. CASE UNCHANGED <<file, created, calldata>>
  BY <1>1 DEF CallsInv
<1>2. CASE CreateTask
  <2> DEFINE call == [fn |-> "fund", id |-> NextId, uid |-> created']
  <2>1. created' = created + 1 /\ calldata' = calldata \cup {call}
    BY <1>2 DEF CreateTask, Issue
  <2>2. PICK new : /\ file' = Append(file, new) /\ new.status = "FUNDED"
                   /\ new.id = NextId /\ new.uid = created'
    BY <1>2 DEF CreateTask
  <2>3. /\ DOMAIN file' = 1..(Len(file) + 1) /\ file'[Len(file) + 1] = new
        /\ \A i \in DOMAIN file : file'[i] = file[i]
    BY <2>2 DEF BoardInv
  <2>4. \A i \in DOMAIN file' : i \in DOMAIN file \/ i = Len(file) + 1
    BY <2>3 DEF BoardInv
  <2>5. \A i \in DOMAIN file : file[i].uid \in Nat /\ file[i].uid < created'
    BY <1>0, <2>1, Entries DEF BoardInv
  <2>6. \A c \in calldata : c.uid < created'
    BY <1>0, <2>1 DEF CallsInv
  <2>7. call.fn = "fund" /\ call.id = NextId /\ call.uid = created'
    OBVIOUS
  <2> HIDE DEF call
  <2>8. \A c \in calldata' : c \in calldata \/ c = call
    BY <2>1
  <2>9. \A c \in calldata' : c.uid <= created'
    BY <1>0, <2>1, <2>6, <2>7, <2>8
  <2>10. \A c \in calldata' : \A i \in DOMAIN file' : file'[i].uid = c.uid =>
          /\ c.id = file'[i].id
          /\ c.fn = "deliver" => file'[i].status \in {"DONE", "RELEASED"}
          /\ c.fn = "release" => file'[i].status = "RELEASED"
          /\ c.fn = "refund" => file'[i].status = "REFUNDED"
    <3> SUFFICES ASSUME NEW c \in calldata', NEW i \in DOMAIN file', file'[i].uid = c.uid
                 PROVE  /\ c.id = file'[i].id
                        /\ c.fn = "deliver" => file'[i].status \in {"DONE", "RELEASED"}
                        /\ c.fn = "release" => file'[i].status = "RELEASED"
                        /\ c.fn = "refund" => file'[i].status = "REFUNDED"
      OBVIOUS
    <3>1. CASE i \in DOMAIN file /\ c \in calldata
      BY <2>3, <3>1 DEF CallsInv
    <3>2. CASE i \in DOMAIN file /\ c = call
      BY <1>0, <2>1, <2>3, <2>5, <2>7, <3>2
    <3>3. CASE i = Len(file) + 1 /\ c \in calldata
      BY <1>0, <2>1, <2>2, <2>3, <2>6, <3>3
    <3>4. CASE i = Len(file) + 1 /\ c = call
      BY <2>2, <2>3, <2>7, <3>4
    <3> QED
      BY <2>4, <2>8, <3>1, <3>2, <3>3, <3>4
  <2>11. \A i \in DOMAIN file' : file'[i].status \in {"DONE", "RELEASED"} =>
          \E d \in calldata' : d.fn = "deliver" /\ d.uid = file'[i].uid
    BY <2>1, <2>2, <2>3, <2>4 DEF CallsInv
  <2>12. \A c, d \in calldata' :
          c.uid = d.uid => c.id = d.id /\ ~(c.fn = "refund" /\ d.fn = "deliver")
    <3>1. \A c \in calldata : c.uid # call.uid
      BY <1>0, <2>1, <2>6, <2>7
    <3> QED
      BY <2>7, <2>8, <3>1 DEF CallsInv
  <2>13. \A c \in calldata' :
          c.fn = "release" => \E d \in calldata' : d.fn = "deliver" /\ d.uid = c.uid
    BY <2>1, <2>7, <2>8 DEF CallsInv
  <2> QED
    BY <2>9, <2>10, <2>11, <2>12, <2>13 DEF CallsInv
<1>3. ASSUME NEW i \in DOMAIN file, Touches(i), UNCHANGED created PROVE CallsInv'
  <2>1. PICK fn, from, to :
             /\ \/ fn = "deliver" /\ from = "FUNDED" /\ to = "DONE"
                \/ fn = "release" /\ from = "DONE" /\ to = "RELEASED"
                \/ fn = "refund" /\ from = "FUNDED" /\ to = "REFUNDED"
             /\ file[i].status = from
             /\ \A j \in DOMAIN file : file'[j].status = IF j = i THEN to ELSE file[j].status
             /\ calldata' = calldata \cup {[fn |-> fn, id |-> file[i].id, uid |-> file[i].uid]}
    BY <1>3, TouchIssues
  <2>2. /\ DOMAIN file' = DOMAIN file
        /\ \A j \in DOMAIN file : file'[j].uid = file[j].uid /\ file'[j].id = file[j].id
    BY <1>3, TouchKeeps
  <2>3. \A j \in DOMAIN file : file[j].uid = file[i].uid => j = i
    <3>1. \A j \in DOMAIN file : j \in Nat /\ file[j].uid \in Nat
      BY Entries DEF BoardInv
    <3> QED
      BY <3>1 DEF BoardInv, IdsUnique
  <2> DEFINE call == [fn |-> fn, id |-> file[i].id, uid |-> file[i].uid]
  <2>4. call.fn = fn /\ call.id = file[i].id /\ call.uid = file[i].uid
    OBVIOUS
  <2>5. calldata' = calldata \cup {call} /\ \A c \in calldata' : c \in calldata \/ c = call
    BY <2>1
  <2> HIDE DEF call
  <2>6. \A c \in calldata : c.uid = file[i].uid =>
           /\ c.id = file[i].id /\ c.fn \notin {"release", "refund"}
           /\ from = "FUNDED" => c.fn # "deliver"
    BY <2>1 DEF CallsInv
  <2>7. \A c \in calldata' : c.uid <= created'
    BY <1>3, <2>4, <2>5 DEF CallsInv, BoardInv
  <2>8. \A c \in calldata' : \A j \in DOMAIN file' : file'[j].uid = c.uid =>
          /\ c.id = file'[j].id
          /\ c.fn = "deliver" => file'[j].status \in {"DONE", "RELEASED"}
          /\ c.fn = "release" => file'[j].status = "RELEASED"
          /\ c.fn = "refund" => file'[j].status = "REFUNDED"
    <3> SUFFICES ASSUME NEW c \in calldata', NEW j \in DOMAIN file, file[j].uid = c.uid
                 PROVE  /\ c.id = file[j].id
                        /\ c.fn = "deliver" => file'[j].status \in {"DONE", "RELEASED"}
                        /\ c.fn = "release" => file'[j].status = "RELEASED"
                        /\ c.fn = "refund" => file'[j].status = "REFUNDED"
      BY <2>2
    <3>1. CASE c \in calldata /\ j # i
      BY <2>1, <3>1 DEF CallsInv
    <3>2. CASE c \in calldata /\ j = i
      BY <2>1, <2>6, <3>2
    <3>3. CASE c = call
      BY <2>1, <2>3, <2>4, <3>3
    <3> QED
      BY <2>5, <3>1, <3>2, <3>3
  <2>9. \A j \in DOMAIN file' : file'[j].status \in {"DONE", "RELEASED"} =>
          \E d \in calldata' : d.fn = "deliver" /\ d.uid = file'[j].uid
    <3> SUFFICES ASSUME NEW j \in DOMAIN file, file'[j].status \in {"DONE", "RELEASED"}
                 PROVE  \E d \in calldata' : d.fn = "deliver" /\ d.uid = file[j].uid
      BY <2>2
    <3>1. CASE j # i \/ fn = "release"
      BY <2>1, <2>5, <3>1 DEF CallsInv
    <3>2. CASE j = i /\ fn # "release"
      BY <2>1, <2>4, <2>5, <3>2
    <3> QED
      BY <3>1, <3>2
  <2>10. \A c, d \in calldata' :
          c.uid = d.uid => c.id = d.id /\ ~(c.fn = "refund" /\ d.fn = "deliver")
    <3> SUFFICES ASSUME NEW c \in calldata', NEW d \in calldata', c.uid = d.uid
                 PROVE  c.id = d.id /\ ~(c.fn = "refund" /\ d.fn = "deliver")
      OBVIOUS
    <3>1. CASE c \in calldata /\ d \in calldata
      BY <3>1 DEF CallsInv
    <3>2. CASE c = call /\ d \in calldata
      BY <2>1, <2>4, <2>6, <3>2
    <3>3. CASE c \in calldata /\ d = call
      BY <2>1, <2>4, <2>6, <3>3
    <3>4. CASE c = call /\ d = call
      BY <2>4, <3>4
    <3> QED
      BY <2>5, <3>1, <3>2, <3>3, <3>4
  <2>11. \A c \in calldata' :
          c.fn = "release" => \E d \in calldata' : d.fn = "deliver" /\ d.uid = c.uid
    <3>1. CASE fn = "release"
      <4>1. \E d \in calldata : d.fn = "deliver" /\ d.uid = file[i].uid
        BY <2>1, <3>1 DEF CallsInv
      <4> QED
        BY <2>4, <2>5, <4>1 DEF CallsInv
    <3>2. CASE fn # "release"
      BY <2>4, <2>5, <3>2 DEF CallsInv
    <3> QED
      BY <3>1, <3>2
  <2> QED
    BY <2>7, <2>8, <2>9, <2>10, <2>11 DEF CallsInv
<1>4. ASSUME NEW lost \in BOOLEAN, Crash(lost) PROVE CallsInv'
  <2>1. created' = created /\ calldata' = calldata /\ (file' = file \/ file' = <<>>)
    BY <1>4 DEF Crash
  <2> QED
    BY <1>1, <2>1 DEF CallsInv
<1> QED
  BY <1>1, <1>2, <1>3, <1>4, StepsOfFile

\* The board is sound for any number of tasks and polls: its records stay what they
\* should be, ids name one task each, and the calldata handed out for a task agrees
\* with itself, under an id of its own unless the file was lost.
THEOREM BoardAlwaysSound == Spec => []BoardSound
<1>1. BoardInv /\ PollsBounded /\ RestTyped => TypeOK
  BY DEF BoardInv, PollsBounded, RestTyped, TypeOK
<1>2. CallsInv /\ InOrder => CalldataAgrees
  BY DEF CallsInv, InOrder, CalldataAgrees
<1>3. BoardInv /\ PollsBounded /\ RestTyped /\ InOrder /\ CallsInv => BoardSound
  BY <1>1, <1>2 DEF BoardInv, BoardSound
<1> QED
  BY <1>3, BoardInvInit, BoardInvNext, PollsBoundedInit, PollsBoundedNext, RestTypedInit,
     RestTypedNext, AnsweredInit, AnsweredNext, InOrderInit, InOrderNext, CallsInit, CallsNext,
     BoardAssumption, PTL DEF Spec
=============================================================================
