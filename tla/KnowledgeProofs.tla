--------------------------- MODULE KnowledgeProofs --------------------------
(***************************************************************************)
(* The safety of one document, for any number of processes and delete      *)
(* tasks and any bounds on failures.  The promises of KnowledgeProperties  *)
(* are about rows and stores; what makes them inductive is where the       *)
(* workers are in the code that changes these.                             *)
(***************************************************************************)
EXTENDS KnowledgeProperties, TLAPS

IndexPlaces == IndexPcs \cup {"superseded", "cleanup", "cancel", "fail"}
DeletePlaces == DeletePcs \cup {"delRequeue", "delFail"}

\* A worker is in the code of the task it claimed, and that task exists.
PlaceFitsTask ==
  \A p \in Procs :
    /\ worker[p].pc \in IndexPlaces => worker[p].task = IndexTask
    /\ worker[p].pc \in DeletePlaces => worker[p].task \in DeleteTasks
    /\ worker[p].pc # "idle" => MyTask(p).status # "absent"

\* The rows of the document and its index task are created at the end of the
\* upload.
UploadComesFirst == upload # "done" => doc = "absent" /\ tasks[IndexTask].status = "absent"

\* A delete task and the tombstone are written in one transaction.
DeleteIsMarked ==
  \A t \in DeleteTasks : tasks[t].status # "absent" => doc \in {"deleting", "gone"}

\* While neither the document nor its base is being deleted, nobody removes
\* anything, and an attempt finds what it read and stored.
InUse == used.baseFaults = 0 /\ base = "active" /\ doc \notin {"deleting", "gone"}
WorkIsKept ==
  InUse =>
    /\ doc = "ready" => chunks = "all" /\ file
    /\ \A p \in Procs :
         /\ removal[p] = "none"
         /\ worker[p].conflict = FALSE /\ ~At(p, "cleanup")
         /\ At(p, "store") => file
         /\ At(p, "complete") => file /\ chunks = "all"

\* Once a delete task has removed the chunks, chunks that come back are those
\* of an attempt that has still to find out that it lost the race.
Late == {"complete", "superseded", "cleanup"}
Cleared == doc = "gone" \/ \E p \in Procs : worker[p].pc \in {"delFile", "delComplete"}
WorkIsCleared ==
  Undisturbed =>
    /\ \A p \in Procs : removal[p] = "none"
    /\ doc = "gone" \/ (\E p \in Procs : At(p, "delComplete")) => ~file
    /\ Cleared => \/ chunks = "none"
                  \/ \E p \in Procs : worker[p].pc \in Late

IInv == /\ Typed /\ PlaceFitsTask /\ UploadComesFirst /\ DeleteIsMarked
        /\ TombstoneHasTask /\ WorkIsKept /\ WorkIsCleared

-----------------------------------------------------------------------------
(* What the moves of a worker do to its state.                             *)

\* Worker p keeps its claim and is at pc.
Moved(p, pc) ==
  /\ worker' \in [Procs -> Worker]
  /\ worker'[p].pc = pc /\ worker'[p].task = worker[p].task
  /\ \A q \in Procs \ {p} : worker'[q] = worker[q]

\* Goto and LeaveFinal change only where the worker is.
LEMMA MoveEffect ==
  ASSUME Typed, NEW p \in Procs, NEW pc \in Pcs
  PROVE  /\ Goto(p, pc) => Moved(p, pc) /\ worker'[p].conflict = worker[p].conflict
         /\ LeaveFinal(p, pc) => Moved(p, pc) /\ worker'[p].conflict = worker[p].conflict
  BY DEF Typed, Worker, Goto, LeaveFinal, Moved

\* LeaveConflict sends the worker to the superseded branch.
LEMMA ConflictEffect ==
  ASSUME Typed, NEW p \in Procs, LeaveConflict(p)
  PROVE  Moved(p, "superseded")
  BY DEF Typed, Worker, LeaveConflict, Moved, Pcs, AfterPcs

\* Return ends the attempt of one worker.
LEMMA ReturnEffect ==
  ASSUME Typed, NEW p \in Procs, Return(p)
  PROVE  /\ worker' \in [Procs -> Worker] /\ worker'[p] = Idle
         /\ \A q \in Procs \ {p} : worker'[q] = worker[q]
  BY DeletesAssumption DEF Typed, Worker, Return, Idle, Pcs, TaskIds

\* Unlock keeps the locks typed.
LEMMA UnlockEffect ==
  ASSUME Typed, NEW p \in Procs, Unlock(p)
  PROVE  lock' \in [Procs -> {"free", "worker", "removal"}]
  BY DEF Typed, Unlock

\* SetTask writes the status of one row.
LEMMA SetTaskEffect ==
  ASSUME Typed, NEW t \in TaskIds, NEW status \in TaskStatuses, SetTask(t, status)
  PROVE  /\ tasks' \in [TaskIds -> TaskRow] /\ tasks'[t].status = status
         /\ \A u \in TaskIds \ {t} : tasks'[u] = tasks[u]
  BY DEF Typed, SetTask, TaskRow

\* A failure is counted under its own bound, and under no other.
LEMMA SpendEffect ==
  ASSUME Typed
  PROVE  /\ Fault => used' \in Used /\ used'.faults # 0 /\ used'.baseFaults = used.baseFaults
         /\ Dies => used' \in Used /\ used'.crashes # 0 /\ used'.baseFaults = used.baseFaults
         /\ RemovalFault => used' \in Used /\ used'.baseFaults # 0
  BY DEF Typed, Used, Fault, Dies, RemovalFault

-----------------------------------------------------------------------------
(* Steps of a worker.                                                      *)

\* What a step may spend: nothing, or a failure that Undisturbed rules out.
Spent == /\ used' \in Used /\ used'.baseFaults = used.baseFaults
         /\ used' = used \/ used'.faults # 0 \/ used'.crashes # 0

\* Every way for a worker to spend a bound is of this kind.
LEMMA SpentEffect ==
  ASSUME Typed PROVE (Fault => Spent) /\ (Dies => Spent) /\ (UNCHANGED used => Spent)
  BY SpendEffect DEF Spent, Typed

\* A worker moves on, and the rows and the stores are left alone.  Where it
\* goes and comes from is not a place that the invariant speaks about.
LEMMA MoveKeeps ==
  ASSUME IInv, NEW p \in Procs, NEW pc \in Pcs, Moved(p, pc), Spent,
         lock' \in [Procs -> {"free", "worker", "removal"}],
         UNCHANGED <<rows, stores, requests>>,
         worker[p].pc # "idle",
         worker[p].pc \in Late => pc \in Late \/ ~Cleared,
         pc \in IndexPlaces => worker[p].task = IndexTask,
         pc \in DeletePlaces => worker[p].task \in DeleteTasks,
         pc \notin {"complete", "delFile", "delComplete"},
         pc = "store" => file, pc = "cleanup" => ~InUse,
         worker'[p].conflict = worker[p].conflict \/ ~InUse
  PROVE  IInv'
  <1> USE DEF Moved, rows, stores, requests
  <1>1. Typed'
    BY DEF IInv, Typed, Spent
  <1>2. PlaceFitsTask'
    BY DEF IInv, PlaceFitsTask, MyTask
  <1>3. UploadComesFirst' /\ DeleteIsMarked' /\ TombstoneHasTask'
    BY DEF IInv, UploadComesFirst, DeleteIsMarked, TombstoneHasTask
  <1>4. WorkIsKept'
    BY DEF IInv, WorkIsKept, InUse, At, Spent
  <1>5. WorkIsCleared'
    BY DEF IInv, WorkIsCleared, Undisturbed, Cleared, At, Spent, Late
  <1> QED BY <1>1, <1>2, <1>3, <1>4, <1>5 DEF IInv

\* Steps that read, and steps that fail before they change anything.
LEMMA ReadingSteps ==
  ASSUME IInv, NEW p \in Procs,
         TakeLock(p) \/ ReadBase(p) \/ ReadDocument(p) \/ ReadSource(p) \/ DeleteRead(p)
  PROVE  IInv'
  <1> USE DEF IInv, At, Leave, IndexPlaces, DeletePlaces, IndexPcs, DeletePcs, Late
  <1>0. /\ worker[p].pc \in IndexPlaces => worker[p].task = IndexTask
        /\ worker[p].pc \in DeletePlaces => worker[p].task \in DeleteTasks
        /\ worker[p].task \in TaskIds
    BY DEF PlaceFitsTask, Typed, Worker
  <1>1. CASE TakeLock(p)
    <2> DEFINE pc == IF worker[p].task = IndexTask THEN "readBase" ELSE "delRead"
    <2>1. pc \in Pcs /\ Goto(p, pc)
      BY <1>1 DEF TakeLock, Pcs
    <2>2. Moved(p, pc) /\ worker'[p].conflict = worker[p].conflict
      BY <2>1, MoveEffect
    <2>3. lock' \in [Procs -> {"free", "worker", "removal"}]
      BY <1>1 DEF TakeLock, Typed
    <2>4. pc # "readBase" => worker[p].task \in DeleteTasks
      BY <1>0, DeletesAssumption DEF TaskIds, DeleteTasks, IndexTask
    <2> QED BY <1>1, <2>1, <2>2, <2>3, <2>4, SpentEffect, MoveKeeps DEF TakeLock
  <1>2. CASE ReadBase(p)
    <2>1. CASE LeaveFinal(p, "fail")
      BY <1>0, <1>2, <2>1, MoveEffect, UnlockEffect, SpentEffect, MoveKeeps
      DEF ReadBase, LeaveFinal, Pcs, AfterPcs
    <2>2. CASE base = "deleting" /\ LeaveConflict(p)
      BY <1>0, <1>2, <2>2, ConflictEffect, UnlockEffect, SpentEffect, MoveKeeps
      DEF ReadBase, LeaveConflict, Pcs, AfterPcs, InUse
    <2>3. CASE Goto(p, "readDoc") /\ UNCHANGED lock
      BY <1>0, <1>2, <2>3, MoveEffect, SpentEffect, MoveKeeps DEF ReadBase, Pcs, Typed
    <2> QED BY <1>2, <2>1, <2>2, <2>3 DEF ReadBase
  <1>3. CASE ReadDocument(p)
    <2>1. CASE LeaveFinal(p, "fail")
      BY <1>0, <1>3, <2>1, MoveEffect, UnlockEffect, SpentEffect, MoveKeeps
      DEF ReadDocument, LeaveFinal, Pcs, AfterPcs
    <2>2. CASE doc = "deleting" /\ LeaveConflict(p)
      BY <1>0, <1>3, <2>2, ConflictEffect, UnlockEffect, SpentEffect, MoveKeeps
      DEF ReadDocument, LeaveConflict, Pcs, AfterPcs, InUse
    <2>3. CASE Goto(p, "mark") /\ UNCHANGED lock
      BY <1>0, <1>3, <2>3, MoveEffect, SpentEffect, MoveKeeps DEF ReadDocument, Pcs, Typed
    <2> QED BY <1>3, <2>1, <2>2, <2>3 DEF ReadDocument
  <1>4. CASE ReadSource(p)
    <2>1. CASE file /\ Goto(p, "store") /\ UNCHANGED <<lock, used>>
      BY <1>0, <1>4, <2>1, MoveEffect, SpentEffect, MoveKeeps DEF ReadSource, Pcs, Typed
    <2>2. CASE Leave(p, "fail")
      BY <1>0, <1>4, <2>2, MoveEffect, UnlockEffect, SpentEffect, MoveKeeps
      DEF ReadSource, Pcs, AfterPcs
    <2> QED BY <1>4, <2>1, <2>2 DEF ReadSource
  <1>5. CASE DeleteRead(p)
    <2>1. CASE LeaveFinal(p, "delFail")
      BY <1>0, <1>5, <2>1, MoveEffect, UnlockEffect, SpentEffect, MoveKeeps
      DEF DeleteRead, LeaveFinal, Pcs, AfterPcs
    <2>2. CASE Goto(p, "delChunks") /\ UNCHANGED lock
      BY <1>0, <1>5, <2>2, MoveEffect, SpentEffect, MoveKeeps DEF DeleteRead, Pcs, Typed
    <2> QED BY <1>5, <2>1, <2>2 DEF DeleteRead
  <1> QED BY <1>1, <1>2, <1>3, <1>4, <1>5

\* Task 0 is the index task, the others delete.
LEMMA TaskIdFacts ==
  /\ IndexTask \in TaskIds /\ DeleteTasks \subseteq TaskIds /\ IndexTask \notin DeleteTasks
  /\ \A t \in TaskIds : t \in DeleteTasks \/ t = IndexTask
  BY DeletesAssumption DEF IndexTask, DeleteTasks, TaskIds

\* What the place of a worker says about its task, the document and the
\* upload.
LEMMA PlaceOf ==
  ASSUME IInv, NEW p \in Procs
  PROVE  /\ worker[p].pc \in IndexPlaces => worker[p].task = IndexTask
         /\ worker[p].pc \in DeletePlaces => worker[p].task \in DeleteTasks
         /\ worker[p].task \in TaskIds
         /\ worker[p].pc \in DeletePlaces => doc \in {"deleting", "gone"}
         /\ worker[p].pc # "idle" => upload = "done"
  BY TaskIdFacts DEF IInv, PlaceFitsTask, DeleteIsMarked, UploadComesFirst, MyTask, Typed,
                     Worker, DeletePlaces, DeletePcs

\* The steps of an index attempt that store chunks or change rows.
LEMMA MarkStep ==
  ASSUME IInv, NEW p \in Procs, MarkDocumentIndexing(p) PROVE IInv'
  <1> USE DEF At, Leave, IndexPlaces, DeletePlaces, IndexPcs, DeletePcs, Late
  <1>0. Typed
    BY DEF IInv
  <1>1. CASE doc = "pending" /\ doc' = "indexing" /\ Goto(p, "read") /\ UNCHANGED lock
    <2>0. Moved(p, "read") /\ worker'[p].conflict = worker[p].conflict
      BY <1>0, <1>1, MoveEffect DEF Pcs
    <2>1. worker[p].pc = "mark" /\ UNCHANGED <<base, tasks, file, chunks, upload, removal, used>>
      BY DEF MarkDocumentIndexing, stores, requests
    <2> USE DEF Moved
    <2>2. Typed'
      BY <1>1, <2>0, <2>1 DEF IInv, Typed, DocStatuses
    <2>3. PlaceFitsTask'
      BY <2>0, <2>1, PlaceOf DEF IInv, PlaceFitsTask, MyTask
    <2>4. UploadComesFirst' /\ DeleteIsMarked' /\ TombstoneHasTask'
      BY <1>1, <2>1 DEF IInv, UploadComesFirst, DeleteIsMarked, TombstoneHasTask
    <2>5. WorkIsKept'
      BY <1>1, <2>0, <2>1 DEF IInv, WorkIsKept, InUse
    <2>6. WorkIsCleared'
      BY <1>1, <2>0, <2>1 DEF IInv, WorkIsCleared, Undisturbed, Cleared
    <2> QED BY <2>2, <2>3, <2>4, <2>5, <2>6 DEF IInv
  <1>2. CASE doc # "pending" /\ Leave(p, "superseded") /\ UNCHANGED doc
    BY <1>0, <1>2, PlaceOf, MoveEffect, UnlockEffect, SpentEffect, MoveKeeps
    DEF MarkDocumentIndexing, Pcs, AfterPcs, rows
  <1> QED BY <1>1, <1>2 DEF MarkDocumentIndexing

\* Storing the chunks leaves all of them, or is a failure that may leave
\* some.
LEMMA StoreStep ==
  ASSUME IInv, NEW p \in Procs, StoreChunks(p) PROVE IInv'
  <1> USE DEF At, Leave, IndexPlaces, DeletePlaces, IndexPcs, DeletePcs, Late
  <1>0. Typed /\ worker[p].pc = "store" /\ UNCHANGED <<base, doc, tasks, file, upload, removal>>
    BY DEF IInv, StoreChunks, rows, requests
  <1>1. \E pc \in {"complete", "fail"} :
          /\ Moved(p, pc) /\ worker'[p].conflict = worker[p].conflict
          /\ pc = "complete" => chunks' = "all" /\ UNCHANGED used
          /\ pc = "fail" => Fault /\ chunks' \in {"none", "some", "all"}
                           /\ (chunks = "all" => chunks' = "all")
    BY <1>0, MoveEffect DEF StoreChunks, Pcs, AfterPcs, Typed
  <1>2. lock' \in [Procs -> {"free", "worker", "removal"}]
    BY <1>0, UnlockEffect DEF StoreChunks, Typed
  <1>3. PICK pc \in {"complete", "fail"} :
          /\ Moved(p, pc) /\ worker'[p].conflict = worker[p].conflict
          /\ pc = "complete" => chunks' = "all" /\ UNCHANGED used
          /\ pc = "fail" => used' \in Used /\ used'.faults # 0 /\ used'.baseFaults = used.baseFaults
                           /\ chunks' \in {"none", "some", "all"}
                           /\ (chunks = "all" => chunks' = "all")
    BY <1>0, <1>1, SpendEffect
  <1> USE DEF Moved
  <1>4. Typed'
    BY <1>0, <1>2, <1>3 DEF Typed
  <1>5. PlaceFitsTask'
    BY <1>0, <1>3, PlaceOf DEF IInv, PlaceFitsTask, MyTask
  <1>6. UploadComesFirst' /\ DeleteIsMarked' /\ TombstoneHasTask'
    BY <1>0 DEF IInv, UploadComesFirst, DeleteIsMarked, TombstoneHasTask
  <1>7. WorkIsKept'
    BY <1>0, <1>3 DEF IInv, WorkIsKept, InUse
  <1>8. WorkIsCleared'
    BY <1>0, <1>3 DEF IInv, WorkIsCleared, Undisturbed, Cleared
  <1> QED BY <1>4, <1>5, <1>6, <1>7, <1>8 DEF IInv

\* The transaction that makes a document ready runs on stored chunks.
LEMMA CompleteIndexStep ==
  ASSUME IInv, NEW p \in Procs, CompleteIndexTask(p) PROVE IInv'
  <1> USE DEF At, Leave, IndexPlaces, DeletePlaces, IndexPcs, DeletePcs, Late
  <1>0. Typed /\ worker[p].pc = "complete" /\ worker[p].task = IndexTask
    BY PlaceOf DEF IInv, CompleteIndexTask
  <1>1. CASE doc = "indexing" /\ Current(p)
    <2>0. /\ UNCHANGED <<base, file, chunks, upload, removal, used>> /\ doc' = "ready"
          /\ SetTask(IndexTask, "succeeded") /\ Goto(p, "idle") /\ Unlock(p)
      BY <1>0, <1>1 DEF CompleteIndexTask, stores, requests
    <2>1. Moved(p, "idle") /\ worker'[p].conflict = worker[p].conflict
      BY <1>0, <2>0, MoveEffect DEF Pcs
    <2>2. /\ tasks' \in [TaskIds -> TaskRow] /\ tasks'[IndexTask].status = "succeeded"
          /\ \A t \in DeleteTasks : tasks'[t] = tasks[t] /\ tasks[t].status = "absent"
          /\ \A t \in TaskIds : tasks[t].status # "absent" => tasks'[t].status # "absent"
      <3>1. IndexTask \in TaskIds /\ DeleteTasks \subseteq TaskIds /\ IndexTask \notin DeleteTasks
        BY DeletesAssumption DEF IndexTask, DeleteTasks, TaskIds
      <3>2. "succeeded" \in TaskStatuses
        BY DEF TaskStatuses
      <3> QED BY <1>0, <1>1, <2>0, <3>1, <3>2, SetTaskEffect DEF IInv, DeleteIsMarked
    <2>3. lock' \in [Procs -> {"free", "worker", "removal"}]
      BY <1>0, <2>0, UnlockEffect
    <2> USE DEF Moved
    <2>4. Typed'
      BY <1>0, <2>0, <2>1, <2>2, <2>3 DEF Typed, DocStatuses
    <2>5. PlaceFitsTask'
      BY <1>0, <2>1, <2>2 DEF IInv, PlaceFitsTask, MyTask, Typed, Worker
    <2>6. UploadComesFirst' /\ DeleteIsMarked' /\ TombstoneHasTask'
      BY <1>1, <2>0, <2>2 DEF IInv, UploadComesFirst, DeleteIsMarked, TombstoneHasTask
    <2>7. WorkIsKept'
      BY <1>0, <1>1, <2>0, <2>1 DEF IInv, WorkIsKept, InUse
    <2>8. WorkIsCleared'
      BY <1>0, <1>1, <2>0, <2>1, PlaceOf DEF IInv, WorkIsCleared, Undisturbed, Cleared
    <2> QED BY <2>4, <2>5, <2>6, <2>7, <2>8 DEF IInv
  <1>2. CASE ~(doc = "indexing" /\ Current(p))
    BY <1>0, <1>2, PlaceOf, MoveEffect, UnlockEffect, SpentEffect, MoveKeeps
    DEF CompleteIndexTask, Pcs, AfterPcs, rows
  <1> QED BY <1>1, <1>2

\* An attempt that lost the race cleans up only after a deletion; otherwise
\* it goes to cancel, and then nothing was cleared.
LEMMA SupersededStep ==
  ASSUME IInv, NEW p \in Procs, Superseded(p) PROVE IInv'
  <1> USE DEF At, IndexPlaces, DeletePlaces, IndexPcs, DeletePcs, Late
  <1> DEFINE pc == IF worker[p].conflict \/ doc \in {"deleting", "gone"}
                   THEN "cleanup" ELSE "cancel"
  <1>0. /\ Typed /\ worker[p].pc = "superseded" /\ Goto(p, pc) /\ pc \in Pcs
        /\ UNCHANGED <<rows, stores, lock, requests, used>> /\ worker[p].task = IndexTask
    BY PlaceOf DEF IInv, Superseded, Pcs, AfterPcs
  <1>1. Moved(p, pc) /\ worker'[p].conflict = worker[p].conflict
    BY <1>0, MoveEffect
  <1>2. pc = "cancel" => ~Cleared
    BY PlaceOf DEF Cleared
  <1>3. pc = "cleanup" => ~InUse
    BY DEF IInv, WorkIsKept, InUse
  <1> QED BY <1>0, <1>1, <1>2, <1>3, SpentEffect, MoveKeeps DEF Typed

\* A worker gives up its task, or dies with it; the stores are left alone.
LEMMA ReturnKeeps ==
  ASSUME IInv, NEW p \in Procs, Return(p), Spent, UNCHANGED <<base, file, chunks, upload>>,
         lock' \in [Procs -> {"free", "worker", "removal"}],
         removal' \in [Procs -> RemovalPcs],
         \A q \in Procs : removal'[q] = removal[q] \/ removal'[q] = "none",
         tasks' \in [TaskIds -> TaskRow],
         \A t \in TaskIds : tasks[t].status # "absent" => tasks'[t].status # "absent",
         doc' \in DocStatuses, doc' = "ready" => doc = "ready", doc' = "gone" <=> doc = "gone",
         doc = "deleting" => doc' = "deleting",
         worker[p].pc \in Late => used' # used \/ ~Cleared,
         UploadComesFirst', DeleteIsMarked', TombstoneHasTask'
  PROVE  IInv'
  <1>0. /\ worker' \in [Procs -> Worker] /\ worker'[p] = Idle
        /\ \A q \in Procs \ {p} : worker'[q] = worker[q]
    BY ReturnEffect DEF IInv
  <1> USE DEF Idle
  <1>1. Typed'
    BY <1>0 DEF IInv, Typed, Spent
  <1>2. PlaceFitsTask'
    BY <1>0 DEF IInv, PlaceFitsTask, MyTask, Typed, Worker, IndexPlaces, DeletePlaces,
                IndexPcs, DeletePcs
  <1>3. WorkIsKept'
    BY <1>0 DEF IInv, WorkIsKept, InUse, At, Spent
  <1>4. WorkIsCleared'
    BY <1>0 DEF IInv, WorkIsCleared, Undisturbed, Cleared, At, Spent, Late
  <1> QED BY <1>1, <1>2, <1>3, <1>4 DEF IInv

\* The ends of an index attempt.
LEMMA CleanupStep ==
  ASSUME IInv, NEW p \in Procs, CleanupIndex(p) PROVE IInv'
  <1> USE DEF At, IndexPlaces, DeletePlaces, IndexPcs, DeletePcs, Late
  <1>0. /\ Typed /\ worker[p].pc = "cleanup" /\ worker[p].task = IndexTask
        /\ UNCHANGED <<base, doc, tasks, file, lock, upload, removal>>
    BY PlaceOf DEF IInv, CleanupIndex, rows, requests
  <1>1. CASE chunks' = "none" /\ Goto(p, "cancel") /\ UNCHANGED used
    <2>1. Moved(p, "cancel")
      BY <1>0, <1>1, MoveEffect DEF Pcs, AfterPcs
    <2> USE DEF Moved
    <2>2. Typed'
      BY <1>0, <1>1, <2>1 DEF Typed
    <2>3. PlaceFitsTask'
      BY <1>0, <2>1 DEF IInv, PlaceFitsTask, MyTask
    <2>4. UploadComesFirst' /\ DeleteIsMarked' /\ TombstoneHasTask'
      BY <1>0 DEF IInv, UploadComesFirst, DeleteIsMarked, TombstoneHasTask
    <2>5. WorkIsKept'
      BY <1>0, <1>1 DEF IInv, WorkIsKept, InUse
    <2>6. WorkIsCleared'
      BY <1>0, <1>1, <2>1 DEF IInv, WorkIsCleared, Undisturbed, Cleared
    <2> QED BY <2>2, <2>3, <2>4, <2>5, <2>6 DEF IInv
  <1>2. CASE Fault /\ Return(p) /\ UNCHANGED chunks
    <2>1. UploadComesFirst' /\ DeleteIsMarked' /\ TombstoneHasTask'
      BY <1>0 DEF IInv, UploadComesFirst, DeleteIsMarked, TombstoneHasTask
    <2>2. used' # used
      BY <1>0, <1>2 DEF Fault, Typed, Used
    <2> QED BY <1>0, <1>2, <2>1, <2>2, SpentEffect, ReturnKeeps DEF Typed
  <1> QED BY <1>1, <1>2 DEF CleanupIndex

\* Cancelling touches no delete task.
LEMMA CancelStep ==
  ASSUME IInv, NEW p \in Procs, CancelIndexTask(p) PROVE IInv'
  <1> USE DEF At, IndexPlaces, DeletePlaces, IndexPcs, DeletePcs, Late
  <1>0. /\ Typed /\ worker[p].pc = "cancel" /\ worker[p].task = IndexTask /\ Return(p)
        /\ UNCHANGED <<base, doc, file, chunks, lock, upload, removal, used>>
    BY PlaceOf DEF IInv, CancelIndexTask, stores, requests
  <1>1. SetTask(IndexTask, "cancelled") \/ UNCHANGED tasks
    BY <1>0 DEF CancelIndexTask
  <1>2. /\ tasks' \in [TaskIds -> TaskRow]
        /\ \A t \in TaskIds : tasks[t].status # "absent" => tasks'[t].status # "absent"
        /\ \A t \in DeleteTasks : tasks'[t] = tasks[t]
    <2>1. "cancelled" \in TaskStatuses
      BY DEF TaskStatuses
    <2> QED BY <1>0, <1>1, <2>1, TaskIdFacts, SetTaskEffect DEF Typed
  <1>3. UploadComesFirst' /\ DeleteIsMarked' /\ TombstoneHasTask'
    BY <1>0, <1>2, PlaceOf DEF IInv, UploadComesFirst, DeleteIsMarked, TombstoneHasTask
  <1> QED BY <1>0, <1>2, <1>3, SpentEffect, ReturnKeeps DEF Typed

\* A failed attempt puts the document back, or fails it, only while it is
\* indexing.
LEMMA FailIndexStep ==
  ASSUME IInv, NEW p \in Procs, FailIndexTask(p) PROVE IInv'
  <1> USE DEF At, IndexPlaces, DeletePlaces, IndexPcs, DeletePcs, Late
  <1> DEFINE status == IF Retry(p) THEN "pending" ELSE "failed"
  <1>0. /\ Typed /\ worker[p].pc = "fail" /\ worker[p].task = IndexTask /\ Return(p)
        /\ UNCHANGED <<base, file, chunks, lock, upload, removal, used>>
    BY PlaceOf DEF IInv, FailIndexTask, stores, requests
  <1>1. \/ doc = "indexing" /\ doc' = status /\ SetTask(IndexTask, status)
        \/ UNCHANGED <<doc, tasks>>
    BY <1>0 DEF FailIndexTask
  <1>2. /\ status \in TaskStatuses \ {"absent"}
        /\ status \in DocStatuses \ {"deleting", "gone", "ready"}
    BY DEF TaskStatuses, DocStatuses
  <1> HIDE DEF status
  <1>3. /\ tasks' \in [TaskIds -> TaskRow]
        /\ \A t \in TaskIds : tasks[t].status # "absent" => tasks'[t].status # "absent"
        /\ \A t \in DeleteTasks : tasks'[t] = tasks[t]
    BY <1>0, <1>1, <1>2, TaskIdFacts, SetTaskEffect DEF Typed
  <1>4. UploadComesFirst' /\ DeleteIsMarked' /\ TombstoneHasTask'
    BY <1>0, <1>1, <1>2, <1>3 DEF IInv, UploadComesFirst, DeleteIsMarked, TombstoneHasTask
  <1> QED BY <1>0, <1>1, <1>2, <1>3, <1>4, SpentEffect, ReturnKeeps DEF Typed

-----------------------------------------------------------------------------
(* The steps of a delete task.                                             *)

\* Once the chunks are removed, WorkIsCleared speaks about the document.
LEMMA DeleteChunksStep ==
  ASSUME IInv, NEW p \in Procs, DeleteChunks(p) PROVE IInv'
  <1> USE DEF At, Leave, IndexPlaces, DeletePlaces, IndexPcs, DeletePcs, Late
  <1>0. /\ Typed /\ worker[p].pc = "delChunks" /\ worker[p].task \in DeleteTasks
        /\ UNCHANGED <<base, doc, tasks, file, upload, removal>> /\ doc \in {"deleting", "gone"}
    BY PlaceOf DEF IInv, DeleteChunks, rows, requests
  <1>1. CASE chunks' = "none" /\ Goto(p, "delFile") /\ UNCHANGED <<lock, used>>
    <2>1. Moved(p, "delFile")
      BY <1>0, <1>1, MoveEffect DEF Pcs
    <2> USE DEF Moved
    <2>2. Typed'
      BY <1>0, <1>1, <2>1 DEF Typed
    <2>3. PlaceFitsTask'
      BY <1>0, <2>1 DEF IInv, PlaceFitsTask, MyTask
    <2>4. UploadComesFirst' /\ DeleteIsMarked' /\ TombstoneHasTask'
      BY <1>0 DEF IInv, UploadComesFirst, DeleteIsMarked, TombstoneHasTask
    <2>5. WorkIsKept'
      BY <1>0, <1>1 DEF WorkIsKept, InUse
    <2>6. WorkIsCleared'
      BY <1>0, <1>1, <2>1 DEF IInv, WorkIsCleared, Undisturbed, Cleared
    <2> QED BY <2>2, <2>3, <2>4, <2>5, <2>6 DEF IInv
  <1>2. CASE Fault /\ Leave(p, "delFail") /\ UNCHANGED chunks
    BY <1>0, <1>2, MoveEffect, UnlockEffect, SpentEffect, MoveKeeps
    DEF Pcs, AfterPcs, rows, stores, requests
  <1> QED BY <1>1, <1>2 DEF DeleteChunks

\* Removing the file; nobody reads it any more, as the document is marked.
LEMMA DeleteFileStep ==
  ASSUME IInv, NEW p \in Procs, DeleteFile(p) PROVE IInv'
  <1> USE DEF At, Leave, IndexPlaces, DeletePlaces, IndexPcs, DeletePcs, Late
  <1>0. /\ Typed /\ worker[p].pc = "delFile" /\ worker[p].task \in DeleteTasks
        /\ UNCHANGED <<base, doc, tasks, chunks, upload, removal>> /\ doc \in {"deleting", "gone"}
    BY PlaceOf DEF IInv, DeleteFile, rows, requests
  <1>1. CASE file' = FALSE /\ Goto(p, "delComplete") /\ UNCHANGED <<lock, used>>
    <2>1. Moved(p, "delComplete")
      BY <1>0, <1>1, MoveEffect DEF Pcs
    <2> USE DEF Moved
    <2>2. Typed'
      BY <1>0, <1>1, <2>1 DEF Typed
    <2>3. PlaceFitsTask'
      BY <1>0, <2>1 DEF IInv, PlaceFitsTask, MyTask
    <2>4. UploadComesFirst' /\ DeleteIsMarked' /\ TombstoneHasTask'
      BY <1>0 DEF IInv, UploadComesFirst, DeleteIsMarked, TombstoneHasTask
    <2>5. WorkIsKept'
      BY <1>0, <1>1 DEF WorkIsKept, InUse
    <2>6. WorkIsCleared'
      BY <1>0, <1>1, <2>1 DEF IInv, WorkIsCleared, Undisturbed, Cleared
    <2> QED BY <2>2, <2>3, <2>4, <2>5, <2>6 DEF IInv
  <1>2. CASE Fault /\ Leave(p, "delFail") /\ UNCHANGED file
    BY <1>0, <1>2, MoveEffect, UnlockEffect, SpentEffect, MoveKeeps
    DEF Pcs, AfterPcs, rows, stores, requests
  <1> QED BY <1>1, <1>2 DEF DeleteFile

\* The transaction that removes the row comes after the chunks and the file.
LEMMA CompleteDeleteStep ==
  ASSUME IInv, NEW p \in Procs, CompleteDeleteTask(p) PROVE IInv'
  <1> USE DEF At, Leave, IndexPlaces, DeletePlaces, IndexPcs, DeletePcs, Late
  <1>0. /\ Typed /\ worker[p].pc = "delComplete" /\ worker[p].task \in DeleteTasks
        /\ UNCHANGED <<base, file, chunks, upload, removal, used>> /\ upload = "done"
    BY PlaceOf DEF IInv, CompleteDeleteTask, stores, requests
  <1>1. CASE doc # "deleting" /\ Leave(p, "delRequeue") /\ UNCHANGED <<doc, tasks>>
    BY <1>0, <1>1, MoveEffect, UnlockEffect, SpentEffect, MoveKeeps
    DEF Pcs, AfterPcs, rows, stores, requests
  <1>2. CASE Leave(p, "idle") /\ UNCHANGED <<doc, tasks>>
    BY <1>0, <1>2, MoveEffect, UnlockEffect, SpentEffect, MoveKeeps
    DEF Pcs, rows, stores, requests
  <1>3. CASE doc' = "gone" /\ SetTask(worker[p].task, "succeeded") /\ Leave(p, "idle")
    <2>1. Moved(p, "idle") /\ worker'[p].conflict = worker[p].conflict
      BY <1>0, <1>3, MoveEffect DEF Pcs
    <2>2. /\ tasks' \in [TaskIds -> TaskRow]
          /\ \A t \in TaskIds : tasks[t].status # "absent" => tasks'[t].status # "absent"
      <3>1. "succeeded" \in TaskStatuses
        BY DEF TaskStatuses
      <3> QED BY <1>0, <1>3, <3>1, TaskIdFacts, SetTaskEffect DEF Typed
    <2>3. lock' \in [Procs -> {"free", "worker", "removal"}]
      BY <1>0, <1>3, UnlockEffect
    <2> USE DEF Moved
    <2>4. Typed'
      BY <1>0, <1>3, <2>1, <2>2, <2>3 DEF Typed, DocStatuses
    <2>5. PlaceFitsTask'
      BY <1>0, <2>1, <2>2 DEF IInv, PlaceFitsTask, MyTask, Typed, Worker
    <2>6. UploadComesFirst' /\ DeleteIsMarked' /\ TombstoneHasTask'
      BY <1>0, <1>3 DEF UploadComesFirst, DeleteIsMarked, TombstoneHasTask
    <2>7. WorkIsKept'
      BY <1>3 DEF WorkIsKept, InUse
    <2>8. WorkIsCleared'
      BY <1>0, <2>1 DEF IInv, WorkIsCleared, Undisturbed, Cleared
    <2> QED BY <2>4, <2>5, <2>6, <2>7, <2>8 DEF IInv
  <1> QED BY <1>0, <1>1, <1>2, <1>3 DEF CompleteDeleteTask

\* A delete attempt that is wound up leaves its task pending or failed.
LEMMA RequeueDeleteStep ==
  ASSUME IInv, NEW p \in Procs, RequeueDeleteTask(p) \/ FailDeleteTask(p) PROVE IInv'
  <1> USE DEF At, IndexPlaces, DeletePlaces, IndexPcs, DeletePcs, Late
  <1>0. /\ Typed /\ worker[p].pc \in DeletePlaces \ Late /\ worker[p].task \in DeleteTasks
        /\ UNCHANGED <<base, file, chunks, lock, upload, removal, used>> /\ Return(p)
        /\ upload = "done" /\ doc \in {"deleting", "gone"}
    BY PlaceOf DEF IInv, RequeueDeleteTask, FailDeleteTask, stores, requests
  <1>1. \/ UNCHANGED <<doc, tasks>>
        \/ /\ doc = "deleting" /\ doc' = "deleting"
           /\ \E status \in {"pending", "failed"} : SetTask(worker[p].task, status)
    BY <1>0 DEF RequeueDeleteTask, FailDeleteTask
  <1>2. {"pending", "failed"} \subseteq TaskStatuses
    BY DEF TaskStatuses
  <1>3. /\ tasks' \in [TaskIds -> TaskRow] /\ doc' = doc
        /\ \A t \in TaskIds : tasks[t].status # "absent" => tasks'[t].status # "absent"
        /\ \/ UNCHANGED tasks
           \/ tasks'[worker[p].task].status \in {"pending", "failed"}
    BY <1>0, <1>1, <1>2, TaskIdFacts, SetTaskEffect DEF Typed
  <1>4. UploadComesFirst' /\ DeleteIsMarked' /\ TombstoneHasTask'
    BY <1>0, <1>3 DEF IInv, UploadComesFirst, DeleteIsMarked, TombstoneHasTask
  <1> QED BY <1>0, <1>3, <1>4, SpentEffect, ReturnKeeps DEF Typed

-----------------------------------------------------------------------------
(* The worker loop, the requests and the failures.                         *)

\* Only the task rows and the tombstone change, and no work is touched.
LEMMA RowsKeep ==
  ASSUME IInv, UNCHANGED <<base, file, chunks, lock, upload, removal>>,
         worker' \in [Procs -> Worker],
         \A q \in Procs : \/ worker'[q] = worker[q]
                          \/ /\ worker[q].pc = "idle" /\ worker'[q].pc = "lock"
                             /\ worker'[q].conflict = FALSE
                             /\ tasks[worker'[q].task].status # "absent",
         used' \in Used, Undisturbed' => Undisturbed, used'.baseFaults = used.baseFaults,
         tasks' \in [TaskIds -> TaskRow],
         \A t \in TaskIds : tasks[t].status # "absent" => tasks'[t].status # "absent",
         doc' \in DocStatuses, doc' = doc \/ doc' \in {"pending", "deleting"},
         doc \in {"deleting", "gone"} => doc' = doc,
         UploadComesFirst', DeleteIsMarked', TombstoneHasTask'
  PROVE  IInv'
  <1>1. Typed'
    BY DEF IInv, Typed
  <1>2. PlaceFitsTask'
    BY DEF IInv, PlaceFitsTask, MyTask, Typed, Worker, IndexPlaces, DeletePlaces,
           IndexPcs, DeletePcs
  <1>3. WorkIsKept'
    BY DEF IInv, WorkIsKept, InUse, At
  <1>4. WorkIsCleared'
    BY DEF IInv, WorkIsCleared, Cleared, At, Late
  <1> QED BY <1>1, <1>2, <1>3, <1>4 DEF IInv

\* A claim keeps the task alive as running.
LEMMA ClaimStep ==
  ASSUME IInv, NEW p \in Procs, NEW t \in TaskIds, ClaimTask(p, t) PROVE IInv'
  <1>0. /\ Typed /\ worker[p].pc = "idle" /\ tasks[t].status = "pending"
        /\ UNCHANGED <<base, doc, file, chunks, lock, upload, removal, used>>
    BY DEF IInv, ClaimTask, stores, requests, At
  <1>1. /\ worker' \in [Procs -> Worker]
        /\ worker'[p].pc = "lock" /\ worker'[p].task = t /\ worker'[p].conflict = FALSE
        /\ \A q \in Procs \ {p} : worker'[q] = worker[q]
    BY <1>0 DEF ClaimTask, Idle, Typed, Worker, Pcs, TaskRow
  <1>2. /\ tasks' \in [TaskIds -> TaskRow] /\ tasks'[t].status = "running"
        /\ \A u \in TaskIds \ {t} : tasks'[u] = tasks[u]
    BY <1>0 DEF ClaimTask, Typed, TaskRow, TaskStatuses
  <1>3. UploadComesFirst' /\ DeleteIsMarked' /\ TombstoneHasTask'
    BY <1>0, <1>2, TaskIdFacts DEF IInv, UploadComesFirst, DeleteIsMarked, TombstoneHasTask
  <1> QED BY <1>0, <1>1, <1>2, <1>3, RowsKeep DEF Typed, Undisturbed

\* Stale recovery cancels no delete task of a document marked deleting.
LEMMA RecoverStep ==
  ASSUME IInv, NEW p \in Procs, RecoverStaleTasks(p) PROVE IInv'
  <1>0. /\ Typed /\ UNCHANGED <<base, file, chunks, worker, lock, upload, removal, used>>
        /\ doc' \in DocStatuses /\ (doc' = doc \/ (doc = "indexing" /\ doc' = "pending"))
    BY DEF IInv, RecoverStaleTasks, stores, requests, Typed, DocStatuses
  <1>1. /\ tasks' \in [TaskIds -> TaskRow]
        /\ \A t \in TaskIds : \/ tasks'[t] = tasks[t]
                              \/ /\ tasks[t].status = "running"
                                 /\ tasks'[t].status = IF CanRetry(t) THEN "pending" ELSE "cancelled"
    BY <1>0 DEF RecoverStaleTasks, Stale, Typed, TaskRow, TaskStatuses
  <1>2. UploadComesFirst' /\ DeleteIsMarked' /\ TombstoneHasTask'
    <2>1. UploadComesFirst' /\ DeleteIsMarked'
      BY <1>0, <1>1, TaskIdFacts DEF IInv, UploadComesFirst, DeleteIsMarked
    <2>2. doc = "deleting" => \A t \in DeleteTasks : CanRetry(t)
      BY TaskIdFacts DEF CanRetry
    <2>3. TombstoneHasTask'
      BY <1>0, <1>1, <2>2, TaskIdFacts DEF IInv, TombstoneHasTask
    <2> QED BY <2>1, <2>3
  <1>3. \A t \in TaskIds : tasks[t].status # "absent" => tasks'[t].status # "absent"
    BY <1>1
  <1> QED BY <1>0, <1>1, <1>2, <1>3, RowsKeep DEF Typed, Undisturbed

\* A failed delete task belongs to a document that is still marked.
LEMMA RequeueFailedStep ==
  ASSUME IInv, NEW p \in Procs, NEW t \in TaskIds, RequeueFailedDeleteTask(p, t) PROVE IInv'
  <1>0. /\ Typed /\ UNCHANGED <<base, file, chunks, worker, lock, upload, removal, used>>
        /\ t \in DeleteTasks /\ doc = "deleting" /\ doc' = doc /\ SetTask(t, "pending")
    BY DEF IInv, RequeueFailedDeleteTask, Scanned, stores, requests, DeleteIsMarked
  <1>1. /\ tasks' \in [TaskIds -> TaskRow] /\ tasks'[t].status = "pending"
        /\ \A u \in TaskIds \ {t} : tasks'[u] = tasks[u]
    <2>1. "pending" \in TaskStatuses
      BY DEF TaskStatuses
    <2> QED BY <1>0, <2>1, SetTaskEffect
  <1>2. UploadComesFirst' /\ DeleteIsMarked' /\ TombstoneHasTask'
    BY <1>0, <1>1, TaskIdFacts DEF IInv, UploadComesFirst, DeleteIsMarked, TombstoneHasTask
  <1> QED BY <1>0, <1>1, <1>2, RowsKeep DEF Typed, Undisturbed

\* Marking the document and creating the delete task are one transaction.
LEMMA ScheduleDeleteStep ==
  ASSUME IInv, NEW p \in Procs, NEW t \in TaskIds, CreateDeleteDocumentTask(p, t) PROVE IInv'
  <1>0. /\ Typed /\ UNCHANGED <<base, file, chunks, worker, lock, upload, removal, used>>
        /\ t \in DeleteTasks /\ doc \notin {"absent", "gone"} /\ doc' = "deleting"
    BY DEF IInv, CreateDeleteDocumentTask, stores, requests
  <1>1. /\ tasks' \in [TaskIds -> TaskRow] /\ tasks'[t].status = "pending"
        /\ \A u \in TaskIds : tasks[u].status # "absent" => tasks'[u].status # "absent"
    BY <1>0, TaskIdFacts DEF CreateDeleteDocumentTask, Typed, TaskRow, TaskStatuses
  <1>2. UploadComesFirst' /\ DeleteIsMarked' /\ TombstoneHasTask'
    BY <1>0, <1>1, TaskIdFacts DEF IInv, UploadComesFirst, DeleteIsMarked, TombstoneHasTask
  <1> QED BY <1>0, <1>1, <1>2, RowsKeep DEF Typed, Undisturbed, DocStatuses

\* Growing old changes no status.
LEMMA AgingStep ==
  ASSUME IInv, NEW t \in TaskIds,
         TaskAges(t) \/ \E p \in Procs : AttemptIsSlow(p, t) \/ AttemptStalls(p, t)
  PROVE  IInv'
  <1>0. /\ Typed /\ UNCHANGED <<base, doc, file, chunks, worker, lock, upload, removal>>
        /\ Ages(t)
    BY DEF IInv, TaskAges, AttemptIsSlow, AttemptStalls, stores, requests
  <1>1. /\ tasks' \in [TaskIds -> TaskRow]
        /\ \A u \in TaskIds : tasks'[u].status = tasks[u].status
    BY <1>0 DEF Ages, Typed, TaskRow
  <1>2. used' \in Used /\ used'.baseFaults = used.baseFaults /\ (Undisturbed' => Undisturbed)
    BY <1>0 DEF TaskAges, AttemptIsSlow, AttemptStalls, Typed, Used, Undisturbed
  <1>3. UploadComesFirst' /\ DeleteIsMarked' /\ TombstoneHasTask'
    BY <1>0, <1>1, TaskIdFacts DEF IInv, UploadComesFirst, DeleteIsMarked, TombstoneHasTask
  <1> QED BY <1>0, <1>1, <1>2, <1>3, RowsKeep DEF Typed

\* A process that dies leaves the rows and the stores as they are.
LEMMA CrashStep ==
  ASSUME IInv, NEW p \in Procs, Crash(p) PROVE IInv'
  <1>0. /\ Typed /\ UNCHANGED <<base, doc, tasks, file, chunks, upload>>
        /\ Return(p) /\ Dies /\ Unlock(p) /\ RemovalGoto(p, "none")
    BY DEF IInv, Crash, rows, stores
  <1>1. /\ removal' \in [Procs -> RemovalPcs]
        /\ \A q \in Procs : removal'[q] = removal[q] \/ removal'[q] = "none"
    BY <1>0 DEF RemovalGoto, Typed, RemovalPcs
  <1>2. UploadComesFirst' /\ DeleteIsMarked' /\ TombstoneHasTask'
    BY <1>0 DEF IInv, UploadComesFirst, DeleteIsMarked, TombstoneHasTask
  <1>3. used' # used
    BY <1>0 DEF Dies, Typed, Used
  <1> QED BY <1>0, <1>1, <1>2, <1>3, UnlockEffect, SpentEffect, ReturnKeeps DEF Typed

\* The deletion of the base: it is neither in use nor undisturbed.
LEMMA RemovalKeeps ==
  ASSUME IInv, UNCHANGED <<worker, upload>>, ~InUse', ~Undisturbed',
         base' \in BaseStatuses, doc' \in DocStatuses, file' \in BOOLEAN,
         chunks' \in {"none", "some", "all"},
         lock' \in [Procs -> {"free", "worker", "removal"}],
         removal' \in [Procs -> RemovalPcs], used' \in Used,
         tasks' \in [TaskIds -> TaskRow],
         \A t \in TaskIds : tasks[t].status = "absent" <=> tasks'[t].status = "absent",
         \/ UNCHANGED <<doc, tasks>>
         \/ doc' = "absent" /\ doc = "absent"
         \/ doc' = "gone" /\ doc # "absent"
  PROVE  IInv'
  <1>1. Typed'
    BY DEF IInv, Typed
  <1>2. PlaceFitsTask'
    BY DEF IInv, PlaceFitsTask, MyTask, Typed, Worker
  <1>3. UploadComesFirst' /\ DeleteIsMarked' /\ TombstoneHasTask'
    BY TaskIdFacts DEF IInv, UploadComesFirst, DeleteIsMarked, TombstoneHasTask
  <1>4. WorkIsKept' /\ WorkIsCleared'
    BY DEF WorkIsKept, WorkIsCleared
  <1> QED BY <1>1, <1>2, <1>3, <1>4 DEF IInv

\* Marking the base ends both premises of the invariant at once.
LEMMA MarkBaseStep ==
  ASSUME IInv, NEW p \in Procs, MarkKnowledgeBaseDeleting(p) PROVE IInv'
  <1>0. /\ Typed /\ UNCHANGED <<doc, tasks, file, chunks, worker, lock, upload>>
        /\ base' = "deleting" /\ RemovalGoto(p, "list")
    BY DEF IInv, MarkKnowledgeBaseDeleting, stores
  <1>1. used' \in Used /\ used'.removals # 0
    BY <1>0 DEF MarkKnowledgeBaseDeleting, Typed, Used
  <1>2. removal' \in [Procs -> RemovalPcs]
    BY <1>0 DEF RemovalGoto, Typed, RemovalPcs
  <1> QED BY <1>0, <1>1, <1>2, RemovalKeeps DEF Typed, InUse, Undisturbed, BaseStatuses

\* A deletion of the base runs only after it marked the base; an error that
\* restores it is counted.
LEMMA RemovalSteps ==
  ASSUME IInv, NEW p \in Procs, RemovalStep(p) PROVE IInv'
  <1>0. Typed /\ UNCHANGED <<worker, upload>> /\ removal[p] # "none"
    BY DEF IInv, RemovalStep, ListDocuments, RemovalLock, RemoveChunks, RemoveFile, DropIndex,
           DeleteKnowledgeBaseRecords, Removing
  <1>1. ~InUse /\ ~Undisturbed
    BY <1>0 DEF IInv, WorkIsKept, WorkIsCleared
  <1>2. \/ UNCHANGED used /\ base' \in {base, "gone"}
        \/ RemovalFault /\ base' = "active"
    BY DEF RemovalStep, ListDocuments, RemovalLock, RemoveChunks, RemoveFile, DropIndex,
           DeleteKnowledgeBaseRecords, Restore, rows
  <1>3. used' \in Used /\ ~Undisturbed' /\ base' \in BaseStatuses
    BY <1>0, <1>1, <1>2 DEF Typed, Used, Undisturbed, RemovalFault, BaseStatuses
  <1>4. \E pc \in RemovalPcs : RemovalGoto(p, pc)
    BY DEF RemovalStep, ListDocuments, RemovalLock, RemoveChunks, RemoveFile, DropIndex,
           DeleteKnowledgeBaseRecords, Restore, RemovalPcs
  <1>5. removal' \in [Procs -> RemovalPcs]
    BY <1>0, <1>4 DEF RemovalGoto, Typed
  <1>6. lock' \in [Procs -> {"free", "worker", "removal"}]
    BY <1>0 DEF RemovalStep, ListDocuments, RemovalLock, RemoveChunks, RemoveFile, DropIndex,
                DeleteKnowledgeBaseRecords, Unlock, Typed
  <1>7. file' \in BOOLEAN /\ chunks' \in {"none", "some", "all"}
    BY <1>0 DEF RemovalStep, ListDocuments, RemovalLock, RemoveChunks, RemoveFile, DropIndex,
                DeleteKnowledgeBaseRecords, Typed, stores
  <1>8. \/ UNCHANGED <<doc, tasks>>
        \/ /\ tasks' = [t \in TaskIds |-> Erased(tasks[t])]
           /\ doc' = IF doc = "absent" THEN doc ELSE "gone"
           /\ base' = "gone"
    BY DEF RemovalStep, ListDocuments, RemovalLock, RemoveChunks, RemoveFile, DropIndex,
           DeleteKnowledgeBaseRecords, rows
  <1>9. /\ tasks' \in [TaskIds -> TaskRow]
        /\ \A t \in TaskIds : tasks[t].status = "absent" <=> tasks'[t].status = "absent"
    <2>1. \A row \in TaskRow : Erased(row) \in TaskRow
                               /\ (row.status = "absent" <=> Erased(row).status = "absent")
      BY DEF Erased, TaskRow, TaskStatuses
    <2> QED BY <1>0, <1>8, <2>1 DEF Typed
  <1>10. /\ doc' \in DocStatuses
         /\ \/ UNCHANGED <<doc, tasks>>
            \/ doc' = "absent" /\ doc = "absent"
            \/ doc' = "gone" /\ doc # "absent"
    BY <1>0, <1>8 DEF Typed, DocStatuses
  <1>11. ~InUse'
    BY <1>0, <1>1, <1>2, <1>8, SpendEffect DEF InUse
  <1> QED BY <1>0, <1>3, <1>5, <1>6, <1>7, <1>9, <1>10, <1>11, RemovalKeeps

\* Until the upload is done there is no task, and every worker is idle.
LEMMA UploadSteps ==
  ASSUME IInv, UploadCheck \/ UploadStep \/ UploadDies PROVE IInv'
  <1>0. /\ Typed /\ upload # "done" /\ doc = "absent" /\ tasks[IndexTask].status = "absent"
        /\ \A p \in Procs : worker[p].pc = "idle"
    BY PlaceOf DEF IInv, UploadComesFirst, UploadCheck, UploadStep, UploadDies, PersistUpload,
                   CreateDocumentAndTask, UploadFails
  <1>1. UNCHANGED <<base, chunks, worker, lock, removal>>
    BY DEF UploadCheck, UploadStep, UploadDies, PersistUpload, CreateDocumentAndTask, UploadFails,
           rows, stores
  <1>2. /\ file' \in BOOLEAN /\ upload' \in {"checked", "stored", "done"} /\ Spent
    <2>1. UNCHANGED used \/ Fault \/ Dies
      BY DEF UploadCheck, UploadStep, UploadDies, PersistUpload, CreateDocumentAndTask, UploadFails
    <2>2. file' \in BOOLEAN /\ upload' \in {"checked", "stored", "done"}
      BY <1>0 DEF UploadCheck, UploadStep, UploadDies, PersistUpload, CreateDocumentAndTask,
                  UploadFails, stores, Typed
    <2> QED BY <1>0, <2>1, <2>2, SpentEffect
  <1>3. \/ UNCHANGED <<doc, tasks>>
        \/ doc' = "pending" /\ SetTask(IndexTask, "pending") /\ upload' = "done"
    BY DEF UploadCheck, UploadStep, UploadDies, PersistUpload, CreateDocumentAndTask, UploadFails,
           rows
  <1>4. /\ tasks' \in [TaskIds -> TaskRow]
        /\ \A t \in DeleteTasks : tasks'[t] = tasks[t]
        /\ tasks' = tasks \/ upload' = "done"
    <2>1. "pending" \in TaskStatuses
      BY DEF TaskStatuses
    <2> QED BY <1>0, <1>3, <2>1, TaskIdFacts, SetTaskEffect DEF Typed
  <1>5. Typed'
    BY <1>0, <1>1, <1>2, <1>3, <1>4 DEF Typed, Spent, DocStatuses
  <1>6. PlaceFitsTask'
    BY <1>0, <1>1 DEF PlaceFitsTask, IndexPlaces, DeletePlaces, IndexPcs, DeletePcs
  <1>7. UploadComesFirst' /\ DeleteIsMarked' /\ TombstoneHasTask'
    BY <1>0, <1>2, <1>3, <1>4 DEF IInv, UploadComesFirst, DeleteIsMarked, TombstoneHasTask
  <1>8. WorkIsKept'
    BY <1>0, <1>1, <1>2, <1>3 DEF IInv, WorkIsKept, InUse, At, Spent
  <1>9. WorkIsCleared'
    BY <1>0, <1>1, <1>2, <1>3 DEF IInv, WorkIsCleared, Undisturbed, Cleared, At, Spent
  <1> QED BY <1>5, <1>6, <1>7, <1>8, <1>9 DEF IInv

-----------------------------------------------------------------------------
(* The theorems.                                                           *)

\* Before the upload there is nothing to keep and nothing to clear.
LEMMA InitInv == Init => IInv
  <1> SUFFICES ASSUME Init PROVE IInv
    OBVIOUS
  <1>1. Typed
    BY TaskIdFacts DEF Init, Typed, Used, NoTask, TaskRow, TaskStatuses, Idle, Worker, Pcs,
                       BaseStatuses, DocStatuses, RemovalPcs, IndexTask
  <1>2. PlaceFitsTask /\ UploadComesFirst /\ DeleteIsMarked /\ TombstoneHasTask
    BY TaskIdFacts DEF Init, PlaceFitsTask, UploadComesFirst, DeleteIsMarked, TombstoneHasTask,
                       NoTask, Idle, IndexPlaces, DeletePlaces, IndexPcs, DeletePcs
  <1>3. WorkIsKept /\ WorkIsCleared
    BY DEF Init, WorkIsKept, WorkIsCleared, Idle, At, InUse, Cleared
  <1> QED BY <1>1, <1>2, <1>3 DEF IInv

\* The invariant is inductive: one lemma per action, or per group of actions
\* that change the same state.
LEMMA NextInv == IInv /\ [Next]_vars => IInv'
  <1> SUFFICES ASSUME IInv, [Next]_vars PROVE IInv'
    OBVIOUS
  <1>1. ASSUME NEW p \in Procs, WorkerStep(p) PROVE IInv'
    BY <1>1, ReadingSteps, MarkStep, StoreStep, CompleteIndexStep, SupersededStep, CleanupStep,
       CancelStep, FailIndexStep, DeleteChunksStep, DeleteFileStep, CompleteDeleteStep,
       RequeueDeleteStep DEF WorkerStep
  <1>2. ASSUME NEW p \in Procs, Poll(p) PROVE IInv'
    BY <1>2, ClaimStep, RecoverStep, RequeueFailedStep DEF Poll
  <1>3. CASE LeftoverAppears \/ LeftoversErased \/ UNCHANGED vars
    <2>0. UNCHANGED <<base, doc, tasks, file, chunks, worker, lock, upload, removal, used>>
      BY <1>3 DEF LeftoverAppears, LeftoversErased, vars, rows, stores, requests
    <2>1. Typed' /\ PlaceFitsTask' /\ UploadComesFirst' /\ DeleteIsMarked' /\ TombstoneHasTask'
      BY <2>0 DEF IInv, Typed, PlaceFitsTask, MyTask, UploadComesFirst, DeleteIsMarked,
                  TombstoneHasTask
    <2>2. WorkIsKept' /\ WorkIsCleared'
      BY <2>0 DEF IInv, WorkIsKept, WorkIsCleared, InUse, Undisturbed, Cleared, At
    <2> QED BY <2>1, <2>2 DEF IInv
  <1> QED BY <1>1, <1>2, <1>3, CrashStep, ScheduleDeleteStep, MarkBaseStep, RemovalSteps,
             AgingStep, UploadSteps DEF Next

\* The invariant the theorems below are read off holds in every reachable state.
THEOREM KnowledgeInvariant == Spec => []IInv
  BY InitInv, NextInv, PTL DEF Spec

\* The rows, the stores, the workers and the leftovers keep their types.
THEOREM TypesAreKept == Spec => []TypeOK
  <1> DEFINE Few == leftovers \in 0..MaxLeftovers
  <1>0. MaxLeftovers \in Nat
    BY BoundsAssumption
  <1>1. Init => Few
    BY <1>0 DEF Init
  <1>2. Few /\ [Next]_vars => Few'
    <2> SUFFICES ASSUME Few, Next PROVE Few'
      BY DEF vars
    <2>1. CASE LeftoverAppears \/ LeftoversErased
      BY <1>0, <2>1 DEF LeftoverAppears, LeftoversErased
    <2>2. ASSUME NEW p \in Procs, WorkerStep(p) PROVE leftovers' = leftovers
      BY <2>2 DEF WorkerStep, TakeLock, ReadBase, ReadDocument, MarkDocumentIndexing, ReadSource,
         StoreChunks, CompleteIndexTask, Superseded, CleanupIndex, CancelIndexTask, FailIndexTask,
         DeleteRead, DeleteChunks, DeleteFile, CompleteDeleteTask, RequeueDeleteTask,
         FailDeleteTask
    <2>3. ASSUME NEW p \in Procs,
                 \/ Poll(p) \/ Crash(p) \/ MarkKnowledgeBaseDeleting(p) \/ RemovalStep(p)
                 \/ \E t \in TaskIds : CreateDeleteDocumentTask(p, t)
          PROVE  leftovers' = leftovers
      BY <2>3 DEF Poll, ClaimTask, RecoverStaleTasks, RequeueFailedDeleteTask, Crash,
         MarkKnowledgeBaseDeleting, RemovalStep, ListDocuments, RemovalLock, RemoveChunks,
         RemoveFile, DropIndex, DeleteKnowledgeBaseRecords, CreateDeleteDocumentTask
    <2>4. ASSUME NEW t \in TaskIds,
                 TaskAges(t) \/ \E p \in Procs : AttemptIsSlow(p, t) \/ AttemptStalls(p, t)
          PROVE  leftovers' = leftovers
      BY <2>4 DEF TaskAges, AttemptIsSlow, AttemptStalls
    <2>5. CASE UploadCheck \/ UploadStep \/ UploadDies
      BY <2>5 DEF UploadCheck, UploadStep, UploadDies, PersistUpload, CreateDocumentAndTask,
                  UploadFails
    <2> QED BY <2>1, <2>2, <2>3, <2>4, <2>5 DEF Next
  <1>3. IInv /\ Few => TypeOK
    BY DEF IInv, TypeOK
  <1> QED BY <1>1, <1>2, <1>3, KnowledgeInvariant, PTL DEF Spec

\* A document that is marked deleting always has a delete task left that will
\* take it away: no interleaving of attempts, stale recovery, requeueing and
\* repeated requests ends the last one before the document is gone.
THEOREM TombstoneKeepsTask == Spec => []TombstoneHasTask
  <1>1. IInv => TombstoneHasTask
    BY DEF IInv
  <1> QED BY <1>1, KnowledgeInvariant, PTL

\* A document that searches may return has all its chunks and its file,
\* however many superseded attempts are still running.
THEOREM ReadyStaysIndexed == Spec => []ReadyIsIndexed
  <1>1. IInv => ReadyIsIndexed
    BY DEF IInv, WorkIsKept, InUse, ReadyIsIndexed
  <1> QED BY <1>1, KnowledgeInvariant, PTL

\* A deletion that is over has left no chunk and no file behind, although index
\* attempts that overlapped it stored chunks again.
THEOREM DeletionIsComplete == Spec => []DeletedLeavesNothing
  <1>1. IInv => DeletedLeavesNothing
    BY DEF IInv, WorkIsCleared, Cleared, Late, DeletedLeavesNothing, Settled, At
  <1> QED BY <1>1, KnowledgeInvariant, PTL

\* Once a deletion is scheduled nothing brings the document back.
THEOREM DeletionStaysFinal == Spec => DeletionIsFinal
  <1> DEFINE Final == /\ doc = "deleting" => doc' \in {"deleting", "gone"}
                      /\ doc = "gone" => doc' = "gone"
  <1>1. IInv /\ [Next]_vars => [Final]_vars
    <2> SUFFICES ASSUME IInv, Next PROVE Final
      OBVIOUS
    <2>1. ASSUME NEW p \in Procs, WorkerStep(p) PROVE Final
      BY <2>1 DEF WorkerStep, TakeLock, ReadBase, ReadDocument, MarkDocumentIndexing, ReadSource,
         StoreChunks, CompleteIndexTask, Superseded, CleanupIndex, CancelIndexTask, FailIndexTask,
         DeleteRead, DeleteChunks, DeleteFile, CompleteDeleteTask, RequeueDeleteTask,
         FailDeleteTask, rows
    <2>2. ASSUME NEW p \in Procs, Poll(p) PROVE Final
      BY <2>2 DEF Poll, ClaimTask, RecoverStaleTasks, RequeueFailedDeleteTask
    <2>3. ASSUME NEW p \in Procs,
                 Crash(p) \/ MarkKnowledgeBaseDeleting(p) \/ RemovalStep(p)
                 \/ \E t \in TaskIds : CreateDeleteDocumentTask(p, t)
          PROVE  Final
      BY <2>3 DEF Crash, MarkKnowledgeBaseDeleting, RemovalStep, ListDocuments, RemovalLock,
         RemoveChunks, RemoveFile, DropIndex, DeleteKnowledgeBaseRecords,
         CreateDeleteDocumentTask, rows
    <2>4. ASSUME NEW t \in TaskIds,
                 TaskAges(t) \/ \E p \in Procs : AttemptIsSlow(p, t) \/ AttemptStalls(p, t)
          PROVE  Final
      BY <2>4 DEF TaskAges, AttemptIsSlow, AttemptStalls
    <2>5. CASE UploadCheck \/ UploadStep \/ UploadDies
      BY <2>5 DEF IInv, UploadComesFirst, UploadCheck, UploadStep, UploadDies, PersistUpload,
                  CreateDocumentAndTask, UploadFails, rows
    <2>6. CASE LeftoverAppears \/ LeftoversErased
      BY <2>6 DEF LeftoverAppears, LeftoversErased, rows
    <2> QED BY <2>1, <2>2, <2>3, <2>4, <2>5, <2>6 DEF Next
  <1> QED BY <1>1, KnowledgeInvariant, PTL DEF Spec, DeletionIsFinal
=============================================================================
