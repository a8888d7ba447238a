--------------------------- MODULE KnowledgeIndex ---------------------------
(***************************************************************************)
(* One document of a knowledge base, from upload to deletion: its MySQL    *)
(* rows (dao/knowledgebase), its chunks in Redis (common/rag) and its      *)
(* source file, and the index workers and API calls that keep the three    *)
(* stores in step (service/knowledgebase).                                 *)
(*                                                                         *)
(* Every process runs one index worker.  A worker's statement, its Redis   *)
(* and its file operations are separate steps.  Task 0 indexes the         *)
(* document; the tasks 1..MaxDeletes delete it.                            *)
(***************************************************************************)
EXTENDS Integers, FiniteSets

CONSTANTS
  Procs,           \* server processes
  MaxDeletes,      \* bound on delete tasks
  MaxIndexAttempts,\* maxIndexAttempts: attempts that are retried at once
  ScanLimit,       \* failed delete tasks that one recovery looks at
  MaxClaims,       \* bound on the claims of one task
  MaxRemovals,     \* bound on Delete requests for the knowledge base
  MaxCrashes,      \* processes that die while they work
  MaxSlow,         \* attempts that outlast staleTaskAge in their work
  MaxStalls,       \* index attempts that outlast it before they mark the document
  MaxFaults,       \* Redis, file or embedding operations that fail
  MaxBaseFaults,   \* operations of a knowledge base deletion that fail
  MaxLeftovers     \* bound on the leftovers

ASSUME DeletesAssumption == MaxDeletes \in Nat
ASSUME AttemptsAssumption == MaxIndexAttempts \in Nat /\ MaxClaims \in Nat
ASSUME ScanAssumption == ScanLimit \in Nat \ {0}
ASSUME BoundsAssumption ==
  {MaxRemovals, MaxCrashes, MaxSlow, MaxStalls, MaxFaults, MaxBaseFaults, MaxLeftovers} \subseteq Nat

VARIABLES
  base,     \* status of the knowledge base
  doc,      \* status of the document row
  tasks,    \* the knowledge_index_tasks rows
  file,     \* the source file exists
  chunks,   \* the document's hashes in Redis
  worker,   \* per process: what its index worker is doing
  lock,     \* per process: who holds the document's in-process lock
  upload,   \* progress of the upload request
  removal,  \* per process: progress of the Delete request it serves
  used,     \* how much of each bound is spent
  leftovers \* failed delete tasks of other documents, that are gone, which
            \* precede this document's in the order of updated_at

rows == <<base, doc, tasks>>
stores == <<file, chunks>>
requests == <<upload, removal>>
vars == <<base, doc, tasks, file, chunks, worker, lock, upload, removal, used, leftovers>>

IndexTask == 0
DeleteTasks == 1..MaxDeletes
TaskIds == 0..MaxDeletes

BaseStatuses == {"active", "deleting", "gone"}
DocStatuses == {"absent", "pending", "indexing", "ready", "failed", "deleting", "gone"}
TaskStatuses == {"absent", "pending", "running", "succeeded", "failed", "cancelled", "gone"}

TaskRow == [status : TaskStatuses, attempts : Nat, stale : BOOLEAN]

NoTask == [status |-> "absent", attempts |-> 0, stale |-> FALSE]

IndexPcs == {"readBase", "readDoc", "mark", "read", "store", "complete"}
DeletePcs == {"delRead", "delChunks", "delFile", "delComplete"}
AfterPcs == {"superseded", "cleanup", "cancel", "fail", "delRequeue", "delFail"}
Pcs == {"idle", "lock"} \cup IndexPcs \cup DeletePcs \cup AfterPcs

\* final: the error is one that is not retried (record not found).
Worker == [pc : Pcs, task : TaskIds, attempt : Nat, final : BOOLEAN, conflict : BOOLEAN]

Idle == [pc |-> "idle", task |-> 0, attempt |-> 0, final |-> FALSE, conflict |-> FALSE]

RemovalPcs == {"none", "list", "lock", "chunks", "file", "drop", "records"}

Init ==
  /\ base = "active"
  /\ doc = "absent"
  /\ tasks = [t \in TaskIds |-> NoTask]
  /\ file = FALSE
  /\ chunks = "none"
  /\ worker = [p \in Procs |-> Idle]
  /\ lock = [p \in Procs |-> "free"]
  /\ upload = "none"
  /\ removal = [p \in Procs |-> "none"]
  /\ used = [removals |-> 0, crashes |-> 0, slow |-> 0, stalls |-> 0, faults |-> 0, baseFaults |-> 0]
  /\ leftovers = 0

-----------------------------------------------------------------------------
At(p, pc) == worker[p].pc = pc
Goto(p, pc) == worker' = [worker EXCEPT ![p].pc = pc]

\* The worker leaves withDocumentLock with an outcome, or returns.
Unlock(p) == lock' = [lock EXCEPT ![p] = "free"]
Leave(p, pc) == Goto(p, pc) /\ Unlock(p)
Return(p) == worker' = [worker EXCEPT ![p] = Idle]

\* The same, with an error that decides how the attempt is wound up.
LeaveFinal(p, pc) ==
  worker' = [worker EXCEPT ![p].pc = pc, ![p].final = TRUE] /\ Unlock(p)
LeaveConflict(p) ==
  worker' = [worker EXCEPT ![p].pc = "superseded", ![p].conflict = TRUE] /\ Unlock(p)

Fault == used.faults < MaxFaults /\ used' = [used EXCEPT !.faults = @ + 1]

MyTask(p) == tasks[worker[p].task]

\* WHERE id = ? AND status = running AND attempts = ?
Current(p) == MyTask(p).status = "running" /\ MyTask(p).attempts = worker[p].attempt

SetTask(t, status) == tasks' = [tasks EXCEPT ![t].status = status, ![t].stale = FALSE]

-----------------------------------------------------------------------------
(* UploadDocument: check the base, store the file, create the rows.        *)

UploadCheck ==
  /\ upload = "none" /\ base = "active"
  /\ upload' = "checked"
  /\ UNCHANGED <<rows, stores, worker, lock, removal, used, leftovers>>

PersistUpload ==
  /\ upload = "checked"
  /\ file' = TRUE
  /\ upload' = "stored"
  /\ UNCHANGED <<rows, chunks, worker, lock, removal, used, leftovers>>

CreateDocumentAndTask ==
  /\ upload = "stored"
  /\ doc' = "pending"
  /\ SetTask(IndexTask, "pending")
  /\ upload' = "done"
  /\ UNCHANGED <<base, stores, worker, lock, removal, used, leftovers>>

UploadFails ==
  /\ upload = "stored"
  /\ Fault
  /\ file' = FALSE
  /\ upload' = "done"
  /\ UNCHANGED <<rows, chunks, worker, lock, removal, leftovers>>

-----------------------------------------------------------------------------
(* The worker: claim a task, then run it under the document lock.          *)

ClaimTask(p, t) ==
  /\ At(p, "idle")
  /\ tasks[t].status = "pending" /\ tasks[t].attempts < MaxClaims
  /\ tasks' = [tasks EXCEPT ![t].status = "running", ![t].attempts = @ + 1]
  /\ worker' = [worker EXCEPT ![p] = [Idle EXCEPT !.pc = "lock", !.task = t,
                                                  !.attempt = tasks[t].attempts + 1]]
  /\ UNCHANGED <<base, doc, stores, lock, requests, used, leftovers>>

TakeLock(p) ==
  /\ At(p, "lock")
  /\ lock[p] = "free"
  /\ lock' = [lock EXCEPT ![p] = "worker"]
  /\ Goto(p, IF worker[p].task = IndexTask THEN "readBase" ELSE "delRead")
  /\ UNCHANGED <<rows, stores, requests, used, leftovers>>

ReadBase(p) ==
  /\ At(p, "readBase")
  /\ CASE base = "gone" -> LeaveFinal(p, "fail")
       [] base = "deleting" -> LeaveConflict(p)
       [] OTHER -> Goto(p, "readDoc") /\ UNCHANGED lock
  /\ UNCHANGED <<rows, stores, requests, used, leftovers>>

ReadDocument(p) ==
  /\ At(p, "readDoc")
  /\ CASE doc = "gone" -> LeaveFinal(p, "fail")
       [] doc = "deleting" -> LeaveConflict(p)
       [] OTHER -> Goto(p, "mark") /\ UNCHANGED lock
  /\ UNCHANGED <<rows, stores, requests, used, leftovers>>

\* Mutant: the update of the document has no status condition.
MarkDocumentIndexingUnfenced(p) ==
  /\ At(p, "mark")
  /\ doc' = IF doc = "gone" THEN doc ELSE "indexing"
  /\ IF doc = "gone" THEN Leave(p, "superseded") ELSE Goto(p, "read") /\ UNCHANGED lock
  /\ UNCHANGED <<base, tasks, stores, requests, used, leftovers>>

MarkDocumentIndexing(p) ==
  /\ At(p, "mark")
  /\ \/ doc = "pending" /\ doc' = "indexing" /\ Goto(p, "read") /\ UNCHANGED lock
     \/ doc # "pending" /\ Leave(p, "superseded") /\ UNCHANGED doc
  /\ UNCHANGED <<base, tasks, stores, requests, used, leftovers>>

\* IndexFile reads the file, embeds its chunks and stores them.
ReadSource(p) ==
  /\ At(p, "read")
  /\ \/ file /\ Goto(p, "store") /\ UNCHANGED <<lock, used>>
     \/ ~file /\ Leave(p, "fail") /\ UNCHANGED used
     \/ Fault /\ Leave(p, "fail")
  /\ UNCHANGED <<rows, stores, requests, leftovers>>

StoreChunks(p) ==
  /\ At(p, "store")
  /\ \/ chunks' = "all" /\ Goto(p, "complete") /\ UNCHANGED <<lock, used>>
     \/ /\ Fault
        /\ chunks' \in {chunks, IF chunks = "all" THEN "all" ELSE "some"}
        /\ Leave(p, "fail")
  /\ UNCHANGED <<rows, file, requests, leftovers>>

CompleteIndexTask(p) ==
  /\ At(p, "complete")
  /\ IF doc = "indexing" /\ Current(p)
     THEN doc' = "ready" /\ SetTask(worker[p].task, "succeeded") /\ Leave(p, "idle")
     ELSE Leave(p, "superseded") /\ UNCHANGED <<doc, tasks>>
  /\ UNCHANGED <<base, stores, requests, used, leftovers>>

\* Mutant: every attempt that lost the race removes the chunks.
SupersededCleansUp(p) ==
  /\ At(p, "superseded")
  /\ Goto(p, "cleanup")
  /\ UNCHANGED <<rows, stores, lock, requests, used, leftovers>>

\* Mutant: only an attempt that met the deletion before it started cleans up.
SupersededKeepsChunks(p) ==
  /\ At(p, "superseded")
  /\ Goto(p, IF worker[p].conflict THEN "cleanup" ELSE "cancel")
  /\ UNCHANGED <<rows, stores, lock, requests, used, leftovers>>

\* A delete or a newer attempt won: only a deletion lets this attempt remove
\* the chunks.
Superseded(p) ==
  /\ At(p, "superseded")
  /\ Goto(p, IF worker[p].conflict \/ doc \in {"deleting", "gone"}
             THEN "cleanup" ELSE "cancel")
  /\ UNCHANGED <<rows, stores, lock, requests, used, leftovers>>

CleanupIndex(p) ==
  /\ At(p, "cleanup")
  /\ \/ chunks' = "none" /\ Goto(p, "cancel") /\ UNCHANGED used
     \/ Fault /\ Return(p) /\ UNCHANGED chunks
  /\ UNCHANGED <<rows, file, lock, requests, leftovers>>

CancelIndexTask(p) ==
  /\ At(p, "cancel")
  /\ IF Current(p) THEN SetTask(worker[p].task, "cancelled") ELSE UNCHANGED tasks
  /\ Return(p)
  /\ UNCHANGED <<base, doc, stores, lock, requests, used, leftovers>>

Retry(p) == worker[p].attempt < MaxIndexAttempts /\ ~worker[p].final

FailIndexTask(p) ==
  /\ At(p, "fail")
  /\ IF doc = "indexing" /\ Current(p)
     THEN /\ doc' = IF Retry(p) THEN "pending" ELSE "failed"
          /\ SetTask(worker[p].task, IF Retry(p) THEN "pending" ELSE "failed")
     ELSE UNCHANGED <<doc, tasks>>
  /\ Return(p)
  /\ UNCHANGED <<base, stores, lock, requests, used, leftovers>>

-----------------------------------------------------------------------------
(* A delete task.                                                          *)

DeleteRead(p) ==
  /\ At(p, "delRead")
  /\ IF doc = "gone" THEN LeaveFinal(p, "delFail")
                     ELSE Goto(p, "delChunks") /\ UNCHANGED lock
  /\ UNCHANGED <<rows, stores, requests, used, leftovers>>

DeleteChunks(p) ==
  /\ At(p, "delChunks")
  /\ \/ chunks' = "none" /\ Goto(p, "delFile") /\ UNCHANGED <<lock, used>>
     \/ Fault /\ Leave(p, "delFail") /\ UNCHANGED chunks
  /\ UNCHANGED <<rows, file, requests, leftovers>>

DeleteFile(p) ==
  /\ At(p, "delFile")
  /\ \/ file' = FALSE /\ Goto(p, "delComplete") /\ UNCHANGED <<lock, used>>
     \/ Fault /\ Leave(p, "delFail") /\ UNCHANGED file
  /\ UNCHANGED <<rows, chunks, requests, leftovers>>

\* The transaction looks at the document first, then at the attempt.
CompleteDeleteTask(p) ==
  /\ At(p, "delComplete")
  /\ CASE doc # "deleting" -> Leave(p, "delRequeue") /\ UNCHANGED <<doc, tasks>>
       [] doc = "deleting" /\ Current(p) ->
            doc' = "gone" /\ SetTask(worker[p].task, "succeeded") /\ Leave(p, "idle")
       [] OTHER -> Leave(p, "idle") /\ UNCHANGED <<doc, tasks>>
  /\ UNCHANGED <<base, stores, requests, used, leftovers>>

\* Reasserts the tombstone; a document that is gone ends in an error and the
\* task stays running until stale recovery.
RequeueDeleteTask(p) ==
  /\ At(p, "delRequeue")
  /\ IF Current(p) /\ doc # "gone"
     THEN doc' = "deleting" /\ SetTask(worker[p].task, "pending")
     ELSE UNCHANGED <<doc, tasks>>
  /\ Return(p)
  /\ UNCHANGED <<base, stores, lock, requests, used, leftovers>>

FailDeleteTask(p) ==
  /\ At(p, "delFail")
  /\ IF doc = "deleting" /\ Current(p)
     THEN SetTask(worker[p].task, IF Retry(p) THEN "pending" ELSE "failed")
     ELSE UNCHANGED tasks
  /\ Return(p)
  /\ UNCHANGED <<base, doc, stores, lock, requests, used, leftovers>>

-----------------------------------------------------------------------------
(* The recovery ticker of the worker loop.                                 *)

Stale == {t \in TaskIds : tasks[t].status = "running" /\ tasks[t].stale}

\* Mutant: a delete task is retried under the conditions of an index task.
CanRetryIndexing(t) == doc \in {"pending", "indexing"}

CanRetry(t) == IF t = IndexTask THEN doc \in {"pending", "indexing"} ELSE doc = "deleting"

\* Mutant: the document is not put back to pending.
RecoverStaleTasksOnly(p) ==
  /\ At(p, "idle")
  /\ Stale # {}
  /\ tasks' = [t \in TaskIds |->
                 IF t \notin Stale THEN tasks[t]
                 ELSE [tasks[t] EXCEPT !.stale = FALSE,
                         !.status = IF CanRetry(t) THEN "pending" ELSE "cancelled"]]
  /\ UNCHANGED <<base, doc, stores, worker, lock, requests, used, leftovers>>

RecoverStaleTasks(p) ==
  /\ At(p, "idle")
  /\ Stale # {}
  /\ tasks' = [t \in TaskIds |->
                 IF t \notin Stale THEN tasks[t]
                 ELSE [tasks[t] EXCEPT !.stale = FALSE,
                         !.status = IF CanRetry(t) THEN "pending" ELSE "cancelled"]]
  /\ doc' = IF IndexTask \in Stale /\ doc = "indexing" THEN "pending" ELSE doc
  /\ UNCHANGED <<base, stores, worker, lock, requests, used, leftovers>>

\* ListFailedDeleteTasks returns the ScanLimit failed delete tasks that were
\* updated first.  Those of documents that are gone are skipped as they are, so
\* they stay first; those of other documents go behind once they are requeued.
Scanned(t) == t \in DeleteTasks /\ tasks[t].status = "failed" /\ leftovers < ScanLimit

\* Mutant: a delete that has used up its attempts is not requeued.
RequeueWithinAttempts(p, t) ==
  /\ At(p, "idle")
  /\ Scanned(t) /\ doc # "gone"
  /\ tasks[t].attempts < MaxIndexAttempts
  /\ doc' = "deleting"
  /\ SetTask(t, "pending")
  /\ UNCHANGED <<base, stores, worker, lock, requests, used, leftovers>>

\* requeueFailedDeleteTasks, once the backoff of the task has passed.
RequeueFailedDeleteTask(p, t) ==
  /\ At(p, "idle")
  /\ Scanned(t) /\ doc # "gone"
  /\ doc' = "deleting"
  /\ SetTask(t, "pending")
  /\ UNCHANGED <<base, stores, worker, lock, requests, used, leftovers>>

\* Another document is gone though one of its delete tasks is still failed: a
\* second Delete of its user was done during the backoff of the first.
LeftoverAppears ==
  /\ leftovers < MaxLeftovers
  /\ leftovers' = leftovers + 1
  /\ UNCHANGED <<rows, stores, worker, lock, requests, used>>

\* The knowledge base of some of these documents is deleted with its tasks.
LeftoversErased ==
  /\ leftovers' \in 0..(leftovers - 1)
  /\ UNCHANGED <<rows, stores, worker, lock, requests, used>>

-----------------------------------------------------------------------------
(* ScheduleDeleteDocument, served by process p.                            *)

ActiveDelete == \E t \in DeleteTasks : tasks[t].status \in {"pending", "running"}

CreateDeleteDocumentTask(p, t) ==
  /\ lock[p] = "free"
  /\ base # "gone" /\ doc \notin {"absent", "gone"}
  /\ ~ActiveDelete
  /\ t \in DeleteTasks /\ tasks[t].status = "absent"
  /\ \A u \in DeleteTasks : u < t => tasks[u].status # "absent"
  /\ doc' = "deleting"
  /\ tasks' = [tasks EXCEPT ![t].status = "pending",
                            ![IndexTask].status = IF @ = "pending" THEN "failed" ELSE @]
  /\ UNCHANGED <<base, stores, worker, lock, requests, used, leftovers>>

-----------------------------------------------------------------------------
(* Delete of the whole knowledge base, served by process p.                *)

RemovalFault == used.baseFaults < MaxBaseFaults
                /\ used' = [used EXCEPT !.baseFaults = @ + 1]

Removing(p, pc) == removal[p] = pc
RemovalGoto(p, pc) == removal' = [removal EXCEPT ![p] = pc]

\* RestoreKnowledgeBaseActive after an error; the request ends.
Restore(p) == base' = "active" /\ RemovalGoto(p, "none")

MarkKnowledgeBaseDeleting(p) ==
  /\ Removing(p, "none") /\ base = "active"
  /\ used.removals < MaxRemovals
  /\ used' = [used EXCEPT !.removals = @ + 1]
  /\ base' = "deleting"
  /\ RemovalGoto(p, "list")
  /\ UNCHANGED <<doc, tasks, stores, worker, lock, upload, leftovers>>

ListDocuments(p) ==
  /\ Removing(p, "list")
  /\ \/ /\ RemovalGoto(p, IF doc \in {"absent", "gone"} THEN "drop" ELSE "lock")
        /\ UNCHANGED <<base, used>>
     \/ RemovalFault /\ Restore(p)
  /\ UNCHANGED <<doc, tasks, stores, worker, lock, upload, leftovers>>

RemovalLock(p) ==
  /\ Removing(p, "lock") /\ lock[p] = "free"
  /\ lock' = [lock EXCEPT ![p] = "removal"]
  /\ RemovalGoto(p, "chunks")
  /\ UNCHANGED <<rows, stores, worker, upload, used, leftovers>>

RemoveChunks(p) ==
  /\ Removing(p, "chunks")
  /\ \/ chunks' = "none" /\ RemovalGoto(p, "file") /\ UNCHANGED <<base, lock, used>>
     \/ RemovalFault /\ Restore(p) /\ Unlock(p) /\ UNCHANGED chunks
  /\ UNCHANGED <<doc, tasks, file, worker, upload, leftovers>>

RemoveFile(p) ==
  /\ Removing(p, "file")
  /\ Unlock(p)
  /\ \/ file' = FALSE /\ RemovalGoto(p, "drop") /\ UNCHANGED <<base, used>>
     \/ RemovalFault /\ Restore(p) /\ UNCHANGED file
  /\ UNCHANGED <<doc, tasks, chunks, worker, upload, leftovers>>

\* FT.DROPINDEX ... DD removes every hash of the base.
DropIndex(p) ==
  /\ Removing(p, "drop")
  /\ \/ chunks' = "none" /\ RemovalGoto(p, "records") /\ UNCHANGED <<base, used>>
     \/ RemovalFault /\ Restore(p) /\ UNCHANGED chunks
  /\ UNCHANGED <<doc, tasks, file, worker, lock, upload, leftovers>>

Erased(row) == IF row.status = "absent" THEN row
               ELSE [row EXCEPT !.status = "gone", !.stale = FALSE]

DeleteKnowledgeBaseRecords(p) ==
  /\ Removing(p, "records")
  /\ \/ /\ base' = "gone"
        /\ doc' = IF doc = "absent" THEN doc ELSE "gone"
        /\ tasks' = [t \in TaskIds |-> Erased(tasks[t])]
        /\ RemovalGoto(p, "none")
        /\ UNCHANGED used
     \/ RemovalFault /\ Restore(p) /\ UNCHANGED <<doc, tasks>>
  /\ UNCHANGED <<stores, worker, lock, upload, leftovers>>

-----------------------------------------------------------------------------
(* Failures.                                                               *)

\* A running attempt gets older than staleTaskAge: certainly once nobody works
\* on it any more; but there is no heartbeat, so a slow attempt does as well.
WorkingOn(p, t) == ~At(p, "idle") /\ worker[p].task = t /\ Current(p)
Attended(t) == \E p \in Procs : WorkingOn(p, t)
BeforeMark == {"lock", "readBase", "readDoc", "mark"}

Ages(t) == /\ tasks[t].status = "running" /\ ~tasks[t].stale
           /\ tasks' = [tasks EXCEPT ![t].stale = TRUE]

TaskAges(t) ==
  /\ ~Attended(t)
  /\ Ages(t)
  /\ UNCHANGED <<base, doc, stores, worker, lock, requests, used, leftovers>>

AttemptIsSlow(p, t) ==
  /\ WorkingOn(p, t) /\ worker[p].pc \notin BeforeMark
  /\ used.slow < MaxSlow
  /\ used' = [used EXCEPT !.slow = @ + 1]
  /\ Ages(t)
  /\ UNCHANGED <<base, doc, stores, worker, lock, requests, leftovers>>

\* For example while it waits for the document lock.
AttemptStalls(p, t) ==
  /\ WorkingOn(p, t) /\ worker[p].pc \in BeforeMark
  /\ used.stalls < MaxStalls
  /\ used' = [used EXCEPT !.stalls = @ + 1]
  /\ Ages(t)
  /\ UNCHANGED <<base, doc, stores, worker, lock, requests, leftovers>>

Dies == used.crashes < MaxCrashes /\ used' = [used EXCEPT !.crashes = @ + 1]

\* The process dies with its worker, its lock and the Delete it serves.
Crash(p) ==
  /\ ~At(p, "idle") \/ ~Removing(p, "none")
  /\ Dies
  /\ Return(p)
  /\ Unlock(p)
  /\ RemovalGoto(p, "none")
  /\ UNCHANGED <<rows, stores, upload, leftovers>>

\* The process that serves the upload dies.
UploadDies ==
  /\ upload \in {"checked", "stored"}
  /\ Dies
  /\ upload' = "done"
  /\ UNCHANGED <<rows, stores, worker, lock, removal, leftovers>>

-----------------------------------------------------------------------------
WorkerStep(p) ==
  \/ TakeLock(p) \/ ReadBase(p) \/ ReadDocument(p) \/ MarkDocumentIndexing(p)
  \/ ReadSource(p) \/ StoreChunks(p) \/ CompleteIndexTask(p)
  \/ Superseded(p) \/ CleanupIndex(p) \/ CancelIndexTask(p) \/ FailIndexTask(p)
  \/ DeleteRead(p) \/ DeleteChunks(p) \/ DeleteFile(p) \/ CompleteDeleteTask(p)
  \/ RequeueDeleteTask(p) \/ FailDeleteTask(p)

Poll(p) == RecoverStaleTasks(p) \/ \E t \in TaskIds : ClaimTask(p, t) \/ RequeueFailedDeleteTask(p, t)

UploadStep == PersistUpload \/ CreateDocumentAndTask \/ UploadFails

RemovalStep(p) == ListDocuments(p) \/ RemovalLock(p) \/ RemoveChunks(p) \/ RemoveFile(p)
                  \/ DropIndex(p) \/ DeleteKnowledgeBaseRecords(p)

Next ==
  \/ \E p \in Procs : \/ WorkerStep(p) \/ Poll(p) \/ Crash(p)
                      \/ \E t \in TaskIds : CreateDeleteDocumentTask(p, t)
                      \/ MarkKnowledgeBaseDeleting(p) \/ RemovalStep(p)
  \/ \E t \in TaskIds : \/ TaskAges(t)
                         \/ \E p \in Procs : AttemptIsSlow(p, t) \/ AttemptStalls(p, t)
  \/ UploadCheck \/ UploadStep \/ UploadDies
  \/ LeftoverAppears \/ LeftoversErased

Spec == Init /\ [][Next]_vars

\* A worker goes on with its task and polls again (two processes may compete
\* for the lock and for a task, hence the strong fairness of TakeLock), a
\* request that has started goes on, and time passes.
Fairness ==
  /\ \A p \in Procs : WF_vars(WorkerStep(p)) /\ WF_vars(Poll(p)) /\ WF_vars(RemovalStep(p))
  /\ \A p \in Procs : SF_vars(TakeLock(p)) /\ SF_vars(RemovalLock(p))
  /\ \A t \in TaskIds : WF_vars(TaskAges(t))
  /\ WF_vars(UploadStep)

FairSpec == Spec /\ Fairness
=============================================================================
