------------------------ MODULE KnowledgeProperties -------------------------
(***************************************************************************)
(* What the knowledge base promises about one document: a ready document   *)
(* is searchable, queued work is never lost, a deletion is never undone    *)
(* and comes to its end.                                                   *)
(***************************************************************************)
EXTENDS KnowledgeIndex

Used == [removals : Nat, crashes : Nat, slow : Nat, stalls : Nat, faults : Nat, baseFaults : Nat]

\* The rows, the stores and the workers keep their types, and the leftovers.
Typed ==
  /\ base \in BaseStatuses
  /\ doc \in DocStatuses
  /\ tasks \in [TaskIds -> TaskRow]
  /\ file \in BOOLEAN
  /\ chunks \in {"none", "some", "all"}
  /\ worker \in [Procs -> Worker]
  /\ lock \in [Procs -> {"free", "worker", "removal"}]
  /\ upload \in {"none", "checked", "stored", "done"}
  /\ removal \in [Procs -> RemovalPcs]
  /\ used \in Used
TypeOK == Typed /\ leftovers \in 0..MaxLeftovers

\* A document that filterReadyCandidates lets into a search has all its chunks
\* and its source file, whatever attempts of earlier claims still do; only a
\* Delete of the base that failed halfway and restored it breaks this.
ReadyIsIndexed ==
  used.baseFaults = 0 /\ base = "active" /\ doc = "ready" => chunks = "all" /\ file

\* A document shown as pending or indexing in an active base has an index task
\* that a worker or stale recovery will come back to.
PendingIsQueued ==
  base = "active" /\ doc \in {"pending", "indexing"}
    => tasks[IndexTask].status \in {"pending", "running"}

\* A document that is marked deleting has, until it is gone, a delete task that
\* is queued, running or waiting for its backoff.
TombstoneHasTask ==
  doc = "deleting"
    => \E t \in DeleteTasks : tasks[t].status \in {"pending", "running", "failed"}

\* No index attempt, recovery or retry brings a document back once its deletion
\* is scheduled: it stays deleting until it is gone, and then stays gone.
DeletionIsFinal ==
  [][/\ doc = "deleting" => doc' \in {"deleting", "gone"}
     /\ doc = "gone" => doc' = "gone"]_vars

\* When a deletion is over and nobody works on the document any more, neither
\* Redis nor the file system holds anything of it, even if slow index attempts
\* overlapped it (ProcessIndexTaskNow, the superseded branch); a clean-up that
\* itself fails or dies is not repeated.
Settled == /\ \A p \in Procs : At(p, "idle")
           /\ \A t \in TaskIds : tasks[t].status \notin {"pending", "running"}
Undisturbed == used.faults = 0 /\ used.crashes = 0 /\ used.removals = 0
DeletedLeavesNothing == Undisturbed /\ doc = "gone" /\ Settled => chunks = "none" /\ ~file

\* An uploaded document leaves the queue: it is searchable, has failed for good
\* or is being deleted.
IndexingSettles ==
  doc \in {"pending", "indexing"} ~> doc \in {"ready", "failed", "deleting", "gone"}

\* A scheduled deletion completes, though attempts fail, outlast staleTaskAge
\* or die with their process, if the tasks of vanished documents do not take up
\* the whole scan of requeueFailedDeleteTasks for good.
DeletionConverges == <>[](leftovers < ScanLimit) => (doc = "deleting" ~> doc = "gone")
=============================================================================
