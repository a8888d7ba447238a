-------------------------- MODULE AgentProperties ---------------------------
(***************************************************************************)
(* What the Agent's durability promises.                                   *)
(***************************************************************************)
EXTENDS AgentRun

\* Every variable keeps its type.
TypeOK ==
  /\ task \in TaskRow
  /\ steps \in [StepIds -> StepRow]
  /\ run \in [Workers -> Run]
  /\ cancelling \in BOOLEAN
  /\ used \in Budgets
  /\ calls \in [ToolIds -> Nat]
  /\ retries \in [StepIds -> Nat]
  /\ approvedUnder \in [StepIds -> SUBSET Policy]

\* A tool that is not replay safe is called at most once, plus once for every
\* time the owner resumed its unknown outcome with retry_unknown, whatever
\* crashes, expired leases and failed statements happened in between
\* (dao/agent RecoverStaleTasks, ResumeOwnedTask; graph.go failInvokedTool).
NoUnaskedReplay == \A i \in ToolIds : calls[i] <= 1 + retries[i]

\* A call of a gated tool is under way only for a step that a human approved
\* under exactly the policy the run read (graph.go approvalNode, toolNode;
\* MarkPolicyReviewFenced withdraws the approval when the policy changes).
CallsAreApproved ==
  \A w \in Workers :
    At(w, "calling") /\ run[w].policy.requiresApproval =>
      run[w].policy \in approvedUnder[run[w].step]

\* The lease belongs to a running or planning task and to nothing else, so a
\* fenced write can only ever hit such a task (dao/agent ClaimTask,
\* activeLeaseFencedTaskQuery and every transition that clears lease_owner).
LeaseDiscipline ==
  /\ task.status \in LeasedStatuses <=> task.owner # NoWorker
  /\ task.owner # NoWorker <=> task.lease # "none"

\* An unknown outcome always has a human looking at it: the task is paused on
\* that very step, from which ResumeOwnedTask can continue, or it was
\* cancelled (dao/agent MarkExecutionUnknownFenced, recoverLockedTask).
UnknownNeedsHuman ==
  /\ \A i \in StepIds : steps[i].status = "execution_unknown" =>
       \/ task.status = "cancelled"
       \/ task.status = "requires_review" /\ task.current = i
  /\ task.status = "requires_review" =>
       task.current \in ToolIds /\ steps[task.current].status = "execution_unknown"

\* A task succeeds only with every planned tool step and the final step done
\* (graph.go nextRoute, finalizeNode).
SucceededIsComplete ==
  task.status = "succeeded" =>
    /\ steps[FinalId].status = "succeeded"
    /\ \A i \in ToolIds : steps[i].status \in {"absent", "succeeded"}

\* At most one step of the task is running, across all workers and restarts.
OneStepRuns == Cardinality(RunningSteps) <= 1

\* A failed task has a failed step under current_step_id, so the owner can
\* resume it (worker.go currentFailureStep; README: resume a failed task).
FailedIsResumable ==
  task.status = "failed" =>
    \E i \in StepIds : ResumeCandidate(i, FALSE)

\* Success, rejection and cancellation are final: no late write of a worker
\* changes a row afterwards, except that a run that read the token of a later
\* claim may still store its checkpoint (dao/agent CancelOwnedTask, the
\* run_version fence, setCheckpointFenced).
EndedIsFinal ==
  [][task.status \in {"succeeded", "rejected", "cancelled"} =>
       /\ UNCHANGED steps
       /\ task' = [task EXCEPT !.cursor = task'.cursor]]_vars

\* A step keeps the operation ID it was given before its first call, so every
\* retry carries the same idempotency key (graph.go toolNode).
OperationIdIsStable ==
  [][\A i \in StepIds : steps[i].operation # 0 =>
       steps'[i].operation = steps[i].operation]_vars

\* A completed tool step is never run, reset or replaced again, not even by a
\* run that re-plans or by one that lost its lease (graph.go planNode).
DoneStepsStayDone ==
  [][\A i \in ToolIds : steps[i].status = "succeeded" => steps'[i] = steps[i]]_vars

\* A task that is queued or being run comes to rest: it ends, or it waits for
\* its owner.  No crash, lost claim or expired lease leaves it running for
\* ever (worker.go pollPending: "leaves crashed tasks stuck in running").
TaskComesToRest ==
  task.status \in {"pending", "planning", "running"} ~>
    task.status \in {"waiting_approval", "requires_review", "succeeded", "failed",
                     "rejected", "cancelled"}

\* An approval takes effect: the approved step leaves that state, because it
\* is run, because it fails, or because the task is cancelled (graph.go
\* nextRoute, approvalNode; dao/agent UpdateOwnedStepDecision).
ApprovalTakesEffect ==
  \A i \in ToolIds : steps[i].status = "approved" ~> steps[i].status # "approved"

-----------------------------------------------------------------------------
PhaseOf(status) ==
  CASE status = "absent" -> "absent"
    [] status = "pending" -> "queued"
    [] status \in LeasedStatuses -> "held"
    [] status \in {"waiting_approval", "requires_review"} -> "parked"
    [] status = "failed" -> "failed"
    [] OTHER -> "ended"

Lifecycle == INSTANCE AgentLifecycle
  WITH phase <- PhaseOf(task.status), holder <- task.owner, token <- task.version

\* Workers, recovery and the owner's calls together implement the lifecycle
\* of AgentLifecycle: one holder at a time, a fresh run_version for each, and
\* no way out of an ended task.
ImplementsLifecycle == Lifecycle!LifecycleSpec
=============================================================================
