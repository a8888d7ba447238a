----------------------------- MODULE AgentStore -----------------------------
(***************************************************************************)
(* The durable state of one Agent task: its agent_tasks row and its        *)
(* agent_steps rows, and the transactions of dao/agent that change them.   *)
(*                                                                         *)
(* Every operator below is one MySQL transaction (or one conditional       *)
(* UPDATE), so it is one atomic step.  A fenced transaction is split into  *)
(* its predicate (the WHERE clause; zero affected rows is ErrConflict) and *)
(* its effect, because the worker of AgentRun also reacts to the failure.  *)
(***************************************************************************)
EXTENDS Integers, FiniteSets

CONSTANTS
  Workers,    \* worker IDs, one per process (WorkerOptions.ID)
  NoWorker,   \* lease_owner = ""
  MaxTools,   \* bound on tool steps of a plan (maxPlanToolSteps in the code)
  Policies    \* MCP safety policies that tool definitions may carry

Policy == [requiresApproval : BOOLEAN, readOnly : BOOLEAN,
           idempotent : BOOLEAN, destructive : BOOLEAN]

ASSUME WorkersAssumption == NoWorker \notin Workers
ASSUME MaxToolsAssumption == MaxTools \in Nat
ASSUME PoliciesAssumption == Policies \subseteq Policy

VARIABLES
  task,   \* the agent_tasks row
  steps   \* the agent_steps rows, by sequence number

storeVars == <<task, steps>>

-----------------------------------------------------------------------------
(* Rows.  A step is named by its sequence number: 0 is the planning step,  *)
(* the tool steps follow, and the final step comes after every tool step.  *)

PlanId == 0
ToolIds == 1..MaxTools
FinalId == MaxTools + 1
StepIds == 0..FinalId
NoStep == MaxTools + 2          \* current_step_id = ""

TaskStatuses ==
  {"absent", "pending", "planning", "running", "waiting_approval",
   "requires_review", "succeeded", "failed", "rejected", "cancelled"}

StepStatuses ==
  {"absent", "pending", "running", "waiting_approval", "approved", "rejected",
   "succeeded", "failed", "execution_unknown", "skipped"}

\* Where an Eino checkpoint resumes: after the plan or tool node ("dispatch"),
\* or by re-running the interrupted approval gate ("gate").
Cursors == {"none", "dispatch", "gate"}

TaskRow == [status : TaskStatuses, current : 0..NoStep, cursor : Cursors,
            version : Nat, owner : Workers \cup {NoWorker},
            lease : {"none", "live", "expired"}]

StepRow == [status : StepStatuses, decision : {"pending", "approved", "rejected"},
            policy : Policy, operation : Nat]

PlainPolicy == [requiresApproval |-> FALSE, readOnly |-> FALSE,
                idempotent |-> FALSE, destructive |-> FALSE]

NewStep(status, policy) ==
  [status |-> status, decision |-> "pending", policy |-> policy, operation |-> 0]

NoRow == NewStep("absent", PlainPolicy)

StoreInit ==
  /\ task = [status |-> "absent", current |-> NoStep, cursor |-> "none",
             version |-> 0, owner |-> NoWorker, lease |-> "none"]
  /\ steps = [i \in StepIds |-> NoRow]

Present(i) == steps[i].status # "absent"
\* Mutant: an approved step counts as done.
StepFinishedOnApproval(s) == s \in {"succeeded", "rejected", "skipped", "approved"}

StepFinished(s) == s \in {"succeeded", "rejected", "skipped"}
PlanAlreadySaved == \E i \in StepIds \ {PlanId} : Present(i)

\* toolReplaySafe: the tool may be called again without asking anybody.
ReplaySafe(p) == ~p.destructive /\ (p.readOnly \/ p.idempotent)

\* stepCanReplayAfterCrash: the planner and the finalizer have no side effect.
StepCanReplayAfterCrash(i) ==
  i \in {PlanId, FinalId} \/ ReplaySafe(steps[i].policy)

-----------------------------------------------------------------------------
(* Creation and claiming.                                                  *)

CreateTaskWithInitialStep ==
  /\ task.status = "absent"
  /\ task' = [task EXCEPT !.status = "pending", !.current = PlanId]
  /\ steps' = [steps EXCEPT ![PlanId] = NewStep("pending", PlainPolicy)]

\* Mutant: a claim keeps the token of the previous run.
ClaimTaskUnfenced(w) ==
  /\ task.status = "pending"
  /\ task' = [task EXCEPT !.status = "running", !.owner = w, !.lease = "live"]
  /\ UNCHANGED steps

\* ClaimTask: one conditional UPDATE; run_version becomes the fencing token.
ClaimTask(w) ==
  /\ task.status = "pending"
  /\ task' = [task EXCEPT !.status = "running", !.version = @ + 1,
                          !.owner = w, !.lease = "live"]
  /\ UNCHANGED steps

\* The release every hand-over of the task performs on its row.
Released(row) == [row EXCEPT !.owner = NoWorker, !.lease = "none"]

\* activeLeaseFencedTaskQuery: the token's run_version, its worker as the
\* lease owner, and a lease that has not run out.
ActiveLease(w, v) ==
  /\ task.version = v
  /\ task.owner = w
  /\ task.lease = "live"

\* leaseRenewableTaskStatuses and staleRecoverableTaskStatuses.
LeasedStatuses == {"running", "planning"}

RenewLeaseFencedOk(w, v) == ActiveLease(w, v) /\ task.status \in LeasedStatuses

-----------------------------------------------------------------------------
(* Writes of the worker that runs the graph.                               *)

UpdateTaskFenced(row) == task' = row /\ UNCHANGED steps

UpdateStepFenced(i, row) == steps' = [steps EXCEPT ![i] = row] /\ UNCHANGED task

SavePlanOk(w, v) == ActiveLease(w, v) /\ task.status \in LeasedStatuses

\* Mutant: the planning step is left running.
SavePlanOnly(plan) ==
  LET tools == DOMAIN plan
  IN /\ steps' = [i \in StepIds |->
                    IF i = PlanId THEN steps[i]
                    ELSE IF i = FinalId THEN NewStep("pending", PlainPolicy)
                    ELSE IF i \in tools THEN NewStep("pending", plan[i])
                    ELSE NoRow]
     /\ task' = [task EXCEPT !.status = "running",
                             !.current = IF tools = {} THEN FinalId ELSE 1]

\* Replaces every row after the planning step, completes the planning step
\* and points the task at the first new row.
SavePlan(plan) ==
  LET tools == DOMAIN plan
  IN /\ steps' = [i \in StepIds |->
                    IF i = PlanId THEN [steps[i] EXCEPT !.status = "succeeded"]
                    ELSE IF i = FinalId THEN NewStep("pending", PlainPolicy)
                    ELSE IF i \in tools THEN NewStep("pending", plan[i])
                    ELSE NoRow]
     /\ task' = [task EXCEPT !.status = "running",
                             !.current = IF tools = {} THEN FinalId ELSE 1]

MarkReviewOk(w, v, i) ==
  /\ ActiveLease(w, v)
  /\ task.status = "running"
  /\ i \in ToolIds
  /\ steps[i].status = "running"

PausedForReview(i) ==
  Released([task EXCEPT !.status = "requires_review", !.current = i,
                        !.version = @ + 1])

MarkExecutionUnknownFenced(i) ==
  /\ steps' = [steps EXCEPT ![i].status = "execution_unknown"]
  /\ task' = PausedForReview(i)

\* Mutant: the old approval survives the policy change.
MarkPolicyReviewKeepsDecision(i, policy) ==
  /\ steps' = [steps EXCEPT ![i].status = "execution_unknown", ![i].policy = policy]
  /\ task' = PausedForReview(i)

MarkPolicyReviewFenced(i, policy) ==
  /\ steps' = [steps EXCEPT ![i].status = "execution_unknown",
                            ![i].policy = policy,
                            ![i].decision = "pending"]
  /\ task' = PausedForReview(i)

\* SetCheckpoint is fenced by run_version alone: the approval gate has given
\* up its lease by the time Eino writes the interrupt checkpoint.
SetCheckpointOk(v) == task.version = v

SetCheckpoint(cursor) == task' = [task EXCEPT !.cursor = cursor] /\ UNCHANGED steps

-----------------------------------------------------------------------------
(* Transactions of the task's owner, a human.                              *)

\* UpdateOwnedStepDecision: approve requeues the task under the SAME
\* run_version, reject ends it and invalidates the interrupted run.
UpdateOwnedStepDecision(i, decision) ==
  /\ task.status = "waiting_approval"
  /\ steps[i].status = "waiting_approval"
  /\ steps[i].decision = "pending"
  /\ steps' = [steps EXCEPT ![i].status = decision, ![i].decision = decision]
  /\ LET row == Released([task EXCEPT !.current = i, !.cursor = "none"])
     IN task' = IF decision = "rejected"
                THEN [row EXCEPT !.status = "rejected", !.version = @ + 1]
                ELSE [row EXCEPT !.status = "pending"]

TaskCanResume(retryUnknown) ==
  \/ task.status = "failed"
  \/ task.status = "requires_review" /\ retryUnknown

ResumableStatuses(retryUnknown) ==
  {"failed"} \cup (IF retryUnknown THEN {"execution_unknown"} ELSE {})

\* The row the SELECT of ResumeOwnedTask returns: the current step, or the
\* first matching step when the task has no current step.
ResumeCandidate(i, retryUnknown) ==
  /\ steps[i].status \in ResumableStatuses(retryUnknown)
  /\ IF task.current # NoStep
     THEN i = task.current
     ELSE \A j \in StepIds : j < i =>
            steps[j].status \notin ResumableStatuses(retryUnknown)

\* Mutant: the step row is not reset.
ResumeTaskRowOnly(i, retryUnknown) ==
  /\ TaskCanResume(retryUnknown)
  /\ ResumeCandidate(i, retryUnknown)
  /\ task' = Released([task EXCEPT !.status = "pending", !.current = i,
                                   !.version = @ + 1, !.cursor = "none"])
  /\ UNCHANGED steps

ResumeOwnedTask(i, retryUnknown) ==
  /\ TaskCanResume(retryUnknown)
  /\ ResumeCandidate(i, retryUnknown)
  /\ steps' = [steps EXCEPT ![i].status = "pending"]
  /\ task' = Released([task EXCEPT !.status = "pending", !.current = i,
                                   !.version = @ + 1, !.cursor = "none"])

ActiveStepStatuses == {"pending", "running", "waiting_approval", "approved"}

CancelledStep(i) ==
  IF steps[i].status \notin ActiveStepStatuses THEN steps[i]
  ELSE IF steps[i].status = "running" /\ ~StepCanReplayAfterCrash(i)
       THEN [steps[i] EXCEPT !.status = "execution_unknown"]
       ELSE [steps[i] EXCEPT !.status = "skipped"]

\* Mutant: a plain status update that fences nobody.
CancelUnfenced ==
  /\ task.status \notin {"absent", "cancelled", "succeeded", "rejected"}
  /\ steps' = [i \in StepIds |-> CancelledStep(i)]
  /\ task' = [task EXCEPT !.status = "cancelled"]

\* CancelOwnedTask: also a fencing transition.  Already cancelled is success
\* without a change, succeeded and rejected are conflicts.
CancelOwnedTask ==
  /\ task.status \notin {"absent", "cancelled", "succeeded", "rejected"}
  /\ steps' = [i \in StepIds |-> CancelledStep(i)]
  /\ task' = Released([task EXCEPT !.status = "cancelled", !.version = @ + 1])

-----------------------------------------------------------------------------
(* Stale recovery.  The batch scan takes no lock and the predicate is      *)
(* evaluated again under the row lock, so only the locked check counts.    *)

RunningSteps == {i \in StepIds : steps[i].status = "running"}
UnsafeRunning == {i \in RunningSteps : ~StepCanReplayAfterCrash(i)}
Lowest(S) == CHOOSE i \in S : \A j \in S : i <= j
Highest(S) == CHOOSE i \in S : \A j \in S : i >= j

RecoverLockedTask ==
  /\ steps' = [i \in StepIds |->
                 IF i \notin RunningSteps THEN steps[i]
                 ELSE IF StepCanReplayAfterCrash(i)
                      THEN [steps[i] EXCEPT !.status = "pending"]
                      ELSE [steps[i] EXCEPT !.status = "execution_unknown"]]
  /\ task' = Released(
       [task EXCEPT
          !.status = IF UnsafeRunning = {} THEN "pending" ELSE "requires_review",
          !.current = IF UnsafeRunning # {} THEN Highest(UnsafeRunning)
                      ELSE IF @ = NoStep /\ RunningSteps # {}
                           THEN Lowest(RunningSteps) ELSE @,
          !.version = @ + 1,
          !.cursor = "none"])

\* Mutant: only running tasks are scanned.
StaleRunningTask == task.status = "running" /\ task.lease # "live"

\* staleTaskQuery.  A row with a lease is judged by lease_until, one without
\* a lease by its last heartbeat; the model lets a lease run out in a step of
\* its own and never leaves a leased status without a lease (LeaseDiscipline).
StaleTask == task.status \in LeasedStatuses /\ task.lease # "live"
=============================================================================
