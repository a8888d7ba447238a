------------------------------ MODULE AgentRun ------------------------------
(***************************************************************************)
(* The Agent workers (service/agent: worker.go, graph.go) and the API      *)
(* calls of the task's owner (service.go), over the rows of AgentStore.    *)
(*                                                                         *)
(* A worker runs the Eino graph plan -> dispatch -> {approval gate, tool,  *)
(* finalize}.  Each read of the rows, each transaction and each external   *)
(* call is a step of its own; run[w].pc names the next one.  The model and *)
(* MCP services answer arbitrarily.  Failures are limited by budgets:      *)
(* MaxCrashes for processes that die or stall, MaxDbFaults for statements  *)
(* that fail, MaxResumes for the owner's explicit resume requests.         *)
(***************************************************************************)
EXTENDS AgentStore

CONSTANTS MaxCrashes, MaxDbFaults, MaxResumes

ASSUME BudgetsAssumption == /\ MaxCrashes \in Nat
                            /\ MaxDbFaults \in Nat
                            /\ MaxResumes \in Nat

VARIABLES
  run,        \* per worker: program counter and what the run has read
  cancelling, \* a CancelTask call that has passed its terminal-state check
  used,       \* how much of each failure budget is spent
  (* Observers: written by the steps they record, read by no guard.        *)
  calls,         \* MCP calls issued per step under a non-replayable policy
  retries,       \* resumes with retry_unknown of a step of unknown outcome
  approvedUnder  \* policies a human approved the step under

runVars == <<run, cancelling, used>>
observers == <<calls, retries, approvedUnder>>
vars == <<task, steps, run, cancelling, used, calls, retries, approvedUnder>>

\* Program counters, by the code they stand in.
MarkPcs == {"markRunFailed", "markUnknown", "markStep", "markTask"}
GraphPcs == {"load", "plan", "planTask", "planStep", "planSave", "save", "reload",
             "dispatch", "routeWrite", "gate", "gateStep", "gateTask", "saveGate",
             "tool", "toolStart", "toolChecks", "calling", "toolDone", "toolTask",
             "failStep", "failTask", "unknown", "policyReview",
             "finalize", "finalStart", "finalGen", "finalDone", "finalTask"}
Pcs == {"idle", "claimed"} \cup GraphPcs \cup MarkPcs

Runs == [pc : Pcs, version : Nat, step : 0..NoStep, policy : Policy,
         operation : Nat, route : {"none", "gate", "tool", "finalize"}]
Run == {r \in Runs : r.pc = "routeWrite" => r.route # "none"}

IdleRun == [pc |-> "idle", version |-> 0, step |-> NoStep,
            policy |-> PlainPolicy, operation |-> 0, route |-> "none"]

Budgets == [crashes : Nat, dbFaults : Nat, resumes : Nat]

Init ==
  /\ StoreInit
  /\ run = [w \in Workers |-> IdleRun]
  /\ cancelling = FALSE
  /\ used = [crashes |-> 0, dbFaults |-> 0, resumes |-> 0]
  /\ calls = [i \in ToolIds |-> 0]
  /\ retries = [i \in StepIds |-> 0]
  /\ approvedUnder = [i \in StepIds |-> {}]

-----------------------------------------------------------------------------
(* How a run moves on.                                                     *)

At(w, pc) == run[w].pc = pc
Goto(w, pc) == run' = [run EXCEPT ![w].pc = pc]

\* The end of processTaskID: the run forgets everything.
Exit(w) == run' = [run EXCEPT ![w] = IdleRun]

\* Between nodes a run keeps its fencing token only.
Enter(w, pc) ==
  run' = [run EXCEPT ![w] = [IdleRun EXCEPT !.pc = pc, !.version = run[w].version]]

\* The run ends with an error that processTaskID hands to markRunFailed.
Fail(w) == Enter(w, "markRunFailed")

Owns(w) == ActiveLease(w, run[w].version)
MyRow(w) == steps[run[w].step]

SpendCrash == used.crashes < MaxCrashes /\ used' = [used EXCEPT !.crashes = @ + 1]
SpendDbFault == used.dbFaults < MaxDbFaults /\ used' = [used EXCEPT !.dbFaults = @ + 1]

\* A transaction of the worker: it commits (Ok) and the run continues with
\* Success, or its predicate matches no row and the run continues with
\* Failure.  The statement may also fail, either before it commits or with
\* the commit done and the reply lost; both look like Failure to the run.
Transaction(Ok, Effect, Success, Failure) ==
  /\ UNCHANGED <<cancelling, observers>>
  /\ \/ Ok /\ Effect /\ Success /\ UNCHANGED used
     \/ ~Ok /\ UNCHANGED storeVars /\ Failure /\ UNCHANGED used
     \/ SpendDbFault /\ Failure /\ (UNCHANGED storeVars \/ (Ok /\ Effect))

\* A step of the worker that reads rows or calls a service but writes no row.
Local(Move) == Move /\ UNCHANGED <<storeVars, cancelling, used, observers>>

-----------------------------------------------------------------------------
(* Claiming a task: pollPending and processTaskID.                         *)

Claim(w) ==
  /\ At(w, "idle")
  /\ ClaimTask(w)
  /\ Goto(w, "claimed")
  /\ UNCHANGED <<cancelling, used, observers>>

\* ClaimTask reads the row back in a second statement, outside the UPDATE:
\* the token is whatever run_version the row has by then.
ReadClaimed(w) ==
  /\ At(w, "claimed")
  /\ Local(run' = [run EXCEPT ![w].pc = "load", ![w].version = task.version])

\* RecoverStaleTasks, run by an idle worker's poll.
RecoverStaleTasks(w) ==
  /\ At(w, "idle")
  /\ StaleTask
  /\ RecoverLockedTask
  /\ UNCHANGED <<run, cancelling, used, observers>>

-----------------------------------------------------------------------------
(* runClaimedTask: run the graph from its checkpoint, or from the start.   *)

LoadCheckpoint(w) ==
  /\ At(w, "load")
  /\ Local(Enter(w, IF task.cursor = "none" THEN "plan" ELSE task.cursor))

\* Eino persists the static interrupt after the plan and tool nodes, and the
\* worker invokes the graph again with the same checkpoint ID at once.
SaveCheckpoint(w) ==
  /\ At(w, "save")
  /\ Transaction(SetCheckpointOk(run[w].version), SetCheckpoint("dispatch"),
                 Goto(w, "reload"), Fail(w))

\* Without a checkpoint the second invocation has no task ID and fails.
ReloadCheckpoint(w) ==
  /\ At(w, "reload")
  /\ Local(IF task.cursor = "none" THEN Fail(w) ELSE Enter(w, task.cursor))

\* The interrupt checkpoint of the approval gate ends the run.
SaveGateCheckpoint(w) ==
  /\ At(w, "saveGate")
  /\ Transaction(SetCheckpointOk(run[w].version), SetCheckpoint("gate"),
                 Exit(w), Fail(w))

-----------------------------------------------------------------------------
(* planNode.                                                               *)

TaskTerminal(s) == s \in {"succeeded", "failed", "rejected", "cancelled"}

\* Mutant: a fresh run plans again over the saved plan.
PlanReadAlwaysPlans(w) ==
  /\ At(w, "plan")
  /\ Local(IF TaskTerminal(task.status) THEN Exit(w) ELSE Goto(w, "planTask"))

PlanRead(w) ==
  /\ At(w, "plan")
  /\ Local(IF TaskTerminal(task.status) THEN Exit(w)
           ELSE IF PlanAlreadySaved THEN Goto(w, "save")
           ELSE Goto(w, "planTask"))

PlanMarkTask(w) ==
  /\ At(w, "planTask")
  /\ Transaction(Owns(w),
                 UpdateTaskFenced([task EXCEPT !.status = "planning", !.current = PlanId]),
                 Goto(w, "planStep"), Fail(w))

PlanMarkStep(w) ==
  /\ At(w, "planStep")
  /\ Transaction(Owns(w),
                 UpdateStepFenced(PlanId, [steps[PlanId] EXCEPT !.status = "running"]),
                 Goto(w, "planSave"), Fail(w))

\* Plans the model may propose: a policy per tool step, at most MaxTools.
Plans == UNION {[1..k -> Policies] : k \in 0..MaxTools}

PlanSave(w) ==
  /\ At(w, "planSave")
  /\ \E plan \in Plans :
       Transaction(SavePlanOk(w, run[w].version), SavePlan(plan),
                   Goto(w, "save"), Fail(w))

\* Tool discovery, the model or the plan's validation fails.
PlanFails(w) ==
  /\ At(w, "planSave")
  /\ Local(Fail(w))

-----------------------------------------------------------------------------
(* dispatchNode and dispatchRoute: nextRoute over the rows.                *)

OpenTools == {i \in ToolIds : Present(i) /\ ~StepFinished(steps[i].status)}

\* The step nextRoute selects: the first tool step that is not finished, or
\* the final step.
Selected ==
  IF OpenTools # {} THEN Lowest(OpenTools)
  ELSE IF Present(FinalId) THEN FinalId ELSE NoStep

\* Mutant: the decision on the row is not looked at.
RouteOfGatedTool(i) ==
  IF i = FinalId THEN "finalize"
  ELSE IF steps[i].policy.requiresApproval THEN "gate" ELSE "tool"

RouteOf(i) ==
  IF i = FinalId THEN "finalize"
  ELSE IF steps[i].policy.requiresApproval /\ steps[i].decision # "approved"
       THEN "gate" ELSE "tool"

NextRoute(w) ==
  IF \/ task.status \in {"cancelled", "rejected", "succeeded", "requires_review"}
     \/ Selected # NoStep /\ steps[Selected].status = "execution_unknown"
                          /\ Selected # FinalId
  THEN Exit(w)                       \* ErrTaskStopped, ErrExecutionNeedsReview
  ELSE IF \/ Selected = NoStep
          \/ Selected # FinalId /\ steps[Selected].status = "failed"
  THEN Fail(w)
  ELSE run' = [run EXCEPT
         ![w].step = Selected,
         ![w].route = RouteOf(Selected),
         ![w].pc = IF task.current = Selected THEN RouteOf(Selected) ELSE "routeWrite"]

Dispatch(w) == At(w, "dispatch") /\ Local(NextRoute(w))

PersistRoute(w) ==
  /\ At(w, "routeWrite")
  /\ Transaction(Owns(w), UpdateTaskFenced([task EXCEPT !.current = run[w].step]),
                 Goto(w, run[w].route), Fail(w))

-----------------------------------------------------------------------------
(* approvalNode.                                                           *)

\* currentToolStep: current_step_id must name a tool step.
CurrentToolStep == task.current \in ToolIds /\ Present(task.current)

GateRead(w) ==
  /\ At(w, "gate")
  /\ Local(
       IF ~CurrentToolStep THEN Fail(w)
       ELSE LET row == steps[task.current]
            IN IF ~row.policy.requiresApproval \/ row.decision = "approved"
               THEN Enter(w, "dispatch")
               ELSE IF row.decision = "rejected" THEN Exit(w)
               ELSE run' = [run EXCEPT
                      ![w].step = task.current,
                      ![w].pc = IF row.status = "waiting_approval"
                                THEN "gateTask" ELSE "gateStep"])

GateMarkStep(w) ==
  /\ At(w, "gateStep")
  /\ Transaction(Owns(w),
                 UpdateStepFenced(run[w].step, [MyRow(w) EXCEPT !.status = "waiting_approval"]),
                 Goto(w, "gateTask"), Fail(w))

\* Mutant: the parked task keeps its lease.
GateMarkTaskLeased(w) ==
  /\ At(w, "gateTask")
  /\ Transaction(Owns(w),
                 UpdateTaskFenced([task EXCEPT !.status = "waiting_approval",
                                               !.current = run[w].step]),
                 Goto(w, "saveGate"), Fail(w))

\* Parks the task and gives up the lease before the interrupt checkpoint.
GateMarkTask(w) ==
  /\ At(w, "gateTask")
  /\ Transaction(Owns(w),
                 UpdateTaskFenced(Released([task EXCEPT !.status = "waiting_approval",
                                                        !.current = run[w].step])),
                 Goto(w, "saveGate"), Fail(w))

-----------------------------------------------------------------------------
(* toolNode.                                                               *)

\* Mutant: every attempt draws a new operation ID.
ToolReadFreshOperation(w) ==
  /\ At(w, "tool")
  /\ Local(
       IF \/ ~CurrentToolStep
          \/ /\ steps[task.current].policy.requiresApproval
             /\ steps[task.current].decision # "approved"
       THEN Fail(w)
       ELSE run' = [run EXCEPT
              ![w].pc = "toolStart",
              ![w].step = task.current,
              ![w].policy = steps[task.current].policy,
              ![w].operation = run[w].version])

ToolRead(w) ==
  /\ At(w, "tool")
  /\ Local(
       IF \/ ~CurrentToolStep
          \/ /\ steps[task.current].policy.requiresApproval
             /\ steps[task.current].decision # "approved"
       THEN Fail(w)
       ELSE run' = [run EXCEPT
              ![w].pc = "toolStart",
              ![w].step = task.current,
              ![w].policy = steps[task.current].policy,
              \* a fresh UUID is modelled by the run_version that drew it
              ![w].operation = IF steps[task.current].operation = 0
                               THEN run[w].version
                               ELSE steps[task.current].operation])

ToolMarkRunning(w) ==
  /\ At(w, "toolStart")
  /\ Transaction(Owns(w),
                 UpdateStepFenced(run[w].step, [MyRow(w) EXCEPT !.status = "running",
                                                  !.operation = run[w].operation]),
                 Goto(w, "toolChecks"), Fail(w))

\* Integrity check, tool refresh, argument validation or MCP approval fails:
\* nothing has been sent.
ToolCheckFails(w) ==
  /\ At(w, "toolChecks")
  /\ Local(Goto(w, "failStep"))

\* toolPolicyChanged: the trusted definition no longer matches the row.  A policy
\* here has no risk level, so a change of that alone is left out.
ToolPolicyChanged(w) ==
  /\ At(w, "toolChecks")
  /\ \E p \in Policies \ {run[w].policy} :
       Local(run' = [run EXCEPT ![w].pc = "policyReview", ![w].policy = p])

RequirePolicyReview(w) ==
  /\ At(w, "policyReview")
  /\ Transaction(MarkReviewOk(w, run[w].version, run[w].step),
                 MarkPolicyReviewFenced(run[w].step, run[w].policy),
                 Exit(w), Fail(w))

\* mcp.Call leaves the process.
CallTool(w) ==
  /\ At(w, "toolChecks")
  /\ Goto(w, "calling")
  /\ calls' = IF ReplaySafe(run[w].policy) THEN calls
              ELSE [calls EXCEPT ![run[w].step] = @ + 1]
  /\ UNCHANGED <<storeVars, cancelling, used, retries, approvedUnder>>

\* Mutant: every failed call is an ordinary failure.
AfterAnyFailure(w) == IF run[w].step \in StepIds THEN "failStep" ELSE "unknown"

\* failInvokedTool: where the run goes when the outcome is not on record.
AfterInvokedFailure(w) == IF ReplaySafe(run[w].policy) THEN "failStep" ELSE "unknown"

ToolReturns(w) ==
  /\ At(w, "calling")
  /\ \/ Local(Goto(w, "toolDone"))
     \/ Local(Goto(w, AfterInvokedFailure(w)))

ToolMarkSucceeded(w) ==
  /\ At(w, "toolDone")
  /\ Transaction(Owns(w),
                 UpdateStepFenced(run[w].step, [MyRow(w) EXCEPT !.status = "succeeded"]),
                 Goto(w, "toolTask"), Goto(w, AfterInvokedFailure(w)))

ToolMarkTask(w) ==
  /\ At(w, "toolTask")
  /\ Transaction(Owns(w),
                 UpdateTaskFenced([task EXCEPT !.status = "running", !.current = NoStep]),
                 Enter(w, "save"), Fail(w))

MarkUnknown(w) ==
  /\ At(w, "unknown")
  /\ Transaction(MarkReviewOk(w, run[w].version, run[w].step),
                 MarkExecutionUnknownFenced(run[w].step),
                 Exit(w), Fail(w))

\* failToolStep: two statements whose errors are both ignored.
FailStep(w) ==
  /\ At(w, "failStep")
  /\ Transaction(Owns(w),
                 UpdateStepFenced(run[w].step, [MyRow(w) EXCEPT !.status = "failed"]),
                 Goto(w, "failTask"), Goto(w, "failTask"))

FailTask(w) ==
  /\ At(w, "failTask")
  /\ Transaction(Owns(w),
                 UpdateTaskFenced(Released([task EXCEPT !.status = "failed"])),
                 Fail(w), Fail(w))

-----------------------------------------------------------------------------
(* finalizeNode.                                                           *)

FinalizeRead(w) ==
  /\ At(w, "finalize")
  /\ Local(IF task.status \in {"cancelled", "rejected"} THEN Exit(w)
           ELSE IF ~Present(FinalId) THEN Fail(w)
           ELSE run' = [run EXCEPT ![w].pc = "finalStart", ![w].step = FinalId])

FinalMarkRunning(w) ==
  /\ At(w, "finalStart")
  /\ Transaction(Owns(w),
                 UpdateStepFenced(FinalId, [steps[FinalId] EXCEPT !.status = "running"]),
                 Goto(w, "finalGen"), Fail(w))

FinalGenerate(w) ==
  /\ At(w, "finalGen")
  /\ \/ Local(Goto(w, "finalDone"))
     \/ Local(Goto(w, "failStep"))

FinalMarkSucceeded(w) ==
  /\ At(w, "finalDone")
  /\ Transaction(Owns(w),
                 UpdateStepFenced(FinalId, [steps[FinalId] EXCEPT !.status = "succeeded"]),
                 Goto(w, "finalTask"), Fail(w))

FinalMarkTask(w) ==
  /\ At(w, "finalTask")
  /\ Transaction(Owns(w),
                 UpdateTaskFenced(Released([task EXCEPT !.status = "succeeded",
                                                        !.current = FinalId])),
                 Exit(w), Fail(w))

-----------------------------------------------------------------------------
(* markRunFailed, after an error that is not an orderly end of the run.    *)

OpenSteps == {i \in StepIds : Present(i) /\ ~StepFinished(steps[i].status)}

CurrentFailureStep ==
  IF task.current \in OpenSteps THEN task.current
  ELSE IF OpenSteps # {} THEN Lowest(OpenSteps)
  ELSE IF Present(FinalId) THEN FinalId ELSE NoStep

MarkRunFailedRead(w) ==
  /\ At(w, "markRunFailed")
  /\ LET i == CurrentFailureStep
     IN Local(
       IF \/ task.version # run[w].version
          \/ task.status \in {"waiting_approval", "requires_review", "succeeded",
                              "rejected", "cancelled"}
       THEN Exit(w)
       ELSE run' = [run EXCEPT
         ![w].step = i,
         ![w].pc =
            IF i = NoStep \/ steps[i].status \in {"failed", "execution_unknown"}
            THEN "markTask"
            ELSE IF i \in ToolIds /\ steps[i].status = "running"
                                  /\ ~ReplaySafe(steps[i].policy)
            THEN "markUnknown"
            ELSE "markStep"])

\* Its error is ignored: the row then stays running for stale recovery.
MarkRunUnknown(w) ==
  /\ At(w, "markUnknown")
  /\ Transaction(MarkReviewOk(w, run[w].version, run[w].step),
                 MarkExecutionUnknownFenced(run[w].step), Exit(w), Exit(w))

\* Mutant: only the task row is marked.
MarkRunFailedNoStep(w) ==
  /\ At(w, "markStep")
  /\ Local(Goto(w, "markTask"))

MarkRunFailedStep(w) ==
  /\ At(w, "markStep")
  /\ Transaction(Owns(w),
                 UpdateStepFenced(run[w].step, [MyRow(w) EXCEPT !.status = "failed"]),
                 Goto(w, "markTask"), Goto(w, "markTask"))

MarkRunFailedTask(w) ==
  /\ At(w, "markTask")
  /\ Transaction(Owns(w),
                 UpdateTaskFenced(Released([task EXCEPT !.status = "failed",
                   !.current = IF run[w].step = NoStep THEN @ ELSE run[w].step])),
                 Exit(w), Exit(w))

-----------------------------------------------------------------------------
(* What happens to a run from outside.                                     *)

\* The heartbeat finds the run's ownership gone and cancels its context, so
\* the graph unwinds; cancelRunning does the same after a CancelTask.  A
\* released lease under the same run_version is left alone while the task
\* waits for approval or has ended, and a failed renewal is retried while it
\* still runs.
LeaseHeartbeat(w) ==
  /\ run[w].pc \in GraphPcs
  /\ ~RenewLeaseFencedOk(w, run[w].version)
  /\ \/ task.version # run[w].version
     \/ task.status \in {"pending", "requires_review"}
  /\ Local(Exit(w))

\* The process dies, or shuts down and cancels the run.
Crash(w) ==
  /\ ~At(w, "idle")
  /\ SpendCrash
  /\ Exit(w)
  /\ UNCHANGED <<storeVars, cancelling, observers>>

\* A read of the rows fails; markRunFailed's own read ends the run.
ReadFails(w) ==
  /\ run[w].pc \in {"claimed", "load", "plan", "reload", "dispatch", "gate", "tool",
                    "finalize", "markRunFailed"}
  /\ SpendDbFault
  /\ IF run[w].pc \in {"claimed", "markRunFailed"} THEN Exit(w)
                                                  ELSE Fail(w)
  /\ UNCHANGED <<storeVars, cancelling, observers>>

\* Staleness compares lease_until with the polling process's own clock; one
\* that runs ahead takes a live lease for an expired one.
RecoverWithSkewedClock(w) ==
  /\ At(w, "idle")
  /\ task.status \in LeasedStatuses /\ task.lease = "live"
  /\ SpendCrash
  /\ RecoverLockedTask
  /\ UNCHANGED <<run, cancelling, observers>>

\* lease_until passes.  With the holder gone that is a matter of time; under
\* a live holder it takes a stall that outlasts the heartbeat interval.
HolderGone == \A w \in Workers : At(w, "idle") \/ w # task.owner

LeaseRunsOut ==
  /\ task.lease = "live"
  /\ HolderGone
  /\ task' = [task EXCEPT !.lease = "expired"]
  /\ UNCHANGED <<steps, runVars, observers>>

HolderStalls ==
  /\ task.lease = "live"
  /\ ~HolderGone
  /\ SpendCrash
  /\ task' = [task EXCEPT !.lease = "expired"]
  /\ UNCHANGED <<steps, run, cancelling, observers>>

-----------------------------------------------------------------------------
(* The owner's API calls.                                                  *)

CreateTask ==
  /\ CreateTaskWithInitialStep
  /\ UNCHANGED <<runVars, observers>>

ApproveTask(i) ==
  /\ UpdateOwnedStepDecision(i, "approved")
  /\ approvedUnder' = [approvedUnder EXCEPT ![i] = @ \cup {steps[i].policy}]
  /\ UNCHANGED <<runVars, calls, retries>>

RejectTask(i) ==
  /\ UpdateOwnedStepDecision(i, "rejected")
  /\ UNCHANGED <<runVars, observers>>

ResumeTask(i, retryUnknown) ==
  /\ used.resumes < MaxResumes
  /\ used' = [used EXCEPT !.resumes = @ + 1]
  /\ ResumeOwnedTask(i, retryUnknown)
  /\ retries' = IF steps[i].status = "execution_unknown"
                THEN [retries EXCEPT ![i] = @ + 1] ELSE retries
  /\ UNCHANGED <<run, cancelling, calls, approvedUnder>>

\* CancelTask checks the status it reads and then cancels in a transaction of
\* its own, which looks at the status again but refuses fewer of them.
CancelTaskRead ==
  /\ ~cancelling
  /\ task.status # "absent" /\ ~TaskTerminal(task.status)
  /\ cancelling' = TRUE
  /\ UNCHANGED <<storeVars, run, used, observers>>

CancelTask ==
  /\ cancelling
  /\ CancelOwnedTask
  /\ cancelling' = FALSE
  /\ UNCHANGED <<run, used, observers>>

\* The transaction finds the task already ended.
CancelTaskConflict ==
  /\ cancelling
  /\ task.status \in {"succeeded", "rejected", "cancelled"}
  /\ cancelling' = FALSE
  /\ UNCHANGED <<storeVars, run, used, observers>>

-----------------------------------------------------------------------------
WorkerStep(w) ==
  \/ ReadClaimed(w) \/ LoadCheckpoint(w) \/ SaveCheckpoint(w) \/ ReloadCheckpoint(w)
  \/ SaveGateCheckpoint(w)
  \/ PlanRead(w) \/ PlanMarkTask(w) \/ PlanMarkStep(w) \/ PlanSave(w) \/ PlanFails(w)
  \/ Dispatch(w) \/ PersistRoute(w)
  \/ GateRead(w) \/ GateMarkStep(w) \/ GateMarkTask(w)
  \/ ToolRead(w) \/ ToolMarkRunning(w) \/ ToolCheckFails(w) \/ ToolPolicyChanged(w)
  \/ RequirePolicyReview(w) \/ CallTool(w) \/ ToolReturns(w) \/ ToolMarkSucceeded(w)
  \/ ToolMarkTask(w) \/ MarkUnknown(w) \/ FailStep(w) \/ FailTask(w)
  \/ FinalizeRead(w) \/ FinalMarkRunning(w) \/ FinalGenerate(w)
  \/ FinalMarkSucceeded(w) \/ FinalMarkTask(w)
  \/ MarkRunFailedRead(w) \/ MarkRunUnknown(w) \/ MarkRunFailedStep(w)
  \/ MarkRunFailedTask(w)

Poll(w) == Claim(w) \/ RecoverStaleTasks(w)

Disturb(w) ==
  \/ LeaseHeartbeat(w) \/ Crash(w) \/ ReadFails(w) \/ RecoverWithSkewedClock(w)

OwnerStep ==
  \/ CreateTask
  \/ \E i \in ToolIds : ApproveTask(i) \/ RejectTask(i)
  \/ \E i \in StepIds, retryUnknown \in BOOLEAN : ResumeTask(i, retryUnknown)
  \/ CancelTaskRead \/ CancelTask \/ CancelTaskConflict

Next ==
  \/ \E w \in Workers : WorkerStep(w) \/ Poll(w) \/ Disturb(w)
  \/ LeaseRunsOut \/ HolderStalls
  \/ OwnerStep

Spec == Init /\ [][Next]_vars

\* A run that has not crashed goes on, every process keeps polling, and time
\* passes.  Nothing is assumed of the owner, and no failure is ever owed.
Fairness ==
  /\ \A w \in Workers : WF_vars(WorkerStep(w)) /\ WF_vars(Poll(w))
  /\ WF_vars(LeaseRunsOut)

FairSpec == Spec /\ Fairness
=============================================================================
