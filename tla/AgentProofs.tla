---------------------------- MODULE AgentProofs -----------------------------
(***************************************************************************)
(* Proofs about the Agent for any number of workers, tool steps, policies  *)
(* and failures.                                                           *)
(***************************************************************************)
EXTENDS AgentProperties, WellFoundedInduction, TLAPS

-----------------------------------------------------------------------------
(* The step the code picks from a nonempty set of rows is one of them.     *)

\* A nonempty set of natural numbers has a least element.
LEMMA LeastNatural ==
  ASSUME NEW S, S \subseteq Nat, S # {}
  PROVE  \E x \in S : \A y \in S : ~(y < x)
<1>1. \A x, y \in Nat : <<y, x>> \in OpToRel(<, Nat) <=> y < x
  BY Zenon DEF OpToRel
<1>2. PICK x \in S : \A y \in S : ~(<<y, x>> \in OpToRel(<, Nat))
  BY NatLessThanWellFounded, WFMin, Zenon
<1>3. \A y \in S : ~(y < x)
  BY <1>1, <1>2, Zenon
<1> QED
  BY <1>3

\* The first of a nonempty set of sequence numbers (ORDER BY sequence).
LEMMA LowestIn ==
  ASSUME NEW S, S \subseteq StepIds, S # {}
  PROVE  Lowest(S) \in S
<1>1. S \subseteq Nat
  BY MaxToolsAssumption DEF StepIds, FinalId
<1>2. PICK x \in S : \A y \in S : ~(y < x)
  BY <1>1, LeastNatural
<1>3. \A y \in S : x <= y
  BY <1>1, <1>2
<1> QED
  BY <1>3 DEF Lowest

\* The last of a nonempty set of sequence numbers.
LEMMA HighestIn ==
  ASSUME NEW S, S \subseteq StepIds, S # {}
  PROVE  Highest(S) \in S
<1> DEFINE T == {FinalId - i : i \in S}
<1>1. S \subseteq Nat /\ FinalId \in Nat
  BY MaxToolsAssumption DEF StepIds, FinalId
<1>2. T \subseteq Nat /\ T # {}
  <2>1. \A i \in S : FinalId - i \in Nat
    BY <1>1 DEF StepIds
  <2> QED BY <2>1
<1>3. PICK x \in T : \A y \in T : ~(y < x)
  <2> HIDE DEF T
  <2> QED BY <1>2, LeastNatural
<1>4. PICK i \in S : x = FinalId - i
  BY <1>3
<1>5. \A j \in S : i >= j
  BY <1>1, <1>3, <1>4
<1> QED
  BY <1>5 DEF Highest

-----------------------------------------------------------------------------
(* The invariant and the effects in the groups the proofs treat together.  *)

StoreType == task \in TaskRow /\ steps \in [StepIds -> StepRow]
RunType == run \in [Workers -> Run]
RestType == /\ cancelling \in BOOLEAN
            /\ used \in Budgets
            /\ calls \in [ToolIds -> Nat]
            /\ retries \in [StepIds -> Nat]
            /\ approvedUnder \in [StepIds -> SUBSET Policy]

\* The write of a worker that holds the task and goes on holding it.
HoldingWrite(w) ==
  /\ Owns(w)
  /\ task'.status \in LeasedStatuses \cup {task.status}
  /\ task'.version = task.version
  /\ task'.owner = task.owner
  /\ task'.lease = task.lease

\* The write with which the holder gives the task up.
HandOver(w) ==
  /\ Owns(w)
  /\ task'.owner = NoWorker
  /\ task'.lease = "none"
  /\ \/ /\ task'.status \in {"waiting_approval", "failed", "succeeded"}
        /\ task'.version = task.version
     \/ /\ task'.status = "requires_review"
        /\ task'.version = task.version + 1

CheckpointWrite ==
  UNCHANGED steps /\ \E c \in Cursors : task' = [task EXCEPT !.cursor = c]

\* Everything a worker can do to the rows.
WorkerEffect(w) ==
  /\ StoreType'
  /\ UNCHANGED storeVars \/ CheckpointWrite \/ HoldingWrite(w) \/ HandOver(w)

\* TypeOK is its three groups.
LEMMA TypeGroups == TypeOK <=> StoreType /\ RunType /\ RestType
BY DEF TypeOK, StoreType, RunType, RestType

\* So is its next-state value.
LEMMA TypeGroupsNext == StoreType' /\ RunType' /\ RestType' => TypeOK'
BY DEF TypeOK, StoreType, RunType, RestType

\* A program counter, a reset and an entry into a node keep a run well typed.
LEMMA MovesType ==
  ASSUME RunType, NEW w \in Workers
  PROVE  /\ \A pc \in Pcs \ {"routeWrite"} : Goto(w, pc) => RunType'
         /\ \A pc \in Pcs \ {"routeWrite"} : Enter(w, pc) => RunType'
         /\ Exit(w) => RunType'
         /\ Fail(w) => RunType'
<1>1. IdleRun \in Run
  BY MaxToolsAssumption DEF IdleRun, Run, Runs, PlainPolicy, Policy, NoStep, Pcs
<1>2. ASSUME NEW pc \in Pcs \ {"routeWrite"}, Goto(w, pc)
      PROVE  RunType'
  BY <1>2 DEF RunType, Goto, Run, Runs
<1>3. ASSUME NEW pc \in Pcs \ {"routeWrite"}, Enter(w, pc)
      PROVE  RunType'
  <2>1. [IdleRun EXCEPT !.pc = pc, !.version = run[w].version] \in Run
    BY <1>1 DEF RunType, Run, Runs, IdleRun
  <2> QED BY <1>3, <2>1 DEF RunType, Enter
<1>4. Exit(w) => RunType'
  BY <1>1 DEF RunType, Exit
<1>5. Fail(w) => RunType'
  BY <1>3 DEF Fail, Pcs, MarkPcs
<1> QED
  BY <1>2, <1>3, <1>4, <1>5

\* Clearing the lease columns changes nothing else.
LEMMA ReleasedRow ==
  ASSUME NEW row \in TaskRow
  PROVE  /\ Released(row) \in TaskRow
         /\ Released(row).owner = NoWorker
         /\ Released(row).lease = "none"
         /\ Released(row).status = row.status
         /\ Released(row).version = row.version
BY DEF Released, TaskRow

-----------------------------------------------------------------------------
(* What each action of a worker does to the rows.                          *)

\* A fenced UPDATE of a step row.
LEMMA StepWriteEffect ==
  ASSUME StoreType, NEW w \in Workers, Owns(w),
         NEW i, NEW row, i \in StepIds => row \in StepRow,
         UpdateStepFenced(i, row)
  PROVE  WorkerEffect(w)
BY DEF StoreType, UpdateStepFenced, WorkerEffect, HoldingWrite

\* A fenced UPDATE of the task row under which the worker keeps the lease.
LEMMA TaskWriteEffect ==
  ASSUME StoreType, NEW w \in Workers, Owns(w),
         NEW row \in TaskRow, UpdateTaskFenced(row),
         row.status \in LeasedStatuses \cup {task.status},
         row.version = task.version, row.owner = task.owner, row.lease = task.lease
  PROVE  WorkerEffect(w)
BY DEF StoreType, UpdateTaskFenced, WorkerEffect, HoldingWrite

\* A fenced UPDATE of the task row that releases the lease.
LEMMA ReleaseEffect ==
  ASSUME StoreType, NEW w \in Workers, Owns(w),
         NEW row \in TaskRow, UpdateTaskFenced(Released(row)),
         row.status \in {"waiting_approval", "failed", "succeeded"},
         row.version = task.version
  PROVE  WorkerEffect(w)
BY ReleasedRow DEF StoreType, UpdateTaskFenced, WorkerEffect, HandOver

\* A step that leaves the rows alone.
LEMMA NoEffect ==
  ASSUME StoreType, NEW w \in Workers, UNCHANGED storeVars
  PROVE  WorkerEffect(w)
BY DEF StoreType, WorkerEffect, storeVars

\* A checkpoint write.
LEMMA CheckpointEffect ==
  ASSUME StoreType, NEW w \in Workers, NEW c \in Cursors, SetCheckpoint(c)
  PROVE  WorkerEffect(w)
<1>1. [task EXCEPT !.cursor = c] \in TaskRow
  BY DEF StoreType, TaskRow
<1> QED
  BY <1>1 DEF StoreType, SetCheckpoint, WorkerEffect, CheckpointWrite

\* The pause for a human: an unknown outcome or a changed policy.
LEMMA ReviewEffect ==
  ASSUME StoreType, NEW w \in Workers, NEW i, MarkReviewOk(w, run[w].version, i),
         NEW p \in Policy,
         MarkExecutionUnknownFenced(i) \/ MarkPolicyReviewFenced(i, p)
  PROVE  WorkerEffect(w)
<1>1. i \in StepIds /\ i \in 0..NoStep
  BY MaxToolsAssumption DEF MarkReviewOk, ToolIds, StepIds, FinalId, NoStep
<1> DEFINE row == [task EXCEPT !.status = "requires_review", !.current = i,
                               !.version = @ + 1]
<1>2. row \in TaskRow /\ row.status = "requires_review" /\ row.version = task.version + 1
  <2>1. task.version + 1 \in Nat
    BY DEF StoreType, TaskRow
  <2> QED BY <1>1, <2>1 DEF StoreType, TaskRow, TaskStatuses
<1>3. task' = Released(row)
  BY DEF MarkExecutionUnknownFenced, MarkPolicyReviewFenced, PausedForReview
<1>4. steps' \in [StepIds -> StepRow]
  <2>1. CASE MarkExecutionUnknownFenced(i)
    BY <1>1, <2>1 DEF MarkExecutionUnknownFenced, StoreType, StepRow, StepStatuses
  <2>2. CASE MarkPolicyReviewFenced(i, p)
    <3>1. steps' = [steps EXCEPT ![i] = [steps[i] EXCEPT
             !.status = "execution_unknown", !.policy = p, !.decision = "pending"]]
      BY <1>1, <2>2 DEF MarkPolicyReviewFenced, StoreType
    <3>2. [steps[i] EXCEPT !.status = "execution_unknown", !.policy = p,
                           !.decision = "pending"] \in StepRow
      BY <1>1 DEF StoreType, StepRow, StepStatuses
    <3> QED BY <3>1, <3>2 DEF StoreType
  <2> QED BY <2>1, <2>2
<1>5. Owns(w)
  BY DEF MarkReviewOk, Owns
<1> QED
  <2> HIDE DEF row
  <2> QED BY <1>2, <1>3, <1>4, <1>5, ReleasedRow
          DEF WorkerEffect, StoreType, HandOver

\* Every plan the model proposes is a policy per tool step.
LEMMA SavePlanEffect ==
  ASSUME StoreType, NEW w \in Workers, NEW plan \in Plans,
         SavePlanOk(w, run[w].version), SavePlan(plan)
  PROVE  WorkerEffect(w)
<1>1. PICK k \in 0..MaxTools : plan \in [1..k -> Policies]
  BY DEF Plans
<1>2. \A i \in DOMAIN plan : plan[i] \in Policy
  BY <1>1, PoliciesAssumption
<1>3. PlainPolicy \in Policy
  BY DEF PlainPolicy, Policy
<1>4. \A s \in StepStatuses, p \in Policy : NewStep(s, p) \in StepRow
  BY DEF NewStep, StepRow
<1>5. \A i \in StepIds : [steps[i] EXCEPT !.status = "succeeded"] \in StepRow
  BY DEF StoreType, StepRow, StepStatuses
<1>6. steps' \in [StepIds -> StepRow]
  <2>1. "pending" \in StepStatuses /\ "absent" \in StepStatuses
    BY DEF StepStatuses
  <2> QED BY <1>2, <1>3, <1>4, <1>5, <2>1 DEF SavePlan, NoRow
<1>7. 1 \in 0..NoStep /\ FinalId \in 0..NoStep
  BY MaxToolsAssumption DEF NoStep, FinalId
<1>8. /\ task' \in TaskRow
      /\ task'.status = "running"
      /\ task'.version = task.version
      /\ task'.owner = task.owner
      /\ task'.lease = task.lease
  BY <1>7 DEF SavePlan, StoreType, TaskRow, TaskStatuses
<1> QED
  BY <1>6, <1>8 DEF WorkerEffect, StoreType, HoldingWrite, SavePlanOk, Owns, LeasedStatuses

\* Reads, decisions and external calls leave the rows alone.
LEMMA LocalActionsEffect ==
  ASSUME StoreType, NEW w \in Workers,
         \/ ReadClaimed(w) \/ LoadCheckpoint(w) \/ ReloadCheckpoint(w)
         \/ PlanRead(w) \/ PlanFails(w) \/ Dispatch(w) \/ GateRead(w)
         \/ ToolRead(w) \/ ToolCheckFails(w) \/ ToolPolicyChanged(w)
         \/ CallTool(w) \/ ToolReturns(w) \/ FinalizeRead(w)
         \/ FinalGenerate(w) \/ MarkRunFailedRead(w)
  PROVE  WorkerEffect(w)
<1>1. UNCHANGED storeVars
  BY DEF ReadClaimed, LoadCheckpoint, ReloadCheckpoint, PlanRead, PlanFails,
         Dispatch, GateRead, ToolRead, ToolCheckFails, ToolPolicyChanged,
         CallTool, ToolReturns, FinalizeRead, FinalGenerate,
         MarkRunFailedRead, Local
<1> QED
  BY <1>1, NoEffect

\* The fenced updates of one step row.
LEMMA StepActionsEffect ==
  ASSUME TypeOK, NEW w \in Workers
  PROVE  /\ PlanMarkStep(w) => WorkerEffect(w)
         /\ GateMarkStep(w) => WorkerEffect(w)
         /\ ToolMarkRunning(w) => WorkerEffect(w)
         /\ ToolMarkSucceeded(w) => WorkerEffect(w)
         /\ FailStep(w) => WorkerEffect(w)
         /\ FinalMarkRunning(w) => WorkerEffect(w)
         /\ FinalMarkSucceeded(w) => WorkerEffect(w)
         /\ MarkRunFailedStep(w) => WorkerEffect(w)
<1>1. StoreType /\ RunType
  BY TypeGroups
<1>2. \A i \in StepIds, s \in StepStatuses, n \in Nat :
        /\ [steps[i] EXCEPT !.status = s] \in StepRow
        /\ [steps[i] EXCEPT !.status = s, !.operation = n] \in StepRow
  BY <1>1 DEF StoreType, StepRow
<1>3. run[w].operation \in Nat
  BY <1>1 DEF RunType, Run, Runs
<1>4. {"running", "waiting_approval", "succeeded", "failed"} \subseteq StepStatuses
  BY DEF StepStatuses
<1>5. ASSUME PlanMarkStep(w) PROVE WorkerEffect(w)
  <2>1. CASE UNCHANGED storeVars
    BY <1>1, <2>1, NoEffect
  <2>2. CASE Owns(w) /\ UpdateStepFenced(PlanId, [steps[PlanId] EXCEPT !.status = "running"])
    <3>1. PlanId \in StepIds => [steps[PlanId] EXCEPT !.status = "running"] \in StepRow
      BY <1>2, <1>3, <1>4 DEF MyRow
    <3> QED BY <1>1, <2>2, <3>1, StepWriteEffect
  <2> QED BY <1>5, <2>1, <2>2 DEF PlanMarkStep, Transaction
<1>6. ASSUME GateMarkStep(w) PROVE WorkerEffect(w)
  <2>1. CASE UNCHANGED storeVars
    BY <1>1, <2>1, NoEffect
  <2>2. CASE Owns(w) /\ UpdateStepFenced(run[w].step, [MyRow(w) EXCEPT !.status = "waiting_approval"])
    <3>1. run[w].step \in StepIds => [MyRow(w) EXCEPT !.status = "waiting_approval"] \in StepRow
      BY <1>2, <1>3, <1>4 DEF MyRow
    <3> QED BY <1>1, <2>2, <3>1, StepWriteEffect
  <2> QED BY <1>6, <2>1, <2>2 DEF GateMarkStep, Transaction
<1>7. ASSUME ToolMarkRunning(w) PROVE WorkerEffect(w)
  <2>1. CASE UNCHANGED storeVars
    BY <1>1, <2>1, NoEffect
  <2>2. CASE Owns(w) /\ UpdateStepFenced(run[w].step, [MyRow(w) EXCEPT !.status = "running", !.operation = run[w].operation])
    <3>1. run[w].step \in StepIds => [MyRow(w) EXCEPT !.status = "running", !.operation = run[w].operation] \in StepRow
      BY <1>2, <1>3, <1>4 DEF MyRow
    <3> QED BY <1>1, <2>2, <3>1, StepWriteEffect
  <2> QED BY <1>7, <2>1, <2>2 DEF ToolMarkRunning, Transaction
<1>8. ASSUME ToolMarkSucceeded(w) PROVE WorkerEffect(w)
  <2>1. CASE UNCHANGED storeVars
    BY <1>1, <2>1, NoEffect
  <2>2. CASE Owns(w) /\ UpdateStepFenced(run[w].step, [MyRow(w) EXCEPT !.status = "succeeded"])
    <3>1. run[w].step \in StepIds => [MyRow(w) EXCEPT !.status = "succeeded"] \in StepRow
      BY <1>2, <1>3, <1>4 DEF MyRow
    <3> QED BY <1>1, <2>2, <3>1, StepWriteEffect
  <2> QED BY <1>8, <2>1, <2>2 DEF ToolMarkSucceeded, Transaction
<1>9. ASSUME FailStep(w) PROVE WorkerEffect(w)
  <2>1. CASE UNCHANGED storeVars
    BY <1>1, <2>1, NoEffect
  <2>2. CASE Owns(w) /\ UpdateStepFenced(run[w].step, [MyRow(w) EXCEPT !.status = "failed"])
    <3>1. run[w].step \in StepIds => [MyRow(w) EXCEPT !.status = "failed"] \in StepRow
      BY <1>2, <1>3, <1>4 DEF MyRow
    <3> QED BY <1>1, <2>2, <3>1, StepWriteEffect
  <2> QED BY <1>9, <2>1, <2>2 DEF FailStep, Transaction
<1>10. ASSUME FinalMarkRunning(w) PROVE WorkerEffect(w)
  <2>1. CASE UNCHANGED storeVars
    BY <1>1, <2>1, NoEffect
  <2>2. CASE Owns(w) /\ UpdateStepFenced(FinalId, [steps[FinalId] EXCEPT !.status = "running"])
    <3>1. FinalId \in StepIds => [steps[FinalId] EXCEPT !.status = "running"] \in StepRow
      BY <1>2, <1>3, <1>4 DEF MyRow
    <3> QED BY <1>1, <2>2, <3>1, StepWriteEffect
  <2> QED BY <1>10, <2>1, <2>2 DEF FinalMarkRunning, Transaction
<1>11. ASSUME FinalMarkSucceeded(w) PROVE WorkerEffect(w)
  <2>1. CASE UNCHANGED storeVars
    BY <1>1, <2>1, NoEffect
  <2>2. CASE Owns(w) /\ UpdateStepFenced(FinalId, [steps[FinalId] EXCEPT !.status = "succeeded"])
    <3>1. FinalId \in StepIds => [steps[FinalId] EXCEPT !.status = "succeeded"] \in StepRow
      BY <1>2, <1>3, <1>4 DEF MyRow
    <3> QED BY <1>1, <2>2, <3>1, StepWriteEffect
  <2> QED BY <1>11, <2>1, <2>2 DEF FinalMarkSucceeded, Transaction
<1>12. ASSUME MarkRunFailedStep(w) PROVE WorkerEffect(w)
  <2>1. CASE UNCHANGED storeVars
    BY <1>1, <2>1, NoEffect
  <2>2. CASE Owns(w) /\ UpdateStepFenced(run[w].step, [MyRow(w) EXCEPT !.status = "failed"])
    <3>1. run[w].step \in StepIds => [MyRow(w) EXCEPT !.status = "failed"] \in StepRow
      BY <1>2, <1>3, <1>4 DEF MyRow
    <3> QED BY <1>1, <2>2, <3>1, StepWriteEffect
  <2> QED BY <1>12, <2>1, <2>2 DEF MarkRunFailedStep, Transaction
<1> QED
  BY <1>5, <1>6, <1>7, <1>8, <1>9, <1>10, <1>11, <1>12
\* The fenced updates of the task row under which the lease is kept.
LEMMA TaskActionsEffect ==
  ASSUME TypeOK, NEW w \in Workers
  PROVE  /\ PlanMarkTask(w) => WorkerEffect(w)
         /\ PersistRoute(w) => WorkerEffect(w)
         /\ ToolMarkTask(w) => WorkerEffect(w)
         /\ GateMarkTask(w) => WorkerEffect(w)
         /\ FailTask(w) => WorkerEffect(w)
         /\ FinalMarkTask(w) => WorkerEffect(w)
         /\ MarkRunFailedTask(w) => WorkerEffect(w)
<1>1. StoreType /\ RunType
  BY TypeGroups
<1>2. /\ run[w].step \in 0..NoStep
      /\ PlanId \in 0..NoStep /\ FinalId \in 0..NoStep /\ NoStep \in 0..NoStep
  BY <1>1, MaxToolsAssumption DEF RunType, Run, Runs, PlanId, FinalId, NoStep
<1>3. task \in TaskRow
  BY <1>1 DEF StoreType
<1>4. ASSUME PlanMarkTask(w) PROVE WorkerEffect(w)
  <2> DEFINE row == [task EXCEPT !.status = "planning", !.current = PlanId]
  <2>1. CASE UNCHANGED storeVars
    BY <1>1, <2>1, NoEffect
  <2>2. CASE Owns(w) /\ UpdateTaskFenced(row)
    <3>1. /\ row \in TaskRow
          /\ row.status \in LeasedStatuses \cup {task.status}
          /\ row.version = task.version /\ row.owner = task.owner /\ row.lease = task.lease
      BY <1>2, <1>3 DEF TaskRow, TaskStatuses, LeasedStatuses
    <3> HIDE DEF row
    <3> QED BY <1>1, <2>2, <3>1, TaskWriteEffect
  <2> QED BY <1>4, <2>1, <2>2 DEF PlanMarkTask, Transaction
<1>5. ASSUME PersistRoute(w) PROVE WorkerEffect(w)
  <2> DEFINE row == [task EXCEPT !.current = run[w].step]
  <2>1. CASE UNCHANGED storeVars
    BY <1>1, <2>1, NoEffect
  <2>2. CASE Owns(w) /\ UpdateTaskFenced(row)
    <3>1. /\ row \in TaskRow
          /\ row.status \in LeasedStatuses \cup {task.status}
          /\ row.version = task.version /\ row.owner = task.owner /\ row.lease = task.lease
      BY <1>2, <1>3 DEF TaskRow, TaskStatuses, LeasedStatuses
    <3> HIDE DEF row
    <3> QED BY <1>1, <2>2, <3>1, TaskWriteEffect
  <2> QED BY <1>5, <2>1, <2>2 DEF PersistRoute, Transaction
<1>6. ASSUME ToolMarkTask(w) PROVE WorkerEffect(w)
  <2> DEFINE row == [task EXCEPT !.status = "running", !.current = NoStep]
  <2>1. CASE UNCHANGED storeVars
    BY <1>1, <2>1, NoEffect
  <2>2. CASE Owns(w) /\ UpdateTaskFenced(row)
    <3>1. /\ row \in TaskRow
          /\ row.status \in LeasedStatuses \cup {task.status}
          /\ row.version = task.version /\ row.owner = task.owner /\ row.lease = task.lease
      BY <1>2, <1>3 DEF TaskRow, TaskStatuses, LeasedStatuses
    <3> HIDE DEF row
    <3> QED BY <1>1, <2>2, <3>1, TaskWriteEffect
  <2> QED BY <1>6, <2>1, <2>2 DEF ToolMarkTask, Transaction
<1>7. ASSUME GateMarkTask(w) PROVE WorkerEffect(w)
  <2> DEFINE row == [task EXCEPT !.status = "waiting_approval", !.current = run[w].step]
  <2>1. CASE UNCHANGED storeVars
    BY <1>1, <2>1, NoEffect
  <2>2. CASE Owns(w) /\ UpdateTaskFenced(Released(row))
    <3>1. /\ row \in TaskRow
          /\ row.status \in {"waiting_approval", "failed", "succeeded"}
          /\ row.version = task.version
      BY <1>2, <1>3 DEF TaskRow, TaskStatuses
    <3> HIDE DEF row
    <3> QED BY <1>1, <2>2, <3>1, ReleaseEffect
  <2> QED BY <1>7, <2>1, <2>2 DEF GateMarkTask, Transaction
<1>8. ASSUME FailTask(w) PROVE WorkerEffect(w)
  <2> DEFINE row == [task EXCEPT !.status = "failed"]
  <2>1. CASE UNCHANGED storeVars
    BY <1>1, <2>1, NoEffect
  <2>2. CASE Owns(w) /\ UpdateTaskFenced(Released(row))
    <3>1. /\ row \in TaskRow
          /\ row.status \in {"waiting_approval", "failed", "succeeded"}
          /\ row.version = task.version
      BY <1>2, <1>3 DEF TaskRow, TaskStatuses
    <3> HIDE DEF row
    <3> QED BY <1>1, <2>2, <3>1, ReleaseEffect
  <2> QED BY <1>8, <2>1, <2>2 DEF FailTask, Transaction
<1>9. ASSUME FinalMarkTask(w) PROVE WorkerEffect(w)
  <2> DEFINE row == [task EXCEPT !.status = "succeeded", !.current = FinalId]
  <2>1. CASE UNCHANGED storeVars
    BY <1>1, <2>1, NoEffect
  <2>2. CASE Owns(w) /\ UpdateTaskFenced(Released(row))
    <3>1. /\ row \in TaskRow
          /\ row.status \in {"waiting_approval", "failed", "succeeded"}
          /\ row.version = task.version
      BY <1>2, <1>3 DEF TaskRow, TaskStatuses
    <3> HIDE DEF row
    <3> QED BY <1>1, <2>2, <3>1, ReleaseEffect
  <2> QED BY <1>9, <2>1, <2>2 DEF FinalMarkTask, Transaction
<1>10. ASSUME MarkRunFailedTask(w) PROVE WorkerEffect(w)
  <2> DEFINE row == [task EXCEPT !.status = "failed",
                  !.current = IF run[w].step = NoStep THEN @ ELSE run[w].step]
  <2>1. CASE UNCHANGED storeVars
    BY <1>1, <2>1, NoEffect
  <2>2. CASE Owns(w) /\ UpdateTaskFenced(Released(row))
    <3>1. /\ row \in TaskRow
          /\ row.status \in {"waiting_approval", "failed", "succeeded"}
          /\ row.version = task.version
      BY <1>2, <1>3 DEF TaskRow, TaskStatuses
    <3> HIDE DEF row
    <3> QED BY <1>1, <2>2, <3>1, ReleaseEffect
  <2> QED BY <1>10, <2>1, <2>2 DEF MarkRunFailedTask, Transaction
<1> QED
  BY <1>4, <1>5, <1>6, <1>7, <1>8, <1>9, <1>10

\* The transactions that pause the task, store the plan or a checkpoint.
LEMMA OtherActionsEffect ==
  ASSUME TypeOK, NEW w \in Workers
  PROVE  /\ RequirePolicyReview(w) => WorkerEffect(w)
         /\ MarkUnknown(w) => WorkerEffect(w)
         /\ MarkRunUnknown(w) => WorkerEffect(w)
         /\ PlanSave(w) => WorkerEffect(w)
         /\ SaveCheckpoint(w) => WorkerEffect(w)
         /\ SaveGateCheckpoint(w) => WorkerEffect(w)
<1>1. StoreType /\ RunType
  BY TypeGroups
<1>2. run[w].policy \in Policy
  BY <1>1 DEF RunType, Run, Runs
<1>3. ASSUME RequirePolicyReview(w) PROVE WorkerEffect(w)
  <2>1. CASE UNCHANGED storeVars
    BY <1>1, <2>1, NoEffect
  <2>2. CASE /\ MarkReviewOk(w, run[w].version, run[w].step)
             /\ MarkPolicyReviewFenced(run[w].step, run[w].policy)
    BY <1>1, <1>2, <2>2, ReviewEffect
  <2> QED BY <1>3, <2>1, <2>2 DEF RequirePolicyReview, Transaction
<1>4. ASSUME MarkUnknown(w) PROVE WorkerEffect(w)
  <2>1. CASE UNCHANGED storeVars
    BY <1>1, <2>1, NoEffect
  <2>2. CASE /\ MarkReviewOk(w, run[w].version, run[w].step)
             /\ MarkExecutionUnknownFenced(run[w].step)
    BY <1>1, <1>2, <2>2, ReviewEffect
  <2> QED BY <1>4, <2>1, <2>2 DEF MarkUnknown, Transaction
<1>5. ASSUME MarkRunUnknown(w) PROVE WorkerEffect(w)
  <2>1. CASE UNCHANGED storeVars
    BY <1>1, <2>1, NoEffect
  <2>2. CASE /\ MarkReviewOk(w, run[w].version, run[w].step)
             /\ MarkExecutionUnknownFenced(run[w].step)
    BY <1>1, <1>2, <2>2, ReviewEffect
  <2> QED BY <1>5, <2>1, <2>2 DEF MarkRunUnknown, Transaction
<1>6. ASSUME PlanSave(w) PROVE WorkerEffect(w)
  <2>1. CASE UNCHANGED storeVars
    BY <1>1, <2>1, NoEffect
  <2>2. ASSUME NEW plan \in Plans, SavePlanOk(w, run[w].version), SavePlan(plan)
        PROVE  WorkerEffect(w)
    BY <1>1, <2>2, SavePlanEffect
  <2> QED BY <1>6, <2>1, <2>2 DEF PlanSave, Transaction
<1>7. ASSUME SaveCheckpoint(w) PROVE WorkerEffect(w)
  <2>1. CASE UNCHANGED storeVars
    BY <1>1, <2>1, NoEffect
  <2>2. CASE SetCheckpoint("dispatch")
    BY <1>1, <2>2, CheckpointEffect DEF Cursors
  <2> QED BY <1>7, <2>1, <2>2 DEF SaveCheckpoint, Transaction
<1>8. ASSUME SaveGateCheckpoint(w) PROVE WorkerEffect(w)
  <2>1. CASE UNCHANGED storeVars
    BY <1>1, <2>1, NoEffect
  <2>2. CASE SetCheckpoint("gate")
    BY <1>1, <2>2, CheckpointEffect DEF Cursors
  <2> QED BY <1>8, <2>1, <2>2 DEF SaveGateCheckpoint, Transaction
<1> QED
  BY <1>3, <1>4, <1>5, <1>6, <1>7, <1>8

\* Whatever a run does, the rows see one of four things: nothing, a
\* checkpoint, a write under the lease, or the write that gives it up.
LEMMA WorkerStepEffect ==
  ASSUME TypeOK, NEW w \in Workers, WorkerStep(w)
  PROVE  WorkerEffect(w)
<1>1. StoreType
  BY TypeGroups
<1> QED
  BY <1>1, LocalActionsEffect, StepActionsEffect, TaskActionsEffect, OtherActionsEffect
  DEF WorkerStep

-----------------------------------------------------------------------------
(* What each action of a worker does to its run.                           *)

\* Fixed program counters: the two outcomes of each transaction.
LEMMA FixedMovesType ==
  ASSUME RunType, NEW w \in Workers
  PROVE  /\ SaveCheckpoint(w) => RunType'
         /\ SaveGateCheckpoint(w) => RunType'
         /\ PlanMarkTask(w) => RunType'
         /\ PlanMarkStep(w) => RunType'
         /\ PlanSave(w) => RunType'
         /\ GateMarkStep(w) => RunType'
         /\ GateMarkTask(w) => RunType'
         /\ ToolMarkRunning(w) => RunType'
         /\ RequirePolicyReview(w) => RunType'
         /\ ToolMarkTask(w) => RunType'
         /\ MarkUnknown(w) => RunType'
         /\ FailStep(w) => RunType'
         /\ FailTask(w) => RunType'
         /\ FinalMarkRunning(w) => RunType'
         /\ FinalMarkSucceeded(w) => RunType'
         /\ FinalMarkTask(w) => RunType'
         /\ MarkRunUnknown(w) => RunType'
         /\ MarkRunFailedStep(w) => RunType'
         /\ MarkRunFailedTask(w) => RunType'
         /\ PlanRead(w) => RunType'
         /\ PlanFails(w) => RunType'
         /\ ToolCheckFails(w) => RunType'
         /\ CallTool(w) => RunType'
         /\ FinalGenerate(w) => RunType'
<1>1. GraphPcs \subseteq Pcs /\ MarkPcs \subseteq Pcs
  BY DEF Pcs
<1>2. {"save", "reload", "planTask", "planStep", "planSave", "gateTask", "saveGate",
       "toolChecks", "calling", "failStep", "failTask", "finalGen", "finalDone",
       "finalTask"} \subseteq GraphPcs \ {"routeWrite"}
  BY DEF GraphPcs
<1>3. "markTask" \in MarkPcs \ {"routeWrite"}
  BY DEF MarkPcs
<1> DEFINE Moved == \/ Exit(w) \/ Fail(w)
                    \/ \E pc \in Pcs \ {"routeWrite"} : Goto(w, pc) \/ Enter(w, pc)
<1>4. Moved => RunType'
  BY MovesType
<1>5. SaveCheckpoint(w) => Moved
  BY <1>1, <1>2, <1>3 DEF SaveCheckpoint, Transaction
<1>6. SaveGateCheckpoint(w) => Moved
  BY <1>1, <1>2, <1>3 DEF SaveGateCheckpoint, Transaction
<1>7. PlanMarkTask(w) => Moved
  BY <1>1, <1>2, <1>3 DEF PlanMarkTask, Transaction
<1>8. PlanMarkStep(w) => Moved
  BY <1>1, <1>2, <1>3 DEF PlanMarkStep, Transaction
<1>9. PlanSave(w) => Moved
  BY <1>1, <1>2, <1>3 DEF PlanSave, Transaction
<1>10. GateMarkStep(w) => Moved
  BY <1>1, <1>2, <1>3 DEF GateMarkStep, Transaction
<1>11. GateMarkTask(w) => Moved
  BY <1>1, <1>2, <1>3 DEF GateMarkTask, Transaction
<1>12. ToolMarkRunning(w) => Moved
  BY <1>1, <1>2, <1>3 DEF ToolMarkRunning, Transaction
<1>13. RequirePolicyReview(w) => Moved
  BY <1>1, <1>2, <1>3 DEF RequirePolicyReview, Transaction
<1>14. ToolMarkTask(w) => Moved
  BY <1>1, <1>2, <1>3 DEF ToolMarkTask, Transaction
<1>15. MarkUnknown(w) => Moved
  BY <1>1, <1>2, <1>3 DEF MarkUnknown, Transaction
<1>16. FailStep(w) => Moved
  BY <1>1, <1>2, <1>3 DEF FailStep, Transaction
<1>17. FailTask(w) => Moved
  BY <1>1, <1>2, <1>3 DEF FailTask, Transaction
<1>18. FinalMarkRunning(w) => Moved
  BY <1>1, <1>2, <1>3 DEF FinalMarkRunning, Transaction
<1>19. FinalMarkSucceeded(w) => Moved
  BY <1>1, <1>2, <1>3 DEF FinalMarkSucceeded, Transaction
<1>20. FinalMarkTask(w) => Moved
  BY <1>1, <1>2, <1>3 DEF FinalMarkTask, Transaction
<1>21. MarkRunUnknown(w) => Moved
  BY <1>1, <1>2, <1>3 DEF MarkRunUnknown, Transaction
<1>22. MarkRunFailedStep(w) => Moved
  BY <1>1, <1>2, <1>3 DEF MarkRunFailedStep, Transaction
<1>23. MarkRunFailedTask(w) => Moved
  BY <1>1, <1>2, <1>3 DEF MarkRunFailedTask, Transaction
<1>24. PlanRead(w) => Moved
  BY <1>1, <1>2, <1>3 DEF PlanRead, Local
<1>25. PlanFails(w) => Moved
  BY <1>1, <1>2, <1>3 DEF PlanFails, Local
<1>26. ToolCheckFails(w) => Moved
  BY <1>1, <1>2, <1>3 DEF ToolCheckFails, Local
<1>27. CallTool(w) => Moved
  BY <1>1, <1>2, <1>3 DEF CallTool, Local
<1>28. FinalGenerate(w) => Moved
  BY <1>1, <1>2, <1>3 DEF FinalGenerate, Local
<1> HIDE DEF Moved
<1> QED
  BY <1>4, <1>5, <1>6, <1>7, <1>8, <1>9, <1>10, <1>11, <1>12, <1>13, <1>14,
     <1>15, <1>16, <1>17, <1>18, <1>19, <1>20, <1>21, <1>22, <1>23, <1>24,
     <1>25, <1>26, <1>27, <1>28

\* Steps that are picked from the rows are sequence numbers.
LEMMA PickedSteps ==
  ASSUME StoreType
  PROVE  /\ Selected \in 0..NoStep
         /\ CurrentFailureStep \in 0..NoStep
<1>1. StepIds \subseteq 0..NoStep /\ FinalId \in 0..NoStep /\ NoStep \in 0..NoStep
  BY MaxToolsAssumption DEF StepIds, FinalId, NoStep
<1>2. OpenTools # {} => Lowest(OpenTools) \in StepIds
  <2>1. OpenTools \subseteq StepIds
    BY MaxToolsAssumption DEF OpenTools, ToolIds, StepIds, FinalId
  <2> QED BY <2>1, LowestIn
<1>3. OpenSteps # {} => Lowest(OpenSteps) \in StepIds
  <2>1. OpenSteps \subseteq StepIds
    BY DEF OpenSteps
  <2> QED BY <2>1, LowestIn
<1>4. task.current \in 0..NoStep
  BY DEF StoreType, TaskRow
<1> QED
  BY <1>1, <1>2, <1>3, <1>4 DEF Selected, CurrentFailureStep

\* Moves that depend on the rows the run reads.
LEMMA ReadMovesType ==
  ASSUME TypeOK, NEW w \in Workers
  PROVE  /\ ReadClaimed(w) => RunType'
         /\ LoadCheckpoint(w) => RunType'
         /\ ReloadCheckpoint(w) => RunType'
         /\ Dispatch(w) => RunType'
         /\ PersistRoute(w) => RunType'
         /\ GateRead(w) => RunType'
         /\ ToolRead(w) => RunType'
         /\ ToolPolicyChanged(w) => RunType'
         /\ ToolReturns(w) => RunType'
         /\ ToolMarkSucceeded(w) => RunType'
         /\ FinalizeRead(w) => RunType'
         /\ MarkRunFailedRead(w) => RunType'
<1>1. StoreType /\ RunType
  BY TypeGroups
<1>2. {"plan", "dispatch", "gate", "tool", "finalize", "toolDone", "failStep", "unknown"}
        \subseteq Pcs \ {"routeWrite"}
  BY DEF Pcs, GraphPcs
<1>3. /\ task.version \in Nat
      /\ task.cursor \in {"none", "dispatch", "gate"}
      /\ task.current \in 0..NoStep
  BY <1>1 DEF StoreType, TaskRow, Cursors
<1>4. run[w] \in Run
  BY <1>1 DEF RunType
<1>5. ASSUME NEW r \in Run, run' = [run EXCEPT ![w] = r]
      PROVE  RunType'
  BY <1>1, <1>5 DEF RunType
<1>6. ASSUME ReadClaimed(w) PROVE RunType'
  <2>1. [run[w] EXCEPT !.pc = "load", !.version = task.version] \in Run
    BY <1>3, <1>4 DEF Run, Runs, Pcs, GraphPcs
  <2>2. run' = [run EXCEPT ![w] = [run[w] EXCEPT !.pc = "load", !.version = task.version]]
    BY <1>1, <1>6 DEF ReadClaimed, Local, RunType
  <2> QED BY <1>5, <2>1, <2>2
<1>7. LoadCheckpoint(w) => RunType'
  BY <1>1, <1>2, <1>3, MovesType DEF LoadCheckpoint, Local
<1>8. ReloadCheckpoint(w) => RunType'
  BY <1>1, <1>2, <1>3, MovesType DEF ReloadCheckpoint, Local
<1>9. ASSUME Dispatch(w) PROVE RunType'
  <2> DEFINE r == [run[w] EXCEPT
         !.step = Selected,
         !.route = RouteOf(Selected),
         !.pc = IF task.current = Selected THEN RouteOf(Selected) ELSE "routeWrite"]
  <2>1. CASE Exit(w) \/ Fail(w)
    BY <1>1, <2>1, MovesType
  <2>2. CASE run' = [run EXCEPT ![w] = r]
    <3>1. RouteOf(Selected) \in {"gate", "tool", "finalize"}
      BY DEF RouteOf
    <3>2. "routeWrite" \in Pcs
      BY DEF Pcs, GraphPcs
    <3>3. r \in Run
      BY <1>1, <1>2, <1>4, <3>1, <3>2, PickedSteps DEF Run, Runs
    <3> HIDE DEF r
    <3> QED BY <1>5, <2>2, <3>3
  <2>3. \/ Exit(w) \/ Fail(w)
        \/ run' = [run EXCEPT
             ![w].step = Selected,
             ![w].route = RouteOf(Selected),
             ![w].pc = IF task.current = Selected THEN RouteOf(Selected) ELSE "routeWrite"]
    BY <1>9 DEF Dispatch, Local, NextRoute
  <2>4. CASE run' = [run EXCEPT
             ![w].step = Selected,
             ![w].route = RouteOf(Selected),
             ![w].pc = IF task.current = Selected THEN RouteOf(Selected) ELSE "routeWrite"]
    BY <1>1, <2>2, <2>4 DEF RunType
  <2> QED BY <2>1, <2>3, <2>4
<1>10. ASSUME PersistRoute(w) PROVE RunType'
  <2>1. run[w].route \in {"gate", "tool", "finalize"}
    BY <1>4, <1>10 DEF PersistRoute, At, Run, Runs
  <2> QED BY <1>1, <1>2, <1>10, <2>1, MovesType DEF PersistRoute, Transaction
<1>11. ASSUME GateRead(w) PROVE RunType'
  <2> DEFINE pc == IF steps[task.current].status = "waiting_approval"
                   THEN "gateTask" ELSE "gateStep"
             r == [run[w] EXCEPT !.step = task.current, !.pc = pc]
  <2>1. CASE Exit(w) \/ Fail(w) \/ Enter(w, "dispatch")
    BY <1>1, <1>2, <2>1, MovesType
  <2>2. CASE run' = [run EXCEPT ![w] = r]
    <3>1. pc \in Pcs \ {"routeWrite"}
      BY DEF Pcs, GraphPcs
    <3>2. r \in Run
      <4> HIDE DEF pc
      <4> QED BY <1>3, <1>4, <3>1 DEF Run, Runs
    <3> HIDE DEF r
    <3> QED BY <1>5, <2>2, <3>2
  <2>3. \/ Exit(w) \/ Fail(w) \/ Enter(w, "dispatch")
        \/ run' = [run EXCEPT ![w].step = task.current, ![w].pc = pc]
    BY <1>11 DEF GateRead, Local
  <2>4. run' = [run EXCEPT ![w].step = task.current, ![w].pc = pc] => run' = [run EXCEPT ![w] = r]
    BY <1>1 DEF RunType
  <2> QED BY <2>1, <2>2, <2>3, <2>4
<1>12. ASSUME ToolRead(w) PROVE RunType'
  <2> DEFINE row == steps[task.current]
             op == IF row.operation = 0 THEN run[w].version ELSE row.operation
             r == [run[w] EXCEPT !.pc = "toolStart", !.step = task.current,
                                 !.policy = row.policy, !.operation = op]
  <2>1. CASE Fail(w)
    BY <1>1, <2>1, MovesType
  <2>2. CASE /\ CurrentToolStep
             /\ run' = [run EXCEPT ![w].pc = "toolStart", ![w].step = task.current,
                                   ![w].policy = row.policy, ![w].operation = op]
    <3>1. row \in StepRow
      BY <1>1, <2>2, MaxToolsAssumption DEF CurrentToolStep, ToolIds, StoreType, StepIds, FinalId
    <3>2. row.policy \in Policy /\ op \in Nat
      BY <1>4, <3>1 DEF StepRow, Run, Runs
    <3>3. "toolStart" \in Pcs \ {"routeWrite"}
      BY DEF Pcs, GraphPcs
    <3>4. run' = [run EXCEPT ![w] = r]
      BY <1>1, <2>2 DEF RunType
    <3>5. r \in Run
      <4> HIDE DEF row, op
      <4> QED BY <1>3, <1>4, <3>2, <3>3 DEF Run, Runs
    <3> HIDE DEF r
    <3> QED BY <1>5, <3>4, <3>5
  <2> QED BY <1>12, <2>1, <2>2 DEF ToolRead, Local
<1>13. ASSUME ToolPolicyChanged(w) PROVE RunType'
  <2>1. PICK p \in Policy :
          run' = [run EXCEPT ![w].pc = "policyReview", ![w].policy = p]
    BY <1>13, PoliciesAssumption DEF ToolPolicyChanged, Local
  <2>2. run' = [run EXCEPT ![w] = [run[w] EXCEPT !.pc = "policyReview", !.policy = p]]
    BY <1>1, <2>1 DEF RunType
  <2>3. [run[w] EXCEPT !.pc = "policyReview", !.policy = p] \in Run
    BY <1>4 DEF Run, Runs, Pcs, GraphPcs
  <2> QED BY <1>5, <2>2, <2>3
<1>14. AfterInvokedFailure(w) \in Pcs \ {"routeWrite"}
  BY <1>2 DEF AfterInvokedFailure
<1>15. ToolReturns(w) => RunType'
  BY <1>1, <1>2, <1>14, MovesType DEF ToolReturns, Local
<1>16. ToolMarkSucceeded(w) => RunType'
  <2>1. "toolTask" \in Pcs \ {"routeWrite"}
    BY DEF Pcs, GraphPcs
  <2> QED BY <1>1, <1>14, <2>1, MovesType DEF ToolMarkSucceeded, Transaction
<1>17. ASSUME FinalizeRead(w) PROVE RunType'
  <2>1. CASE Exit(w) \/ Fail(w)
    BY <1>1, <2>1, MovesType
  <2>2. CASE run' = [run EXCEPT ![w].pc = "finalStart", ![w].step = FinalId]
    <3>1. run' = [run EXCEPT ![w] = [run[w] EXCEPT !.pc = "finalStart", !.step = FinalId]]
      BY <1>1, <2>2 DEF RunType
    <3>2. FinalId \in 0..NoStep
      BY MaxToolsAssumption DEF FinalId, NoStep
    <3>3. [run[w] EXCEPT !.pc = "finalStart", !.step = FinalId] \in Run
      BY <1>4, <3>2 DEF Run, Runs, Pcs, GraphPcs
    <3> QED BY <1>5, <3>1, <3>3
  <2> QED BY <1>17, <2>1, <2>2 DEF FinalizeRead, Local
<1>18. ASSUME MarkRunFailedRead(w) PROVE RunType'
  <2> DEFINE i == CurrentFailureStep
             pc == IF i = NoStep \/ steps[i].status \in {"failed", "execution_unknown"}
                   THEN "markTask"
                   ELSE IF i \in ToolIds /\ steps[i].status = "running"
                                         /\ ~ReplaySafe(steps[i].policy)
                   THEN "markUnknown"
                   ELSE "markStep"
             r == [run[w] EXCEPT !.step = i, !.pc = pc]
  <2>1. CASE Exit(w)
    BY <1>1, <2>1, MovesType
  <2>2. CASE run' = [run EXCEPT ![w].step = i, ![w].pc = pc]
    <3>1. i \in 0..NoStep
      BY <1>1, PickedSteps
    <3>2. pc \in Pcs \ {"routeWrite"}
      BY DEF Pcs, MarkPcs
    <3>3. run' = [run EXCEPT ![w] = r]
      BY <1>1, <2>2 DEF RunType
    <3>4. r \in Run
      <4> HIDE DEF i, pc
      <4> QED BY <1>4, <3>1, <3>2 DEF Run, Runs
    <3> HIDE DEF r
    <3> QED BY <1>5, <3>3, <3>4
  <2> QED BY <1>18, <2>1, <2>2 DEF MarkRunFailedRead, Local
<1> QED
  BY <1>6, <1>7, <1>8, <1>9, <1>10, <1>11, <1>12, <1>13, <1>15, <1>16, <1>17, <1>18

\* A run stays well typed through every step of its worker.
LEMMA WorkerStepMoves ==
  ASSUME TypeOK, NEW w \in Workers, WorkerStep(w)
  PROVE  RunType'
<1>1. RunType
  BY TypeGroups
<1> QED
  BY <1>1, FixedMovesType, ReadMovesType DEF WorkerStep

-----------------------------------------------------------------------------
(* Everything else that happens to the rows.                               *)

\* The task leaves whoever had it.
TakenAway(from, to, version) ==
  /\ task.status \in from
  /\ task'.status \in to
  /\ task'.version = version
  /\ task'.owner = NoWorker
  /\ task'.lease = "none"

OutsideEffect ==
  /\ StoreType'
  /\ \/ /\ task.status = "absent" /\ task'.status = "pending"
        /\ task'.version = task.version
        /\ task'.owner = task.owner /\ task'.lease = task.lease
     \/ /\ task.status = "pending" /\ task'.status = "running"
        /\ task'.version = task.version + 1
        /\ task'.owner \in Workers /\ task'.lease = "live"
     \/ /\ task.lease = "live" /\ UNCHANGED steps
        /\ task' = [task EXCEPT !.lease = "expired"]
     \/ TakenAway(LeasedStatuses, {"pending", "requires_review"}, task.version + 1)
     \/ TakenAway({"waiting_approval"}, {"pending"}, task.version)
     \/ TakenAway({"waiting_approval"}, {"rejected"}, task.version + 1)
     \/ TakenAway({"failed", "requires_review"}, {"pending"}, task.version + 1)
     \/ TakenAway(TaskStatuses \ {"absent", "cancelled", "succeeded", "rejected"},
                  {"cancelled"}, task.version + 1)

\* CreateTask inserts the task row and the planning step.
LEMMA CreateEffect ==
  ASSUME StoreType, CreateTaskWithInitialStep
  PROVE  OutsideEffect
<1>1. NewStep("pending", PlainPolicy) \in StepRow
  BY DEF NewStep, PlainPolicy, StepRow, StepStatuses, Policy
<1>2. PlanId \in 0..NoStep
  BY MaxToolsAssumption DEF PlanId, NoStep
<1>3. StoreType'
  BY <1>1, <1>2 DEF StoreType, CreateTaskWithInitialStep, TaskRow, TaskStatuses
<1> QED
  BY <1>3 DEF OutsideEffect, StoreType, CreateTaskWithInitialStep, TaskRow

\* ClaimTask takes a pending task under the next run_version.
LEMMA ClaimEffect ==
  ASSUME StoreType, NEW w \in Workers, ClaimTask(w)
  PROVE  OutsideEffect
<1>1. task.version + 1 \in Nat
  BY DEF StoreType, TaskRow
<1>2. StoreType'
  BY <1>1 DEF StoreType, ClaimTask, TaskRow, TaskStatuses
<1> QED
  BY <1>2 DEF OutsideEffect, StoreType, ClaimTask, TaskRow

\* The lease runs out.
LEMMA ExpiryEffect ==
  ASSUME StoreType, task.lease = "live", UNCHANGED steps,
         task' = [task EXCEPT !.lease = "expired"]
  PROVE  OutsideEffect
<1>1. StoreType'
  BY DEF StoreType, TaskRow
<1> QED
  BY <1>1 DEF OutsideEffect

\* recoverLockedTask moves a leased task to the queue or to a human.
LEMMA RecoverEffect ==
  ASSUME StoreType, task.status \in LeasedStatuses, RecoverLockedTask
  PROVE  OutsideEffect
<1> DEFINE status == IF UnsafeRunning = {} THEN "pending" ELSE "requires_review"
           current == IF UnsafeRunning # {} THEN Highest(UnsafeRunning)
                      ELSE IF task.current = NoStep /\ RunningSteps # {}
                           THEN Lowest(RunningSteps) ELSE task.current
           row == [task EXCEPT !.status = status, !.current = current,
                               !.version = @ + 1, !.cursor = "none"]
<1>1. steps' \in [StepIds -> StepRow]
  <2>1. \A i \in StepIds, s \in StepStatuses : [steps[i] EXCEPT !.status = s] \in StepRow
    BY DEF StoreType, StepRow
  <2>2. "pending" \in StepStatuses /\ "execution_unknown" \in StepStatuses
    BY DEF StepStatuses
  <2> QED BY <2>1, <2>2 DEF RecoverLockedTask, StoreType
<1>2. status \in {"pending", "requires_review"}
  OBVIOUS
<1>3. current \in 0..NoStep
  <2>1. RunningSteps \subseteq StepIds /\ UnsafeRunning \subseteq StepIds
    BY DEF RunningSteps, UnsafeRunning
  <2>2. UnsafeRunning # {} => Highest(UnsafeRunning) \in StepIds
    BY <2>1, HighestIn
  <2>3. RunningSteps # {} => Lowest(RunningSteps) \in StepIds
    BY <2>1, LowestIn
  <2>4. StepIds \subseteq 0..NoStep
    BY MaxToolsAssumption DEF StepIds, FinalId, NoStep
  <2>5. task.current \in 0..NoStep
    BY DEF StoreType, TaskRow
  <2> QED BY <2>2, <2>3, <2>4, <2>5
<1>4. task' = Released(row)
  BY DEF RecoverLockedTask
<1>5. row \in TaskRow /\ row.status = status /\ row.version = task.version + 1
  <2>1. task.version + 1 \in Nat
    BY DEF StoreType, TaskRow
  <2>2. status \in TaskStatuses
    BY <1>2 DEF TaskStatuses
  <2> HIDE DEF status, current
  <2> QED BY <1>3, <2>1, <2>2 DEF StoreType, TaskRow, Cursors
<1> HIDE DEF status, current, row
<1> QED
  BY <1>1, <1>2, <1>4, <1>5, ReleasedRow DEF OutsideEffect, StoreType, TakenAway

\* The owner's decision at the approval gate.
LEMMA DecisionEffect ==
  ASSUME StoreType, NEW i \in ToolIds, NEW decision \in {"approved", "rejected"},
         UpdateOwnedStepDecision(i, decision)
  PROVE  OutsideEffect
<1> DEFINE moved == [task EXCEPT !.current = i, !.cursor = "none"]
<1>1. i \in StepIds /\ i \in 0..NoStep
  BY MaxToolsAssumption DEF ToolIds, StepIds, FinalId, NoStep
<1>2. steps' \in [StepIds -> StepRow]
  <2>1. steps' = [steps EXCEPT ![i] = [steps[i] EXCEPT !.status = decision,
                                                       !.decision = decision]]
    BY <1>1 DEF UpdateOwnedStepDecision, StoreType
  <2>2. [steps[i] EXCEPT !.status = decision, !.decision = decision] \in StepRow
    BY <1>1 DEF StoreType, StepRow, StepStatuses
  <2> QED BY <2>1, <2>2 DEF StoreType
<1>3. moved \in TaskRow /\ moved.version = task.version
  BY <1>1 DEF StoreType, TaskRow, Cursors
<1>4. /\ Released(moved) \in TaskRow
      /\ Released(moved).owner = NoWorker
      /\ Released(moved).lease = "none"
      /\ Released(moved).version = task.version
  <2> HIDE DEF moved
  <2> QED BY <1>3, ReleasedRow
<1>5. task' = IF decision = "rejected"
              THEN [Released(moved) EXCEPT !.status = "rejected", !.version = @ + 1]
              ELSE [Released(moved) EXCEPT !.status = "pending"]
  BY DEF UpdateOwnedStepDecision
<1>6. task.status = "waiting_approval"
  BY DEF UpdateOwnedStepDecision
<1>7. task.version + 1 \in Nat
  BY DEF StoreType, TaskRow
<1> HIDE DEF moved
<1>8. CASE decision = "rejected"
  BY <1>2, <1>4, <1>5, <1>6, <1>7, <1>8
  DEF OutsideEffect, StoreType, TakenAway, TaskRow, TaskStatuses
<1>9. CASE decision = "approved"
  BY <1>2, <1>4, <1>5, <1>6, <1>9
  DEF OutsideEffect, StoreType, TakenAway, TaskRow, TaskStatuses
<1> QED
  BY <1>8, <1>9

\* The owner's resume of a failed task or of an unknown outcome.
LEMMA ResumeEffect ==
  ASSUME StoreType, NEW i \in StepIds, NEW retryUnknown \in BOOLEAN,
         ResumeOwnedTask(i, retryUnknown)
  PROVE  OutsideEffect
<1> DEFINE row == [task EXCEPT !.status = "pending", !.current = i,
                               !.version = @ + 1, !.cursor = "none"]
<1>1. i \in 0..NoStep
  BY MaxToolsAssumption DEF StepIds, FinalId, NoStep
<1>2. steps' \in [StepIds -> StepRow]
  BY DEF ResumeOwnedTask, StoreType, StepRow, StepStatuses
<1>3. row \in TaskRow /\ row.status = "pending" /\ row.version = task.version + 1
  <2>1. task.version + 1 \in Nat
    BY DEF StoreType, TaskRow
  <2> QED BY <1>1, <2>1 DEF StoreType, TaskRow, TaskStatuses, Cursors
<1>4. task' = Released(row) /\ task.status \in {"failed", "requires_review"}
  BY DEF ResumeOwnedTask, TaskCanResume
<1> HIDE DEF row
<1> QED
  BY <1>2, <1>3, <1>4, ReleasedRow DEF OutsideEffect, StoreType, TakenAway

\* The owner's cancellation.
LEMMA CancelEffect ==
  ASSUME StoreType, CancelOwnedTask
  PROVE  OutsideEffect
<1> DEFINE row == [task EXCEPT !.status = "cancelled", !.version = @ + 1]
<1>1. steps' \in [StepIds -> StepRow]
  <2>1. \A i \in StepIds : CancelledStep(i) \in StepRow
    BY DEF CancelledStep, StoreType, StepRow, StepStatuses
  <2> QED BY <2>1 DEF CancelOwnedTask
<1>2. row \in TaskRow /\ row.status = "cancelled" /\ row.version = task.version + 1
  <2>1. task.version + 1 \in Nat
    BY DEF StoreType, TaskRow
  <2> QED BY <2>1 DEF StoreType, TaskRow, TaskStatuses
<1>3. /\ task' = Released(row)
      /\ task.status \in TaskStatuses \ {"absent", "cancelled", "succeeded", "rejected"}
  BY DEF CancelOwnedTask, StoreType, TaskRow
<1> HIDE DEF row
<1> QED
  BY <1>1, <1>2, <1>3, ReleasedRow DEF OutsideEffect, StoreType, TakenAway

-----------------------------------------------------------------------------
(* Budgets and observers.                                                  *)

\* A worker's step spends at most one statement failure and records at most
\* the call it issues.
LEMMA WorkerStepRest ==
  ASSUME TypeOK, NEW w \in Workers, WorkerStep(w)
  PROVE  RestType'
<1>1. RestType
  BY TypeGroups
<1>2. ASSUME UNCHANGED <<cancelling, observers>>, UNCHANGED used \/ SpendDbFault
      PROVE  RestType'
  BY <1>1, <1>2 DEF RestType, observers, SpendDbFault, Budgets
<1>3. ASSUME CallTool(w)
      PROVE  RestType'
  <2>1. run[w].step \in ToolIds => calls[run[w].step] + 1 \in Nat
    BY <1>1 DEF RestType
  <2>2. calls' \in [ToolIds -> Nat]
    BY <1>1, <1>3, <2>1 DEF RestType, CallTool
  <2> QED BY <1>1, <1>3, <2>2 DEF RestType, CallTool
<1>4. ASSUME
        \/ ReadClaimed(w) \/ LoadCheckpoint(w) \/ ReloadCheckpoint(w)
        \/ PlanRead(w) \/ PlanFails(w) \/ Dispatch(w) \/ GateRead(w)
        \/ ToolRead(w) \/ ToolCheckFails(w) \/ ToolPolicyChanged(w)
        \/ ToolReturns(w) \/ FinalizeRead(w) \/ FinalGenerate(w)
        \/ MarkRunFailedRead(w)
      PROVE  UNCHANGED <<cancelling, observers>> /\ UNCHANGED used
  BY <1>4 DEF ReadClaimed, LoadCheckpoint, ReloadCheckpoint, PlanRead,
      PlanFails, Dispatch, GateRead, ToolRead, ToolCheckFails,
      ToolPolicyChanged, ToolReturns, FinalizeRead, FinalGenerate,
      MarkRunFailedRead, Local
<1>5. ASSUME
        \/ SaveCheckpoint(w) \/ SaveGateCheckpoint(w) \/ PlanMarkTask(w)
        \/ PlanMarkStep(w) \/ PlanSave(w) \/ PersistRoute(w)
        \/ GateMarkStep(w) \/ GateMarkTask(w) \/ ToolMarkRunning(w)
        \/ RequirePolicyReview(w) \/ ToolMarkSucceeded(w) \/ ToolMarkTask(w)
        \/ MarkUnknown(w) \/ FailStep(w) \/ FailTask(w)
        \/ FinalMarkRunning(w) \/ FinalMarkSucceeded(w) \/ FinalMarkTask(w)
        \/ MarkRunUnknown(w) \/ MarkRunFailedStep(w) \/ MarkRunFailedTask(w)
      PROVE  UNCHANGED <<cancelling, observers>> /\ (UNCHANGED used \/ SpendDbFault)
  BY <1>5 DEF SaveCheckpoint, SaveGateCheckpoint, PlanMarkTask, PlanMarkStep,
      PlanSave, PersistRoute, GateMarkStep, GateMarkTask, ToolMarkRunning,
      RequirePolicyReview, ToolMarkSucceeded, ToolMarkTask, MarkUnknown,
      FailStep, FailTask, FinalMarkRunning, FinalMarkSucceeded, FinalMarkTask,
      MarkRunUnknown, MarkRunFailedStep, MarkRunFailedTask, Transaction
<1> QED
  BY <1>2, <1>3, <1>4, <1>5 DEF WorkerStep

\* Polls and disturbances spend at most one failure; a claim and a crash only
\* move the run.
LEMMA PollType ==
  ASSUME TypeOK, NEW w \in Workers, Poll(w) \/ Disturb(w)
  PROVE  TypeOK' /\ (UNCHANGED storeVars \/ OutsideEffect)
<1>1. StoreType /\ RunType /\ RestType
  BY TypeGroups
<1>2. ASSUME UNCHANGED <<cancelling, observers>>,
             UNCHANGED used \/ SpendDbFault \/ SpendCrash
      PROVE  RestType'
  BY <1>1, <1>2 DEF RestType, observers, SpendDbFault, SpendCrash, Budgets
<1>3. UNCHANGED storeVars => StoreType'
  BY <1>1 DEF StoreType, storeVars
<1>4. OutsideEffect => StoreType'
  BY DEF OutsideEffect
<1>5. "claimed" \in Pcs \ {"routeWrite"}
  BY DEF Pcs
<1>6. UNCHANGED run => RunType'
  BY <1>1 DEF RunType
<1>7. CASE Claim(w)
  BY <1>1, <1>2, <1>4, <1>5, <1>7, MovesType, ClaimEffect, TypeGroupsNext DEF Claim
<1>8. CASE RecoverStaleTasks(w) \/ RecoverWithSkewedClock(w)
  BY <1>1, <1>2, <1>4, <1>6, <1>8, RecoverEffect, TypeGroupsNext
  DEF RecoverStaleTasks, RecoverWithSkewedClock, StaleTask
<1>9. CASE LeaseHeartbeat(w)
  BY <1>1, <1>2, <1>3, <1>9, MovesType, TypeGroupsNext DEF LeaseHeartbeat, Local
<1>10. CASE Crash(w)
  BY <1>1, <1>2, <1>3, <1>10, MovesType, TypeGroupsNext DEF Crash
<1>11. CASE ReadFails(w)
  BY <1>1, <1>2, <1>3, <1>11, MovesType, TypeGroupsNext DEF ReadFails
<1> QED
  BY <1>7, <1>8, <1>9, <1>10, <1>11 DEF Poll, Disturb

\* The passing of time and the owner's calls.
LEMMA OwnerType ==
  ASSUME TypeOK, LeaseRunsOut \/ HolderStalls \/ OwnerStep
  PROVE  TypeOK' /\ (UNCHANGED storeVars \/ OutsideEffect)
<1>1. StoreType /\ RunType /\ RestType
  BY TypeGroups
<1>2. UNCHANGED storeVars => StoreType'
  BY <1>1 DEF StoreType, storeVars
<1>3. OutsideEffect => StoreType'
  BY DEF OutsideEffect
<1>4. UNCHANGED run => RunType'
  BY <1>1 DEF RunType
<1>5. CASE LeaseRunsOut \/ HolderStalls
  <2>1. RestType'
    BY <1>1, <1>5 DEF LeaseRunsOut, HolderStalls, RestType, observers, runVars,
                      SpendCrash, Budgets
  <2>2. UNCHANGED run
    BY <1>5 DEF LeaseRunsOut, HolderStalls, runVars
  <2> QED BY <1>1, <1>3, <1>4, <1>5, <2>1, <2>2, ExpiryEffect, TypeGroupsNext
          DEF LeaseRunsOut, HolderStalls
<1>6. CASE CreateTask
  <2>1. UNCHANGED run /\ RestType'
    BY <1>1, <1>6 DEF CreateTask, RestType, runVars, observers
  <2> QED BY <1>1, <1>3, <1>4, <1>6, <2>1, CreateEffect, TypeGroupsNext DEF CreateTask
<1>7. ASSUME NEW i \in ToolIds, ApproveTask(i)
      PROVE  TypeOK' /\ OutsideEffect
  <2>1. i \in StepIds
    BY MaxToolsAssumption DEF ToolIds, StepIds, FinalId
  <2>2. steps[i].policy \in Policy
    BY <1>1, <2>1 DEF StoreType, StepRow
  <2>3. UNCHANGED run /\ RestType'
    BY <1>1, <1>7, <2>2 DEF ApproveTask, RestType, runVars
  <2> QED BY <1>1, <1>3, <1>4, <1>7, <2>3, DecisionEffect, TypeGroupsNext DEF ApproveTask
<1>8. ASSUME NEW i \in ToolIds, RejectTask(i)
      PROVE  TypeOK' /\ OutsideEffect
  <2>1. UNCHANGED run /\ RestType'
    BY <1>1, <1>8 DEF RejectTask, RestType, runVars, observers
  <2> QED BY <1>1, <1>3, <1>4, <1>8, <2>1, DecisionEffect, TypeGroupsNext DEF RejectTask
<1>9. ASSUME NEW i \in StepIds, NEW retryUnknown \in BOOLEAN, ResumeTask(i, retryUnknown)
      PROVE  TypeOK' /\ OutsideEffect
  <2>1. used' \in Budgets
    BY <1>1, <1>9 DEF ResumeTask, RestType, Budgets
  <2>2. retries' \in [StepIds -> Nat]
    BY <1>1, <1>9 DEF ResumeTask, RestType
  <2>3. UNCHANGED run /\ RestType'
    BY <1>1, <1>9, <2>1, <2>2 DEF ResumeTask, RestType
  <2> QED BY <1>1, <1>3, <1>4, <1>9, <2>3, ResumeEffect, TypeGroupsNext DEF ResumeTask
<1>10. CASE CancelTaskRead \/ CancelTaskConflict
  <2>1. UNCHANGED run /\ UNCHANGED storeVars /\ RestType'
    BY <1>1, <1>10 DEF CancelTaskRead, CancelTaskConflict, RestType, observers
  <2> QED BY <1>2, <1>4, <2>1, TypeGroupsNext
<1>11. CASE CancelTask
  <2>1. UNCHANGED run /\ RestType'
    BY <1>1, <1>11 DEF CancelTask, RestType, observers
  <2> QED BY <1>1, <1>3, <1>4, <1>11, <2>1, CancelEffect, TypeGroupsNext DEF CancelTask
<1> QED
  BY <1>5, <1>6, <1>7, <1>8, <1>9, <1>10, <1>11 DEF OwnerStep

\* Every step keeps the types, and changes the rows in one of the ways above.
LEMMA NextEffect ==
  ASSUME TypeOK, Next
  PROVE  /\ TypeOK'
         /\ UNCHANGED storeVars \/ OutsideEffect \/ \E w \in Workers : WorkerEffect(w)
<1>1. ASSUME NEW w \in Workers, WorkerStep(w)
      PROVE  TypeOK' /\ WorkerEffect(w)
  <2>1. WorkerEffect(w) /\ RunType' /\ RestType'
    BY <1>1, WorkerStepEffect, WorkerStepMoves, WorkerStepRest
  <2>2. StoreType'
    BY <2>1 DEF WorkerEffect
  <2> QED BY <2>1, <2>2, TypeGroupsNext
<1> QED
  BY <1>1, PollType, OwnerType DEF Next

-----------------------------------------------------------------------------
(* Type correctness.                                                       *)

\* Every variable of the Agent keeps its type.
THEOREM TypeCorrect == Spec => []TypeOK
<1>1. Init => TypeOK
  <2> SUFFICES ASSUME Init PROVE TypeOK
    OBVIOUS
  <2>1. StoreType
    BY MaxToolsAssumption DEF Init, StoreInit, StoreType, TaskRow, StepRow, NoRow, NewStep,
       PlainPolicy, Policy, TaskStatuses, StepStatuses, Cursors, NoStep
  <2>2. RunType
    BY MaxToolsAssumption DEF Init, RunType, IdleRun, Run, Runs, PlainPolicy, Policy,
       NoStep, Pcs
  <2>3. RestType
    BY DEF Init, RestType, Budgets
  <2> QED BY <2>1, <2>2, <2>3, TypeGroups
<1>2. TypeOK /\ [Next]_vars => TypeOK'
  <2>1. TypeOK /\ UNCHANGED vars => TypeOK'
    BY DEF TypeOK, vars
  <2> QED BY <2>1, NextEffect
<1> QED
  BY <1>1, <1>2, PTL DEF Spec

-----------------------------------------------------------------------------
(* Ownership.                                                              *)

\* A worker that passes the lease fence is writing a running or planning task.
LEMMA OwnerHolds ==
  ASSUME LeaseDiscipline, NEW w \in Workers, Owns(w)
  PROVE  task.status \in LeasedStatuses
BY WorkersAssumption DEF LeaseDiscipline, Owns, ActiveLease

\* One step preserves the lease discipline.
LEMMA LeaseStep ==
  ASSUME TypeOK, LeaseDiscipline, Next
  PROVE  LeaseDiscipline'
<1>1. CASE UNCHANGED storeVars
  BY <1>1 DEF LeaseDiscipline, storeVars
<1>2. ASSUME NEW w \in Workers, WorkerEffect(w)
      PROVE  LeaseDiscipline'
  <2>1. CASE UNCHANGED storeVars
    BY <2>1 DEF LeaseDiscipline, storeVars
  <2>2. CASE CheckpointWrite
    BY <2>2 DEF LeaseDiscipline, CheckpointWrite, TypeOK, TaskRow
  <2>3. CASE HoldingWrite(w)
    BY <2>3, OwnerHolds DEF LeaseDiscipline, HoldingWrite
  <2>4. CASE HandOver(w)
    BY <2>4 DEF LeaseDiscipline, HandOver, LeasedStatuses
  <2> QED BY <1>2, <2>1, <2>2, <2>3, <2>4 DEF WorkerEffect
<1>3. CASE OutsideEffect
  <2>1. CASE task.lease = "live" /\ task' = [task EXCEPT !.lease = "expired"]
    BY <2>1 DEF LeaseDiscipline, TypeOK, TaskRow
  <2> QED
    BY <1>3, <2>1, WorkersAssumption
    DEF LeaseDiscipline, OutsideEffect, TakenAway, LeasedStatuses
<1> QED
  BY <1>1, <1>2, <1>3, NextEffect

\* A task has a lease exactly while it is running or planning, so no fenced
\* write ever reaches a queued, waiting or finished task.
THEOREM LeaseHeldWhileRunning == Spec => []LeaseDiscipline
<1>1. Init => LeaseDiscipline
  BY DEF Init, StoreInit, LeaseDiscipline, LeasedStatuses
<1>2. TypeOK /\ LeaseDiscipline /\ [Next]_vars => LeaseDiscipline'
  <2>1. LeaseDiscipline /\ UNCHANGED vars => LeaseDiscipline'
    BY DEF LeaseDiscipline, vars
  <2> QED BY <2>1, LeaseStep
<1> QED
  BY <1>1, <1>2, TypeCorrect, PTL DEF Spec

-----------------------------------------------------------------------------
(* Finality.                                                               *)

EndedStep ==
  task.status \in {"succeeded", "rejected", "cancelled"} =>
    /\ UNCHANGED steps
    /\ task' = [task EXCEPT !.cursor = task'.cursor]

\* A step from an ended task changes at most its checkpoint.
LEMMA EndedStays ==
  ASSUME TypeOK, LeaseDiscipline, [Next]_vars
  PROVE  EndedStep
<1>1. UNCHANGED storeVars => EndedStep
  BY DEF EndedStep, storeVars, TypeOK, TaskRow
<1>2. ASSUME NEW w \in Workers, WorkerEffect(w)
      PROVE  EndedStep
  <2>1. CASE CheckpointWrite
    BY <2>1 DEF EndedStep, CheckpointWrite, TypeOK, TaskRow
  <2>2. CASE HoldingWrite(w) \/ HandOver(w)
    BY <2>2, OwnerHolds DEF EndedStep, HoldingWrite, HandOver, LeasedStatuses
  <2> QED BY <1>1, <1>2, <2>1, <2>2 DEF WorkerEffect
<1>3. OutsideEffect => EndedStep
  BY WorkersAssumption DEF OutsideEffect, TakenAway, EndedStep, LeaseDiscipline, LeasedStatuses
<1>4. UNCHANGED vars => UNCHANGED storeVars
  BY DEF vars, storeVars
<1> QED
  BY <1>1, <1>2, <1>3, <1>4, NextEffect

\* Once a task has succeeded, was rejected or was cancelled, no worker, no
\* recovery and no API call changes its rows again.
THEOREM EndedTasksAreFinal == Spec => EndedIsFinal
<1>1. TypeOK /\ LeaseDiscipline /\ [Next]_vars => [EndedStep]_vars
  BY EndedStays
<1> QED
  BY <1>1, TypeCorrect, LeaseHeldWhileRunning, PTL DEF Spec, EndedIsFinal, EndedStep

-----------------------------------------------------------------------------
(* The Agent implements AgentLifecycle.                                    *)

\* A step of the Agent is a step of the lifecycle or leaves it alone.
LEMMA LifecycleStep ==
  ASSUME TypeOK, LeaseDiscipline, [Next]_vars
  PROVE  [Lifecycle!LifecycleNext]_Lifecycle!lifecycleVars
<1> DEFINE Same == /\ task'.owner = task.owner
                   /\ task'.version = task.version
                   /\ PhaseOf(task.status)' = PhaseOf(task.status)
<1>1. Same => UNCHANGED Lifecycle!lifecycleVars
  BY DEF Lifecycle!lifecycleVars
<1>2. UNCHANGED storeVars => Same
  BY DEF storeVars, PhaseOf
<1>3. ASSUME NEW w \in Workers, WorkerEffect(w)
      PROVE  Same \/ Lifecycle!LifecycleNext
  <2>1. CASE CheckpointWrite
    BY <2>1 DEF CheckpointWrite, TypeOK, TaskRow, PhaseOf
  <2>2. CASE HoldingWrite(w)
    BY <2>2, OwnerHolds DEF HoldingWrite, PhaseOf, LeasedStatuses
  <2>3. CASE HandOver(w)
    <3>1. PhaseOf(task.status) = "held"
      BY <2>3, OwnerHolds DEF HandOver, PhaseOf, LeasedStatuses
    <3> QED
      BY <2>3, <3>1
      DEF HandOver, PhaseOf, LeasedStatuses, Lifecycle!LifecycleNext, Lifecycle!Release,
          Lifecycle!Revoke, Lifecycle!LetGo
  <2> QED BY <1>2, <1>3, <2>1, <2>2, <2>3 DEF WorkerEffect
<1>4. CASE OutsideEffect
  <2>1. CASE task' = [task EXCEPT !.lease = "expired"]
    BY <1>1, <2>1 DEF TypeOK, TaskRow, PhaseOf
  <2>2. CASE task.status = "absent" /\ task'.status = "pending"
             /\ task'.version = task.version /\ task'.owner = task.owner
    BY <2>2 DEF PhaseOf, LeaseDiscipline, LeasedStatuses, Lifecycle!LifecycleNext,
                Lifecycle!Submit, Lifecycle!LetGo
  <2>3. CASE task.status = "pending" /\ task'.status = "running"
             /\ task'.version = task.version + 1 /\ task'.owner \in Workers
    BY <2>3 DEF PhaseOf, LeasedStatuses, Lifecycle!LifecycleNext, Lifecycle!Acquire
  <2>4. CASE TakenAway(LeasedStatuses, {"pending", "requires_review"}, task.version + 1)
    BY <2>4 DEF TakenAway, PhaseOf, LeasedStatuses, Lifecycle!LifecycleNext,
                Lifecycle!Revoke, Lifecycle!LetGo
  <2>5. CASE TakenAway({"waiting_approval"}, {"pending"}, task.version)
    BY <2>5 DEF TakenAway, PhaseOf, LeasedStatuses, Lifecycle!LifecycleNext,
                Lifecycle!Approve, Lifecycle!LetGo
  <2>6. CASE TakenAway({"waiting_approval"}, {"rejected"}, task.version + 1)
    BY <2>6 DEF TakenAway, PhaseOf, LeasedStatuses, Lifecycle!LifecycleNext,
                Lifecycle!End, Lifecycle!LetGo, Lifecycle!Phases
  <2>7. CASE TakenAway({"failed", "requires_review"}, {"pending"}, task.version + 1)
    BY <2>7 DEF TakenAway, PhaseOf, LeasedStatuses, Lifecycle!LifecycleNext,
                Lifecycle!Revoke, Lifecycle!LetGo
  <2>8. CASE TakenAway(TaskStatuses \ {"absent", "cancelled", "succeeded", "rejected"},
                       {"cancelled"}, task.version + 1)
    BY <2>8 DEF TakenAway, PhaseOf, LeasedStatuses, TaskStatuses,
                Lifecycle!LifecycleNext, Lifecycle!End, Lifecycle!LetGo, Lifecycle!Phases
  <2> QED BY <1>4, <2>1, <2>2, <2>3, <2>4, <2>5, <2>6, <2>7, <2>8 DEF OutsideEffect
<1>5. UNCHANGED vars => UNCHANGED storeVars
  BY DEF vars, storeVars
<1> HIDE DEF Same
<1> QED
  BY <1>1, <1>2, <1>3, <1>4, <1>5, NextEffect

\* Leases, recovery, approvals and cancellation, with every crash, stall and
\* failed statement, implement the lifecycle: one holder at a time, each under
\* a fencing token nobody had before.
THEOREM AgentImplementsLifecycle == Spec => ImplementsLifecycle
<1>1. Init => Lifecycle!LifecycleInit
  BY DEF Init, StoreInit, Lifecycle!LifecycleInit, PhaseOf, LeasedStatuses
<1>2. TypeOK /\ LeaseDiscipline /\ [Next]_vars
        => [Lifecycle!LifecycleNext]_Lifecycle!lifecycleVars
  BY LifecycleStep
<1> QED
  BY <1>1, <1>2, TypeCorrect, LeaseHeldWhileRunning, PTL
  DEF Spec, ImplementsLifecycle, Lifecycle!LifecycleSpec
=============================================================================
