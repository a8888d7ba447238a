------------------------- MODULE AgentSafetyProofs --------------------------
(***************************************************************************)
(* Proofs about what the Agent does to its steps: no side effect is        *)
(* repeated unasked, no call goes out unapproved, one step runs at a time, *)
(* unknown outcomes wait for a human, success is complete.                 *)
(*                                                                         *)
(* Only the worker that holds the lease under its own run_version writes   *)
(* step rows, so what it has read stays true for as long as it holds the   *)
(* task.  Fit(r) says what a run r at each program counter relies on;      *)
(* HolderInv claims it for the holder alone, and nothing for a run that    *)
(* lost its lease.                                                         *)
(***************************************************************************)
EXTENDS AgentProofs, FiniteSetTheorems

-----------------------------------------------------------------------------
(* The inductive invariant.                                                *)

\* Statuses from which a step may be started.
Startable == {"pending", "approved", "waiting_approval"}

NothingRuns == RunningSteps = {}
Unplanned == \A i \in StepIds \ {PlanId} : ~Present(i)
ToolsDone == \A i \in ToolIds : steps[i].status \in {"absent", "succeeded"}

\* The running step is the current one, and runs only while somebody holds the
\* task or after a failure whose own record failed.
RunningIsCurrent ==
  /\ RunningSteps \subseteq {task.current}
  /\ task.status \notin LeasedStatuses \cup {"failed"} => NothingRuns

\* Rows appear with the plan, and end one by one only when the task ends.
RowsFitTask ==
  /\ \A i \in StepIds : ~Present(i) => steps[i] = NoRow
  /\ task.status = "absent" => \A i \in StepIds : ~Present(i)
  /\ task.status # "absent" => Present(PlanId)
  /\ task.status \notin {"rejected", "cancelled"} =>
       \A i \in StepIds : steps[i].status \notin {"rejected", "skipped"}
  /\ steps[PlanId].status = "succeeded" => Present(FinalId)

\* A gated tool runs, and has run, with the approval on its row.
RanApproved ==
  \A i \in ToolIds :
    steps[i].status \in {"running", "succeeded"} /\ steps[i].policy.requiresApproval =>
      steps[i].decision = "approved"

\* With every statement carried out, a failed task points at its failed step.
FailureOnRecord ==
  task.status = "failed" /\ MaxDbFaults = 0 =>
    task.current \in StepIds /\ steps[task.current].status = "failed"

RowInv ==
  /\ RunningIsCurrent
  /\ UnknownNeedsHuman
  /\ RowsFitTask
  /\ RanApproved
  /\ FailureOnRecord
  /\ SucceededIsComplete

\* Places at which the holder has no step under way.
QuietPcs == {"load", "plan", "planTask", "planStep", "save", "reload", "dispatch",
             "routeWrite", "gate", "gateStep", "gateTask", "saveGate", "tool",
             "toolStart", "toolTask", "finalize", "finalStart", "finalTask"}

\* The tool step a run has read is still the row it read.
OnTool(r) ==
  /\ r.step \in ToolIds /\ task.current = r.step
  /\ steps[r.step].policy = r.policy

FitPlan(r) ==
  /\ r.pc \in {"planTask", "planStep", "planSave"} => Unplanned
  /\ r.pc \in {"planStep", "planSave"} => task.current = PlanId

FitRoute(r) ==
  /\ r.pc = "routeWrite" /\ r.route = "tool" =>
       r.step \in ToolIds /\ steps[r.step].status \in Startable
  /\ r.pc = "routeWrite" /\ r.route = "finalize" => r.step = FinalId /\ ToolsDone
  /\ r.pc = "tool" => task.current \in ToolIds /\ steps[task.current].status \in Startable
  /\ r.pc = "gateStep" => /\ r.step \in ToolIds
                          /\ steps[r.step].status \in Startable \cup {"failed"}

FitTool(r) ==
  /\ r.pc = "toolStart" =>
       /\ OnTool(r)
       /\ steps[r.step].status \in Startable
       /\ steps[r.step].operation \in {0, r.operation}
       /\ r.policy.requiresApproval => steps[r.step].decision = "approved"
  /\ r.pc \in {"toolChecks", "calling", "toolDone"} =>
       OnTool(r) /\ steps[r.step].status = "running"

FitFinal(r) ==
  /\ r.pc \in {"finalize", "finalStart", "finalGen", "finalDone", "finalTask"} =>
       ToolsDone /\ task.current = FinalId
  /\ r.pc \in {"finalStart", "finalGen"} => r.step = FinalId
  /\ r.pc = "finalGen" => steps[FinalId].status = "running"
  /\ r.pc = "finalTask" => steps[FinalId].status = "succeeded"

\* A step is marked failed by the run that started it.  The record of a success
\* may be there already when its reply was lost; it is overwritten only where
\* the tool may be called again.
FitFailure(r) ==
  /\ r.pc = "failStep" =>
       /\ task.current = r.step
       /\ \/ r.step = FinalId /\ steps[r.step].status = "running"
          \/ OnTool(r) /\ steps[r.step].status = "running"
          \/ /\ OnTool(r) /\ steps[r.step].status = "succeeded"
             /\ ReplaySafe(r.policy) /\ MaxDbFaults # 0
  /\ r.pc = "failTask" /\ MaxDbFaults = 0 =>
       task.current \in StepIds /\ steps[task.current].status = "failed"
  /\ r.pc \in {"markStep", "markTask"} =>
       r.step \in StepIds /\ RunningSteps \subseteq {r.step}
  /\ r.pc = "markStep" /\ r.step \in ToolIds =>
       \/ steps[r.step].status \in Startable
       \/ steps[r.step].status = "running" /\ ReplaySafe(steps[r.step].policy)
  /\ r.pc = "markTask" /\ MaxDbFaults = 0 => steps[r.step].status = "failed"

Fit(r) ==
  /\ r.pc \in QuietPcs => NothingRuns
  /\ FitPlan(r)
  /\ FitRoute(r)
  /\ FitTool(r)
  /\ FitFinal(r)
  /\ FitFailure(r)

\* The claim is made and its run_version not read back yet.
FreshClaim(w) == At(w, "claimed") /\ task.owner = w /\ task.lease = "live"

HolderInv ==
  \A w \in Workers : /\ Owns(w) => Fit(run[w])
                     /\ FreshClaim(w) => NothingRuns

\* Approvals, for every run: what it read may be out of date, but it was
\* approved when it was read.
ApprovalInv ==
  /\ \A i \in ToolIds :
       steps[i].decision = "approved" => steps[i].policy \in approvedUnder[i]
  /\ \A w \in Workers : run[w].pc \in {"toolStart", "toolChecks", "calling"} =>
       /\ run[w].step \in ToolIds
       /\ run[w].policy.requiresApproval => run[w].policy \in approvedUnder[run[w].step]

\* Runs about to call a tool that must not be called twice, the holder or not.
AboutToCall(i) ==
  {w \in Workers : At(w, "toolChecks") /\ run[w].step = i /\ ~ReplaySafe(run[w].policy)}

\* Calls made and calls that will be made.
Due(i) == calls[i] + Cardinality(AboutToCall(i))

\* A step may be started again as it stands.
Restartable(i) ==
  /\ ~ReplaySafe(steps[i].policy)
  /\ steps[i].status \in Startable \cup {"absent", "failed"}

\* A call is due only if the first one or a retry the owner asked for is left,
\* and a step that can start again still has one to spend.
CallInv ==
  /\ \A i \in ToolIds :
       /\ IsFiniteSet(AboutToCall(i))
       /\ Due(i) <= 1 + retries[i]
       /\ Restartable(i) => Due(i) <= retries[i]
  /\ \A w \in Workers :
       Owns(w) /\ At(w, "failStep") /\ run[w].step \in ToolIds /\ ~ReplaySafe(run[w].policy)
         => Due(run[w].step) <= retries[run[w].step]

Safe == RowInv /\ HolderInv /\ ApprovalInv /\ CallInv

IInv == TypeOK /\ LeaseDiscipline /\ Safe

-----------------------------------------------------------------------------
(* Sequence numbers, and what a step that moves one run leaves alone.      *)

\* The plan step, the tool steps and the final step have their own numbers.
LEMMA Ids ==
  /\ ToolIds \subseteq StepIds /\ PlanId \in StepIds /\ FinalId \in StepIds
  /\ NoStep \notin StepIds /\ PlanId \notin ToolIds /\ FinalId \notin ToolIds
  /\ PlanId # FinalId /\ NoStep # FinalId /\ NoStep \notin ToolIds
  /\ StepIds = ToolIds \cup {PlanId, FinalId}
  /\ StepIds \subseteq 0..NoStep
BY MaxToolsAssumption DEF ToolIds, StepIds, PlanId, FinalId, NoStep

\* The rows are as they were, the checkpoint perhaps excepted.
SameRows ==
  /\ UNCHANGED steps
  /\ task'.status = task.status /\ task'.current = task.current
  /\ task'.version = task.version /\ task'.owner = task.owner
  /\ task'.lease = task.lease

\* What a run relies on is still true when the rows are the same.
LEMMA SameRowsKeepFit ==
  ASSUME SameRows
  PROVE  /\ \A r : Fit(r) => Fit(r)'
         /\ NothingRuns' <=> NothingRuns
<1>1. UNCHANGED <<RunningSteps, Unplanned, ToolsDone>> /\ UNCHANGED NothingRuns
  BY DEF SameRows, RunningSteps, Unplanned, ToolsDone, NothingRuns, Present
<1>2. \A r : /\ FitPlan(r) => FitPlan(r)'
             /\ FitFinal(r) => FitFinal(r)'
  BY <1>1 DEF SameRows, FitPlan, FitFinal
<1>3. \A r : /\ FitRoute(r) => FitRoute(r)'
             /\ FitTool(r) => FitTool(r)'
  BY <1>1 DEF SameRows, FitRoute, FitTool, OnTool
<1>4. \A r : FitFailure(r) => FitFailure(r)'
  BY <1>1 DEF SameRows, FitFailure, OnTool
<1> QED
  BY <1>1, <1>2, <1>3, <1>4 DEF Fit

\* So is what the rows say of the task.
LEMMA SameRowsKeepRows ==
  ASSUME SameRows, RowInv
  PROVE  RowInv'
<1>1. RunningIsCurrent'
  BY DEF SameRows, RowInv, RunningIsCurrent, RunningSteps, NothingRuns
<1>2. UnknownNeedsHuman'
  BY DEF SameRows, RowInv, UnknownNeedsHuman
<1>3. RowsFitTask'
  BY DEF SameRows, RowInv, RowsFitTask, Present
<1>4. RanApproved' /\ FailureOnRecord' /\ SucceededIsComplete'
  BY DEF SameRows, RowInv, RanApproved, FailureOnRecord, SucceededIsComplete
<1> QED
  BY <1>1, <1>2, <1>3, <1>4 DEF RowInv

\* A worker holds the task under its token, alone.
LEMMA OneHolder ==
  ASSUME NEW v, NEW w, Owns(v), Owns(w) \/ FreshClaim(w)
  PROVE  v = w
BY DEF Owns, ActiveLease, FreshClaim

\* One run moves, and either no row changes or it is the holder's own write.
LEMMA HolderKeeps ==
  ASSUME RunType, HolderInv, NEW w \in Workers, NEW t,
         run' = [run EXCEPT ![w] = t],
         SameRows \/ (Owns(w) /\ task'.owner \in {w, NoWorker}),
         Owns(w)' => Fit(t)',
         t.pc # "claimed"
  PROVE  HolderInv'
<1>1. run'[w] = t /\ \A v \in Workers : v # w => run'[v] = run[v]
  BY DEF RunType
<1>2. ~FreshClaim(w)'
  BY <1>1 DEF FreshClaim, At
<1>3. ASSUME NEW v \in Workers, v # w
      PROVE  /\ Owns(v)' => Fit(run[v])'
             /\ FreshClaim(v)' => NothingRuns'
  <2>1. CASE SameRows
    <3>1. Owns(v)' => Owns(v)
      BY <1>1, <1>3, <2>1 DEF Owns, ActiveLease, SameRows
    <3>2. FreshClaim(v)' => FreshClaim(v)
      BY <1>1, <1>3, <2>1 DEF FreshClaim, SameRows, At
    <3> QED BY <2>1, <3>1, <3>2, SameRowsKeepFit DEF HolderInv
  <2>2. CASE task'.owner \in {w, NoWorker}
    BY <1>3, <2>2, WorkersAssumption DEF Owns, ActiveLease, FreshClaim
  <2> QED BY <2>1, <2>2
<1>4. \A v \in Workers : v # w => (Owns(v)' => Fit(run[v])')
  BY <1>3
<1>5. Owns(w)' => Fit(run[w])'
  BY <1>1
<1> QED
  BY <1>2, <1>3, <1>4, <1>5 DEF HolderInv

\* Fewer runs about to call, and no call recorded: fewer calls due.
LEMMA DueFalls ==
  ASSUME NEW i \in ToolIds, RestType, IsFiniteSet(AboutToCall(i)),
         AboutToCall(i)' \subseteq AboutToCall(i), calls' = calls
  PROVE  /\ IsFiniteSet(AboutToCall(i))'
         /\ Due(i) \in Nat /\ Due(i)' \in Nat
         /\ Due(i)' <= Due(i)
<1> DEFINE A == AboutToCall(i)
           B == AboutToCall(i)'
<1>1. calls[i] \in Nat
  BY DEF RestType
<1>2. /\ IsFiniteSet(B)
      /\ Cardinality(A) \in Nat /\ Cardinality(B) \in Nat
      /\ Cardinality(B) <= Cardinality(A)
  <2>1. IsFiniteSet(A) /\ B \subseteq A
    OBVIOUS
  <2> HIDE DEF A, B
  <2> QED BY <2>1, FS_Subset, FS_CardinalityType
<1>3. Due(i) = calls[i] + Cardinality(A) /\ Due(i)' = calls[i] + Cardinality(B)
  BY DEF Due
<1>4. Due(i) \in Nat /\ Due(i)' \in Nat /\ Due(i)' <= Due(i)
  <2> HIDE DEF A, B
  <2> QED BY <1>1, <1>2, <1>3
<1> QED
  BY <1>2, <1>4

\* What is due is a number.
LEMMA DueType ==
  ASSUME RestType, CallInv, NEW i \in ToolIds
  PROVE  Due(i) \in Nat /\ retries[i] \in Nat /\ IsFiniteSet(AboutToCall(i))
<1>1. IsFiniteSet(AboutToCall(i))
  BY DEF CallInv
<1>2. Cardinality(AboutToCall(i)) \in Nat
  BY <1>1, FS_CardinalityType
<1>3. calls[i] \in Nat /\ retries[i] \in Nat
  BY Ids DEF RestType
<1> QED
  BY <1>1, <1>2, <1>3 DEF Due

\* One run moves, no more calls are due than before, and a step that has become
\* startable has one to spend.
LEMMA CallFrom ==
  ASSUME RunType, RestType, CallInv, NEW w \in Workers, NEW t,
         run' = [run EXCEPT ![w] = t], retries' = retries,
         SameRows \/ (Owns(w) /\ task'.owner \in {w, NoWorker}),
         \A i \in ToolIds : /\ IsFiniteSet(AboutToCall(i))'
                            /\ Due(i)' \in Nat
                            /\ Due(i)' <= Due(i),
         Owns(w)' /\ t.pc = "failStep" /\ t.step \in ToolIds /\ ~ReplaySafe(t.policy) =>
           Due(t.step)' <= retries[t.step],
         \A i \in ToolIds : Restartable(i)' => Restartable(i) \/ Due(i) <= retries[i]
  PROVE  CallInv'
<1>1. run'[w] = t /\ \A v \in Workers : v # w => run'[v] = run[v]
  BY DEF RunType
<1>4. ASSUME NEW i \in ToolIds
      PROVE  /\ IsFiniteSet(AboutToCall(i))'
             /\ Due(i) \in Nat /\ Due(i)' \in Nat /\ retries[i] \in Nat
             /\ Due(i)' <= Due(i)
  BY DueType
<1>5. ASSUME NEW i \in ToolIds
      PROVE  /\ Due(i)' <= 1 + retries'[i]
             /\ Restartable(i)' => Due(i)' <= retries'[i]
  <2>1. Due(i) <= 1 + retries[i] /\ (Restartable(i) => Due(i) <= retries[i])
    BY DEF CallInv
  <2>2. Restartable(i)' => Due(i) <= retries[i]
    BY <2>1
  <2> QED BY <1>4, <2>1, <2>2
<1>6. ASSUME NEW v \in Workers, Owns(v)', run'[v].pc = "failStep",
             run'[v].step \in ToolIds, ~ReplaySafe(run'[v].policy)
      PROVE  Due(run[v].step)' <= retries'[run'[v].step]
  <2>0. PICK i \in ToolIds : i = run'[v].step
    BY <1>6
  <2>1. CASE v = w
    <3>1. Due(i)' <= retries'[i]
      BY <1>1, <1>6, <2>0, <2>1
    <3> QED BY <2>0, <3>1 DEF Due, AboutToCall
  <2>2. CASE v # w
    <3>2. run'[v] = run[v]
      BY <1>1, <2>2
    <3>3. SameRows
      BY <1>6, <2>2, WorkersAssumption DEF Owns, ActiveLease
    <3>4. Owns(v)
      BY <1>6, <3>2, <3>3 DEF Owns, ActiveLease, SameRows
    <3>6. Due(i) <= retries[i]
      BY <1>6, <2>0, <3>2, <3>4 DEF CallInv, At
    <3>7. Due(i)' <= retries'[i]
      BY <1>4, <3>6
    <3> QED BY <2>0, <3>7 DEF Due, AboutToCall
  <2> QED BY <2>1, <2>2
<1>7. \A v \in Workers :
        Owns(v)' /\ At(v, "failStep")' /\ run'[v].step \in ToolIds
          /\ ~ReplaySafe(run'[v].policy) => Due(run[v].step)' <= retries'[run'[v].step]
  BY <1>6 DEF At
<1>8. \A i \in ToolIds : IsFiniteSet(AboutToCall(i))'
  BY <1>4
<1> QED
  BY <1>5, <1>7, <1>8 DEF CallInv, ReplaySafe

\* One run moves to a place other than the checks before a call.
LEMMA CallKeeps ==
  ASSUME RunType, RestType, CallInv, NEW w \in Workers, NEW t,
         run' = [run EXCEPT ![w] = t],
         UNCHANGED observers,
         SameRows \/ (Owns(w) /\ task'.owner \in {w, NoWorker}),
         t.pc # "toolChecks",
         Owns(w)' /\ t.pc = "failStep" => t.step \notin ToolIds \/ ReplaySafe(t.policy),
         \A i \in ToolIds : Restartable(i)' => Restartable(i) \/ Due(i) <= retries[i]
  PROVE  CallInv'
<1>1. run'[w] = t /\ \A v \in Workers : v # w => run'[v] = run[v]
  BY DEF RunType
<1>2. calls' = calls /\ retries' = retries
  BY DEF observers
<1>3. \A i \in ToolIds : AboutToCall(i)' \subseteq AboutToCall(i)
  BY <1>1 DEF AboutToCall, At, ReplaySafe
<1>4. \A i \in ToolIds : /\ IsFiniteSet(AboutToCall(i))'
                         /\ Due(i)' \in Nat
                         /\ Due(i)' <= Due(i)
  BY <1>2, <1>3, DueFalls, DueType
<1> QED
  BY <1>2, <1>4, CallFrom

\* Approvals only grow, and the rows keep what was approved.
LEMMA ApprovalKeeps ==
  ASSUME RunType, ApprovalInv, NEW w \in Workers, NEW t,
         run' = [run EXCEPT ![w] = t],
         UNCHANGED approvedUnder,
         \A i \in ToolIds : steps'[i].decision = "approved" =>
           steps[i].decision = "approved" /\ steps'[i].policy = steps[i].policy,
         t.pc \in {"toolStart", "toolChecks", "calling"} =>
           /\ t.step \in ToolIds
           /\ t.policy.requiresApproval => t.policy \in approvedUnder[t.step]
  PROVE  ApprovalInv'
<1>1. run'[w] = t /\ \A v \in Workers : v # w => run'[v] = run[v]
  BY DEF RunType
<1>2. \A i \in ToolIds :
        steps'[i].decision = "approved" => steps'[i].policy \in approvedUnder'[i]
  BY DEF ApprovalInv
<1>3. ASSUME NEW v \in Workers, run'[v].pc \in {"toolStart", "toolChecks", "calling"}
      PROVE  /\ run'[v].step \in ToolIds
             /\ run'[v].policy.requiresApproval =>
                  run'[v].policy \in approvedUnder'[run'[v].step]
  <2>1. CASE v = w
    BY <1>1, <1>3, <2>1
  <2>2. CASE v # w
    BY <1>1, <1>3, <2>2 DEF ApprovalInv
  <2> QED BY <2>1, <2>2
<1> QED
  BY <1>2, <1>3 DEF ApprovalInv

\* A run moves and no row changes.
LEMMA MoveKeeps ==
  ASSUME TypeOK, Safe, NEW w \in Workers, NEW t,
         run' = [run EXCEPT ![w] = t], SameRows, UNCHANGED observers,
         Owns(w)' => Fit(t),
         t.pc \notin {"claimed", "toolChecks"},
         Owns(w)' /\ t.pc = "failStep" => t.step \notin ToolIds \/ ReplaySafe(t.policy),
         t.pc \in {"toolStart", "calling"} =>
           /\ t.step \in ToolIds
           /\ t.policy.requiresApproval => t.policy \in approvedUnder[t.step]
  PROVE  Safe'
<1>1. RunType /\ RestType
  BY TypeGroups
<1>2. RowInv'
  BY SameRowsKeepRows DEF Safe
<1>3. HolderInv'
  BY <1>1, HolderKeeps, SameRowsKeepFit DEF Safe
<1>4. \A i \in ToolIds : Restartable(i)' => Restartable(i)
  BY DEF Restartable, SameRows
<1>5. CallInv'
  BY <1>1, <1>4, CallKeeps DEF Safe
<1>6. ApprovalInv'
  BY <1>1, ApprovalKeeps DEF Safe, SameRows, observers
<1> QED
  BY <1>2, <1>3, <1>5, <1>6 DEF Safe

\* The holder writes a row.
LEMMA WriteKeeps ==
  ASSUME TypeOK, Safe, NEW w \in Workers, NEW t,
         run' = [run EXCEPT ![w] = t], UNCHANGED observers,
         Owns(w), task'.owner \in {w, NoWorker},
         RowInv',
         Owns(w)' => Fit(t)',
         t.pc \notin {"claimed", "toolStart", "toolChecks", "calling"},
         Owns(w)' /\ t.pc = "failStep" => t.step \notin ToolIds \/ ReplaySafe(t.policy),
         \A i \in ToolIds : steps'[i].decision = "approved" =>
           steps[i].decision = "approved" /\ steps'[i].policy = steps[i].policy,
         \A i \in ToolIds : Restartable(i)' => Restartable(i) \/ Due(i) <= retries[i]
  PROVE  Safe'
<1>1. RunType /\ RestType
  BY TypeGroups
<1>2. HolderInv'
  BY <1>1, HolderKeeps DEF Safe
<1>3. CallInv'
  BY <1>1, CallKeeps DEF Safe
<1>4. ApprovalInv'
  BY <1>1, ApprovalKeeps DEF Safe, observers
<1> QED
  BY <1>2, <1>3, <1>4 DEF Safe

-----------------------------------------------------------------------------
(* What a write does to the rows.                                          *)

\* While somebody holds the task no outcome is unknown, and no step is
\* rejected or skipped.
LEMMA HeldRows ==
  ASSUME RowInv, task.status \in LeasedStatuses
  PROVE  /\ \A i \in StepIds : steps[i].status \notin
              {"execution_unknown", "rejected", "skipped"}
         /\ Present(PlanId)
BY DEF RowInv, UnknownNeedsHuman, RowsFitTask, LeasedStatuses

\* The holder writes one step row.
LEMMA RowWrite ==
  ASSUME TypeOK, RowInv, task.status \in LeasedStatuses,
         NEW i \in StepIds, NEW row \in StepRow,
         steps' = [steps EXCEPT ![i] = row], UNCHANGED task,
         row.policy = steps[i].policy, row.decision = steps[i].decision,
         row.status \in {"running", "waiting_approval", "succeeded", "failed"},
         row.status = "running" => NothingRuns /\ i = task.current,
         row.status = "succeeded" => i # PlanId,
         row.status \in {"running", "succeeded"} /\ i \in ToolIds
           /\ row.policy.requiresApproval => row.decision = "approved"
  PROVE  RowInv'
<1>1. steps'[i] = row /\ \A j \in StepIds : j # i => steps'[j] = steps[j]
  BY DEF TypeOK
<1>2. task.status \in {"running", "planning"}
  BY DEF LeasedStatuses
<1>3. RunningSteps' \subseteq {task.current}
  <2>1. CASE row.status = "running"
    BY <1>1, <2>1 DEF RunningSteps, NothingRuns
  <2>2. CASE row.status # "running"
    <3>1. RunningSteps' \subseteq RunningSteps
      BY <1>1, <2>2 DEF RunningSteps
    <3> QED BY <3>1 DEF RowInv, RunningIsCurrent
  <2> QED BY <2>1, <2>2
<1>4. RunningIsCurrent'
  BY <1>2, <1>3 DEF RunningIsCurrent, LeasedStatuses
<1>5. UnknownNeedsHuman'
  BY <1>1, <1>2, HeldRows DEF UnknownNeedsHuman
<1>6. RowsFitTask'
  <2>1. row.status # "absent" /\ row.status \notin {"rejected", "skipped"}
    OBVIOUS
  <2>2. \A j \in StepIds : ~Present(j)' => ~Present(j) /\ steps'[j] = steps[j]
    BY <1>1, <2>1 DEF Present
  <2>3. \A j \in StepIds : Present(j) => Present(j)'
    BY <2>2
  <2>4. \A j \in StepIds : steps'[j].status \notin {"rejected", "skipped"}
    BY <1>1, <2>1, HeldRows
  <2>5. steps'[PlanId].status = "succeeded" => Present(FinalId)'
    BY <1>1, <2>3, Ids DEF RowInv, RowsFitTask
  <2>6. \A j \in StepIds : ~Present(j)' => steps'[j] = NoRow
    BY <2>2 DEF RowInv, RowsFitTask
  <2>7. Present(PlanId)'
    BY <2>3, HeldRows, Ids
  <2>8. UNCHANGED NoRow
    BY DEF NoRow, NewStep, PlainPolicy
  <2> QED BY <1>2, <2>4, <2>5, <2>6, <2>7, <2>8 DEF RowsFitTask
<1>7. RanApproved'
  <2>1. ASSUME NEW j \in ToolIds, steps'[j].status \in {"running", "succeeded"},
               steps'[j].policy.requiresApproval
        PROVE  steps'[j].decision = "approved"
    <3>1. CASE j = i
      BY <1>1, <2>1, <3>1
    <3>2. CASE j # i
      BY <1>1, <2>1, <3>2, Ids DEF RowInv, RanApproved
    <3> QED BY <3>1, <3>2
  <2> QED BY <2>1 DEF RanApproved
<1>8. FailureOnRecord' /\ SucceededIsComplete'
  BY <1>2 DEF FailureOnRecord, SucceededIsComplete
<1> QED
  BY <1>4, <1>5, <1>6, <1>7, <1>8 DEF RowInv

\* The holder writes the task row.
LEMMA TaskWrite ==
  ASSUME RowInv, task.status \in LeasedStatuses, UNCHANGED steps,
         task'.status \in {"running", "planning", "waiting_approval", "failed", "succeeded"},
         RunningSteps \subseteq {task'.current},
         task'.status \in {"waiting_approval", "succeeded"} => NothingRuns,
         task'.status = "failed" /\ MaxDbFaults = 0 =>
           task'.current \in StepIds /\ steps[task'.current].status = "failed",
         task'.status = "succeeded" => ToolsDone /\ steps[FinalId].status = "succeeded"
  PROVE  RowInv'
<1>1. RunningIsCurrent'
  BY DEF RunningIsCurrent, RunningSteps, NothingRuns, LeasedStatuses
<1>2. UnknownNeedsHuman'
  BY HeldRows DEF UnknownNeedsHuman
<1>3. RowsFitTask'
  BY HeldRows DEF RowInv, RowsFitTask, Present, LeasedStatuses
<1>4. RanApproved'
  BY DEF RowInv, RanApproved
<1>5. FailureOnRecord'
  BY DEF FailureOnRecord
<1>6. SucceededIsComplete'
  BY DEF SucceededIsComplete, ToolsDone
<1> QED
  BY <1>1, <1>2, <1>3, <1>4, <1>5, <1>6 DEF RowInv

\* The holder pauses the task on its running step.
LEMMA ReviewWrite ==
  ASSUME TypeOK, RowInv, task.status \in LeasedStatuses,
         NEW i \in ToolIds, steps[i].status = "running",
         NEW row, row.status = "execution_unknown",
         steps' = [steps EXCEPT ![i] = row],
         task'.status = "requires_review", task'.current = i
  PROVE  RowInv'
<1>1. i \in StepIds
  BY Ids
<1>2. steps'[i] = row /\ \A j \in StepIds : j # i => steps'[j] = steps[j]
  BY <1>1 DEF TypeOK
<1>3. i = task.current /\ RunningSteps \subseteq {i}
  BY <1>1 DEF RowInv, RunningIsCurrent, RunningSteps
<1>4. RunningIsCurrent'
  <2>1. RunningSteps' = {}
    BY <1>2, <1>3 DEF RunningSteps
  <2> QED BY <2>1 DEF RunningIsCurrent, NothingRuns
<1>5. UnknownNeedsHuman'
  BY <1>2, HeldRows DEF UnknownNeedsHuman
<1>6. RowsFitTask'
  <2>1. \A j \in StepIds : ~Present(j)' => ~Present(j) /\ steps'[j] = steps[j]
    BY <1>2 DEF Present
  <2>2. \A j \in StepIds : Present(j) => Present(j)'
    BY <2>1
  <2>3. \A j \in StepIds : steps'[j].status \notin {"rejected", "skipped"}
    BY <1>2, HeldRows
  <2>4. steps'[PlanId].status = "succeeded" => Present(FinalId)'
    BY <1>2, <2>2, Ids DEF RowInv, RowsFitTask
  <2>5. \A j \in StepIds : ~Present(j)' => steps'[j] = NoRow
    BY <2>1 DEF RowInv, RowsFitTask
  <2>6. Present(PlanId)'
    BY <2>2, HeldRows, Ids
  <2>7. UNCHANGED NoRow
    BY DEF NoRow, NewStep, PlainPolicy
  <2> QED BY <2>3, <2>4, <2>5, <2>6, <2>7 DEF RowsFitTask
<1>7. RanApproved'
  BY <1>2, Ids DEF RowInv, RanApproved
<1>8. FailureOnRecord' /\ SucceededIsComplete'
  BY DEF FailureOnRecord, SucceededIsComplete
<1> QED
  BY <1>4, <1>5, <1>6, <1>7, <1>8 DEF RowInv

-----------------------------------------------------------------------------
(* How a run moves.                                                        *)

\* Goto changes the program counter alone.
LEMMA GotoRun ==
  ASSUME RunType, NEW w \in Workers, NEW pc, Goto(w, pc)
  PROVE  \E t : /\ run' = [run EXCEPT ![w] = t]
                /\ t.pc = pc /\ t.version = run[w].version
                /\ t.step = run[w].step /\ t.policy = run[w].policy
                /\ t.operation = run[w].operation /\ t.route = run[w].route
<1>1. run[w] \in Runs
  BY DEF RunType, Run
<1>2. PICK t : t = [run[w] EXCEPT !.pc = pc]
  OBVIOUS
<1>3. run' = [run EXCEPT ![w] = t]
  BY <1>2 DEF Goto
<1>4. /\ t.pc = pc /\ t.version = run[w].version
      /\ t.step = run[w].step /\ t.policy = run[w].policy
      /\ t.operation = run[w].operation /\ t.route = run[w].route
  BY <1>1, <1>2 DEF Runs
<1> QED
  BY <1>3, <1>4

\* Enter keeps the token alone.
LEMMA EnterRun ==
  ASSUME NEW w \in Workers, NEW pc, Enter(w, pc)
  PROVE  \E t : /\ run' = [run EXCEPT ![w] = t]
                /\ t.pc = pc /\ t.version = run[w].version
<1>1. PICK t : t = [IdleRun EXCEPT !.pc = pc, !.version = run[w].version]
  OBVIOUS
<1>2. run' = [run EXCEPT ![w] = t]
  BY <1>1 DEF Enter
<1>3. t.pc = pc /\ t.version = run[w].version
  BY <1>1 DEF IdleRun
<1> QED
  BY <1>2, <1>3

\* An ended or failing run claims nothing of the rows.
LEMMA EndRun ==
  ASSUME NEW w \in Workers, Exit(w) \/ Fail(w)
  PROVE  \E t : run' = [run EXCEPT ![w] = t] /\ t.pc \in {"idle", "markRunFailed"}
<1>1. CASE Exit(w)
  <2>1. PICK t : t = IdleRun
    OBVIOUS
  <2>2. t.pc = "idle"
    BY <2>1 DEF IdleRun
  <2> QED BY <1>1, <2>1, <2>2 DEF Exit
<1>2. CASE Fail(w)
  BY <1>2, EnterRun DEF Fail
<1> QED
  BY <1>1, <1>2

\* A run that ends or fails relies on nothing.
LEMMA FitEnd ==
  ASSUME NEW t, t.pc \in {"idle", "markRunFailed", "unknown", "policyReview", "markUnknown"}
  PROVE  Fit(t) /\ Fit(t)'
<1>1. t.pc \notin QuietPcs
  BY DEF QuietPcs
<1> QED
  BY <1>1 DEF Fit, FitPlan, FitRoute, FitTool, FitFinal, FitFailure, QuietPcs

\* Between nodes a run relies on nothing but that no step is under way.
LEMMA FitQuiet ==
  ASSUME NEW t, t.pc \in {"load", "plan", "save", "reload", "dispatch", "gate",
                          "gateTask", "saveGate", "toolTask"}
  PROVE  (NothingRuns => Fit(t)) /\ (NothingRuns' => Fit(t)')
BY DEF Fit, FitPlan, FitRoute, FitTool, FitFinal, FitFailure

\* A run that holds the task after a step without a write held it before.
LEMMA StillOwns ==
  ASSUME TypeOK, LeaseDiscipline, Safe, NEW w \in Workers, NEW t,
         run' = [run EXCEPT ![w] = t], SameRows, Owns(w)',
         t.version = run[w].version
  PROVE  Owns(w) /\ Fit(run[w]) /\ task.status \in LeasedStatuses
<1>1. run'[w] = t
  BY DEF TypeOK
<1>2. Owns(w)
  BY <1>1 DEF Owns, ActiveLease, SameRows
<1> QED
  BY <1>2, OwnerHolds DEF Safe, HolderInv

\* A run ends, or fails, and no row changes.
LEMMA EndKeeps ==
  ASSUME TypeOK, Safe, NEW w \in Workers, Exit(w) \/ Fail(w),
         SameRows, UNCHANGED observers
  PROVE  Safe'
<1>1. PICK t : run' = [run EXCEPT ![w] = t] /\ t.pc \in {"idle", "markRunFailed"}
  BY EndRun
<1>2. Fit(t)
  BY <1>1, FitEnd
<1> QED
  BY <1>1, <1>2, MoveKeeps

\* A run goes on to a place between nodes, and no row changes.
LEMMA QuietKeeps ==
  ASSUME TypeOK, LeaseDiscipline, Safe, NEW w \in Workers, NEW t,
         run' = [run EXCEPT ![w] = t], t.version = run[w].version,
         run[w].pc \in QuietPcs,
         t.pc \in {"load", "plan", "save", "reload", "dispatch", "gate", "gateTask",
                   "saveGate", "toolTask"},
         SameRows, UNCHANGED observers
  PROVE  Safe'
<1>1. Owns(w)' => NothingRuns
  BY StillOwns DEF Fit
<1>2. Owns(w)' => Fit(t)
  BY <1>1, FitQuiet
<1> QED
  BY <1>2, MoveKeeps

\* A step without a write leaves the rows the same.
LEMMA UnchangedRows ==
  ASSUME UNCHANGED storeVars
  PROVE  SameRows
BY DEF SameRows, storeVars

\* So does a checkpoint, which nobody's writes depend on.
LEMMA CheckpointRows ==
  ASSUME TypeOK, NEW c \in Cursors, SetCheckpoint(c)
  PROVE  SameRows
BY DEF SameRows, SetCheckpoint, TypeOK, TaskRow

-----------------------------------------------------------------------------
(* Reads, decisions and external calls of a run.                           *)

\* ClaimTask's read back: the holder's claim left nothing running.
LEMMA ReadClaimedKeeps ==
  ASSUME IInv, NEW w \in Workers, ReadClaimed(w)
  PROVE  Safe'
<1>1. TypeOK /\ Safe /\ run[w] \in Runs
  BY DEF IInv, TypeOK, Run
<1>2. SameRows /\ UNCHANGED observers
  BY UnchangedRows DEF ReadClaimed, Local
<1>3. PICK t : t = [run[w] EXCEPT !.pc = "load", !.version = task.version]
  OBVIOUS
<1>4. run' = [run EXCEPT ![w] = t] /\ t.pc = "load"
  BY <1>1, <1>3 DEF ReadClaimed, Local, Runs
<1>5. Owns(w)' => FreshClaim(w)
  BY <1>2 DEF ReadClaimed, Owns, ActiveLease, SameRows, FreshClaim
<1>6. Owns(w)' => Fit(t)
  BY <1>1, <1>4, <1>5, FitQuiet DEF Safe, HolderInv
<1> QED
  BY <1>1, <1>2, <1>4, <1>6, MoveKeeps

\* Loading the checkpoint enters the node it names.
LEMMA LoadKeeps ==
  ASSUME IInv, NEW w \in Workers, LoadCheckpoint(w) \/ ReloadCheckpoint(w)
  PROVE  Safe'
<1>1. TypeOK /\ LeaseDiscipline /\ Safe /\ task.cursor \in Cursors
  BY DEF IInv, TypeOK, TaskRow
<1>2. SameRows /\ UNCHANGED observers
  BY UnchangedRows DEF LoadCheckpoint, ReloadCheckpoint, Local
<1>3. run[w].pc \in QuietPcs
  BY DEF LoadCheckpoint, ReloadCheckpoint, At, QuietPcs
<1>4. CASE Fail(w)
  BY <1>1, <1>2, <1>4, EndKeeps
<1>5. ASSUME NEW pc \in {"plan", "dispatch", "gate"}, Enter(w, pc)
      PROVE  Safe'
  <2>1. PICK t : run' = [run EXCEPT ![w] = t] /\ t.pc = pc /\ t.version = run[w].version
    BY <1>5, EnterRun
  <2> QED BY <1>1, <1>2, <1>3, <2>1, QuietKeeps
<1>6. Fail(w) \/ \E pc \in {"plan", "dispatch", "gate"} : Enter(w, pc)
  BY <1>1 DEF LoadCheckpoint, ReloadCheckpoint, Local, Cursors
<1> QED
  BY <1>4, <1>5, <1>6

\* planNode plans only when no plan is saved.
LEMMA PlanReadKeeps ==
  ASSUME IInv, NEW w \in Workers, PlanRead(w)
  PROVE  Safe'
<1>1. TypeOK /\ LeaseDiscipline /\ Safe /\ RunType
  BY TypeGroups DEF IInv
<1>2. SameRows /\ UNCHANGED observers /\ run[w].pc = "plan"
  BY UnchangedRows DEF PlanRead, Local, At
<1>3. CASE Exit(w)
  BY <1>1, <1>2, <1>3, EndKeeps
<1>4. CASE Goto(w, "save")
  <2>1. PICK t : run' = [run EXCEPT ![w] = t] /\ t.pc = "save" /\ t.version = run[w].version
    BY <1>1, <1>4, GotoRun
  <2> QED BY <1>1, <1>2, <2>1, QuietKeeps DEF QuietPcs
<1>5. CASE ~PlanAlreadySaved /\ Goto(w, "planTask")
  <2>1. PICK t : run' = [run EXCEPT ![w] = t] /\ t.pc = "planTask" /\ t.version = run[w].version
    BY <1>1, <1>5, GotoRun
  <2>2. Unplanned
    BY <1>5 DEF PlanAlreadySaved, Unplanned
  <2>3. Owns(w)' => NothingRuns
    BY <1>1, <1>2, <2>1, StillOwns DEF Fit, QuietPcs
  <2>4. Owns(w)' => Fit(t)
    BY <2>1, <2>2, <2>3 DEF Fit, FitPlan, FitRoute, FitTool, FitFinal, FitFailure
  <2> QED BY <1>1, <1>2, <2>1, <2>4, MoveKeeps
<1> QED
  BY <1>3, <1>4, <1>5 DEF PlanRead, Local

\* nextRoute selects a step that may be started, or the final step when every
\* tool is done.
LEMMA DispatchKeeps ==
  ASSUME IInv, NEW w \in Workers, Dispatch(w)
  PROVE  Safe'
<1>1. TypeOK /\ LeaseDiscipline /\ Safe /\ run[w] \in Runs
  BY DEF IInv, TypeOK, Run
<1>2. SameRows /\ UNCHANGED observers /\ run[w].pc = "dispatch"
  BY UnchangedRows DEF Dispatch, Local, At
<1>3. CASE Exit(w) \/ Fail(w)
  BY <1>1, <1>2, <1>3, EndKeeps
<1> DEFINE u == [run[w] EXCEPT !.step = Selected, !.route = RouteOf(Selected),
                   !.pc = IF task.current = Selected THEN RouteOf(Selected) ELSE "routeWrite"]
<1>4. CASE /\ ~(Selected # NoStep /\ steps[Selected].status = "execution_unknown"
                                  /\ Selected # FinalId)
           /\ Selected # NoStep
           /\ ~(Selected # FinalId /\ steps[Selected].status = "failed")
           /\ run' = [run EXCEPT ![w] = u]
  <2>1. PICK t : t = u
    OBVIOUS
  <2>2. /\ run' = [run EXCEPT ![w] = t]
        /\ t.version = run[w].version /\ t.step = Selected /\ t.route = RouteOf(Selected)
        /\ t.pc = IF task.current = Selected THEN RouteOf(Selected) ELSE "routeWrite"
    BY <1>1, <1>4, <2>1 DEF Runs
  <2>3. RouteOf(Selected) \in {"gate", "tool", "finalize"}
    BY DEF RouteOf
  <2>4. ASSUME Owns(w)' PROVE Fit(t)
    <3>1. NothingRuns /\ task.status \in LeasedStatuses
      BY <1>1, <1>2, <2>2, <2>4, StillOwns DEF Fit, QuietPcs
    <3>2. \A i \in StepIds : steps[i].status \in StepStatuses \ {"execution_unknown",
            "rejected", "skipped", "running"}
      <4>1. \A i \in StepIds : steps[i].status \in StepStatuses
        BY <1>1 DEF TypeOK, StepRow
      <4>2. \A i \in StepIds : steps[i].status # "running"
        BY <3>1 DEF NothingRuns, RunningSteps
      <4> QED BY <1>1, <3>1, <4>1, <4>2, HeldRows DEF Safe
    <3>3. CASE Selected = FinalId
      <4>1. OpenTools = {}
        <5>1. OpenTools \subseteq StepIds /\ OpenTools \subseteq ToolIds
          BY Ids DEF OpenTools
        <5>2. OpenTools # {} => Selected \in ToolIds
          BY <5>1, LowestIn DEF Selected
        <5> QED BY <3>3, <5>2, Ids
      <4>2. ToolsDone
        BY <3>2, <4>1, Ids DEF OpenTools, ToolsDone, Present, StepFinished
      <4>3. RouteOf(Selected) = "finalize"
        BY <3>3 DEF RouteOf
      <4>4. CASE t.pc = "finalize" /\ task.current = FinalId
        BY <3>1, <4>2, <4>4 DEF Fit, FitPlan, FitRoute, FitTool, FitFinal, FitFailure
      <4>5. CASE t.pc = "routeWrite"
        BY <2>2, <3>1, <3>3, <4>2, <4>3, <4>5
        DEF Fit, FitPlan, FitRoute, FitTool, FitFinal, FitFailure
      <4> QED BY <2>2, <3>3, <4>3, <4>4, <4>5
    <3>4. CASE Selected # FinalId
      <4>1. OpenTools # {} /\ Selected = Lowest(OpenTools)
        BY <1>4, <3>4 DEF Selected
      <4>2. Selected \in OpenTools
        <5>1. OpenTools \subseteq StepIds
          BY Ids DEF OpenTools
        <5> QED BY <4>1, <5>1, LowestIn
      <4>3. Selected \in ToolIds /\ steps[Selected].status \in Startable
        <5>1. PICK i \in ToolIds : i = Selected
          BY <4>2 DEF OpenTools
        <5>2. /\ steps[i].status \in StepStatuses \ {"execution_unknown",
                     "rejected", "skipped", "running"}
              /\ steps[i].status \notin {"absent", "succeeded", "failed"}
          BY <1>4, <3>2, <3>4, <4>2, <5>1, Ids DEF OpenTools, Present, StepFinished
        <5> QED BY <5>1, <5>2 DEF Startable, StepStatuses
      <4>4. RouteOf(Selected) \in {"gate", "tool"}
        BY <3>4 DEF RouteOf
      <4>5. CASE t.pc = "tool" /\ task.current = Selected
        BY <3>1, <4>3, <4>5 DEF Fit, FitPlan, FitRoute, FitTool, FitFinal, FitFailure
      <4>6. CASE t.pc = "gate"
        BY <3>1, <4>6, FitQuiet
      <4>7. CASE t.pc = "routeWrite"
        BY <2>2, <3>1, <4>3, <4>4, <4>7
        DEF Fit, FitPlan, FitRoute, FitTool, FitFinal, FitFailure
      <4> QED BY <2>2, <4>4, <4>5, <4>6, <4>7
    <3> QED BY <3>3, <3>4
  <2>5. t.pc \in {"gate", "tool", "finalize", "routeWrite"}
    BY <2>2, <2>3
  <2> QED BY <1>1, <1>2, <2>2, <2>4, <2>5, MoveKeeps
<1> QED
  BY <1>3, <1>4, Zenon DEF Dispatch, Local, NextRoute

\* approvalNode asks only for a step that has not run.
LEMMA GateReadKeeps ==
  ASSUME IInv, NEW w \in Workers, GateRead(w)
  PROVE  Safe'
<1>1. TypeOK /\ LeaseDiscipline /\ Safe /\ run[w] \in Runs
  BY DEF IInv, TypeOK, Run
<1>2. SameRows /\ UNCHANGED observers /\ run[w].pc = "gate"
  BY UnchangedRows DEF GateRead, Local, At
<1>3. CASE Exit(w) \/ Fail(w)
  BY <1>1, <1>2, <1>3, EndKeeps
<1>4. CASE Enter(w, "dispatch")
  <2>1. PICK t : run' = [run EXCEPT ![w] = t] /\ t.pc = "dispatch" /\ t.version = run[w].version
    BY <1>4, EnterRun
  <2> QED BY <1>1, <1>2, <2>1, QuietKeeps DEF QuietPcs
<1> DEFINE row == steps[task.current]
           u == [run[w] EXCEPT !.step = task.current,
                   !.pc = IF row.status = "waiting_approval" THEN "gateTask" ELSE "gateStep"]
<1>5. CASE /\ CurrentToolStep
           /\ row.policy.requiresApproval /\ row.decision # "approved"
           /\ run' = [run EXCEPT ![w] = u]
  <2>1. PICK t : t = u
    OBVIOUS
  <2>2. /\ run' = [run EXCEPT ![w] = t]
        /\ t.version = run[w].version /\ t.step = task.current
        /\ t.pc \in {"gateTask", "gateStep"}
    BY <1>1, <1>5, <2>1 DEF Runs
  <2>3. PICK i \in ToolIds : i = task.current
    BY <1>5 DEF CurrentToolStep
  <2>4. ASSUME Owns(w)' PROVE Fit(t)
    <3>1. NothingRuns /\ task.status \in LeasedStatuses
      BY <1>1, <1>2, <2>2, <2>4, StillOwns DEF Fit, QuietPcs
    <3>2. steps[i].status \in Startable \cup {"failed"}
      <4>1. steps[i].status \in StepStatuses /\ i \in StepIds
        BY <1>1, Ids DEF TypeOK, StepRow
      <4>2. steps[i].status \notin {"running", "absent"}
        BY <1>5, <2>3, <3>1, <4>1 DEF NothingRuns, RunningSteps, CurrentToolStep, Present
      <4>3. steps[i].status # "succeeded"
        BY <1>1, <1>5, <2>3 DEF Safe, RowInv, RanApproved
      <4>4. steps[i].status \notin {"execution_unknown", "rejected", "skipped"}
        BY <1>1, <3>1, <4>1, HeldRows DEF Safe
      <4> QED BY <4>1, <4>2, <4>3, <4>4 DEF StepStatuses, Startable
    <3>3. CASE t.pc = "gateTask"
      BY <3>1, <3>3, FitQuiet
    <3>4. CASE t.pc = "gateStep"
      BY <2>2, <2>3, <3>1, <3>2, <3>4
      DEF Fit, FitPlan, FitRoute, FitTool, FitFinal, FitFailure
    <3> QED BY <2>2, <3>3, <3>4
  <2> QED BY <1>1, <1>2, <2>2, <2>4, MoveKeeps
<1>6. \/ Exit(w) \/ Fail(w) \/ Enter(w, "dispatch")
      \/ /\ CurrentToolStep
         /\ row.policy.requiresApproval /\ row.decision # "approved"
         /\ run' = [run EXCEPT ![w] = u]
  BY DEF GateRead, Local
<1> QED
  BY <1>3, <1>4, <1>5, <1>6

\* toolNode starts the current step, under the policy and the approval on its
\* row, and with the operation ID it has if it has one.
LEMMA ToolReadKeeps ==
  ASSUME IInv, NEW w \in Workers, ToolRead(w)
  PROVE  Safe'
<1>1. TypeOK /\ LeaseDiscipline /\ Safe /\ run[w] \in Runs
  BY DEF IInv, TypeOK, Run
<1>2. SameRows /\ UNCHANGED observers /\ run[w].pc = "tool"
  BY UnchangedRows DEF ToolRead, Local, At
<1>3. CASE Fail(w)
  BY <1>1, <1>2, <1>3, EndKeeps
<1> DEFINE row == steps[task.current]
           u == [run[w] EXCEPT
                   !.pc = "toolStart",
                   !.step = task.current,
                   !.policy = row.policy,
                   !.operation = IF row.operation = 0 THEN run[w].version ELSE row.operation]
<1>4. CASE /\ CurrentToolStep
           /\ row.policy.requiresApproval => row.decision = "approved"
           /\ run' = [run EXCEPT ![w] = u]
  <2>1. PICK t : t = u
    OBVIOUS
  <2>2. /\ run' = [run EXCEPT ![w] = t]
        /\ t.version = run[w].version /\ t.step = task.current
        /\ t.pc = "toolStart" /\ t.policy = row.policy
        /\ row.operation \in {0, t.operation}
    BY <1>1, <1>4, <2>1 DEF Runs
  <2>3. PICK i \in ToolIds : i = task.current
    BY <1>4 DEF CurrentToolStep
  <2>4. ASSUME Owns(w)' PROVE Fit(t)
    <3>1. NothingRuns /\ steps[i].status \in Startable
      BY <1>1, <1>2, <2>2, <2>3, <2>4, StillOwns DEF Fit, QuietPcs, FitRoute
    <3> QED BY <1>4, <2>2, <2>3, <3>1
            DEF Fit, FitPlan, FitRoute, FitTool, FitFinal, FitFailure, OnTool
  <2>5. t.step \in ToolIds /\ (t.policy.requiresApproval => t.policy \in approvedUnder[t.step])
    BY <1>1, <1>4, <2>2, <2>3 DEF Safe, ApprovalInv
  <2> QED BY <1>1, <1>2, <2>2, <2>4, <2>5, MoveKeeps
<1>5. \/ Fail(w)
      \/ /\ CurrentToolStep
         /\ row.policy.requiresApproval => row.decision = "approved"
         /\ run' = [run EXCEPT ![w] = u]
  BY DEF ToolRead, Local
<1> QED
  BY <1>3, <1>4, <1>5

\* The checks before a call fail: the call that was due is not made.
LEMMA ToolCheckFailsKeeps ==
  ASSUME IInv, NEW w \in Workers, ToolCheckFails(w)
  PROVE  Safe'
<1>1. TypeOK /\ LeaseDiscipline /\ Safe /\ RunType /\ RestType
  BY TypeGroups DEF IInv
<1>2. SameRows /\ UNCHANGED observers /\ run[w].pc = "toolChecks"
  BY UnchangedRows DEF ToolCheckFails, Local, At
<1>3. PICK t : /\ run' = [run EXCEPT ![w] = t]
               /\ t.pc = "failStep" /\ t.version = run[w].version
               /\ t.step = run[w].step /\ t.policy = run[w].policy
  BY <1>1, GotoRun DEF ToolCheckFails, Local
<1>4. ASSUME Owns(w)' PROVE Fit(t)
  <2>1. OnTool(run[w]) /\ steps[run[w].step].status = "running"
    BY <1>1, <1>2, <1>3, <1>4, StillOwns DEF Fit, FitTool
  <2>2. OnTool(t) /\ steps[t.step].status = "running" /\ task.current = t.step
    BY <1>3, <2>1 DEF OnTool
  <2> QED BY <1>3, <2>2 DEF Fit, FitPlan, FitRoute, FitTool, FitFinal, FitFailure, QuietPcs
<1>5. RowInv'
  BY <1>1, <1>2, SameRowsKeepRows DEF Safe
<1>6. HolderInv'
  BY <1>1, <1>2, <1>3, <1>4, HolderKeeps, SameRowsKeepFit DEF Safe
<1>7. ApprovalInv'
  BY <1>1, <1>2, <1>3, ApprovalKeeps DEF Safe, SameRows, observers
<1>8. CallInv'
  <2>1. run'[w] = t /\ \A v \in Workers : v # w => run'[v] = run[v]
    BY <1>1, <1>3 DEF RunType
  <2>2. \A i \in ToolIds : AboutToCall(i)' \subseteq AboutToCall(i)
    BY <1>3, <2>1 DEF AboutToCall, At, ReplaySafe
  <2>3. calls' = calls /\ retries' = retries
    BY <1>2 DEF observers
  <2>4. \A i \in ToolIds : /\ IsFiniteSet(AboutToCall(i))'
                           /\ Due(i)' \in Nat
                           /\ Due(i)' <= Due(i)
    BY <1>1, <2>2, <2>3, DueFalls, DueType DEF Safe
  <2>5. ASSUME t.step \in ToolIds, ~ReplaySafe(t.policy)
        PROVE  Due(t.step)' <= retries[t.step]
    <3>1. PICK i \in ToolIds : i = t.step
      BY <2>5
    <3> DEFINE A == AboutToCall(i)
    <3>2. w \in A /\ IsFiniteSet(A)
      BY <1>1, <1>2, <1>3, <2>5, <3>1, DueType DEF AboutToCall, At, Safe
    <3>3. AboutToCall(i)' = A \ {w}
      BY <1>3, <2>1 DEF AboutToCall, At, ReplaySafe
    <3>4. Cardinality(A \ {w}) = Cardinality(A) - 1 /\ Cardinality(A) \in Nat
      <4> HIDE DEF A
      <4> QED BY <3>2, FS_RemoveElement, FS_CardinalityType
    <3>5. Due(i)' = calls[i] + Cardinality(A \ {w}) /\ Due(i) = calls[i] + Cardinality(A)
      BY <2>3, <3>3 DEF Due
    <3>6. Due(i) <= 1 + retries[i] /\ calls[i] \in Nat /\ retries[i] \in Nat
      BY <1>1, Ids DEF Safe, CallInv, RestType
    <3>7. Due(i)' <= retries[i]
      <4> HIDE DEF A
      <4> QED BY <3>4, <3>5, <3>6
    <3> QED BY <3>1, <3>7
  <2>6. \A i \in ToolIds : Restartable(i)' => Restartable(i)
    BY <1>2 DEF Restartable, SameRows
  <2> QED BY <1>1, <1>2, <1>3, <2>3, <2>4, <2>5, <2>6, CallFrom DEF Safe
<1> QED
  BY <1>5, <1>6, <1>7, <1>8 DEF Safe

\* The call goes out: it is made and no longer due.
LEMMA CallToolKeeps ==
  ASSUME IInv, NEW w \in Workers, CallTool(w)
  PROVE  Safe'
<1>1. TypeOK /\ LeaseDiscipline /\ Safe /\ RunType /\ RestType
  BY TypeGroups DEF IInv
<1>2. SameRows /\ run[w].pc = "toolChecks" /\ retries' = retries
        /\ approvedUnder' = approvedUnder
  BY UnchangedRows DEF CallTool, At
<1>3. PICK t : /\ run' = [run EXCEPT ![w] = t]
               /\ t.pc = "calling" /\ t.version = run[w].version
               /\ t.step = run[w].step /\ t.policy = run[w].policy
  BY <1>1, GotoRun DEF CallTool
<1>4. /\ t.step \in ToolIds
      /\ t.policy.requiresApproval => t.policy \in approvedUnder[t.step]
  BY <1>1, <1>2, <1>3 DEF Safe, ApprovalInv
<1>5. ASSUME Owns(w)' PROVE Fit(t)
  <2>1. OnTool(run[w]) /\ steps[run[w].step].status = "running"
    BY <1>1, <1>2, <1>3, <1>5, StillOwns DEF Fit, FitTool
  <2>2. OnTool(t) /\ steps[t.step].status = "running"
    BY <1>3, <2>1 DEF OnTool
  <2> QED BY <1>3, <2>2 DEF Fit, FitPlan, FitRoute, FitTool, FitFinal, FitFailure, QuietPcs
<1>6. RowInv'
  BY <1>1, <1>2, SameRowsKeepRows DEF Safe
<1>7. HolderInv'
  BY <1>1, <1>2, <1>3, <1>5, HolderKeeps, SameRowsKeepFit DEF Safe
<1>8. ApprovalInv'
  BY <1>1, <1>2, <1>3, <1>4, ApprovalKeeps DEF Safe, SameRows
<1>9. CallInv'
  <2>1. run'[w] = t /\ \A v \in Workers : v # w => run'[v] = run[v]
    BY <1>1, <1>3 DEF RunType
  <2>2. ASSUME NEW i \in ToolIds
        PROVE  /\ IsFiniteSet(AboutToCall(i))'
               /\ Due(i)' \in Nat
               /\ Due(i)' <= Due(i)
    <3> DEFINE A == AboutToCall(i)
               B == AboutToCall(i)'
    <3>1. IsFiniteSet(A) /\ Cardinality(A) \in Nat
      BY <1>1, DueType, FS_CardinalityType DEF Safe
    <3>2. calls \in [ToolIds -> Nat] /\ calls[i] \in Nat
      BY <1>1 DEF RestType
    <3>3. Due(i) = calls[i] + Cardinality(A) /\ Due(i)' = calls'[i] + Cardinality(B)
      BY DEF Due
    <3>4. CASE i = t.step /\ ~ReplaySafe(t.policy)
      <4>1. B = A \ {w} /\ w \in A
        BY <1>2, <1>3, <2>1, <3>4 DEF AboutToCall, At, ReplaySafe
      <4>2. calls'[i] = calls[i] + 1
        BY <1>3, <3>2, <3>4 DEF CallTool
      <4>3. IsFiniteSet(B) /\ Cardinality(B) = Cardinality(A) - 1 /\ Cardinality(B) \in Nat
        <5> HIDE DEF A, B
        <5> QED BY <3>1, <4>1, FS_RemoveElement, FS_CardinalityType
      <4> HIDE DEF A, B
      <4>4. Due(i)' = Due(i) /\ Due(i)' \in Nat
        BY <3>1, <3>2, <3>3, <4>2, <4>3
      <4> QED BY <3>1, <3>2, <3>3, <4>3, <4>4 DEF B
    <3>5. CASE ~(i = t.step /\ ~ReplaySafe(t.policy))
      <4>1. B \subseteq A
        BY <1>3, <2>1 DEF AboutToCall, At, ReplaySafe
      <4>2. calls'[i] = calls[i]
        BY <1>3, <3>2, <3>5 DEF CallTool
      <4>3. IsFiniteSet(B) /\ Cardinality(B) <= Cardinality(A) /\ Cardinality(B) \in Nat
        <5> HIDE DEF A, B
        <5> QED BY <3>1, <4>1, FS_Subset, FS_CardinalityType
      <4> HIDE DEF A, B
      <4>4. Due(i)' <= Due(i) /\ Due(i)' \in Nat
        BY <3>1, <3>2, <3>3, <4>2, <4>3
      <4> QED BY <4>3, <4>4 DEF B
    <3> QED BY <3>4, <3>5
  <2>3. \A i \in ToolIds : Restartable(i)' => Restartable(i)
    BY <1>2 DEF Restartable, SameRows
  <2> QED BY <1>1, <1>2, <1>3, <2>2, <2>3, CallFrom DEF Safe
<1> QED
  BY <1>6, <1>7, <1>8, <1>9 DEF Safe

\* The trusted definition differs from the row, or the call returns.
LEMMA ToolReturnsKeeps ==
  ASSUME IInv, NEW w \in Workers, ToolPolicyChanged(w) \/ ToolReturns(w)
  PROVE  Safe'
<1>1. TypeOK /\ LeaseDiscipline /\ Safe /\ RunType /\ run[w] \in Runs
  BY TypeGroups DEF IInv, RunType, Run
<1>2. SameRows /\ UNCHANGED observers
  BY UnchangedRows DEF ToolPolicyChanged, ToolReturns, Local
<1>3. CASE ToolPolicyChanged(w)
  <2>1. PICK p : run' = [run EXCEPT ![w].pc = "policyReview", ![w].policy = p]
    BY <1>3 DEF ToolPolicyChanged, Local
  <2>2. PICK t : t = [run[w] EXCEPT !.pc = "policyReview", !.policy = p]
    OBVIOUS
  <2>3. run' = [run EXCEPT ![w] = t] /\ t.pc = "policyReview"
    BY <1>1, <2>1, <2>2 DEF Runs
  <2>4. Fit(t)
    BY <2>3, FitEnd
  <2> QED BY <1>1, <1>2, <2>3, <2>4, MoveKeeps
<1>4. CASE ToolReturns(w)
  <2>1. run[w].pc = "calling"
    BY <1>4 DEF ToolReturns, At
  <2>2. PICK pc : /\ Goto(w, pc)
                  /\ pc \in {"toolDone", "failStep", "unknown"}
                  /\ pc = "failStep" => ReplaySafe(run[w].policy)
    BY <1>4 DEF ToolReturns, Local, AfterInvokedFailure
  <2>3. PICK t : /\ run' = [run EXCEPT ![w] = t]
                 /\ t.pc = pc /\ t.version = run[w].version
                 /\ t.step = run[w].step /\ t.policy = run[w].policy
    BY <1>1, <2>2, GotoRun
  <2>4. ASSUME Owns(w)' PROVE Fit(t)
    <3>1. OnTool(run[w]) /\ steps[run[w].step].status = "running"
      BY <1>1, <1>2, <2>1, <2>3, <2>4, StillOwns DEF Fit, FitTool
    <3>2. OnTool(t) /\ steps[t.step].status = "running" /\ task.current = t.step
      BY <2>3, <3>1 DEF OnTool
    <3>3. CASE pc = "unknown"
      BY <2>3, <3>3, FitEnd
    <3>4. CASE pc \in {"toolDone", "failStep"}
      BY <2>3, <3>2, <3>4 DEF Fit, FitPlan, FitRoute, FitTool, FitFinal, FitFailure, QuietPcs
    <3> QED BY <2>2, <3>3, <3>4
  <2>5. t.pc = "failStep" => ReplaySafe(t.policy)
    BY <2>2, <2>3
  <2>6. t.pc \notin {"claimed", "toolChecks", "toolStart", "calling"}
    BY <2>2, <2>3
  <2> QED BY <1>1, <1>2, <2>3, <2>4, <2>5, <2>6, MoveKeeps
<1> QED
  BY <1>3, <1>4

\* finalizeNode reads the final step, and the model answers or fails.
LEMMA FinalReadKeeps ==
  ASSUME IInv, NEW w \in Workers, FinalizeRead(w) \/ FinalGenerate(w)
  PROVE  Safe'
<1>1. TypeOK /\ LeaseDiscipline /\ Safe /\ RunType /\ run[w] \in Runs
  BY TypeGroups DEF IInv, RunType, Run
<1>2. SameRows /\ UNCHANGED observers
  BY UnchangedRows DEF FinalizeRead, FinalGenerate, Local
<1>3. CASE Exit(w) \/ Fail(w)
  BY <1>1, <1>2, <1>3, EndKeeps
<1>4. CASE /\ run[w].pc = "finalize"
           /\ run' = [run EXCEPT ![w].pc = "finalStart", ![w].step = FinalId]
  <2>1. PICK t : t = [run[w] EXCEPT !.pc = "finalStart", !.step = FinalId]
    OBVIOUS
  <2>2. /\ run' = [run EXCEPT ![w] = t]
        /\ t.pc = "finalStart" /\ t.version = run[w].version /\ t.step = FinalId
    BY <1>1, <1>4, <2>1 DEF Runs
  <2>3. ASSUME Owns(w)' PROVE Fit(t)
    <3>1. NothingRuns /\ ToolsDone /\ task.current = FinalId
      BY <1>1, <1>2, <1>4, <2>2, <2>3, StillOwns DEF Fit, FitFinal, QuietPcs
    <3> QED BY <2>2, <3>1 DEF Fit, FitPlan, FitRoute, FitTool, FitFinal, FitFailure
  <2> QED BY <1>1, <1>2, <2>2, <2>3, MoveKeeps
<1>5. ASSUME FinalGenerate(w) PROVE Safe'
  <2>1. PICK pc : Goto(w, pc) /\ pc \in {"finalDone", "failStep"}
    BY <1>5 DEF FinalGenerate, Local
  <2>2. PICK t : /\ run' = [run EXCEPT ![w] = t]
                 /\ t.pc = pc /\ t.version = run[w].version /\ t.step = run[w].step
    BY <1>1, <2>1, GotoRun
  <2>3. run[w].pc = "finalGen"
    BY <1>5 DEF FinalGenerate, At
  <2>4. ASSUME Owns(w)'
        PROVE  /\ ToolsDone /\ task.current = FinalId /\ t.step = FinalId
               /\ steps[FinalId].status = "running"
    BY <1>1, <1>2, <2>2, <2>3, <2>4, StillOwns DEF Fit, FitFinal
  <2>5. Owns(w)' => Fit(t)
    BY <2>1, <2>2, <2>4
    DEF Fit, FitPlan, FitRoute, FitTool, FitFinal, FitFailure, QuietPcs
  <2>6. Owns(w)' => t.step \notin ToolIds
    BY <2>4, Ids
  <2> QED BY <1>1, <1>2, <2>1, <2>2, <2>5, <2>6, MoveKeeps
<1> QED
  BY <1>3, <1>4, <1>5 DEF FinalizeRead, Local, At

\* currentFailureStep finds the running step if there is one, and some step in
\* any case.
LEMMA MarkReadKeeps ==
  ASSUME IInv, NEW w \in Workers, MarkRunFailedRead(w)
  PROVE  Safe'
<1>1. TypeOK /\ LeaseDiscipline /\ Safe /\ run[w] \in Runs
  BY DEF IInv, TypeOK, Run
<1>2. SameRows /\ UNCHANGED observers
  BY UnchangedRows DEF MarkRunFailedRead, Local
<1>3. CASE Exit(w)
  BY <1>1, <1>2, <1>3, EndKeeps
<1> DEFINE i == CurrentFailureStep
           pc == IF i = NoStep \/ steps[i].status \in {"failed", "execution_unknown"}
                 THEN "markTask"
                 ELSE IF i \in ToolIds /\ steps[i].status = "running"
                                       /\ ~ReplaySafe(steps[i].policy)
                 THEN "markUnknown"
                 ELSE "markStep"
<1>4. CASE run' = [run EXCEPT ![w].step = i, ![w].pc = pc]
  <2>1. PICK t : t = [run[w] EXCEPT !.step = i, !.pc = pc]
    OBVIOUS
  <2>2. run' = [run EXCEPT ![w] = t] /\ t.pc = pc /\ t.version = run[w].version /\ t.step = i
    <3> HIDE DEF i, pc
    <3> QED BY <1>1, <1>4, <2>1 DEF Runs
  <2>3. t.pc \in {"markTask", "markUnknown", "markStep"}
    BY <2>2
  <2>4. ASSUME Owns(w)' PROVE Fit(t)
    <3>1. task.status \in LeasedStatuses
      BY <1>1, <1>2, <2>2, <2>4, StillOwns
    <3>2. /\ \A j \in StepIds : steps[j].status \in StepStatuses
                \ {"execution_unknown", "rejected", "skipped"}
          /\ Present(PlanId)
      BY <1>1, <3>1, HeldRows DEF Safe, TypeOK, StepRow
    <3>3. RunningSteps \subseteq {task.current} /\ RunningSteps \subseteq OpenSteps
      BY <1>1 DEF Safe, RowInv, RunningIsCurrent, RunningSteps, OpenSteps, Present, StepFinished
    <3>4. OpenSteps \subseteq StepIds
      BY DEF OpenSteps
    <3>5. OpenSteps = {} => Present(FinalId)
      BY <1>1, <3>2, Ids DEF Safe, RowInv, RowsFitTask, OpenSteps, StepFinished
    <3>6. i \in OpenSteps \/ i = FinalId
      BY <3>4, <3>5, LowestIn DEF CurrentFailureStep
    <3>7. RunningSteps \subseteq {i}
      BY <3>3 DEF CurrentFailureStep
    <3>8. i \in StepIds /\ i # NoStep
      BY <3>4, <3>6, Ids
    <3>9. CASE t.pc = "markUnknown"
      BY <3>9, FitEnd
    <3>10. CASE t.pc = "markTask"
      <4>1. steps[i].status = "failed"
        BY <2>2, <3>2, <3>8, <3>10
      <4> HIDE DEF i, pc
      <4> QED BY <2>2, <3>7, <3>8, <3>10, <4>1
              DEF Fit, FitPlan, FitRoute, FitTool, FitFinal, FitFailure, QuietPcs
    <3>11. CASE t.pc = "markStep"
      <4>1. i \in ToolIds => \/ steps[i].status \in Startable
                             \/ steps[i].status = "running" /\ ReplaySafe(steps[i].policy)
        <5>1. i \in ToolIds => i \in OpenSteps
          BY <3>6, Ids
        <5>2. steps[i].status \notin {"failed", "execution_unknown"}
          BY <2>2, <3>11
        <5>3. i \in ToolIds /\ steps[i].status = "running" => ReplaySafe(steps[i].policy)
          BY <2>2, <3>11
        <5>4. i \in OpenSteps => steps[i].status \in StepStatuses
                 \ {"execution_unknown", "rejected", "skipped", "absent", "succeeded"}
          BY <3>2 DEF OpenSteps, Present, StepFinished
        <5> HIDE DEF i, pc
        <5> QED BY <5>1, <5>2, <5>3, <5>4 DEF StepStatuses, Startable
      <4> HIDE DEF i, pc
      <4> QED BY <2>2, <3>7, <3>8, <3>11, <4>1
              DEF Fit, FitPlan, FitRoute, FitTool, FitFinal, FitFailure, QuietPcs
    <3> QED BY <2>3, <3>9, <3>10, <3>11
  <2> QED BY <1>1, <1>2, <2>2, <2>3, <2>4, MoveKeeps
<1> QED
  BY <1>3, <1>4, Zenon DEF MarkRunFailedRead, Local

\* The run ends or fails from outside, or the plan does not come about.
LEMMA EndingsKeep ==
  ASSUME IInv, NEW w \in Workers,
         PlanFails(w) \/ LeaseHeartbeat(w) \/ Crash(w) \/ ReadFails(w)
  PROVE  Safe'
<1>1. TypeOK /\ Safe
  BY DEF IInv
<1>2. SameRows /\ UNCHANGED observers /\ (Exit(w) \/ Fail(w))
  BY UnchangedRows DEF PlanFails, LeaseHeartbeat, Crash, ReadFails, Local
<1> QED
  BY <1>1, <1>2, EndKeeps

-----------------------------------------------------------------------------
(* Writes of the holder.                                                   *)

\* The holder's write of one step row.
LEMMA StepWriteKeeps ==
  ASSUME IInv, NEW w \in Workers, NEW t, run' = [run EXCEPT ![w] = t],
         UNCHANGED observers, Owns(w),
         NEW i \in StepIds, NEW row \in StepRow, UpdateStepFenced(i, row),
         row.policy = steps[i].policy, row.decision = steps[i].decision,
         row.status \in {"running", "waiting_approval", "succeeded", "failed"},
         row.status = "running" => NothingRuns /\ i = task.current,
         row.status = "succeeded" => i # PlanId,
         row.status \in {"running", "succeeded"} /\ i \in ToolIds
           /\ row.policy.requiresApproval => row.decision = "approved",
         i \in ToolIds /\ ~ReplaySafe(row.policy) /\ row.status \in {"waiting_approval", "failed"}
           => Restartable(i) \/ Due(i) <= retries[i],
         Owns(w)' => Fit(t)',
         t.pc \notin {"claimed", "toolStart", "toolChecks", "calling"},
         Owns(w)' /\ t.pc = "failStep" => t.step \notin ToolIds \/ ReplaySafe(t.policy)
  PROVE  Safe'
<1>1. TypeOK /\ Safe /\ task.status \in LeasedStatuses
  BY OwnerHolds DEF IInv
<1>2. steps' = [steps EXCEPT ![i] = row] /\ UNCHANGED task
  BY DEF UpdateStepFenced
<1>3. RowInv'
  BY <1>1, <1>2, RowWrite DEF Safe
<1>4. steps'[i] = row /\ \A j \in StepIds : j # i => steps'[j] = steps[j]
  BY <1>1, <1>2 DEF TypeOK
<1>5. \A j \in ToolIds : steps'[j].decision = "approved" =>
        steps[j].decision = "approved" /\ steps'[j].policy = steps[j].policy
  BY <1>4, Ids
<1>6. \A j \in ToolIds : Restartable(j)' => Restartable(j) \/ Due(j) <= retries[j]
  <2>1. ASSUME NEW j \in ToolIds, Restartable(j)'
        PROVE  Restartable(j) \/ Due(j) <= retries[j]
    <3>1. CASE j = i
      BY <1>4, <2>1, <3>1 DEF Restartable, Startable, ReplaySafe
    <3>2. CASE j # i
      BY <1>4, <2>1, <3>2, Ids DEF Restartable, ReplaySafe
    <3> QED BY <3>1, <3>2
  <2> QED BY <2>1
<1>7. task'.owner \in {w, NoWorker}
  BY <1>2 DEF Owns, ActiveLease
<1> QED
  BY <1>1, <1>3, <1>5, <1>6, <1>7, WriteKeeps

\* The holder's write of the task row.
LEMMA TaskWriteKeeps ==
  ASSUME IInv, NEW w \in Workers, NEW t, run' = [run EXCEPT ![w] = t],
         UNCHANGED observers, Owns(w), UNCHANGED steps,
         task'.owner \in {w, NoWorker},
         task'.status \in {"running", "planning", "waiting_approval", "failed", "succeeded"},
         RunningSteps \subseteq {task'.current},
         task'.status \in {"waiting_approval", "succeeded"} => NothingRuns,
         task'.status = "failed" /\ MaxDbFaults = 0 =>
           task'.current \in StepIds /\ steps[task'.current].status = "failed",
         task'.status = "succeeded" => ToolsDone /\ steps[FinalId].status = "succeeded",
         Owns(w)' => Fit(t)',
         t.pc \notin {"claimed", "toolStart", "toolChecks", "calling", "failStep"}
  PROVE  Safe'
<1>1. TypeOK /\ Safe /\ task.status \in LeasedStatuses
  BY OwnerHolds DEF IInv
<1>2. RowInv'
  BY <1>1, TaskWrite DEF Safe
<1>3. \A j \in ToolIds : Restartable(j)' => Restartable(j)
  BY DEF Restartable
<1> QED
  BY <1>1, <1>2, <1>3, WriteKeeps

\* What the holder's program counter says of the rows.
LEMMA HolderFits ==
  ASSUME IInv, NEW w \in Workers, Owns(w)
  PROVE  Fit(run[w]) /\ task.status \in LeasedStatuses /\ task.owner = w
BY OwnerHolds DEF IInv, Safe, HolderInv, Owns, ActiveLease

\* A released task has no holder.
LEMMA NotHeld ==
  ASSUME NEW w \in Workers, task'.owner = NoWorker
  PROVE  ~Owns(w)'
BY WorkersAssumption DEF Owns, ActiveLease

\* The rows of two reads of one snapshot.
LEMMA SameSteps ==
  ASSUME UNCHANGED steps
  PROVE  /\ NothingRuns' <=> NothingRuns
         /\ ToolsDone' <=> ToolsDone
         /\ Unplanned' <=> Unplanned
BY DEF NothingRuns, RunningSteps, ToolsDone, Unplanned, Present

\* A checkpoint changes no row that anybody relies on.
LEMMA CheckpointKeeps ==
  ASSUME IInv, NEW w \in Workers, SaveCheckpoint(w) \/ SaveGateCheckpoint(w)
  PROVE  Safe'
<1>1. TypeOK /\ LeaseDiscipline /\ Safe /\ RunType
  BY TypeGroups DEF IInv
<1>2. UNCHANGED observers /\ (UNCHANGED storeVars \/ \E c \in Cursors : SetCheckpoint(c))
  BY DEF SaveCheckpoint, SaveGateCheckpoint, Transaction, Cursors
<1>3. SameRows
  BY <1>1, <1>2, UnchangedRows, CheckpointRows
<1>4. CASE Exit(w) \/ Fail(w)
  BY <1>1, <1>2, <1>3, <1>4, EndKeeps
<1>5. CASE run[w].pc = "save" /\ Goto(w, "reload")
  <2>1. PICK t : run' = [run EXCEPT ![w] = t] /\ t.pc = "reload" /\ t.version = run[w].version
    BY <1>1, <1>5, GotoRun
  <2> QED BY <1>1, <1>2, <1>3, <1>5, <2>1, QuietKeeps DEF QuietPcs
<1> QED
  BY <1>4, <1>5 DEF SaveCheckpoint, SaveGateCheckpoint, Transaction, At

\* planNode marks the task.
LEMMA PlanMarkTaskKeeps ==
  ASSUME IInv, NEW w \in Workers, PlanMarkTask(w)
  PROVE  Safe'
<1>1. TypeOK /\ Safe /\ RunType /\ task \in TaskRow
  BY TypeGroups DEF IInv, TypeOK
<1>2. UNCHANGED observers /\ run[w].pc = "planTask"
  BY DEF PlanMarkTask, Transaction, At
<1>3. CASE UNCHANGED storeVars /\ Fail(w)
  BY <1>1, <1>2, <1>3, UnchangedRows, EndKeeps
<1>4. ASSUME Owns(w), UpdateTaskFenced([task EXCEPT !.status = "planning", !.current = PlanId]),
             Goto(w, "planStep") \/ Fail(w)
      PROVE  Safe'
  <2>1. NothingRuns /\ Unplanned /\ task.owner = w
    BY <1>2, <1>4, HolderFits DEF Fit, QuietPcs, FitPlan
  <2>2. /\ task'.status = "planning" /\ task'.current = PlanId
        /\ task'.owner = task.owner /\ UNCHANGED steps
    BY <1>1, <1>4 DEF UpdateTaskFenced, TaskRow
  <2>3. PICK t : run' = [run EXCEPT ![w] = t] /\ t.pc \in {"planStep", "idle", "markRunFailed"}
    BY <1>1, <1>4, GotoRun, EndRun
  <2>4. Fit(t)'
    <3>1. CASE t.pc = "planStep"
      BY <2>1, <2>2, <3>1, SameSteps
      DEF Fit, FitPlan, FitRoute, FitTool, FitFinal, FitFailure
    <3> QED BY <2>3, <3>1, FitEnd
  <2>5. RunningSteps \subseteq {task'.current}
    BY <2>1 DEF NothingRuns
  <2> QED BY <1>2, <1>4, <2>1, <2>2, <2>3, <2>4, <2>5, TaskWriteKeeps
<1> QED
  BY <1>3, <1>4 DEF PlanMarkTask, Transaction

\* planNode marks its step.
LEMMA PlanMarkStepKeeps ==
  ASSUME IInv, NEW w \in Workers, PlanMarkStep(w)
  PROVE  Safe'
<1>1. TypeOK /\ Safe /\ RunType /\ steps[PlanId] \in StepRow
  BY TypeGroups, Ids DEF IInv, TypeOK
<1>2. UNCHANGED observers /\ run[w].pc = "planStep"
  BY DEF PlanMarkStep, Transaction, At
<1>3. CASE UNCHANGED storeVars /\ Fail(w)
  BY <1>1, <1>2, <1>3, UnchangedRows, EndKeeps
<1>4. PICK row : row = [steps[PlanId] EXCEPT !.status = "running"]
  OBVIOUS
<1>5. /\ row \in StepRow /\ row.status = "running"
      /\ row.policy = steps[PlanId].policy /\ row.decision = steps[PlanId].decision
  BY <1>1, <1>4 DEF StepRow, StepStatuses
<1>6. ASSUME Owns(w), UpdateStepFenced(PlanId, row), Goto(w, "planSave") \/ Fail(w)
      PROVE  Safe'
  <2>1. NothingRuns /\ Unplanned /\ task.current = PlanId
    BY <1>2, <1>6, HolderFits DEF Fit, QuietPcs, FitPlan
  <2>2. task' = task /\ \A j \in StepIds : j # PlanId => steps'[j] = steps[j]
    BY <1>1, <1>6 DEF UpdateStepFenced, TypeOK
  <2>3. PICK t : run' = [run EXCEPT ![w] = t] /\ t.pc \in {"planSave", "idle", "markRunFailed"}
    BY <1>1, <1>6, GotoRun, EndRun
  <2>4. Fit(t)'
    <3>1. CASE t.pc = "planSave"
      <4>1. Unplanned'
        BY <2>1, <2>2 DEF Unplanned, Present
      <4> QED BY <2>1, <2>2, <3>1, <4>1
          DEF Fit, FitPlan, FitRoute, FitTool, FitFinal, FitFailure, QuietPcs
    <3> QED BY <2>3, <3>1, FitEnd
  <2> QED BY <1>2, <1>5, <1>6, <2>1, <2>3, <2>4, Ids, StepWriteKeeps
<1> QED
  BY <1>3, <1>4, <1>6 DEF PlanMarkStep, Transaction

\* dispatchNode persists the route it selected.
LEMMA PersistRouteKeeps ==
  ASSUME IInv, NEW w \in Workers, PersistRoute(w)
  PROVE  Safe'
<1>1. TypeOK /\ Safe /\ RunType /\ task \in TaskRow
  BY TypeGroups DEF IInv, TypeOK
<1>2. UNCHANGED observers /\ run[w].pc = "routeWrite"
  BY DEF PersistRoute, Transaction, At
<1>3. CASE UNCHANGED storeVars /\ Fail(w)
  BY <1>1, <1>2, <1>3, UnchangedRows, EndKeeps
<1>4. ASSUME Owns(w), UpdateTaskFenced([task EXCEPT !.current = run[w].step]),
             Goto(w, run[w].route) \/ Fail(w)
      PROVE  Safe'
  <2>1. NothingRuns /\ FitRoute(run[w]) /\ task.owner = w /\ task.status \in LeasedStatuses
    BY <1>2, <1>4, HolderFits DEF Fit, QuietPcs
  <2>2. /\ task'.status = task.status /\ task'.current = run[w].step
        /\ task'.owner = task.owner /\ UNCHANGED steps
    BY <1>1, <1>4 DEF UpdateTaskFenced, TaskRow
  <2>3. run[w].route \in {"gate", "tool", "finalize"}
    BY <1>1, <1>2 DEF RunType, Run, Runs
  <2>4. PICK t : run' = [run EXCEPT ![w] = t] /\ t.pc \in {run[w].route, "idle", "markRunFailed"}
    BY <1>1, <1>4, GotoRun, EndRun
  <2>5. Fit(t)'
    <3>1. CASE t.pc = "gate"
      BY <2>1, <2>2, <3>1, SameSteps, FitQuiet
    <3>2. CASE t.pc = "tool" /\ run[w].route = "tool"
      <4>1. task'.current \in ToolIds /\ steps'[task'.current].status \in Startable
        BY <1>2, <2>1, <2>2, <3>2 DEF FitRoute
      <4> QED BY <2>1, <2>2, <3>2, <4>1, SameSteps
          DEF Fit, FitPlan, FitRoute, FitTool, FitFinal, FitFailure
    <3>3. CASE t.pc = "finalize" /\ run[w].route = "finalize"
      <4>1. task'.current = FinalId /\ ToolsDone
        BY <1>2, <2>1, <2>2, <3>3 DEF FitRoute
      <4> QED BY <2>1, <2>2, <3>3, <4>1, SameSteps
          DEF Fit, FitPlan, FitRoute, FitTool, FitFinal, FitFailure
    <3>4. CASE t.pc \in {"idle", "markRunFailed"}
      BY <3>4, FitEnd
    <3> QED BY <2>3, <2>4, <3>1, <3>2, <3>3, <3>4
  <2>6. RunningSteps \subseteq {task'.current}
    BY <2>1 DEF NothingRuns
  <2>7. task'.status \in {"running", "planning"}
    BY <2>1, <2>2 DEF LeasedStatuses
  <2>8. t.pc \notin {"claimed", "toolStart", "toolChecks", "calling", "failStep"}
    BY <2>3, <2>4
  <2> QED BY <1>2, <1>4, <2>1, <2>2, <2>4, <2>5, <2>6, <2>7, <2>8, TaskWriteKeeps
<1> QED
  BY <1>3, <1>4 DEF PersistRoute, Transaction

\* approvalNode marks the step.
LEMMA GateMarkStepKeeps ==
  ASSUME IInv, NEW w \in Workers, GateMarkStep(w)
  PROVE  Safe'
<1>1. TypeOK /\ Safe /\ RunType
  BY TypeGroups DEF IInv
<1>2. UNCHANGED observers /\ run[w].pc = "gateStep"
  BY DEF GateMarkStep, Transaction, At
<1>3. CASE UNCHANGED storeVars /\ Fail(w)
  BY <1>1, <1>2, <1>3, UnchangedRows, EndKeeps
<1>4. ASSUME Owns(w),
             UpdateStepFenced(run[w].step, [MyRow(w) EXCEPT !.status = "waiting_approval"]),
             Goto(w, "gateTask") \/ Fail(w)
      PROVE  Safe'
  <2>1. PICK i \in ToolIds : i = run[w].step
    BY <1>2, <1>4, HolderFits DEF Fit, FitRoute
  <2>2. NothingRuns /\ steps[i].status \in Startable \cup {"failed"}
    BY <1>2, <1>4, <2>1, HolderFits DEF Fit, QuietPcs, FitRoute
  <2>3. PICK row : row = [steps[i] EXCEPT !.status = "waiting_approval"]
    OBVIOUS
  <2>4. i \in StepIds /\ steps[i] \in StepRow
    BY <1>1, Ids DEF TypeOK
  <2>5. /\ row \in StepRow /\ row.status = "waiting_approval"
        /\ row.policy = steps[i].policy /\ row.decision = steps[i].decision
    BY <2>3, <2>4 DEF StepRow, StepStatuses
  <2>6. UpdateStepFenced(i, row)
    BY <1>4, <2>1, <2>3 DEF MyRow
  <2>7. PICK t : run' = [run EXCEPT ![w] = t] /\ t.pc \in {"gateTask", "idle", "markRunFailed"}
    BY <1>1, <1>4, GotoRun, EndRun
  <2>8. NothingRuns'
    <3>1. \A j \in StepIds : steps'[j] = IF j = i THEN row ELSE steps[j]
      BY <1>1, <2>4, <2>6 DEF UpdateStepFenced, TypeOK
    <3> QED BY <2>2, <2>5, <3>1 DEF NothingRuns, RunningSteps
  <2>9. Fit(t)'
    BY <2>7, <2>8, FitEnd, FitQuiet
  <2>10. ~ReplaySafe(row.policy) => Restartable(i)
    BY <2>2, <2>5 DEF Restartable
  <2> QED BY <1>2, <1>4, <2>4, <2>5, <2>6, <2>7, <2>9, <2>10, StepWriteKeeps
<1> QED
  BY <1>3, <1>4 DEF GateMarkStep, Transaction

\* approvalNode parks the task.
LEMMA GateMarkTaskKeeps ==
  ASSUME IInv, NEW w \in Workers, GateMarkTask(w)
  PROVE  Safe'
<1>1. TypeOK /\ Safe /\ RunType /\ task \in TaskRow
  BY TypeGroups DEF IInv, TypeOK
<1>2. UNCHANGED observers /\ run[w].pc = "gateTask"
  BY DEF GateMarkTask, Transaction, At
<1>3. CASE UNCHANGED storeVars /\ Fail(w)
  BY <1>1, <1>2, <1>3, UnchangedRows, EndKeeps
<1>4. ASSUME Owns(w),
             UpdateTaskFenced(Released([task EXCEPT !.status = "waiting_approval",
                                                    !.current = run[w].step])),
             Goto(w, "saveGate") \/ Fail(w)
      PROVE  Safe'
  <2>1. NothingRuns
    BY <1>2, <1>4, HolderFits DEF Fit, QuietPcs
  <2>2. /\ task'.status = "waiting_approval"
        /\ task'.owner = NoWorker /\ UNCHANGED steps
    BY <1>1, <1>4 DEF UpdateTaskFenced, TaskRow, Released
  <2>3. PICK t : run' = [run EXCEPT ![w] = t] /\ t.pc \in {"saveGate", "idle", "markRunFailed"}
    BY <1>1, <1>4, GotoRun, EndRun
  <2>4. ~Owns(w)'
    BY <2>2, NotHeld
  <2>5. RunningSteps \subseteq {task'.current}
    BY <2>1 DEF NothingRuns
  <2> QED BY <1>2, <1>4, <2>1, <2>2, <2>3, <2>4, <2>5, TaskWriteKeeps
<1> QED
  BY <1>3, <1>4 DEF GateMarkTask, Transaction

\* planNode saves the plan over rows that are not there yet.
LEMMA PlanSaveKeeps ==
  ASSUME IInv, NEW w \in Workers, PlanSave(w)
  PROVE  Safe'
<1>1. TypeOK /\ Safe /\ RunType /\ task \in TaskRow
  BY TypeGroups DEF IInv, TypeOK
<1>2. UNCHANGED observers /\ run[w].pc = "planSave"
  BY DEF PlanSave, Transaction, At
<1>3. CASE UNCHANGED storeVars /\ Fail(w)
  BY <1>1, <1>2, <1>3, UnchangedRows, EndKeeps
<1>4. ASSUME NEW plan \in Plans, SavePlanOk(w, run[w].version), SavePlan(plan),
             Goto(w, "save") \/ Fail(w)
      PROVE  Safe'
  <2>1. Owns(w)
    BY <1>4 DEF SavePlanOk, Owns
  <2>2. Unplanned /\ task.owner = w
    BY <1>2, <2>1, HolderFits DEF Fit, FitPlan
  <2>3. task'.status = "running" /\ task'.owner = task.owner
    BY <1>1, <1>4 DEF SavePlan, TaskRow
  <2>4. /\ steps'[PlanId].status = "succeeded"
        /\ steps'[FinalId].status = "pending"
        /\ \A i \in ToolIds : \/ steps'[i] = NoRow
                              \/ /\ steps'[i].status = "pending"
                                 /\ steps'[i].decision = "pending"
    <3>1. \A i \in StepIds : steps'[i] =
                    IF i = PlanId THEN [steps[i] EXCEPT !.status = "succeeded"]
                    ELSE IF i = FinalId THEN NewStep("pending", PlainPolicy)
                    ELSE IF i \in DOMAIN plan THEN NewStep("pending", plan[i])
                    ELSE NoRow
      BY <1>4 DEF SavePlan
    <3>2. \A p : NewStep("pending", p).status = "pending"
                   /\ NewStep("pending", p).decision = "pending"
      BY DEF NewStep
    <3>3. [steps[PlanId] EXCEPT !.status = "succeeded"].status = "succeeded"
      BY <1>1, Ids DEF TypeOK, StepRow
    <3>4. steps'[PlanId].status = "succeeded"
      BY <3>1, <3>3, Ids
    <3>5. steps'[FinalId] = NewStep("pending", PlainPolicy)
      BY <3>1, Ids
    <3>6. ASSUME NEW i \in ToolIds
          PROVE  steps'[i] = NoRow \/ steps'[i] = NewStep("pending", plan[i])
      <4>1. i \in StepIds /\ i # PlanId /\ i # FinalId
        BY Ids
      <4> QED BY <3>1, <4>1
    <3> QED BY <3>2, <3>4, <3>5, <3>6
  <2>5. NoRow.status = "absent" /\ NoRow.decision = "pending" /\ UNCHANGED NoRow
    BY DEF NoRow, NewStep, PlainPolicy
  <2>6. \A i \in StepIds : steps'[i].status \in {"succeeded", "pending", "absent"}
    BY <2>4, <2>5, Ids
  <2>7. NothingRuns'
    BY <2>6 DEF NothingRuns, RunningSteps
  <2>8. RowInv'
    <3>1. RunningIsCurrent'
      BY <2>7 DEF RunningIsCurrent, NothingRuns
    <3>2. UnknownNeedsHuman'
      BY <2>3, <2>6 DEF UnknownNeedsHuman
    <3>3. Present(PlanId)' /\ Present(FinalId)'
      BY <2>4 DEF Present
    <3>4. \A i \in StepIds : ~Present(i)' => steps'[i] = NoRow
      BY <2>4, <3>3, Ids DEF Present
    <3>5. RowsFitTask'
      BY <2>3, <2>5, <2>6, <3>3, <3>4 DEF RowsFitTask
    <3>6. RanApproved'
      BY <2>4, <2>5 DEF RanApproved
    <3>7. FailureOnRecord' /\ SucceededIsComplete'
      BY <2>3 DEF FailureOnRecord, SucceededIsComplete
    <3> QED BY <3>1, <3>2, <3>5, <3>6, <3>7 DEF RowInv
  <2>9. PICK t : run' = [run EXCEPT ![w] = t] /\ t.pc \in {"save", "idle", "markRunFailed"}
    BY <1>1, <1>4, GotoRun, EndRun
  <2>10. Fit(t)'
    BY <2>7, <2>9, FitEnd, FitQuiet
  <2>11. \A i \in ToolIds : Restartable(i)
    <3>1. \A i \in ToolIds : steps[i] = NoRow
      BY <1>1, <2>2, Ids DEF Safe, RowInv, RowsFitTask, Unplanned
    <3>2. NoRow.policy = PlainPolicy /\ ~ReplaySafe(PlainPolicy)
      BY DEF NoRow, NewStep, PlainPolicy, ReplaySafe
    <3> QED BY <2>5, <3>1, <3>2 DEF Restartable
  <2>12. \A i \in ToolIds : steps'[i].decision # "approved"
    BY <2>4, <2>5
  <2> QED BY <1>1, <1>2, <2>1, <2>2, <2>3, <2>8, <2>9, <2>10, <2>11, <2>12, WriteKeeps
<1> QED
  BY <1>3, <1>4 DEF PlanSave, Transaction

\* toolNode marks the step running.  Its call is due from here on.
LEMMA ToolMarkRunningKeeps ==
  ASSUME IInv, NEW w \in Workers, ToolMarkRunning(w)
  PROVE  Safe'
<1>1. TypeOK /\ Safe /\ RunType /\ RestType /\ run[w] \in Runs
  BY TypeGroups DEF IInv, TypeOK, Run
<1>2. UNCHANGED observers /\ run[w].pc = "toolStart"
  BY DEF ToolMarkRunning, Transaction, At
<1>3. CASE UNCHANGED storeVars /\ Fail(w)
  BY <1>1, <1>2, <1>3, UnchangedRows, EndKeeps
<1>4. ASSUME Owns(w),
             UpdateStepFenced(run[w].step, [MyRow(w) EXCEPT !.status = "running",
                                              !.operation = run[w].operation]),
             Goto(w, "toolChecks") \/ Fail(w)
      PROVE  Safe'
  <2>1. /\ OnTool(run[w]) /\ NothingRuns
        /\ steps[run[w].step].status \in Startable
        /\ run[w].policy.requiresApproval => steps[run[w].step].decision = "approved"
    BY <1>2, <1>4, HolderFits DEF Fit, FitTool, QuietPcs
  <2>2. PICK i \in ToolIds : i = run[w].step
    BY <2>1 DEF OnTool
  <2>3. i \in StepIds /\ steps[i] \in StepRow /\ run[w].operation \in Nat
    BY <1>1, Ids DEF TypeOK, Runs
  <2>4. PICK row : row = [steps[i] EXCEPT !.status = "running", !.operation = run[w].operation]
    OBVIOUS
  <2>5. /\ row \in StepRow /\ row.status = "running"
        /\ row.policy = steps[i].policy /\ row.decision = steps[i].decision
    BY <2>3, <2>4 DEF StepRow, StepStatuses
  <2>6. UpdateStepFenced(i, row)
    BY <1>4, <2>2, <2>4 DEF MyRow
  <2>7. i = task.current /\ row.policy = run[w].policy
          /\ (row.policy.requiresApproval => row.decision = "approved")
    BY <2>1, <2>2, <2>5 DEF OnTool
  <2>8. CASE Fail(w)
    <3>1. PICK t : run' = [run EXCEPT ![w] = t] /\ t.pc \in {"idle", "markRunFailed"}
      BY <2>8, EndRun
    <3>2. Fit(t)'
      BY <3>1, FitEnd
    <3> QED BY <1>2, <1>4, <2>1, <2>3, <2>5, <2>6, <2>7, <3>1, <3>2, Ids, StepWriteKeeps
  <2>9. CASE Goto(w, "toolChecks")
    <3>1. PICK t : /\ run' = [run EXCEPT ![w] = t]
                   /\ t.pc = "toolChecks" /\ t.version = run[w].version
                   /\ t.step = run[w].step /\ t.policy = run[w].policy
      BY <1>1, <2>9, GotoRun
    <3>2. task' = task /\ \A j \in StepIds : steps'[j] = IF j = i THEN row ELSE steps[j]
      BY <1>1, <2>3, <2>6 DEF UpdateStepFenced, TypeOK
    <3>3. RowInv'
      BY <1>1, <1>4, <2>1, <2>3, <2>5, <2>6, <2>7, HolderFits, Ids, RowWrite
      DEF Safe, UpdateStepFenced
    <3>4. Fit(t)'
      <4>1. OnTool(t)' /\ steps'[t.step].status = "running"
        BY <2>2, <2>3, <2>5, <2>7, <3>1, <3>2 DEF OnTool
      <4> QED BY <3>1, <4>1
              DEF Fit, FitPlan, FitRoute, FitTool, FitFinal, FitFailure, QuietPcs
    <3>5. HolderInv'
      <4>1. task'.owner \in {w, NoWorker}
        BY <1>4, <3>2 DEF Owns, ActiveLease
      <4> QED BY <1>1, <1>4, <3>1, <3>4, <4>1, HolderKeeps DEF Safe
    <3>6. ApprovalInv'
      <4>1. \A j \in ToolIds : steps'[j].decision = "approved" =>
              steps[j].decision = "approved" /\ steps'[j].policy = steps[j].policy
        BY <2>5, <3>2, Ids
      <4>2. t.step \in ToolIds /\ (t.policy.requiresApproval => t.policy \in approvedUnder[t.step])
        BY <1>1, <1>2, <2>2, <3>1 DEF Safe, ApprovalInv
      <4> QED BY <1>1, <1>2, <3>1, <4>1, <4>2, ApprovalKeeps DEF Safe, observers
    <3>7. CallInv'
      <4>1. run'[w] = t /\ \A v \in Workers : v # w => run'[v] = run[v]
        BY <1>1, <3>1 DEF RunType
      <4>2. calls' = calls /\ retries' = retries
        BY <1>2 DEF observers
      <4>3. ASSUME NEW j \in ToolIds, ~(j = i /\ ~ReplaySafe(row.policy))
            PROVE  /\ IsFiniteSet(AboutToCall(j))'
                   /\ Due(j)' <= 1 + retries'[j]
                   /\ Restartable(j)' => Due(j)' <= retries'[j]
        <5>1. AboutToCall(j)' \subseteq AboutToCall(j)
          BY <2>2, <2>7, <3>1, <4>1, <4>3 DEF AboutToCall, At, ReplaySafe
        <5>2. /\ IsFiniteSet(AboutToCall(j))'
              /\ Due(j) \in Nat /\ Due(j)' \in Nat /\ retries[j] \in Nat
              /\ Due(j)' <= Due(j)
          BY <1>1, <4>2, <5>1, DueFalls, DueType DEF Safe
        <5>3. Restartable(j)' => Restartable(j)
          BY <2>5, <3>2, Ids DEF Restartable, Startable, ReplaySafe
        <5>4. Due(j) <= 1 + retries[j] /\ (Restartable(j)' => Due(j) <= retries[j])
          BY <1>1, <5>3 DEF Safe, CallInv
        <5> QED BY <4>2, <5>2, <5>4
      <4>4. ASSUME ~ReplaySafe(row.policy)
            PROVE  /\ IsFiniteSet(AboutToCall(i))'
                   /\ Due(i)' <= 1 + retries'[i]
                   /\ ~Restartable(i)'
        <5> DEFINE A == AboutToCall(i)
                   B == AboutToCall(i)'
        <5>1. B = A \cup {w} /\ w \notin A
          BY <1>2, <2>2, <2>7, <3>1, <4>1, <4>4 DEF AboutToCall, At, ReplaySafe
        <5>2. IsFiniteSet(A) /\ calls[i] \in Nat /\ retries[i] \in Nat
          BY <1>1, DueType DEF Safe, RestType
        <5>3. IsFiniteSet(B) /\ Cardinality(B) = Cardinality(A) + 1 /\ Cardinality(A) \in Nat
          <6> HIDE DEF A, B
          <6> QED BY <5>1, <5>2, FS_AddElement, FS_CardinalityType
        <5>4. Due(i) = calls[i] + Cardinality(A) /\ Due(i)' = calls[i] + Cardinality(B)
          BY <4>2 DEF Due
        <5>5. Restartable(i)
          BY <2>1, <2>2, <2>5, <4>4 DEF Restartable
        <5>6. Due(i) <= retries[i]
          BY <1>1, <5>5 DEF Safe, CallInv
        <5>7. Due(i)' <= 1 + retries[i]
          <6> HIDE DEF A, B
          <6> QED BY <5>2, <5>3, <5>4, <5>6
        <5>8. ~Restartable(i)'
          BY <2>3, <2>5, <3>2 DEF Restartable, Startable
        <5> QED BY <4>2, <5>3, <5>7, <5>8
      <4>5. \A j \in ToolIds : /\ IsFiniteSet(AboutToCall(j))'
                               /\ Due(j)' <= 1 + retries'[j]
                               /\ Restartable(j)' => Due(j)' <= retries'[j]
        <5>1. ASSUME NEW j \in ToolIds
              PROVE  /\ IsFiniteSet(AboutToCall(j))'
                     /\ Due(j)' <= 1 + retries'[j]
                     /\ Restartable(j)' => Due(j)' <= retries'[j]
          <6>1. CASE ~(j = i /\ ~ReplaySafe(row.policy))
            BY <4>3, <6>1
          <6>2. CASE j = i /\ ~ReplaySafe(row.policy)
            BY <4>4, <6>2
          <6> QED BY <6>1, <6>2
        <5> QED BY <5>1
      <4>6. \A v \in Workers : ~(Owns(v)' /\ At(v, "failStep")')
        <5>1. ~At(w, "failStep")'
          BY <3>1, <4>1 DEF At
        <5>2. \A v \in Workers : v # w => ~Owns(v)'
          BY <1>4, <3>2 DEF Owns, ActiveLease
        <5> QED BY <5>1, <5>2
      <4> QED BY <4>5, <4>6 DEF CallInv, ReplaySafe
    <3> QED BY <3>3, <3>5, <3>6, <3>7 DEF Safe
  <2> QED BY <1>4, <2>8, <2>9
<1> QED
  BY <1>3, <1>4 DEF ToolMarkRunning, Transaction

\* toolNode marks the step done.  When the statement fails the run goes on as
\* after a call of unknown outcome.
LEMMA ToolMarkSucceededKeeps ==
  ASSUME IInv, NEW w \in Workers, ToolMarkSucceeded(w)
  PROVE  Safe'
<1>1. TypeOK /\ LeaseDiscipline /\ Safe /\ RunType /\ used \in Budgets
  BY TypeGroups DEF IInv, TypeOK
<1>2. UNCHANGED observers /\ run[w].pc = "toolDone"
  BY DEF ToolMarkSucceeded, Transaction, At
<1>3. ASSUME Goto(w, AfterInvokedFailure(w))
      PROVE  \E t : /\ run' = [run EXCEPT ![w] = t]
                    /\ t.pc \in {"failStep", "unknown"} /\ t.version = run[w].version
                    /\ t.step = run[w].step /\ t.policy = run[w].policy
                    /\ t.pc = "failStep" => ReplaySafe(t.policy)
  <2>1. PICK t : /\ run' = [run EXCEPT ![w] = t]
                 /\ t.pc = AfterInvokedFailure(w) /\ t.version = run[w].version
                 /\ t.step = run[w].step /\ t.policy = run[w].policy
    BY <1>1, <1>3, GotoRun
  <2> QED BY <2>1 DEF AfterInvokedFailure
<1>4. ASSUME UNCHANGED storeVars, Goto(w, AfterInvokedFailure(w))
      PROVE  Safe'
  <2>1. PICK t : /\ run' = [run EXCEPT ![w] = t]
                 /\ t.pc \in {"failStep", "unknown"} /\ t.version = run[w].version
                 /\ t.step = run[w].step /\ t.policy = run[w].policy
                 /\ t.pc = "failStep" => ReplaySafe(t.policy)
    BY <1>3, <1>4
  <2>2. SameRows
    BY <1>4, UnchangedRows
  <2>3. ASSUME Owns(w)' PROVE Fit(t)
    <3>1. OnTool(run[w]) /\ steps[run[w].step].status = "running"
      BY <1>1, <1>2, <2>1, <2>2, <2>3, StillOwns DEF Fit, FitTool
    <3>2. OnTool(t) /\ steps[t.step].status = "running" /\ task.current = t.step
      BY <2>1, <3>1 DEF OnTool
    <3>3. CASE t.pc = "failStep"
      BY <3>2, <3>3 DEF Fit, FitPlan, FitRoute, FitTool, FitFinal, FitFailure, QuietPcs
    <3> QED BY <2>1, <3>3, FitEnd
  <2> QED BY <1>1, <1>2, <2>1, <2>2, <2>3, MoveKeeps
<1>5. ASSUME Owns(w),
             UpdateStepFenced(run[w].step, [MyRow(w) EXCEPT !.status = "succeeded"]),
             Goto(w, "toolTask") \/ (SpendDbFault /\ Goto(w, AfterInvokedFailure(w)))
      PROVE  Safe'
  <2>1. OnTool(run[w]) /\ steps[run[w].step].status = "running"
    BY <1>2, <1>5, HolderFits DEF Fit, FitTool
  <2>2. PICK i \in ToolIds : i = run[w].step
    BY <2>1 DEF OnTool
  <2>3. i \in StepIds /\ steps[i] \in StepRow /\ i # PlanId
    BY <1>1, Ids DEF TypeOK
  <2>4. PICK row : row = [steps[i] EXCEPT !.status = "succeeded"]
    OBVIOUS
  <2>5. /\ row \in StepRow /\ row.status = "succeeded"
        /\ row.policy = steps[i].policy /\ row.decision = steps[i].decision
    BY <2>3, <2>4 DEF StepRow, StepStatuses
  <2>6. UpdateStepFenced(i, row)
    BY <1>5, <2>2, <2>4 DEF MyRow
  <2>7. row.policy.requiresApproval => row.decision = "approved"
    BY <1>1, <2>1, <2>2, <2>5 DEF Safe, RowInv, RanApproved
  <2>8. task' = task /\ \A j \in StepIds : steps'[j] = IF j = i THEN row ELSE steps[j]
    BY <1>1, <2>3, <2>6 DEF UpdateStepFenced, TypeOK
  <2>9. NothingRuns'
    <3>1. RunningSteps \subseteq {i}
      BY <1>1, <2>1, <2>2 DEF Safe, RowInv, RunningIsCurrent, OnTool
    <3> QED BY <2>5, <2>8, <3>1 DEF NothingRuns, RunningSteps
  <2>10. CASE Goto(w, "toolTask")
    <3>1. PICK t : run' = [run EXCEPT ![w] = t] /\ t.pc = "toolTask"
      BY <1>1, <2>10, GotoRun
    <3>2. Fit(t)'
      BY <2>9, <3>1, FitQuiet
    <3> QED BY <1>2, <1>5, <2>3, <2>5, <2>6, <2>7, <3>1, <3>2, StepWriteKeeps
  <2>11. CASE SpendDbFault /\ Goto(w, AfterInvokedFailure(w))
    <3>1. PICK t : /\ run' = [run EXCEPT ![w] = t]
                   /\ t.pc \in {"failStep", "unknown"} /\ t.version = run[w].version
                   /\ t.step = run[w].step /\ t.policy = run[w].policy
                   /\ t.pc = "failStep" => ReplaySafe(t.policy)
      BY <1>3, <2>11
    <3>2. MaxDbFaults # 0
      BY <1>1, <2>11 DEF SpendDbFault, Budgets
    <3>3. Fit(t)'
      <4>1. CASE t.pc = "failStep"
        <5>1. OnTool(t)' /\ steps'[t.step].status = "succeeded" /\ task'.current = t.step
          BY <2>1, <2>2, <2>3, <2>5, <2>8, <3>1 DEF OnTool
        <5>2. ReplaySafe(t.policy)'
          BY <3>1, <4>1 DEF ReplaySafe
        <5> QED BY <3>2, <4>1, <5>1, <5>2
                DEF Fit, FitPlan, FitRoute, FitTool, FitFinal, FitFailure, QuietPcs
      <4> QED BY <3>1, <4>1, FitEnd
    <3> QED BY <1>2, <1>5, <2>3, <2>5, <2>6, <2>7, <3>1, <3>3, StepWriteKeeps
  <2> QED BY <1>5, <2>10, <2>11
<1> QED
  BY <1>4, <1>5 DEF ToolMarkSucceeded, Transaction

\* toolNode leaves the step behind.
LEMMA ToolMarkTaskKeeps ==
  ASSUME IInv, NEW w \in Workers, ToolMarkTask(w)
  PROVE  Safe'
<1>1. TypeOK /\ Safe /\ RunType /\ task \in TaskRow
  BY TypeGroups DEF IInv, TypeOK
<1>2. UNCHANGED observers /\ run[w].pc = "toolTask"
  BY DEF ToolMarkTask, Transaction, At
<1>3. CASE UNCHANGED storeVars /\ Fail(w)
  BY <1>1, <1>2, <1>3, UnchangedRows, EndKeeps
<1>4. ASSUME Owns(w),
             UpdateTaskFenced([task EXCEPT !.status = "running", !.current = NoStep]),
             Enter(w, "save") \/ Fail(w)
      PROVE  Safe'
  <2>1. NothingRuns /\ task.owner = w
    BY <1>2, <1>4, HolderFits DEF Fit, QuietPcs
  <2>2. task'.status = "running" /\ task'.owner = task.owner /\ UNCHANGED steps
    BY <1>1, <1>4 DEF UpdateTaskFenced, TaskRow
  <2>3. PICK t : run' = [run EXCEPT ![w] = t] /\ t.pc \in {"save", "idle", "markRunFailed"}
    BY <1>4, EnterRun, EndRun
  <2>4. Fit(t)'
    BY <2>1, <2>2, <2>3, SameSteps, FitEnd, FitQuiet
  <2>5. RunningSteps \subseteq {task'.current}
    BY <2>1 DEF NothingRuns
  <2> QED BY <1>2, <1>4, <2>1, <2>2, <2>3, <2>4, <2>5, TaskWriteKeeps
<1> QED
  BY <1>3, <1>4 DEF ToolMarkTask, Transaction

\* The task pauses for a human, on its running step.
LEMMA ReviewKeeps ==
  ASSUME IInv, NEW w \in Workers, Exit(w) \/ Fail(w), UNCHANGED observers,
         NEW i, MarkReviewOk(w, run[w].version, i), NEW p,
         MarkExecutionUnknownFenced(i) \/ MarkPolicyReviewFenced(i, p)
  PROVE  Safe'
<1>1. TypeOK /\ Safe /\ Owns(w) /\ i \in ToolIds /\ steps[i].status = "running"
        /\ task.status \in LeasedStatuses /\ task \in TaskRow
  BY OwnerHolds DEF IInv, MarkReviewOk, Owns, TypeOK
<1>2. i \in StepIds /\ steps[i] \in StepRow
  BY <1>1, Ids DEF TypeOK
<1>3. PICK row : /\ steps' = [steps EXCEPT ![i] = row]
                 /\ row.status = "execution_unknown"
                 /\ row.decision = "approved" =>
                      steps[i].decision = "approved" /\ row.policy = steps[i].policy
  <2>1. CASE MarkExecutionUnknownFenced(i)
    <3>1. PICK row : row = [steps[i] EXCEPT !.status = "execution_unknown"]
      OBVIOUS
    <3>2. steps' = [steps EXCEPT ![i] = row]
      BY <2>1, <3>1 DEF MarkExecutionUnknownFenced
    <3>3. /\ row.status = "execution_unknown" /\ row.decision = steps[i].decision
          /\ row.policy = steps[i].policy
      BY <1>2, <3>1 DEF StepRow
    <3> QED BY <3>2, <3>3
  <2>2. CASE MarkPolicyReviewFenced(i, p)
    <3>1. PICK row : row = [steps[i] EXCEPT !.status = "execution_unknown", !.policy = p,
                                            !.decision = "pending"]
      OBVIOUS
    <3>2. steps' = [steps EXCEPT ![i] = row]
      BY <1>1, <1>2, <2>2, <3>1 DEF MarkPolicyReviewFenced, TypeOK
    <3>3. row.status = "execution_unknown" /\ row.decision = "pending"
      BY <1>2, <3>1 DEF StepRow
    <3> QED BY <3>2, <3>3
  <2> QED BY <2>1, <2>2
<1>4. /\ task'.status = "requires_review" /\ task'.current = i /\ task'.owner = NoWorker
  <2>1. task' = PausedForReview(i)
    BY DEF MarkExecutionUnknownFenced, MarkPolicyReviewFenced
  <2> QED BY <1>1, <2>1 DEF PausedForReview, Released, TaskRow
<1>5. RowInv'
  BY <1>1, <1>3, <1>4, ReviewWrite DEF Safe
<1>6. steps'[i] = row /\ \A j \in StepIds : j # i => steps'[j] = steps[j]
  BY <1>1, <1>2, <1>3 DEF TypeOK
<1>7. \A j \in ToolIds : steps'[j].decision = "approved" =>
        steps[j].decision = "approved" /\ steps'[j].policy = steps[j].policy
  BY <1>3, <1>6, Ids
<1>8. \A j \in ToolIds : Restartable(j)' => Restartable(j)
  BY <1>3, <1>6, Ids DEF Restartable, Startable, ReplaySafe
<1>9. PICK t : run' = [run EXCEPT ![w] = t] /\ t.pc \in {"idle", "markRunFailed"}
  BY EndRun
<1>10. ~Owns(w)'
  BY <1>4, NotHeld
<1> QED
  BY <1>1, <1>4, <1>5, <1>7, <1>8, <1>9, <1>10, WriteKeeps

\* The three ways to that pause.
LEMMA ReviewActionsKeep ==
  ASSUME IInv, NEW w \in Workers,
         RequirePolicyReview(w) \/ MarkUnknown(w) \/ MarkRunUnknown(w)
  PROVE  Safe'
<1>1. TypeOK /\ Safe
  BY DEF IInv
<1>2. UNCHANGED observers /\ (Exit(w) \/ Fail(w))
  BY DEF RequirePolicyReview, MarkUnknown, MarkRunUnknown, Transaction
<1>3. CASE UNCHANGED storeVars
  BY <1>1, <1>2, <1>3, UnchangedRows, EndKeeps
<1>4. CASE /\ MarkReviewOk(w, run[w].version, run[w].step)
           /\ \/ MarkExecutionUnknownFenced(run[w].step)
              \/ MarkPolicyReviewFenced(run[w].step, run[w].policy)
  BY <1>2, <1>4, ReviewKeeps
<1> QED
  BY <1>3, <1>4 DEF RequirePolicyReview, MarkUnknown, MarkRunUnknown, Transaction

\* failToolStep and its use for the final step.
LEMMA FailStepKeeps ==
  ASSUME IInv, NEW w \in Workers, FailStep(w)
  PROVE  Safe'
<1>1. TypeOK /\ LeaseDiscipline /\ Safe /\ RunType /\ used \in Budgets
  BY TypeGroups DEF IInv, TypeOK
<1>2. UNCHANGED observers /\ run[w].pc = "failStep"
  BY DEF FailStep, Transaction, At
<1>3. PICK t : /\ run' = [run EXCEPT ![w] = t]
               /\ t.pc = "failTask" /\ t.version = run[w].version
  BY <1>1, GotoRun DEF FailStep, Transaction
<1>4. ASSUME UNCHANGED storeVars, ~Owns(w) \/ SpendDbFault
      PROVE  Safe'
  <2>1. SameRows
    BY <1>4, UnchangedRows
  <2>3. ASSUME Owns(w)' PROVE Fit(t)
    <3>1. Owns(w)
      BY <1>1, <1>3, <2>1, <2>3, StillOwns
    <3>2. MaxDbFaults # 0
      BY <1>1, <1>4, <3>1 DEF SpendDbFault, Budgets
    <3> QED BY <1>3, <3>2
            DEF Fit, FitPlan, FitRoute, FitTool, FitFinal, FitFailure, QuietPcs
  <2> QED BY <1>1, <1>2, <1>3, <2>1, <2>3, MoveKeeps
<1>5. ASSUME Owns(w), UpdateStepFenced(run[w].step, [MyRow(w) EXCEPT !.status = "failed"])
      PROVE  Safe'
  <2>1. FitFailure(run[w])
    BY <1>5, HolderFits DEF Fit
  <2>2. PICK i \in StepIds : i = run[w].step
    BY <1>2, <2>1, Ids DEF FitFailure, OnTool
  <2>3. /\ task.current = i
        /\ i \in ToolIds => steps[i].policy = run[w].policy
    BY <1>2, <2>1, <2>2, Ids DEF FitFailure, OnTool
  <2>4. steps[i] \in StepRow
    BY <1>1 DEF TypeOK
  <2>5. PICK row : row = [steps[i] EXCEPT !.status = "failed"]
    OBVIOUS
  <2>6. /\ row \in StepRow /\ row.status = "failed"
        /\ row.policy = steps[i].policy /\ row.decision = steps[i].decision
    BY <2>4, <2>5 DEF StepRow, StepStatuses
  <2>7. UpdateStepFenced(i, row)
    BY <1>5, <2>2, <2>5 DEF MyRow
  <2>8. task' = task /\ steps'[i] = row
    BY <1>1, <2>7 DEF UpdateStepFenced, TypeOK
  <2>9. i \in ToolIds /\ ~ReplaySafe(row.policy) => Due(i) <= retries[i]
    BY <1>1, <1>2, <1>5, <2>2, <2>3, <2>6 DEF Safe, CallInv, At
  <2>10. Fit(t)'
    <3>1. task'.current \in StepIds /\ steps'[task'.current].status = "failed"
      BY <2>3, <2>6, <2>8
    <3> QED BY <1>3, <3>1 DEF Fit, FitPlan, FitRoute, FitTool, FitFinal, FitFailure, QuietPcs
  <2> QED BY <1>2, <1>3, <1>5, <2>6, <2>7, <2>9, <2>10, StepWriteKeeps
<1> QED
  BY <1>4, <1>5 DEF FailStep, Transaction

\* failToolStep fails the task.
LEMMA FailTaskKeeps ==
  ASSUME IInv, NEW w \in Workers, FailTask(w)
  PROVE  Safe'
<1>1. TypeOK /\ Safe /\ task \in TaskRow
  BY DEF IInv, TypeOK
<1>2. UNCHANGED observers /\ run[w].pc = "failTask" /\ Fail(w)
  BY DEF FailTask, Transaction, At
<1>3. CASE UNCHANGED storeVars
  BY <1>1, <1>2, <1>3, UnchangedRows, EndKeeps
<1>4. ASSUME Owns(w), UpdateTaskFenced(Released([task EXCEPT !.status = "failed"]))
      PROVE  Safe'
  <2>1. MaxDbFaults = 0 => task.current \in StepIds /\ steps[task.current].status = "failed"
    BY <1>2, <1>4, HolderFits DEF Fit, FitFailure
  <2>2. /\ task'.status = "failed" /\ task'.current = task.current
        /\ task'.owner = NoWorker /\ UNCHANGED steps
    BY <1>1, <1>4 DEF UpdateTaskFenced, TaskRow, Released
  <2>3. PICK t : run' = [run EXCEPT ![w] = t] /\ t.pc \in {"idle", "markRunFailed"}
    BY <1>2, EndRun
  <2>4. RunningSteps \subseteq {task'.current}
    BY <1>1, <2>2 DEF Safe, RowInv, RunningIsCurrent
  <2>5. ~Owns(w)'
    BY <2>2, NotHeld
  <2> QED BY <1>2, <1>4, <2>1, <2>2, <2>3, <2>4, <2>5, TaskWriteKeeps
<1> QED
  BY <1>3, <1>4 DEF FailTask, Transaction

\* finalizeNode marks the final step running.
LEMMA FinalMarkRunningKeeps ==
  ASSUME IInv, NEW w \in Workers, FinalMarkRunning(w)
  PROVE  Safe'
<1>1. TypeOK /\ Safe /\ RunType /\ steps[FinalId] \in StepRow
  BY TypeGroups, Ids DEF IInv, TypeOK
<1>2. UNCHANGED observers /\ run[w].pc = "finalStart"
  BY DEF FinalMarkRunning, Transaction, At
<1>3. CASE UNCHANGED storeVars /\ Fail(w)
  BY <1>1, <1>2, <1>3, UnchangedRows, EndKeeps
<1>4. PICK row : row = [steps[FinalId] EXCEPT !.status = "running"]
  OBVIOUS
<1>5. /\ row \in StepRow /\ row.status = "running"
      /\ row.policy = steps[FinalId].policy /\ row.decision = steps[FinalId].decision
  BY <1>1, <1>4 DEF StepRow, StepStatuses
<1>6. ASSUME Owns(w), UpdateStepFenced(FinalId, row), Goto(w, "finalGen") \/ Fail(w)
      PROVE  Safe'
  <2>1. NothingRuns /\ ToolsDone /\ task.current = FinalId /\ run[w].step = FinalId
    BY <1>2, <1>6, HolderFits DEF Fit, QuietPcs, FitFinal
  <2>2. task' = task /\ \A j \in StepIds : steps'[j] = IF j = FinalId THEN row ELSE steps[j]
    BY <1>1, <1>6 DEF UpdateStepFenced, TypeOK
  <2>3. PICK t : /\ run' = [run EXCEPT ![w] = t]
                 /\ \/ t.pc = "finalGen" /\ t.step = run[w].step
                    \/ t.pc \in {"idle", "markRunFailed"}
    BY <1>1, <1>6, GotoRun, EndRun
  <2>4. Fit(t)'
    <3>1. CASE t.pc = "finalGen" /\ t.step = run[w].step
      <4>1. ToolsDone' /\ steps'[FinalId].status = "running"
        BY <1>5, <2>1, <2>2, Ids DEF ToolsDone
      <4> QED BY <2>1, <2>2, <3>1, <4>1
          DEF Fit, FitPlan, FitRoute, FitTool, FitFinal, FitFailure, QuietPcs
    <3> QED BY <2>3, <3>1, FitEnd
  <2>5. t.pc \in {"finalGen", "idle", "markRunFailed"}
    BY <2>3
  <2> QED BY <1>2, <1>5, <1>6, <2>1, <2>3, <2>4, <2>5, Ids, StepWriteKeeps
<1> QED
  BY <1>3, <1>4, <1>6 DEF FinalMarkRunning, Transaction

\* finalizeNode marks the final step done.
LEMMA FinalMarkSucceededKeeps ==
  ASSUME IInv, NEW w \in Workers, FinalMarkSucceeded(w)
  PROVE  Safe'
<1>1. TypeOK /\ Safe /\ RunType /\ steps[FinalId] \in StepRow
  BY TypeGroups, Ids DEF IInv, TypeOK
<1>2. UNCHANGED observers /\ run[w].pc = "finalDone"
  BY DEF FinalMarkSucceeded, Transaction, At
<1>3. CASE UNCHANGED storeVars /\ Fail(w)
  BY <1>1, <1>2, <1>3, UnchangedRows, EndKeeps
<1>4. PICK row : row = [steps[FinalId] EXCEPT !.status = "succeeded"]
  OBVIOUS
<1>5. /\ row \in StepRow /\ row.status = "succeeded"
      /\ row.policy = steps[FinalId].policy /\ row.decision = steps[FinalId].decision
  BY <1>1, <1>4 DEF StepRow, StepStatuses
<1>6. ASSUME Owns(w), UpdateStepFenced(FinalId, row), Goto(w, "finalTask") \/ Fail(w)
      PROVE  Safe'
  <2>1. ToolsDone /\ task.current = FinalId
    BY <1>2, <1>6, HolderFits DEF Fit, FitFinal
  <2>2. task' = task /\ \A j \in StepIds : steps'[j] = IF j = FinalId THEN row ELSE steps[j]
    BY <1>1, <1>6 DEF UpdateStepFenced, TypeOK
  <2>3. PICK t : run' = [run EXCEPT ![w] = t] /\ t.pc \in {"finalTask", "idle", "markRunFailed"}
    BY <1>1, <1>6, GotoRun, EndRun
  <2>4. Fit(t)'
    <3>1. CASE t.pc = "finalTask"
      <4>1. ToolsDone' /\ steps'[FinalId].status = "succeeded"
        BY <1>5, <2>1, <2>2, Ids DEF ToolsDone
      <4>2. NothingRuns'
        <5>1. RunningSteps \subseteq {FinalId}
          BY <1>1, <2>1 DEF Safe, RowInv, RunningIsCurrent
        <5> QED BY <1>5, <2>2, <5>1 DEF NothingRuns, RunningSteps
      <4> QED BY <2>1, <2>2, <3>1, <4>1, <4>2
          DEF Fit, FitPlan, FitRoute, FitTool, FitFinal, FitFailure
    <3> QED BY <2>3, <3>1, FitEnd
  <2> QED BY <1>2, <1>5, <1>6, <2>3, <2>4, Ids, StepWriteKeeps
<1> QED
  BY <1>3, <1>4, <1>6 DEF FinalMarkSucceeded, Transaction

\* finalizeNode ends the task.
LEMMA FinalMarkTaskKeeps ==
  ASSUME IInv, NEW w \in Workers, FinalMarkTask(w)
  PROVE  Safe'
<1>1. TypeOK /\ Safe /\ task \in TaskRow
  BY DEF IInv, TypeOK
<1>2. UNCHANGED observers /\ run[w].pc = "finalTask" /\ (Exit(w) \/ Fail(w))
  BY DEF FinalMarkTask, Transaction, At
<1>3. CASE UNCHANGED storeVars
  BY <1>1, <1>2, <1>3, UnchangedRows, EndKeeps
<1>4. ASSUME Owns(w),
             UpdateTaskFenced(Released([task EXCEPT !.status = "succeeded", !.current = FinalId]))
      PROVE  Safe'
  <2>1. NothingRuns /\ ToolsDone /\ steps[FinalId].status = "succeeded"
    BY <1>2, <1>4, HolderFits DEF Fit, FitFinal, QuietPcs
  <2>2. task'.status = "succeeded" /\ task'.owner = NoWorker /\ UNCHANGED steps
    BY <1>1, <1>4 DEF UpdateTaskFenced, TaskRow, Released
  <2>3. PICK t : run' = [run EXCEPT ![w] = t] /\ t.pc \in {"idle", "markRunFailed"}
    BY <1>2, EndRun
  <2>4. RunningSteps \subseteq {task'.current}
    BY <2>1 DEF NothingRuns
  <2>5. ~Owns(w)'
    BY <2>2, NotHeld
  <2> QED BY <1>2, <1>4, <2>1, <2>2, <2>3, <2>4, <2>5, TaskWriteKeeps
<1> QED
  BY <1>3, <1>4 DEF FinalMarkTask, Transaction

\* markRunFailed marks the step it found.
LEMMA MarkStepKeeps ==
  ASSUME IInv, NEW w \in Workers, MarkRunFailedStep(w)
  PROVE  Safe'
<1>1. TypeOK /\ LeaseDiscipline /\ Safe /\ RunType /\ used \in Budgets
  BY TypeGroups DEF IInv, TypeOK
<1>2. UNCHANGED observers /\ run[w].pc = "markStep"
  BY DEF MarkRunFailedStep, Transaction, At
<1>3. PICK t : /\ run' = [run EXCEPT ![w] = t]
               /\ t.pc = "markTask" /\ t.version = run[w].version /\ t.step = run[w].step
  BY <1>1, GotoRun DEF MarkRunFailedStep, Transaction
<1>4. ASSUME UNCHANGED storeVars, ~Owns(w) \/ SpendDbFault
      PROVE  Safe'
  <2>1. SameRows
    BY <1>4, UnchangedRows
  <2>2. ASSUME Owns(w)' PROVE Fit(t)
    <3>1. Owns(w) /\ FitFailure(run[w])
      BY <1>1, <1>3, <2>1, <2>2, StillOwns DEF Fit
    <3>2. MaxDbFaults # 0
      BY <1>1, <1>4, <3>1 DEF SpendDbFault, Budgets
    <3>3. t.step \in StepIds /\ RunningSteps \subseteq {t.step}
      BY <1>2, <1>3, <3>1 DEF FitFailure
    <3> QED BY <1>3, <3>2, <3>3
            DEF Fit, FitPlan, FitRoute, FitTool, FitFinal, FitFailure, QuietPcs
  <2> QED BY <1>1, <1>2, <1>3, <2>1, <2>2, MoveKeeps
<1>5. ASSUME Owns(w), UpdateStepFenced(run[w].step, [MyRow(w) EXCEPT !.status = "failed"])
      PROVE  Safe'
  <2>1. FitFailure(run[w])
    BY <1>5, HolderFits DEF Fit
  <2>2. PICK i \in StepIds : i = run[w].step
    BY <1>2, <2>1 DEF FitFailure
  <2>3. /\ RunningSteps \subseteq {i}
        /\ i \in ToolIds => \/ steps[i].status \in Startable
                            \/ steps[i].status = "running" /\ ReplaySafe(steps[i].policy)
    BY <1>2, <2>1, <2>2 DEF FitFailure
  <2>4. steps[i] \in StepRow
    BY <1>1 DEF TypeOK
  <2>5. PICK row : row = [steps[i] EXCEPT !.status = "failed"]
    OBVIOUS
  <2>6. /\ row \in StepRow /\ row.status = "failed"
        /\ row.policy = steps[i].policy /\ row.decision = steps[i].decision
    BY <2>4, <2>5 DEF StepRow, StepStatuses
  <2>7. UpdateStepFenced(i, row)
    BY <1>5, <2>2, <2>5 DEF MyRow
  <2>8. task' = task /\ \A j \in StepIds : steps'[j] = IF j = i THEN row ELSE steps[j]
    BY <1>1, <2>7 DEF UpdateStepFenced, TypeOK
  <2>9. i \in ToolIds /\ ~ReplaySafe(row.policy) => Restartable(i)
    BY <2>3, <2>6 DEF Restartable
  <2>10. Fit(t)'
    <3>1. t.step \in StepIds /\ RunningSteps' \subseteq {t.step}
      BY <1>3, <2>2, <2>3, <2>8 DEF RunningSteps
    <3>2. steps'[t.step].status = "failed"
      BY <1>3, <2>2, <2>6, <2>8
    <3> QED BY <1>3, <3>1, <3>2
            DEF Fit, FitPlan, FitRoute, FitTool, FitFinal, FitFailure, QuietPcs
  <2> QED BY <1>2, <1>3, <1>5, <2>6, <2>7, <2>9, <2>10, StepWriteKeeps
<1> QED
  BY <1>4, <1>5 DEF MarkRunFailedStep, Transaction

\* markRunFailed marks the task.
LEMMA MarkTaskKeeps ==
  ASSUME IInv, NEW w \in Workers, MarkRunFailedTask(w)
  PROVE  Safe'
<1>1. TypeOK /\ Safe /\ task \in TaskRow
  BY DEF IInv, TypeOK
<1>2. UNCHANGED observers /\ run[w].pc = "markTask" /\ Exit(w)
  BY DEF MarkRunFailedTask, Transaction, At
<1>3. CASE UNCHANGED storeVars
  BY <1>1, <1>2, <1>3, UnchangedRows, EndKeeps
<1>4. ASSUME Owns(w),
             UpdateTaskFenced(Released([task EXCEPT !.status = "failed",
                   !.current = IF run[w].step = NoStep THEN @ ELSE run[w].step]))
      PROVE  Safe'
  <2>1. /\ run[w].step \in StepIds /\ RunningSteps \subseteq {run[w].step}
        /\ MaxDbFaults = 0 => steps[run[w].step].status = "failed"
    BY <1>2, <1>4, HolderFits DEF Fit, FitFailure
  <2>2. /\ task'.status = "failed" /\ task'.current = run[w].step
        /\ task'.owner = NoWorker /\ UNCHANGED steps
    BY <1>1, <1>4, <2>1, Ids DEF UpdateTaskFenced, TaskRow, Released
  <2>3. PICK t : run' = [run EXCEPT ![w] = t] /\ t.pc \in {"idle", "markRunFailed"}
    BY <1>2, EndRun
  <2>4. ~Owns(w)'
    BY <2>2, NotHeld
  <2> QED BY <1>2, <1>4, <2>1, <2>2, <2>3, <2>4, TaskWriteKeeps
<1> QED
  BY <1>3, <1>4 DEF MarkRunFailedTask, Transaction

\* Every step of a worker.
LEMMA WorkerKeeps ==
  ASSUME IInv, NEW w \in Workers, WorkerStep(w)
  PROVE  Safe'
BY ReadClaimedKeeps, LoadKeeps, CheckpointKeeps, PlanReadKeeps, PlanMarkTaskKeeps,
   PlanMarkStepKeeps, PlanSaveKeeps, EndingsKeep, DispatchKeeps, PersistRouteKeeps,
   GateReadKeeps, GateMarkStepKeeps, GateMarkTaskKeeps, ToolReadKeeps,
   ToolMarkRunningKeeps, ToolCheckFailsKeeps, ToolReturnsKeeps, ReviewActionsKeep,
   CallToolKeeps, ToolMarkSucceededKeeps, ToolMarkTaskKeeps, FailStepKeeps,
   FailTaskKeeps, FinalReadKeeps, FinalMarkRunningKeeps, FinalMarkSucceededKeeps,
   FinalMarkTaskKeeps, MarkReadKeeps, MarkStepKeeps, MarkTaskKeeps
DEF WorkerStep

-----------------------------------------------------------------------------
(* Polls, the passing of time and the owner's calls.                       *)

\* A step that leaves nobody holding the task: what is due is counted again,
\* and an approval may only have been added.
LEMMA OutsideKeeps ==
  ASSUME TypeOK, Safe, UNCHANGED run, UNCHANGED calls,
         \A w \in Workers : ~Owns(w)' /\ ~FreshClaim(w)',
         RowInv',
         \A i \in ToolIds : retries'[i] \in Nat /\ retries[i] <= retries'[i],
         \A i \in ToolIds : approvedUnder[i] \subseteq approvedUnder'[i],
         \A i \in ToolIds :
           steps'[i].decision = "approved" => steps'[i].policy \in approvedUnder'[i],
         \A i \in ToolIds : Restartable(i)' => Due(i) <= retries'[i]
  PROVE  Safe'
<1>1. RunType /\ RestType /\ RowInv /\ HolderInv /\ ApprovalInv /\ CallInv
  BY TypeGroups DEF Safe
<1>2. HolderInv'
  BY DEF HolderInv
<1>3. ApprovalInv'
  BY <1>1 DEF ApprovalInv
<1>4. ASSUME NEW i \in ToolIds
      PROVE  /\ IsFiniteSet(AboutToCall(i))'
             /\ Due(i)' <= 1 + retries'[i]
             /\ Restartable(i)' => Due(i)' <= retries'[i]
  <2>1. AboutToCall(i)' \subseteq AboutToCall(i)
    BY DEF AboutToCall, At, ReplaySafe
  <2>2. Due(i) \in Nat /\ retries[i] \in Nat /\ IsFiniteSet(AboutToCall(i))
    BY <1>1, DueType
  <2>3. IsFiniteSet(AboutToCall(i))' /\ Due(i)' \in Nat /\ Due(i)' <= Due(i)
    BY <1>1, <2>1, <2>2, DueFalls
  <2>4. Due(i) <= 1 + retries[i]
    BY <1>1 DEF CallInv
  <2>5. retries'[i] \in Nat /\ retries[i] <= retries'[i]
    OBVIOUS
  <2>6. Due(i)' <= 1 + retries'[i]
    BY <2>2, <2>3, <2>4, <2>5
  <2>7. Restartable(i)' => Due(i)' <= retries'[i]
    BY <2>2, <2>3, <2>5
  <2> QED BY <2>3, <2>6, <2>7
<1>5. CallInv'
  BY <1>4 DEF CallInv
<1> QED
  BY <1>2, <1>3, <1>5 DEF Safe

\* A released task, or one whose lease has run out, has no holder.
LEMMA NobodyHolds ==
  ASSUME task'.owner = NoWorker \/ task'.lease # "live"
  PROVE  \A w \in Workers : ~Owns(w)' /\ ~FreshClaim(w)'
BY WorkersAssumption DEF Owns, ActiveLease, FreshClaim

\* The rows and the task's place among them are as they were.
LEMMA SamePlaceKeepsRows ==
  ASSUME RowInv, UNCHANGED steps, task'.status = task.status, task'.current = task.current
  PROVE  RowInv'
<1>1. RunningIsCurrent'
  BY DEF RowInv, RunningIsCurrent, RunningSteps, NothingRuns
<1>2. UnknownNeedsHuman'
  BY DEF RowInv, UnknownNeedsHuman
<1>3. RowsFitTask'
  BY DEF RowInv, RowsFitTask, Present
<1>4. RanApproved' /\ FailureOnRecord' /\ SucceededIsComplete'
  BY DEF RowInv, RanApproved, FailureOnRecord, SucceededIsComplete
<1> QED
  BY <1>1, <1>2, <1>3, <1>4 DEF RowInv

\* A step that changes neither rows nor runs.
LEMMA StutterKeeps ==
  ASSUME TypeOK, Safe, UNCHANGED <<storeVars, run, observers>>
  PROVE  Safe'
<1>1. SameRows /\ UNCHANGED run /\ UNCHANGED <<calls, retries, approvedUnder>>
  BY UnchangedRows DEF observers
<1>2. RowInv'
  BY <1>1, SameRowsKeepRows DEF Safe
<1>3. \A w \in Workers : /\ Owns(w)' => Owns(w)
                         /\ FreshClaim(w)' => FreshClaim(w)
  BY <1>1 DEF Owns, ActiveLease, FreshClaim, SameRows, At
<1>4. HolderInv'
  BY <1>1, <1>3, SameRowsKeepFit DEF Safe, HolderInv
<1>5. ApprovalInv'
  BY <1>1 DEF Safe, ApprovalInv, SameRows
<1>6. \A i : AboutToCall(i)' = AboutToCall(i) /\ (Restartable(i)' => Restartable(i))
  BY <1>1 DEF AboutToCall, Restartable, SameRows, At, ReplaySafe
<1>7. \A i : Due(i)' = Due(i)
  BY <1>1, <1>6 DEF Due
<1>8. CallInv'
  BY <1>1, <1>3, <1>6, <1>7 DEF Safe, CallInv, At, ReplaySafe
<1> QED
  BY <1>2, <1>4, <1>5, <1>8 DEF Safe

\* ClaimTask takes a queued task, on which nothing runs.
LEMMA ClaimKeeps ==
  ASSUME IInv, NEW w \in Workers, Claim(w)
  PROVE  Safe'
<1>1. TypeOK /\ Safe /\ RunType /\ RestType /\ task \in TaskRow
  BY TypeGroups DEF IInv, TypeOK
<1>2. /\ task.status = "pending" /\ UNCHANGED steps
      /\ task'.status = "running" /\ task'.current = task.current /\ task'.owner = w
  BY <1>1 DEF Claim, ClaimTask, TaskRow
<1>3. UNCHANGED observers /\ calls' = calls /\ retries' = retries
        /\ approvedUnder' = approvedUnder
  BY DEF Claim, observers
<1>4. PICK t : run' = [run EXCEPT ![w] = t] /\ t.pc = "claimed"
  BY <1>1, GotoRun DEF Claim
<1>5. run'[w] = t /\ \A v \in Workers : v # w => run'[v] = run[v]
  BY <1>1, <1>4 DEF RunType
<1>6. RowInv /\ NothingRuns
  BY <1>1, <1>2 DEF Safe, RowInv, RunningIsCurrent, LeasedStatuses
<1>7. RowInv'
  <2>1. RunningIsCurrent'
    BY <1>2, <1>6 DEF RunningIsCurrent, RunningSteps, NothingRuns, LeasedStatuses
  <2>2. UnknownNeedsHuman'
    BY <1>2, <1>6 DEF RowInv, UnknownNeedsHuman
  <2>3. RowsFitTask'
    BY <1>2, <1>6 DEF RowInv, RowsFitTask, Present
  <2>4. RanApproved' /\ FailureOnRecord' /\ SucceededIsComplete'
    BY <1>2, <1>6 DEF RowInv, RanApproved, FailureOnRecord, SucceededIsComplete
  <2> QED BY <2>1, <2>2, <2>3, <2>4 DEF RowInv
<1>8. HolderInv'
  <2>1. NothingRuns'
    BY <1>2, <1>6, SameSteps
  <2>2. \A v \in Workers : Owns(v)' => v = w
    BY <1>2 DEF Owns, ActiveLease
  <2>3. Fit(t)'
    BY <1>4 DEF Fit, FitPlan, FitRoute, FitTool, FitFinal, FitFailure, QuietPcs
  <2>4. Fit(run[w])'
    BY <1>5, <2>3
  <2> QED BY <2>1, <2>2, <2>4 DEF HolderInv
<1>9. ApprovalInv'
  BY <1>1, <1>2, <1>3, <1>4, ApprovalKeeps DEF Safe
<1>10. CallInv'
  <2>1. \A i \in ToolIds : /\ IsFiniteSet(AboutToCall(i))'
                           /\ Due(i)' \in Nat /\ Due(i) \in Nat
                           /\ Due(i)' <= Due(i)
    <3>1. \A i \in ToolIds : AboutToCall(i)' \subseteq AboutToCall(i)
      BY <1>4, <1>5 DEF AboutToCall, At, ReplaySafe
    <3> QED BY <1>1, <1>3, <3>1, DueFalls, DueType DEF Safe
  <2>2. ASSUME NEW i \in ToolIds
        PROVE  /\ Due(i)' <= 1 + retries'[i]
               /\ Restartable(i)' => Due(i)' <= retries'[i]
    <3>1. Due(i) <= 1 + retries[i] /\ (Restartable(i) => Due(i) <= retries[i])
      BY <1>1 DEF Safe, CallInv
    <3>2. Restartable(i)' => Restartable(i)
      BY <1>2 DEF Restartable, ReplaySafe
    <3>3. retries[i] \in Nat
      BY <1>1, Ids DEF RestType
    <3> QED BY <1>3, <2>1, <3>1, <3>2, <3>3
  <2>3. \A v \in Workers : ~(Owns(v)' /\ At(v, "failStep")')
    BY <1>2, <1>4, <1>5 DEF Owns, ActiveLease, At
  <2> QED BY <2>1, <2>2, <2>3 DEF CallInv
<1> QED
  BY <1>7, <1>8, <1>9, <1>10 DEF Safe

\* The lease runs out; the rows stay.
LEMMA ExpiryKeeps ==
  ASSUME IInv, LeaseRunsOut \/ HolderStalls
  PROVE  Safe'
<1>1. TypeOK /\ Safe /\ task \in TaskRow /\ RestType
  BY TypeGroups DEF IInv, TypeOK
<1>2. /\ UNCHANGED steps /\ UNCHANGED run
      /\ calls' = calls /\ retries' = retries /\ approvedUnder' = approvedUnder
      /\ task' = [task EXCEPT !.lease = "expired"]
  BY DEF LeaseRunsOut, HolderStalls, runVars, observers
<1>3. task'.status = task.status /\ task'.current = task.current /\ task'.lease # "live"
  BY <1>1, <1>2 DEF TaskRow
<1>4. RowInv'
  BY <1>1, <1>2, <1>3, SamePlaceKeepsRows DEF Safe
<1>5. \A i \in ToolIds : Restartable(i)' => Due(i) <= retries'[i]
  BY <1>1, <1>2 DEF Restartable, ReplaySafe, Safe, CallInv
<1>6. \A i \in ToolIds : retries'[i] \in Nat /\ retries[i] <= retries'[i]
  BY <1>1, <1>2, Ids DEF RestType
<1>7. \A i \in ToolIds :
        steps'[i].decision = "approved" => steps'[i].policy \in approvedUnder'[i]
  BY <1>1, <1>2 DEF Safe, ApprovalInv
<1> QED
  BY <1>1, <1>2, <1>3, <1>4, <1>5, <1>6, <1>7, NobodyHolds, OutsideKeeps

\* What recoverLockedTask and CancelOwnedTask share: a running step stops, and
\* only a tool that must not be called again is left with an unknown outcome.
LEMMA StoppedRow ==
  ASSUME TypeOK, NEW i \in StepIds, NEW s \in StepStatuses, NEW row,
         row = [steps[i] EXCEPT !.status = s]
  PROVE  /\ row.status = s /\ row.policy = steps[i].policy
         /\ row.decision = steps[i].decision
<1>1. steps[i] \in StepRow
  BY DEF TypeOK
<1> QED
  BY <1>1 DEF StepRow

\* recoverLockedTask, row by row.
LEMMA RecoveredRows ==
  ASSUME TypeOK, Safe, task.status \in LeasedStatuses, RecoverLockedTask
  PROVE  /\ task'.owner = NoWorker
         /\ task'.status = IF UnsafeRunning = {} THEN "pending" ELSE "requires_review"
         /\ UnsafeRunning # {} => task'.current \in UnsafeRunning
         /\ \A i \in StepIds :
              /\ i \notin RunningSteps => steps'[i] = steps[i]
              /\ i \in RunningSteps =>
                   /\ steps'[i].policy = steps[i].policy
                   /\ steps'[i].decision = steps[i].decision
                   /\ steps'[i].status = IF i \in UnsafeRunning
                                         THEN "execution_unknown" ELSE "pending"
<1> DEFINE status == IF UnsafeRunning = {} THEN "pending" ELSE "requires_review"
           current == IF UnsafeRunning # {} THEN Highest(UnsafeRunning)
                      ELSE IF task.current = NoStep /\ RunningSteps # {}
                           THEN Lowest(RunningSteps) ELSE task.current
<1>1. task \in TaskRow
  BY DEF TypeOK
<1>2. task' = Released([task EXCEPT !.status = status, !.current = current,
                                    !.version = @ + 1, !.cursor = "none"])
  BY DEF RecoverLockedTask
<1>3. task'.owner = NoWorker /\ task'.status = status /\ task'.current = current
  <2> HIDE DEF status, current
  <2> QED BY <1>1, <1>2 DEF Released, TaskRow
<1>4. UnsafeRunning # {} => task'.current \in UnsafeRunning
  <2>1. UnsafeRunning \subseteq StepIds
    BY DEF UnsafeRunning, RunningSteps
  <2> QED BY <1>3, <2>1, HighestIn
<1>5. ASSUME NEW i \in StepIds, i \in RunningSteps
      PROVE  /\ steps'[i].policy = steps[i].policy
             /\ steps'[i].decision = steps[i].decision
             /\ steps'[i].status = IF i \in UnsafeRunning
                                   THEN "execution_unknown" ELSE "pending"
  <2>1. steps'[i] = IF i \in UnsafeRunning
                    THEN [steps[i] EXCEPT !.status = "execution_unknown"]
                    ELSE [steps[i] EXCEPT !.status = "pending"]
    BY <1>5 DEF RecoverLockedTask, UnsafeRunning
  <2>2. PICK row : row = steps'[i]
    OBVIOUS
  <2> QED BY <2>1, <2>2, StoppedRow DEF StepStatuses
<1>6. \A i \in StepIds : i \notin RunningSteps => steps'[i] = steps[i]
  BY DEF RecoverLockedTask
<1> QED
  BY <1>3, <1>4, <1>5, <1>6

\* Recovery requeues what may run again and asks about the rest.
LEMMA RecoverKeeps ==
  ASSUME IInv, task.status \in LeasedStatuses, RecoverLockedTask,
         UNCHANGED run, UNCHANGED observers
  PROVE  Safe'
<1>1. TypeOK /\ Safe /\ RowInv /\ RestType
  BY TypeGroups DEF IInv, Safe
<1>2. calls' = calls /\ retries' = retries /\ approvedUnder' = approvedUnder
  BY DEF observers
<1>3. /\ task'.owner = NoWorker
      /\ task'.status = IF UnsafeRunning = {} THEN "pending" ELSE "requires_review"
      /\ UnsafeRunning # {} => task'.current \in UnsafeRunning
  BY <1>1, RecoveredRows
<1>4. \A i \in StepIds :
        /\ i \notin RunningSteps => steps'[i] = steps[i]
        /\ i \in RunningSteps =>
             /\ steps'[i].policy = steps[i].policy
             /\ steps'[i].decision = steps[i].decision
             /\ steps'[i].status = IF i \in UnsafeRunning
                                   THEN "execution_unknown" ELSE "pending"
  BY <1>1, RecoveredRows
<1>5. /\ RunningSteps \subseteq {task.current}
      /\ UnsafeRunning \subseteq RunningSteps /\ UnsafeRunning \subseteq ToolIds
      /\ \A i \in ToolIds : i \in RunningSteps /\ i \notin UnsafeRunning =>
           ReplaySafe(steps[i].policy)
  BY <1>1, Ids DEF RowInv, RunningIsCurrent, UnsafeRunning, RunningSteps,
                   StepCanReplayAfterCrash
<1>6. /\ \A i \in StepIds : steps[i].status \notin {"execution_unknown", "rejected", "skipped"}
      /\ Present(PlanId)
  BY <1>1, HeldRows
<1>7. \A i \in StepIds : i \notin RunningSteps <=> steps[i].status # "running"
  BY DEF RunningSteps
<1>8. RunningIsCurrent'
  <2>1. RunningSteps' = {}
    BY <1>4, <1>7 DEF RunningSteps
  <2> QED BY <2>1 DEF RunningIsCurrent, NothingRuns
<1>9. UnknownNeedsHuman'
  <2>1. \A i \in StepIds : steps'[i].status = "execution_unknown" <=> i \in UnsafeRunning
    BY <1>4, <1>5, <1>6
  <2>2. \A i \in UnsafeRunning : task'.status = "requires_review" /\ task'.current = i
    BY <1>3, <1>5
  <2>3. task'.status = "requires_review" =>
          task'.current \in ToolIds /\ steps'[task'.current].status = "execution_unknown"
    BY <1>3, <1>5, <2>1, Ids
  <2> QED BY <2>1, <2>2, <2>3 DEF UnknownNeedsHuman
<1>10. RowsFitTask'
  <2>1. \A j \in StepIds : ~Present(j)' => ~Present(j) /\ steps'[j] = steps[j]
    BY <1>4 DEF Present
  <2>2. \A j \in StepIds : Present(j) => Present(j)'
    BY <2>1
  <2>3. \A j \in StepIds : steps'[j].status \notin {"rejected", "skipped"}
    BY <1>4, <1>6
  <2>4. steps'[PlanId].status = "succeeded" => Present(FinalId)'
    BY <1>1, <1>4, <2>2, Ids DEF RowInv, RowsFitTask
  <2>5. \A j \in StepIds : ~Present(j)' => steps'[j] = NoRow
    BY <1>1, <2>1 DEF RowInv, RowsFitTask
  <2>6. Present(PlanId)'
    BY <1>6, <2>2, Ids
  <2>7. UNCHANGED NoRow
    BY DEF NoRow, NewStep, PlainPolicy
  <2> QED BY <1>3, <2>3, <2>4, <2>5, <2>6, <2>7 DEF RowsFitTask
<1>11. RanApproved'
  <2>1. \A i \in ToolIds : steps'[i].status \in {"running", "succeeded"} =>
                             steps'[i] = steps[i]
    BY <1>4, Ids
  <2> QED BY <1>1, <2>1 DEF RowInv, RanApproved
<1>12. FailureOnRecord' /\ SucceededIsComplete'
  BY <1>3 DEF FailureOnRecord, SucceededIsComplete
<1>13. RowInv'
  BY <1>8, <1>9, <1>10, <1>11, <1>12 DEF RowInv
<1>14. \A i \in ToolIds : Restartable(i)' => Due(i) <= retries'[i]
  <2>1. \A i \in ToolIds : Restartable(i)' => Restartable(i)
    BY <1>4, <1>5, Ids DEF Restartable, ReplaySafe, Startable
  <2> QED BY <1>1, <1>2, <2>1 DEF Safe, CallInv
<1>15. \A i \in ToolIds : retries'[i] \in Nat /\ retries[i] <= retries'[i]
  BY <1>1, <1>2, Ids DEF RestType
<1>16. \A i \in ToolIds :
         steps'[i].decision = "approved" => steps'[i].policy \in approvedUnder'[i]
  <2>1. \A i \in ToolIds : steps'[i].decision = steps[i].decision
                             /\ steps'[i].policy = steps[i].policy
    BY <1>4, Ids
  <2> QED BY <1>1, <1>2, <2>1 DEF Safe, ApprovalInv
<1> QED
  BY <1>1, <1>2, <1>3, <1>13, <1>14, <1>15, <1>16, NobodyHolds, OutsideKeeps

\* RecoverStaleTasks, by a clock that is right or one that runs ahead.
LEMMA RecoverActionsKeep ==
  ASSUME IInv, NEW w \in Workers, RecoverStaleTasks(w) \/ RecoverWithSkewedClock(w)
  PROVE  Safe'
BY RecoverKeeps DEF RecoverStaleTasks, RecoverWithSkewedClock, StaleTask

\* CancelOwnedTask, row by row.
LEMMA CancelledRows ==
  ASSUME TypeOK, CancelOwnedTask
  PROVE  /\ task'.owner = NoWorker /\ task'.status = "cancelled"
         /\ task'.current = task.current
         /\ \A i \in StepIds :
              \/ steps'[i] = steps[i] /\ steps[i].status \notin ActiveStepStatuses
              \/ /\ steps[i].status \in ActiveStepStatuses
                 /\ steps'[i].policy = steps[i].policy
                 /\ steps'[i].decision = steps[i].decision
                 /\ steps'[i].status \in {"execution_unknown", "skipped"}
<1>1. task \in TaskRow
  BY DEF TypeOK
<1>2. /\ task'.owner = NoWorker /\ task'.status = "cancelled"
      /\ task'.current = task.current
  BY <1>1 DEF CancelOwnedTask, Released, TaskRow
<1>3. ASSUME NEW i \in StepIds, steps[i].status \in ActiveStepStatuses
      PROVE  /\ steps'[i].policy = steps[i].policy
             /\ steps'[i].decision = steps[i].decision
             /\ steps'[i].status \in {"execution_unknown", "skipped"}
  <2>1. PICK s \in {"execution_unknown", "skipped"} :
          steps'[i] = [steps[i] EXCEPT !.status = s]
    BY <1>3 DEF CancelOwnedTask, CancelledStep
  <2>2. PICK row : row = steps'[i]
    OBVIOUS
  <2> QED BY <2>1, <2>2, StoppedRow DEF StepStatuses
<1>4. \A i \in StepIds : steps[i].status \notin ActiveStepStatuses => steps'[i] = steps[i]
  BY DEF CancelOwnedTask, CancelledStep
<1> QED
  BY <1>2, <1>3, <1>4

\* A cancelled task has nothing running, and nothing to start.
LEMMA CancelKeeps ==
  ASSUME IInv, CancelTask
  PROVE  Safe'
<1>1. TypeOK /\ Safe /\ RowInv /\ RestType /\ task.status # "absent"
  BY TypeGroups DEF IInv, Safe, CancelTask, CancelOwnedTask
<1>2. UNCHANGED run /\ calls' = calls /\ retries' = retries /\ approvedUnder' = approvedUnder
  BY DEF CancelTask, observers
<1>3. /\ task'.owner = NoWorker /\ task'.status = "cancelled"
      /\ \A i \in StepIds :
           \/ steps'[i] = steps[i] /\ steps[i].status \notin ActiveStepStatuses
           \/ /\ steps[i].status \in ActiveStepStatuses
              /\ steps'[i].policy = steps[i].policy
              /\ steps'[i].decision = steps[i].decision
              /\ steps'[i].status \in {"execution_unknown", "skipped"}
  BY <1>1, CancelledRows DEF CancelTask
<1>4. RunningIsCurrent'
  <2>1. RunningSteps' = {}
    BY <1>3 DEF RunningSteps, ActiveStepStatuses
  <2> QED BY <2>1 DEF RunningIsCurrent, NothingRuns
<1>5. UnknownNeedsHuman' /\ FailureOnRecord' /\ SucceededIsComplete'
  BY <1>3 DEF UnknownNeedsHuman, FailureOnRecord, SucceededIsComplete
<1>6. RowsFitTask'
  <2>1. \A j \in StepIds : ~Present(j)' => ~Present(j) /\ steps'[j] = steps[j]
    BY <1>3 DEF Present
  <2>2. \A j \in StepIds : Present(j) => Present(j)'
    BY <2>1
  <2>4. steps'[PlanId].status = "succeeded" => Present(FinalId)'
    BY <1>1, <1>3, <2>2, Ids DEF RowInv, RowsFitTask
  <2>5. \A j \in StepIds : ~Present(j)' => steps'[j] = NoRow
    BY <1>1, <2>1 DEF RowInv, RowsFitTask
  <2>6. Present(PlanId)'
    BY <1>1, <2>2, Ids DEF RowInv, RowsFitTask
  <2>7. UNCHANGED NoRow
    BY DEF NoRow, NewStep, PlainPolicy
  <2> QED BY <1>3, <2>4, <2>5, <2>6, <2>7 DEF RowsFitTask
<1>7. RanApproved'
  <2>1. \A i \in ToolIds : steps'[i].status \in {"running", "succeeded"} =>
                             steps'[i] = steps[i]
    BY <1>3, Ids
  <2> QED BY <1>1, <2>1 DEF RowInv, RanApproved
<1>8. RowInv'
  BY <1>4, <1>5, <1>6, <1>7 DEF RowInv
<1>9. \A i \in ToolIds : Restartable(i)' => Due(i) <= retries'[i]
  <2>1. \A i \in ToolIds : Restartable(i)' => Restartable(i)
    BY <1>3, Ids DEF Restartable, ReplaySafe, Startable
  <2> QED BY <1>1, <1>2, <2>1 DEF Safe, CallInv
<1>10. \A i \in ToolIds : retries'[i] \in Nat /\ retries[i] <= retries'[i]
  BY <1>1, <1>2, Ids DEF RestType
<1>11. \A i \in ToolIds :
         steps'[i].decision = "approved" => steps'[i].policy \in approvedUnder'[i]
  <2>1. \A i \in ToolIds : steps'[i].decision = steps[i].decision
                             /\ steps'[i].policy = steps[i].policy
    BY <1>3, Ids
  <2> QED BY <1>1, <1>2, <2>1 DEF Safe, ApprovalInv
<1> QED
  BY <1>1, <1>2, <1>3, <1>8, <1>9, <1>10, <1>11, NobodyHolds, OutsideKeeps

\* CreateTask inserts the planning step of a task that has no rows yet.
LEMMA CreateKeeps ==
  ASSUME IInv, CreateTask
  PROVE  Safe'
<1>1. TypeOK /\ Safe /\ RowInv /\ RestType /\ LeaseDiscipline /\ task \in TaskRow
  BY TypeGroups DEF IInv, Safe, TypeOK
<1>2. UNCHANGED run /\ calls' = calls /\ retries' = retries /\ approvedUnder' = approvedUnder
  BY DEF CreateTask, runVars, observers
<1>3. /\ task.status = "absent"
      /\ task'.status = "pending" /\ task'.owner = task.owner
  BY <1>1 DEF CreateTask, CreateTaskWithInitialStep, TaskRow
<1>4. task'.owner = NoWorker
  BY <1>1, <1>3 DEF LeaseDiscipline, LeasedStatuses
<1>5. PICK row : row = NewStep("pending", PlainPolicy)
  OBVIOUS
<1>6. row.status = "pending"
  BY <1>5 DEF NewStep
<1>7. steps'[PlanId] = row /\ \A j \in StepIds : j # PlanId => steps'[j] = steps[j]
  BY <1>1, <1>5, Ids DEF CreateTask, CreateTaskWithInitialStep, TypeOK
<1>8. \A j \in StepIds : steps[j].status = "absent" /\ steps[j] = NoRow
  BY <1>1, <1>3 DEF RowInv, RowsFitTask, Present
<1>9. RunningIsCurrent'
  <2>1. RunningSteps' = {}
    BY <1>6, <1>7, <1>8 DEF RunningSteps
  <2> QED BY <2>1 DEF RunningIsCurrent, NothingRuns
<1>10. UnknownNeedsHuman' /\ FailureOnRecord' /\ SucceededIsComplete'
  BY <1>3, <1>6, <1>7, <1>8 DEF UnknownNeedsHuman, FailureOnRecord, SucceededIsComplete
<1>11. RowsFitTask'
  <2>1. UNCHANGED NoRow
    BY DEF NoRow, NewStep, PlainPolicy
  <2> QED BY <1>3, <1>6, <1>7, <1>8, <2>1, Ids DEF RowsFitTask, Present
<1>12. RanApproved'
  BY <1>7, <1>8, Ids DEF RanApproved
<1>13. RowInv'
  BY <1>9, <1>10, <1>11, <1>12 DEF RowInv
<1>14. \A i \in ToolIds : steps'[i] = steps[i]
  BY <1>7, Ids
<1>15. \A i \in ToolIds : Restartable(i)' => Due(i) <= retries'[i]
  <2>1. \A i \in ToolIds : Restartable(i)' => Restartable(i)
    BY <1>14 DEF Restartable, ReplaySafe
  <2> QED BY <1>1, <1>2, <2>1 DEF Safe, CallInv
<1>16. \A i \in ToolIds : retries'[i] \in Nat /\ retries[i] <= retries'[i]
  BY <1>1, <1>2, Ids DEF RestType
<1>17. \A i \in ToolIds :
         steps'[i].decision = "approved" => steps'[i].policy \in approvedUnder'[i]
  BY <1>1, <1>2, <1>14 DEF Safe, ApprovalInv
<1> QED
  BY <1>1, <1>2, <1>4, <1>13, <1>15, <1>16, <1>17, NobodyHolds, OutsideKeeps

\* UpdateOwnedStepDecision, field by field.
LEMMA DecidedRows ==
  ASSUME TypeOK, NEW i \in ToolIds, NEW decision \in {"approved", "rejected"},
         UpdateOwnedStepDecision(i, decision)
  PROVE  /\ task'.owner = NoWorker
         /\ task'.status = IF decision = "rejected" THEN "rejected" ELSE "pending"
         /\ steps'[i].status = decision /\ steps'[i].decision = decision
         /\ steps'[i].policy = steps[i].policy
         /\ \A j \in StepIds : j # i => steps'[j] = steps[j]
<1>1. task \in TaskRow /\ i \in StepIds /\ steps[i] \in StepRow
  BY Ids DEF TypeOK
<1>2. PICK moved : moved = Released([task EXCEPT !.current = i, !.cursor = "none"])
  OBVIOUS
<1>3. moved \in TaskRow /\ moved.owner = NoWorker
  <2>1. [task EXCEPT !.current = i, !.cursor = "none"] \in TaskRow
    BY <1>1, Ids DEF TaskRow, Cursors
  <2> QED BY <1>2, <2>1, ReleasedRow
<1>4. task' = IF decision = "rejected"
              THEN [moved EXCEPT !.status = "rejected", !.version = @ + 1]
              ELSE [moved EXCEPT !.status = "pending"]
  BY <1>2 DEF UpdateOwnedStepDecision
<1>5. /\ task'.owner = NoWorker
      /\ task'.status = IF decision = "rejected" THEN "rejected" ELSE "pending"
  BY <1>3, <1>4 DEF TaskRow
<1>6. PICK row : row = [steps[i] EXCEPT !.status = decision, !.decision = decision]
  OBVIOUS
<1>7. row.status = decision /\ row.decision = decision /\ row.policy = steps[i].policy
  BY <1>1, <1>6 DEF StepRow
<1>8. steps' = [steps EXCEPT ![i] = row]
  BY <1>1, <1>6 DEF UpdateOwnedStepDecision, TypeOK
<1>9. steps'[i] = row /\ \A j \in StepIds : j # i => steps'[j] = steps[j]
  BY <1>1, <1>8 DEF TypeOK
<1> QED
  BY <1>5, <1>7, <1>9

\* The owner's decision moves a waiting step, on which nothing ran.
LEMMA DecisionKeeps ==
  ASSUME IInv, NEW i \in ToolIds, ApproveTask(i) \/ RejectTask(i)
  PROVE  Safe'
<1>1. TypeOK /\ Safe /\ RowInv /\ RestType /\ i \in StepIds
  BY TypeGroups, Ids DEF IInv, Safe
<1>2. PICK decision \in {"approved", "rejected"} :
        /\ UpdateOwnedStepDecision(i, decision)
        /\ approvedUnder' = IF decision = "approved"
                            THEN [approvedUnder EXCEPT ![i] = @ \cup {steps[i].policy}]
                            ELSE approvedUnder
  BY DEF ApproveTask, RejectTask, observers
<1>3. UNCHANGED run /\ calls' = calls /\ retries' = retries
  BY DEF ApproveTask, RejectTask, runVars, observers
<1>4. task.status = "waiting_approval" /\ steps[i].status = "waiting_approval"
  BY <1>2 DEF UpdateOwnedStepDecision
<1>5. /\ task'.owner = NoWorker
      /\ task'.status = IF decision = "rejected" THEN "rejected" ELSE "pending"
      /\ steps'[i].status = decision /\ steps'[i].decision = decision
      /\ steps'[i].policy = steps[i].policy
      /\ \A j \in StepIds : j # i => steps'[j] = steps[j]
  BY <1>1, <1>2, DecidedRows
<1>6. approvedUnder'[i] = (IF decision = "approved"
                           THEN approvedUnder[i] \cup {steps[i].policy}
                           ELSE approvedUnder[i])
      /\ \A j \in ToolIds : j # i => approvedUnder'[j] = approvedUnder[j]
  BY <1>1, <1>2, Ids DEF RestType
<1>7. NothingRuns
  BY <1>1, <1>4 DEF RowInv, RunningIsCurrent, LeasedStatuses
<1>8. RunningIsCurrent'
  <2>1. RunningSteps' = {}
    BY <1>5, <1>7 DEF RunningSteps, NothingRuns
  <2> QED BY <2>1 DEF RunningIsCurrent, NothingRuns
<1>9. UnknownNeedsHuman' /\ FailureOnRecord' /\ SucceededIsComplete'
  BY <1>1, <1>4, <1>5 DEF RowInv, UnknownNeedsHuman, FailureOnRecord, SucceededIsComplete
<1>10. RowsFitTask'
  <2>1. \A j \in StepIds : ~Present(j)' => ~Present(j) /\ steps'[j] = steps[j]
    BY <1>5 DEF Present
  <2>2. \A j \in StepIds : Present(j) => Present(j)'
    BY <2>1
  <2>3. task'.status # "rejected" =>
          \A j \in StepIds : steps'[j].status \notin {"rejected", "skipped"}
    BY <1>1, <1>4, <1>5 DEF RowInv, RowsFitTask
  <2>4. steps'[PlanId].status = "succeeded" => Present(FinalId)'
    BY <1>1, <1>5, <2>2, Ids DEF RowInv, RowsFitTask
  <2>5. \A j \in StepIds : ~Present(j)' => steps'[j] = NoRow
    BY <1>1, <2>1 DEF RowInv, RowsFitTask
  <2>6. Present(PlanId)'
    BY <1>1, <1>4, <2>2, Ids DEF RowInv, RowsFitTask
  <2>7. UNCHANGED NoRow
    BY DEF NoRow, NewStep, PlainPolicy
  <2> QED BY <1>5, <2>3, <2>4, <2>5, <2>6, <2>7 DEF RowsFitTask
<1>11. RanApproved'
  <2>1. \A j \in ToolIds : steps'[j].status \in {"running", "succeeded"} =>
                             steps'[j] = steps[j]
    BY <1>5, Ids
  <2> QED BY <1>1, <2>1 DEF RowInv, RanApproved
<1>12. RowInv'
  BY <1>8, <1>9, <1>10, <1>11 DEF RowInv
<1>13. \A j \in ToolIds : Restartable(j)' => Due(j) <= retries'[j]
  <2>1. \A j \in ToolIds : Restartable(j)' => Restartable(j)
    BY <1>4, <1>5, Ids DEF Restartable, ReplaySafe, Startable
  <2> QED BY <1>1, <1>3, <2>1 DEF Safe, CallInv
<1>14. \A j \in ToolIds : retries'[j] \in Nat /\ retries[j] <= retries'[j]
  BY <1>1, <1>3, Ids DEF RestType
<1>15. \A j \in ToolIds : approvedUnder[j] \subseteq approvedUnder'[j]
  BY <1>6
<1>16. ASSUME NEW j \in ToolIds, steps'[j].decision = "approved"
       PROVE  steps'[j].policy \in approvedUnder'[j]
  <2>1. CASE j = i
    BY <1>5, <1>6, <1>16, <2>1
  <2>2. CASE j # i
    BY <1>1, <1>5, <1>6, <1>16, <2>2, Ids DEF Safe, ApprovalInv
  <2> QED BY <2>1, <2>2
<1> QED
  BY <1>1, <1>3, <1>5, <1>12, <1>13, <1>14, <1>15, <1>16, NobodyHolds, OutsideKeeps

\* ResumeOwnedTask, field by field.
LEMMA ResumedRows ==
  ASSUME TypeOK, RowInv, NEW i \in StepIds, NEW retryUnknown \in BOOLEAN,
         ResumeOwnedTask(i, retryUnknown)
  PROVE  /\ task'.owner = NoWorker /\ task'.status = "pending" /\ task'.current = i
         /\ steps[i].status \in {"failed", "execution_unknown"}
         /\ steps'[i].status = "pending" /\ steps'[i].decision = steps[i].decision
         /\ steps'[i].policy = steps[i].policy
         /\ \A j \in StepIds : j # i => steps'[j] = steps[j]
         /\ NothingRuns
         /\ \A j \in StepIds : steps[j].status = "execution_unknown" => j = i
<1>1. task \in TaskRow /\ steps[i] \in StepRow
  BY DEF TypeOK
<1>2. /\ task'.owner = NoWorker /\ task'.status = "pending" /\ task'.current = i
  BY <1>1, Ids DEF ResumeOwnedTask, Released, TaskRow
<1>3. steps[i].status \in {"failed", "execution_unknown"}
  BY DEF ResumeOwnedTask, ResumeCandidate, ResumableStatuses
<1>4. PICK row : row = [steps[i] EXCEPT !.status = "pending"]
  OBVIOUS
<1>5. /\ row.status = "pending" /\ row.decision = steps[i].decision
      /\ row.policy = steps[i].policy
  BY <1>4, StoppedRow DEF StepStatuses
<1>6. steps' = [steps EXCEPT ![i] = row]
  BY <1>4 DEF ResumeOwnedTask
<1>7. steps'[i] = row /\ \A j \in StepIds : j # i => steps'[j] = steps[j]
  BY <1>6 DEF TypeOK
<1>8. task.status \in {"failed", "requires_review"}
  BY DEF ResumeOwnedTask, TaskCanResume
<1>9. task.current # NoStep => i = task.current
  BY DEF ResumeOwnedTask, ResumeCandidate
<1>10. NothingRuns
  <2>1. RunningSteps \subseteq {task.current} /\ RunningSteps \subseteq StepIds
    BY DEF RowInv, RunningIsCurrent, RunningSteps
  <2>2. i \notin RunningSteps /\ NoStep \notin StepIds
    BY <1>3, Ids DEF RunningSteps
  <2>3. task.current \notin RunningSteps
    BY <1>9, <2>1, <2>2
  <2> QED BY <2>1, <2>3 DEF NothingRuns
<1>11. ASSUME NEW j \in StepIds, steps[j].status = "execution_unknown"
       PROVE  j = i
  <2>1. task.current = j
    BY <1>8, <1>11 DEF RowInv, UnknownNeedsHuman
  <2> QED BY <1>9, <2>1, Ids
<1> QED
  BY <1>2, <1>3, <1>5, <1>7, <1>10, <1>11

\* A resume gives the step back, and counts the retry its owner asked for.
LEMMA ResumeKeeps ==
  ASSUME IInv, NEW i \in StepIds, NEW retryUnknown \in BOOLEAN, ResumeTask(i, retryUnknown)
  PROVE  Safe'
<1>1. TypeOK /\ Safe /\ RowInv /\ RestType /\ CallInv
  BY TypeGroups DEF IInv, Safe
<1>2. UNCHANGED run /\ calls' = calls /\ approvedUnder' = approvedUnder
  BY DEF ResumeTask
<1>3. /\ task'.owner = NoWorker /\ task'.status = "pending"
      /\ steps[i].status \in {"failed", "execution_unknown"}
      /\ steps'[i].status = "pending" /\ steps'[i].decision = steps[i].decision
      /\ steps'[i].policy = steps[i].policy
      /\ \A j \in StepIds : j # i => steps'[j] = steps[j]
      /\ NothingRuns
      /\ \A j \in StepIds : steps[j].status = "execution_unknown" => j = i
  BY <1>1, ResumedRows DEF ResumeTask
<1>4. task.status \in {"failed", "requires_review"}
  BY DEF ResumeTask, ResumeOwnedTask, TaskCanResume
<1>5. \A j \in StepIds :
        /\ retries[j] \in Nat
        /\ retries'[j] = IF j = i /\ steps[i].status = "execution_unknown"
                         THEN retries[j] + 1 ELSE retries[j]
  BY <1>1 DEF ResumeTask, RestType
<1>6. RunningIsCurrent'
  <2>1. RunningSteps' = {}
    BY <1>3 DEF RunningSteps, NothingRuns
  <2> QED BY <2>1 DEF RunningIsCurrent, NothingRuns
<1>7. UnknownNeedsHuman' /\ FailureOnRecord' /\ SucceededIsComplete'
  BY <1>3 DEF UnknownNeedsHuman, FailureOnRecord, SucceededIsComplete
<1>8. RowsFitTask'
  <2>1. \A j \in StepIds : ~Present(j)' => ~Present(j) /\ steps'[j] = steps[j]
    BY <1>3 DEF Present
  <2>2. \A j \in StepIds : Present(j) => Present(j)'
    BY <2>1
  <2>3. \A j \in StepIds : steps'[j].status \notin {"rejected", "skipped"}
    BY <1>1, <1>3, <1>4 DEF RowInv, RowsFitTask
  <2>4. steps'[PlanId].status = "succeeded" => Present(FinalId)'
    BY <1>1, <1>3, <2>2, Ids DEF RowInv, RowsFitTask
  <2>5. \A j \in StepIds : ~Present(j)' => steps'[j] = NoRow
    BY <1>1, <2>1 DEF RowInv, RowsFitTask
  <2>6. Present(PlanId)'
    BY <1>1, <1>4, <2>2, Ids DEF RowInv, RowsFitTask
  <2>7. UNCHANGED NoRow
    BY DEF NoRow, NewStep, PlainPolicy
  <2> QED BY <1>3, <2>3, <2>4, <2>5, <2>6, <2>7 DEF RowsFitTask
<1>9. RanApproved'
  <2>1. \A j \in ToolIds : steps'[j].status \in {"running", "succeeded"} =>
                             steps'[j] = steps[j]
    BY <1>3, Ids
  <2> QED BY <1>1, <2>1 DEF RowInv, RanApproved
<1>10. RowInv'
  BY <1>6, <1>7, <1>8, <1>9 DEF RowInv
<1>11. ASSUME NEW j \in ToolIds, Restartable(j)'
       PROVE  Due(j) <= retries'[j]
  <2>1. Due(j) \in Nat /\ retries[j] \in Nat /\ Due(j) <= 1 + retries[j]
          /\ (Restartable(j) => Due(j) <= retries[j])
    BY <1>1, DueType DEF CallInv
  <2>2. CASE j = i /\ steps[i].status = "execution_unknown"
    <3>1. retries'[j] = retries[j] + 1
      BY <1>5, <2>2, Ids
    <3> QED BY <2>1, <3>1
  <2>3. CASE ~(j = i /\ steps[i].status = "execution_unknown")
    <3>1. retries'[j] = retries[j]
      BY <1>5, <2>3, Ids
    <3>2. Restartable(j)
      BY <1>3, <1>11, <2>3, Ids DEF Restartable, ReplaySafe, Startable
    <3> QED BY <2>1, <3>1, <3>2
  <2> QED BY <2>2, <2>3
<1>12. ASSUME NEW j \in ToolIds PROVE retries'[j] \in Nat /\ retries[j] <= retries'[j]
  <2>1. retries[j] \in Nat /\ (retries'[j] = retries[j] + 1 \/ retries'[j] = retries[j])
    BY <1>5, Ids
  <2> QED BY <2>1
<1>13. \A j \in ToolIds :
         steps'[j].decision = "approved" => steps'[j].policy \in approvedUnder'[j]
  <2>1. \A j \in ToolIds : steps'[j].decision = steps[j].decision
                             /\ steps'[j].policy = steps[j].policy
    BY <1>3, Ids
  <2> QED BY <1>1, <1>2, <2>1 DEF Safe, ApprovalInv
<1> QED
  BY <1>1, <1>2, <1>3, <1>10, <1>11, <1>12, <1>13, NobodyHolds, OutsideKeeps

-----------------------------------------------------------------------------
(* The invariant, and what follows from it.                                *)

\* Polls and disturbances of a worker.
LEMMA PollKeeps ==
  ASSUME IInv, NEW w \in Workers, Poll(w) \/ Disturb(w)
  PROVE  Safe'
BY ClaimKeeps, RecoverActionsKeep, EndingsKeep DEF Poll, Disturb

\* The owner's calls.
LEMMA OwnerKeeps ==
  ASSUME IInv, OwnerStep
  PROVE  Safe'
<1>1. CASE CancelTaskRead \/ CancelTaskConflict
  BY <1>1, StutterKeeps DEF IInv, CancelTaskRead, CancelTaskConflict
<1> QED
  BY <1>1, CreateKeeps, DecisionKeeps, ResumeKeeps, CancelKeeps DEF OwnerStep

\* Every step keeps the invariant.
LEMMA NextKeeps ==
  ASSUME IInv, [Next]_vars
  PROVE  IInv'
<1>1. TypeOK /\ LeaseDiscipline /\ Safe
  BY DEF IInv
<1>2. CASE Next
  <2>1. TypeOK' /\ LeaseDiscipline'
    BY <1>1, <1>2, NextEffect, LeaseStep
  <2>2. Safe'
    BY <1>2, WorkerKeeps, PollKeeps, OwnerKeeps, ExpiryKeeps DEF Next
  <2> QED BY <2>1, <2>2 DEF IInv
<1>3. CASE UNCHANGED vars
  <2>1. UNCHANGED <<storeVars, run, observers>>
    BY <1>3 DEF vars, storeVars, observers
  <2>2. Safe'
    BY <1>1, <2>1, StutterKeeps
  <2>3. TypeOK'
    BY <1>1, <1>3 DEF vars, TypeOK
  <2>4. LeaseDiscipline'
    BY <1>1, <1>3 DEF vars, LeaseDiscipline
  <2> QED BY <2>2, <2>3, <2>4 DEF IInv
<1> QED
  BY <1>2, <1>3

\* A task that does not exist yet, and workers that have nothing to do.
LEMMA InitSafe ==
  ASSUME Init
  PROVE  Safe
<1>1. /\ task.status = "absent" /\ task.current = NoStep /\ task.owner = NoWorker
      /\ \A i \in StepIds : steps[i] = NoRow
  BY DEF Init, StoreInit
<1>2. NoRow.status = "absent" /\ NoRow.decision = "pending"
  BY DEF NoRow, NewStep
<1>3. \A w \in Workers : run[w].pc = "idle"
  BY DEF Init, IdleRun
<1>4. RowInv
  <2>1. RunningIsCurrent
    BY <1>1, <1>2 DEF RunningIsCurrent, RunningSteps, NothingRuns
  <2>2. UnknownNeedsHuman /\ FailureOnRecord /\ SucceededIsComplete
    BY <1>1, <1>2 DEF UnknownNeedsHuman, FailureOnRecord, SucceededIsComplete
  <2>3. RowsFitTask
    BY <1>1, <1>2, Ids DEF RowsFitTask, Present
  <2>4. RanApproved
    BY <1>1, <1>2, Ids DEF RanApproved
  <2> QED BY <2>1, <2>2, <2>3, <2>4 DEF RowInv
<1>5. HolderInv
  BY <1>1, WorkersAssumption DEF HolderInv, Owns, ActiveLease, FreshClaim
<1>6. ApprovalInv
  BY <1>1, <1>2, <1>3, Ids DEF ApprovalInv
<1>7. CallInv
  <2>1. ASSUME NEW i \in ToolIds
        PROVE  IsFiniteSet(AboutToCall(i)) /\ Due(i) = 0 /\ retries[i] = 0
    <3>1. AboutToCall(i) = {}
      BY <1>3 DEF AboutToCall, At
    <3>2. calls[i] = 0 /\ retries[i] = 0
      BY Ids DEF Init
    <3> QED BY <3>1, <3>2, FS_EmptySet DEF Due
  <2>2. \A w \in Workers : ~At(w, "failStep")
    BY <1>3 DEF At
  <2>3. \A i \in ToolIds : Due(i) <= 1 + retries[i] /\ Due(i) <= retries[i]
    BY <2>1
  <2> QED BY <2>1, <2>2, <2>3 DEF CallInv
<1> QED
  BY <1>4, <1>5, <1>6, <1>7 DEF Safe

\* The inductive invariant of the Agent holds, whatever the workers, the plan,
\* the policies and the failure budgets.
THEOREM AgentInvariant == Spec => []IInv
<1>1. Init => Safe
  BY InitSafe
<1>2. TypeOK /\ LeaseDiscipline /\ Safe => IInv
  BY DEF IInv
<1>3. IInv /\ [Next]_vars => IInv'
  BY NextKeeps
<1> QED
  BY <1>1, <1>2, <1>3, TypeCorrect, LeaseHeldWhileRunning, PTL DEF Spec

\* What the invariant says in the words of the properties.
LEMMA IInvImplies ==
  ASSUME IInv
  PROVE  /\ OneStepRuns /\ UnknownNeedsHuman /\ CallsAreApproved
         /\ NoUnaskedReplay /\ SucceededIsComplete
         /\ MaxDbFaults = 0 => FailedIsResumable
<1>1. TypeOK /\ RowInv /\ ApprovalInv /\ CallInv /\ RestType
  BY TypeGroups DEF IInv, Safe
<1>2. OneStepRuns
  <2>1. RunningSteps \subseteq {task.current}
    BY <1>1 DEF RowInv, RunningIsCurrent
  <2>2. IsFiniteSet({task.current}) /\ Cardinality({task.current}) = 1
    BY FS_Singleton
  <2>3. Cardinality(RunningSteps) <= Cardinality({task.current})
    BY <2>1, <2>2, FS_Subset
  <2> QED BY <2>2, <2>3 DEF OneStepRuns
<1>3. UnknownNeedsHuman /\ SucceededIsComplete
  BY <1>1 DEF RowInv
<1>4. CallsAreApproved
  BY <1>1 DEF ApprovalInv, CallsAreApproved, At
<1>5. NoUnaskedReplay
  <2>1. ASSUME NEW i \in ToolIds PROVE calls[i] <= 1 + retries[i]
    <3>1. IsFiniteSet(AboutToCall(i)) /\ Due(i) <= 1 + retries[i]
      BY <1>1 DEF CallInv
    <3>2. Cardinality(AboutToCall(i)) \in Nat /\ calls[i] \in Nat /\ retries[i] \in Nat
      BY <1>1, <3>1, FS_CardinalityType, Ids DEF RestType
    <3>3. Due(i) = calls[i] + Cardinality(AboutToCall(i))
      BY DEF Due
    <3> QED BY <3>1, <3>2, <3>3
  <2> QED BY <2>1 DEF NoUnaskedReplay
<1>6. MaxDbFaults = 0 => FailedIsResumable
  <2>1. ASSUME MaxDbFaults = 0, task.status = "failed"
        PROVE  \E i \in StepIds : ResumeCandidate(i, FALSE)
    <3>1. task.current \in StepIds /\ steps[task.current].status = "failed"
      BY <1>1, <2>1 DEF RowInv, FailureOnRecord
    <3>2. ResumeCandidate(task.current, FALSE)
      BY <3>1, Ids DEF ResumeCandidate, ResumableStatuses
    <3> QED BY <3>1, <3>2
  <2> QED BY <2>1 DEF FailedIsResumable
<1> QED
  BY <1>2, <1>3, <1>4, <1>5, <1>6

\* No side effect is repeated unasked: a tool that is not replay safe is called
\* once, plus once per retry its owner asked for, under any number of workers,
\* crashes, expired leases, skewed clocks and failed statements.
THEOREM CallsAreNotRepeated == Spec => []NoUnaskedReplay
<1>1. IInv => NoUnaskedReplay
  BY IInvImplies
<1> QED
  BY <1>1, AgentInvariant, PTL

\* A gated tool is called only under the policy a human approved it under.
THEOREM GatedCallsAreApproved == Spec => []CallsAreApproved
<1>1. IInv => CallsAreApproved
  BY IInvImplies
<1> QED
  BY <1>1, AgentInvariant, PTL

\* An outcome nobody knows always waits for a human, on the step it belongs to.
THEOREM UnknownOutcomesWait == Spec => []UnknownNeedsHuman
<1>1. IInv => UnknownNeedsHuman
  BY IInvImplies
<1> QED
  BY <1>1, AgentInvariant, PTL

\* At most one step of the task runs, across all workers and restarts.
THEOREM StepsRunAlone == Spec => []OneStepRuns
<1>1. IInv => OneStepRuns
  BY IInvImplies
<1> QED
  BY <1>1, AgentInvariant, PTL

\* A succeeded task has every planned step and the final step done.
THEOREM SuccessIsComplete == Spec => []SucceededIsComplete
<1>1. IInv => SucceededIsComplete
  BY IInvImplies
<1> QED
  BY <1>1, AgentInvariant, PTL

\* When no statement fails, a failed task can always be resumed from the failed
\* step it points at.
THEOREM FailuresStayResumable ==
  ASSUME MaxDbFaults = 0
  PROVE  Spec => []FailedIsResumable
<1>1. IInv => FailedIsResumable
  BY IInvImplies
<1> QED
  BY <1>1, AgentInvariant, PTL

-----------------------------------------------------------------------------
(* What one step may do to a step row.                                     *)

\* The record of a success may be overwritten: the reply that it was stored got
\* lost, and the tool may be called again anyway.
Overwritable(i) == MaxDbFaults # 0 /\ ReplaySafe(steps[i].policy)

\* The operation ID is given once, and a completed tool step is left alone.
RowMoves(i) ==
  /\ steps[i].operation # 0 => steps'[i].operation = steps[i].operation
  /\ i \in ToolIds /\ steps[i].status = "succeeded" /\ ~Overwritable(i) =>
       steps'[i] = steps[i]

\* One row is written.
LEMMA OneRowMoves ==
  ASSUME TypeOK, NEW k \in StepIds, NEW row, steps' = [steps EXCEPT ![k] = row],
         steps[k].operation # 0 => row.operation = steps[k].operation,
         k \in ToolIds => steps[k].status # "succeeded" \/ Overwritable(k)
  PROVE  \A i \in StepIds : RowMoves(i)
<1>1. steps'[k] = row /\ \A j \in StepIds : j # k => steps'[j] = steps[j]
  BY DEF TypeOK
<1> QED
  BY <1>1 DEF RowMoves

\* The status of one row is written.
LEMMA OneStatusMoves ==
  ASSUME TypeOK, NEW k \in StepIds, NEW s,
         steps' = [steps EXCEPT ![k] = [steps[k] EXCEPT !.status = s]],
         k \in ToolIds => steps[k].status # "succeeded" \/ Overwritable(k)
  PROVE  \A i \in StepIds : RowMoves(i)
<1>1. steps[k] \in StepRow
  BY DEF TypeOK
<1>2. PICK row : row = [steps[k] EXCEPT !.status = s]
  OBVIOUS
<1>3. row.operation = steps[k].operation
  BY <1>1, <1>2 DEF StepRow
<1> QED
  BY <1>2, <1>3, OneRowMoves

\* The holder's writes of a step row.
LEMMA HolderRowMoves ==
  ASSUME IInv, NEW w \in Workers, UNCHANGED steps \/ Owns(w),
         \/ PlanMarkStep(w) \/ GateMarkStep(w) \/ ToolMarkRunning(w)
         \/ ToolMarkSucceeded(w) \/ FailStep(w) \/ FinalMarkRunning(w)
         \/ FinalMarkSucceeded(w) \/ MarkRunFailedStep(w)
  PROVE  \A i \in StepIds : RowMoves(i)
<1>1. TypeOK
  BY DEF IInv
<1>2. CASE UNCHANGED steps
  BY <1>2 DEF RowMoves
<1>3. ASSUME steps' # steps PROVE Owns(w) /\ Fit(run[w])
  BY <1>3, HolderFits
<1>4. CASE steps' # steps /\ PlanMarkStep(w)
  <2>1. steps' = [steps EXCEPT ![PlanId] = [steps[PlanId] EXCEPT !.status = "running"]]
    BY <1>4 DEF PlanMarkStep, Transaction, storeVars, UpdateStepFenced
  <2> QED BY <1>1, <2>1, Ids, OneStatusMoves
<1>5. CASE steps' # steps /\ (FinalMarkRunning(w) \/ FinalMarkSucceeded(w))
  <2>1. PICK s : steps' = [steps EXCEPT ![FinalId] = [steps[FinalId] EXCEPT !.status = s]]
    BY <1>5 DEF FinalMarkRunning, FinalMarkSucceeded, Transaction, storeVars, UpdateStepFenced
  <2> QED BY <1>1, <2>1, Ids, OneStatusMoves
<1>6. CASE steps' # steps /\ GateMarkStep(w)
  <2>1. steps' = [steps EXCEPT ![run[w].step] = [steps[run[w].step] EXCEPT
                                                   !.status = "waiting_approval"]]
    BY <1>6 DEF GateMarkStep, Transaction, storeVars, UpdateStepFenced, MyRow
  <2>2. run[w].step \in ToolIds /\ steps[run[w].step].status \in Startable \cup {"failed"}
    BY <1>3, <1>6 DEF GateMarkStep, At, Fit, FitRoute
  <2> QED BY <1>1, <2>1, <2>2, Ids, OneStatusMoves DEF Startable
<1>7. CASE steps' # steps /\ ToolMarkSucceeded(w)
  <2>1. steps' = [steps EXCEPT ![run[w].step] = [steps[run[w].step] EXCEPT
                                                   !.status = "succeeded"]]
    BY <1>7 DEF ToolMarkSucceeded, Transaction, storeVars, UpdateStepFenced, MyRow
  <2>2. run[w].step \in ToolIds /\ steps[run[w].step].status = "running"
    BY <1>3, <1>7 DEF ToolMarkSucceeded, At, Fit, FitTool, OnTool
  <2> QED BY <1>1, <2>1, <2>2, Ids, OneStatusMoves
<1>8. CASE steps' # steps /\ FailStep(w)
  <2>1. steps' = [steps EXCEPT ![run[w].step] = [steps[run[w].step] EXCEPT
                                                   !.status = "failed"]]
    BY <1>8 DEF FailStep, Transaction, storeVars, UpdateStepFenced, MyRow
  <2>2. /\ run[w].step \in StepIds
        /\ steps[run[w].step].status = "running" \/ Overwritable(run[w].step)
    BY <1>3, <1>8, Ids DEF FailStep, At, Fit, FitFailure, OnTool, Overwritable
  <2> QED BY <1>1, <2>1, <2>2, OneStatusMoves
<1>9. CASE steps' # steps /\ MarkRunFailedStep(w)
  <2>1. steps' = [steps EXCEPT ![run[w].step] = [steps[run[w].step] EXCEPT
                                                   !.status = "failed"]]
    BY <1>9 DEF MarkRunFailedStep, Transaction, storeVars, UpdateStepFenced, MyRow
  <2>2. /\ run[w].step \in StepIds
        /\ run[w].step \in ToolIds => steps[run[w].step].status \in Startable \cup {"running"}
    BY <1>3, <1>9 DEF MarkRunFailedStep, At, Fit, FitFailure
  <2> QED BY <1>1, <2>1, <2>2, OneStatusMoves DEF Startable
<1>10. CASE steps' # steps /\ ToolMarkRunning(w)
  <2>1. steps' = [steps EXCEPT ![run[w].step] = [steps[run[w].step] EXCEPT
                     !.status = "running", !.operation = run[w].operation]]
    BY <1>10 DEF ToolMarkRunning, Transaction, storeVars, UpdateStepFenced, MyRow
  <2>2. /\ run[w].step \in ToolIds /\ steps[run[w].step].status \in Startable
        /\ steps[run[w].step].operation \in {0, run[w].operation}
    BY <1>3, <1>10 DEF ToolMarkRunning, At, Fit, FitTool, OnTool
  <2>3. run[w].step \in StepIds /\ steps[run[w].step] \in StepRow
    BY <1>1, <2>2, Ids DEF TypeOK
  <2>4. PICK row : row = [steps[run[w].step] EXCEPT
                     !.status = "running", !.operation = run[w].operation]
    OBVIOUS
  <2>5. row.operation = run[w].operation
    BY <2>3, <2>4 DEF StepRow
  <2> QED BY <1>1, <2>1, <2>2, <2>3, <2>4, <2>5, OneRowMoves DEF Startable
<1> QED
  BY <1>2, <1>4, <1>5, <1>6, <1>7, <1>8, <1>9, <1>10

\* A pause for review stops a running step.
LEMMA ReviewRowMoves ==
  ASSUME IInv, NEW w \in Workers, NEW i, MarkReviewOk(w, run[w].version, i), NEW p,
         MarkExecutionUnknownFenced(i) \/ MarkPolicyReviewFenced(i, p)
  PROVE  \A j \in StepIds : RowMoves(j)
<1>1. TypeOK /\ i \in StepIds /\ steps[i].status = "running"
  BY Ids DEF IInv, MarkReviewOk
<1>2. steps[i] \in StepRow
  BY <1>1 DEF TypeOK
<1>3. CASE MarkExecutionUnknownFenced(i)
  <2>1. steps' = [steps EXCEPT ![i] = [steps[i] EXCEPT !.status = "execution_unknown"]]
    BY <1>3 DEF MarkExecutionUnknownFenced
  <2> QED BY <1>1, <2>1, OneStatusMoves
<1>4. CASE MarkPolicyReviewFenced(i, p)
  <2>1. PICK row : row = [steps[i] EXCEPT !.status = "execution_unknown", !.policy = p,
                                          !.decision = "pending"]
    OBVIOUS
  <2>2. steps' = [steps EXCEPT ![i] = row]
    BY <1>1, <1>4, <2>1 DEF MarkPolicyReviewFenced, TypeOK
  <2>3. row.operation = steps[i].operation
    BY <1>2, <2>1 DEF StepRow
  <2> QED BY <1>1, <2>2, <2>3, OneRowMoves
<1> QED
  BY <1>3, <1>4

\* A plan is saved over rows that are not there.
LEMMA PlanRowMoves ==
  ASSUME IInv, NEW w \in Workers, At(w, "planSave"), NEW plan,
         SavePlanOk(w, run[w].version), SavePlan(plan)
  PROVE  \A i \in StepIds : RowMoves(i)
<1>1. TypeOK /\ Safe /\ Owns(w)
  BY DEF IInv, SavePlanOk, Owns
<1>2. Unplanned
  BY <1>1, HolderFits DEF Fit, FitPlan, At
<1>3. \A i \in StepIds : i # PlanId => steps[i] = NoRow
  BY <1>1, <1>2 DEF Unplanned, Safe, RowInv, RowsFitTask
<1>4. NoRow.operation = 0 /\ NoRow.status = "absent"
  BY DEF NoRow, NewStep
<1>5. steps'[PlanId].operation = steps[PlanId].operation
  <2>1. steps[PlanId] \in StepRow
    BY <1>1, Ids DEF TypeOK
  <2>2. steps'[PlanId] = [steps[PlanId] EXCEPT !.status = "succeeded"]
    BY Ids DEF SavePlan
  <2> QED BY <2>1, <2>2 DEF StepRow
<1> QED
  BY <1>3, <1>4, <1>5, Ids DEF RowMoves

\* Steps of a worker.
LEMMA WorkerRowMoves ==
  ASSUME IInv, NEW w \in Workers, WorkerStep(w)
  PROVE  \A i \in StepIds : RowMoves(i)
<1>1. UNCHANGED steps => \A i \in StepIds : RowMoves(i)
  BY DEF RowMoves
<1>2. ASSUME
        \/ PlanMarkStep(w) \/ GateMarkStep(w) \/ ToolMarkRunning(w)
        \/ ToolMarkSucceeded(w) \/ FailStep(w) \/ FinalMarkRunning(w)
        \/ FinalMarkSucceeded(w) \/ MarkRunFailedStep(w)
      PROVE  \A i \in StepIds : RowMoves(i)
  <2>1. UNCHANGED steps \/ Owns(w)
    BY <1>2 DEF PlanMarkStep, GateMarkStep, ToolMarkRunning, ToolMarkSucceeded, FailStep,
       FinalMarkRunning, FinalMarkSucceeded, MarkRunFailedStep, Transaction, storeVars
  <2> QED BY <1>2, <2>1, HolderRowMoves
<1>3. ASSUME RequirePolicyReview(w) \/ MarkUnknown(w) \/ MarkRunUnknown(w)
      PROVE  \A i \in StepIds : RowMoves(i)
  <2>1. \/ UNCHANGED steps
        \/ /\ MarkReviewOk(w, run[w].version, run[w].step)
           /\ \/ MarkExecutionUnknownFenced(run[w].step)
              \/ MarkPolicyReviewFenced(run[w].step, run[w].policy)
    BY <1>3 DEF RequirePolicyReview, MarkUnknown, MarkRunUnknown, Transaction, storeVars
  <2> QED BY <1>1, <2>1, ReviewRowMoves
<1>4. ASSUME PlanSave(w)
      PROVE  \A i \in StepIds : RowMoves(i)
  <2>1. \/ UNCHANGED steps
        \/ /\ At(w, "planSave")
           /\ \E plan \in Plans : SavePlanOk(w, run[w].version) /\ SavePlan(plan)
    BY <1>4 DEF PlanSave, Transaction, storeVars
  <2> QED BY <1>1, <2>1, PlanRowMoves
<1>5. ASSUME
        \/ ReadClaimed(w) \/ LoadCheckpoint(w) \/ ReloadCheckpoint(w)
        \/ PlanRead(w) \/ PlanFails(w) \/ Dispatch(w) \/ GateRead(w)
        \/ ToolRead(w) \/ ToolCheckFails(w) \/ ToolPolicyChanged(w)
        \/ CallTool(w) \/ ToolReturns(w) \/ FinalizeRead(w)
        \/ FinalGenerate(w) \/ MarkRunFailedRead(w)
      PROVE  UNCHANGED steps
  BY <1>5 DEF ReadClaimed, LoadCheckpoint, ReloadCheckpoint, PlanRead, PlanFails,
      Dispatch, GateRead, ToolRead, ToolCheckFails, ToolPolicyChanged, CallTool,
      ToolReturns, FinalizeRead, FinalGenerate, MarkRunFailedRead, Local, storeVars
<1>6. ASSUME
        \/ SaveCheckpoint(w) \/ SaveGateCheckpoint(w) \/ PlanMarkTask(w)
        \/ PersistRoute(w) \/ GateMarkTask(w) \/ ToolMarkTask(w) \/ FailTask(w)
        \/ FinalMarkTask(w) \/ MarkRunFailedTask(w)
      PROVE  UNCHANGED steps
  BY <1>6 DEF SaveCheckpoint, SaveGateCheckpoint, PlanMarkTask, PersistRoute, GateMarkTask,
      ToolMarkTask, FailTask, FinalMarkTask, MarkRunFailedTask, Transaction, storeVars,
      UpdateTaskFenced, SetCheckpoint
<1> QED
  BY <1>1, <1>2, <1>3, <1>4, <1>5, <1>6 DEF WorkerStep

\* Recovery, and the owner's calls.
LEMMA OutsideRowMoves ==
  ASSUME IInv,
         \/ task.status \in LeasedStatuses /\ RecoverLockedTask
         \/ CreateTaskWithInitialStep
         \/ \E i \in ToolIds, d \in {"approved", "rejected"} : UpdateOwnedStepDecision(i, d)
         \/ \E i \in StepIds, retryUnknown \in BOOLEAN : ResumeOwnedTask(i, retryUnknown)
         \/ CancelOwnedTask
  PROVE  \A i \in StepIds : RowMoves(i)
<1>1. TypeOK /\ Safe /\ RowInv
  BY DEF IInv, Safe
<1>2. \A i \in StepIds : steps[i] \in StepRow
  BY <1>1 DEF TypeOK
<1>3. CASE RecoverLockedTask
  <2>1. ASSUME NEW i \in StepIds PROVE RowMoves(i)
    <3>1. CASE i \notin RunningSteps
      BY <1>3, <3>1 DEF RecoverLockedTask, RowMoves
    <3>2. CASE i \in RunningSteps
      <4>1. PICK s : steps'[i] = [steps[i] EXCEPT !.status = s]
        BY <1>3, <3>2 DEF RecoverLockedTask
      <4>2. steps'[i].operation = steps[i].operation
        BY <1>2, <4>1 DEF StepRow
      <4> QED BY <3>2, <4>2 DEF RowMoves, RunningSteps
    <3> QED BY <3>1, <3>2
  <2> QED BY <2>1
<1>4. CASE CancelOwnedTask
  <2>1. ASSUME NEW i \in StepIds PROVE RowMoves(i)
    <3>1. CASE steps[i].status \notin ActiveStepStatuses
      BY <1>4, <3>1 DEF CancelOwnedTask, CancelledStep, RowMoves
    <3>2. CASE steps[i].status \in ActiveStepStatuses
      <4>1. PICK s : steps'[i] = [steps[i] EXCEPT !.status = s]
        BY <1>4, <3>2 DEF CancelOwnedTask, CancelledStep
      <4>2. steps'[i].operation = steps[i].operation
        BY <1>2, <4>1 DEF StepRow
      <4> QED BY <3>2, <4>2 DEF RowMoves, ActiveStepStatuses
    <3> QED BY <3>1, <3>2
  <2> QED BY <2>1
<1>5. CASE CreateTaskWithInitialStep
  <2>1. \A i \in StepIds : steps[i] = NoRow
    BY <1>1, <1>5 DEF CreateTaskWithInitialStep, RowInv, RowsFitTask
  <2>2. NoRow.operation = 0 /\ NoRow.status = "absent"
    BY DEF NoRow, NewStep
  <2> QED BY <2>1, <2>2 DEF RowMoves
<1>6. ASSUME NEW i \in ToolIds, NEW d \in {"approved", "rejected"},
             UpdateOwnedStepDecision(i, d)
      PROVE  \A j \in StepIds : RowMoves(j)
  <2>1. i \in StepIds /\ steps[i].status = "waiting_approval" /\ steps[i] \in StepRow
    BY <1>1, <1>6, Ids DEF UpdateOwnedStepDecision, TypeOK
  <2>2. PICK row : row = [steps[i] EXCEPT !.status = d, !.decision = d]
    OBVIOUS
  <2>3. row.operation = steps[i].operation
    BY <2>1, <2>2 DEF StepRow
  <2>4. steps' = [steps EXCEPT ![i] = row]
    BY <1>1, <1>6, <2>1, <2>2 DEF UpdateOwnedStepDecision, TypeOK
  <2> QED BY <1>1, <2>1, <2>3, <2>4, OneRowMoves
<1>7. ASSUME NEW i \in StepIds, NEW retryUnknown \in BOOLEAN,
             ResumeOwnedTask(i, retryUnknown)
      PROVE  \A j \in StepIds : RowMoves(j)
  <2>1. steps[i].status \in {"failed", "execution_unknown"}
    BY <1>7 DEF ResumeOwnedTask, ResumeCandidate, ResumableStatuses
  <2>2. steps' = [steps EXCEPT ![i] = [steps[i] EXCEPT !.status = "pending"]]
    BY <1>7 DEF ResumeOwnedTask
  <2> QED BY <1>1, <2>1, <2>2, OneStatusMoves
<1> QED
  BY <1>3, <1>4, <1>5, <1>6, <1>7

\* Every step.
LEMMA RowsMove ==
  ASSUME IInv, [Next]_vars
  PROVE  \A i \in StepIds : RowMoves(i)
<1>1. UNCHANGED steps => \A i \in StepIds : RowMoves(i)
  BY DEF RowMoves
<1>2. ASSUME NEW w \in Workers, Poll(w) \/ Disturb(w)
      PROVE  \A i \in StepIds : RowMoves(i)
  <2>1. UNCHANGED steps \/ (task.status \in LeasedStatuses /\ RecoverLockedTask)
    BY <1>2 DEF Poll, Disturb, Claim, ClaimTask, RecoverStaleTasks, StaleTask,
       LeaseHeartbeat, Crash, ReadFails, RecoverWithSkewedClock, Local, storeVars
  <2> QED BY <1>1, <2>1, OutsideRowMoves
<1>3. ASSUME OwnerStep
      PROVE  \A i \in StepIds : RowMoves(i)
  <2>1. CASE CancelTaskRead \/ CancelTaskConflict
    BY <1>1, <2>1 DEF CancelTaskRead, CancelTaskConflict, storeVars
  <2>2. CASE CreateTask \/ CancelTask
    BY <2>2, OutsideRowMoves DEF CreateTask, CancelTask
  <2>3. CASE \E i \in ToolIds : ApproveTask(i) \/ RejectTask(i)
    BY <2>3, OutsideRowMoves DEF ApproveTask, RejectTask
  <2>4. CASE \E i \in StepIds, retryUnknown \in BOOLEAN : ResumeTask(i, retryUnknown)
    BY <2>4, OutsideRowMoves DEF ResumeTask
  <2> QED BY <1>3, <2>1, <2>2, <2>3, <2>4 DEF OwnerStep
<1>4. LeaseRunsOut \/ HolderStalls => UNCHANGED steps
  BY DEF LeaseRunsOut, HolderStalls
<1>5. UNCHANGED vars => UNCHANGED steps
  BY DEF vars
<1> QED
  BY <1>1, <1>2, <1>3, <1>4, <1>5, WorkerRowMoves DEF Next

\* A step keeps the operation ID of its first call through every retry, so the
\* tool can recognise a repeated call.
THEOREM OperationIdsAreStable == Spec => OperationIdIsStable
<1>1. IInv /\ [Next]_vars =>
        [\A i \in StepIds : steps[i].operation # 0 =>
           steps'[i].operation = steps[i].operation]_vars
  BY RowsMove DEF RowMoves
<1> QED
  BY <1>1, AgentInvariant, PTL DEF Spec, OperationIdIsStable

\* When no statement fails, a completed tool step is never touched again.
THEOREM CompletedStepsStay ==
  ASSUME MaxDbFaults = 0
  PROVE  Spec => DoneStepsStayDone
<1>1. IInv /\ [Next]_vars =>
        [\A i \in ToolIds : steps[i].status = "succeeded" => steps'[i] = steps[i]]_vars
  BY RowsMove, Ids DEF RowMoves, Overwritable
<1> QED
  BY <1>1, AgentInvariant, PTL DEF Spec, DoneStepsStayDone

\* Whatever fails, a completed step of a tool that must not be called twice
\* keeps its record: no late failure report opens it to another call.
THEOREM SideEffectsStayDone ==
  Spec => [][\A i \in ToolIds :
               steps[i].status = "succeeded" /\ ~ReplaySafe(steps[i].policy) =>
                 steps'[i] = steps[i]]_vars
<1>1. IInv /\ [Next]_vars =>
        [\A i \in ToolIds :
           steps[i].status = "succeeded" /\ ~ReplaySafe(steps[i].policy) =>
             steps'[i] = steps[i]]_vars
  BY RowsMove, Ids DEF RowMoves, Overwritable
<1> QED
  BY <1>1, AgentInvariant, PTL DEF Spec
=============================================================================
