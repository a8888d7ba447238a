--------------------------- MODULE AgentLifecycle ---------------------------
(***************************************************************************)
(* What the Agent store promises about ownership, without steps, leases,   *)
(* clocks or checkpoints: a task moves through a handful of phases, is     *)
(* held by at most one worker, only while it is held, and every            *)
(* acquisition gets a fencing token no earlier holder ever had.            *)
(***************************************************************************)
EXTENDS Naturals

CONSTANTS Workers, NoWorker

VARIABLES
  phase,    \* where the task is
  holder,   \* the worker that may write it
  token     \* the fencing token; a write under an older one is refused

lifecycleVars == <<phase, holder, token>>

Phases == {"absent", "queued", "held", "parked", "failed", "ended"}

LifecycleInit == phase = "absent" /\ holder = NoWorker /\ token = 0

\* The task changes hands: nobody holds it in the phase it moves to.
LetGo(from, to) == phase \in from /\ phase' = to /\ holder' = NoWorker

Submit == LetGo({"absent"}, "queued") /\ UNCHANGED token

Acquire(w) ==
  /\ phase = "queued"
  /\ phase' = "held"
  /\ holder' = w
  /\ token' = token + 1

\* The holder finishes, fails, or leaves the task at the approval gate.
Release == LetGo({"held"}, "parked") \/ LetGo({"held"}, "failed") \/ LetGo({"held"}, "ended")

\* Recovery, a human's resume, or a pause for review invalidate the token.
Revoke ==
  \/ LetGo({"held", "parked", "failed"}, "queued")
  \/ LetGo({"held"}, "parked")

\* Approval queues the task again under the token of the parked run.
Approve == LetGo({"parked"}, "queued") /\ UNCHANGED token

\* Rejection and cancellation end the task for good.
End == LetGo(Phases \ {"absent", "ended"}, "ended")

LifecycleNext ==
  \/ Submit
  \/ \E w \in Workers : Acquire(w)
  \/ Release /\ UNCHANGED token
  \/ (Revoke \/ End) /\ token' = token + 1
  \/ Approve

LifecycleSpec == LifecycleInit /\ [][LifecycleNext]_lifecycleVars
=============================================================================
