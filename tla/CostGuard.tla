----------------------------- MODULE CostGuard ------------------------------
(***************************************************************************)
(* The guard in front of expensive endpoints (middleware/costguard): a     *)
(* quota per user and window, shared by all processes through Redis, then  *)
(* in-flight slots of this process.  The requests that pass through it     *)
(* belong to the module that extends this one.                             *)
(***************************************************************************)
EXTENDS RateLimit

CONSTANTS
  Users,              \* authenticated user names
  Actions,            \* action classes of the protected routes
  ImageAction,        \* the class with a cap of its own
  RequestsPerWindow,  \* limit of the aggregate key of a user
  ActionLimit,        \* limit of the key of a user and an action
  GlobalInFlight, UserInFlight, ImageInFlight

ASSUME GuardAssumption ==
  /\ ImageAction \in Actions
  /\ ActionLimit \in [Actions -> Nat \ {0}]
  /\ {RequestsPerWindow, GlobalInFlight, UserInFlight, ImageInFlight} \subseteq Nat \ {0}

VARIABLES
  window,    \* the counters of the current windows in Redis
  inFlight,  \* Guard.inFlight
  byUser,    \* Guard.byUser
  byAction   \* Guard.byAction

slotVars == <<inFlight, byUser, byAction>>
guardVars == <<window, inFlight, byUser, byAction>>

AllActions == "all"
Keys == Users \X (Actions \cup {AllActions})

GuardInit ==
  /\ window = [k \in Keys |-> 0]
  /\ inFlight = 0
  /\ byUser = [u \in Users |-> 0]
  /\ byAction = [a \in Actions |-> 0]

\* The two rules of protect.
Rules(u, a) == {Rule(<<u, AllActions>>, RequestsPerWindow), Rule(<<u, a>>, ActionLimit[a])}

Reserve(u, a) ==
  /\ Allowed(window, Rules(u, a))
  /\ window' = Counted(window, Rules(u, a))

Refused(u, a) == Exhausted(window, Rules(u, a)) /\ UNCHANGED window

Saturated(u, a) ==
  \/ inFlight >= GlobalInFlight
  \/ byUser[u] >= UserInFlight
  \/ a = ImageAction /\ byAction[ImageAction] >= ImageInFlight

Acquire(u, a) ==
  /\ ~Saturated(u, a)
  /\ inFlight' = inFlight + 1
  /\ byUser' = [byUser EXCEPT ![u] = @ + 1]
  /\ byAction' = [byAction EXCEPT ![a] = @ + 1]

\* Mutant: the image class is not counted down.
ReleaseForgetsAction(u, a) ==
  /\ inFlight' = inFlight - 1
  /\ byUser' = [byUser EXCEPT ![u] = @ - 1]
  /\ UNCHANGED byAction

\* The function acquire returns, deferred by protect and run once.
Release(u, a) ==
  /\ inFlight' = inFlight - 1
  /\ byUser' = [byUser EXCEPT ![u] = @ - 1]
  /\ byAction' = [byAction EXCEPT ![a] = @ - 1]

\* A counter reaches its expiry.
WindowEnds(k) ==
  /\ window[k] > 0
  /\ window' = Forgotten(window, k)
=============================================================================
