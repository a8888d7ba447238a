---------------------------- MODULE McpApproval -----------------------------
(***************************************************************************)
(* The in-memory approvals of the MCP hub (common/mcphub/approval.go).  A  *)
(* challenge binds a user, a tool and the digest of its arguments; each    *)
(* approved challenge has one token, so a token bears the number of its    *)
(* challenge.  Every operation runs under the manager's mutex and is one   *)
(* step.  Time shows in the age of a challenge: 0 until it expires, 1      *)
(* until the retention period after it has passed, then 2.                 *)
(***************************************************************************)
EXTENDS Naturals

CONSTANTS
  Tools,          \* tool names
  Arguments,      \* arguments, told apart by their digests
  MaxChallenges   \* bound on the challenges created; the code has none

ASSUME ChallengeAssumption == MaxChallenges \in Nat

VARIABLES
  challenges,  \* ApprovalManager.challenges, by number
  tokens       \* ApprovalManager.tokens, by the number of their challenge

approvalVars == <<challenges, tokens>>

Ids == 1..MaxChallenges
NoToken == 0

ApprovalInit == challenges = [c \in Ids |-> [state |-> "none", age |-> 0]] /\ tokens = {}

Unexpired(c) == challenges[c].age = 0
Retained(c) == challenges[c].age < 2

\* What cleanupLocked leaves, first step of every operation.
LiveTokens == {c \in tokens : Unexpired(c)}
Exists(c) == challenges[c].state \notin {"none", "gone"} /\ Retained(c)
Cleaned ==
  [c \in Ids |-> IF Retained(c) THEN challenges[c] ELSE [challenges[c] EXCEPT !.state = "gone"]]

\* Create; the checks of user, tool and arguments are made by the caller.
Create(u, t, a) ==
  \E c \in Ids :
    /\ challenges[c].state = "none"
    /\ \A d \in Ids : d < c => challenges[d].state # "none"
    /\ challenges' = [Cleaned EXCEPT ![c] =
         [state |-> "open", age |-> 0, user |-> u, tool |-> t, args |-> a]]
    /\ tokens' = LiveTokens

Approvable(u, c) ==
  /\ Exists(c) /\ Unexpired(c)
  /\ challenges[c].user = u /\ challenges[c].state = "open"

Approve(u, c) ==
  /\ challenges' = IF Approvable(u, c) THEN [Cleaned EXCEPT ![c].state = "approved"] ELSE Cleaned
  /\ tokens' = LiveTokens \cup (IF Approvable(u, c) THEN {c} ELSE {})

\* Mutant: the digest of the arguments is not compared.
BindsTool(c, u, t, a) ==
  c \in LiveTokens /\ challenges[c].user = u /\ challenges[c].tool = t

\* Whether a token is good for a call; a recognised one is used up either way.
Binds(c, u, t, a) ==
  /\ c \in LiveTokens
  /\ challenges[c].user = u /\ challenges[c].tool = t /\ challenges[c].args = a

Binding(c) ==
  [user |-> challenges[c].user, tool |-> challenges[c].tool, args |-> challenges[c].args]

\* Mutant: the token is kept until it expires.
ConsumeKeeps(c) == challenges' = Cleaned /\ tokens' = LiveTokens

Consume(c) ==
  /\ tokens' = LiveTokens \ {c}
  /\ challenges' = IF c \in LiveTokens THEN [Cleaned EXCEPT ![c].state = "consumed"] ELSE Cleaned

ChallengeAges(c) ==
  /\ challenges[c].state # "none" /\ challenges[c].age < 2
  /\ challenges' = [challenges EXCEPT ![c].age = @ + 1]
  /\ UNCHANGED tokens
=============================================================================
