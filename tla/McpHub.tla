------------------------------- MODULE McpHub -------------------------------
(***************************************************************************)
(* The MCP hub with one configured server: the registry of its tools       *)
(* (common/mcphub/registry.go), the service on top of it (service/mcphub)  *)
(* and the requests that reach it through the cost guard.                  *)
(*                                                                         *)
(* A reload that changes the server makes a new runtime; runtimes are      *)
(* numbered, and a request that fetched an older one keeps using it.  The  *)
(* registry mutex is held within single steps only; the mutex of a runtime *)
(* is held across upstream calls and is modelled by its holder.  Requests  *)
(* are goroutines of a pool; each starts an operation, leaves, and may     *)
(* start another.                                                          *)
(***************************************************************************)
EXTENDS CostGuard, McpApproval, Sequences

CONSTANTS
  Requests,       \* goroutines
  Nobody,         \* no holder of a mutex
  Configs,        \* server configurations a reload may find
  Offers,         \* answers of tools/list: the tools offered, with destructiveHint
  MaxReadOnlyRetries,
  Script,         \* bound: per goroutine, the operations it may start first, second, ...
  MaxRuntimes,    \* bound on the runtimes that reloads make
  MaxWindowEnds   \* bound on the counters that expire

GuardedOps == {"call", "create", "approve", "refresh", "reload", "image"}
Ops == GuardedOps \cup {"auto", "list", "notify", "close"}

Risks == 0..4         \* 0: risk_levels has no entry; low, medium, high, critical
ToolConfig == [listed : BOOLEAN, readOnly : BOOLEAN, risk : Risks, approval : BOOLEAN]
ServerConfig == [allowed : BOOLEAN, enabled : BOOLEAN, tools : [Tools -> ToolConfig]]

ASSUME HubAssumption ==
  /\ Nobody \notin Requests
  /\ Configs \subseteq ServerConfig /\ Configs # {}
  /\ \A o \in Offers : DOMAIN o \subseteq Tools /\ \A t \in DOMAIN o : o[t] \in BOOLEAN
  /\ MaxReadOnlyRetries \in Nat
  /\ Script \in [Requests -> Seq(SUBSET Ops)]
  /\ {MaxRuntimes, MaxWindowEnds} \subseteq Nat

VARIABLES
  runtimes,  \* the serverRuntimes made so far
  current,   \* the one in Registry.servers
  tools,     \* Registry.tools: the definition of each discovered tool
  closed,    \* Registry.closed
  req,       \* per goroutine: its operation and where it is
  left,      \* what the bounds leave: operations to start, counters to expire
  ledger,    \* per token: calls it was accepted for, sent and reported to the audit
             \* sink, and the records that came of it (mcp_audit_records)
  strays     \* observer: runtimes on which a discovery worked after their replacement

hubVars == <<runtimes, current, tools, closed>>
vars == <<guardVars, approvalVars, hubVars, req, left, ledger, strays>>

Idle == [pc |-> "idle"]
NoTool == [runtime |-> 0]

NewRuntime(config) ==
  [config |-> config, client |-> FALSE, holder |-> Nobody,
   state |-> IF config.enabled /\ config.allowed THEN "connecting" ELSE "off"]

Init ==
  /\ GuardInit /\ ApprovalInit
  /\ \E c \in Configs : runtimes = <<NewRuntime(c)>>
  /\ current = 1
  /\ tools = [t \in Tools |-> NoTool]
  /\ closed = FALSE
  /\ req = [r \in Requests |-> Idle]
  /\ left = [script |-> Script, windows |-> MaxWindowEnds]
  /\ ledger = [c \in Ids |-> [accepted |-> 0, sent |-> 0, reported |-> 0, audited |-> 0]]
  /\ strays = {}

Config == runtimes[current].config
At(r, pc) == req[r].pc = pc
Goto(r, pc) == req' = [req EXCEPT ![r].pc = pc]
Op(r) == req[r].op
Guarded(r) == Op(r) \in GuardedOps
Class(op) == IF op = "image" THEN ImageAction ELSE "mcp"

-----------------------------------------------------------------------------
(* Tool definitions.                                                       *)

\* convertTool: what the hub makes of an offered tool under a configuration.
ConvertTool(config, t, hint) ==
  LET c == config.tools[t]
      destructive == ~c.readOnly /\ hint
      base == IF c.risk # 0 THEN c.risk ELSE IF c.readOnly THEN 1 ELSE 2
      risk == IF destructive /\ base < 3 THEN 3 ELSE base
  IN [readOnly |-> c.readOnly, risk |-> risk, approval |-> risk >= 2 \/ c.approval]

\* What connectAndDiscover publishes for a runtime.
Discovered(n, offer) ==
  [t \in Tools |->
    IF t \in DOMAIN offer /\ runtimes[n].config.tools[t].listed
    THEN [runtime |-> n, def |-> ConvertTool(runtimes[n].config, t, offer[t])]
    ELSE NoTool]

-----------------------------------------------------------------------------
(* The way in and out: protect, and the audit record of Invoke.            *)

\* Tokens a client may hold, used or not.
Issued == {c \in Ids : challenges[c].state \in {"approved", "consumed"}}

NewRequest(op, pc) ==
  [op |-> op, pc |-> pc, user |-> "none", tool |-> "none", args |-> "none", token |-> NoToken,
   invoked |-> FALSE, since |-> 0, accepted |-> FALSE, sends |-> 0,
   def |-> NoTool, again |-> FALSE, runtime |-> 0, force |-> FALSE]

\* A challenge in the making has its number reserved.
Creating(r) == ~At(r, "idle") /\ Op(r) = "create"

Entry(op) ==
  CASE op \in GuardedOps -> "reserve"
    [] op \in {"auto", "list"} -> "initialize"
    [] op = "notify" -> "fetch"
    [] op = "close" -> "close"

\* Routes of router/MCPHub.go, the chat model (auto), a notification of the
\* upstream server (notify) and the shutdown of the process (close).
Start(r, op) ==
  /\ At(r, "idle") /\ left.script[r] # <<>> /\ op \in Head(left.script[r])
  /\ op = "create" => \E c \in Ids : challenges[c].state = "none" /\ ~\E q \in Requests : Creating(q)
  /\ left' = [left EXCEPT !.script[r] = Tail(@)]
  /\ \E u \in IF op \in GuardedOps \cup {"auto"} THEN Users ELSE {"none"},
        t \in IF op \in {"call", "create", "auto"} THEN Tools ELSE {"none"},
        a \in IF op \in {"call", "create", "auto"} THEN Arguments ELSE {"none"},
        k \in CASE op = "call" -> Issued \cup {NoToken} [] op = "approve" -> Ids [] OTHER -> {NoToken} :
       req' = [req EXCEPT ![r] =
         [NewRequest(op, Entry(op)) EXCEPT !.user = u, !.tool = t, !.args = a, !.token = k]]
  /\ UNCHANGED <<guardVars, approvalVars, hubVars, ledger, strays>>

\* The end of a handler; what its deferred calls still need is kept.
Ended(r) ==
  [NewRequest(Op(r), "leave") EXCEPT !.user = req[r].user, !.accepted = req[r].accepted,
     !.token = IF req[r].accepted THEN req[r].token ELSE NoToken]
Finish(r) == req' = [req EXCEPT ![r] = Ended(r)]

\* The distributed quota; a failing limiter turns the request away (503).
PassQuota(r) ==
  /\ At(r, "reserve")
  /\ LET u == req[r].user
         a == Class(Op(r))
     IN \/ Reserve(u, a) /\ Goto(r, "acquire")
        \/ Refused(u, a) /\ req' = [req EXCEPT ![r] = Idle]
        \/ UNCHANGED window /\ req' = [req EXCEPT ![r] = Idle]
  /\ UNCHANGED <<slotVars, approvalVars, hubVars, left, ledger, strays>>

Handler(op) ==
  CASE op \in {"call", "create"} -> "ensure"
    [] op = "approve" -> "approve"
    [] op = "refresh" -> "fetch"
    [] op = "reload" -> "load"
    [] op = "image" -> "image"

\* Registry.Invoke begins: from here on the request will be reported.
Invoke(r) == req' = [req EXCEPT ![r].pc = "ensure", ![r].invoked = TRUE, ![r].since = current]

\* The slot of this process; the quota of a request turned away is not given
\* back.  A request inside may be refused at once, by limitBody or because the
\* hub could not be set up.
TakeSlot(r) ==
  /\ At(r, "acquire")
  /\ LET u == req[r].user
         a == Class(Op(r))
     IN \/ /\ Acquire(u, a)
           /\ \/ IF Op(r) = "call" THEN Invoke(r) ELSE Goto(r, Handler(Op(r)))
              \/ Finish(r)
        \/ /\ Saturated(u, a)
           /\ req' = [req EXCEPT ![r] = Idle]
           /\ UNCHANGED slotVars
  /\ UNCHANGED <<window, approvalVars, hubVars, left, ledger, strays>>

\* The deferred calls of a request: Invoke hands its event to the audit sink,
\* which has two seconds to write the record; that it fails is ignored.  Then
\* the guard gives the slot back.
Leave(r) ==
  /\ At(r, "leave")
  /\ IF req[r].accepted
     THEN \E written \in 0..1 : ledger' = [ledger EXCEPT ![req[r].token].reported = @ + 1,
                                                       ![req[r].token].audited = @ + written]
     ELSE UNCHANGED ledger
  /\ IF Guarded(r) THEN Release(req[r].user, Class(Op(r))) ELSE UNCHANGED slotVars
  /\ req' = [req EXCEPT ![r] = Idle]
  /\ UNCHANGED <<window, approvalVars, hubVars, left, strays>>

-----------------------------------------------------------------------------
(* Tool, ensureTool and the operations that need a tool.                   *)

\* Registry.Tool, without and with the refresh of ensureTool.
Known(t) == Config.allowed /\ Config.tools[t].listed /\ tools[t] # NoTool
Undiscovered(t) == Config.allowed /\ Config.tools[t].listed /\ tools[t] = NoTool

\* ensureTool, then ValidateArguments, which may reject the arguments.
EnsureTool(r) ==
  /\ At(r, "ensure")
  /\ LET t == req[r].tool
     IN \/ Known(t) /\ req' = [req EXCEPT ![r].def = tools[t],
                                ![r].pc = IF Op(r) = "create" THEN "create" ELSE "consume"]
        \/ Undiscovered(t) /\ ~req[r].again /\ Goto(r, "fetch")
        \/ Finish(r)
  /\ UNCHANGED <<guardVars, approvalVars, hubVars, left, ledger, strays>>

\* The image class stands for the other protected routes: a handler that ends.
OtherHandler(r) ==
  /\ At(r, "image")
  /\ Finish(r)
  /\ UNCHANGED <<guardVars, approvalVars, hubVars, left, ledger, strays>>

\* InvokeAutomatic: the tools of the chat model need no human.
CheckAutomatic(r) ==
  /\ At(r, "precheck")
  /\ LET t == req[r].tool
     IN IF Known(t) /\ tools[t].def.risk = 1 /\ ~tools[t].def.approval
        THEN Invoke(r) ELSE Finish(r)
  /\ UNCHANGED <<guardVars, approvalVars, hubVars, left, ledger, strays>>

CreateApproval(r) ==
  /\ At(r, "create")
  /\ IF req[r].def.def.approval
     THEN Create(req[r].user, req[r].tool, req[r].args) ELSE UNCHANGED approvalVars
  /\ Finish(r)
  /\ UNCHANGED <<guardVars, hubVars, left, ledger, strays>>

ApproveChallenge(r) ==
  /\ At(r, "approve")
  /\ Approve(req[r].user, req[r].token)
  /\ Finish(r)
  /\ UNCHANGED <<guardVars, hubVars, left, ledger, strays>>

\* The approval check of Invoke: before the runtime is fetched, so a token can
\* be used up by a call that is never sent.
CheckApproval(r) ==
  /\ At(r, "consume")
  /\ LET q == req[r]
     IN \/ ~q.def.def.approval /\ Goto(r, "fetch") /\ UNCHANGED <<approvalVars, ledger>>
        \/ /\ q.def.def.approval /\ q.token = NoToken
           /\ Finish(r) /\ UNCHANGED <<approvalVars, ledger>>
        \/ /\ q.def.def.approval /\ q.token # NoToken
           /\ Consume(q.token)
           /\ IF Binds(q.token, q.user, q.tool, q.args)
              THEN /\ req' = [req EXCEPT ![r].pc = "fetch", ![r].accepted = TRUE]
                   /\ ledger' = [ledger EXCEPT ![q.token].accepted = @ + 1]
              ELSE Finish(r) /\ UNCHANGED ledger
  /\ UNCHANGED <<guardVars, hubVars, left, strays>>

-----------------------------------------------------------------------------
(* Runtimes: fetched under the registry mutex, used under their own.       *)

\* A call that has its definition goes on to the upstream call, everything
\* else that fetches a runtime wants a forced discovery.
Calling(r) == req[r].invoked /\ req[r].def # NoTool

FetchRuntime(r) ==
  /\ At(r, "fetch")
  /\ IF closed \/ ~Config.allowed THEN Finish(r)
     ELSE req' = [req EXCEPT ![r].pc = IF Calling(r) THEN "invoke" ELSE "discover",
                             ![r].runtime = current, ![r].force = TRUE]
  /\ UNCHANGED <<guardVars, approvalVars, hubVars, left, ledger, strays>>

\* Where connectAndDiscover returns to.
Back(r, pc) == req' = [req EXCEPT ![r].pc = pc, ![r].again = TRUE, ![r].runtime = 0]
Return(r, ok) ==
  CASE (req[r].invoked \/ Op(r) = "create") /\ ok -> Back(r, "ensure")
    [] Op(r) = "auto" /\ ~req[r].invoked /\ (ok \/ \E t \in Tools : tools[t] # NoTool) ->
         Back(r, "precheck")
    [] OTHER -> Finish(r)

\* Initialize, for a list of tools, a chat turn and the second half of a reload.
Initialize(r) ==
  /\ At(r, "initialize")
  /\ IF ~closed /\ Config.enabled /\ Config.allowed
     THEN req' = [req EXCEPT ![r].pc = "discover", ![r].runtime = current, ![r].force = FALSE]
     ELSE Return(r, ~closed)
  /\ UNCHANGED <<guardVars, approvalVars, hubVars, left, ledger, strays>>

Free(n) == runtimes[n].holder = Nobody
Mine(r) == runtimes[req[r].runtime]
Unlocked(r, state, client) ==
  [runtimes EXCEPT ![req[r].runtime].holder = Nobody, ![req[r].runtime].state = state,
                   ![req[r].runtime].client = client]

Stray(r) == IF req[r].runtime = current THEN {} ELSE {req[r].runtime}

\* connectAndDiscover under the mutex of the runtime: the checks, then the client
\* is created if there is none and the tools are listed; a client created in
\* vain is closed again.
MayConnect(r) == ~closed /\ Mine(r).config.enabled /\ Config.allowed
Settled(r) == Mine(r).client /\ ~req[r].force /\ Mine(r).state = "ready"

Discover(r) ==
  /\ At(r, "discover") /\ Free(req[r].runtime)
  /\ LET n == req[r].runtime
     IN \/ /\ ~MayConnect(r)
           /\ Return(r, FALSE)
           /\ runtimes' = IF closed THEN runtimes ELSE [runtimes EXCEPT ![n].state = "off"]
           /\ UNCHANGED strays
        \/ MayConnect(r) /\ Settled(r) /\ Return(r, TRUE) /\ UNCHANGED <<runtimes, strays>>
        \/ /\ MayConnect(r) /\ ~Settled(r)
           /\ Return(r, FALSE)
           /\ runtimes' = [runtimes EXCEPT ![n].state = "error"]
           /\ UNCHANGED strays
        \/ /\ MayConnect(r) /\ ~Settled(r)
           /\ Goto(r, "publish")
           /\ runtimes' = [runtimes EXCEPT ![n].holder = r, ![n].state = "connecting", ![n].client = TRUE]
           /\ strays' = strays \cup Stray(r)
  /\ UNCHANGED <<guardVars, approvalVars, current, tools, closed, left, ledger>>

\* replaceServerTools does not ask whether the runtime is still registered.  A
\* rejected schema makes the server degraded, which is an error to the caller.
Publish(r) ==
  /\ At(r, "publish")
  /\ \E offer \in Offers : tools' = Discovered(req[r].runtime, offer)
  /\ runtimes' = Unlocked(r, "ready", TRUE)
  /\ strays' = strays \cup Stray(r)
  /\ \E ok \in BOOLEAN : Return(r, ok)
  /\ UNCHANGED <<guardVars, approvalVars, current, closed, left, ledger>>

\* invokeUpstream up to its first attempt.
InvokeUpstream(r) ==
  /\ At(r, "invoke") /\ Free(req[r].runtime)
  /\ IF Mine(r).client
     THEN Goto(r, "send") /\ runtimes' = [runtimes EXCEPT ![req[r].runtime].holder = r]
     ELSE Finish(r) /\ UNCHANGED runtimes
  /\ UNCHANGED <<guardVars, approvalVars, current, tools, closed, left, ledger, strays>>

MaxAttempts(r) == IF req[r].def.def.readOnly THEN 1 + MaxReadOnlyRetries ELSE 1

\* One CallTool: it succeeds, or fails for good, or is worth another attempt.
Send(r) ==
  /\ At(r, "send")
  /\ \/ /\ Finish(r)
        /\ runtimes' = Unlocked(r, Mine(r).state, TRUE)
     \/ /\ req[r].sends + 1 < MaxAttempts(r)
        /\ req' = [req EXCEPT ![r].sends = @ + 1]
        /\ UNCHANGED runtimes
  /\ ledger' = IF req[r].accepted /\ req[r].sends = 0
               THEN [ledger EXCEPT ![req[r].token].sent = @ + 1] ELSE ledger
  /\ UNCHANGED <<guardVars, approvalVars, current, tools, closed, left, strays>>

-----------------------------------------------------------------------------
(* Reload and Close.                                                       *)

\* Mutant: the tools of a replaced server stay registered.
ApplyConfigKeepsTools(r) ==
  /\ At(r, "load") /\ ~closed /\ Len(runtimes) < MaxRuntimes
  /\ \E c \in Configs \ {Config} :
       /\ runtimes' = Append(runtimes, NewRuntime(c))
       /\ current' = Len(runtimes')
       /\ req' = [req EXCEPT ![r].pc = "closeold", ![r].runtime = current]
  /\ UNCHANGED <<guardVars, approvalVars, tools, closed, left, ledger, strays>>

\* A changed server gets a new runtime and loses its tools; the old runtime is
\* closed after the registry mutex was released.
ApplyConfig(r) ==
  /\ At(r, "load") /\ ~closed /\ Len(runtimes) < MaxRuntimes
  /\ \E c \in Configs \ {Config} :
       /\ runtimes' = Append(runtimes, NewRuntime(c))
       /\ current' = Len(runtimes')
       /\ tools' = [t \in Tools |-> NoTool]
       /\ req' = [req EXCEPT ![r].pc = "closeold", ![r].runtime = current]
  /\ UNCHANGED <<guardVars, approvalVars, closed, left, ledger, strays>>

\* An unchanged configuration keeps the runtime, an invalid one changes nothing.
ReloadSame(r) ==
  /\ At(r, "load")
  /\ \/ ~closed /\ Goto(r, "initialize")
     \/ Finish(r)
  /\ UNCHANGED <<guardVars, approvalVars, hubVars, left, ledger, strays>>

Close(r) ==
  /\ At(r, "close")
  /\ closed' = TRUE
  /\ tools' = IF closed THEN tools ELSE [t \in Tools |-> NoTool]
  /\ IF closed THEN Finish(r) ELSE req' = [req EXCEPT ![r].pc = "closeold", ![r].runtime = current]
  /\ UNCHANGED <<guardVars, approvalVars, runtimes, current, left, ledger, strays>>

CloseRuntime(r) ==
  /\ At(r, "closeold") /\ Free(req[r].runtime)
  /\ runtimes' = Unlocked(r, "closed", FALSE)
  /\ IF Op(r) = "reload" THEN Goto(r, "initialize") ELSE Finish(r)
  /\ UNCHANGED <<guardVars, approvalVars, current, tools, closed, left, ledger, strays>>

-----------------------------------------------------------------------------
Step(r) ==
  \/ \E op \in Ops : Start(r, op)
  \/ PassQuota(r) \/ TakeSlot(r) \/ OtherHandler(r) \/ EnsureTool(r) \/ CheckAutomatic(r)
  \/ CreateApproval(r) \/ ApproveChallenge(r) \/ CheckApproval(r)
  \/ FetchRuntime(r) \/ Initialize(r) \/ Discover(r) \/ Publish(r)
  \/ InvokeUpstream(r) \/ Send(r)
  \/ ApplyConfig(r) \/ ReloadSame(r) \/ Close(r) \/ CloseRuntime(r) \/ Leave(r)

\* A counter may expire at any time; that it does when it is full is a bound, as
\* an expiry before lets the same requests pass.
TimePasses ==
  \/ /\ left.windows > 0 /\ left' = [left EXCEPT !.windows = @ - 1]
     /\ \E u \in Users, a \in Actions :
          \E rule \in Rules(u, a) : Exhausted(window, {rule}) /\ WindowEnds(rule.key)
     /\ UNCHANGED <<slotVars, approvalVars>>
  \/ (\E c \in Ids : ChallengeAges(c)) /\ UNCHANGED <<guardVars, left>>

\* Everything started has ended and nothing more will be started.
Rest ==
  /\ \A r \in Requests : At(r, "idle")
  /\ UNCHANGED vars

Next ==
  \/ \E r \in Requests : Step(r)
  \/ TimePasses /\ UNCHANGED <<hubVars, req, ledger, strays>>
  \/ Rest

Spec == Init /\ [][Next]_vars
=============================================================================
