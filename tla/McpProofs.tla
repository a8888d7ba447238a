----------------------------- MODULE McpProofs ------------------------------
(***************************************************************************)
(* The safety of the MCP hub and of the guard in front of it, for any      *)
(* goroutines, users, tools, configurations and bounds.                    *)
(*                                                                         *)
(* Flow says what a request has done, given where it is, and is about one  *)
(* request alone.  The other parts of the invariant tie the requests to    *)
(* the guard's counters, to the approvals and the ledger, and to the       *)
(* registry and the runtimes.                                              *)
(***************************************************************************)
EXTENDS McpProperties, FiniteSetTheorems, SequenceTheorems, TLAPS

Places == {"reserve", "acquire", "initialize", "fetch", "close", "ensure", "approve", "load",
           "image", "leave", "precheck", "create", "consume", "invoke", "discover", "publish",
           "send", "closeold"}
Definition == [readOnly : BOOLEAN, risk : Nat, approval : BOOLEAN]
Entries == [accepted : Nat, sent : Nat, reported : Nat, audited : Nat]
ToolDef == {NoTool} \cup [runtime : Nat \ {0}, def : Definition]
Request ==
  [op : Ops, pc : Places, user : Users \cup {"none"}, tool : Tools \cup {"none"},
   args : Arguments \cup {"none"}, token : Ids \cup {NoToken}, invoked : BOOLEAN, since : Nat,
   accepted : BOOLEAN, sends : Nat, def : ToolDef, again : BOOLEAN, runtime : Nat, force : BOOLEAN]

States == {"connecting", "off", "ready", "error", "closed"}
Runtime == [config : Configs, client : BOOLEAN, holder : Requests \cup {Nobody}, state : States]
Challenge == [state : {"none"}, age : {0}]
             \cup [state : {"open", "approved", "consumed", "gone"}, age : 0..2,
                   user : Users \cup {"none"}, tool : Tools \cup {"none"},
                   args : Arguments \cup {"none"}]

Typed ==
  /\ req \in [Requests -> {Idle} \cup Request]
  /\ challenges \in [Ids -> Challenge] /\ tokens \subseteq Ids
  /\ ledger \in [Ids -> Entries]
  /\ runtimes \in Seq(Runtime) /\ current \in 1..Len(runtimes)
  /\ tools \in [Tools -> ToolDef] /\ strays \subseteq Nat

\* The first attempts of a call, and those that follow.
Attempts(q) == IF q.def.def.readOnly THEN 1 + MaxReadOnlyRetries ELSE 1

\* What a request has done, given where it is.
Flow(q) ==
  /\ q.op \in GuardedOps => q.user \in Users
  /\ q.op \notin GuardedOps => q.pc \notin {"reserve", "acquire"}
  /\ q.def # NoTool => /\ q.pc \in {"create", "consume", "fetch", "invoke", "send"}
                       /\ q.invoked \/ q.pc = "create"
  /\ q.pc \in {"consume", "invoke", "send"} => q.def # NoTool
  /\ q.pc = "ensure" => q.invoked \/ q.op = "create"
  /\ q.invoked => q.op \in {"call", "auto"}
  /\ q.pc = "precheck" => q.op = "auto"
  /\ q.op \in {"call", "create", "auto"} => q.pc = "leave" \/ q.tool \in Tools
  /\ q.pc = "approve" => q.op = "approve"
  /\ q.op = "approve" => q.pc = "leave" \/ q.token # NoToken
  /\ q.accepted => /\ q.pc \in {"fetch", "invoke", "send", "leave"} /\ q.token # NoToken
                   /\ q.pc # "leave" => q.def # NoTool
  /\ q.pc \in {"fetch", "invoke", "send"} /\ q.def # NoTool => (q.def.def.approval => q.accepted)
  /\ q.pc # "send" => q.sends = 0
  /\ q.pc = "send" => q.sends < Attempts(q)
FlowInv == \A r \in Requests : ~At(r, "idle") => Flow(req[r])

\* The requests an accepted token belongs to.
Uses(r, c) == ~At(r, "idle") /\ req[r].accepted /\ req[r].token = c

\* A token leaves the table for good when it is used; its challenge keeps the
\* binding for as long as the call runs.
TokenInv ==
  \A c \in Ids :
    /\ c \in tokens => challenges[c].state = "approved"
    /\ challenges[c].state \in {"none", "open", "approved"} => ledger[c].accepted = 0
    /\ ledger[c].accepted <= 1 /\ ledger[c].sent <= ledger[c].accepted
    /\ ledger[c].audited <= ledger[c].reported
    /\ ~(\E r \in Requests : Uses(r, c)) => ledger[c].reported = ledger[c].accepted
UserInv ==
  \A r \in Requests : \A c \in Ids : Uses(r, c) =>
    /\ challenges[c].state \in {"consumed", "gone"}
    /\ ledger[c].accepted = 1 /\ ledger[c].reported = 0
    /\ \A s \in Requests : Uses(s, c) => s = r
    /\ ~At(r, "leave") => Binding(c) = [user |-> req[r].user, tool |-> req[r].tool, args |-> req[r].args]
    /\ ~At(r, "leave") /\ req[r].sends = 0 => ledger[c].sent = 0

\* Runtimes are locked by the request that works on them, which has a client.
Locks(r, q, R) ==
  /\ q.pc \in {"discover", "publish", "invoke", "send", "closeold"} => q.runtime \in 1..Len(R)
  /\ q.pc \in {"publish", "send"} => R[q.runtime].holder = r /\ R[q.runtime].client
LockInv == \A r \in Requests : Locks(r, req[r], runtimes)

\* A definition comes from the runtime in force when it was looked up.
Sourced(q, n, S) ==
  q.pc # "idle" /\ q.invoked =>
    /\ q.since \in 1..n
    /\ q.def # NoTool => q.def.runtime \in (q.since)..n \cup S
SourceInv ==
  /\ \A t \in Tools : tools[t] # NoTool => tools[t].runtime \in {current} \cup strays
  /\ \A r \in Requests : Sourced(req[r], current, strays)
  /\ \A n \in 1..Len(runtimes) : runtimes[n].client =>
       \/ n \in {current} \cup strays
       \/ \E r \in Requests : At(r, "closeold") /\ req[r].runtime = n

SlotInv ==
  /\ IsFiniteSet(Inside)
  /\ byUser \in [Users -> Nat] /\ byAction \in [Actions -> Nat]
  /\ SlotsAreCounted

IInv == Typed /\ FlowInv /\ TokenInv /\ UserInv /\ LockInv /\ SourceInv /\ SlotInv

-----------------------------------------------------------------------------
(* The record of a request.                                                *)

\* Request r becomes x, and no other changes.
Becomes(r, x) == /\ req' \in [Requests -> {Idle} \cup Request] /\ req'[r] = x
                 /\ \A s \in Requests \ {r} : req'[s] = req[s]

\* A request that is not idle has all the fields.
LEMMA RequestOf ==
  ASSUME Typed, NEW r \in Requests, ~At(r, "idle")
  PROVE  req[r] \in Request
  BY DEF Typed, At, Idle

\* Replacing one request.
LEMMA BecomesEffect ==
  ASSUME Typed, NEW r \in Requests, NEW x \in {Idle} \cup Request, req' = [req EXCEPT ![r] = x]
  PROVE  Becomes(r, x)
  BY DEF Typed, Becomes

\* The runtime in force has a number.
LEMMA CurrentIsNat ==
  ASSUME Typed
  PROVE  current \in Nat /\ Len(runtimes) \in Nat /\ current \in 1..Len(runtimes)
  <1>1. Len(runtimes) \in Nat /\ current \in 1..Len(runtimes)
    BY LenProperties DEF Typed
  <1> QED BY <1>1

\* The request at a new place.
Moved(q, pc) == [q EXCEPT !.pc = pc]
\* Goto moves one request and keeps the rest of its record.
LEMMA GotoEffect ==
  ASSUME Typed, NEW r \in Requests, NEW pc \in Places, ~At(r, "idle"), Goto(r, pc)
  PROVE  Becomes(r, Moved(req[r], pc)) /\ Moved(req[r], pc) \in Request
  <1>1. req[r] \in Request
    BY RequestOf
  <1>2. Moved(req[r], pc) \in Request
    BY <1>1 DEF Moved, Request
  <1>3. req' = [req EXCEPT ![r] = Moved(req[r], pc)]
    BY DEF Goto, Moved
  <1> QED BY <1>2, <1>3, BecomesEffect

\* The fields of a request that only moved.
LEMMA MovedFields ==
  ASSUME NEW q \in Request, NEW pc \in Places
  PROVE  LET x == Moved(q, pc)
         IN /\ x.pc = pc /\ x.op = q.op /\ x.user = q.user /\ x.tool = q.tool /\ x.args = q.args
            /\ x.token = q.token /\ x.invoked = q.invoked /\ x.since = q.since
            /\ x.accepted = q.accepted /\ x.sends = q.sends /\ x.def = q.def
            /\ x.again = q.again /\ x.runtime = q.runtime /\ x.force = q.force
  BY DEF Moved, Request

\* The fields of a request that ended.
LEMMA FinishEffect ==
  ASSUME Typed, NEW r \in Requests, ~At(r, "idle"), Finish(r)
  PROVE  \E x \in Request :
           /\ Becomes(r, x)
           /\ x.pc = "leave" /\ x.op = req[r].op /\ x.user = req[r].user
           /\ x.accepted = req[r].accepted /\ (x.accepted => x.token = req[r].token)
           /\ x.invoked = FALSE /\ x.sends = 0 /\ x.def = NoTool
  <1>1. req[r] \in Request
    BY RequestOf
  <1>2. NewRequest(Op(r), "leave") \in Request
    BY <1>1 DEF NewRequest, Op, Request, Places, ToolDef
  <1>3. PICK n \in Request : n = NewRequest(Op(r), "leave")
    BY <1>2
  <1>4. /\ n.pc = "leave" /\ n.op = req[r].op /\ n.invoked = FALSE /\ n.sends = 0 /\ n.def = NoTool
    BY <1>3 DEF NewRequest, Op
  <1>5. PICK k \in Ids \cup {NoToken} : k = IF req[r].accepted THEN req[r].token ELSE NoToken
    BY <1>1 DEF Request
  <1>6. PICK u \in Users \cup {"none"}, b \in BOOLEAN : u = req[r].user /\ b = req[r].accepted
    BY <1>1 DEF Request
  <1> DEFINE x == [n EXCEPT !.user = u, !.accepted = b, !.token = k]
  <1>7. req' = [req EXCEPT ![r] = x]
    BY <1>3, <1>5, <1>6 DEF Finish, Ended
  <1>8. /\ x \in Request /\ x.pc = n.pc /\ x.op = n.op /\ x.invoked = n.invoked /\ x.sends = n.sends
        /\ x.def = n.def /\ x.user = u /\ x.accepted = b /\ x.token = k
    BY DEF Request
  <1> HIDE DEF x
  <1>9. Becomes(r, x)
    BY <1>7, <1>8, BecomesEffect
  <1> QED BY <1>4, <1>5, <1>6, <1>8, <1>9

\* What never changes while a request works.
SameCall(q, x) == /\ x.op = q.op /\ x.user = q.user /\ x.tool = q.tool /\ x.args = q.args
                  /\ x.token = q.token
SameDuty(q, x) == x.accepted = q.accepted /\ x.sends = q.sends
SameSource(q, x) == x.invoked = q.invoked /\ x.since = q.since /\ x.def = q.def

\* The fields of a request that goes to a runtime.
Placed(q, pc, a, n, f) == [q EXCEPT !.pc = pc, !.again = a, !.runtime = n, !.force = f]
\* The other fields of a request placed at a runtime stay as they were.
LEMMA PlacedFields ==
  ASSUME NEW q \in Request, NEW pc \in Places, NEW n \in Nat, NEW f \in BOOLEAN, NEW a \in BOOLEAN
  PROVE  LET x == Placed(q, pc, a, n, f)
         IN /\ x \in Request /\ x.pc = pc /\ x.runtime = n
            /\ SameCall(q, x) /\ SameDuty(q, x) /\ SameSource(q, x)
  BY DEF Request, SameCall, SameDuty, SameSource, Placed

\* The fields of a request that found its tool.
Equipped(q, pc, d) == [q EXCEPT !.pc = pc, !.def = d]
\* The other fields of a request that found its tool stay as they were.
LEMMA EquippedFields ==
  ASSUME NEW q \in Request, NEW pc \in Places, NEW d \in ToolDef
  PROVE  LET x == Equipped(q, pc, d)
         IN /\ x \in Request /\ x.pc = pc /\ x.def = d
            /\ SameCall(q, x) /\ SameDuty(q, x) /\ x.invoked = q.invoked /\ x.since = q.since
  BY DEF Request, SameCall, SameDuty, Equipped

\* The fields of a request whose audit begins.
LEMMA InvokeEffect ==
  ASSUME Typed, NEW r \in Requests, ~At(r, "idle"), Invoke(r)
  PROVE  \E x \in Request :
           /\ Becomes(r, x) /\ x.pc = "ensure" /\ x.invoked = TRUE /\ x.since = current
           /\ SameCall(req[r], x) /\ SameDuty(req[r], x) /\ x.def = req[r].def
  <1>1. PICK q \in Request : q = req[r]
    BY RequestOf
  <1>a. PICK n \in Nat : n = current
    BY CurrentIsNat
  <1>b. PICK pc \in Places : pc = "ensure"
    BY DEF Places
  <1>2. PICK b \in BOOLEAN : n = current /\ pc = "ensure" /\ b = TRUE
    BY <1>a, <1>b
  <1> DEFINE x == [q EXCEPT !.pc = pc, !.invoked = b, !.since = n]
  <1>3. /\ x \in Request /\ x.pc = pc /\ x.invoked = b /\ x.since = n
        /\ SameCall(q, x) /\ SameDuty(q, x) /\ x.def = q.def
    BY DEF Request, SameCall, SameDuty
  <1>4. req' = [req EXCEPT ![r] = x]
    BY <1>1, <1>2 DEF Invoke
  <1> HIDE DEF x
  <1>5. Becomes(r, x)
    BY <1>3, <1>4, BecomesEffect
  <1> QED BY <1>1, <1>2, <1>3, <1>5

\* The fields of a call whose token was good.
LEMMA AcceptEffect ==
  ASSUME Typed, NEW r \in Requests, ~At(r, "idle"),
         req' = [req EXCEPT ![r].pc = "fetch", ![r].accepted = TRUE]
  PROVE  \E x \in Request :
           /\ Becomes(r, x) /\ x.pc = "fetch" /\ x.accepted = TRUE
           /\ SameCall(req[r], x) /\ SameSource(req[r], x) /\ x.sends = req[r].sends
  <1>1. PICK q \in Request : q = req[r]
    BY RequestOf
  <1>2. PICK pc \in Places, b \in BOOLEAN : pc = "fetch" /\ b = TRUE
    BY DEF Places
  <1> DEFINE x == [q EXCEPT !.pc = pc, !.accepted = b]
  <1>3. /\ x \in Request /\ x.pc = pc /\ x.accepted = b
        /\ SameCall(q, x) /\ SameSource(q, x) /\ x.sends = q.sends
    BY DEF Request, SameCall, SameSource
  <1>4. req' = [req EXCEPT ![r] = x]
    BY <1>1, <1>2
  <1> HIDE DEF x
  <1>5. Becomes(r, x)
    BY <1>3, <1>4, BecomesEffect
  <1> QED BY <1>1, <1>2, <1>3, <1>5

\* The fields of a call that is tried again.
LEMMA RetryEffect ==
  ASSUME Typed, NEW r \in Requests, ~At(r, "idle"), req' = [req EXCEPT ![r].sends = @ + 1]
  PROVE  \E x \in Request :
           /\ Becomes(r, x) /\ x.pc = req[r].pc /\ x.accepted = req[r].accepted
           /\ SameCall(req[r], x) /\ SameSource(req[r], x) /\ x.sends = req[r].sends + 1
           /\ x.runtime = req[r].runtime
  <1>1. PICK q \in Request : q = req[r]
    BY RequestOf
  <1>2. PICK n \in Nat : n = q.sends + 1
    BY DEF Request
  <1> DEFINE x == [q EXCEPT !.sends = n]
  <1>3. /\ x \in Request /\ x.pc = q.pc /\ x.accepted = q.accepted /\ x.runtime = q.runtime
        /\ SameCall(q, x) /\ SameSource(q, x) /\ x.sends = n
    BY DEF Request, SameCall, SameSource
  <1>4. req' = [req EXCEPT ![r] = x]
    BY <1>1, <1>2
  <1> HIDE DEF x
  <1>5. Becomes(r, x)
    BY <1>3, <1>4, BecomesEffect
  <1> QED BY <1>1, <1>2, <1>3, <1>5

\* A handler that ended, or a discovery that returned to its caller.
Over(q, x) == /\ x.pc = "leave" /\ x.op = q.op /\ x.user = q.user
              /\ x.accepted = q.accepted /\ (x.accepted => x.token = q.token)
              /\ x.invoked = FALSE /\ x.sends = 0 /\ x.def = NoTool
Resumed(q, x) ==
  /\ x.pc \in {"ensure", "precheck"} /\ SameCall(q, x) /\ SameDuty(q, x) /\ SameSource(q, x)
  /\ x.pc = "ensure" => x.invoked \/ x.op = "create"
  /\ x.pc = "precheck" => x.op = "auto"
\* Return ends the handler or brings the request back to where it needed the
\* tool.
LEMMA ReturnEffect ==
  ASSUME Typed, NEW r \in Requests, ~At(r, "idle"), NEW ok, Return(r, ok)
  PROVE  \E x \in Request : Becomes(r, x) /\ (Over(req[r], x) \/ Resumed(req[r], x))
  <1>1. ASSUME NEW pc \in {"ensure", "precheck"}, Back(r, pc),
               pc = "ensure" => req[r].invoked \/ Op(r) = "create",
               pc = "precheck" => Op(r) = "auto"
        PROVE  \E x \in Request : Becomes(r, x) /\ (Over(req[r], x) \/ Resumed(req[r], x))
    <2>1. PICK q \in Request : q = req[r]
      BY RequestOf
    <2>2. PICK n \in Nat, b \in BOOLEAN, f \in BOOLEAN : n = 0 /\ b = TRUE /\ f = q.force
      BY DEF Request
    <2>3. pc \in Places
      BY DEF Places
    <2> DEFINE x == Placed(q, pc, b, n, f)
    <2>4. req' = [req EXCEPT ![r] = x]
      BY <1>1, <2>1, <2>2 DEF Back, Request, Placed
    <2>5. /\ x \in Request /\ x.pc = pc
          /\ SameCall(req[r], x) /\ SameDuty(req[r], x) /\ SameSource(req[r], x)
      BY <2>1, <2>3, PlacedFields
    <2> HIDE DEF x
    <2>6. Becomes(r, x)
      BY <2>4, <2>5, BecomesEffect
    <2>7. Resumed(req[r], x)
      BY <1>1, <2>5 DEF Resumed, SameCall, SameSource, Op
    <2> QED BY <2>5, <2>6, <2>7
  <1>2. CASE Finish(r)
    BY <1>2, FinishEffect DEF Over
  <1>3. \/ (req[r].invoked \/ Op(r) = "create") /\ Back(r, "ensure")
        \/ Op(r) = "auto" /\ Back(r, "precheck")
        \/ Finish(r)
    BY DEF Return
  <1> QED BY <1>1, <1>2, <1>3
-----------------------------------------------------------------------------
(* What a step leaves of the invariant, given what it did to one request.  *)

\* Flow is about one request.
LEMMA FlowKept ==
  ASSUME FlowInv, NEW r \in Requests, NEW x, Becomes(r, x), x = Idle \/ Flow(x)
  PROVE  FlowInv'
  <1> SUFFICES ASSUME NEW s \in Requests, req'[s].pc # "idle"
               PROVE  Flow(req'[s])
    BY DEF FlowInv, At, Flow, Attempts
  <1>1. CASE s = r
    BY <1>1 DEF Becomes, Idle
  <1>2. CASE s # r
    BY <1>2 DEF Becomes, FlowInv, At
  <1> QED BY <1>1, <1>2

\* A request that ended has the flow of one that leaves.
LEMMA OverFlows ==
  ASSUME NEW q, NEW x, Flow(q), Over(q, x)
  PROVE  Flow(x)
  BY DEF Flow, Over, Attempts

\* A step that keeps who uses which token, and the approvals.
SameUse(r, x) == \A c \in Ids : Uses(r, c) <=> x.pc # "idle" /\ x.accepted /\ x.token = c
\* When one request keeps its token, every request does.
LEMMA UsesKept ==
  ASSUME NEW r \in Requests, NEW x, Becomes(r, x), SameUse(r, x)
  PROVE  \A s \in Requests, c \in Ids : Uses(s, c)' <=> Uses(s, c)
  <1> SUFFICES ASSUME NEW s \in Requests, NEW c \in Ids
               PROVE  Uses(s, c)' <=> Uses(s, c)
    OBVIOUS
  <1>1. CASE s = r
    BY <1>1 DEF Becomes, SameUse, Uses, At
  <1>2. CASE s # r
    BY <1>2 DEF Becomes, Uses, At
  <1> QED BY <1>1, <1>2

\* What an accepted call must keep: it ended, or works on as it did.
SameBinding(q, x) ==
  q.pc # "idle" /\ q.accepted =>
    \/ x.pc = "leave"
    \/ /\ q.pc # "leave" /\ x.sends = q.sends
       /\ x.user = q.user /\ x.tool = q.tool /\ x.args = q.args
\* A step that leaves the approvals and the ledger alone keeps what is said
\* of tokens.
LEMMA TokensKept ==
  ASSUME TokenInv, UserInv, NEW r \in Requests, NEW x, Becomes(r, x), SameUse(r, x),
         SameBinding(req[r], x), UNCHANGED <<challenges, tokens, ledger>>
  PROVE  TokenInv' /\ UserInv'
  <1>1. \A s \in Requests, c \in Ids : Uses(s, c)' <=> Uses(s, c)
    BY UsesKept
  <1>2. TokenInv'
    BY <1>1 DEF TokenInv
  <1>3. ASSUME NEW s \in Requests, NEW c \in Ids, Uses(s, c)
        PROVE  /\ (~At(s, "leave"))' => Binding(c)' = [user |-> req'[s].user, tool |-> req'[s].tool, args |-> req'[s].args]
               /\ (~At(s, "leave"))' /\ req'[s].sends = 0 => ledger'[c].sent = 0
    <2>1. Binding(c)' = Binding(c)
      BY DEF Binding
    <2>2. CASE s # r
      BY <1>3, <2>1, <2>2 DEF UserInv, Becomes, At
    <2>3. CASE s = r
      BY <1>3, <2>1, <2>3 DEF UserInv, Becomes, At, SameBinding, Uses
    <2> QED BY <2>2, <2>3
  <1>4. UserInv'
    BY <1>1, <1>3 DEF UserInv
  <1> QED BY <1>2, <1>4

\* A step that keeps the requests inside the guard, and its counters.
Within(q) == q.pc \notin {"idle", "reserve", "acquire"} /\ q.op \in GuardedOps
SameGuard(q, x) == /\ Within(x) <=> Within(q)
                   /\ Within(q) => x.op = q.op /\ x.user = q.user
\* The requests inside the guard are those whose own record says so.
LEMMA InsideMeans ==
  /\ Inside = {s \in Requests : Within(req[s])}
  /\ Inside' = {s \in Requests : Within(req'[s])}
  BY DEF Inside, Within, At, Guarded, Op
\* A step by which nobody enters or leaves the guard keeps the counters true.
LEMMA SlotsKept ==
  ASSUME SlotInv, NEW r \in Requests, NEW x, Becomes(r, x), SameGuard(req[r], x),
         UNCHANGED <<inFlight, byUser, byAction>>
  PROVE  SlotInv'
  <1>1. \A s \in Requests :
          /\ s \in Inside' <=> s \in Inside
          /\ s \in Inside => req'[s].user = req[s].user /\ req'[s].op = req[s].op
    <2> SUFFICES ASSUME NEW s \in Requests
                 PROVE  /\ s \in Inside' <=> s \in Inside
                        /\ s \in Inside => req'[s].user = req[s].user /\ req'[s].op = req[s].op
      OBVIOUS
    <2>1. CASE s = r
      BY <2>1, InsideMeans DEF Becomes, SameGuard
    <2>2. CASE s # r
      BY <2>2, InsideMeans DEF Becomes
    <2> QED BY <2>1, <2>2
  <1>2. Inside' = Inside
    <2>1. Inside' \subseteq Requests /\ Inside \subseteq Requests
      BY DEF Inside
    <2> QED BY <1>1, <2>1
  <1>3. \A u : {s \in Inside' : req'[s].user = u} = {s \in Inside : req[s].user = u}
    BY <1>1, <1>2 DEF Inside
  <1>4. \A a : {s \in Inside' : Class(req'[s].op) = a} = {s \in Inside : Class(req[s].op) = a}
    BY <1>1, <1>2 DEF Inside
  <1>5. SlotsAreCounted'
    BY <1>2, <1>3, <1>4 DEF SlotInv, SlotsAreCounted, Op
  <1> QED BY <1>2, <1>5 DEF SlotInv

\* The runtimes a request may lock, and those that others have locked.
LEMMA LocksKept ==
  ASSUME NEW r \in Requests, NEW x, Becomes(r, x), Locks(r, x, runtimes'),
         \A s \in Requests \ {r} : Locks(s, req[s], runtimes')
  PROVE  LockInv'
  <1> SUFFICES ASSUME NEW s \in Requests
               PROVE  Locks(s, req'[s], runtimes')
    BY DEF LockInv, Locks
  <1>1. CASE s = r
    BY <1>1 DEF Becomes
  <1>2. CASE s # r
    BY <1>2 DEF Becomes
  <1> QED BY <1>1, <1>2

\* Runtime n becomes y, and no other changes.
Turns(n, y) == /\ runtimes' \in Seq(Runtime) /\ Len(runtimes') = Len(runtimes)
               /\ runtimes'[n] = y /\ \A m \in 1..Len(runtimes) : m # n => runtimes'[m] = runtimes[m]
\* Replacing one element of the runtimes.
LEMMA TurnsEffect ==
  ASSUME Typed, NEW n \in 1..Len(runtimes), NEW y \in Runtime, runtimes' = [runtimes EXCEPT ![n] = y]
  PROVE  Turns(n, y)
  <1>1. runtimes \in Seq(Runtime)
    BY DEF Typed
  <1>2. Len(runtimes') = Len(runtimes) /\ runtimes' \in Seq(Runtime)
    BY <1>1, ExceptSeq
  <1>3. DOMAIN runtimes = 1..Len(runtimes)
    BY <1>1, LenProperties
  <1> QED BY <1>2, <1>3 DEF Turns

\* A runtime that nobody else holds may change.
LEMMA OthersKeepLocks ==
  ASSUME LockInv, HubAssumption, NEW r \in Requests, NEW n, NEW y, Turns(n, y),
         runtimes[n].holder \in {Nobody, r}
  PROVE  \A s \in Requests \ {r} : Locks(s, req[s], runtimes')
  BY DEF LockInv, Locks, Turns, HubAssumption

\* Definitions and clients, when the registry keeps its runtime.
LEMMA SourcesKept ==
  ASSUME SourceInv, NEW r \in Requests, NEW x, Becomes(r, x), Sourced(x, current, strays'),
         current' = current, strays \subseteq strays', Len(runtimes') = Len(runtimes),
         \/ tools' = tools
         \/ \A t \in Tools : tools'[t] # NoTool => tools'[t].runtime \in {current} \cup strays',
         \A m \in 1..Len(runtimes) :
           runtimes'[m].client => \/ runtimes[m].client /\ ~(At(r, "closeold") /\ req[r].runtime = m)
                                 \/ m \in {current} \cup strays'
  PROVE  SourceInv'
  <1>1. \A t \in Tools : tools'[t] # NoTool => tools'[t].runtime \in {current'} \cup strays'
    BY DEF SourceInv
  <1>2. ASSUME NEW s \in Requests
        PROVE  Sourced(req'[s], current', strays')
    <2>1. CASE s = r
      BY <2>1 DEF Becomes
    <2>2. CASE s # r
      BY <2>2 DEF Becomes, SourceInv, Sourced
    <2> QED BY <2>1, <2>2
  <1>3. ASSUME NEW m \in 1..Len(runtimes), runtimes'[m].client
        PROVE  \/ m \in {current} \cup strays'
               \/ \E s \in Requests : req'[s].pc = "closeold" /\ req'[s].runtime = m
    BY <1>3 DEF SourceInv, Becomes, At
  <1> QED BY <1>1, <1>2, <1>3 DEF SourceInv, At, Sourced

\* A step of a request on which nothing but the request depends.
Calm(r, x) ==
  /\ Becomes(r, x) /\ (x = Idle \/ Flow(x)) /\ SameUse(r, x) /\ SameBinding(req[r], x) /\ SameGuard(req[r], x)
\* A calm step keeps the flow, the tokens and the slots.
LEMMA CalmStep ==
  ASSUME IInv, NEW r \in Requests, NEW x, Calm(r, x),
         UNCHANGED <<inFlight, byUser, byAction, challenges, tokens, ledger>>
  PROVE  FlowInv' /\ TokenInv' /\ UserInv' /\ SlotInv'
  BY FlowKept, TokensKept, SlotsKept DEF IInv, Calm
\* A calm step that also leaves the registry alone keeps the invariant.
LEMMA QuietStep ==
  ASSUME IInv, HubAssumption, NEW r \in Requests, NEW x, Calm(r, x),
         ~At(r, "closeold"), Locks(r, x, runtimes), Sourced(x, current, strays),
         UNCHANGED <<slotVars, approvalVars, hubVars, ledger, strays>>
  PROVE  IInv'
  <1> USE DEF slotVars, approvalVars, hubVars
  <1>1. FlowInv' /\ TokenInv' /\ UserInv' /\ SlotInv'
    BY CalmStep
  <1>2. Typed'
    BY DEF IInv, Typed, Calm, Becomes
  <1>3. LockInv'
    BY LocksKept DEF IInv, LockInv, Calm
  <1>4. SourceInv'
    BY SourcesKept DEF IInv, Calm
  <1> QED BY <1>1, <1>2, <1>3, <1>4 DEF IInv

\* A request inside a handler: it is past the guard and has not left.
Busy(q) == q.pc \notin {"idle", "reserve", "acquire", "leave"}

\* A request that works on.
LEMMA CalmWork ==
  ASSUME NEW r \in Requests, NEW x \in Request, Becomes(r, x), Busy(req[r]), Busy(x),
         SameCall(req[r], x), SameDuty(req[r], x), Flow(x)
  PROVE  Calm(r, x)
  BY DEF Calm, SameUse, SameBinding, SameGuard, Within, SameCall, SameDuty, Busy, Uses, At

\* A handler that ends.
LEMMA CalmEnd ==
  ASSUME FlowInv, NEW r \in Requests, NEW x \in Request, Becomes(r, x), Busy(req[r]), Over(req[r], x)
  PROVE  /\ Calm(r, x)
         /\ \A R : Locks(r, x, R)
         /\ \A n, S : Sourced(x, n, S)
  <1>1. Flow(req[r])
    BY DEF FlowInv, Busy, At
  <1>2. Flow(x)
    BY <1>1, OverFlows
  <1>3. Calm(r, x)
    BY <1>2 DEF Calm, SameUse, SameBinding, SameGuard, Within, Over, Busy, Uses, At
  <1> QED BY <1>3 DEF Over, Locks, Sourced

\* A discovery that returns to its caller.
LEMMA CalmReturn ==
  ASSUME FlowInv, SourceInv, NEW r \in Requests, NEW x \in Request, Becomes(r, x),
         req[r].pc \in {"initialize", "discover", "publish"},
         Over(req[r], x) \/ Resumed(req[r], x), NEW S, strays \subseteq S
  PROVE  /\ Calm(r, x)
         /\ \A R : Locks(r, x, R)
         /\ Sourced(x, current, S)
  <1>1. CASE Over(req[r], x)
    BY <1>1, CalmEnd DEF Busy
  <1>2. CASE Resumed(req[r], x)
    <2>1. Flow(req[r])
      BY DEF FlowInv, At
    <2>2. Flow(x)
      BY <1>2, <2>1 DEF Flow, Resumed, SameCall, SameDuty, SameSource, Attempts
    <2>3. Calm(r, x)
      BY <1>2, <2>2, CalmWork DEF Resumed, Busy
    <2>4. Sourced(x, current, S)
      BY <1>2 DEF SourceInv, Sourced, Resumed, SameSource
    <2> QED BY <1>2, <2>3, <2>4 DEF Resumed, Locks
  <1> QED BY <1>1, <1>2

\* A request sent to the runtime in force.
Directed(r, pc) ==
  \/ req' = [req EXCEPT ![r].pc = pc, ![r].runtime = current, ![r].force = TRUE]
  \/ req' = [req EXCEPT ![r].pc = pc, ![r].runtime = current, ![r].force = FALSE]
  \/ req' = [req EXCEPT ![r].pc = pc, ![r].runtime = current]
\* A request sent to the runtime in force names it and keeps its call.
LEMMA DirectEffect ==
  ASSUME Typed, NEW r \in Requests, ~At(r, "idle"), NEW pc \in Places, Directed(r, pc)
  PROVE  \E x \in Request :
           /\ Becomes(r, x) /\ x.pc = pc /\ x.runtime = current
           /\ SameCall(req[r], x) /\ SameDuty(req[r], x) /\ SameSource(req[r], x)
  <1>1. PICK q \in Request : q = req[r]
    BY RequestOf
  <1>2. PICK n \in Nat : n = current
    BY CurrentIsNat
  <1>3. PICK a \in BOOLEAN : a = q.again
    BY DEF Request
  <1>4. PICK f \in BOOLEAN : req' = [req EXCEPT ![r] = Placed(q, pc, a, n, f)]
    <2>1. PICK g \in BOOLEAN : g = q.force
      BY DEF Request
    <2>2. /\ [q EXCEPT !.pc = pc, !.runtime = n, !.force = TRUE] = Placed(q, pc, a, n, TRUE)
          /\ [q EXCEPT !.pc = pc, !.runtime = n, !.force = FALSE] = Placed(q, pc, a, n, FALSE)
          /\ [q EXCEPT !.pc = pc, !.runtime = n] = Placed(q, pc, a, n, g)
      BY <1>3, <2>1 DEF Placed, Request
    <2>3. \/ req' = [req EXCEPT ![r] = [q EXCEPT !.pc = pc, !.runtime = n, !.force = TRUE]]
          \/ req' = [req EXCEPT ![r] = [q EXCEPT !.pc = pc, !.runtime = n, !.force = FALSE]]
          \/ req' = [req EXCEPT ![r] = [q EXCEPT !.pc = pc, !.runtime = n]]
      BY <1>1, <1>2 DEF Directed
    <2>4. CASE req' = [req EXCEPT ![r] = [q EXCEPT !.pc = pc, !.runtime = n, !.force = TRUE]]
      BY <2>2, <2>4
    <2>5. CASE req' = [req EXCEPT ![r] = [q EXCEPT !.pc = pc, !.runtime = n, !.force = FALSE]]
      BY <2>2, <2>5
    <2>6. CASE req' = [req EXCEPT ![r] = [q EXCEPT !.pc = pc, !.runtime = n]]
      BY <2>2, <2>6
    <2> QED BY <2>3, <2>4, <2>5, <2>6
  <1> DEFINE x == Placed(q, pc, a, n, f)
  <1>5. /\ x \in Request /\ x.pc = pc /\ x.runtime = n
        /\ SameCall(q, x) /\ SameDuty(q, x) /\ SameSource(q, x)
    BY PlacedFields
  <1>6. req' = [req EXCEPT ![r] = x]
    BY <1>4
  <1> HIDE DEF x
  <1>7. Becomes(r, x)
    BY <1>5, <1>6, BecomesEffect
  <1> QED BY <1>1, <1>2, <1>5, <1>7
-----------------------------------------------------------------------------
(* The steps that leave the approvals, the registry and the slots alone.   *)

\* The frame of a quiet step.
Frame == UNCHANGED <<slotVars, approvalVars, hubVars, ledger, strays>>

\* A handler that ends changes nothing else.
LEMMA QuietEnd ==
  ASSUME IInv, HubAssumption, NEW r \in Requests, Busy(req[r]), ~At(r, "closeold"), Finish(r), Frame
  PROVE  IInv'
  <1>1. ~At(r, "idle")
    BY DEF Busy, At
  <1>2. PICK x \in Request : Becomes(r, x) /\ Over(req[r], x)
    BY <1>1, FinishEffect DEF Over, IInv
  <1>3. Calm(r, x) /\ Locks(r, x, runtimes) /\ Sourced(x, current, strays)
    BY <1>2, CalmEnd DEF IInv
  <1> QED BY <1>1, <1>3, QuietStep DEF Frame

\* A request that moves on and keeps its record.
LEMMA QuietMove ==
  ASSUME IInv, HubAssumption, NEW r \in Requests, Busy(req[r]), ~At(r, "closeold"),
         NEW pc \in {"fetch", "initialize"}, Goto(r, pc), Frame, Flow(Moved(req[r], pc))
  PROVE  IInv'
  <1>1. ~At(r, "idle") /\ pc \in Places
    BY DEF Busy, At, Places
  <1>2. PICK x \in Request : x = Moved(req[r], pc) /\ Becomes(r, x)
    BY <1>1, GotoEffect DEF IInv
  <1>3. req[r] \in Request
    BY <1>1, RequestOf DEF IInv
  <1>4. /\ x.pc = pc /\ SameCall(req[r], x) /\ SameDuty(req[r], x) /\ SameSource(req[r], x)
    BY <1>1, <1>2, <1>3, MovedFields DEF SameCall, SameDuty, SameSource
  <1>5. Calm(r, x)
    BY <1>2, <1>4, CalmWork DEF Busy
  <1>6. Sourced(req[r], current, strays)
    BY DEF IInv, SourceInv
  <1>7. Locks(r, x, runtimes) /\ Sourced(x, current, strays)
    BY <1>1, <1>4, <1>6 DEF Locks, Sourced, SameSource, At
  <1> QED BY <1>1, <1>5, <1>7, QuietStep DEF Frame

\* ensureTool keeps the invariant: the definition comes from the registry.
LEMMA EnsureToolInv ==
  ASSUME IInv, HubAssumption, NEW r \in Requests, EnsureTool(r)
  PROVE  IInv'
  <1>1. req[r].pc = "ensure" /\ Busy(req[r]) /\ ~At(r, "idle") /\ ~At(r, "closeold") /\ Frame
    BY DEF EnsureTool, At, Busy, Frame, guardVars, slotVars
  <1>2. Flow(req[r]) /\ req[r] \in Request /\ Typed
    BY <1>1, RequestOf DEF IInv, FlowInv
  <1>3. PICK t \in Tools : t = req[r].tool
    BY <1>1, <1>2 DEF Flow
  <1>4. CASE Known(t) /\ req' = [req EXCEPT ![r].def = tools[t],
                                 ![r].pc = IF Op(r) = "create" THEN "create" ELSE "consume"]
    <2>1. PICK pc \in Places : pc = IF Op(r) = "create" THEN "create" ELSE "consume"
      BY DEF Places
    <2>2. PICK d \in ToolDef : d = tools[t]
      BY <1>2 DEF Typed
    <2>3. req' = [req EXCEPT ![r] = Equipped(req[r], pc, d)]
      BY <1>2, <1>4, <2>1, <2>2 DEF Request, Typed, Equipped
    <2>4. PICK x \in Request :
            /\ Becomes(r, x) /\ x.pc = pc /\ x.def = d
            /\ SameCall(req[r], x) /\ SameDuty(req[r], x)
            /\ x.invoked = req[r].invoked /\ x.since = req[r].since
      <3> DEFINE y == Equipped(req[r], pc, d)
      <3>1. /\ y \in Request /\ y.pc = pc /\ y.def = d
            /\ SameCall(req[r], y) /\ SameDuty(req[r], y)
            /\ y.invoked = req[r].invoked /\ y.since = req[r].since
        BY <1>2, EquippedFields
      <3> HIDE DEF y
      <3>2. Becomes(r, y)
        BY <1>2, <2>3, <3>1, BecomesEffect DEF y
      <3> QED BY <3>1, <3>2
    <2>5. d # NoTool /\ d.runtime \in {current} \cup strays
      BY <1>4, <2>2 DEF IInv, SourceInv, Known
    <2>6. Flow(x)
      BY <1>1, <1>2, <2>1, <2>4, <2>5 DEF Flow, SameCall, SameDuty, Op, Attempts
    <2>7. Calm(r, x)
      BY <1>1, <2>1, <2>4, <2>6, CalmWork DEF Busy
    <2>8. Sourced(x, current, strays)
      <3>1. Sourced(req[r], current, strays)
        BY DEF IInv, SourceInv
      <3>2. x.invoked => x.since \in 1..current
        <4>1. req[r].invoked => req[r].since \in 1..current
          BY <1>1, <3>1 DEF Sourced
        <4> QED BY <2>4, <4>1
      <3>3. x.invoked => x.def.runtime \in (x.since)..current \cup strays
        BY <1>2, <2>4, <2>5, <3>2, CurrentIsNat
      <3> QED BY <3>2, <3>3 DEF Sourced
    <2>9. Locks(r, x, runtimes)
      BY <2>1, <2>4 DEF Locks
    <2> QED BY <1>1, <2>7, <2>8, <2>9, QuietStep DEF Frame
  <1>5. CASE Goto(r, "fetch")
    <2>1. Flow(Moved(req[r], "fetch"))
      <3>1. PICK pc \in Places : pc = "fetch"
        BY DEF Places
      <3> DEFINE x == Moved(req[r], pc)
      <3>2. /\ x.pc = pc /\ SameCall(req[r], x) /\ SameDuty(req[r], x) /\ SameSource(req[r], x)
        BY <1>2, MovedFields DEF SameCall, SameDuty, SameSource
      <3> HIDE DEF x
      <3>3. Flow(x)
        BY <1>1, <1>2, <3>1, <3>2 DEF Flow, SameCall, SameDuty, SameSource, Attempts
      <3> QED BY <3>1, <3>3 DEF x
    <2> QED BY <1>1, <1>5, <2>1, QuietMove
  <1>6. CASE Finish(r)
    BY <1>1, <1>6, QuietEnd
  <1> QED BY <1>3, <1>4, <1>5, <1>6 DEF EnsureTool

\* A handler outside the model just ends.
LEMMA OtherHandlerInv ==
  ASSUME IInv, HubAssumption, NEW r \in Requests, OtherHandler(r)
  PROVE  IInv'
  BY QuietEnd DEF OtherHandler, At, Busy, Frame, guardVars, slotVars

\* A request that begins to be audited works on the registry in force.
LEMMA CalmInvoke ==
  ASSUME IInv, NEW r \in Requests, ~At(r, "idle"), Invoke(r), req[r].pc \in {"acquire", "precheck"},
         req[r].op \in {"call", "auto"}
  PROVE  \E x \in Request :
           /\ Becomes(r, x) /\ x.pc = "ensure" /\ SameCall(req[r], x) /\ SameDuty(req[r], x)
           /\ Flow(x) /\ Locks(r, x, runtimes) /\ Sourced(x, current, strays)
  <1>1. Flow(req[r]) /\ Typed
    BY DEF IInv, FlowInv
  <1>2. PICK x \in Request :
          /\ Becomes(r, x) /\ x.pc = "ensure" /\ x.invoked = TRUE /\ x.since = current
          /\ SameCall(req[r], x) /\ SameDuty(req[r], x) /\ x.def = req[r].def
    BY <1>1, InvokeEffect
  <1>3. Flow(x) /\ x.def = NoTool
    BY <1>1, <1>2 DEF Flow, SameCall, SameDuty, Attempts
  <1>4. Sourced(x, current, strays)
    BY <1>1, <1>2, <1>3, CurrentIsNat DEF Sourced
  <1> QED BY <1>2, <1>3, <1>4 DEF Locks

\* InvokeAutomatic keeps the invariant.
LEMMA CheckAutomaticInv ==
  ASSUME IInv, HubAssumption, NEW r \in Requests, CheckAutomatic(r)
  PROVE  IInv'
  <1>1. req[r].pc = "precheck" /\ Busy(req[r]) /\ ~At(r, "idle") /\ ~At(r, "closeold") /\ Frame
    BY DEF CheckAutomatic, At, Busy, Frame, guardVars, slotVars
  <1>2. CASE Invoke(r)
    <2>1. req[r].op = "auto"
      BY <1>1 DEF IInv, FlowInv, Flow
    <2>2. PICK x \in Request :
            /\ Becomes(r, x) /\ x.pc = "ensure" /\ SameCall(req[r], x) /\ SameDuty(req[r], x)
            /\ Flow(x) /\ Locks(r, x, runtimes) /\ Sourced(x, current, strays)
      BY <1>1, <1>2, <2>1, CalmInvoke
    <2>3. Calm(r, x)
      BY <1>1, <2>2, CalmWork DEF Busy
    <2> QED BY <1>1, <2>2, <2>3, QuietStep DEF Frame
  <1>3. CASE Finish(r)
    BY <1>1, <1>3, QuietEnd
  <1> QED BY <1>2, <1>3 DEF CheckAutomatic

\* Fetching the runtime in force keeps the invariant.
LEMMA FetchRuntimeInv ==
  ASSUME IInv, HubAssumption, NEW r \in Requests, FetchRuntime(r)
  PROVE  IInv'
  <1>1. req[r].pc = "fetch" /\ Busy(req[r]) /\ ~At(r, "idle") /\ ~At(r, "closeold") /\ Frame
    BY DEF FetchRuntime, At, Busy, Frame, guardVars, slotVars
  <1>2. Flow(req[r]) /\ Typed
    BY <1>1 DEF IInv, FlowInv
  <1>3. CASE Finish(r)
    BY <1>1, <1>3, QuietEnd
  <1>4. CASE ~Finish(r)
    <2>1. PICK pc \in Places : pc = IF Calling(r) THEN "invoke" ELSE "discover"
      BY DEF Places
    <2>2. Directed(r, pc)
      BY <1>4, <2>1 DEF FetchRuntime, Directed
    <2>3. PICK x \in Request :
            /\ Becomes(r, x) /\ x.pc = pc /\ x.runtime = current
            /\ SameCall(req[r], x) /\ SameDuty(req[r], x) /\ SameSource(req[r], x)
      BY <1>1, <1>2, <2>2, DirectEffect
    <2>4. Flow(x)
      BY <1>1, <1>2, <2>1, <2>3 DEF Flow, SameCall, SameDuty, SameSource, Calling, Attempts
    <2>5. Calm(r, x)
      BY <1>1, <2>1, <2>3, <2>4, CalmWork DEF Busy
    <2>6. Locks(r, x, runtimes)
      BY <1>2, <2>1, <2>3, CurrentIsNat DEF Locks
    <2>7. Sourced(x, current, strays)
      BY <1>1, <2>3 DEF IInv, SourceInv, Sourced, SameSource
    <2> QED BY <1>1, <2>5, <2>6, <2>7, QuietStep DEF Frame
  <1> QED BY <1>3, <1>4

\* Initialize keeps the invariant.
LEMMA InitializeInv ==
  ASSUME IInv, HubAssumption, NEW r \in Requests, Initialize(r)
  PROVE  IInv'
  <1>1. req[r].pc = "initialize" /\ Busy(req[r]) /\ ~At(r, "idle") /\ ~At(r, "closeold") /\ Frame
    BY DEF Initialize, At, Busy, Frame, guardVars, slotVars
  <1>2. Flow(req[r]) /\ Typed
    BY <1>1 DEF IInv, FlowInv
  <1>3. CASE Return(r, ~closed)
    <2>1. PICK x \in Request : Becomes(r, x) /\ (Over(req[r], x) \/ Resumed(req[r], x))
      BY <1>1, <1>2, <1>3, ReturnEffect
    <2>2. Calm(r, x) /\ Locks(r, x, runtimes) /\ Sourced(x, current, strays)
      BY <1>1, <2>1, CalmReturn DEF IInv
    <2> QED BY <1>1, <2>2, QuietStep DEF Frame
  <1>4. CASE ~Return(r, ~closed)
    <2>1. PICK pc \in Places : pc = "discover"
      BY DEF Places
    <2>2. Directed(r, pc)
      BY <1>4, <2>1 DEF Initialize, Directed
    <2>3. PICK x \in Request :
            /\ Becomes(r, x) /\ x.pc = pc /\ x.runtime = current
            /\ SameCall(req[r], x) /\ SameDuty(req[r], x) /\ SameSource(req[r], x)
      BY <1>1, <1>2, <2>2, DirectEffect
    <2>4. Flow(x)
      BY <1>1, <1>2, <2>1, <2>3 DEF Flow, SameCall, SameDuty, SameSource, Attempts
    <2>5. Calm(r, x)
      BY <1>1, <2>1, <2>3, <2>4, CalmWork DEF Busy
    <2>6. Locks(r, x, runtimes)
      BY <1>2, <2>1, <2>3, CurrentIsNat DEF Locks
    <2>7. Sourced(x, current, strays)
      BY <1>1, <2>3 DEF IInv, SourceInv, Sourced, SameSource
    <2> QED BY <1>1, <2>5, <2>6, <2>7, QuietStep DEF Frame
  <1> QED BY <1>3, <1>4

\* A reload that changes nothing keeps the invariant.
LEMMA ReloadSameInv ==
  ASSUME IInv, HubAssumption, NEW r \in Requests, ReloadSame(r)
  PROVE  IInv'
  <1>1. req[r].pc = "load" /\ Busy(req[r]) /\ ~At(r, "idle") /\ ~At(r, "closeold") /\ Frame
    BY DEF ReloadSame, At, Busy, Frame, guardVars, slotVars
  <1>2. Flow(req[r]) /\ req[r] \in Request
    BY <1>1, RequestOf DEF IInv, FlowInv
  <1>3. CASE Goto(r, "initialize")
    <2>1. PICK pc \in Places : pc = "initialize"
      BY DEF Places
    <2> DEFINE x == Moved(req[r], pc)
    <2>2. /\ x.pc = pc /\ SameCall(req[r], x) /\ SameDuty(req[r], x) /\ SameSource(req[r], x)
      BY <1>2, MovedFields DEF SameCall, SameDuty, SameSource
    <2> HIDE DEF x
    <2>3. Flow(x)
      BY <1>1, <1>2, <2>1, <2>2 DEF Flow, SameCall, SameDuty, SameSource, Attempts
    <2>4. Flow(Moved(req[r], "initialize"))
      BY <2>1, <2>3 DEF x
    <2> QED BY <1>1, <1>3, <2>4, QuietMove
  <1>4. CASE Finish(r)
    BY <1>1, <1>4, QuietEnd
  <1> QED BY <1>3, <1>4 DEF ReloadSame

\* A request turned away at the guard.
LEMMA QuietRefusal ==
  ASSUME IInv, HubAssumption, NEW r \in Requests, req[r].pc \in {"reserve", "acquire"},
         req' = [req EXCEPT ![r] = Idle], Frame
  PROVE  IInv'
  <1>1. PICK x \in {Idle} : x = Idle
    OBVIOUS
  <1>2. Becomes(r, x)
    BY <1>1, BecomesEffect DEF IInv
  <1>3. x.pc = "idle"
    BY DEF Idle
  <1>4. Flow(req[r])
    BY DEF IInv, FlowInv, At
  <1>5. Calm(r, x)
    BY <1>2, <1>3, <1>4 DEF Calm, SameUse, SameBinding, SameGuard, Within, Uses, At, Flow
  <1>6. Locks(r, x, runtimes) /\ Sourced(x, current, strays)
    BY <1>3 DEF Locks, Sourced
  <1>7. ~At(r, "closeold")
    BY DEF At
  <1> QED BY <1>5, <1>6, <1>7, QuietStep DEF Frame

\* The quota lets a request through or turns it away.
LEMMA PassQuotaInv ==
  ASSUME IInv, HubAssumption, NEW r \in Requests, PassQuota(r)
  PROVE  IInv'
  <1>1. req[r].pc = "reserve" /\ ~At(r, "idle") /\ ~At(r, "closeold") /\ Frame
    BY DEF PassQuota, At, Frame
  <1>2. Flow(req[r]) /\ req[r] \in Request /\ Typed
    BY <1>1, RequestOf DEF IInv, FlowInv
  <1>3. CASE req' = [req EXCEPT ![r] = Idle]
    BY <1>1, <1>3, QuietRefusal
  <1>4. CASE Goto(r, "acquire")
    <2>1. PICK pc \in Places : pc = "acquire"
      BY DEF Places
    <2>2. PICK x \in Request : x = Moved(req[r], pc) /\ Becomes(r, x)
      BY <1>1, <1>2, <1>4, <2>1, GotoEffect
    <2>3. /\ x.pc = pc /\ SameCall(req[r], x) /\ SameDuty(req[r], x) /\ SameSource(req[r], x)
      BY <1>2, <2>2, MovedFields DEF SameCall, SameDuty, SameSource
    <2>4. Flow(x)
      BY <1>1, <1>2, <2>1, <2>3 DEF Flow, SameCall, SameDuty, SameSource, Attempts
    <2>5. Calm(r, x)
      BY <1>1, <1>2, <2>1, <2>2, <2>3, <2>4
         DEF Calm, SameUse, SameBinding, SameGuard, Within, SameCall, SameDuty, Uses, At, Flow
    <2>6. Locks(r, x, runtimes)
      BY <2>1, <2>3 DEF Locks
    <2>7. Sourced(x, current, strays)
      BY <1>1, <2>3 DEF IInv, SourceInv, Sourced, SameSource
    <2> QED BY <1>1, <2>5, <2>6, <2>7, QuietStep DEF Frame
  <1> QED BY <1>3, <1>4 DEF PassQuota

\* A request begins outside the guard, or where no guard is.
LEMMA StartInv ==
  ASSUME IInv, HubAssumption, NEW r \in Requests, NEW op \in Ops, Start(r, op)
  PROVE  IInv'
  <1>1. req[r].pc = "idle" /\ ~At(r, "closeold") /\ Frame
    BY DEF Start, At, Frame, guardVars, slotVars
  <1>2. PICK e \in Places : e = Entry(op)
    BY DEF Places, Entry, Ops, GuardedOps
  <1>a. /\ op \in GuardedOps => e = "reserve"
        /\ op \notin GuardedOps => e \in {"initialize", "fetch", "close"}
    BY <1>2 DEF Entry, Ops, GuardedOps
  <1>3. PICK n \in Request : n = NewRequest(op, e)
    BY DEF NewRequest, Request, ToolDef
  <1>4. /\ n.pc = e /\ n.op = op /\ n.invoked = FALSE /\ n.sends = 0 /\ n.def = NoTool
        /\ n.accepted = FALSE
    BY <1>3 DEF NewRequest
  <1>5. PICK u \in IF op \in GuardedOps \cup {"auto"} THEN Users ELSE {"none"},
             t \in IF op \in {"call", "create", "auto"} THEN Tools ELSE {"none"},
             a \in IF op \in {"call", "create", "auto"} THEN Arguments ELSE {"none"},
             k \in CASE op = "call" -> Issued \cup {NoToken} [] op = "approve" -> Ids [] OTHER -> {NoToken} :
          req' = [req EXCEPT ![r] =
            [NewRequest(op, Entry(op)) EXCEPT !.user = u, !.tool = t, !.args = a, !.token = k]]
    BY DEF Start
  <1>6. /\ u \in Users \cup {"none"} /\ t \in Tools \cup {"none"} /\ a \in Arguments \cup {"none"}
        /\ k \in Ids \cup {NoToken}
    BY DEF Issued
  <1> DEFINE x == [n EXCEPT !.user = u, !.tool = t, !.args = a, !.token = k]
  <1>7. /\ x \in Request /\ x.pc = n.pc /\ x.op = n.op /\ x.invoked = n.invoked
        /\ x.sends = n.sends /\ x.def = n.def /\ x.accepted = n.accepted
        /\ x.user = u /\ x.tool = t /\ x.token = k
    BY <1>6 DEF Request
  <1>8. req' = [req EXCEPT ![r] = x]
    BY <1>2, <1>3, <1>5
  <1> HIDE DEF x
  <1>9. Becomes(r, x)
    BY <1>7, <1>8, BecomesEffect DEF IInv
  <1>10. Flow(x)
    <2>1. op \in GuardedOps => u \in Users
      OBVIOUS
    <2>2. op \in {"call", "create", "auto"} => t \in Tools
      OBVIOUS
    <2>3. op = "approve" => k # NoToken
      BY DEF Ids, NoToken, ChallengeAssumption
    <2> QED BY <1>a, <1>4, <1>7, <2>1, <2>2, <2>3 DEF Flow, Attempts
  <1>11. Calm(r, x)
    <2>1. ~Within(x) /\ ~Within(req[r])
      BY <1>1, <1>a, <1>4, <1>7 DEF Within
    <2> QED BY <1>1, <1>4, <1>7, <1>9, <1>10, <2>1 DEF Calm, SameUse, SameBinding, SameGuard, Uses, At
  <1>12. Locks(r, x, runtimes)
    BY <1>a, <1>4, <1>7 DEF Locks
  <1>13. Sourced(x, current, strays)
    BY <1>4, <1>7 DEF Sourced
  <1> QED BY <1>1, <1>11, <1>12, <1>13, QuietStep DEF Frame
-----------------------------------------------------------------------------
(* The slots.                                                              *)

\* The guard's classes of the requests inside, before and after a step.
LEMMA SlotSets ==
  ASSUME NEW r \in Requests, NEW x, Becomes(r, x)
  PROVE  /\ \A s \in Requests : s # r => (s \in Inside' <=> s \in Inside)
         /\ \A s \in Requests : s # r => req'[s] = req[s]
         /\ r \in Inside' <=> Within(x)
         /\ req'[r] = x
         /\ Inside \subseteq Requests /\ Inside' \subseteq Requests
  BY InsideMeans DEF Becomes

\* A slot taken is counted, for the process, the user and the class.
LEMMA SlotTaken ==
  ASSUME SlotInv, GuardAssumption, NEW r \in Requests, NEW x, Becomes(r, x), r \notin Inside,
         Within(x), x.user \in Users, Acquire(x.user, Class(x.op))
  PROVE  SlotInv'
  <1>1. Inside' = Inside \cup {r}
    BY SlotSets
  <1>2. IsFiniteSet(Inside) /\ IsFiniteSet(Inside') /\ Cardinality(Inside') = Cardinality(Inside) + 1
    BY <1>1, FS_AddElement DEF SlotInv
  <1>3. ASSUME NEW u \in Users
        PROVE  LET A == {s \in Inside : req[s].user = u}
                   B == {s \in Inside' : req'[s].user = u}
               IN Cardinality(B) = Cardinality(A) + IF u = x.user THEN 1 ELSE 0
    <2> DEFINE A == {s \in Inside : req[s].user = u}
               B == {s \in Inside' : req'[s].user = u}
    <2>1. B = IF u = x.user THEN A \cup {r} ELSE A
      BY <1>1, SlotSets
    <2>2. IsFiniteSet(A) /\ r \notin A
      BY <1>2, FS_Subset
    <2>3. Cardinality(A) \in Nat /\ Cardinality(A \cup {r}) = Cardinality(A) + 1
      BY <2>2, FS_AddElement, FS_CardinalityType
    <2> HIDE DEF A, B
    <2>4. Cardinality(B) = Cardinality(A) + IF u = x.user THEN 1 ELSE 0
      BY <2>1, <2>3
    <2> QED BY <2>4 DEF A, B
  <1>4. ASSUME NEW a \in Actions
        PROVE  LET A == {s \in Inside : Class(req[s].op) = a}
                   B == {s \in Inside' : Class(req'[s].op) = a}
               IN Cardinality(B) = Cardinality(A) + IF a = Class(x.op) THEN 1 ELSE 0
    <2> DEFINE A == {s \in Inside : Class(req[s].op) = a}
               B == {s \in Inside' : Class(req'[s].op) = a}
    <2>1. B = IF a = Class(x.op) THEN A \cup {r} ELSE A
      BY <1>1, SlotSets
    <2>2. IsFiniteSet(A) /\ r \notin A
      BY <1>2, FS_Subset
    <2>3. Cardinality(A) \in Nat /\ Cardinality(A \cup {r}) = Cardinality(A) + 1
      BY <2>2, FS_AddElement, FS_CardinalityType
    <2> HIDE DEF A, B
    <2>4. Cardinality(B) = Cardinality(A) + IF a = Class(x.op) THEN 1 ELSE 0
      BY <2>1, <2>3
    <2> QED BY <2>4 DEF A, B
  <1>5. /\ byUser' \in [Users -> Nat] /\ byUser'[x.user] = byUser[x.user] + 1
        /\ \A u \in Users \ {x.user} : byUser'[u] = byUser[u]
    BY DEF SlotInv, Acquire
  <1>6. /\ byAction' \in [Actions -> Nat]
        /\ \A a \in Actions : byAction'[a] = byAction[a] + IF a = Class(x.op) THEN 1 ELSE 0
    <2>1. PICK c : c = Class(x.op)
      OBVIOUS
    <2>2. byAction \in [Actions -> Nat] /\ byAction' = [byAction EXCEPT ![c] = @ + 1]
      BY <2>1 DEF SlotInv, Acquire
    <2>3. CASE c \in Actions
      BY <2>1, <2>2, <2>3
    <2>4. CASE c \notin Actions
      <3>1. byAction' = byAction
        BY <2>2, <2>4
      <3>2. \A a \in Actions : a # c /\ byAction[a] \in Nat
        BY <2>2, <2>4
      <3>3. byAction' \in [Actions -> Nat]
        BY <2>2, <3>1
      <3>4. \A a \in Actions : byAction'[a] = byAction[a] + 0 /\ a # Class(x.op)
        BY <2>1, <3>1, <3>2
      <3> QED BY <3>3, <3>4
    <2> QED BY <2>3, <2>4
  <1>7. inFlight' = inFlight + 1 /\ inFlight \in Nat /\ inFlight < GlobalInFlight
    <2>1. inFlight \in Nat
      BY <1>2, FS_CardinalityType DEF SlotInv, SlotsAreCounted
    <2> QED BY <2>1 DEF Acquire, Saturated, GuardAssumption
  <1>8. byUser[x.user] < UserInFlight
    BY DEF Acquire, Saturated, GuardAssumption, SlotInv
  <1>9. Class(x.op) = ImageAction => byAction[ImageAction] < ImageInFlight
    BY DEF Acquire, Saturated, GuardAssumption, SlotInv
  <1>10. inFlight' = Cardinality(Inside') /\ inFlight' <= GlobalInFlight
    BY <1>2, <1>7 DEF SlotInv, SlotsAreCounted, GuardAssumption
  <1>11. ASSUME NEW u \in Users
         PROVE  /\ byUser'[u] = Cardinality({s \in Inside' : req'[s].user = u})
                /\ byUser'[u] <= UserInFlight
    <2>1. byUser[u] = Cardinality({s \in Inside : req[s].user = u}) /\ byUser[u] <= UserInFlight
      BY DEF SlotInv, SlotsAreCounted
    <2>2. byUser[u] \in Nat
      BY DEF SlotInv
    <2> QED BY <1>3, <1>5, <1>8, <2>1, <2>2 DEF GuardAssumption
  <1>12. ASSUME NEW a \in Actions
         PROVE  byAction'[a] = Cardinality({s \in Inside' : Class(req'[s].op) = a})
    <2>1. byAction[a] = Cardinality({s \in Inside : Class(req[s].op) = a})
      BY DEF SlotInv, SlotsAreCounted, Op
    <2> QED BY <1>4, <1>6, <2>1
  <1>13. byAction'[ImageAction] <= ImageInFlight
    <2>1. ImageAction \in Actions /\ ImageInFlight \in Nat
      BY DEF GuardAssumption
    <2>2. byAction[ImageAction] \in Nat /\ byAction[ImageAction] <= ImageInFlight
      BY <2>1 DEF SlotInv, SlotsAreCounted
    <2> QED BY <1>6, <1>9, <2>1, <2>2
  <1>14. SlotsAreCounted'
    BY <1>10, <1>11, <1>12, <1>13 DEF SlotsAreCounted, Op
  <1> QED BY <1>2, <1>5, <1>6, <1>14 DEF SlotInv

\* A slot given back is no longer counted, for the process, the user and the
\* class.
LEMMA SlotGiven ==
  ASSUME SlotInv, GuardAssumption, NEW r \in Requests, NEW x, Becomes(r, x), r \in Inside,
         ~Within(x), req[r].user \in Users, Release(req[r].user, Class(req[r].op))
  PROVE  SlotInv'
  <1>1. Inside' = Inside \ {r}
    BY SlotSets
  <1>2. /\ IsFiniteSet(Inside) /\ IsFiniteSet(Inside')
        /\ Cardinality(Inside') = Cardinality(Inside) - 1
    BY <1>1, FS_RemoveElement DEF SlotInv
  <1>3. ASSUME NEW u \in Users
        PROVE  LET A == {s \in Inside : req[s].user = u}
                   B == {s \in Inside' : req'[s].user = u}
               IN Cardinality(B) = Cardinality(A) - IF u = req[r].user THEN 1 ELSE 0
    <2> DEFINE A == {s \in Inside : req[s].user = u}
               B == {s \in Inside' : req'[s].user = u}
    <2>1. B = IF u = req[r].user THEN A \ {r} ELSE A
      BY <1>1, SlotSets
    <2>2. IsFiniteSet(A) /\ (r \in A <=> u = req[r].user)
      BY <1>2, FS_Subset
    <2>3. Cardinality(A) \in Nat /\ (r \in A => Cardinality(A \ {r}) = Cardinality(A) - 1)
      BY <2>2, FS_RemoveElement, FS_CardinalityType
    <2> HIDE DEF A, B
    <2>4. Cardinality(B) = Cardinality(A) - IF u = req[r].user THEN 1 ELSE 0
      BY <2>1, <2>2, <2>3
    <2> QED BY <2>4 DEF A, B
  <1>4. ASSUME NEW a \in Actions
        PROVE  LET A == {s \in Inside : Class(req[s].op) = a}
                   B == {s \in Inside' : Class(req'[s].op) = a}
               IN Cardinality(B) = Cardinality(A) - IF a = Class(req[r].op) THEN 1 ELSE 0
    <2> DEFINE A == {s \in Inside : Class(req[s].op) = a}
               B == {s \in Inside' : Class(req'[s].op) = a}
    <2>1. B = IF a = Class(req[r].op) THEN A \ {r} ELSE A
      BY <1>1, SlotSets
    <2>2. IsFiniteSet(A) /\ (r \in A <=> a = Class(req[r].op))
      BY <1>2, FS_Subset
    <2>3. Cardinality(A) \in Nat /\ (r \in A => Cardinality(A \ {r}) = Cardinality(A) - 1)
      BY <2>2, FS_RemoveElement, FS_CardinalityType
    <2> HIDE DEF A, B
    <2>4. Cardinality(B) = Cardinality(A) - IF a = Class(req[r].op) THEN 1 ELSE 0
      BY <2>1, <2>2, <2>3
    <2> QED BY <2>4 DEF A, B
  <1>5. inFlight' = Cardinality(Inside') /\ inFlight' <= GlobalInFlight
    <2>1. inFlight = Cardinality(Inside) /\ inFlight <= GlobalInFlight /\ inFlight \in Nat
      BY <1>2, FS_CardinalityType DEF SlotInv, SlotsAreCounted
    <2> QED BY <1>2, <2>1 DEF Release, GuardAssumption
  <1>6. ASSUME NEW u \in Users
        PROVE  /\ byUser'[u] = Cardinality({s \in Inside' : req'[s].user = u})
               /\ byUser'[u] \in Nat /\ byUser'[u] <= UserInFlight
    <2>1. byUser[u] = Cardinality({s \in Inside : req[s].user = u}) /\ byUser[u] <= UserInFlight
      BY DEF SlotInv, SlotsAreCounted
    <2>2. byUser[u] \in Nat /\ byUser'[u] = byUser[u] - IF u = req[r].user THEN 1 ELSE 0
      BY DEF SlotInv, Release
    <2>3. byUser'[u] = Cardinality({s \in Inside' : req'[s].user = u})
      BY <1>3, <2>1, <2>2
    <2>4. Cardinality({s \in Inside' : req'[s].user = u}) \in Nat
      BY <1>2, FS_Subset, FS_CardinalityType
    <2>5. byUser'[u] \in Nat
      BY <2>3, <2>4
    <2> QED BY <2>1, <2>2, <2>3, <2>5 DEF GuardAssumption
  <1>7. ASSUME NEW a \in Actions
        PROVE  /\ byAction'[a] = Cardinality({s \in Inside' : Class(req'[s].op) = a})
               /\ byAction'[a] \in Nat /\ byAction'[a] <= byAction[a]
    <2>1. byAction[a] = Cardinality({s \in Inside : Class(req[s].op) = a})
      BY DEF SlotInv, SlotsAreCounted, Op
    <2>2. byAction[a] \in Nat /\ byAction'[a] = byAction[a] - IF a = Class(req[r].op) THEN 1 ELSE 0
      BY DEF SlotInv, Release
    <2>3. byAction'[a] = Cardinality({s \in Inside' : Class(req'[s].op) = a})
      BY <1>4, <2>1, <2>2
    <2>4. Cardinality({s \in Inside' : Class(req'[s].op) = a}) \in Nat
      BY <1>2, FS_Subset, FS_CardinalityType
    <2>5. byAction'[a] \in Nat
      BY <2>3, <2>4
    <2> QED BY <2>2, <2>3, <2>5
  <1>8. byAction'[ImageAction] <= ImageInFlight
    <2>1. ImageAction \in Actions /\ ImageInFlight \in Nat
      BY DEF GuardAssumption
    <2>2. byAction[ImageAction] \in Nat /\ byAction[ImageAction] <= ImageInFlight
      BY <2>1 DEF SlotInv, SlotsAreCounted
    <2>3. byAction'[ImageAction] \in Nat /\ byAction'[ImageAction] <= byAction[ImageAction]
      BY <1>7, <2>1
    <2> QED BY <2>1, <2>2, <2>3
  <1>9. SlotsAreCounted'
    BY <1>5, <1>6, <1>7, <1>8 DEF SlotsAreCounted, Op
  <1>10. byUser' \in [Users -> Nat] /\ byAction' \in [Actions -> Nat]
    <2>1. DOMAIN byUser' = Users /\ DOMAIN byAction' = Actions
      BY DEF SlotInv, Release
    <2>2. byUser' = [u \in Users |-> byUser'[u]] /\ byAction' = [a \in Actions |-> byAction'[a]]
      BY DEF SlotInv, Release
    <2> QED BY <1>6, <1>7, <2>2
  <1> QED BY <1>2, <1>9, <1>10 DEF SlotInv

\* A slot is taken with the first step of the handler.
LEMMA TakeSlotInv ==
  ASSUME IInv, HubAssumption, GuardAssumption, NEW r \in Requests, TakeSlot(r)
  PROVE  IInv'
  <1>1. /\ req[r].pc = "acquire" /\ ~At(r, "idle") /\ ~At(r, "closeold")
        /\ UNCHANGED <<approvalVars, hubVars, ledger, strays>>
    BY DEF TakeSlot, At
  <1>2. Flow(req[r]) /\ req[r] \in Request /\ Typed
    BY <1>1, RequestOf DEF IInv, FlowInv
  <1>3. CASE req' = [req EXCEPT ![r] = Idle] /\ UNCHANGED slotVars
    BY <1>1, <1>3, QuietRefusal DEF Frame
  <1>4. ASSUME Acquire(req[r].user, Class(Op(r))), NEW x \in Request, Becomes(r, x), Flow(x),
               x.pc \notin {"reserve", "acquire"}, x.op = req[r].op, x.user = req[r].user,
               x.accepted = FALSE, Locks(r, x, runtimes), Sourced(x, current, strays)
        PROVE  IInv'
    <2>1. x.pc # "idle" /\ req[r].accepted = FALSE /\ req[r].op \in GuardedOps /\ req[r].user \in Users
      BY <1>1, <1>2 DEF Flow, Request, Places
    <2>2. SameUse(r, x) /\ SameBinding(req[r], x)
      BY <1>1, <1>4, <2>1 DEF SameUse, SameBinding, Uses
    <2>3. TokenInv' /\ UserInv'
      BY <1>1, <1>4, <2>2, TokensKept DEF IInv, approvalVars
    <2>4. FlowInv'
      BY <1>4, FlowKept DEF IInv
    <2>5. Within(x) /\ r \notin Inside
      BY <1>1, <1>4, <2>1, InsideMeans DEF Within
    <2>6. SlotInv'
      BY <1>4, <2>1, <2>5, SlotTaken DEF IInv, Op
    <2>7. Typed'
      BY <1>1, <1>2, <1>4 DEF Typed, Becomes, approvalVars, hubVars
    <2>8. LockInv'
      BY <1>1, <1>4, LocksKept DEF IInv, LockInv, hubVars
    <2>9. SourceInv'
      BY <1>1, <1>4, SourcesKept DEF IInv, hubVars
    <2> QED BY <2>3, <2>4, <2>6, <2>7, <2>8, <2>9 DEF IInv
  <1>5. CASE Acquire(req[r].user, Class(Op(r))) /\ Finish(r)
    <2>1. PICK x \in Request : Becomes(r, x) /\ Over(req[r], x)
      BY <1>1, <1>2, <1>5, FinishEffect DEF Over
    <2>2. Flow(x)
      BY <1>2, <2>1, OverFlows
    <2>3. /\ x.pc = "leave" /\ x.op = req[r].op /\ x.user = req[r].user /\ x.accepted = FALSE
          /\ Locks(r, x, runtimes) /\ Sourced(x, current, strays)
      BY <1>1, <1>2, <2>1 DEF Over, Locks, Sourced, Flow, Request
    <2> QED BY <1>4, <1>5, <2>1, <2>2, <2>3
  <1>6. CASE Acquire(req[r].user, Class(Op(r))) /\ Op(r) = "call" /\ Invoke(r)
    <2>1. PICK x \in Request :
            /\ Becomes(r, x) /\ x.pc = "ensure" /\ SameCall(req[r], x) /\ SameDuty(req[r], x)
            /\ Flow(x) /\ Locks(r, x, runtimes) /\ Sourced(x, current, strays)
      BY <1>1, <1>6, CalmInvoke DEF Op
    <2>2. x.op = req[r].op /\ x.user = req[r].user /\ x.accepted = FALSE
      BY <1>1, <1>2, <2>1 DEF SameCall, SameDuty, Flow, Request
    <2> QED BY <1>4, <1>6, <2>1, <2>2
  <1>7. CASE Acquire(req[r].user, Class(Op(r))) /\ Op(r) # "call" /\ Goto(r, Handler(Op(r)))
    <2>1. /\ Handler(Op(r)) \in {"ensure", "approve", "fetch", "load", "image"}
          /\ Handler(Op(r)) = "ensure" => Op(r) = "create"
          /\ Handler(Op(r)) = "approve" => Op(r) = "approve"
      BY <1>1, <1>2, <1>7 DEF Flow, GuardedOps, Handler, Op
    <2>2. PICK pc \in Places : pc = Handler(Op(r))
      BY <2>1 DEF Places
    <2>3. PICK x \in Request : x = Moved(req[r], pc) /\ Becomes(r, x)
      BY <1>1, <1>2, <1>7, <2>2, GotoEffect
    <2>4. /\ x.pc = pc /\ SameCall(req[r], x) /\ SameDuty(req[r], x) /\ SameSource(req[r], x)
      BY <1>2, <2>3, MovedFields DEF SameCall, SameDuty, SameSource
    <2>5. Flow(x)
      BY <1>1, <1>2, <2>1, <2>2, <2>4 DEF Flow, SameCall, SameDuty, SameSource, Attempts, Op
    <2>6. Locks(r, x, runtimes)
      BY <2>1, <2>2, <2>4 DEF Locks
    <2>7. Sourced(x, current, strays)
      BY <1>1, <2>4 DEF IInv, SourceInv, Sourced, SameSource
    <2>8. /\ x.op = req[r].op /\ x.user = req[r].user /\ x.accepted = FALSE
          /\ x.pc \notin {"reserve", "acquire"}
      BY <1>1, <1>2, <2>1, <2>2, <2>4 DEF SameCall, SameDuty, Flow, Request
    <2> QED BY <1>4, <1>7, <2>3, <2>5, <2>6, <2>7, <2>8
  <1> QED BY <1>3, <1>5, <1>6, <1>7 DEF TakeSlot

\* The audit record and the release of the slot keep the invariant.
LEMMA LeaveInv ==
  ASSUME IInv, HubAssumption, GuardAssumption, NEW r \in Requests, Leave(r)
  PROVE  IInv'
  <1>1. req[r].pc = "leave" /\ ~At(r, "idle") /\ UNCHANGED <<approvalVars, hubVars, strays>>
    BY DEF Leave, At
  <1>2. Flow(req[r]) /\ req[r] \in Request /\ Typed
    BY <1>1, RequestOf DEF IInv, FlowInv
  <1>3. PICK x \in {Idle} : x = Idle
    OBVIOUS
  <1>4. Becomes(r, x) /\ x.pc = "idle"
    BY <1>2, <1>3, BecomesEffect DEF Leave, Idle
  <1>5. FlowInv'
    BY <1>3, <1>4, FlowKept DEF IInv
  <1>6. LockInv'
    <2>1. Locks(r, x, runtimes)
      BY <1>4 DEF Locks
    <2> QED BY <1>1, <1>4, <2>1, LocksKept DEF IInv, LockInv, hubVars
  <1>7. SourceInv'
    <2>1. Sourced(x, current, strays)
      BY <1>4 DEF Sourced
    <2> QED BY <1>1, <1>4, <2>1, SourcesKept DEF IInv, At, hubVars
  <1>8. SlotInv'
    <2>1. ~Within(x)
      BY <1>4 DEF Within
    <2>2. CASE Guarded(r)
      <3>1. r \in Inside /\ req[r].user \in Users
        BY <1>1, <1>2, <2>2, InsideMeans DEF Within, Guarded, Op, Flow
      <3>2. Release(req[r].user, Class(req[r].op))
        BY <2>2 DEF Leave, Op
      <3> QED BY <1>4, <2>1, <3>1, <3>2, SlotGiven DEF IInv
    <2>3. CASE ~Guarded(r)
      <3>1. SameGuard(req[r], x)
        BY <2>1, <2>3 DEF SameGuard, Within, Guarded, Op
      <3> QED BY <1>4, <2>3, <3>1, SlotsKept DEF IInv, Leave, slotVars
    <2> QED BY <2>2, <2>3
  <1>9. CASE ~req[r].accepted
    <2>1. SameUse(r, x) /\ SameBinding(req[r], x)
      BY <1>4, <1>9 DEF SameUse, SameBinding, Uses
    <2>2. ledger' = ledger
      BY <1>9 DEF Leave
    <2>3. TokenInv' /\ UserInv'
      BY <1>1, <1>4, <2>1, <2>2, TokensKept DEF IInv, approvalVars
    <2>4. Typed'
      BY <1>1, <1>2, <1>4, <2>2 DEF Typed, Becomes, approvalVars, hubVars
    <2> QED BY <1>5, <1>6, <1>7, <1>8, <2>3, <2>4 DEF IInv
  <1>10. CASE req[r].accepted
    <2>1. PICK k \in Ids : k = req[r].token
      BY <1>2, <1>10 DEF Flow, Request
    <2>2. Uses(r, k)
      BY <1>1, <1>10, <2>1 DEF Uses, At
    <2>3. /\ ledger[k].accepted = 1 /\ ledger[k].reported = 0
          /\ \A s \in Requests : Uses(s, k) => s = r
      BY <2>2 DEF IInv, UserInv
    <2>4. PICK n \in Nat : n = ledger[k].reported + 1
      BY <1>2 DEF Typed, Entries
    <2>0. ledger[k].audited \in Nat /\ ledger[k].audited <= ledger[k].reported
      BY <1>2 DEF Typed, Entries, IInv, TokenInv
    <2>5. PICK m \in Nat : m <= n /\ ledger' = [ledger EXCEPT ![k].reported = n, ![k].audited = m]
      <3>1. PICK w \in 0..1 : ledger' = [ledger EXCEPT ![k].reported = @ + 1, ![k].audited = @ + w]
        BY <1>10, <2>1 DEF Leave
      <3>2. PICK m \in Nat : m = ledger[k].audited + w
        BY <2>0
      <3>3. m <= n
        BY <2>0, <2>3, <2>4, <3>2
      <3>4. ledger' = [ledger EXCEPT ![k].reported = n, ![k].audited = m]
        BY <1>2, <2>4, <3>1, <3>2 DEF Typed, Entries
      <3> QED BY <3>3, <3>4
    <2>6. /\ ledger' \in [Ids -> Entries]
          /\ \A c \in Ids : ledger'[c].accepted = ledger[c].accepted /\ ledger'[c].sent = ledger[c].sent
          /\ \A c \in Ids : c # k => /\ ledger'[c].reported = ledger[c].reported
                                    /\ ledger'[c].audited = ledger[c].audited
          /\ ledger'[k].reported = n /\ ledger'[k].audited = m
      <3>1. ledger \in [Ids -> Entries]
        BY <1>2 DEF Typed
      <3>2. PICK e \in Entries : e = ledger[k]
        BY <3>1
      <3> DEFINE y == [e EXCEPT !.reported = n, !.audited = m]
      <3>3. y \in Entries /\ y.accepted = e.accepted /\ y.sent = e.sent /\ y.reported = n /\ y.audited = m
        BY DEF Entries
      <3>4. ledger' = [ledger EXCEPT ![k] = y]
        BY <2>5, <3>2
      <3> HIDE DEF y
      <3>5. ledger' \in [Ids -> Entries] /\ ledger'[k] = y /\ \A c \in Ids : c # k => ledger'[c] = ledger[c]
        BY <3>1, <3>3, <3>4
      <3> QED BY <3>2, <3>3, <3>5 DEF Entries
    <2>7. \A s \in Requests, c \in Ids : Uses(s, c)' <=> Uses(s, c) /\ s # r
      <3> SUFFICES ASSUME NEW s \in Requests, NEW c \in Ids
                   PROVE  Uses(s, c)' <=> Uses(s, c) /\ s # r
        OBVIOUS
      <3>1. CASE s = r
        BY <1>4, <3>1 DEF Uses, At, Becomes
      <3>2. CASE s # r
        BY <1>4, <3>2 DEF Uses, At, Becomes
      <3> QED BY <3>1, <3>2
    <2>8. \A c \in Ids : Uses(r, c) => c = k
      BY <2>1 DEF Uses
    <2>9. TokenInv'
      <3> SUFFICES ASSUME NEW c \in Ids
                   PROVE  /\ c \in tokens => challenges[c].state = "approved"
                          /\ challenges[c].state \in {"none", "open", "approved"} => ledger'[c].accepted = 0
                          /\ ledger'[c].accepted <= 1 /\ ledger'[c].sent <= ledger'[c].accepted
                          /\ ledger'[c].audited <= ledger'[c].reported
                          /\ ~(\E s \in Requests : Uses(s, c)') => ledger'[c].reported = ledger'[c].accepted
        BY <1>1 DEF TokenInv, approvalVars
      <3>1. /\ c \in tokens => challenges[c].state = "approved"
            /\ challenges[c].state \in {"none", "open", "approved"} => ledger'[c].accepted = 0
            /\ ledger'[c].accepted <= 1 /\ ledger'[c].sent <= ledger'[c].accepted
        BY <2>6 DEF IInv, TokenInv
      <3>3. ledger'[c].audited <= ledger'[c].reported
        BY <2>5, <2>6 DEF IInv, TokenInv
      <3>2. ~(\E s \in Requests : Uses(s, c)') => ledger'[c].reported = ledger'[c].accepted
        <4>1. CASE c = k
          BY <2>3, <2>4, <2>6, <4>1
        <4>2. CASE c # k
          <5>1. (\E s \in Requests : Uses(s, c)') <=> (\E s \in Requests : Uses(s, c))
            BY <2>7, <2>8, <4>2
          <5> QED BY <2>6, <4>2, <5>1 DEF IInv, TokenInv
        <4> QED BY <4>1, <4>2
      <3> QED BY <3>1, <3>2, <3>3
    <2>10. UserInv'
      <3> SUFFICES ASSUME NEW s \in Requests, NEW c \in Ids, Uses(s, c)'
                   PROVE  /\ challenges[c].state \in {"consumed", "gone"}
                          /\ ledger'[c].accepted = 1 /\ ledger'[c].reported = 0
                          /\ \A q \in Requests : Uses(q, c)' => q = s
                          /\ req'[s].pc # "leave" =>
                               Binding(c)' = [user |-> req'[s].user, tool |-> req'[s].tool, args |-> req'[s].args]
                          /\ req'[s].pc # "leave" /\ req'[s].sends = 0 => ledger'[c].sent = 0
        BY <1>1 DEF UserInv, approvalVars, At
      <3>1. Uses(s, c) /\ s # r /\ c # k /\ req'[s] = req[s]
        BY <1>4, <2>3, <2>7 DEF Becomes
      <3>2. Binding(c)' = Binding(c)
        BY <1>1 DEF Binding, approvalVars
      <3>3. \A q \in Requests : Uses(q, c)' => q = s
        BY <2>7, <3>1 DEF IInv, UserInv
      <3>4. /\ challenges[c].state \in {"consumed", "gone"}
            /\ ledger[c].accepted = 1 /\ ledger[c].reported = 0
            /\ ~At(s, "leave") => Binding(c) = [user |-> req[s].user, tool |-> req[s].tool, args |-> req[s].args]
            /\ ~At(s, "leave") /\ req[s].sends = 0 => ledger[c].sent = 0
        BY <3>1 DEF IInv, UserInv
      <3> QED BY <2>6, <3>1, <3>2, <3>3, <3>4 DEF At
    <2>11. Typed'
      BY <1>1, <1>2, <1>4, <2>6 DEF Typed, Becomes, approvalVars, hubVars
    <2> QED BY <1>5, <1>6, <1>7, <1>8, <2>9, <2>10, <2>11 DEF IInv
  <1> QED BY <1>9, <1>10
-----------------------------------------------------------------------------
(* The approvals.                                                          *)

\* What a challenge binds, and the state it may reach: a used or forgotten one
\* stays so and keeps its binding, and is never one that was not used before.
Spent == {"consumed", "gone"}
Bound(h) == [user |-> h.user, tool |-> h.tool, args |-> h.args]
Ages(h, i) == /\ i \in Challenge
              /\ h.state \in Spent => i.state \in Spent /\ Bound(i) = Bound(h)
\* The binding of a token is the one of its challenge.
LEMMA AgesBinding == \A c : Binding(c) = Bound(challenges[c]) /\ Binding(c)' = Bound(challenges'[c])
  BY DEF Binding, Bound

\* Steps on the approvals by which no call is accepted.
LEMMA TokensAge ==
  ASSUME Typed, TokenInv, UserInv, \A s \in Requests, c \in Ids : Uses(s, c)' <=> Uses(s, c),
         \A s \in Requests : SameBinding(req[s], req'[s]), ledger' = ledger,
         \A c \in Ids : Ages(challenges[c], challenges'[c]),
         \A c \in tokens' : challenges'[c].state = "approved"
  PROVE  TokenInv' /\ UserInv'
  <1>1. ASSUME NEW c \in Ids, challenges'[c].state \in {"none", "open", "approved"}
        PROVE  ledger[c].accepted = 0
    <2>1. challenges[c].state \notin Spent
      BY <1>1 DEF Ages, Spent
    <2>2. challenges[c].state \in {"none", "open", "approved"}
      BY <2>1 DEF Typed, Challenge, Spent
    <2> QED BY <2>2 DEF TokenInv
  <1>2. TokenInv'
    BY <1>1 DEF TokenInv
  <1>3. ASSUME NEW s \in Requests, NEW c \in Ids, Uses(s, c)
        PROVE  /\ challenges'[c].state \in {"consumed", "gone"}
               /\ req'[s].pc # "leave" =>
                    Binding(c)' = [user |-> req'[s].user, tool |-> req'[s].tool, args |-> req'[s].args]
               /\ req'[s].pc # "leave" /\ req'[s].sends = 0 => ledger'[c].sent = 0
    <2>1. challenges[c].state \in Spent
      BY <1>3 DEF UserInv, Spent
    <2>2. challenges'[c].state \in Spent /\ Binding(c)' = Binding(c)
      BY <2>1, AgesBinding DEF Ages
    <2>3. req[s].pc # "idle" /\ req[s].accepted
      BY <1>3 DEF Uses, At
    <2>4. req'[s].pc # "leave" =>
            /\ req[s].pc # "leave" /\ req'[s].sends = req[s].sends
            /\ req'[s].user = req[s].user /\ req'[s].tool = req[s].tool /\ req'[s].args = req[s].args
      BY <2>3 DEF SameBinding
    <2>5. /\ req[s].pc # "leave" => Binding(c) = [user |-> req[s].user, tool |-> req[s].tool, args |-> req[s].args]
          /\ req[s].pc # "leave" /\ req[s].sends = 0 => ledger[c].sent = 0
      BY <1>3 DEF UserInv, At
    <2> QED BY <2>2, <2>4, <2>5 DEF Spent
  <1>4. UserInv'
    BY <1>3 DEF UserInv, At
  <1> QED BY <1>2, <1>4

\* cleanupLocked keeps every live challenge, and forgets the binding of none.
LEMMA CleanedEffect ==
  ASSUME Typed
  PROVE  /\ Cleaned \in [Ids -> Challenge]
         /\ \A c \in Ids : Ages(challenges[c], Cleaned[c])
         /\ \A c \in Ids : Retained(c) => Cleaned[c] = challenges[c]
         /\ \A c \in Ids : ~Retained(c) => Cleaned[c].state = "gone"
         /\ \A c \in LiveTokens : c \in tokens /\ c \in Ids /\ Retained(c)
  <1>1. ASSUME NEW c \in Ids
        PROVE  /\ Cleaned[c] \in Challenge /\ Ages(challenges[c], Cleaned[c])
               /\ Retained(c) => Cleaned[c] = challenges[c]
               /\ ~Retained(c) => Cleaned[c].state = "gone"
    <2>1. PICK h \in Challenge : h = challenges[c]
      BY DEF Typed
    <2>2. CASE Retained(c)
      BY <2>1, <2>2 DEF Cleaned, Ages
    <2>3. CASE ~Retained(c)
      <3>1. h.state # "none"
        BY <2>1, <2>3 DEF Retained, Challenge
      <3>2. h \in [state : {"open", "approved", "consumed", "gone"}, age : 0..2,
                   user : Users \cup {"none"}, tool : Tools \cup {"none"}, args : Arguments \cup {"none"}]
        BY <3>1 DEF Challenge
      <3> DEFINE i == [h EXCEPT !.state = "gone"]
      <3>3. i \in Challenge /\ i.state = "gone" /\ i.user = h.user /\ i.tool = h.tool /\ i.args = h.args
        BY <3>2 DEF Challenge
      <3>4. Cleaned[c] = i
        BY <2>1, <2>3 DEF Cleaned
      <3> HIDE DEF i
      <3> QED BY <2>1, <2>3, <3>3, <3>4 DEF Ages, Bound, Spent
    <2> QED BY <2>2, <2>3
  <1>2. Cleaned \in [Ids -> Challenge]
    <2>1. Cleaned = [c \in Ids |-> Cleaned[c]]
      BY DEF Cleaned
    <2> QED BY <1>1, <2>1
  <1>3. \A c \in LiveTokens : c \in tokens /\ c \in Ids /\ Retained(c)
    BY DEF LiveTokens, Unexpired, Retained, Typed
  <1> QED BY <1>1, <1>2, <1>3

\* A handler that worked on the approvals and ends.
LEMMA ApprovalEnd ==
  ASSUME IInv, HubAssumption, NEW r \in Requests, Busy(req[r]), ~At(r, "closeold"), Finish(r),
         UNCHANGED <<slotVars, hubVars, ledger, strays>>,
         challenges' \in [Ids -> Challenge], tokens' \subseteq Ids,
         \A c \in Ids : Ages(challenges[c], challenges'[c]),
         \A c \in tokens' : challenges'[c].state = "approved"
  PROVE  IInv'
  <1>1. ~At(r, "idle") /\ Typed
    BY DEF Busy, At, IInv
  <1>2. PICK x \in Request : Becomes(r, x) /\ Over(req[r], x)
    BY <1>1, FinishEffect DEF Over
  <1>3. Calm(r, x) /\ Locks(r, x, runtimes) /\ Sourced(x, current, strays)
    BY <1>2, CalmEnd DEF IInv
  <1>4. FlowInv'
    BY <1>2, <1>3, FlowKept DEF IInv, Calm
  <1>5. SlotInv'
    BY <1>2, <1>3, SlotsKept DEF IInv, Calm, slotVars
  <1>6. TokenInv' /\ UserInv'
    <2>1. \A s \in Requests, c \in Ids : Uses(s, c)' <=> Uses(s, c)
      BY <1>2, <1>3, UsesKept DEF Calm
    <2>2. ASSUME NEW s \in Requests
          PROVE  SameBinding(req[s], req'[s])
      <3>1. CASE s = r
        BY <1>2, <1>3, <3>1 DEF Calm, Becomes
      <3>2. CASE s # r
        <4>1. req'[s] = req[s]
          BY <1>2, <3>2 DEF Becomes
        <4> QED BY <4>1 DEF SameBinding
      <3> QED BY <3>1, <3>2
    <2> QED BY <1>1, <2>1, <2>2, TokensAge DEF IInv
  <1>7. Typed'
    BY <1>1, <1>2 DEF Typed, Becomes, hubVars
  <1>8. LockInv'
    BY <1>2, <1>3, LocksKept DEF IInv, LockInv, hubVars
  <1>9. SourceInv'
    BY <1>2, <1>3, SourcesKept DEF IInv, hubVars
  <1> QED BY <1>4, <1>5, <1>6, <1>7, <1>8, <1>9 DEF IInv

\* CreateApproval makes a challenge that was none before.
LEMMA CreateApprovalInv ==
  ASSUME IInv, HubAssumption, NEW r \in Requests, CreateApproval(r)
  PROVE  IInv'
  <1>1. /\ req[r].pc = "create" /\ Busy(req[r]) /\ ~At(r, "idle") /\ ~At(r, "closeold") /\ Finish(r)
        /\ UNCHANGED <<slotVars, hubVars, ledger, strays>>
    BY DEF CreateApproval, At, Busy, guardVars, slotVars
  <1>2. req[r] \in Request /\ Typed
    BY <1>1, RequestOf DEF IInv
  <1>3. CASE UNCHANGED approvalVars
    BY <1>1, <1>3, QuietEnd DEF Frame
  <1>4. CASE Create(req[r].user, req[r].tool, req[r].args)
    <2>1. PICK c \in Ids :
            /\ challenges[c].state = "none"
            /\ challenges' = [Cleaned EXCEPT ![c] =
                 [state |-> "open", age |-> 0, user |-> req[r].user, tool |-> req[r].tool,
                  args |-> req[r].args]]
            /\ tokens' = LiveTokens
      BY <1>4 DEF Create
    <2>2. PICK i \in Challenge : i = [state |-> "open", age |-> 0, user |-> req[r].user,
                                      tool |-> req[r].tool, args |-> req[r].args]
      <3>1. /\ req[r].user \in Users \cup {"none"} /\ req[r].tool \in Tools \cup {"none"}
            /\ req[r].args \in Arguments \cup {"none"} /\ 0 \in 0..2
        BY <1>2 DEF Request
      <3>2. [state |-> "open", age |-> 0, user |-> req[r].user, tool |-> req[r].tool, args |-> req[r].args]
              \in [state : {"open", "approved", "consumed", "gone"}, age : 0..2,
                   user : Users \cup {"none"}, tool : Tools \cup {"none"}, args : Arguments \cup {"none"}]
        BY <3>1
      <3> QED BY <3>2 DEF Challenge
    <2>3. challenges' = [Cleaned EXCEPT ![c] = i]
      BY <2>1, <2>2
    <2>4. /\ challenges' \in [Ids -> Challenge] /\ challenges'[c] = i
          /\ \A d \in Ids : d # c => challenges'[d] = Cleaned[d]
      BY <1>2, <2>3, CleanedEffect
    <2>5. \A d \in Ids : Ages(challenges[d], challenges'[d])
      <3>1. Ages(challenges[c], challenges'[c])
        BY <2>1, <2>4 DEF Ages, Spent
      <3> QED BY <1>2, <2>4, <3>1, CleanedEffect
    <2>6. \A d \in tokens' : d \in Ids /\ challenges'[d].state = "approved"
      <3> SUFFICES ASSUME NEW d \in LiveTokens
                   PROVE  d \in Ids /\ challenges'[d].state = "approved"
        BY <2>1
      <3>1. d \in tokens /\ d \in Ids /\ Retained(d) /\ Cleaned[d] = challenges[d]
        BY <1>2, CleanedEffect
      <3>2. challenges[d].state = "approved"
        BY <3>1 DEF IInv, TokenInv
      <3> QED BY <2>1, <2>4, <3>1, <3>2
    <2> QED BY <1>1, <2>4, <2>5, <2>6, ApprovalEnd
  <1> QED BY <1>3, <1>4 DEF CreateApproval

\* Approve issues the token of an open challenge.
LEMMA ApproveChallengeInv ==
  ASSUME IInv, HubAssumption, NEW r \in Requests, ApproveChallenge(r)
  PROVE  IInv'
  <1>1. /\ req[r].pc = "approve" /\ Busy(req[r]) /\ ~At(r, "idle") /\ ~At(r, "closeold") /\ Finish(r)
        /\ UNCHANGED <<slotVars, hubVars, ledger, strays>>
    BY DEF ApproveChallenge, At, Busy, guardVars, slotVars
  <1>2. req[r] \in Request /\ Typed /\ Flow(req[r])
    BY <1>1, RequestOf DEF IInv, FlowInv
  <1>3. PICK k \in Ids : k = req[r].token
    BY <1>1, <1>2 DEF Flow, Request
  <1>4. ASSUME NEW d \in LiveTokens
        PROVE  d \in Ids /\ Cleaned[d].state = "approved"
    <2>1. d \in tokens /\ d \in Ids /\ Retained(d) /\ Cleaned[d] = challenges[d]
      BY <1>2, CleanedEffect
    <2> QED BY <2>1 DEF IInv, TokenInv
  <1>5. CASE Approvable(req[r].user, k)
    <2>1. challenges[k].state = "open" /\ Cleaned[k] = challenges[k]
      BY <1>2, <1>5, CleanedEffect DEF Approvable, Exists
    <2>2. PICK h \in Challenge : h = Cleaned[k] /\ h.state = "open"
      BY <1>2, <2>1, CleanedEffect
    <2> DEFINE i == [h EXCEPT !.state = "approved"]
    <2>3. i \in Challenge /\ i.state = "approved"
      <3>1. h \in [state : {"open", "approved", "consumed", "gone"}, age : 0..2,
                   user : Users \cup {"none"}, tool : Tools \cup {"none"}, args : Arguments \cup {"none"}]
        BY <2>2 DEF Challenge
      <3> QED BY <3>1 DEF Challenge
    <2>4. challenges' = [Cleaned EXCEPT ![k] = i] /\ tokens' = LiveTokens \cup {k}
      BY <1>3, <1>5, <2>2 DEF ApproveChallenge, Approve
    <2> HIDE DEF i
    <2>5. /\ challenges' \in [Ids -> Challenge] /\ challenges'[k] = i
          /\ \A d \in Ids : d # k => challenges'[d] = Cleaned[d]
      BY <1>2, <2>3, <2>4, CleanedEffect
    <2>6. \A d \in Ids : Ages(challenges[d], challenges'[d])
      <3>1. Ages(challenges[k], challenges'[k])
        BY <2>1, <2>3, <2>5 DEF Ages, Spent
      <3> QED BY <1>2, <2>5, <3>1, CleanedEffect
    <2>7. \A d \in tokens' : d \in Ids /\ challenges'[d].state = "approved"
      BY <1>4, <2>3, <2>4, <2>5
    <2> QED BY <1>1, <2>5, <2>6, <2>7, ApprovalEnd
  <1>6. CASE ~Approvable(req[r].user, k)
    <2>1. challenges' = Cleaned /\ tokens' = LiveTokens
      BY <1>3, <1>6 DEF ApproveChallenge, Approve
    <2>2. challenges' \in [Ids -> Challenge] /\ \A d \in Ids : Ages(challenges[d], challenges'[d])
      BY <1>2, <2>1, CleanedEffect
    <2>3. \A d \in tokens' : d \in Ids /\ challenges'[d].state = "approved"
      BY <1>4, <2>1
    <2> QED BY <1>1, <2>2, <2>3, ApprovalEnd
  <1> QED BY <1>5, <1>6

\* What Consume does to the challenges: a recognised token is used up.
LEMMA ConsumeEffect ==
  ASSUME Typed, TokenInv, NEW k \in Ids, Consume(k)
  PROVE  /\ challenges' \in [Ids -> Challenge] /\ tokens' \subseteq Ids
         /\ \A c \in Ids : Ages(challenges[c], challenges'[c])
         /\ \A c \in tokens' : challenges'[c].state = "approved"
         /\ k \in LiveTokens => /\ k \in tokens /\ challenges[k].state = "approved"
                                /\ challenges'[k].state = "consumed"
                                /\ Bound(challenges'[k]) = Bound(challenges[k])
  <1>1. ASSUME NEW d \in LiveTokens
        PROVE  d \in tokens /\ d \in Ids /\ Cleaned[d].state = "approved" /\ Cleaned[d] = challenges[d]
    <2>1. d \in tokens /\ d \in Ids /\ Retained(d) /\ Cleaned[d] = challenges[d]
      BY CleanedEffect
    <2> QED BY <2>1 DEF TokenInv
  <1>2. CASE k \in LiveTokens
    <2>1. PICK h \in Challenge : h = Cleaned[k] /\ h.state = "approved" /\ h = challenges[k]
      BY <1>1, <1>2, CleanedEffect
    <2> DEFINE i == [h EXCEPT !.state = "consumed"]
    <2>2. /\ i \in Challenge /\ i.state = "consumed" /\ i.user = h.user /\ i.tool = h.tool /\ i.args = h.args
      <3>1. h \in [state : {"open", "approved", "consumed", "gone"}, age : 0..2,
                   user : Users \cup {"none"}, tool : Tools \cup {"none"}, args : Arguments \cup {"none"}]
        BY <2>1 DEF Challenge
      <3> QED BY <3>1 DEF Challenge
    <2>3. challenges' = [Cleaned EXCEPT ![k] = i] /\ tokens' = LiveTokens \ {k}
      BY <1>2, <2>1 DEF Consume
    <2> HIDE DEF i
    <2>4. /\ challenges' \in [Ids -> Challenge] /\ challenges'[k] = i
          /\ \A d \in Ids : d # k => challenges'[d] = Cleaned[d]
      BY <2>2, <2>3, CleanedEffect
    <2>5. \A d \in Ids : Ages(challenges[d], challenges'[d])
      <3>1. Ages(challenges[k], challenges'[k])
        BY <2>1, <2>2, <2>4 DEF Ages, Spent
      <3> QED BY <2>4, <3>1, CleanedEffect
    <2>6. \A d \in tokens' : d \in Ids /\ challenges'[d].state = "approved"
      BY <1>1, <2>3, <2>4
    <2>7. Bound(challenges'[k]) = Bound(challenges[k])
      BY <2>1, <2>2, <2>4 DEF Bound
    <2> QED BY <1>1, <1>2, <2>1, <2>2, <2>4, <2>5, <2>6, <2>7
  <1>3. CASE k \notin LiveTokens
    <2>1. challenges' = Cleaned /\ tokens' \subseteq LiveTokens
      BY <1>3 DEF Consume
    <2>2. challenges' \in [Ids -> Challenge] /\ \A d \in Ids : Ages(challenges[d], challenges'[d])
      BY <2>1, CleanedEffect
    <2>3. \A d \in tokens' : d \in Ids /\ challenges'[d].state = "approved"
      BY <1>1, <2>1
    <2> QED BY <1>3, <2>2, <2>3
  <1> QED BY <1>2, <1>3

\* The approval check: a token is accepted for the call it binds, and for no
\* other, before or after.
LEMMA CheckApprovalInv ==
  ASSUME IInv, HubAssumption, NEW r \in Requests, CheckApproval(r)
  PROVE  IInv'
  <1>1. /\ req[r].pc = "consume" /\ Busy(req[r]) /\ ~At(r, "idle") /\ ~At(r, "closeold")
        /\ UNCHANGED <<slotVars, hubVars, strays>>
    BY DEF CheckApproval, At, Busy, guardVars, slotVars
  <1>2. req[r] \in Request /\ Typed /\ Flow(req[r]) /\ TokenInv
    BY <1>1, RequestOf DEF IInv, FlowInv
  <1>3. CASE UNCHANGED <<approvalVars, ledger>> /\ Finish(r)
    BY <1>1, <1>3, QuietEnd DEF Frame
  <1>4. CASE UNCHANGED <<approvalVars, ledger>> /\ Goto(r, "fetch") /\ ~req[r].def.def.approval
    <2>1. PICK pc \in Places : pc = "fetch"
      BY DEF Places
    <2> DEFINE x == Moved(req[r], pc)
    <2>2. /\ x.pc = pc /\ SameCall(req[r], x) /\ SameDuty(req[r], x) /\ SameSource(req[r], x)
      BY <1>2, MovedFields DEF SameCall, SameDuty, SameSource
    <2> HIDE DEF x
    <2>3. Flow(x)
      BY <1>1, <1>2, <1>4, <2>1, <2>2 DEF Flow, SameCall, SameDuty, SameSource, Attempts
    <2>4. Flow(Moved(req[r], "fetch"))
      BY <2>1, <2>3 DEF x
    <2> QED BY <1>1, <1>4, <2>4, QuietMove DEF Frame
  <1>5. ASSUME req[r].token # NoToken, Consume(req[r].token)
        PROVE  \E k \in Ids : k = req[r].token /\ Consume(k)
    BY <1>2, <1>5 DEF Request
  <1>6. CASE req[r].token # NoToken /\ Consume(req[r].token) /\ Finish(r) /\ ledger' = ledger
    <2>1. PICK k \in Ids : k = req[r].token /\ Consume(k)
      BY <1>5, <1>6
    <2>2. /\ challenges' \in [Ids -> Challenge] /\ tokens' \subseteq Ids
          /\ \A c \in Ids : Ages(challenges[c], challenges'[c])
          /\ \A c \in tokens' : challenges'[c].state = "approved"
      BY <1>2, <2>1, ConsumeEffect
    <2> QED BY <1>1, <1>6, <2>2, ApprovalEnd
  <1>7. CASE /\ req[r].token # NoToken /\ Consume(req[r].token)
             /\ Binds(req[r].token, req[r].user, req[r].tool, req[r].args)
             /\ req' = [req EXCEPT ![r].pc = "fetch", ![r].accepted = TRUE]
             /\ ledger' = [ledger EXCEPT ![req[r].token].accepted = @ + 1]
    <2>1. PICK k \in Ids : k = req[r].token /\ Consume(k)
      BY <1>5, <1>7
    <2>2. /\ challenges' \in [Ids -> Challenge] /\ tokens' \subseteq Ids
          /\ \A c \in Ids : Ages(challenges[c], challenges'[c])
          /\ \A c \in tokens' : challenges'[c].state = "approved"
          /\ challenges[k].state = "approved" /\ challenges'[k].state = "consumed"
          /\ Bound(challenges'[k]) = Bound(challenges[k])
      BY <1>2, <1>7, <2>1, ConsumeEffect DEF Binds
    <2>3. Bound(challenges[k]) = [user |-> req[r].user, tool |-> req[r].tool, args |-> req[r].args]
      BY <1>7, <2>1 DEF Binds, Bound
    <2>4. PICK x \in Request :
            /\ Becomes(r, x) /\ x.pc = "fetch" /\ x.accepted = TRUE
            /\ SameCall(req[r], x) /\ SameSource(req[r], x) /\ x.sends = req[r].sends
      BY <1>1, <1>2, <1>7, AcceptEffect
    <2>5. req[r].accepted = FALSE /\ req[r].sends = 0
      BY <1>1, <1>2 DEF Flow, Request
    <2>6. Flow(x)
      BY <1>1, <1>2, <1>7, <2>4, <2>5 DEF Flow, SameCall, SameSource, Attempts
    <2>7. FlowInv'
      BY <2>4, <2>6, FlowKept DEF IInv
    <2>8. SlotInv'
      <3>1. SameGuard(req[r], x)
        BY <1>1, <2>4 DEF SameGuard, Within, SameCall
      <3> QED BY <1>1, <2>4, <3>1, SlotsKept DEF IInv, slotVars
    <2>9. LockInv'
      <3>1. Locks(r, x, runtimes)
        BY <2>4 DEF Locks
      <3> QED BY <1>1, <2>4, <3>1, LocksKept DEF IInv, LockInv, hubVars
    <2>10. SourceInv'
      <3>1. Sourced(x, current, strays)
        BY <1>1, <2>4 DEF IInv, SourceInv, Sourced, SameSource
      <3> QED BY <1>1, <2>4, <3>1, SourcesKept DEF IInv, hubVars
    <2>11. PICK e \in Entries : e = ledger[k]
      BY <1>2 DEF Typed
    <2>12. /\ e.accepted = 0 /\ e.sent = 0 /\ e.reported = 0 /\ e.audited = 0
           /\ \A s \in Requests : ~Uses(s, k)
      <3>1. \A s \in Requests : ~Uses(s, k)
        BY <2>2 DEF IInv, UserInv
      <3>2. e.accepted = 0 /\ e.sent <= e.accepted /\ e.reported = e.accepted /\ e.audited <= e.reported
        BY <1>2, <2>2, <2>11, <3>1 DEF TokenInv
      <3> QED BY <3>1, <3>2 DEF Entries
    <2>13. PICK one \in Nat : one = e.accepted + 1
      BY DEF Entries
    <2> DEFINE y == [e EXCEPT !.accepted = one]
    <2>14. /\ y \in Entries /\ y.accepted = one /\ y.sent = e.sent
           /\ y.reported = e.reported /\ y.audited = e.audited
      BY DEF Entries
    <2>15. ledger' = [ledger EXCEPT ![k] = y]
      BY <1>7, <2>1, <2>11, <2>13
    <2> HIDE DEF y
    <2>16. ledger' \in [Ids -> Entries] /\ ledger'[k] = y /\ \A c \in Ids : c # k => ledger'[c] = ledger[c]
      BY <1>2, <2>14, <2>15 DEF Typed
    <2>17. y.accepted = 1 /\ y.sent = 0 /\ y.reported = 0 /\ y.audited = 0
      BY <2>12, <2>13, <2>14
    <2>18. \A s \in Requests, c \in Ids : Uses(s, c)' <=> Uses(s, c) \/ (s = r /\ c = k)
      <3> SUFFICES ASSUME NEW s \in Requests, NEW c \in Ids
                   PROVE  Uses(s, c)' <=> Uses(s, c) \/ (s = r /\ c = k)
        OBVIOUS
      <3>1. CASE s = r
        BY <2>1, <2>4, <2>5, <3>1 DEF Uses, At, Becomes, SameCall
      <3>2. CASE s # r
        BY <2>4, <3>2 DEF Uses, At, Becomes
      <3> QED BY <3>1, <3>2
    <2>19. TokenInv'
      <3> SUFFICES ASSUME NEW c \in Ids
                   PROVE  /\ c \in tokens' => challenges'[c].state = "approved"
                          /\ challenges'[c].state \in {"none", "open", "approved"} => ledger'[c].accepted = 0
                          /\ ledger'[c].accepted <= 1 /\ ledger'[c].sent <= ledger'[c].accepted
                          /\ ledger'[c].audited <= ledger'[c].reported
                          /\ ~(\E s \in Requests : Uses(s, c)') => ledger'[c].reported = ledger'[c].accepted
        BY DEF TokenInv
      <3>1. CASE c = k
        <4>1. Uses(r, c)'
          BY <2>18, <3>1
        <4> QED BY <2>2, <2>16, <2>17, <3>1, <4>1
      <3>2. CASE c # k
        <4>1. ledger'[c] = ledger[c]
          BY <2>16, <3>2
        <4>2. challenges'[c].state \in {"none", "open", "approved"} =>
                challenges[c].state \in {"none", "open", "approved"}
          BY <1>2, <2>2 DEF Ages, Spent, Typed, Challenge
        <4>3. ~(\E s \in Requests : Uses(s, c)') => ~(\E s \in Requests : Uses(s, c))
          BY <2>18
        <4> QED BY <1>2, <2>2, <4>1, <4>2, <4>3 DEF TokenInv
      <3> QED BY <3>1, <3>2
    <2>20. UserInv'
      <3> SUFFICES ASSUME NEW s \in Requests, NEW c \in Ids, Uses(s, c)'
                   PROVE  /\ challenges'[c].state \in {"consumed", "gone"}
                          /\ ledger'[c].accepted = 1 /\ ledger'[c].reported = 0
                          /\ \A q \in Requests : Uses(q, c)' => q = s
                          /\ req'[s].pc # "leave" =>
                               Binding(c)' = [user |-> req'[s].user, tool |-> req'[s].tool, args |-> req'[s].args]
                          /\ req'[s].pc # "leave" /\ req'[s].sends = 0 => ledger'[c].sent = 0
        BY DEF UserInv, At
      <3>1. CASE c = k
        <4>1. s = r /\ \A q \in Requests : Uses(q, c)' => q = s
          BY <2>12, <2>18, <3>1
        <4>2. req'[s] = x /\ x.user = req[r].user /\ x.tool = req[r].tool /\ x.args = req[r].args
          BY <2>4, <4>1 DEF Becomes, SameCall
        <4>3. Binding(c)' = [user |-> req[r].user, tool |-> req[r].tool, args |-> req[r].args]
          BY <2>2, <2>3, <3>1, AgesBinding
        <4> QED BY <2>2, <2>16, <2>17, <3>1, <4>1, <4>2, <4>3
      <3>2. CASE c # k
        <4>1. Uses(s, c) /\ \A q \in Requests : Uses(q, c)' => q = s
          BY <2>18, <3>2 DEF IInv, UserInv
        <4>2. s # r /\ req'[s] = req[s]
          BY <2>4, <2>5, <4>1 DEF Becomes, Uses
        <4>3. challenges'[c].state \in Spent /\ Binding(c)' = Binding(c)
          <5>1. challenges[c].state \in Spent
            BY <4>1 DEF IInv, UserInv, Spent
          <5> QED BY <2>2, <5>1, AgesBinding DEF Ages
        <4>4. /\ ledger[c].accepted = 1 /\ ledger[c].reported = 0
              /\ req[s].pc # "leave" =>
                   Binding(c) = [user |-> req[s].user, tool |-> req[s].tool, args |-> req[s].args]
              /\ req[s].pc # "leave" /\ req[s].sends = 0 => ledger[c].sent = 0
          BY <4>1 DEF IInv, UserInv, At
        <4>5. ledger'[c] = ledger[c]
          BY <2>16, <3>2
        <4> QED BY <4>1, <4>2, <4>3, <4>4, <4>5 DEF Spent
      <3> QED BY <3>1, <3>2
    <2>21. Typed'
      BY <1>1, <1>2, <2>2, <2>4, <2>16 DEF Typed, Becomes, hubVars
    <2> QED BY <2>7, <2>8, <2>9, <2>10, <2>19, <2>20, <2>21 DEF IInv
  <1> QED BY <1>3, <1>4, <1>6, <1>7 DEF CheckApproval

\* A challenge that ages keeps its state; a counter that expires is not in the
\* invariant.
LEMMA TimePassesInv ==
  ASSUME IInv, TimePasses, UNCHANGED <<hubVars, req, ledger, strays>>
  PROVE  IInv'
  <1>1. UNCHANGED slotVars
    BY DEF TimePasses, guardVars, slotVars
  <1>2. Typed
    BY DEF IInv
  <1>3. /\ challenges' \in [Ids -> Challenge] /\ tokens' = tokens
        /\ \A c \in Ids : Ages(challenges[c], challenges'[c]) /\ challenges'[c].state = challenges[c].state
    <2>1. CASE UNCHANGED approvalVars
      BY <1>2, <2>1 DEF approvalVars, Typed, Ages
    <2>2. CASE \E c \in Ids : ChallengeAges(c)
      <3>1. PICK c \in Ids : ChallengeAges(c)
        BY <2>2
      <3>2. PICK h \in Challenge : h = challenges[c]
        BY <1>2 DEF Typed
      <3>3. h \in [state : {"open", "approved", "consumed", "gone"}, age : 0..2,
                   user : Users \cup {"none"}, tool : Tools \cup {"none"}, args : Arguments \cup {"none"}]
        BY <3>1, <3>2 DEF ChallengeAges, Challenge
      <3>4. PICK n \in 0..2 : n = h.age + 1
        BY <3>1, <3>2, <3>3 DEF ChallengeAges
      <3> DEFINE i == [h EXCEPT !.age = n]
      <3>5. /\ i \in Challenge /\ i.state = h.state /\ i.user = h.user /\ i.tool = h.tool /\ i.args = h.args
        BY <3>3 DEF Challenge
      <3>6. challenges' = [challenges EXCEPT ![c] = i] /\ tokens' = tokens
        BY <3>1, <3>2, <3>4 DEF ChallengeAges
      <3> HIDE DEF i
      <3>7. /\ challenges' \in [Ids -> Challenge] /\ challenges'[c] = i
            /\ \A d \in Ids : d # c => challenges'[d] = challenges[d]
        BY <1>2, <3>5, <3>6 DEF Typed
      <3>8. \A d \in Ids : challenges'[d] \in Challenge
        BY <3>7
      <3>9. Ages(h, i)
        BY <3>5 DEF Ages, Bound
      <3> QED BY <3>2, <3>5, <3>6, <3>7, <3>8, <3>9 DEF Ages
    <2> QED BY <2>1, <2>2 DEF TimePasses
  <1>4. TokenInv' /\ UserInv'
    <2>1. \A s \in Requests, c \in Ids : Uses(s, c)' <=> Uses(s, c)
      BY DEF Uses, At
    <2>2. \A s \in Requests : SameBinding(req[s], req'[s])
      BY DEF SameBinding
    <2>3. \A c \in tokens' : challenges'[c].state = "approved"
      BY <1>2, <1>3 DEF IInv, TokenInv, Typed
    <2> QED BY <1>2, <1>3, <2>1, <2>2, <2>3, TokensAge DEF IInv
  <1>5. Typed'
    BY <1>2, <1>3 DEF Typed, hubVars
  <1>6. FlowInv' /\ LockInv' /\ SourceInv'
    BY DEF IInv, FlowInv, LockInv, SourceInv, At, Locks, Sourced, Flow, Attempts, hubVars
  <1>7. SlotInv'
    BY <1>1 DEF IInv, SlotInv, SlotsAreCounted, Inside, At, Guarded, Op, Class, slotVars
  <1> QED BY <1>4, <1>5, <1>6, <1>7 DEF IInv
-----------------------------------------------------------------------------
(* The runtimes.                                                           *)

\* A step that changes one runtime, of which nobody else has the mutex.
LEMMA RuntimeStep ==
  ASSUME IInv, HubAssumption, NEW r \in Requests, NEW x, Calm(r, x), NEW n, n = req[r].runtime,
         NEW y, Turns(n, y), n \in 1..Len(runtimes), runtimes[n].holder \in {Nobody, r},
         Locks(r, x, runtimes'), Sourced(x, current, strays'),
         strays \subseteq strays', strays' \subseteq Nat, tools' \in [Tools -> ToolDef],
         \/ tools' = tools
         \/ \A t \in Tools : tools'[t] # NoTool => tools'[t].runtime \in {current} \cup strays',
         y.client => (runtimes[n].client /\ ~At(r, "closeold")) \/ n \in {current} \cup strays',
         UNCHANGED <<slotVars, approvalVars, current, ledger>>
  PROVE  IInv'
  <1>1. FlowInv' /\ TokenInv' /\ UserInv' /\ SlotInv'
    BY CalmStep DEF slotVars, approvalVars
  <1>2. Typed'
    BY DEF IInv, Typed, Calm, Becomes, Turns, approvalVars
  <1>3. LockInv'
    BY OthersKeepLocks, LocksKept DEF IInv, Calm
  <1>4. SourceInv'
    <2>1. \A m \in 1..Len(runtimes) :
            runtimes'[m].client => \/ runtimes[m].client /\ ~(At(r, "closeold") /\ req[r].runtime = m)
                                   \/ m \in {current} \cup strays'
      BY DEF Turns
    <2>2. Becomes(r, x) /\ SourceInv /\ current' = current /\ Len(runtimes') = Len(runtimes)
      BY DEF Calm, IInv, Turns
    <2> QED BY <2>1, <2>2, SourcesKept
  <1> QED BY <1>1, <1>2, <1>3, <1>4 DEF IInv

\* The runtime with some fields replaced.
Tuned(y, h, st, c) == [y EXCEPT !.holder = h, !.state = st, !.client = c]
\* A runtime with new values is a runtime.
LEMMA TunedFields ==
  ASSUME NEW y \in Runtime, NEW h \in Requests \cup {Nobody}, NEW st \in States, NEW c \in BOOLEAN
  PROVE  LET z == Tuned(y, h, st, c)
         IN z \in Runtime /\ z.holder = h /\ z.client = c
  BY DEF Tuned, Runtime

\* Setting the state of a runtime.
LEMMA StateEffect ==
  ASSUME Typed, NEW n \in 1..Len(runtimes), NEW st \in States,
         runtimes' = [runtimes EXCEPT ![n].state = st]
  PROVE  \E y \in Runtime : Turns(n, y) /\ y.holder = runtimes[n].holder /\ y.client = runtimes[n].client
  <1>1. PICK z \in Runtime : z = runtimes[n]
    BY ElementOfSeq DEF Typed
  <1>2. PICK h \in Requests \cup {Nobody}, c \in BOOLEAN : h = z.holder /\ c = z.client
    BY DEF Runtime
  <1> DEFINE y == Tuned(z, h, st, c)
  <1>3. y \in Runtime /\ y.holder = h /\ y.client = c
    BY TunedFields
  <1>4. y = [z EXCEPT !.state = st]
    BY <1>2 DEF Runtime, Tuned
  <1> HIDE DEF y
  <1>5. runtimes' = [runtimes EXCEPT ![n] = y]
    BY <1>1, <1>4
  <1>6. Turns(n, y)
    BY <1>3, <1>5, TurnsEffect
  <1> QED BY <1>1, <1>2, <1>3, <1>6

\* Unlocking a runtime.
LEMMA UnlockedEffect ==
  ASSUME Typed, NEW r \in Requests, req[r].runtime \in 1..Len(runtimes), NEW st \in States,
         NEW c \in BOOLEAN, runtimes' = Unlocked(r, st, c)
  PROVE  \E y \in Runtime : Turns(req[r].runtime, y) /\ y.holder = Nobody /\ y.client = c
  <1>1. PICK n \in 1..Len(runtimes) : n = req[r].runtime
    OBVIOUS
  <1>2. PICK z \in Runtime : z = runtimes[n]
    BY ElementOfSeq DEF Typed
  <1>3. PICK h \in Requests \cup {Nobody} : h = Nobody
    OBVIOUS
  <1> DEFINE y == Tuned(z, h, st, c)
  <1>4. y \in Runtime /\ y.holder = h /\ y.client = c
    BY TunedFields
  <1>5. y = [z EXCEPT !.holder = h, !.state = st, !.client = c]
    BY DEF Tuned
  <1> HIDE DEF y
  <1>6. runtimes' = [runtimes EXCEPT ![n] = y]
    BY <1>1, <1>2, <1>3, <1>5 DEF Unlocked
  <1>7. Turns(n, y)
    BY <1>4, <1>6, TurnsEffect
  <1> QED BY <1>1, <1>3, <1>4, <1>7

\* Taking the mutex of a runtime.
LEMMA LockedEffect ==
  ASSUME Typed, NEW r \in Requests, NEW n \in 1..Len(runtimes),
         \/ runtimes' = [runtimes EXCEPT ![n].holder = r, ![n].state = "connecting", ![n].client = TRUE]
         \/ runtimes' = [runtimes EXCEPT ![n].holder = r] /\ runtimes[n].client
  PROVE  \E y \in Runtime : Turns(n, y) /\ y.holder = r /\ y.client = TRUE
  <1>1. PICK z \in Runtime : z = runtimes[n]
    BY ElementOfSeq DEF Typed
  <1>2. PICK h \in Requests \cup {Nobody} : h = r
    OBVIOUS
  <1>3. PICK c \in BOOLEAN : c = TRUE
    OBVIOUS
  <1>4. PICK st \in States : runtimes' = [runtimes EXCEPT ![n] = Tuned(z, h, st, c)]
    <2>1. CASE runtimes' = [runtimes EXCEPT ![n].holder = r, ![n].state = "connecting", ![n].client = TRUE]
      <3>1. PICK st \in States : st = "connecting"
        BY DEF States
      <3>2. runtimes' = [runtimes EXCEPT ![n] = [z EXCEPT !.holder = h, !.state = st, !.client = c]]
        BY <1>1, <1>2, <1>3, <2>1, <3>1
      <3> QED BY <3>2 DEF Tuned
    <2>2. CASE runtimes' = [runtimes EXCEPT ![n].holder = r] /\ runtimes[n].client
      <3>1. PICK st \in States : st = z.state
        BY DEF Runtime
      <3>2. z.client = c
        BY <1>1, <1>3, <2>2 DEF Runtime
      <3>3. [z EXCEPT !.holder = h] = Tuned(z, h, st, c)
        BY <3>1, <3>2 DEF Runtime, Tuned
      <3>4. runtimes' = [runtimes EXCEPT ![n] = [z EXCEPT !.holder = h]]
        BY <1>1, <1>2, <2>2
      <3> QED BY <3>3, <3>4
    <2> QED BY <2>1, <2>2
  <1> DEFINE y == Tuned(z, h, st, c)
  <1>5. y \in Runtime /\ y.holder = h /\ y.client = c
    BY TunedFields
  <1> HIDE DEF y
  <1>6. Turns(n, y)
    BY <1>4, <1>5, TurnsEffect DEF y
  <1> QED BY <1>2, <1>3, <1>5, <1>6

\* A request on its way to or at a runtime names one.
LEMMA RuntimeOf ==
  ASSUME IInv, NEW r \in Requests, req[r].pc \in {"discover", "publish", "invoke", "send", "closeold"}
  PROVE  req[r].runtime \in 1..Len(runtimes) /\ req[r].runtime \in Nat
  <1>1. req[r].runtime \in 1..Len(runtimes)
    BY DEF IInv, LockInv, Locks
  <1>2. Len(runtimes) \in Nat
    BY CurrentIsNat DEF IInv
  <1> QED BY <1>1, <1>2

\* connectAndDiscover up to the answer of the server keeps the invariant.
LEMMA DiscoverInv ==
  ASSUME IInv, HubAssumption, NEW r \in Requests, Discover(r)
  PROVE  IInv'
  <1>1. /\ req[r].pc = "discover" /\ Busy(req[r]) /\ ~At(r, "idle") /\ ~At(r, "closeold")
        /\ UNCHANGED <<slotVars, approvalVars, current, tools, closed, ledger>>
        /\ runtimes[req[r].runtime].holder = Nobody
    BY DEF Discover, At, Busy, guardVars, slotVars, Free
  <1>2. req[r] \in Request /\ Typed /\ Flow(req[r])
    BY <1>1, RequestOf DEF IInv, FlowInv
  <1>3. PICK n \in 1..Len(runtimes) : n = req[r].runtime /\ n \in Nat
    BY <1>1, RuntimeOf
  <1>4. ASSUME NEW ok, Return(r, ok), strays' = strays
        PROVE  \E x \in Request : /\ Calm(r, x) /\ Locks(r, x, runtimes) /\ Locks(r, x, runtimes')
                                  /\ Sourced(x, current, strays) /\ Sourced(x, current, strays')
    <2>1. PICK x \in Request : Becomes(r, x) /\ (Over(req[r], x) \/ Resumed(req[r], x))
      BY <1>1, <1>2, <1>4, ReturnEffect
    <2>2. Calm(r, x) /\ Locks(r, x, runtimes) /\ Locks(r, x, runtimes') /\ Sourced(x, current, strays)
      BY <1>1, <2>1, CalmReturn DEF IInv
    <2> QED BY <1>4, <2>2
  <1>5. ASSUME NEW ok, Return(r, ok), UNCHANGED <<runtimes, strays>>
        PROVE  IInv'
    BY <1>1, <1>4, <1>5, QuietStep DEF hubVars
  <1>6. ASSUME NEW ok, Return(r, ok), NEW st \in States, strays' = strays,
               runtimes' = [runtimes EXCEPT ![n].state = st]
        PROVE  IInv'
    <2>1. PICK x \in Request : /\ Calm(r, x) /\ Locks(r, x, runtimes) /\ Locks(r, x, runtimes')
                               /\ Sourced(x, current, strays) /\ Sourced(x, current, strays')
      BY <1>4, <1>6
    <2>2. PICK y \in Runtime : Turns(n, y) /\ y.holder = runtimes[n].holder /\ y.client = runtimes[n].client
      BY <1>2, <1>6, StateEffect
    <2>3. strays' \subseteq Nat /\ tools' \in [Tools -> ToolDef]
      BY <1>1, <1>2, <1>6 DEF Typed
    <2> QED BY <1>1, <1>3, <1>6, <2>1, <2>2, <2>3, RuntimeStep
  <1>7. ASSUME Goto(r, "publish"), strays' = strays \cup Stray(r),
               runtimes' = [runtimes EXCEPT ![n].holder = r, ![n].state = "connecting", ![n].client = TRUE]
        PROVE  IInv'
    <2>1. PICK pc \in Places : pc = "publish"
      BY DEF Places
    <2>2. PICK x \in Request : x = Moved(req[r], pc) /\ Becomes(r, x)
      BY <1>1, <1>2, <1>7, <2>1, GotoEffect
    <2>3. /\ x.pc = pc /\ SameCall(req[r], x) /\ SameDuty(req[r], x) /\ SameSource(req[r], x)
          /\ x.runtime = n
      BY <1>2, <1>3, <2>2, MovedFields DEF SameCall, SameDuty, SameSource
    <2>4. Flow(x)
      BY <1>1, <1>2, <2>1, <2>3 DEF Flow, SameCall, SameDuty, SameSource, Attempts
    <2>5. Calm(r, x)
      BY <1>1, <2>1, <2>2, <2>3, <2>4, CalmWork DEF Busy
    <2>6. PICK y \in Runtime : Turns(n, y) /\ y.holder = r /\ y.client = TRUE
      BY <1>2, <1>7, LockedEffect
    <2>7. Locks(r, x, runtimes')
      BY <2>3, <2>6 DEF Locks, Turns
    <2>8. strays \subseteq strays' /\ strays' \subseteq Nat /\ n \in {current} \cup strays'
      BY <1>2, <1>3, <1>7 DEF Stray, Typed
    <2>9. Sourced(x, current, strays')
      BY <1>1, <2>3, <2>8 DEF IInv, SourceInv, Sourced, SameSource
    <2>10. tools' \in [Tools -> ToolDef]
      BY <1>1, <1>2 DEF Typed
    <2> QED BY <1>1, <1>3, <2>5, <2>6, <2>7, <2>8, <2>9, <2>10, RuntimeStep
  <1>8. "off" \in States /\ "error" \in States
    BY DEF States
  <1> QED
    <2>1. CASE Return(r, FALSE) /\ UNCHANGED <<runtimes, strays>>
      BY <1>5, <2>1
    <2>2. CASE Return(r, TRUE) /\ UNCHANGED <<runtimes, strays>>
      BY <1>5, <2>2
    <2>3. CASE Return(r, FALSE) /\ strays' = strays /\ runtimes' = [runtimes EXCEPT ![n].state = "off"]
      BY <1>6, <1>8, <2>3
    <2>4. CASE Return(r, FALSE) /\ strays' = strays /\ runtimes' = [runtimes EXCEPT ![n].state = "error"]
      BY <1>6, <1>8, <2>4
    <2> QED BY <1>3, <1>7, <2>1, <2>2, <2>3, <2>4 DEF Discover

\* What convertTool makes of an offer is a definition.
LEMMA DiscoveredType ==
  ASSUME Typed, HubAssumption, NEW n \in 1..Len(runtimes), n \in Nat, NEW offer \in Offers
  PROVE  /\ Discovered(n, offer) \in [Tools -> ToolDef]
         /\ \A t \in Tools : Discovered(n, offer)[t] # NoTool => Discovered(n, offer)[t].runtime = n
  <1>1. PICK y \in Runtime : y = runtimes[n]
    BY ElementOfSeq DEF Typed
  <1>2. y.config \in ServerConfig
    BY DEF Runtime, HubAssumption
  <1>3. ASSUME NEW t \in Tools, t \in DOMAIN offer
        PROVE  ConvertTool(y.config, t, offer[t]) \in Definition
    <2>1. PICK c \in ToolConfig : c = y.config.tools[t]
      BY <1>2 DEF ServerConfig
    <2>2. offer[t] \in BOOLEAN
      BY <1>3 DEF HubAssumption
    <2> DEFINE destructive == ~c.readOnly /\ offer[t]
               base == IF c.risk # 0 THEN c.risk ELSE IF c.readOnly THEN 1 ELSE 2
               risk == IF destructive /\ base < 3 THEN 3 ELSE base
    <2>3. base \in Nat /\ risk \in Nat /\ c.readOnly \in BOOLEAN /\ c.approval \in BOOLEAN
      BY DEF ToolConfig, Risks
    <2>4. ConvertTool(y.config, t, offer[t])
            = [readOnly |-> c.readOnly, risk |-> risk, approval |-> risk >= 2 \/ c.approval]
      BY <2>1 DEF ConvertTool
    <2> HIDE DEF risk, base, destructive
    <2>5. (risk >= 2 \/ c.approval) \in BOOLEAN
      OBVIOUS
    <2> QED BY <2>3, <2>4, <2>5 DEF Definition
  <1>4. ASSUME NEW t \in Tools
        PROVE  /\ Discovered(n, offer)[t] \in ToolDef
               /\ Discovered(n, offer)[t] # NoTool => Discovered(n, offer)[t].runtime = n
    <2>1. CASE t \in DOMAIN offer /\ runtimes[n].config.tools[t].listed
      <3>1. PICK d \in Definition : d = ConvertTool(y.config, t, offer[t])
        BY <1>3, <2>1
      <3>2. Discovered(n, offer)[t] = [runtime |-> n, def |-> d]
        BY <1>1, <2>1, <3>1 DEF Discovered
      <3>3. n \in Nat \ {0}
        OBVIOUS
      <3> QED BY <3>2, <3>3 DEF ToolDef
    <2>2. CASE ~(t \in DOMAIN offer /\ runtimes[n].config.tools[t].listed)
      BY <2>2 DEF Discovered, ToolDef
    <2> QED BY <2>1, <2>2
  <1>5. Discovered(n, offer) = [t \in Tools |-> Discovered(n, offer)[t]]
    BY DEF Discovered
  <1> QED BY <1>4, <1>5

\* Publishing what was discovered keeps the invariant.
LEMMA PublishInv ==
  ASSUME IInv, HubAssumption, NEW r \in Requests, Publish(r)
  PROVE  IInv'
  <1>1. /\ req[r].pc = "publish" /\ Busy(req[r]) /\ ~At(r, "idle") /\ ~At(r, "closeold")
        /\ UNCHANGED <<slotVars, approvalVars, current, ledger>>
        /\ strays' = strays \cup Stray(r) /\ runtimes' = Unlocked(r, "ready", TRUE)
    BY DEF Publish, At, Busy, guardVars, slotVars
  <1>2. req[r] \in Request /\ Typed /\ Flow(req[r])
    BY <1>1, RequestOf DEF IInv, FlowInv
  <1>3. PICK n \in 1..Len(runtimes) : n = req[r].runtime /\ n \in Nat
    BY <1>1, RuntimeOf
  <1>4. runtimes[n].holder = r /\ runtimes[n].client
    BY <1>1, <1>3 DEF IInv, LockInv, Locks
  <1>5. strays \subseteq strays' /\ strays' \subseteq Nat /\ n \in {current} \cup strays'
    BY <1>1, <1>2, <1>3 DEF Stray, Typed
  <1>6. PICK offer \in Offers : tools' = Discovered(n, offer)
    BY <1>3 DEF Publish
  <1>7. /\ tools' \in [Tools -> ToolDef]
        /\ \A t \in Tools : tools'[t] # NoTool => tools'[t].runtime = n
    BY <1>2, <1>3, <1>6, DiscoveredType
  <1>8. \A t \in Tools : tools'[t] # NoTool => tools'[t].runtime \in {current} \cup strays'
    BY <1>5, <1>7
  <1>9. PICK ok \in BOOLEAN : Return(r, ok)
    BY DEF Publish
  <1>10. PICK x \in Request : Becomes(r, x) /\ (Over(req[r], x) \/ Resumed(req[r], x))
    BY <1>1, <1>2, <1>9, ReturnEffect
  <1>11. Calm(r, x) /\ Locks(r, x, runtimes') /\ Sourced(x, current, strays')
    BY <1>1, <1>5, <1>10, CalmReturn DEF IInv
  <1>12. PICK y \in Runtime : Turns(n, y)
    <2>1. "ready" \in States /\ TRUE \in BOOLEAN
      BY DEF States
    <2> QED BY <1>1, <1>2, <1>3, <2>1, UnlockedEffect
  <1> QED BY <1>1, <1>3, <1>4, <1>5, <1>7, <1>8, <1>11, <1>12, RuntimeStep

\* A call takes the mutex of its runtime, or ends without a client.
LEMMA InvokeUpstreamInv ==
  ASSUME IInv, HubAssumption, NEW r \in Requests, InvokeUpstream(r)
  PROVE  IInv'
  <1>1. /\ req[r].pc = "invoke" /\ Busy(req[r]) /\ ~At(r, "idle") /\ ~At(r, "closeold")
        /\ UNCHANGED <<slotVars, approvalVars, current, tools, closed, ledger, strays>>
        /\ runtimes[req[r].runtime].holder = Nobody
    BY DEF InvokeUpstream, At, Busy, guardVars, slotVars, Free
  <1>2. req[r] \in Request /\ Typed /\ Flow(req[r])
    BY <1>1, RequestOf DEF IInv, FlowInv
  <1>3. PICK n \in 1..Len(runtimes) : n = req[r].runtime /\ n \in Nat
    BY <1>1, RuntimeOf
  <1>4. CASE Finish(r) /\ UNCHANGED runtimes
    BY <1>1, <1>4, QuietEnd DEF Frame, hubVars
  <1>5. CASE Mine(r).client /\ Goto(r, "send") /\ runtimes' = [runtimes EXCEPT ![n].holder = r]
    <2>1. PICK pc \in Places : pc = "send"
      BY DEF Places
    <2>2. PICK x \in Request : x = Moved(req[r], pc) /\ Becomes(r, x)
      BY <1>1, <1>2, <1>5, <2>1, GotoEffect
    <2>3. /\ x.pc = pc /\ SameCall(req[r], x) /\ SameDuty(req[r], x) /\ SameSource(req[r], x)
          /\ x.runtime = n
      BY <1>2, <1>3, <2>2, MovedFields DEF SameCall, SameDuty, SameSource
    <2>4. Attempts(x) >= 1 /\ x.sends = 0
      BY <1>1, <1>2, <2>3 DEF Attempts, HubAssumption, Flow, SameDuty
    <2>5. Flow(x)
      BY <1>1, <1>2, <2>1, <2>3, <2>4 DEF Flow, SameCall, SameDuty, SameSource, Attempts
    <2>6. Calm(r, x)
      BY <1>1, <2>1, <2>2, <2>3, <2>5, CalmWork DEF Busy
    <2>7. PICK y \in Runtime : Turns(n, y) /\ y.holder = r /\ y.client = TRUE
      BY <1>2, <1>3, <1>5, LockedEffect DEF Mine
    <2>8. Locks(r, x, runtimes')
      BY <2>3, <2>7 DEF Locks, Turns
    <2>9. Sourced(x, current, strays')
      BY <1>1, <2>3 DEF IInv, SourceInv, Sourced, SameSource
    <2>10. strays' \subseteq Nat /\ tools' \in [Tools -> ToolDef] /\ runtimes[n].client
      BY <1>1, <1>2, <1>3, <1>5 DEF Typed, Mine
    <2> QED BY <1>1, <1>3, <2>6, <2>7, <2>8, <2>9, <2>10, RuntimeStep
  <1> QED BY <1>3, <1>4, <1>5 DEF InvokeUpstream

\* The first CallTool of an accepted call is entered in the ledger.
LEMMA SendTokens ==
  ASSUME IInv, NEW r \in Requests, At(r, "send"), NEW x, Becomes(r, x), SameUse(r, x),
         \/ x.pc = "leave"
         \/ /\ x.sends = req[r].sends + 1
            /\ x.user = req[r].user /\ x.tool = req[r].tool /\ x.args = req[r].args,
         UNCHANGED <<challenges, tokens>>,
         ledger' = IF req[r].accepted /\ req[r].sends = 0
                   THEN [ledger EXCEPT ![req[r].token].sent = @ + 1] ELSE ledger
  PROVE  TokenInv' /\ UserInv' /\ ledger' \in [Ids -> Entries]
  <1>1. \A s \in Requests, c \in Ids : Uses(s, c)' <=> Uses(s, c)
    BY UsesKept
  <1>2. req[r] \in Request /\ Typed /\ Flow(req[r]) /\ TokenInv /\ UserInv
    BY RequestOf DEF IInv, FlowInv, At
  <1>3. \A c : Binding(c)' = Binding(c)
    BY DEF Binding
  <1>4. /\ ledger' \in [Ids -> Entries]
        /\ \A c \in Ids : /\ ledger'[c].accepted = ledger[c].accepted
                          /\ ledger'[c].reported = ledger[c].reported
                          /\ ledger'[c].audited = ledger[c].audited
        /\ \A c \in Ids : ~Uses(r, c) => ledger'[c] = ledger[c]
        /\ \A c \in Ids : ledger'[c].sent <= ledger[c].accepted
    <2>1. \A c \in Ids : ledger[c].sent <= ledger[c].accepted
      BY <1>2 DEF TokenInv
    <2>2. CASE ~(req[r].accepted /\ req[r].sends = 0)
      BY <1>2, <2>1, <2>2 DEF Typed
    <2>3. CASE req[r].accepted /\ req[r].sends = 0
      <3>1. PICK k \in Ids : k = req[r].token
        BY <1>2, <2>3 DEF Flow, Request
      <3>2. Uses(r, k) /\ ~At(r, "leave")
        BY <2>3, <3>1 DEF Uses, At
      <3>3. ledger[k].accepted = 1 /\ ledger[k].sent = 0
        BY <1>2, <2>3, <3>2 DEF UserInv
      <3>4. PICK e \in Entries : e = ledger[k]
        BY <1>2 DEF Typed
      <3>5. PICK n \in Nat : n = e.sent + 1
        BY DEF Entries
      <3> DEFINE y == [e EXCEPT !.sent = n]
      <3>6. /\ y \in Entries /\ y.accepted = e.accepted /\ y.sent = n
            /\ y.reported = e.reported /\ y.audited = e.audited
        BY DEF Entries
      <3>7. ledger' = [ledger EXCEPT ![k] = y]
        BY <2>3, <3>1, <3>4, <3>5
      <3> HIDE DEF y
      <3>8. ledger' \in [Ids -> Entries] /\ ledger'[k] = y /\ \A c \in Ids : c # k => ledger'[c] = ledger[c]
        BY <1>2, <3>6, <3>7 DEF Typed
      <3>9. y.sent = 1
        BY <3>3, <3>4, <3>5, <3>6
      <3>10. y.sent <= ledger[k].accepted
        BY <3>3, <3>9
      <3> QED BY <2>1, <3>2, <3>4, <3>6, <3>8, <3>10
    <2> QED BY <2>2, <2>3
  <1>5. TokenInv'
    BY <1>1, <1>2, <1>4 DEF TokenInv
  <1>6. UserInv'
    <2> SUFFICES ASSUME NEW s \in Requests, NEW c \in Ids, Uses(s, c)
                 PROVE  /\ challenges[c].state \in {"consumed", "gone"}
                        /\ ledger'[c].accepted = 1 /\ ledger'[c].reported = 0
                        /\ \A q \in Requests : Uses(q, c) => q = s
                        /\ req'[s].pc # "leave" =>
                             Binding(c) = [user |-> req'[s].user, tool |-> req'[s].tool, args |-> req'[s].args]
                        /\ req'[s].pc # "leave" /\ req'[s].sends = 0 => ledger'[c].sent = 0
      BY <1>1, <1>3 DEF UserInv, At
    <2>1. /\ challenges[c].state \in {"consumed", "gone"}
          /\ ledger[c].accepted = 1 /\ ledger[c].reported = 0
          /\ \A q \in Requests : Uses(q, c) => q = s
          /\ req[s].pc # "leave" =>
               Binding(c) = [user |-> req[s].user, tool |-> req[s].tool, args |-> req[s].args]
          /\ req[s].pc # "leave" /\ req[s].sends = 0 => ledger[c].sent = 0
      BY <1>2 DEF UserInv, At
    <2>2. CASE s = r
      <3>1. req'[s] = x /\ req[s].pc = "send" /\ req[r].sends \in Nat
        BY <1>2, <2>2 DEF Becomes, At, Request
      <3>2. x.pc # "leave" => x.sends # 0 /\ x.user = req[r].user /\ x.tool = req[r].tool /\ x.args = req[r].args
        BY <3>1
      <3> QED BY <1>4, <2>1, <2>2, <3>1, <3>2
    <2>3. CASE s # r
      <3>1. req'[s] = req[s]
        BY <2>3 DEF Becomes
      <3>2. ledger'[c] = ledger[c]
        BY <1>4, <2>1, <2>3
      <3> QED BY <2>1, <3>1, <3>2
    <2> QED BY <2>2, <2>3
  <1> QED BY <1>4, <1>5, <1>6

\* One CallTool keeps the invariant.
LEMMA SendInv ==
  ASSUME IInv, HubAssumption, NEW r \in Requests, Send(r)
  PROVE  IInv'
  <1>1. /\ req[r].pc = "send" /\ Busy(req[r]) /\ ~At(r, "idle") /\ ~At(r, "closeold") /\ At(r, "send")
        /\ UNCHANGED <<slotVars, approvalVars, current, tools, strays>>
        /\ ledger' = IF req[r].accepted /\ req[r].sends = 0
                     THEN [ledger EXCEPT ![req[r].token].sent = @ + 1] ELSE ledger
    BY DEF Send, At, Busy, guardVars, slotVars
  <1>2. req[r] \in Request /\ Typed /\ Flow(req[r])
    BY <1>1, RequestOf DEF IInv, FlowInv
  <1>3. PICK n \in 1..Len(runtimes) : n = req[r].runtime /\ n \in Nat
    BY <1>1, RuntimeOf
  <1>4. runtimes[n].holder = r /\ runtimes[n].client
    BY <1>1, <1>3 DEF IInv, LockInv, Locks
  <1>5. CASE Finish(r) /\ runtimes' = Unlocked(r, Mine(r).state, TRUE)
    <2>1. PICK x \in Request : Becomes(r, x) /\ Over(req[r], x)
      BY <1>1, <1>2, <1>5, FinishEffect DEF Over
    <2>2. Calm(r, x) /\ Locks(r, x, runtimes') /\ Sourced(x, current, strays)
      BY <1>1, <2>1, CalmEnd DEF IInv
    <2>3. PICK y \in Runtime : Turns(n, y)
      <3>1. PICK z \in Runtime : z = runtimes[n]
        BY <1>2, ElementOfSeq DEF Typed
      <3>2. Mine(r).state \in States /\ TRUE \in BOOLEAN
        BY <1>3, <3>1 DEF Runtime, Mine
      <3> QED BY <1>2, <1>3, <1>5, <3>2, UnlockedEffect
    <2>4. x.pc = "leave" /\ SameUse(r, x)
      BY <2>1, <2>2 DEF Over, Calm
    <2>5. TokenInv' /\ UserInv' /\ ledger' \in [Ids -> Entries]
      BY <1>1, <2>1, <2>4, SendTokens DEF approvalVars
    <2>6. FlowInv' /\ SlotInv'
      BY <1>1, <2>2, FlowKept, SlotsKept DEF IInv, Calm, slotVars
    <2>7. LockInv'
      BY <1>4, <2>1, <2>2, <2>3, OthersKeepLocks, LocksKept DEF IInv
    <2>8. SourceInv'
      <3>1. \A m \in 1..Len(runtimes) : runtimes'[m].client => runtimes[m].client
        BY <1>4, <2>3 DEF Turns
      <3>2. ~(At(r, "closeold") /\ TRUE)
        BY <1>1
      <3>3. Len(runtimes') = Len(runtimes) /\ SourceInv
        BY <2>3 DEF Turns, IInv
      <3> QED BY <1>1, <2>1, <2>2, <3>1, <3>2, <3>3, SourcesKept
    <2>9. Typed'
      BY <1>1, <1>2, <2>1, <2>3, <2>5 DEF Typed, Becomes, Turns, approvalVars
    <2> QED BY <2>5, <2>6, <2>7, <2>8, <2>9 DEF IInv
  <1>6. CASE /\ req[r].sends + 1 < MaxAttempts(r) /\ req' = [req EXCEPT ![r].sends = @ + 1]
             /\ UNCHANGED runtimes
    <2>1. PICK x \in Request :
            /\ Becomes(r, x) /\ x.pc = req[r].pc /\ x.accepted = req[r].accepted
            /\ SameCall(req[r], x) /\ SameSource(req[r], x) /\ x.sends = req[r].sends + 1
            /\ x.runtime = req[r].runtime
      BY <1>1, <1>2, <1>6, RetryEffect
    <2>2. x.sends < Attempts(x)
      BY <1>6, <2>1 DEF Attempts, MaxAttempts, SameSource
    <2>3. Flow(x)
      BY <1>1, <1>2, <2>1, <2>2 DEF Flow, SameCall, SameSource
    <2>4. SameUse(r, x) /\ SameGuard(req[r], x)
      BY <1>1, <2>1 DEF SameUse, SameGuard, Within, SameCall, Uses, At
    <2>5. TokenInv' /\ UserInv' /\ ledger' \in [Ids -> Entries]
      BY <1>1, <2>1, <2>4, SendTokens DEF approvalVars, SameCall
    <2>6. FlowInv' /\ SlotInv'
      BY <1>1, <2>1, <2>3, <2>4, FlowKept, SlotsKept DEF IInv, slotVars
    <2>7. LockInv'
      <3>1. Locks(r, x, runtimes)
        BY <2>1 DEF IInv, LockInv, Locks
      <3> QED BY <1>6, <2>1, <3>1, LocksKept DEF IInv, LockInv
    <2>8. SourceInv'
      <3>1. Sourced(x, current, strays)
        BY <2>1 DEF IInv, SourceInv, Sourced, SameSource
      <3> QED BY <1>1, <1>6, <2>1, <3>1, SourcesKept DEF IInv
    <2>9. Typed'
      BY <1>1, <1>2, <1>6, <2>1, <2>5 DEF Typed, Becomes, approvalVars
    <2> QED BY <2>5, <2>6, <2>7, <2>8, <2>9 DEF IInv
  <1> QED BY <1>5, <1>6 DEF Send
-----------------------------------------------------------------------------
(* Reload and Close.                                                       *)

\* A request that goes on to close the runtime it replaced.
LEMMA CloserOf ==
  ASSUME IInv, NEW r \in Requests, req[r].pc \in {"load", "close"},
         req' = [req EXCEPT ![r].pc = "closeold", ![r].runtime = current]
  PROVE  \E x \in Request : /\ Calm(r, x) /\ Becomes(r, x) /\ x.pc = "closeold" /\ x.runtime = current
                            /\ SameSource(req[r], x)
  <1>1. Busy(req[r]) /\ ~At(r, "idle") /\ Typed /\ Flow(req[r])
    BY DEF Busy, At, IInv, FlowInv
  <1>2. PICK pc \in Places : pc = "closeold"
    BY DEF Places
  <1>3. Directed(r, pc)
    BY <1>2 DEF Directed
  <1>4. PICK x \in Request :
          /\ Becomes(r, x) /\ x.pc = pc /\ x.runtime = current
          /\ SameCall(req[r], x) /\ SameDuty(req[r], x) /\ SameSource(req[r], x)
    BY <1>1, <1>3, DirectEffect
  <1>5. Flow(x)
    BY <1>1, <1>2, <1>4 DEF Flow, SameCall, SameDuty, SameSource, Attempts
  <1>6. Calm(r, x)
    BY <1>1, <1>2, <1>4, <1>5, CalmWork DEF Busy
  <1> QED BY <1>2, <1>4, <1>6

\* A changed configuration keeps the invariant.
LEMMA ApplyConfigInv ==
  ASSUME IInv, HubAssumption, NEW r \in Requests, ApplyConfig(r)
  PROVE  IInv'
  <1>1. /\ req[r].pc = "load" /\ UNCHANGED <<slotVars, approvalVars, ledger, strays>>
        /\ tools' = [t \in Tools |-> NoTool] /\ current' = Len(runtimes')
        /\ req' = [req EXCEPT ![r].pc = "closeold", ![r].runtime = current]
    BY DEF ApplyConfig, At, guardVars, slotVars
  <1>2. Typed /\ current \in Nat /\ Len(runtimes) \in Nat /\ current \in 1..Len(runtimes)
    BY CurrentIsNat DEF IInv
  <1>3. PICK c \in Configs : runtimes' = Append(runtimes, NewRuntime(c))
    BY DEF ApplyConfig
  <1>4. PICK y \in Runtime : y = NewRuntime(c) /\ y.client = FALSE
    <2>1. NewRuntime(c) \in Runtime /\ NewRuntime(c).client = FALSE
      BY DEF NewRuntime, Runtime, States
    <2> QED BY <2>1
  <1>5. /\ runtimes' \in Seq(Runtime) /\ Len(runtimes') = Len(runtimes) + 1
        /\ runtimes'[Len(runtimes) + 1] = y
        /\ \A m \in 1..Len(runtimes) : runtimes'[m] = runtimes[m]
    BY <1>2, <1>3, <1>4, AppendProperties DEF Typed
  <1>6. PICK x \in Request : /\ Calm(r, x) /\ Becomes(r, x) /\ x.pc = "closeold" /\ x.runtime = current
                             /\ SameSource(req[r], x)
    BY <1>1, CloserOf
  <1>7. FlowInv' /\ TokenInv' /\ UserInv' /\ SlotInv'
    BY <1>1, <1>6, CalmStep DEF slotVars, approvalVars
  <1>8. Typed'
    <2>1. tools' \in [Tools -> ToolDef]
      BY <1>1 DEF ToolDef
    <2>2. current' \in 1..Len(runtimes')
      BY <1>1, <1>2, <1>5
    <2> QED BY <1>1, <1>2, <1>5, <1>6, <2>1, <2>2 DEF Typed, Becomes, approvalVars
  <1>9. LockInv'
    <2>1. 1..Len(runtimes) \subseteq 1..Len(runtimes')
      BY <1>2, <1>5
    <2>2. \A s \in Requests \ {r} : Locks(s, req[s], runtimes')
      BY <1>5, <2>1 DEF IInv, LockInv, Locks
    <2>3. Locks(r, x, runtimes')
      BY <1>2, <1>6, <2>1 DEF Locks
    <2> QED BY <1>6, <2>2, <2>3, LocksKept
  <1>10. SourceInv'
    <2>1. \A t \in Tools : tools'[t] = NoTool
      BY <1>1
    <2>2. ASSUME NEW q, Sourced(q, current, strays)
          PROVE  Sourced(q, current', strays)
      <3>1. 1..current \subseteq 1..current'
        BY <1>1, <1>2, <1>5
      <3>2. \A i \in 1..current : i..current \subseteq i..current'
        BY <1>1, <1>2, <1>5
      <3> QED BY <2>2, <3>1, <3>2 DEF Sourced
    <2>3. ASSUME NEW s \in Requests
          PROVE  Sourced(req'[s], current', strays)
      <3>1. Sourced(req[s], current, strays)
        BY DEF IInv, SourceInv
      <3>2. Sourced(req'[s], current, strays)
        <4>1. CASE s = r
          BY <1>1, <1>6, <3>1, <4>1 DEF Becomes, Sourced, SameSource
        <4>2. CASE s # r
          BY <1>6, <3>1, <4>2 DEF Becomes
        <4> QED BY <4>1, <4>2
      <3> QED BY <2>2, <3>2
    <2>4. ASSUME NEW m \in 1..Len(runtimes'), runtimes'[m].client
          PROVE  \/ m \in {current'} \cup strays
                 \/ \E s \in Requests : req'[s].pc = "closeold" /\ req'[s].runtime = m
      <3>1. CASE m = Len(runtimes) + 1
        BY <1>1, <1>5, <3>1
      <3>2. CASE m # Len(runtimes) + 1
        <4>1. m \in 1..Len(runtimes)
          <5>1. Len(runtimes') = Len(runtimes) + 1 /\ Len(runtimes) \in Nat
            BY <1>2, <1>5
          <5> QED BY <3>2, <5>1
        <4>2. runtimes[m].client
          BY <1>5, <2>4, <4>1
        <4>3. CASE m = current
          BY <1>6, <4>3 DEF Becomes
        <4>4. CASE m \in strays
          BY <4>4
        <4>5. ASSUME NEW s \in Requests, req[s].pc = "closeold", req[s].runtime = m
              PROVE  req'[s].pc = "closeold" /\ req'[s].runtime = m
          BY <1>1, <1>6, <4>5 DEF Becomes
        <4> QED BY <4>1, <4>2, <4>3, <4>4, <4>5 DEF IInv, SourceInv, At
      <3> QED BY <3>1, <3>2
    <2> QED BY <1>1, <2>1, <2>3, <2>4 DEF SourceInv, At, Sourced
  <1> QED BY <1>7, <1>8, <1>9, <1>10 DEF IInv

\* Closing the registry keeps the invariant.
LEMMA CloseInv ==
  ASSUME IInv, HubAssumption, NEW r \in Requests, Close(r)
  PROVE  IInv'
  <1>1. /\ req[r].pc = "close" /\ Busy(req[r]) /\ ~At(r, "idle") /\ ~At(r, "closeold")
        /\ UNCHANGED <<slotVars, approvalVars, runtimes, current, ledger, strays>>
        /\ tools' = tools \/ tools' = [t \in Tools |-> NoTool]
    BY DEF Close, At, Busy, guardVars, slotVars
  <1>2. Typed /\ current \in Nat /\ Len(runtimes) \in Nat /\ current \in 1..Len(runtimes)
    BY CurrentIsNat DEF IInv
  <1>3. PICK x \in Request : Calm(r, x) /\ Locks(r, x, runtimes) /\ Sourced(x, current, strays)
    <2>1. CASE Finish(r)
      <3>1. PICK x \in Request : Becomes(r, x) /\ Over(req[r], x)
        BY <1>1, <1>2, <2>1, FinishEffect DEF Over
      <3> QED BY <1>1, <3>1, CalmEnd DEF IInv
    <2>2. CASE req' = [req EXCEPT ![r].pc = "closeold", ![r].runtime = current]
      <3>1. PICK x \in Request : /\ Calm(r, x) /\ Becomes(r, x) /\ x.pc = "closeold" /\ x.runtime = current
                                 /\ SameSource(req[r], x)
        BY <1>1, <2>2, CloserOf
      <3>2. Locks(r, x, runtimes)
        BY <1>2, <3>1 DEF Locks
      <3>3. Sourced(x, current, strays)
        BY <1>1, <3>1 DEF IInv, SourceInv, Sourced, SameSource
      <3> QED BY <3>1, <3>2, <3>3
    <2> QED BY <2>1, <2>2 DEF Close
  <1>4. Becomes(r, x)
    BY <1>3 DEF Calm
  <1>5. FlowInv' /\ TokenInv' /\ UserInv' /\ SlotInv'
    BY <1>1, <1>3, CalmStep DEF slotVars, approvalVars
  <1>6. Typed'
    <2>1. tools' \in [Tools -> ToolDef]
      BY <1>1, <1>2 DEF Typed, ToolDef
    <2> QED BY <1>1, <1>2, <1>4, <2>1 DEF Typed, Becomes, approvalVars
  <1>7. LockInv'
    BY <1>1, <1>3, <1>4, LocksKept DEF IInv, LockInv
  <1>8. SourceInv'
    <2>1. tools' = tools \/ \A t \in Tools : tools'[t] # NoTool => tools'[t].runtime \in {current} \cup strays'
      BY <1>1
    <2> QED BY <1>1, <1>3, <1>4, <2>1, SourcesKept DEF IInv
  <1> QED BY <1>5, <1>6, <1>7, <1>8 DEF IInv

\* Closing a runtime keeps the invariant.
LEMMA CloseRuntimeInv ==
  ASSUME IInv, HubAssumption, NEW r \in Requests, CloseRuntime(r)
  PROVE  IInv'
  <1>1. /\ req[r].pc = "closeold" /\ Busy(req[r]) /\ ~At(r, "idle")
        /\ UNCHANGED <<slotVars, approvalVars, current, tools, closed, ledger, strays>>
        /\ runtimes[req[r].runtime].holder = Nobody
        /\ runtimes' = Unlocked(r, "closed", FALSE)
    BY DEF CloseRuntime, At, Busy, guardVars, slotVars, Free
  <1>2. req[r] \in Request /\ Typed /\ Flow(req[r])
    BY <1>1, RequestOf DEF IInv, FlowInv
  <1>3. PICK n \in 1..Len(runtimes) : n = req[r].runtime /\ n \in Nat
    BY <1>1, RuntimeOf
  <1>4. PICK y \in Runtime : Turns(n, y) /\ y.client = FALSE
    <2>1. "closed" \in States /\ FALSE \in BOOLEAN
      BY DEF States
    <2> QED BY <1>1, <1>2, <1>3, <2>1, UnlockedEffect
  <1>5. PICK x \in Request : Calm(r, x) /\ Locks(r, x, runtimes') /\ Sourced(x, current, strays)
    <2>1. CASE Finish(r)
      <3>1. PICK x \in Request : Becomes(r, x) /\ Over(req[r], x)
        BY <1>1, <1>2, <2>1, FinishEffect DEF Over
      <3> QED BY <1>1, <3>1, CalmEnd DEF IInv
    <2>2. CASE Goto(r, "initialize")
      <3>1. PICK pc \in Places : pc = "initialize"
        BY DEF Places
      <3>2. PICK x \in Request : x = Moved(req[r], pc) /\ Becomes(r, x)
        BY <1>1, <1>2, <2>2, <3>1, GotoEffect
      <3>3. /\ x.pc = pc /\ SameCall(req[r], x) /\ SameDuty(req[r], x) /\ SameSource(req[r], x)
        BY <1>2, <3>2, MovedFields DEF SameCall, SameDuty, SameSource
      <3>4. Flow(x)
        BY <1>1, <1>2, <3>1, <3>3 DEF Flow, SameCall, SameDuty, SameSource, Attempts
      <3>5. Calm(r, x)
        BY <1>1, <3>1, <3>2, <3>3, <3>4, CalmWork DEF Busy
      <3>6. Locks(r, x, runtimes')
        BY <3>1, <3>3 DEF Locks
      <3>7. Sourced(x, current, strays)
        BY <1>1, <3>3 DEF IInv, SourceInv, Sourced, SameSource
      <3> QED BY <3>5, <3>6, <3>7
    <2> QED BY <2>1, <2>2 DEF CloseRuntime
  <1>6. strays' \subseteq Nat /\ tools' \in [Tools -> ToolDef] /\ strays' = strays
    BY <1>1, <1>2 DEF Typed
  <1> QED BY <1>1, <1>3, <1>4, <1>5, <1>6, RuntimeStep
-----------------------------------------------------------------------------
(* The invariant of the specification, and what follows from it.           *)

\* Initially no request runs, nothing is approved and nothing is discovered.
LEMMA InitInv ==
  ASSUME Init, HubAssumption, GuardAssumption
  PROVE  IInv
  <1>1. \A r \in Requests : req[r] = Idle /\ req[r].pc = "idle"
    BY DEF Init, Idle
  <1>2. PICK y \in Runtime : runtimes = <<y>> /\ y.client = FALSE
    <2>1. PICK c \in Configs : runtimes = <<NewRuntime(c)>>
      BY DEF Init
    <2>2. NewRuntime(c) \in Runtime /\ NewRuntime(c).client = FALSE
      BY DEF NewRuntime, Runtime, States
    <2> QED BY <2>1, <2>2
  <1>3. runtimes \in Seq(Runtime) /\ Len(runtimes) = 1 /\ runtimes[1] = y
    BY <1>2
  <1>4. \A c \in Ids : challenges[c].state = "none" /\ ledger[c] \in Entries
                       /\ ledger[c].accepted = 0 /\ ledger[c].sent = 0
                       /\ ledger[c].reported = 0 /\ ledger[c].audited = 0
    BY DEF Init, ApprovalInit, Entries
  <1>5. Typed
    <2>1. req \in [Requests -> {Idle} \cup Request]
      BY DEF Init
    <2>2. challenges \in [Ids -> Challenge] /\ tokens \subseteq Ids
      BY DEF Init, ApprovalInit, Challenge
    <2>3. ledger \in [Ids -> Entries]
      BY DEF Init, Entries
    <2>4. tools \in [Tools -> ToolDef] /\ strays \subseteq Nat
      BY DEF Init, ToolDef
    <2>5. current \in 1..Len(runtimes)
      BY <1>3 DEF Init
    <2> QED BY <1>3, <2>1, <2>2, <2>3, <2>4, <2>5 DEF Typed
  <1>6. FlowInv
    BY <1>1 DEF FlowInv, At
  <1>7. \A r \in Requests, c \in Ids : ~Uses(r, c)
    BY <1>1 DEF Uses, At
  <1>8. TokenInv
    BY <1>4, <1>7 DEF TokenInv, Init, ApprovalInit
  <1>9. UserInv
    BY <1>7 DEF UserInv
  <1>10. LockInv
    BY <1>1 DEF LockInv, Locks
  <1>11. SourceInv
    <2>1. \A t \in Tools : tools[t] = NoTool
      BY DEF Init
    <2>2. \A n \in 1..Len(runtimes) : ~runtimes[n].client
      BY <1>2, <1>3
    <2> QED BY <1>1, <2>1, <2>2 DEF SourceInv, Sourced
  <1>12. SlotInv
    <2>1. Inside = {}
      BY <1>1, InsideMeans DEF Within
    <2>2. IsFiniteSet(Inside) /\ Cardinality(Inside) = 0
      BY <2>1, FS_EmptySet
    <2>3. /\ \A u : {r \in Inside : req[r].user = u} = {}
          /\ \A a : {r \in Inside : Class(Op(r)) = a} = {}
      BY <2>1
    <2>4. Cardinality({}) = 0
      BY FS_EmptySet
    <2>5. /\ inFlight = 0 /\ byUser = [u \in Users |-> 0] /\ byAction = [a \in Actions |-> 0]
      BY DEF Init, GuardInit
    <2>6. /\ 0 <= GlobalInFlight /\ 0 <= UserInFlight /\ 0 <= ImageInFlight /\ ImageAction \in Actions
      BY DEF GuardAssumption
    <2>7. byUser \in [Users -> Nat] /\ byAction \in [Actions -> Nat]
      BY <2>5
    <2>8. SlotsAreCounted
      BY <2>2, <2>3, <2>4, <2>5, <2>6 DEF SlotsAreCounted
    <2> QED BY <2>2, <2>7, <2>8 DEF SlotInv
  <1> QED BY <1>5, <1>6, <1>8, <1>9, <1>10, <1>11, <1>12 DEF IInv

\* Every step keeps the invariant.
LEMMA NextInv ==
  ASSUME IInv, HubAssumption, GuardAssumption, [Next]_vars
  PROVE  IInv'
  <1>1. CASE UNCHANGED vars
    <2>1. UNCHANGED <<hubVars, req, ledger, strays, slotVars, approvalVars>>
      BY <1>1 DEF vars, guardVars, slotVars
    <2>2. Typed'
      BY <2>1 DEF IInv, Typed, hubVars, approvalVars
    <2>3. FlowInv' /\ LockInv' /\ SourceInv'
      BY <2>1 DEF IInv, FlowInv, LockInv, SourceInv, At, Locks, Sourced, Flow, Attempts, hubVars
    <2>4. TokenInv' /\ UserInv'
      BY <2>1 DEF IInv, TokenInv, UserInv, Uses, At, Binding, approvalVars
    <2>5. SlotInv'
      <3>1. req' = req /\ inFlight' = inFlight /\ byUser' = byUser /\ byAction' = byAction
        BY <2>1 DEF slotVars
      <3>2. Inside' = Inside
        BY <3>1 DEF Inside, At, Guarded, Op
      <3> QED BY <3>1, <3>2 DEF IInv, SlotInv, SlotsAreCounted, Op, Class
    <2> QED BY <2>2, <2>3, <2>4, <2>5 DEF IInv
  <1>2. CASE TimePasses /\ UNCHANGED <<hubVars, req, ledger, strays>>
    BY <1>2, TimePassesInv
  <1>3. ASSUME NEW r \in Requests, Step(r)
        PROVE  IInv'
    BY <1>3, StartInv, PassQuotaInv, TakeSlotInv, OtherHandlerInv, EnsureToolInv, CheckAutomaticInv,
       CreateApprovalInv, ApproveChallengeInv, CheckApprovalInv, FetchRuntimeInv, InitializeInv,
       DiscoverInv, PublishInv, InvokeUpstreamInv, SendInv, ApplyConfigInv, ReloadSameInv, CloseInv,
       CloseRuntimeInv, LeaveInv DEF Step
  <1> QED BY <1>1, <1>2, <1>3 DEF Next, Rest

\* The invariant holds in every state of the hub.
THEOREM HubInvariant == Spec => []IInv
  <1>1. Init => IInv
    BY InitInv, HubAssumption, GuardAssumption
  <1>2. IInv /\ [Next]_vars => IInv'
    BY NextInv, HubAssumption, GuardAssumption
  <1> QED BY <1>1, <1>2, PTL DEF Spec

\* A token is good for one call, which is handed to the audit sink exactly once
\* and leaves one record at most, however many goroutines present the token
\* (ApprovalManager.Consume, the deferred report of Invoke).
THEOREM TokensStaySpent == Spec => []TokensAreSpentOnce
  <1>1. IInv => TokensAreSpentOnce
    <2> SUFFICES ASSUME IInv, NEW c \in Ids
                 PROVE  /\ ledger[c].accepted <= 1
                        /\ ledger[c].sent <= ledger[c].accepted
                        /\ ledger[c].reported = IF \E r \in Requests : Uses(r, c)
                                                THEN 0 ELSE ledger[c].accepted
                        /\ ledger[c].audited <= ledger[c].reported
      BY DEF TokensAreSpentOnce, InUse, Uses
    <2>1. CASE \E r \in Requests : Uses(r, c)
      BY <2>1 DEF IInv, TokenInv, UserInv
    <2>2. CASE ~(\E r \in Requests : Uses(r, c))
      BY <2>2 DEF IInv, TokenInv
    <2> QED BY <2>1, <2>2
  <1> QED BY <1>1, HubInvariant, PTL

\* Only approved calls of tools that need an approval are sent, to the tool and
\* with the arguments the approval was given for (Registry.Invoke).
THEOREM CallsStayApproved == Spec => []ApprovedCallsOnly
  <1>1. IInv => ApprovedCallsOnly
    <2> SUFFICES ASSUME IInv, NEW r \in Requests, At(r, "send")
                 PROVE  /\ req[r].def.def.approval =>
                             /\ req[r].accepted
                             /\ Binding(req[r].token) =
                                  [user |-> req[r].user, tool |-> req[r].tool, args |-> req[r].args]
                        /\ req[r].sends < Attempts(req[r])
      BY DEF ApprovedCallsOnly, Sending, Attempts
    <2>1. ~At(r, "idle") /\ ~At(r, "leave")
      BY DEF At
    <2>2. Flow(req[r]) /\ req[r] \in Request
      BY <2>1, RequestOf DEF IInv, FlowInv
    <2>3. req[r].sends < Attempts(req[r]) /\ (req[r].def.def.approval => req[r].accepted)
      BY <2>2 DEF Flow, At
    <2>4. ASSUME req[r].accepted
          PROVE  Binding(req[r].token) = [user |-> req[r].user, tool |-> req[r].tool, args |-> req[r].args]
      <3>1. req[r].token \in Ids
        BY <2>2, <2>4 DEF Flow, Request
      <3>2. Uses(r, req[r].token)
        BY <2>1, <2>4 DEF Uses
      <3> QED BY <2>1, <3>1, <3>2 DEF IInv, UserInv
    <2> QED BY <2>3, <2>4
  <1> QED BY <1>1, HubInvariant, PTL

\* A reload takes effect: definitions, calls under way and clients belong to the
\* configuration in force, but for discoveries that were overtaken
\* (Registry.ApplyConfig).
THEOREM ReloadsTakeEffect == Spec => []ReloadTakesEffect
  <1>1. IInv => ReloadTakesEffect
    <2> SUFFICES ASSUME IInv
                 PROVE  ReloadTakesEffect
      OBVIOUS
    <2>1. ASSUME NEW r \in Requests, At(r, "send")
          PROVE  req[r].def.runtime \in (req[r].since)..current \cup strays
      <3>1. ~At(r, "idle") /\ req[r].pc = "send"
        BY <2>1 DEF At
      <3>2. Flow(req[r])
        BY <3>1 DEF IInv, FlowInv
      <3>3. req[r].def # NoTool /\ req[r].invoked
        BY <3>1, <3>2 DEF Flow
      <3> QED BY <3>1, <3>3 DEF IInv, SourceInv, Sourced
    <2> QED BY <2>1 DEF ReloadTakesEffect, Sending, IInv, SourceInv
  <1> QED BY <1>1, HubInvariant, PTL

\* The guard's counters count the requests inside and stay within the caps
\* (Guard.acquire and the function it returns).
THEOREM SlotsStayCounted == Spec => []SlotsAreCounted
  <1>1. IInv => SlotsAreCounted
    BY DEF IInv, SlotInv
  <1> QED BY <1>1, HubInvariant, PTL
=============================================================================
