--------------------------- MODULE McpProperties ----------------------------
(***************************************************************************)
(* What the hub and the guard in front of it promise, whatever requests,   *)
(* discoveries, reloads and the shutdown do to each other.                 *)
(***************************************************************************)
EXTENDS McpHub, FiniteSets

\* The registry, the approvals, the guard and the requests keep their types.
TypeOK ==
  /\ window \in [Keys -> Nat]
  /\ inFlight \in Nat /\ byUser \in [Users -> Nat] /\ byAction \in [Actions -> Nat]
  /\ tokens \subseteq Ids
  /\ current \in 1..Len(runtimes)
  /\ \A n \in 1..Len(runtimes) :
       /\ runtimes[n].config \in Configs
       /\ runtimes[n].holder \in Requests \cup {Nobody}
  /\ closed \in BOOLEAN

Sending(r) == At(r, "send")

\* Invoke sends a call that needs an approval only with a token that was issued
\* to the same user for this tool and these arguments, and a tool that is not
\* read-only is sent at most once per call.
ApprovedCallsOnly ==
  \A r \in Requests : Sending(r) =>
    LET q == req[r] IN
      /\ q.def.def.approval => /\ q.accepted
                               /\ Binding(q.token) = [user |-> q.user, tool |-> q.tool, args |-> q.args]
      /\ q.sends < IF q.def.def.readOnly THEN 1 + MaxReadOnlyRetries ELSE 1

\* A token is good for one call, and each use of it is reported to the audit
\* sink once it is over, exactly once, also when the call is refused after the
\* token was used up.  The sink may lose the report but never has two of it.
InUse(c) == \E r \in Requests : ~At(r, "idle") /\ req[r].accepted /\ req[r].token = c
TokensAreSpentOnce ==
  \A c \in Ids :
    /\ ledger[c].accepted <= 1
    /\ ledger[c].sent <= ledger[c].accepted
    /\ ledger[c].reported = IF InUse(c) THEN 0 ELSE ledger[c].accepted
    /\ ledger[c].audited <= ledger[c].reported

\* ApplyConfig makes the new allowlist and policy active: a definition in the
\* registry comes from the configuration in force, and a call is sent under a
\* policy that was in force after it began; a replaced runtime has no client
\* unless its reload has still to close it.  The one exception is a discovery
\* that worked on a runtime after its replacement (strays).
ReloadTakesEffect ==
  /\ \A t \in Tools : tools[t] # NoTool => tools[t].runtime \in {current} \cup strays
  /\ \A r \in Requests :
       Sending(r) => req[r].def.runtime \in (req[r].since)..current \cup strays
  /\ \A n \in 1..Len(runtimes) : runtimes[n].client =>
       \/ n \in {current} \cup strays
       \/ \E r \in Requests : At(r, "closeold") /\ req[r].runtime = n

\* The three in-flight counters of the guard count the requests inside, whatever
\* way they leave, and stay within the caps.
Inside == {r \in Requests : ~At(r, "idle") /\ Guarded(r) /\ req[r].pc \notin {"reserve", "acquire"}}
SlotsAreCounted ==
  /\ inFlight = Cardinality(Inside) /\ inFlight <= GlobalInFlight
  /\ \A u \in Users : /\ byUser[u] = Cardinality({r \in Inside : req[r].user = u})
                      /\ byUser[u] <= UserInFlight
  /\ \A a \in Actions : byAction[a] = Cardinality({r \in Inside : Class(Op(r)) = a})
  /\ byAction[ImageAction] <= ImageInFlight
=============================================================================
