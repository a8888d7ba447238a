# Verification of haruka-ai

haruka-ai is a Go server for chat, knowledge-base search, durable Agents, MCP
tools and voice. This directory holds TLA+ models of the parts of it that keep
state across processes, TLC configurations that check them on small instances,
and TLAPS proofs for every instance. Paths below are relative to `src/`.

## 1. Inventory

| Part | State | Operations | What is hard | What makes it correct |
|---|---|---|---|---|
| Agent store (`dao/agent`, `model/agent.go`) | `agent_tasks` and `agent_steps` rows, lease, `run_version`, checkpoint | claim, renew, fenced writes, plan, decision, resume, cancel, stale recovery | many processes, expiring leases, late writes | one holder, ended is final, nothing lost |
| Agent worker and graph (`service/agent`) | the run of a task: node, rows it read, token | poll, plan, dispatch, approval gate, tool, finalize, `markRunFailed`, heartbeat | crash between an MCP call and its record, failed statements, policy changes | no unasked repeat of a side effect, calls match approvals, tasks come to rest |
| Knowledge base (`service/knowledgebase`, `dao/knowledgebase`, `common/rag`) | base, document, task rows; file; chunks in Redis | upload, index, retry, delete, recover, delete base | four stores without a common transaction, overlapping attempts | ready means searchable, deletion is final and completes |
| Chat session (`service/session`, `common/aihelper`) | gate registry, resident helpers | lock, load, say, answer, evict | reference-counted gates, failing requests, rehydration | one request at a time, complete context |
| Message queue (`common/rabbitmq`, `dao/message`) | queue, dead letters, rows | publish, fall back, consume, retry | lost confirmations and acknowledgements, redelivery | kept, stored once, eventually stored |
| MCP hub (`common/mcphub`, `service/mcphub`) | server entries, runtimes with their client, tool definitions, challenges and tokens, audit records | discover, list_changed, reload, create and approve a challenge, invoke with retries, close | one-shot tokens, a reload beside a call, a discovery on a replaced runtime | a call is sent only as approved, a token is good for one call, a reload takes effect |
| Cost guard (`middleware/costguard`, `common/redis/rate_limit.go`) | windows in Redis, three in-flight counters | reserve, acquire, release | limits under concurrency, every way out of a request | caps hold, counters return to zero |
| Voice (`service/voiceconversation`, `controller/voice`) | hub of connections, the turn of a connection, its sentence queue | upgrade, register, read, start, commit, interrupt, process, synthesise, drain, wait | interruption racing completion, full queue, dead peer, shutdown | one worker per connection, turns and the drain end |
| Users and registration e-mail (`service/user`, `common/email`) | captchas in Redis, `users` rows with the outbox columns | send captcha, register, log in, upgrade a hash, mail | crash between send and mark, a failed delivery beside a newer captcha | a captcha that was reported works, every user is mailed |
| Migrations and start (`common/mysql`, `migrations`, `main.go`, `cmd/migrate`) | `schema_migrations`, the schema, the lock of MySQL, the phase of a process | lock, apply, record, verify, serve | statements that commit one by one, crash between apply and record, two releases | a server runs only on the schema it needs |
| Session and message lists (`service/session`, `dao/session`, `dao/message`) | `sessions` and `messages` rows | create, touch, insert, page by cursor | rows of one second, rows that move while a client pages | no row is skipped or sent twice |

The rest (controllers, routes, configuration, clients of remote models and
speech services, image recognition, retrieval maths, front end, training)
keeps no shared state; `PROJECT.json` lists it part by part with the reason it
is left out.

How the parts interact: the Agent worker reaches MySQL only through the store
and reaches the MCP hub by calls that may be lost; HTTP handlers call the same
store concurrently with the workers. Chat turns share the helper and the gate of
their session in memory, and hand messages to RabbitMQ, whose consumer writes
them to MySQL, from where a later turn loads them. Index workers of several
processes share the task rows, while the per-document lock of `withDocumentLock`
is local to one process. Every MCP and image request passes the cost guard
before it reaches the hub. A voice connection outlives the HTTP server's
shutdown, so `main.go` drains the hub of connections before it closes the shared
clients. A process serves accounts only after its migrations, and all processes
share the windows of the rate limits through Redis. `hazards` in `PROJECT.json`
lists where this can go wrong, line by line, with the properties that watch it.

## 2. Modules

| Module | Models | Reads as |
|---|---|---|
| `AgentStore` | `dao/agent/agent.go` | one operator per transaction on the rows of one task |
| `AgentRun` | `worker.go`, `graph.go`, `service.go` of `service/agent` | one action per read, statement and external call; `run[w].pc` is the place in the code |
| `AgentProperties` | | the properties of the Agent and the refinement mapping |
| `AgentLifecycle` | | abstract specification: phases, one holder, fresh tokens |
| `AgentProofs` | | types, lease, finality and refinement of `AgentRun` |
| `AgentSafetyProofs` | | over `AgentProofs`: calls, approvals and step rows |
| `KnowledgeIndex`, `KnowledgeProperties` | `dao` and `service/knowledgebase`, index operations of `common/rag` | one document of one base, two processes |
| `MessageQueue` | `common/rabbitmq`, `dao/message` | queue, consumer, rows |
| `ChatSession`, `ChatProperties` | `service/session`, `common/aihelper` | gate, helper and the requests of one session, over `MessageQueue` |
| `RateLimit` | `common/redis/rate_limit.go` | one window per key, reserved by a script |
| `CostGuard` | `middleware/costguard` | over `RateLimit`: window, slots, release |
| `McpApproval` | `common/mcphub/approval.go` | challenges, tokens, expiry, retention |
| `McpHub`, `McpProperties` | `common/mcphub`, `service/mcphub` | over `CostGuard` and `McpApproval`: requests, runtimes, registry, reload |
| `VoiceHub` | `service/voiceconversation/hub.go` | registration, release, drain |
| `VoiceConversation`, `VoiceProperties` | `controller/voice`, shutdown in `main.go` | over `VoiceHub`: handler, watcher, turn worker, synthesis of each connection |
| `Migrations` | `common/mysql`, `migrations` | versions as lists of statements, the history table |
| `Startup` | `main.go`, `cmd/migrate` | over `Migrations`: a process from its start to serving |
| `Accounts`, `AccountProperties` | `service/user`, `common/email`, `dao/user` | over `Startup` and `RateLimit`: captchas, users, outbox |
| `SessionLists`, `SessionListProperties` | lists of `service/session`, `dao/session`, `dao/message` | rows, cursors, pages |
| `SessionListProofs`, `KnowledgeProofs`, `ChatProofs`, `McpProofs`, `VoiceProofs`, `AccountProofs` | | the theorems about the component of that name |
| `MC...` | | values of constants, scripts of requests and symmetry |

Operators named `Mutant:` in a comment are variants of the definition that
follows them, with a plausible mistake; each makes one property fail, which
shows that the property speaks about the code. `PROJECT.json` pairs them.

### Agent

A step is named by its sequence number: 0 is planning, `1..MaxTools` the tools,
`MaxTools + 1` the final step. A transaction is atomic; between two transactions
of a worker everybody else may act. A fenced write succeeds only under the
`run_version`, owner and live lease of `activeLeaseFencedTaskQuery`; otherwise
the worker takes the error path of the code. Time is a lease that goes from
`live` to `expired`. A fresh UUID for `operation_id` is represented by the
`run_version` of the run that drew it, which is enough to see whether a retry
draws another one. A policy is what `toolPolicyChanged` compares except the risk
level; that a change of the risk level alone also leads to a review is left out.
The checkpoint of Eino is represented by where it resumes:
nowhere, at the dispatcher, or at the gate. `calls`, `retries` and
`approvedUnder` are observers that no guard reads. `ReadClaimed` is separate from
`Claim` because `ClaimTask` reads the row back outside its update.

### Knowledge base

One document with its index task and up to `MaxDeletes` delete tasks, the source
file, and its chunks (none, some, all). An attempt may outlast `staleTaskAge`
before it has marked the document (`AttemptStalls`) or after (`AttemptIsSlow`);
both are budgets of their own because the code treats the two cases differently.
Of all other documents one thing matters: `requeueFailedDeleteTasks` looks at the
20 failed delete tasks that were updated first (`ScanLimit`) and leaves those of
vanished documents as they are, so they stay in front. `leftovers` is the number of
them in front of this document's task; it grows when such a task comes to be
(`LeftoverAppears`) and shrinks when a knowledge base is deleted with its tasks
(`LeftoversErased`), and a task is `Scanned` only while it is less than
`ScanLimit`. Failed tasks of documents that still exist delay others and no more:
each is requeued when its backoff has passed and then goes behind.

### Chat and queue

Each turn has a message of the user and one of the assistant. `Say` adds it to
the window of the helper; `PersistMessage` publishes it and falls back to MySQL.
Before its first publish a message draws its MessageID (`EnsureMessageID`); `issued`
counts the IDs drawn, since a UUID is never drawn twice. The ID is a field of the
request, of every delivery and of the row: `CreateMessage` compares IDs and not
messages, and draws a new one where none is given, so that a copy that lost its ID
would be stored again. The fields by which a reader knows the message (who said it
in which request) are compared by no guard. Deliveries of older releases that carry
no ID, for which `messageIDForPayload` derives one from the payload, are left out.
The broker may lose a confirmation, an acknowledgement or the connection; MySQL
may fail in the consumer and in the fallback. The redelivery of unacknowledged
messages (`Requeued`) is the one definition modelled from how the code uses a
service outside the repository.

### MCP hub and cost guard

A request is one goroutine with a script of operations. Each section under a
mutex is one step; the mutex of a runtime, which is held across remote calls, is
a field `holder`. Runtimes are numbered in the order of creation, so a number is
the pointer that the code keeps. A challenge is its number, a token is the
number of its challenge, and `Binding` gives the user, tool and arguments it was
issued for. Arguments are model values: that two requests have the same
canonical arguments is equality. `ledger` counts for
each token its uses, the calls sent with it, the events handed to the audit sink
and the records the sink has made of them, which may be fewer because `Invoke`
ignores the error of the sink; `strays` are the runtimes on which a discovery worked after their
replacement. No guard reads either of the two. Counters of windows and slots are
those of `CostGuard`; the window of a key starts again when time passes
(`MaxWindowEnds`).

### Voice

Every connection has a handler, a watcher, one worker per turn and one synthesis
goroutine per turn. The number of a turn stands for its pointer. Deadlines of a
turn are a cancellation that may come at any step. Audio is a count of frames
up to `MaxFrames`, the answer a number of sentences, and the queue between worker
and synthesis a count bounded by `QueueSize`. Channels that are closed once
(`empty` of the hub) are numbered; `closed` holds those that are. `Exit` ends the
process and with it all goroutines.

### Accounts, start and migrations

A schema is the set of effects that took place; each migration is a list of
statements that commit one by one, as DDL does in MySQL, and the history records
versions with their checksums. A process starts as `cmd/migrate`, as a server
that verifies, or as one that migrates; each has the migrations of its release.
An older binary may insert messages without an ID while the column allows it
(`unidentified`). Captchas are numbered when issued; `captcha[e]` is the one
Redis has, `stored[e]` the one stored last, until it is used or expires, and
`told` those reported as sent. Expiry, replacement and use are explicit. A crash
or failed call takes one of `MaxFaults` and may come at any step.

### Lists of sessions and messages

Rows are numbered by their identifiers and carry a time, 0 while absent. Times
are arbitrary values: they need not grow with identifiers and may be equal, as
columns of whole seconds are (`DisableDatetimePrecision` in `common/mysql`). A
cursor is the pair of time and identifier that the
code encodes; a page is the first rows after it in the order of the query.
Both lists are read newest first. A message never moves; a session does when a
turn touches it. Per client `seen`, `repeated` and `steady` record what it was sent,
what it was sent twice, and what was in the list at its first page and has not
been touched since.

## 3. Runs

Every run except `kb_lost_indexing` passes.

| Run | Bounds | Shows |
|---|---|---|
| `agent_crash` | 2 workers, 2 tools of 2 policies, 1 crash, 1 resume | lease, completion, finality, refinement of `AgentLifecycle` |
| `agent_db_faults` | 2 workers, 1 tool of 3 policies, 1 crash, 1 failed statement, 1 resume | the same danger with errors: replay, approvals under a changed policy, unknown outcomes, operation IDs |
| `agent_liveness` | 2 workers, 1 tool, 1 crash, 1 failed statement | tasks come to rest, approvals take effect |
| `kb_lifecycle` | 2 processes, 2 deletions, 3 claims, 1 of each failure | ready, tombstone, final and complete deletion |
| `kb_liveness` | 2 processes, 1 deletion, 6 claims, crash, slow attempt, failure, a scan of 2 and up to 2 leftovers | indexing settles, deletion completes |
| `kb_lost_indexing` | violation | see section 6 |
| `chat_durability` | 1 turn of two messages, 3 lost confirmations or acknowledgements, 3 MySQL failures, 1 retry, 2 restarts, eviction | kept, stored once, dead letter earned, the queue catches up |
| `chat_gate` | 3 turns, 1 MySQL failure | mutual exclusion, context, progress |
| `mcp_hub` | 2 goroutines, 2 users, 1 tool, 2 arguments, 2 configurations, 2 runtimes, 1 retry, 1 challenge at a time | calls as approved, tokens spent and reported once, reload, slots |
| `voice` | 2 connections of one user who may have 1; turns of up to 3 sentences, queue of 1, 1 frame | hub against handlers, one worker, spoken before completed, turns and drain end |
| `accounts` | 2 processes of 2 releases, up to 2 legacy rows, 2 faults, 2 requests, limits of 2, 1 and 1 | schema before serving, captchas, mail |
| `session_lists` | 4 sessions of 2 users, 4 messages, 1 client, times 1 and 2, pages of 1 and 2 | no row skipped or sent twice |

Why the bounds are enough for what they show. Two workers are the late one and
its successor; a third would repeat the part of one of them. Two tools
distinguish the step at hand from one that is done. One crash budget covers a
death, a stall past the lease and a skewed clock, at any step. One retry
(`MaxRetries = 1`) distinguishes the first delivery, a retry and the last one. In
`chat_durability` two lost confirmations make one message fall back to MySQL while
the broker has up to two copies of it, and the third fault may take the
acknowledgement of one of them; two restarts stop and bring back the broker. A scan
of two with two leftovers is the smallest that is free, partly taken and full.
Three requests are the fewest with one that holds a gate, one that waits and one
that arrives after the release. Two delete tasks are needed for a deletion
requested again while the first is under way. In `mcp_hub` one goroutine
creates, approves and uses a challenge while the other calls, reloads, notifies,
refreshes, closes or sends an image request: every hazard of the hub is a step
of one between two steps of the other, and the second user is the one whose
token it is not. `MaxChallenges` is a bound of the model, not of the code: one challenge is
enough for a token that is used twice, too late, or by another. In `voice` a
limit of one makes the second connection the one that is refused or comes after
the release; three sentences over a queue of one leave a sentence spoken, one
queued and one to come, and a second turn shows what the first left behind. In
`accounts` the process of the older release migrates before, during or after the
newer one, and two faults are a crash and a failure of what repairs it. In
`session_lists` two times give rows that are equal, older and newer, and three
rows of one list give a page before, at and after a row that moves. Counters
grow only with a budget: `version` with claims, recoveries and resumes, each of
which needs a crash, a fault or a request of the owner.

`CHECK_DEADLOCK FALSE` is used for the Agent, the knowledge base and chat, where
the system really stops: a task ends, a document is gone, all requests are done
and the queue is empty. The other runs check deadlock, with an explicit step for
the state in which all is done where there is one.

The type invariants and `GateIsCounted` are in the modules and not in a
configuration: they held in these instances while the modules were written. Those
of the Agent, the lists, the knowledge base and chat are part of the proved
invariants; the proofs about the hub, voice and accounts type what they need in
their own words (`Typed`, `TurnsTyped`, `RequestsTyped`). The inductive
invariants of section 4 were checked by TLC on the instances of these runs before
they were proved (the one of `AgentSafetyProofs` on 1.6 million states with a
crash and 2.7 million with a failed statement).

Symmetry is declared only in runs without temporal properties that need fairness
(`agent_crash`, `agent_db_faults`, `kb_lifecycle`, `mcp_hub`); no module orders
the elements of those sets.

### Fairness

- Agent: weak fairness of a worker's next step and of its poll, and of the
  passing of time for a lease whose holder is gone. `workerLoop` polls on a
  ticker and processes a claimed task to its end; a crashed worker is idle and
  the restarted process polls again. Nothing is assumed of the owner, and
  crashes and faults are never owed.
- Knowledge base: weak fairness of a worker's step, its poll, a running request
  and the ageing of an abandoned task; strong fairness of taking the document
  lock, because Go's mutex in its starvation mode serves waiters in turn.
- Chat: weak fairness of a request's steps and of the consumer
  (`consumeWithReconnect` connects again whenever its channel is lost); strong
  fairness of taking the token, because a Go channel serves blocked senders in order.
- Voice: weak fairness of the handler, the watcher, the turn worker and the
  synthesis of each connection, and of the shutdown once it has begun. Goroutines
  run, and their remote calls return because each has a context with a deadline.
  Nothing is assumed of clients, of the signal, or of deadlines being hit.
- Accounts: weak fairness of a process's start and of its mail loop, which runs
  on a ticker, and of the end of a backoff; strong fairness of taking the
  migration lock, because `GET_LOCK` serves its waiters. Faults are finite and
  never owed.
- `mcp_hub` and `session_lists` check safety only and assume no fairness.

## 4. Proofs

Every safety invariant and every action property that a passing run checks is
also a theorem: it holds for every value of the constants under the named
assumptions of the modules, where a run shows it for one value. An invariant
such as "a searchable document has its chunks" is not inductive: it does not
say what the processes that are in the middle of their work rely on. So each
proof module defines `IInv`, which adds that, proves `Spec => []IInv` with one
lemma per action (or per group of actions with the same effect), and draws the
properties from it.

**Agent, `AgentProofs`.** For every set of workers, every `MaxTools`, every set
of policies and all budgets, from the assumptions of `AgentStore` and `AgentRun`
(`NoWorker` is no worker, bounds are naturals, policies are policies):

- `TypeCorrect`: `Spec => []TypeOK`. `TypeOK` is inductive once `Run` says that a
  run about to persist its route has one. The proof splits it into store, run
  and observers: for each action one lemma gives its effect on the rows and one
  the typing of the run it leaves. `LeastNatural`, `LowestIn` and `HighestIn`
  show that the row picked by `ORDER BY sequence` exists.
- `LeaseHeldWhileRunning`: `Spec => []LeaseDiscipline`. The inductive invariant
  is `TypeOK /\ LeaseDiscipline`. `NextEffect` reduces every step to one of a few
  effects on the task row (a write of the holder that keeps the task, one that
  gives it up, a checkpoint write, a claim, an expiry, a recovery, a decision, a
  resume, a cancellation), and each of these preserves it.
- `EndedTasksAreFinal`: `Spec => EndedIsFinal`. In an ended task there is no owner
  by `LeaseDiscipline`, so no fenced write is possible, and the effects that
  remain change the checkpoint at most.
- `AgentImplementsLifecycle`: `Spec => ImplementsLifecycle`. Every effect maps to
  an action of `AgentLifecycle` or to a stutter; the lease is what makes the
  phase of a fenced write `held`.

**Agent, `AgentSafetyProofs`.** Same constants, same assumptions. A run that has
lost its lease may be anywhere and have read anything, so nothing can be said of
its program counter, and nothing has to be: its writes are refused. `Fit(r)` says
what a run at each place relies on (the row it read is as it read it, it is the
current one, no other step runs), and `HolderInv` claims it for the holder only.
Two things must hold for every run, since an MCP call is not fenced: what it is
about to call was approved under the policy it read (`ApprovalInv`), and the
calls made together with the calls still due from any run, `Due(i)`, are at
most one plus the retries asked for, and at most those retries while the step may
be started again (`CallInv`). `RowInv` relates the rows to the task row: the
running step is the current one, an unknown outcome has its human, a gated step
ran with its approval. `IInv` is these four with `TypeOK` and `LeaseDiscipline`.

- `CallsAreNotRepeated`, `GatedCallsAreApproved`, `UnknownOutcomesWait`,
  `StepsRunAlone`, `SuccessIsComplete`: the five invariants of the runs that
  hold whatever fails.
- `OperationIdsAreStable`: the action property, from `RowMoves`, which says what a
  step may do to a row.
- `FailuresStayResumable` and `CompletedStepsStay` assume `MaxDbFaults = 0`, as the
  run of these two properties does (section 5). `SideEffectsStayDone` says what is
  left of the second when statements fail: the record of a success is kept
  whenever the tool must not be called again.

**Knowledge base, `KnowledgeProofs`.** For any processes, any number of delete
tasks and all bounds. Added to the properties: a worker is in the code of the
task it claimed (`PlaceFitsTask`), a delete task and the tombstone come together
(`DeleteIsMarked`), while nothing is being deleted an attempt finds the file it
read and the chunks it stored (`WorkIsKept`), and after a delete task has removed
the chunks those that come back belong to an attempt that has yet to find out
that it lost (`WorkIsCleared`). Theorems: `TombstoneKeepsTask`,
`ReadyStaysIndexed`, `DeletionIsComplete`, `DeletionStaysFinal`, and `TypesAreKept`
for the type invariant.

**Chat and queue, `ChatProofs`.** For any number of requests, any retry limit
and any window. `GateIsHeld`: the requests between `Register` and `ReleaseGate`
have the registered gate, its count is their number and the one inside has its
token. `AckIsSafe`: an acknowledgement is sent only for a message that is
elsewhere. `RetriesAreFaults`: a delivery carries no more retries than writes
failed. `KeyInv`: a row, a delivery and a request under way have an ID that was
drawn, two of them have the same ID exactly when they have the same message, and a
message not yet said is nowhere. `StoredOnce` needs it because no guard compares
messages: it follows from the uniqueness of IDs in the rows and from the ID being
the message's own on every path, also after a fallback, a retry and a redelivery.
`WindowIsKept`: the window is full or holds what was saved. Theorems:
`GateExcludes`, `MessagesAreKept`, `MessagesAreStoredOnce`,
`DeadLettersAreEarned`, `ResidentContextHolds`.

**MCP hub and cost guard, `McpProofs`.** For any goroutines, users, tools,
arguments, configurations and caps. `Flow` says what a request has done given
where it is; `TokenInv` and `UserInv` tie it to its challenge and to the ledger (a use that is
over was reported once, one under way not yet);
`LockInv` and `SourceInv` to the runtime it works on and to the definition it
read; `SlotInv` has the three counters as cardinalities. Theorems:
`TokensStaySpent`, `CallsStayApproved`, `ReloadsTakeEffect`, `SlotsStayCounted`.

**Voice, `VoiceProofs`.** For any connections, users, turns and sentences, any
caps and queue size. The invariant has two halves that no step mixes: `HubInv`
(the counters are cardinalities of the handlers inside, a drain stays a drain and
`Wait` reads the channel in force) and `TurnInv` (the running worker has the
active turn, and what the queue and the synthesis have done at each place).
Theorems: `HubStaysInStep`, `WorkersOwnTheirTurn`, `CompletedTurnsAreSpoken`.

**Accounts, start and migrations, `AccountProofs`.** For any processes, releases,
migrations, addresses and faults. `SchemaInv`: the lock is with the process that
migrates, and what it has executed left its mark, also when it died between two
statements. `CaptchaInv`: a code under way is one request's own, and one that was
lost is not reported. `MailInv`: a worker that marks a user has mailed it.
Theorems: `ServersFindTheirSchema`, `ReportedCaptchasStayGood`,
`UsersStayPending`.

**Lists, `SessionListProofs`.** For all sets of rows, users, clients, times and
limits, from `RowAssumption` (sessions and messages are numbered by naturals and
have their owners, times are positive) and `PageAssumption` (default and maximum
page size are positive). `PagingIsExact`: `Spec => []PagesAreExact`. The property
speaks about what was sent in the past and at the end; it is not inductive because
it does not relate the cursor to either. `CursorSplits` does: of the steady rows,
those after the cursor are exactly those not sent yet. The invariant is
`TypeOK /\ CursorSplits /\ PagesAreExact`. `WriteKeeps` shows that an insert or a
touch of a row changes nothing for the others; `PageKeeps` that a page is an
initial segment of what was left, which needs the order of the query to be total
on pairs of time and identifier; `OpenKeeps` starts it.

Only model-checked: the nine liveness properties (`TaskComesToRest`,
`ApprovalTakesEffect`, `IndexingSettles`, `DeletionConverges`, `SavedIsStored`,
`TurnsEnd` of chat and of voice, `DrainEnds`, `RegisteredIsMailed`). They rest on
fairness and on which steps are enabled, for which the prover has no support
here. The violation of section 6 is an execution, which TLC shows.

## 5. What the properties exclude, and why

- `ReadyIsIndexed` excludes a base deletion that
  failed halfway: `Delete` removes chunks and files document by document and
  puts the base back to active when a later one fails.
- `DeletedLeavesNothing` excludes crashes and store failures: the clean-up of a
  superseded attempt is not repeated when it fails.
- `ResidentContextIsComplete` excludes evictions and restarts, after which the
  context may lack messages that are still queued (section 6). Its run has neither
  them nor lost confirmations; the theorem holds with all of them.
- `SavedIsStored` speaks of a process that has its broker. One that started
  without it goes on with MySQL alone (`main.go:195`) and never tries again, so what
  an earlier process left in the queue stays there until a restart finds the broker.
- `DeletionConverges` assumes that the failed tasks of vanished documents do not
  fill the recovery scan for good (section 6).
- `TokensAreSpentOnce` does not promise an audit record: `Invoke` hands the event to
  the sink under a timeout of two seconds and ignores its error
  (`common/mcphub/registry.go:464`). It promises one report per use and at most one
  record.
- `ReloadTakesEffect` excepts `strays`, the runtimes on which a discovery worked
  after their replacement (section 6).
- `FailedIsResumable` and `DoneStepsStayDone` are checked and proved without
  failed statements. For the first see section 6. For the second: when the reply
  to the statement that records a success is lost, `failInvokedTool` takes a
  replay-safe tool to `failToolStep`, which writes `failed` over the success.
- `ServesOnItsSchema` speaks of what a server's own release needs; that a newer
  migration leaves an older server working is not stated.
- `EndedIsFinal` allows the checkpoint column to change, which no later claim
  reads because an ended task is never claimed.

## 6. Disagreements between the code and what it says

1. `markRunFailed` (`service/agent/worker.go:302`)
   ignores a failed step statement and marks the task failed; the task then has
   no step from which `ResumeOwnedTask` can continue, which the comment of
   `currentFailureStep` says it has.
2. `kb_lost_indexing`: `MarkDocumentIndexing` (`dao/knowledgebase/knowledgebase.go:558`)
   does not know the attempt. A stalled older attempt takes the document, the
   current one cancels the only task, and the document shows `indexing` for good.
3. Rehydration (`service/session/session.go:435`) reads
   MySQL only, while messages count as saved when RabbitMQ has them.
4. `connectAndDiscover` (`common/mcphub/registry.go:309`) publishes what it found
   without asking whether its runtime is still the one of the server. A
   discovery that overlaps a reload brings the old allowlist and policy back
   until the next discovery, and may leave a client that nobody closes.
5. `docs/realtime-voice.md:248` has shared resources closed only after the voice
   connections are released; the slot is released when the handler returns
   (`controller/voice/realtime.go:100`), while the worker of a turn may run on.
6. `docs/realtime-voice.md:118` tells clients to wait for `turn.cancelled` before
   the next start; `controller/voice/realtime.go:263` sends it before the worker
   has left the turn, so that start is refused, and the event comes twice.
7. `requeueFailedDeleteTasks` (`service/knowledgebase/worker.go:142`) skips failed
   tasks of vanished documents as they are, and its scan takes the 20 updated first.
   Such a task is left when a second deletion of its document succeeds during the
   backoff of the first. Twenty of them keep every other failed deletion from being
   requeued, while `worker.go:214` and `dao/knowledgebase/knowledgebase.go:364` say
   that deletions are retried until they converge. Without the hypothesis of
   `DeletionConverges` TLC shows a document that stays `deleting` for ever.

Only the second has a run of its own; the others are visible in the models as
states that the properties of section 5 except, or that no property forbids. The
hazards that the code runs into (1 and 3, and the first two of section 5) are listed in
`PROJECT.json` without a property, since none watches them.

Met on the way: the interrupt checkpoint of the gate may
be stored after the approval that clears it (harmless for progress, as
`agent_liveness` shows); the MySQL fallback can overtake queued messages; a
process that dies inside the deletion of a base leaves it in status `deleting` for
good, since `Delete` starts only from an active base; a window quota reserved by
a request that then gets no slot is not returned.

## 7. Not modelled, and plan

Not modelled: voice activity detection, WAV headers and the splitting of
sentences; the JSON schema validator of the hub and the parsing of its
configuration; the listing and redaction of audits; search in a knowledge base,
hybrid retrieval and groundedness; the model gateway and its catalogue; image
recognition; clients of speech services; controllers other than those of section
2; configuration, readiness and metrics; the front end and training scripts.
Most are pure functions over text, numbers or audio, for which a model would be
a second implementation; the others keep no state that two actors share.

What is left, in the order of its worth:

1. Proofs: that voice and accounts implement abstract specifications, as the Agent
   does `AgentLifecycle`, once these are written; `GateIsCounted` and the type
   invariants of the hub, voice and accounts as theorems of their own.
2. Modelling: readiness against the phases of `Startup`; the filter of a search
   against a deletion in `KnowledgeIndex`; chunking and rank fusion as operators
   checked against a definition.

## 8. Reproducing

    tlc -workers 2 -config AgentCrash.cfg MCAgentRun
    for m in Agent AgentSafety Knowledge Chat Mcp Voice Account SessionList; do
      tlapm ${m}Proofs.tla
    done

Each configuration names its run in `PROJECT.json`. The runs take between a
second and two minutes; the proofs of a module take up to a few minutes from
nothing.
