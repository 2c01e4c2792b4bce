# A TLA+ verification of euroclaw

euroclaw is a TypeScript framework for governed agents ("claws"): a model loop whose tool
calls pass through policy gates, human approvals, an idempotent effect ledger, redaction and
an audit chain, over a storage port with several database adapters, and a durable SQL engine
that runs the loop in slices. This directory holds TLA+ modules of its concurrent core, the
TLC runs that check them on small instances, and theorems about them that TLAPS proves for
every size. Paths below are relative to `src/packages/`.

## 1. Inventory

| part | code | state it keeps | operations | what makes it hard |
|---|---|---|---|---|
| SQL engine store | `engines/sql/src/store.ts`, `schema.ts` | rows of `run`, `task`, `lease`, `run_event`, `idempotency_key` | createRun, enqueueTask, claimDueTask, heartbeatLease, completeTask, failTask, reapExpiredLeases, updateRun, appendEvent, saveIdempotency | every operation but the transactions is a chain of statements; several processes; leases that expire; late statements; crashes |
| SQL engine worker | `engines/sql/src/worker.ts`, `engine.ts` | per tick: claim, lost flag, heartbeat timer, abort signal | tick, startRun, continueRun, cron drain | zombies (a worker whose lease was reaped goes on), the heartbeat races the commit, yields enqueue the next slice |
| effect ledger | `storage/durable/src/effect.ts` | one row per tool call: status, lease token hash, expiry, output | claim (create, reclaim, replay), heartbeat, complete, fail | exactly-once execution across crashes and retries |
| approvals | `storage/durable/src/approval.ts`, `foundation/core/src/approval.ts` | one row per parked call | create, grant, deny, consume | single use, expiry, decisions racing the consume |
| runtime | `runtime/src/runtime.ts` | per run: current step, approval, effect, checkpoint; no state of its own across runs | run, continueRun, resumeRun, runTool, handleToolCall | crash between consume, execute, complete and resume |
| run checkpoints | `storage/durable/src/run-checkpoint.ts` | one row per yielded slice | create, get, consume | consume once, crash after it |
| governance | `foundation/core/src/governance.ts`, `approval.ts` | three ordered lists of gates, sealed ids | register, runGoverned, boundary gates, model boundary, after-gates, continueRun with a bypassed gate | order, sealing, fail-closed, a record for every answer, two gates that both need approval |
| audit | `foundation/core/src/audit.ts` | hash chain of entries, anchors | append, head, anchor, verify | what a verdict means after damage behind the sink's back |
| redaction, PII vault | `foundation/core/src/redact.ts`, `storage/durable/src/pii.ts` | placeholder mappings and subject links | redact, restore, save, erase | lookup-or-mint under concurrent walks, erasure racing saves |
| claws store | `storage/durable/src/claws.ts` | claws, threads with a message cursor, messages, tool calls, bindings | append, create, archive, bind | cursor compare-and-set |
| claw API, recording sink | `euroclaw/src/api.ts`, `events.ts`, `runtime/src/events.ts` | none of their own | bindConversation, sendMessage, claws, threads, messages, grants; record events | get-then-create, read-then-append, events of overlapping invocations |
| channels | `plugins/channels/src` | endpoint rows with a poll cursor, registrations, a memoized bot token | poll, webhook dispatch, register, revoke | redelivery after a failure inside a batch, hooks and names that clash |
| authorization | `foundation/authz/src`, `euroclaw/src/authz-pep.ts`, `authz-floor.ts` | policy slices, cached bundles | decide a tool call, decide an api call, route to an organization's bundle | reads before the decision, cache keys, composition of verdicts |
| tool registry | `runtime/src/tools/registry.ts`, `storage/durable/src/registry.ts`, `euroclaw/src/registry.ts` | registered tools, spec versions, overlay, change events | register a document, override a fact, assemble actions | a difference computed from rows read before, no transaction |
| tool sources | `runtime/src/tools/sources/openapi`, `runtime/src/tools/invoke`, `foundation/egress/src` | none | extract operations, plan a request, credentials, egress floor | documents that cannot be carried, boundaries of ranges, a host that is resolved twice |
| secrets | `plugins/secrets/src`, `foundation/secrets/src` | sealed rows, a cached master key | set, delete, resolve through a chain of providers | find-then-write, restarts with another key, fall-back |
| sandboxes, policy plugins | `plugins/{sandboxes,policies,better-auth}` | none | run, load policies | none here |
| storage port | `storage/core/src`, `storage/{drizzle,kysely,prisma,mongodb}/src` | tables | create, find, conditional update, consumeOne, delete, transaction, wheres | what "atomic" and a where mean in each adapter |
| client, adapters, telemetry | `client`, `adapter/*` | none | HTTP routing | none here |

How they interact. A request or a cron firing calls the engine handle; the engine enqueues a
task; a worker's tick claims it under a lease and calls the runtime; the runtime runs the model
loop, and each tool call goes through the gates. A gate that needs a human parks the call: it
writes an approval row and the run waits. When the approval is granted, somebody (the API, a
worker with a continuation task, a cron) calls `continueRun`: it consumes the approval, runs
the gates again without the one that was approved, claims the effect row, executes the tool
under a heartbeat, completes the effect and resumes the loop. Everything is shared through
rows; there is no lock that spans processes. What makes each part correct:

* engine: a task is executed under one lease at a time, a zombie's outcome has no effect, a
  task ends and stays ended, a run has one live task, every task ends;
* effect ledger and approvals: a tool runs only with consent, once if it must, and whoever
  resumes the loop gets the recorded answer; a crash loses neither the consent nor the answer;
* run slices: the transcript is whole, each slice starts where the last one stopped, an answer
  belongs to its call, a tool that must not be repeated is not;
* governance: no tool without all gates, no gate skipped but the approved one;
* audit and PII: a verdict that can be relied on; a placeholder means its value; nothing of an
  erased subject is left;
* authorization: a call that is let through was entitled to, a policy that was edited counts, the
  floor over the tools that declare their access cannot be configured away;
* registries and secrets: what was registered or saved last is what is used, and by whom it may be;
* storage: a row is taken by one caller, and a where selects the same rows, on every adapter and
  database, as far as the port promises it;
* conversations: a message is recorded once and in order, a conversation has one claw, and the
  history of a run is what happened.

## 2. The modules

| module | what it is |
|---|---|
| `SqlEngine` | the engine: stores, workers, reapers, heartbeats, late statements, crashes |
| `RunChain` | what the engine promises of a run: a chain of slices that ends once |
| `MCSqlEngine` | symmetry for TLC |
| `SqlEngineProofs` | nine theorems about `SqlEngine`, the refinement of `RunChain` among them |
| `ApprovedCall` | one approved tool call: approval row, effect row, callers of `continueRun` |
| `MCApprovedCall` | symmetry for TLC |
| `ApprovedCallProofs` | seven theorems about `ApprovedCall` |
| `Conversation` | one external conversation: the provider, overlapping crons or webhook requests, bindings, the thread |
| `MCConversation` | symmetry for TLC |
| `ConversationProofs` | five theorems about `Conversation` |
| `RunSlices` | a durable run as the runtime sees it: the model loop, cut into slices by yields, approvals, retries and zombies |
| `MCRunSlices` | setups and symmetry for TLC |
| `RunSlicesProofs` | six theorems about `RunSlices` |
| `PiiVault` | placeholders for personal values: walks that redact, the vault of mappings, erasures |
| `MCPiiVault` | setups and symmetry for TLC |
| `PiiVaultProofs` | five theorems about `PiiVault` |
| `Gates` | the governance of one run: registration of gates, calls of tools and of the model, after-gates |
| `AuditChain` | the audit log, its anchors, damage, and its verification |
| `PolicyRouter` | decisions by cached policy bundles while organizations' rows are written |
| `ApiAccess` | the policy enforcement point of the api, and the handlers that change what it reads |
| `ChannelEndpoints` | the app's bots and those users register: which one a webhook is for, and as whom it answers |
| `StorageAdapters` | one row under concurrent calls of the port, on six backends |
| `StoredSecrets` | the secrets store behind the chain of providers |
| `SpecRegistry` | an organization's registered tools and overrides |
| `RecordingSink` | the history of a conversation's run |
| `Policies` | the sealed floor's decision on the call of a host's tool, as operators |
| `StorageWhere` | what a where means, on five adapters and three databases, as operators |
| `OpenApiTools` | from a document to tools, and from a call to a request, as operators |
| `Components` | the last twelve and the engine side by side, with a specification and a property for each |
| `MCParts` | setups and symmetry for TLC |
| `GovernanceProofs` | six theorems: `Gates`, `AuditChain`, `PolicyRouter`, `StorageWhere` and `Policies` |
| `ProductProofs` | three theorems about `ApiAccess`, `RecordingSink` and `StorageAdapters` |
| `PluginProofs` | four theorems: `ChannelEndpoints`, `StoredSecrets`, `SpecRegistry` and `OpenApiTools` |

**Statements are the steps.** The port's statements (a conditional update, `consumeOne`, a
create, a transaction) are atomic, and between two of them anything may happen. So each action
is one statement together with the program text up to the next one, and a program counter per
worker or caller says which comes next.

**Time is relative.** The present is the constant `Now` (equal to `MaxStall`), and `Tick` makes
every timestamp one older instead of advancing a clock, so that the states of an endless
execution are finitely many. A timestamp in the past is 0 when nothing distinguishes it from an
older one. `ts[w]` is the `now()` an operation read when it began. `MaxStall` bounds how old it
may get: a statement works with a `now()` up to `MaxStall` units old, which stands for slow
statements, garbage collection and clocks that differ between processes. With
`MaxStall >= LeaseTtl` an operation may take longer than a lease lasts.

### SqlEngine

State: `run` (status), `task` (status, run, attempt, limit, due time, lease id, expiry), the
lease rows, the events by the statement that writes them, and per worker its `pc`, `ts`, the
candidate it read (`cand`), the lease it holds or reaps (`held`), its outcome, its `lost` flag
and a heartbeat on its way.

| code | actions |
|---|---|
| `startRun`, `continueRun` (engine.ts) | `StartRun`, `ContinueRun` |
| `reapExpiredLeases` | `ReapScan`, `ReapConsume`, `ReapRead`, `ReapRequeue`, `ReapFailRun` |
| `claimDueTask` | `ClaimScan`, `ClaimNothing`, `ClaimBury`, `BuryFailRun`, `ClaimLease`, `ClaimTake`, `ClaimDrop`, `ClaimRunning` |
| `tick` after the claim | `Start`, `Execute`, `LeaseLost`, `EndTick` |
| heartbeat timer, `heartbeatLease` | `BeatRead`, `BeatFails`, `BeatWrite` |
| `completeTask`, `failTask` and the transactions around them | `Validate`, `CommitCompleted`, `CommitWaiting`, `CommitYielded`, `CommitFailed`, `CommitNothing` |
| a worker's process ends | `Crash` |

A reap is four statements: the scan, the `consumeOne` of a lease row, the read of its task, from which
the verdict follows (retry or dead letter), and the update, guarded by the status and the lease id,
that writes the verdict. A claim that is slow to take the task under this very lease counts an
attempt between the read and the update, and the verdict is out of date: a task whose attempts are
used up is pending again. Another worker with an old candidate may then take it while a third one's
burial of a still older candidate fails its run (store.ts:411-423), so that a task of a failed run is
leased. What the engine says of runs is therefore stated under `Prompt`: a claim, and a reap, takes
less than a lease lasts (`MaxStall < LeaseTtl`). Leases and tasks need no such premise
(`ExclusiveLease`, `OneLiveTask`, `OnlyHolderEndsLease`, `TaskIsFinal`).

`RunChain` is the abstract specification: a run's slices, its status and its end. `SqlEngine`
implements it under `Chain == INSTANCE RunChain WITH ...`, and `RunIsOneChain` is the property. The
stage of a run (`StageOf`) is its `status` column, so that "ended stays ended" is about the row that
the engine's callers read, whichever statement writes it, and the slices are its tasks.

### ApprovedCall

State: `policy` (the effect policy of the tool: may an expired lease be reclaimed, is the output
kept; any policy, chosen at the start), `approval` (its status), `lapsed` (its `expiresAt` has
passed), `effect` (status, token, expiry, output), and per caller `pc`, `ts`, the `token` of its
claim, `lost`, the output `out` it will resume the loop with and a heartbeat `beat`. History:
the executions `ran`, the outputs loops were resumed with (`answers`) and how often (`resumes`,
saturating at `Many`). A token is random in the code; here it also names the execution made
under it and that execution's output, so "the same output" is "the same token".

| code | actions |
|---|---|
| `approvalGate`, `create` | `Park` |
| `grant`, `deny`, `expiresAt` | `Grant`, `Deny`, `Lapse` |
| `continueRun`: get, consume | `Get`, `ConsumeRead`, `ConsumeTake` |
| the gates that are not bypassed | `Gates(c, verdict)` |
| `claim` | `ClaimRead`, `ClaimCreate`, `ClaimReclaim`, `ClaimLatest` |
| `runTool` | `Execute`, `Finish(c, ok)` |
| heartbeat timer, `heartbeat` | `BeatSend`, `BeatLand` |
| `complete`, `fail` | `Complete`, `Fail` |
| the resumed model loop | `Resume` |
| a caller's process ends, or the call is aborted | `Crash` |

Verdict `stop` is another gate that needs an approval of its own, or an error thrown before the
tool: the call ends there. A new approval that such a gate parks is another instance of the
module. The store's in-process lock orders the claims of one process only; callers of different
processes have every behaviour, so it is not modelled. A `get` that finds the approval absent,
pending or denied changes nothing and is a stutter.

### Conversation

State: with the provider, the updates that `arrived`, those that are no text (`mute`) and those
it will not deliver again (`gone`); in the store, the endpoint's `cursor`, the `claws`, the
`binding` rows of the conversation, and of each claw's thread the cursor (`tail`) and the
`messages`; per handler (a cron firing or a webhook request) its `pc`, the rest of its batch
(`todo`), the offset it will save (`mark`), the `claw` it relays to and the thread cursor it has
read (`at`). History: the updates `handled` to the end, and those `replied` to.

| code | actions |
|---|---|
| the provider | `Arrive` |
| `pollTask`, `contextFor` | `PollRead` |
| `poll` (getUpdates) | `Fetch` |
| `webhookHandler`, `dispatchWebhook` | `Deliver` |
| `bindConversation` | `BindRead`, `BindClaw`, `BindThread`, `BindCreate` |
| `append`, of `sendMessage` and of the recording sink | `AppendRead`, `AppendCommit`, `AppendFails` |
| `runtime.generate` | `Run` |
| `channel.send` | `Reply` |
| `record` of the endpoint's event, and the answer 200 | `Persist` |
| an error that is recorded and thrown on, or the end of the process | `Fail` |

There is one endpoint and one of its conversations; others share nothing but the cursor, and
what they do between two updates of this one is the time that passes between two actions. A
claw stands for its thread, since `bindConversation` gives each claw one. The append is a
transaction of two actions: it reads the thread, and its conditional update commits the row and
the cursor or rolls both back. The sink's `listForThread` finds no earlier answer, because
`sendMessage` mints a run id for every message, redelivered ones included. A run that waits for
an approval leaves neither answer nor reply; its resumption is `ApprovedCall`'s. Nothing is
claimed about eventual delivery: handlers that overlap may defeat each other's append for ever,
and the code has neither a lock nor a backoff against that.

### RunSlices

State: `config` (the setup: maxSteps, the attempts a host gives, the tool's effect policy, and
the bounds), `run` (status per run), `task` (each run's live task: kind, what it refers to,
attempts, holder), the rows `ckpt`, `approval` and `effect`, and per worker its `pc`, its `slice`
(run, kind, step, transcript `log`, the `call` in hand) and its abort signal `lost`. History:
the effects whose tool was executed (`ran`) and executed more than once (`again`).

| code | actions |
|---|---|
| `claimDueTask`, `reapExpiredLeases`, the heartbeat | `Claim`, `Reap`, `Lose` |
| `generate`, `resumeRun`, `continueRun` up to the loop | `LoadRun`, `LoadResume`, `LoadContinue` |
| a step of `runAiSdkLoop` | `Answer`, `Ask`, `ModelFails`, `Gate(w, verdict)`, `GoOn`, `Yield` |
| `runTool` and the effect ledger | `ClaimNew`, `ClaimDone`, `ClaimOver`, `ClaimFails`, `Complete`, `CompleteThrows`, `Fail` |
| `abortIfNeeded` | `Abort` |
| the transaction at the end of `tick`, `failClaim` | `CommitFinal`, `CommitYield`, `CommitFailed`, `CommitNothing` |
| a worker's process ends | `Crash` |
| the host: `grant`, `deny`, `engine.continueRun` | `Decide`, `Continue` |

This module is one level above `SqlEngine` and `ApprovedCall`: the engine's claim, commit and
reap, and each of the ledger's operations, are one action, since those modules have the races
between their statements. What it adds is the loop, its transcript, many calls per run, and the
three ways a run goes on. A message of the transcript is a call with its answer; the answer of
the tool to an input is that input, so an answer given for another input shows. The provider
names the calls: never twice in one transcript, but a slice that is repeated from its start may
get the same name for another input. A call of `continueRun` for a denied approval ends its run
as completed, as `tick` does. Whether a `started` row's lease has expired is open, as time is
not modelled here. The deadline is open too: a slice may yield after any step but the last.

### PiiVault

State: the `pii_mapping` and `pii_subject` rows (`mapping`, `junction`), per walk its next
statement and the span it redacts, per erasure its next statement and the tokens it has left.
History: the tokens minted (`drawn`), the texts returned with the subjects they are about
(`issued`), the tokens that some erasure was answerable for when it succeeded (`erased`), and
those that were erased while a walk was between its lookup and its save (`contested`).

| code | actions |
|---|---|
| `redactText`, per detected span | `Detect` |
| `findByHash`, the reuse of a known placeholder | `Lookup` |
| `mintPlaceholder` with its check by `resolve` | `Mint` |
| `save`: the row, then link by link | `SaveRead`, `SaveWrite`, `LinkRead`, `LinkCreate` |
| `deleteForSubject` | `EraseRead`, `EraseMapping`, `EraseLinks` |
| a statement fails, a process ends | `WalkFails`, `EraseFails` |

A value stands for a value and its kind, which are hashed together, and a span is given as
detected: detection, cleaning, wordlists and the recovery of placeholders a model has mangled are
string processing. A text with several spans is several walks. A code is random; the module lets
two walks never draw the same code between draw and save, nor an erased one again, but lets
`mintPlaceholder` draw a code that is in use, which its check refuses. Every row has a container:
a mapping without a scope is looked up by the placeholder alone (see section 4). Without an index
key nothing is looked up and every mention gets a placeholder of its own.

### Gates

State: the registrations that are left (`setup`), the three lists with the ids that are `sealed`
and the `kinds` of each id, per call its `pc` and outcome, the audit entries (`trail`) and the
approval rows (`parked`).

| code | actions |
|---|---|
| `createGovernance`, `add` | `Register` |
| `handleToolCall`, `handleModelCall`, `checkModelBoundary` | `Begin` |
| `continueRun` of governance.ts | `Continue` |
| `resolveCtx`, and the redaction before the gates | `Resolve` |
| `runBoundaryBeforeGates`, the tool gates | `BoundaryGates`, `ToolGates` |
| the tool or the model | `Execute` |
| `runAfterGates` with `auditGate` and `approvalGate`, the finally | `Observe`, `ObserverFails`, `Return` |
| `grant`, `deny` | `Decide` |

A handler's verdict is open each time it is asked. Calls do not share a step, so nothing is lost by
keeping a gate's handler in one action. A failure before the `try` of `runGoverned` leaves no
record and answers nobody (`AnsweredIsRecorded` is about answers).

### AuditChain

State: the entries in the store, the anchor rows, and what the sink was given. `Append_`, `Head_`
and `Anchor` are the sink and the host that keeps heads; `Damage` edits, rehashes, drops, moves,
inserts or cuts. A hash is the term it is the hash of. `BrokenLinks`, `HashMismatches`, `SeqGaps`
and `AnchorProblems` are the problems `verifyAuditChain` reports.

### PolicyRouter

State: of each organization the text of its slice and of its overlay and how many change events it
has; the cache of builds in the order of their use; decisions and writes in progress.

| code | actions |
|---|---|
| `authorize` of router.ts, `authzBundleKey` | `KeyFor`, `Lookup`, `Build`, `BuildFails`, `Authorize` |
| `policySlices`, `factsOverlay` of registry.ts | `Find`, `Change`, `Create`, `AppendChange`, `WriteFails` |

A build that reads rows of a write whose event is not there yet is under a key that does not tell
of them: the key is `contested`, and so is one whose write failed before its event.

### ApiAccess

State: the deployment (posture, plugin permits and forbids), claws, threads, grants, the scopes
each principal holds, and per call what it has read. History: what held at some moment of the call
(`seen`) and what held throughout it (`steady`).

| code | actions |
|---|---|
| `wrapMethod` | `Arrive`, `ResolveScopes`, `Decide`, `Execute`, `Refuse` |
| `buildResourceRegistry`, `loadShape` | `LoadThread`, `LoadRow`, `LoadGrants` |
| the handlers of api.ts, claws.ts, grant.ts | `Handler` in `Execute`: create, update, archive, append, share, unshare |
| the organization plugin's memberships | `ScopesChange` |

The entity graph of `buildApiEntities` and the baseline policies are operators (`Parents`,
`Climb`, `OwnerPermits`, `ScopePermits`, `GrantPermits`, `CreatePermits`).

### ChannelEndpoints

State: the rows of user registrations, register calls in progress, what the token secret of a bot
of the app names, what its channel keeps of it (`memo`), and requests.

| code | actions |
|---|---|
| `register` (plugin.ts, store.ts) | `Register`, `CheckSecret`, `CheckKey`, `Patch`, `Create` |
| `revoke` | `Revoke` |
| `webhookHandler`, `webhookRoute` | `ReceiveForBot`, `ReceiveForUser`, `Lookup` |
| `verify`, `parseUpdate`, `send` of the telegram channel | `Verify`, `ReaderFails`, `Handle`, `HandleNothing` |
| the operator | `SetSecret` |

### StorageAdapters

State: which backend it is, the row, the calls, and for the memory adapter the running transaction
with its snapshot. History: how often the row became free, who was told to have taken it, and
whether a commit dropped a write.

| code | actions |
|---|---|
| `withValidation` of entity-adapter.ts, `applySchemaAdapter` | the beginning and the end of every call: `Begin`, and the conversion in each |
| drizzle, kysely, prisma: update and delete as one statement or several | `Read`, `Act`, `ReadAgain`, `Remove` |
| mongodb, memory | `AtOnce` |
| create, `consumeOne` | `Create`, `Consume` |
| the memory adapter's `transaction` | `BeginTransaction`, `Commit`, `Rollback` |

### StoredSecrets

State: the sealed rows, what the deployment's providers hold (`environment`), the master `key` the
process has cached, and calls. `Set`, `Find`, `Rotate`, `Create` and `Delete` are store.ts;
`Resolve`, `LookUp`, `Miss`, `Deployment` and `Nowhere` are `buildSecrets`' chain with the store's
provider in it; `Restart` exchanges the environment and forgets the key. A sealed value is opened
by the key it was sealed under and by no other.

### SpecRegistry

State: `tools`, `specs`, `overlay`, the number of change events, and the calls in progress.

| code | actions |
|---|---|
| `registerOpenApiSpec` | `Register`, `ListBySource`, `CreateTool`, `UpdateTool`, `DeleteTool`, `FindSpec`, `SaveSpec`, `AppendRegistered` |
| `factsOverlay` upsert and remove | `Override`, `DropOverride`, `PutOverride`, `FindOverride`, `EraseOverride`, `AppendOverride` |
| any statement fails, or the process ends | `Fail` |

`AssembleOrgActions` is euroclaw's registry.ts with `buildAuthzModel` and `mergeFactsOverlay`. One
organization and one source; the report of a registration is left out. An id of a row is never used
again, as the stores' ids are not: here it is the number of the call that created the row and what the
row is for. (With ids that are used again, an override's erase could remove a row that another call
created in the meantime.)

### RecordingSink

State: the rows `call`, `results`, `messages` and `checkpoints` of one run with one tool call, its
approval, and invocations of the runtime, each with the event it tells and the sink's next
statement.

| code | actions |
|---|---|
| `generate`, the loop, `continueRun`, `resumeRun` up to an event | `Generate`, `Called`, `Continue`, `Resumed`, `Late`, `ResumeRun` |
| `createClawRuntimeEventSink`, per event | `CreateCall`, `Wait`, `Mark`, `List`, `Create`, `CreateCheckpoint`, `Ignore` |
| `fanoutRuntimeEvent`: the sink's error fails the run; the process ends | `Fail` |
| the approver | `Decide` |

### Policies, StorageWhere, OpenApiTools

These keep no state. `Policies` is `buildFloorPolicyPlugin`: the host's static tools that declare an
access (`Governed`) make the model (`FloorModel`, or `Broken`), the plugins' slices are merged with
the floor (`Bundle`), and the sealed gate answers (`Gate`, `Authorize`, `Shadowed`). A tool that
declares no access, or has no stamp, has opted out (authz-floor.ts:8-14): the gate skips its calls,
and its own gate, if it has one, is `Gates`' matter. The rows of an organization, registered tools and
overlay, do not feed this gate; what they make of an action is in `SpecRegistry` and `PolicyRouter`.

`StorageWhere` has one evaluation per adapter (`MemoryHolds`, `DrizzleHolds`, `KyselyHolds`,
`PrismaHolds`, `MongoHolds`, `Selects`), over the database the adapter runs on (`Adapters`: memory,
mongodb; drizzle, kysely and prisma on sqlite and postgres; drizzle and prisma on mysql, which kysely
refuses), and what is meant (`MeantWhere`), folded from left to right. A database compares text by its
default collation: sqlite by code unit, with a LIKE that ignores case, postgres in the order of a
locale, mysql without case throughout. JavaScript and mongodb go by code unit. Prisma over mongodb is
not modelled.

`OpenApiTools` has the extractor (`Tools`, with what it `Skipped`), the plan of a request
(`Plan`), the credentials (`Satisfiable`, `Credentialed`), the egress floor (`Blocked`) and a
provider's call (`Execute`). Of a place and a name the last parameter replaces the ones before it, and
a malformed one is dropped (`Merged`). The floor checks the addresses a host resolves to, but the one
it would pin is thrown away (provider.ts:123), and fetch resolves a named host again
(provider.ts:176): `Fetch` connects to `target.later`, which may be any address or none. A literal
address is resolved by nobody.

## 3. The runs

| run | instance | result |
|---|---|---|
| `engine_safety` | 2 workers, 1 run, 2 tasks, 3 leases, 1 crash, lease 2, stall 1, limits {0, 2}, 2 slices | passes, 535,310 states |
| `engine_liveness` | 2 workers, 1 task, lease 2, stall 1, no crash, fair | passes, 295,781 states |
| `engine_recovery` | as above with 1 crash, fair | `LeasesAreRecovered` violated |
| `engine_attempts` | 2 workers, 1 task | `EveryClaimCounts` violated |
| `call_safety` | 2 callers, 3 executions, lease 1, stall 1, 1 crash, all verdicts | passes, 624,928 states |
| `call_liveness` | 2 callers, 2 executions, lease 2, stall 1, 1 crash, fair | passes, 507,120 states |
| `conversation_safety` | 2 handlers, 3 claws, 2 updates, 3 batches, 1 failure, both modes | passes, 1,833,801 states |
| `conversation_binding` | 2 handlers, 2 claws, 2 batches, no failure | `BoundOnce` violated |
| `slices_safety` | 2 workers, 2 runs, 2 call names, 2 inputs, 2 attempts, four setups | passes, 943,465 states |
| `vault_safety` | 2 walks, 2 erasures, 2 placeholders, 2 subjects, three setups | passes, 737,770 states |
| `vault_erasure` | the same | `ErasedForGood` violated |
| `parts_safety` | each of twelve components, and the engine with lease 1, by itself, see below | passes, 783,846 states |

*engine_safety.* `ExclusiveLease` (of two workers that both think they own a task at most one has a
lease row); `OneLiveTask` (no interleaving doubles a continuation); `OnlyHolderEndsLease` (a zombie's
commit changes nothing); `SettledRunHasNoWork` (a run that completed, failed or parked has no task
that could be claimed or executed); `RunIsOneChain` (its status opens, advances by slices and settles
once, and a yield neither loses nor doubles the continuation). Claims and reaps take less than a
lease, but any statement of one may come after a tick, and a worker that executes may be slower than
its lease, so heartbeats that land after a reap, zombies that commit and second claims are all there.
The third lease lets a task be claimed, reaped, claimed again and claimed once more after a failure.
Limit 0 makes `claimDueTask` bury a task it can no longer try. Two workers put one statement of
another process between any two of one; races of three occur as well (section 2 has one), and for
those, as for any number of workers, the five properties are theorems.

*engine_liveness.* When a claim is faster than a lease and nobody dies: every leased task has a
lease row or somebody on the way to requeue it (`LeasedTaskIsRecoverable`), a lease that is
still good is not reaped although a late heartbeat revived it (`LiveLeaseIsSafe`), and every
task ends (`EveryTaskEnds`).

*call_safety.* `OnlyConsented`; `AtMostOnce` without idempotency; `OneAnswer` (every loop
resumed for the call got the same output, whoever executed it and however often). Three tokens give one execution per caller and one more after
a crash or a lost lease.

*call_liveness.* `StartsUnderLease` (an execution begins while its caller holds the lease);
`ConsumedIsExecuted` and `CompletedIsResumed` (a crash after the consume, or after the
completion, is repaired by a retry: this is what `continueRun` accepts a consumed approval for).
The other gates allow here: a gate that keeps denying stops the call by design.

*conversation_safety.* `ThreadIsSequence` (whoever appends, the rows of a thread are numbered
1, 2, 3 without gap or double); `NothingIsSkipped` (an update that was acknowledged, or that the
next poll will acknowledge, was handled to its end, although crons overlap with stale cursors and
a batch may fail in its middle); `AskedInOrder` (in poll mode no message reaches a transcript
before an earlier one). That no reply goes out without its row (`RepliesAreRecorded`) is left to its
theorem. Two handlers give every
race of two appends, two binds and two cursors; with the third batch one of them begins again
after a failure. A failure may hit any statement and has the effect of a crash: an error
handler only records `poll-error`, which leaves the cursor where it was.

*slices_safety.* `TranscriptIsWhole` (one answer per step done, under distinct names, and steps
counted over all slices within maxSteps: a resumed checkpoint or approval neither repeats nor
skips one); `AnswersMatchTheirCalls` (also when the ledger answers for an earlier attempt);
`OncePerCall` (without idempotency, no call name of a run and no approval has its tool executed
twice, although attempts and zombies reach it again); `DueSliceIsRunnable` (a resume task that is
due finds its checkpoint: it is enqueued once, with the default of one attempt, because a second
attempt could not consume the checkpoint again); `SlicesMakeProgress` (a run's next task starts
from a longer transcript with the same beginning, whatever zombies of older slices do). The
setups are runs of three steps with two faults and no approval, and runs of two steps with one
approval, continued as a run of its own; each for a tool with the default policy and for one
without idempotency. With two workers one may be a zombie beside the other; the second fault
lets the same slice lose its lease twice.

*vault_safety.* `TokenMeansItsValue` (whatever a token was issued for, it is never mapped back to
something else, although two walks may look up, mint and save at once and one placeholder may
name a value in each container); `ErasureReaches` (while a token resolves, each subject of a text
with it has a link, so that an erasure of that subject finds it, also when another erasure, of
another subject of the same text, runs at the same time or failed half-way); `ErasedIsGone` (what
an erasure was answerable for stays gone); `SparesNamesakes` (nothing but an erasure removes rows,
and only those of tokens it found). One setup has three mentions of one value in one container,
so that a placeholder is minted, reused and reused again around two erasures; the others have two
mentions of any of two values in any of two containers, with and without an index key, so that
one placeholder names two values. Two walks have every race of two lookups and two saves, and two
erasures those of two subjects of one text. `ErasureReaches` and `ErasedIsGone` except `contested`
tokens: `vault_erasure` shows why.

*parts_safety.* Every behaviour is one of one component; the others' variables are off. A component
is checked on its own instance, and the functions for every input of a set, so one run asks of each
of them what it alone would be asked. Where a component has rows, its property has the type
invariant of its module as a conjunct, and nothing more is asked of the types:

* `LateClaimsKeepLeases` (`SqlEngine`): with leases as short as the stall a claim may outlive its own,
  so that a reaper comes between the lease row and the take, and between the reaper's read of a task
  and its update. At every step `ExclusiveLease` and `OneLiveTask` hold, and the step ends no other
  worker's lease. Two workers, two leases, two tasks, a crash, limits {0, 2}.
* `CallsPassTheGates` (`Gates`): what runs was let through by every gate, each asked in this very
  call or having parked these very arguments under a row that was granted and consumed for it; and
  who gets an answer left an audit entry with it, and a row if it waits. `SealedStay`: no later
  registration moves, replaces or precedes a sealed gate. Five sequences of registrations, two
  calls, of which one may continue the other.
* `VerdictIsSound` (`AuditChain`): an untouched log verifies, and a log that verifies begins with
  all that was appended before its newest anchor. Three entries, two changes, two anchors: a cut,
  and something written again in its place.
* `QuietDecisionsAreCurrent` (`PolicyRouter`): a decision nobody wrote its organization's rows
  during is made by those rows. Two organizations, decisions and writes, a cache of one bundle, so
  that bundles are dropped and shared.
* `AccessIsAsGranted` (`ApiAccess`): whoever is let through had access at some moment since the call
  arrived, and whoever had it all that time is not refused. Two calls at a time of three in all, of
  seven deployments' methods, which share, revoke, create and use.
* `BotsAreKeptApart` (`ChannelEndpoints`): two registrations have one hook only if they checked at the
  same time; a user's bot that has the app bot's name is bound and answered apart from it. Two
  registrars, one request, one hook.
* `OneTaker` (`StorageAdapters`): of three calls on a row, one takes it each time it is free; not on
  mysql, nor after a commit of the memory adapter dropped the write that took it.
* `ResolvesToTheNearest` (`StoredSecrets`): what is resolved is what its key held since it was asked
  for, and a wider boundary answers only for nearer ones that held nothing. Two principals, three
  calls, one restart, two master keys and one that is none; two sets of one key at a time are
  excepted (`contested`).
* `SurfaceIsAsRegistered` (`SpecRegistry`): a registration that no other overlapped leaves its
  document's tools, whatever failed before it, and the actions policies see are those of the
  document and the overrides. Two calls at a time of three, documents of none, one and two tools.
* `HistoryIsWhatHappened` (`RecordingSink`): results are of tools that answered, an invocation that
  ended alone left its result, message, status and checkpoint, and nothing is recorded twice by
  invocations that did not overlap. Two invocations at a time of three.
* `StoresSelectAlike` (`StorageWhere`): the adapters select what is meant, but for the clauses
  `Unclear` names: null against a column a row lacks, a value denied of a column without one, numbers
  ordered beside null, and text that is told apart or ordered by its case where the collation decides
  it (patterns on sqlite, order on postgres, both and equality on mysql). The stores order
  sequence numbers and ISO dates only, whose letters are all upper case, and use no pattern: none of
  this reaches them but mysql's equality of names that differ in case alone. Every clause by itself, with letters of both cases, and wheres of up to three nodes.
* `FloorHolds` (`Policies`): whatever slices there are, a tool that declares to write is not run
  unattended without a confirmation, only tools that declare no access are skipped, a slice's forbid
  forbids, and slices that are shadow or off decide nothing. A tool with any stamp or none, one slice
  of up to two policies, in every mode.
* `CallsAreTheOperations` (`OpenApiTools`): a request has what its operation requires where it is
  declared, the last word on each, one alternative of its security in full, and it goes to no address
  of a private range unless a named host resolved to another address the second time. Documents of
  two operations and two parameters, malformed ones and repeated ones included, two alternatives of
  security, addresses on both sides of every bound, and hosts that keep or change their address.

Not every one of them has an exception for its own sake: `contested`, `dropped` and `unsure` mark
what the code does not promise, and section 4 says what happens there. The sets of u, o, k, b and d
values are symmetric: nothing orders them, and a part is given the whole of such a set, or one value
of it and never the other. The callers of the secrets store are p1, who has an organization, and p2, who has none, and
are not exchanged.

Bounds. `MaxBegun`, `MaxCalls`, `MaxRestarts`, `MaxRows`, `MaxTurns`, `MaxEntries`, `MaxDamage`,
`MaxAnchors` and the deployments' `maxCalls` and `maxChanges` bound how often something begins in a part.
`maxSpans` and `maxErasures` bound the mentions and the erasures, per setup (the run ends
when both are used up, hence no deadlock check). `maxFaults` bounds deaths, stalls and failed heartbeats, `maxParked` approvals, both per
setup. `MaxUpdates` and `MaxBatches` bound how much happens in a conversation, and the claws
how often one is bound. `MaxStall` and `MaxCrashes` are above; `MaxSlices` bounds yields; `Task` and `Lease` (in
the engine) and `Token` (in the call) bound how many rows are ever created: when tokens are used
up a reclaim finds no row, which the code may see as well, since another caller may have been
faster. `Many` saturates a counter that is only compared with 1.

Fairness (of the engine and the call; nothing about conversations, slices and the vault needs any). Every step of a worker or a caller that has begun an operation is weakly fair: a
statement or a runtime call ends, with a result or an error. Beginning is fair too, because the
cron and the daemon's loop tick for ever and callers retry, and time passes. Nobody has to start
a run, park a call, grant, deny, crash, or send a heartbeat.

## 4. Findings

1. `engine_recovery`: a worker that dies between `consumeOne` of the lease row (store.ts:572)
   and the update of the task leaves the task leased for ever, while `src/README.md:44` lists
   lease recovery. Without a crash there `LeasedTaskIsRecoverable` holds.
2. `engine_attempts`: `claimDueTask` writes `candidate.attempt + 1` of a row it read before
   (store.ts:450), guarded by status alone. After another worker's claim and failure in between,
   one attempt is counted once for two executions, and the retry delay is skipped.
3. `conversation_binding`: two first messages of one conversation, handled at the same time, get
   two claws, threads and bindings, while conversation-binding.test.ts:6 says that binding is
   idempotent and schema.ts:257 calls the three columns the natural key. They are indexed one by
   one and none is unique; from then on `findOne` picks either thread for every message.
4. `vault_erasure`: pii.ts:142 calls an erased placeholder "permanently un-rehydratable", and
   redact-coherence.test.ts:94 says "erasure is never undone by dedup: a reappearing value gets a
   NEW token". A walk that read the mapping before the erasure and saves it after creates it
   again (pii.ts:97). If the erasure removes the links after the walk has linked its own subject,
   the mapping even stays without any.

Noted without a run, where a property had to be stated with an exception or a reading of the code
showed it:

* Approvals and runs: approval.ts:2-4 promises that a granted approval resumes exactly once; the
  tool call does (`AtMostOnce`, `OneAnswer`), the loop behind it does not, since `continueRun` also
  resumes a consumed approval, to recover from a crash (runtime.ts:1376). `consume` checks the
  expiry on the row it read and takes it by status alone. A completed effect whose output is not
  kept throws at every retry (runtime.ts:983). `approvalGate` never sets `expiresAt`. The gates of a
  call may ask for approvals in turn for ever (governance.ts:327).
* Engine: with claims as slow as a lease, the verdict of a reaper is older than the attempt it is
  about (store.ts:590, see section 2; `LateClaimsKeepLeases` is what holds nevertheless), and the
  update that marks a run running (store.ts:461), which looks at its id alone, may set a run that a
  reaper has failed back to running, without a task, against "only status advances" (schema.ts:28);
  the reaper and the claim fail a run in a second statement and without a `run.failed` event
  (store.ts:610); `saveIdempotency`
  reads, creates and on any error reads again, so that two requests with one key race
  (store.ts:665); a yield enqueues its continuation with the default `maxAttempts` of one, so that a
  slice whose worker dies ends the run, while its first task may have had more (`DueSliceIsRunnable`
  shows why more would not help).
* Redaction: two concurrent walks may give one value two tokens, while the system prompt tells the
  model that different tokens denote different values (euroclaw `redaction.ts:96`); for a mapping
  without a scope the predicates of `save` and `deleteForSubject` match its placeholder in any
  container, against pii.ts:35-36 "erasure must never reach a namesake mapping in another container".
* Recording: an approval can be granted before `tool.waiting_approval` is told, so a continuation's
  `completed` may be overwritten by it and the row of the call waits for ever (ai-sdk-loop.ts:417,
  claws.ts:374). A continuation by the engine has a run id of its own, under which the sink finds no
  row of the call. `continueRun` tells no `tool.failed` when the tool throws (runtime.ts:1385).
  Overlapping continuations record a result twice.
* Gates: a failure of `resolveCtx` or of the redaction leaves no record, and an earlier after-gate
  that throws keeps a sealed one of a plugin from running, against the comment at boundary.ts:222-226.
* Policy: a bundle built while a write is between its rows and its event is kept under a key that
  does not tell of them, until the next event (router.ts:48, against router.ts:19-21).
* Registry: overlapping registrations of one source may create two rows of one address, whereupon
  `buildAuthzModel` throws for the whole organization (build.ts:55-60), and no later registration
  removes the second one; overlapping overrides of one action leave two, whereupon
  `mergeFactsOverlay` throws; a crash between the delete and the create loses the override
  (durable registry.ts:252); a description that the document no longer gives stays (registry.ts:209);
  a registration that fails before its event leaves cached bundles as they are.
* Secrets: two sets of one key at a time create two rows (store.ts:176), against api.ts:38 "never
  creates a second row"; a delete then removes one of them.
* Channels: the token of a bot of the app is resolved once per process and kept (telegram
  channel.ts:226).
* Storage: on mysql drizzle's conditional update returns the row it looks up by id although it
  changed nothing (drizzle `index.ts:342-345`); the memory adapter's transaction puts its snapshot
  back over writes from outside (`index.ts:215-238`), a nested one waits for itself, and its create
  does not keep ids unique; an update's validation of what it read comes after the write
  (entity-adapter.ts:235). Adapters differ on `ne`, `not_in` and `eq null` of a column a row does not
  have, on comparisons of null, and, by the database's collation, on case and on the order of text;
  prisma knows the insensitive mode on postgres only.
* Policy floor: a tool that declares no access is not policed by the floor, whatever it does; the
  comment at authz-floor.ts:8-14 says so.
* Egress: egress/src/index.ts:6-8 says that the block decision and the connection target are the same
  resolution; lines 16-18 name the "residual pin gap": "a global `fetch` without a custom dispatcher
  re-resolves at socket time". `createRegisteredToolProvider` is such a caller: it throws the pinned
  address away and calls the global fetch (provider.ts:123, 176). A request to a named host may go to
  an address nobody checked, and `CallsAreTheOperations` excepts exactly that.
* OpenAPI: of two parameters of one name in different places one gets both values; security
  requirements that are all malformed become none, which binding.ts reads as public; a required
  query parameter given an empty list is sent nowhere.

## 5. The proofs

The proof modules use no assumption but the ones on the constants, which TLC evaluates in the runs:
`EngineAssumption`, `CallAssumption`, `ConversationAssumption`, `SlicesAssumption`, `VaultAssumption`,
and, of the twelve parts, `GatesAssumption`, `RouterAssumption`, `AccessAssumption`,
`ChannelAssumption`, `StorageAssumption`, `SecretsAssumption`, `RegistryAssumption`,
`RecordingAssumption` and `WhereAssumption`. They say that `None` and its likes are no row's name and that kinds of names
differ, that durations and bounds are naturals, that setups are setups and that the store is in the
chain of secret providers. For the parts that are functions of what they are given,
`WhereInputsAssumption`, `PolicyInputsAssumption` and `OpenApiInputsAssumption` say that the inputs
are ones the program can be given (`IsGiven` of each module: lists are lists, the words of an
enumeration are its words, an IPv4 address has two bytes and an IPv6 address eight numbers of
sixteen bits), in any number and of any length. No theorem needs the sets of workers, runs, tasks, callers, tokens,
handlers, claws, walks, subjects, calls, organizations or keys to be finite; only the writes of
policies are finitely many in `DecisionsAreCurrent` (`RouterAssumption`), as is whatever a process
has done so far. The type invariants, `TaskIsFinal`, `OnlyHolderEndsLease`, `EndedIsFinal` and
`OnlyHolderEnds` of the modules are theorems too; of these the runs check `OnlyHolderEndsLease`
alone, as a proof says more.

`SqlEngineProofs`. The invariants the runs check are not inductive. `Typed` adds to the types
what a worker's locals name. `LeaseInv` (for `ExclusiveLease`) says that a lease whose task is
about to be requeued has no row any more, that no two workers hold the same lease, and that a
task stays leased under a won claim as long as that claim's lease row exists. `RunInv` (for
`OneLiveTask` and `SettledRunHasNoWork`) says that the run of a task was created, that a dead
task is the last of its run, what is still true of a candidate although it may be stale, and
that a run is only failed behind a dead task; these are proved together because whether a
commit may end a run depends on the run having no other live task. `TaskIsFinal` and
`OnlyHolderEndsLease` then follow step by step from a lemma on what a step does to a task's
status, and `LiveLeaseIsSafe` from what a step does to a lease's row (a reaper's delete looks at the
expiry once more). `RecoverInv` (for `LeasedTaskIsRecoverable`): a claim that has not taken its task
holds a lease that neither a task nor a heartbeat names (`UntakenOK`, `UnbeatenOK`) and whose row is
there and good for the claim's time (`FreshOK`, which needs a claim to be shorter than a lease), so
that from the take on the task has its row, or the reaper that consumed the row and will requeue it.
From `FreshOK` also follows that nobody takes a task under a lease that was consumed, so that the
reaper that is about to retry a task still finds attempts left (`VerdictOK`): this is what the theorems
about runs, `SettledRunsAreIdle` and `EngineIsOneChain`, need `Prompt` for; `RunInv` has the parts that
rest on it under that premise and `OneLiveTask` without.
`EngineIsOneChain` is the refinement: under `RunInv` and the tasks of a run being finitely many
(`FiniteOK`, an invariant and no assumption, since a step creates one task), each action is shown to
open one run's chain, advance it by one slice, settle it, or leave the stage of every run as it was;
the stage is the run's own status, so this covers the writes that nothing guards: the claim's
"running" and the reaper's and the burial's "failed".

`ApprovedCallProofs`. `Typed` adds that a caller past its claim has a token and what a row's
status says of its token. `ConsentInv` follows the approval from the consume to the resumed
loop. `OnceInv` (for `AtMostOnce`): without reclaiming, every token in use, in the row, in a
caller or in a heartbeat, is the same one. `AnswerInv` (for `OneAnswer`): all outputs given, or
in a caller's hands, are one, and the row is completed with that output if it keeps one. `StartInv` (for
`StartsUnderLease`): tokens of callers are distinct, no heartbeat is under way for a lease that
was just claimed, and such a lease expires `LeaseTtl` after its caller's `now()`.

`ConversationProofs`. `Typed` adds what a handler has at which label. `FreshClaws` (for
`ThreadIsSequence`): a claw whose thread is yet to be created is its creator's alone and has no
rows, so resetting its cursor loses nothing. `BatchInv` (for `NothingIsSkipped`): what a handler
will acknowledge, by its offset or its 200, is settled or still in its batch, and so is all the
saved cursor covers. `OrderInv` (for `AskedInOrder`) rests on it: when a handler asks for the
first message it has left, the earlier ones are settled by its pledge. `AnswerInv` (for
`RepliesAreRecorded`) carries the row from the commit to the reply. That a nonempty batch has a
first message is the well-foundedness of the naturals.

`RunSlicesProofs`. `Typed` adds to the types that a live task has attempts left and that tasks and
slices refer to rows that exist. Checkpoints and approvals keep their transcripts (`RowsStay`), and
a step moves a worker's slice in one of eleven ways (`Moves`: it stays, ends, begins, reads its row,
asks, passes a gate, answers, turns, parks) and a task in one of six (`TaskMoves`); the other
invariants are carried along these. `OnceInv` (for `OncePerCall`): what was executed has a row in
the ledger. `AnswersInv` and `WholeInv` say of checkpoints and approvals what the properties say of
slices. `DueInv` (for `DueSliceIsRunnable`): a resume task has one attempt (`OneAttempt`), the row
of a due task and of a slice that has just yielded is pending (`Fresh`), and no two tasks or slices
that have yet to use a row share it (`Apart`). `ProgressInv` (for `SlicesMakeProgress`): the slice
of the worker that holds a run's task extends the transcript the task started from, and is longer
once it has yielded; of a zombie's slice nothing is claimed, since its commit is not accepted.

`PiiVaultProofs`. A step of a walk is one of nine (`WalkMoves`) and a step of an erasure one of
five (`EraseMoves`). `Typed` adds that every token in use was drawn. `OneValue` (for
`TokenMeansItsValue` and `SparesNamesakes`): over the rows, the texts and the spans in hand
together, a token has one value; every step keeps to the pairs that are there but `Mint`, whose
token is new. A token is `Dead` when nothing resolves it and no walk is about to save it; dead
tokens stay dead. `SavesOK` says that a walk about to create a row is alone with its token
(`Fresh`), unless the token is contested; `LinksOK` is `ErasureReaches` with the walks in
progress; `ErasesOK` (for `ErasedIsGone`): what an erasure has still to answer for is dead or on
its list. The three are proved together: a created row needs no link of an earlier text because
its token is fresh, and links are removed only when their token is dead.

The parts. `Components` runs one part at a time, so each theorem is of the form "if the part is this
one, its invariant holds", and a step is the part's own or leaves its variables alone.

`GovernanceProofs`. `GateInv` (for `CallsPassTheGates`): the lists are in the order that `add` keeps,
with the sealed gates in front (`InOrder`), every gate before the next one to be asked has passed or
is bypassed (`PassOK`), a bypass goes with an approval consumed by this call (`ResumeOK`), and what a
call has left in the stores is known from the after-gates that have seen it (`TraceOK`). `SealedStay`
follows from the same step lemmas. `AuditInv` (for `VerdictIsSound`): while nobody has touched the log
it is a chain over what was appended and every anchor is of a prefix of it (`AsWritten`); afterwards
an anchor still stands for some chain (`AnchorStands`). That a log which verifies begins with the
anchored bodies is then an argument about two chains with one head: hashes here are injective, as a
hash that does not collide is, so they are equal entry by entry, from the head downwards (by the least
number of steps back at which they would differ). `RouterInv` (for `QuietDecisionsAreCurrent`): a
cached build began under the key it is kept under, a key tells of a number of events its
organization has had (`KeyIsDue`) and, as long as no write disturbs the decision, of the present one
(`KeyIsCurrent`); a finished build whose key is current and uncontested is of the present rows
(`BuildIsOK`); an organization without events has no rows (`RowsAreTold`), so that all of them
share the system's bundle.

`ProductProofs`. `AccessInv` (for `AccessIsAsGranted`) says what a call has read by each of its steps:
the owner and the label of the resource's base, grants that were there at some moment, and all that
were there throughout (`ShapeOK`), between what held at some moment and what held throughout
(`WindowOK`); entitlement is monotone in both (`ClimbOnce` and the lemmas about the graph of access).
`RecordingInv` (for `HistoryIsWhatHappened`): an invocation has one of seven kinds of things left to
tell (`PlanOK`), the rows already have what it has told (`ToldOK`), and an invocation that is alone
finds them as it left them; approvals parked and invocations that may still park one are together no
more than were begun. `StorageInv` (for `OneTaker`) counts: the calls that took a row, those that
have yet to hear of it, the row if it is free and the turn a transaction holds are together no more
than the times it became free (`Ledger`); `TransactionOK` is what a transaction's copy may differ in.

`PluginProofs`. `ChannelInv` (for `BotsAreKeptApart`): of two registrations of one hook behind the
check, and of one and a row, the later saw the other, or the hook is contested (`HookOK`); a request
goes by a name of the right kind, and a token that was given to it (`Bound`, `GivenOK`). `SecretsInv`
(for `ResolvesToTheNearest`): a key no two saved at once has one row, with what was saved last
(`RowsAreRegistered`); a resolution that has gone past a boundary asked it while it held nothing
(`GoesOutward`). `RegistryInv` (for `SurfaceIsAsRegistered`): what is left to write of a registration
that is alone is what the tools lack of its document (`TodoIsTheRest`), rows are single while no two
registrations have overlapped (`RowsAreSingle`), a remembered registration is what the rows say
(`LastIsTheSurface`), and the overlay has of an action what was said of it last or what the call in
progress has left of it (`SaysLast`). It was this proof that showed that ids must not be used again.

The operators. A part that is a function has one state per input, so its invariant is a statement
about the function, for every input that is `IsGiven`. What the code does entry by entry is a
recursive function local to its operator, which the provers can use once it is known what it is:
that it exists and is unique is shown by the least place where two would differ, as are the
statements about all its prefixes. For `StoresSelectAlike` a clause is taken operator by operator:
what each adapter's condition says of a column agrees with what is meant unless the clause is
`Unclear`, on every database (for text of one case, all orders are one: `OrderIsMeant`), and the joins of groups and of the whole where keep the agreement, whichever way the
adapter nests them. For `FloorHolds` the invariant of the merge is `KeepsAll`: after any number of
slices the live policies still have every policy of the floor and every one of the enforced slices,
under their own names, which no later slice can take (`Taken`); that the bundle of the enforced
slices alone decides the same (`EnforcedSuffice`) is one more argument over the prefixes. A forbid
is then found whatever else the set holds, and the model has every tool that declares an access, a
writing one among "writes", and no other (`ModelIs`). For `CallsAreTheOperations` the plan is shown to
invert the extraction (`PlannedIsSent`): a parameter that is required is carried or refuses its
operation, a name of both a parameter and the body refuses it too, and with one parameter of each
name an argument goes where it was declared; that a place and a name have one parameter, the last word
on it, is `MergedIs`; the credentials are those of the first alternative that
ends the search (`CredentialsAreOfOne`); and the floor's tests, which go byte by byte or mask by
mask, cover the intervals of the private networks (`AllowedIsReachable`), by the division of a
number into its halves. What is connected to is one of the addresses that passed, unless a named host
resolved to another one.

Only model-checked: everything under fairness (`EveryTaskEnds`, `ConsumedIsExecuted`,
`CompletedIsResumed`), which is out of the prover's reach, and the runs that show a violation. Every
safety property of a passing run, and the refinement, is a theorem.

## 6. What is not modelled, and the plan

Not modelled: contents of messages, inputs, outputs, errors and events; the `idempotency_key` table;
the cron's drain limit and its soft deadline (a slice may yield at any time instead); compensation
of effects (no code writes those statuses); streaming and sub-invocations of invoker tools; the
posture of a claw, span merging and the recovery of mangled placeholders; teams, skills, pointers to
secrets and the lists; transactions of several calls on a database; sorting and paging. Left out for
good: HTTP routing, the client, telemetry, formatting, type definitions, the assembly of a claw from
its options, the sandbox's interpreter, the identity library and the drivers, which keep no protocol
state of this program.

What comes next:

1. Liveness of whole runs with dead-lettering, in `RunSlices`.
2. The rest of redaction as operators: span merging, placeholders, the posture of a claw.
3. The order of `tool.waiting_approval` and the grant it waits for (ai-sdk-loop.ts:417), which needs
   the stream of events beside the approvals.

The small components share a module for TLC because each of them alone is a few thousand states, and
nothing they keep is shared: their rows belong to one store each, and what one component reads of
another's is open in its own module. `RecordingSink` and `Conversation`, `Policies` and
`PolicyRouter`, and `ApiAccess` and `Gates` are two views of one call; composing them would multiply
their states without a step that reads both.
