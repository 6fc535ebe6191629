# A TLA+ model of the AnonReq gateway

AnonReq is a privacy gateway for LLM traffic.  A client sends it an OpenAI-style
chat request; the gateway classifies it, detects personal data, replaces every
detected span by a token such as `[EMAIL_1]`, stores the token mapping in a
cache, forwards the tokenized body to a model provider, restores the tokens in
the reply, deletes the mapping and writes one event to a hash-chained audit log.
It must do so under failure: the rule of the code is *fail secure* (a request
that cannot be sanitised is not forwarded) and *fail closed on audit* (a request
that cannot be audited is not answered as a success).

This directory holds TLA+ modules translated from the Python source in
`src/src/anonreq/`, the TLC configurations that check them on small instances,
and TLAPS proofs.  `PROJECT.json` lists the components, the runs, the theorems,
the hazards and, under `map`, the source lines each definition models.

    tlc -workers 2 -config MCChatCompletions_faults.cfg MCChatCompletions
    tlc -workers 2 -config MCGovernance.cfg MCGovernance
    tlapm ChatCompletionsProofs.tla
    tlapm GovernanceProofs.tla

Contents: [inventory](#1-inventory) · [modules](#2-modules-and-the-code) ·
[runs](#3-runs) · [fairness](#4-fairness) · [proofs](#5-proofs) ·
[disagreements](#6-where-the-code-and-its-documents-disagree) ·
[not modelled](#7-what-is-not-modelled) · [plan](#8-plan)

## 1. Inventory

"Hard" names what makes a part hard to test.  First the path of a request, then
what surrounds it.

| Part | State | Operations | Interacts with | Hard | Correct when |
|---|---|---|---|---|---|
| Non-streaming handler, `PipelineManager` (`routing/chat.py`, `pipeline/manager.py`) | `ProcessingContext`, the manager's `surfaced` and `ran` locals | receive, run a stage, run guaranteed stages in `finally`, answer | stages, cache, provider, chain | cancellation at any await, errors in cleanup replacing errors of the run | nothing in clear text is forwarded; 200 means audited; the first error is the one reported; the mapping is deleted |
| Stages (`pipeline/*.py`) | fields of the context | classification, locale, detection, sensitivity, policy, DLP, tools, tokenization, guard, provider, restoration, cleanup | Presidio, policy, DLP, tool engines | a stage that fails halfway | a failed stage stops the run before the provider |
| Streaming handler (`routing/chat.py`, `streaming/`) | generator locals, `SessionCleanup` flags | pre-provider run, early rejection, event loop, closing frame, `finally` | cache, adapter, chain, rotation buffer | two cancellation paths (await and yield), cleanup in another `Context` | as above, with `[DONE]` for 200; sessions are returned |
| Tail buffer (`streaming/tail_buffer.py`) | buffer, FSM state, age | ingest, bypass, flush, terminate | the stream, the restorer | chunk boundaries inside tokens, size and age limits | no text lost, bounded buffer, no token cut while it arrives |
| Secret rotation (`secrets/`) | process-wide store, current and previous snapshot, open sessions | reload, rotate, begin and end session | streams | a rotation between two steps of a stream | a stream keeps its snapshot; old secrets are dropped with their last session |
| Mapping cache (`cache/manager.py`) | one Valkey hash per context, with a TTL | store, get, delete, with retries | tokenization, restoration, cleanup | a call that failed and was applied | a mapping outlives its request only by a failed delete |
| Audit emission (`pipeline/audit_emit.py`) | attempt counter | write with timeout and retries | both handlers, chain | a timeout racing a commit | one event per request; bounded attempts |
| Audit chain and anchors (`services/audit_chain.py`, `services/chain_anchor.py`) | `audit_event`, `audit_anchor` tables | log_event, store_event, verify_chain, daily anchor | PostgreSQL | overlapping transactions, commits nobody waits for, midnight | each event once; every link leads back; anchors verify |
| Detection, arbitration, masking (`detection/`, `tokenization/`, `pipeline/detection.py`) | tokenizer session: counters, dedup map, mapping | collapse, merge, exclude, validate, tokenize, restore | tokenization and restoration stages | chains of overlaps, a value that is secret and not secret | the union is masked; secrets are never restored; everything else is |
| Tool approvals (`governance/approval.py`) | one Valkey hash per token | create, poll, approve, deny, cleanup | operators, tool governance | read and write in separate commands | a token is decided once and never reopened |
| SOC delivery (`soc/`) | bounded event bus, sink clients; per sink a bounded queue with a retry task | publish, normalize, fan out, send, retry, start, stop | detection engines, SIEMs | failing sinks, eviction while retrying, shutdown order | no content leaves; sinks do not affect each other; order; bounded retries |
| Policy engine (`policy/`, `middleware/policy.py`, `admin/policy_routes.py`) | rules in Redis and in memory, decision cache, rate, concurrency and spend counters | evaluate, load and fill, check, count, upsert | middleware, policy stage, administrators | cache fills racing upserts, rule ids in path and body, counters at their limit, Redis errors | a failing check blocks; limits hold; an acknowledged rule is not lost |
| Access (`middleware/`, `auth/`, `admin/auth.py`) | settings, tenant registry, JWKS cache and its lock | the middleware chain, three credential checks, key fetch | identity provider | requests sharing one key cache while keys rotate | a caller acts for its own tenant only; keys of one kind open no other kind of route; withdrawn keys age out |
| Content guards (`firewall/`, `services/dlp_engine.py`, `services/classification_engine.py`) | rule file and loaded rules, sliding window, pattern database, tenant patterns, entity levels | load, evaluate at both gates, ingest, reload, inspect, classify | middleware, DLP stage | half-done reloads, patterns cut by chunks, results that replace one another | a severe hit stops a reply; the window sees what fits; each stage only tightens |
| Tool governance (`governance/tool_*`, `pipeline/tool_governance.py`, `agent/`, `mcp/`) | parsed policies, sanitizer session and mapping | load, judge, inspect, sanitize | pipeline, MCP, agents | a reload half way, overlapping sanitizer calls | a blocked tool does not pass; a sanitized result can be restored from its session and from no other |
| Providers (`providers/`, `routing/alias_registry.py`) | aliases, key store, one stream | route, rotate, read a line, end | both handlers, provider APIs | text and end mark in one line or two, broken streams | a stream says what the whole reply says; a credential is the provider's own |
| Voice (`voice/`) | window, emitted ranges, STT model and lock, transcript buffer, connections, fragments | hear, detect, transcribe, load, close, connect, receive | STT engine, WebSocket | speech cut by windows, loads that start together, fragments out of order | a secret the overlap can hold is found however it is cut; one model; newest texts kept |
| Process (`main.py`, `bootstrap/`, `startup_checks.py`, `health.py`) | open resources, attributes of `app.state` | check, bootstrap step, serve, stop | all services | one bootstrap step or stop of many that raises | it serves only with all critical services; a clean stop closes all |
| Sinks (`soc/sinks/`, `soc/health.py`, `soc/sink_factory.py`) | client, token, connection, health cache, sink configuration | start, send, probe, build, stop | SIEM products | lost answers, token expiry in flight, dead connections | delivered means stored |
| Proxy and gateway (`proxy/`, `gateway/`) | connections, leaf contexts, CA files, TLS contexts, routes, PAC | accept, firewall, certify, dispatch, upload, reload, add and remove | clients, pipeline, CA directory | half-written pairs, uploads over the files of the active CA, debounced reloads, two tables of one thing | only the pipeline or a refusal answers; what failing uploads leave is confined to their serial |
| Data subjects (`dsar/`, `retention/legal_hold.py`, `governance/router_dsar.py`) | requests, holds, restrictions and their cache keys, mapping keys | submit, verify, fulfil, erase, restrict, hold | database, cache | a hold that comes between check and erasure, errors in the middle of a scan | a hold that lasts blocks; deleted means gone |
| Records (`lineage/`, `retention/`, `ediscovery/`, `services/lifecycle.py`, `services/dsar.py`) | lineage table, archive, tiers, JSON values in Redis | record, purge, export page by page, transition, process | PostgreSQL, Redis, MinIO | pages over a changing list, read-modify-write of JSON, a failure between two keys | an export holds each record once; state paths are legal; a trail tells of what was saved |
| Service levels (`services/slo_engine.py`, `services/breach_detector.py`) | windows, last breach, webhook tasks, dead letter queue | record, evaluate, send, retry, acknowledge | Redis, webhook | two counters of one event, cooldown across evaluations, an end between stamp and task, a queue at its limit | no breach vanishes but where a step ended early; an evaluation respects the stamps it could see |
| Registers (`governance/`, `breach/`, `services/oversight.py`, `services/transparency.py`) | rows of suppliers, records, risks, inventories, approvals, incidents | trigger, review, update, decide, notify, escalate | operators, database | rows read and written back, a shared session after an error, a commit that raises | triggers are lost only to calls that overlap; decisions stand; counted notices are stored |
| Audit exports (`api/v1/admin/audit.py`, `services/audit_export*.py`) | page cursor, objects, export records | request, fetch a page, upload, record | audit table, MinIO | rows that commit between pages and out of order, exports of a month that overlap | every row of the beginning once; recorded means uploaded |
| Discovery (`discovery/`, `casb/`) | logs, inventory, activity log, price tables | log, merge, enforce, set price | log sources | several readings of the same logs, a log cut at its limit | the readings agree; the log keeps the newest |
| Agents of an installation (`appliance/`, `endpoint/`, `secrets/reloader.py`) | compose file, running image, configuration file, secret files, loops | update, reconfigure, restart, replace, reload, start, stop | docker compose, file watcher | timed-out commands that go on, debounce, start during stop | an undisturbed update runs what was asked for; a prompt watcher catches up |

`PROJECT.json` lists all parts, with what is left out of each; four are not
modelled (section 7).

How the parts meet: both handlers run the same pre-provider stages on one
context; the stages share the mapping cache (written by tokenization, read by
restoration, deleted by cleanup) and the audit chain (written by cleanup).  A
stream also takes a session of the rotation buffer.  Everything runs as tasks of
one asyncio event loop, so tasks interleave at awaits only; Valkey and
PostgreSQL serialise single commands and statements.

## 2. Modules and the code

| Module | Models | State | Actions |
|---|---|---|---|
| `PipelineStages` | the thirteen stages as operators from a context to the set of contexts they may leave; no variables | | |
| `ChatCompletions` | `chat_completions`, `PipelineManager.run`, `CleanupStage`, `emit_anonymization_audit` | per request: `pc`, `stage`, `ctx`, `surfaced`, `inFinally`, `pending`, `raising`, `attempt`, `cancels`, `response`; services: `cache`, `provider`, `audit`, `inflight` | `Receive`, `NotReady`, `RunStage`, `StoreMapping`, `CallProvider`, `ProviderAnswers`, `DeleteMapping`, `AuditWritten`, `AuditFails`, `Cancel`, `Expire`, `LateCommit`, `Crash` |
| `ChatStream` | `_stream_chat_completions`, its generator, `SessionCleanup`, `SecretRotationBuffer`, `SecretVolumeReloader.reload` | `task` (one record per request), `store`, `rotation`, and the services with `key`, the credential version the provider saw | as above, plus `StartStream`, `FetchMapping`, `StreamEvent`, `CloseStream`, `FinishStream`, `ReplaceStore`, `Rotate`, `Abandon` |
| `AnonymizingGateway` | the promise of both handlers, per request: sanitised, forwarded, audited, answered | `mapped`, `forwarded`, `audited`, `answer` | `Sanitize`, `Forward`, `Audit`, `Complete`, `Reject` |
| `AuditChain` | `store_event` as four statements at READ COMMITTED, the caller's retries, `verify_chain`, daily anchors | `caller`, `txn`, `table`, `today`, `anchors`; `contended` is history | `Begin`, `SelectLatest`, `LockGranted`, `CheckExisting`, `Insert`, `Commit`, `Timeout`, `Rollback`, `RunDailyAnchor`, `Midnight` |
| `TailBuffer` | the FSM of `tail_buffer.py` over real characters, with its two regular expressions | `text`, `fed`, `active_buffer`, `state`, `emitted`, `bypassed` | `Ingest`, `Bypass`, `FinishStream`, `Terminate` |
| `SpanMasking` | `_collapse_overlaps`, `SpanArbiter.merge`, exclusions, checksums, `Tokenizer`, `Restorer` | `regex`, `other` (reported spans), `counters`, `tokens`, `mapping`, `masked`, `accepted` | `RegexHit`, `OtherHit`, `MaskNode` |
| `ApprovalManager` | all operations of `approval.py`, split at their Valkey commands | `record`, `expired`, `call`; `call.with` is history | `CreateApproval`, `Start`, `ReadForDecision`, `WriteDecision`, `ReadForPoll`, `WriteExpired`, `Visit`, `DeleteKey`, `ScanEnds`, `Fail`, `LoseReply`, `Overrun`, `KeyExpires` |
| `SinkBuffer` | the bounded queue and its retry loop | `queue`, `counter`, `sendLoop`, `hand`, `attempt`, `unfinished`, `starts`; `fate`, `sends`, `received` are history | `Put`, `Start`, `Get`, `Send`, `Wake`, `Stop` |
| `SocDelivery` | event bus, content filter, fan-out, start and stop as the lifespan wires them | `phase`, `bus`, `published`, `openSinks`, `loop`, `event`, `next`; `offered`, `delivered` are history | `StartAll`, `PublishRaw`, `Consume`, `SendToSink`, `FanOutEnds`, `StopAll`, `StopNormalizer` |
| `PolicyEngine` | store, decision and enforcement points, limiter, spend, residency, upserts | `decided`, `stored`, `own`, `rpm`, `calls`, `spend`, `req`, `upsert`; `fresh`, `standing`, `single`, `stale` are history | `Evaluate`, `GetRules`, `FillRules`, `CheckRate`, `CheckSpend`, `BeginUpsert`, `LoadForUpsert`, `FillForUpsert`, `SaveRules`, `Increment`, `Decrement`, `RecordSpend`, `NextWindow`, `NextDay`, `RulesExpire`, `DecisionExpires` |
| `AccessControl` | the middleware chain, the credential checks, the JWKS cache | `conf`, `client`, `jwks`, `fresh_`, `lock`, `published` | `Arrive`, `GetKey`, `ReadJwks`, `Refresh`, `FetchFails`, `RotateKeys`, `CacheExpires` |
| `ContentGuards` | rule firewall, sliding window, inline firewall, DLP and classification | four groups of variables, one per part | `LoadRules`, `BuildEngine`, `Inbound`, `CallNext`, `Outbound`; `WindowIngest`, `FlushWindow`; `ReloadPatterns`, `EvaluateInline`; `LoadTenantPatterns`, `UpdateEntityMap`, `Submit`, `Classify`, `InspectRequest`, `Decide`, `GateAnswer` |
| `ToolGovernance` | policy parser, tool stage, MCP and agent inspectors, sanitizer | `policies`, `inForce`, `last`, `worker`, `seed`, `session`, `mappings`; `latest`, `sharing` are history | `LoadPolicy`, `Stage`, `EvaluateCall`, `InspectMcp`, `InspectAgentCall`, `InspectResult`, `BeginSanitize`, `SanitizeString`, `EndSanitize` |
| `ProviderAdapters` | alias and adapter lookup, credentials, streams of four adapters | `environ`, `keystore`, `route`, `adapter`, `header`, `system`, `lines`, `stEvents`, `ending` | `Route`, `RotateKey`, one action per adapter's line, `StreamEnds` |
| `VoiceStream` | voice pipeline, STT engine, connectors | three groups | `OpenVoice`, `HearChunk`, `EndVoice`; `Transcribe`, `TakeLock`, `ModelLoaded`, `LoadFails`, `Heard`, `CloseEngine`; `Connect`, `IdleTimeout`, `SendMessage`, `ReceiveFragment`, `StopChannel` |
| `Lifespan` | `create_app`, the lifespan, `_shutdown` | `boot`, `life`, `at`, `tries`, `open`, `attr`, `broke`, `ready` | `StepDone`, `StepRaises`, four outcomes of the Presidio check, `HealthReady`, `SignalStop`, `StopOne`, `StopRaises` |
| `SinkTransports` | six sinks, health monitor, sink factory | `kind`, `client`, `sending`, `remote`, `acked`, `token`, `line`; `probed`; `built` | `BeginSend`, one `Post…` per sink, `AcquireToken`, `EnsureConnection`, `WriteLine`, `PeerCloses`, `Probe`, `BuildSinks` |
| `TrafficProxy` | both proxies, CA directory and TLS contexts, routes and PAC | three groups | `Accept`, `Firewall`, `Certify`, `Dispatch`, `ReverseHandle`; `Upload`, `DropFile`, `FileEvent`, `Reload`, `ReloadCa`; `AddRoute`, `RemoveRoute`, `AddPacRule`, `RemovePacRule`, `ServePac` |
| `DataSubjects` | DSAR workflow, erasure, restriction, holds | `wiring`, `requests`, `holdRows`, `restricted`, `cached`, `keys`, `erasures`, `call` | `SubmitRequest`, `VerifyRequest`, the steps of fulfilling, erasing and restricting, `ActivateHold`, `ReleaseHold`, `ExpireHold`, `WriteMapping`, `CacheExpires` |
| `RecordKeeping` | lineage, retention, eDiscovery; lifecycle; Redis services | three groups | `RecordLineage`, `UpdateRetention`, `PurgeExpired`, `ScheduledPurge`, `BeginExport`, `ExportPage`; `ReadState`, `WriteState`, `ReadHistory`, `WriteHistory`; `CreateTicket`, `ReadTicket`, `SaveTicket`, `ListTicket`, `ReadTrail`, `WriteTrail`, `CallRaises`, `ImposeHold`, `IndexHold`, `ReleaseHoldKey` |
| `SloBreaches` | SLO windows, breach detector, webhook tasks, dead letters | `fixed`, `rolling`, `recorder`, `lastBreach`, `evaluator`, `task`, `dlq`, `retry`; `breaches`, `fate` are history | the steps of recording; `Evaluate`, `CheckCooldown`, `StampBreach`, `FireWebhook`, `Leave`, `EvaluateEnds`; `Deliver`, `DeliveryFails`, `PushDlq`, `TrimDlq`, `TaskEnds`, `AckDlqEntry`, `RetryDlq`, `RetryOne` |
| `GovernanceRegisters` | suppliers, records, risks; inventories and report; oversight; incidents and notifications | four groups; `raised`, `stale` and what a notifier `failed` and `counted` are history | one action per operation, the row read and written back in two, a notice sent and committed in two |
| `AuditExports` | readers of the audit table, monthly export | `auditRows`, `inserting`, `lastId`, `reader`; `monthEvents`, `exporter`, `bucket`, `tracking` | `TakeId`, `CommitRow`, `RollBackRow`, `Request`, `FetchPage`, `FailPage`; `CheckTracked`, `FetchMonth`, `UploadFormat`, `RecordExport`, `FailExport`, `LateEvent` |
| `AssetDiscovery` | discovery merges and inventory, CASB, prices | `logged`, `taken`, `inventory`; `casb`, `recorded`; `prices` | `Log`, `MergeInventory`, `RemoveRecord`; `Enforce`; `SetPricing` |
| `Operations` | appliance agent, secret watcher, endpoint agent | three groups | `StartUpdate`, `PullDone`, `UpDone`, `UpTimesOut`, `OrphanEnds`, `UpdateConfig`, `RestartAgent`; `Replace`, `Look`, `DropEvent`, `ReloadSecrets`; `StartAgent`, `StopAgent`, `AgentStopEnds`, `LoopEnds` |

**Contracts.**  The properties of a module are named formulas; where there are
several invariants, one conjunction of them, the module's contract, is what the
run checks (`PolicyEnforced`, `AccessSound`, `ToolsGoverned`, …).  Each part has
its own mutant in `PROJECT.json`, which changes a definition the way a bug in
the code would and must break the contract.

`ChatCompletions` and `ChatStream` extend `PipelineStages` and instantiate
`AnonymizingGateway` with a refinement mapping.  The `MC…` modules hold the
values of the constants.  The `…Proofs` modules hold the theorems; each extends
the modules it is about (section 5).  `Lists` holds three operators of the proved
modules: `Kept`, the list comprehension by which the code drops entries,
`Sorted`, a set in the order of a sort key, and `Arranged`, a list sorted by its
positions, which is how a stable sort is written.
`PipelineStages` has no variables and `PipelineStagesProofs` no theorem of a
specification: it states what each stage does to a context, for both handlers.

**Specifications.**  A module with one part has one specification (`Spec`,
`ApprovalSpec`, `BufferSpec`, `SocSpec`, `SinkSpec`, `AccessSpec`, `PolicySpec`,
`LifeSpec`, `SubjectSpec`, `SloSpec`, `ProviderSpec`, `TailSpec`, `MaskSpec`).  A module whose parts share
no variable has one that lets the parts interleave freely (`OperationsSpec`,
`TrafficSpec`, `GovernanceSpec`, `RecordSpec`, `AuditExportSpec`, `AssetSpec`, `GuardSpec`, `SpeechSpec`): the
theorems are about these, the runs take a part at a time (section 3).

**Steps.**  A step is what a task does between two awaits: CPython runs it
without interruption.  A stage without external effect is one step; the mapping
store, the provider call, the delete and each audit attempt are steps of their
own, so that a cancellation, an expiry, another task or a crash falls between
them.  A stage that awaits before it has any effect can be cancelled there
(`SuspendingStages`).

**Failures.**  A cache call that raises may have been applied (`CacheFaults`
says which calls may fail; a failed delete leaves the key `"kept"`).  An audit
write that raises left nothing, a committed row, or a commit that lands later
(`inflight`, `LateCommit`).  A `CancelledError` is raised at an await and is not
caught by `except Exception`; in a stream it can also hit the server while the
generator is suspended at a yield, and the event loop then closes the generator
in another `Context` (`Abandon`, `foreign`).  `Crash` ends all tasks and keeps
the services.

**Data.**  What a recogniser, the policy engine or the DLP engine answers is a
nondeterministic choice.  `detections` keeps the three cases tokenization tells
apart (none, some reversible, only irreversible).  Hashes in `AuditChain` are
row ids (SHA-384 is taken to be collision free).  Scores in `SpanMasking` are
small numbers: the code only compares them.

## 3. Runs

Nine runs pass; three show that a statement of the repository does not hold.
The last five passing runs hold several modules each.  These modules share no
variable, so an interleaving of two of them says nothing a behaviour of each
alone does not say: the MC module's variable `part` picks, in the initial state,
the part that runs, and the others stay in an initial state of their own
(`Lifespan` in the state of a process that did not start).

| Run | Instance | Checks | Distinct states |
|---|---|---|---|
| `chat_faults` | 1 request, all services, both cache faults, 3 audit attempts, 2 cancellations | `TypeOK`, `NoCleartextForwarded`, `CompleteMeansAudited`, `FailuresAccounted`, `MappingReleased`, `ForwardOnlyWhileClean`, `EveryRequestEnds`, `ImplementsGateway` | 14,830 |
| `stream_faults` | 1 stream, 3 cache faults, 3 audit attempts, 2 cancellations, 1 rotation | `StreamRepliesSafe`, `StreamReleases`, `CleanupTerminates`, `StreamImplementsGateway` | 67,733 |
| `stream_sessions` | 2 streams, 1 rotation, no faults (symmetry) | `ReplacedSecretsKeptForOpenSessions` | 1,529,969 |
| `chain_overlap` | 3 events of 2 tenants, 2 attempts, 2 failing attempts, 2 open transactions, 1 midnight | `AckedEventStoredOnce`, `ChainHoldsTogether` | 1,708,301 |
| `content` | `SpanMasking`: 2 nodes of 3 and 1 characters, up to 2 regex and 1 other hit; `TailBuffer`: 3 texts in all chunkings of up to 5 characters, window 6, limit 10, 1 bypass; `ContentGuards`: window of 4, streams of 9, 2 tenants; `VoiceStream`: 6 chunks, secrets of 2 and of 4 characters, 2 listeners, 2 messages of 3 fragments; `ProviderAdapters`: 4 adapters, 4 lines, 1 rotation | `MaskingSound`, `StreamIntact`, `GuardsHold`, `VoiceSound`, `AdaptersFaithful` | 906,595 |
| `tools` | `ToolGovernance`: 2 loads, 2 overlapping sanitizer calls; `ApprovalManager`: 2 tokens, 3 calls, 2 at a time (symmetry) | `ToolsGoverned`, `DecisionsOverlap`, `DecisionsKept` | 2,775,592 |
| `front` | `AccessControl`: 2 clients, 2 keys, 1 rotation, 2 expiries; `PolicyEngine`: 2 requests, 2 upserts whose body may name another rule than the path, failing Redis, limits of 2 and 1 (symmetry) | `AccessSound`, `PolicyEnforced` | 3,108,648 |
| `service` | `Lifespan`: every deployment, 5 retries; `SocDelivery`: 4 events (1 with content), 3 sinks (1 disabled, 1 buffered), bus of 2; `SinkBuffer`: 4 events, queue of 2, 2 retries, 2 starts; `SinkTransports`: 6 kinds, 2 sends; `Operations`: 2 updates, 3 secret versions, 3 starts; `TrafficProxy`: 2 connections, 2 serials with 2 certificates each, 4 hosts | `ServiceWhole`, `SinksServedAlike`, `QueueOrderly`, `DeliveryHonest`, `AgentsSettle`, `ProxySound`, `StartEnds`, `QueuedEventsLeave` | 342,297 |
| `governance` | `DataSubjects`: 2 workers, 2 calls; `RecordKeeping`: 3 rows, 2 callers, 3 moves; `SloBreaches`: 1 event in 2 windows of length 2, 3 instants, 2 overlapping evaluations (symmetry) or several in turn with tasks and letters, 2 breaches, queue of 1; `GovernanceRegisters`: 2 clerks, 3 calls; `AuditExports`: 4 ids in pages of 2, committed in any order, 2 exporters; `AssetDiscovery`: 4 entries, log of 3 | `SubjectRightsKept`, `RecordsAgree`, `BreachesReported`, `RegistersAgree`, `OversightStands`, `ExportsComplete`, `DiscoveryAgrees` | 1,302,296 |
| `chain_fork` | 3 events of 1 tenant | `ChainNeverForks` is violated | |
| `tail_split` | the texts, window and limit of `content` | `NoTokenSplit` is violated | |
| `span_collapse` | 1 node of 4 characters, 2 regex hits | `ReportedSpansMasked` is violated | |

What the passing runs show:

- **Both handlers keep the gateway's promise** (`ImplementsGateway`,
  `StreamImplementsGateway`): a body leaves at most once and only sanitised, and
  a complete answer implies the forwarded body and, with a chain, the audit
  event.  For the stream the complete answer is `[DONE]` without an error frame.
- **The guaranteed cleanup works where it says it does.**  After any single
  cancellation of the manager's main loop the mapping is deleted and the audit
  event is tried for as often as configured (`MappingReleased`,
  `AuditGivenUpOnlyAfterAllAttempts`).  `InterruptedOnce` says exactly which
  interruptions are meant: a cancellation *inside* the `finally` block is not
  survived, nor one that hits the delete when the audit write then fails, since
  the 500 replaces the `CancelledError` and the cleanup counts as run.
- **An audit event is stored once**, whatever timeouts, retries and late commits
  do: the idempotency check alone would not do it (two attempts can both pass
  it), the unique constraint decides.
- **Only a tenant's own overlapping writes break its chain**
  (`UncontendedChainVerifies`); other tenants, timeouts and rollbacks do not.
- **Approval decisions conflict only when they overlap** (`DecisionsOverlap`,
  `DecisionsKept`), and no interleaving makes a resolved token pending.
- **Policy fails closed and its limits hold**: a Redis error in any check blocks
  the request, the limiter counts and compares in one step, and an acknowledged
  rule is among those that the store returns once its key is as new as the last
  acknowledged upsert (`Returned`), until an upsert with its id in the path
  replaces it; of upserts that overlapped, or had read older rules, only the
  own rule is sure (`PolicyEnforced`).
- **A caller acts for its own tenant** with every credential and header, and a
  withdrawn signing key is refused once the cache has dropped it, whoever is
  waiting on the cache's lock (`AccessSound`).
- **The process serves only when it is whole** and, when every stop returns, a
  shutdown closes everything, except sinks whose router or health monitor failed
  to start (`ServiceWhole`); a start ends, in service or with an error
  (`StartEnds`).
- **A hold that lasts through a fulfilment blocks the erasure**, and an erasure
  reported as done by its service, whose scan met no cache error, has left no key
  that was there before (`SubjectRightsKept`).
- **Page walks are complete**: the keyset walk sends every row of its beginning
  once, whatever commits meanwhile and in whatever order, the offset walk misses
  none; beyond them a snapshot sends only rows that were being inserted when it
  began (`ExportsComplete`); the eDiscovery export holds each record once at every
  page size (`RecordsAgree`).
- **A breach does not vanish by itself**: once stamped it is delivered, in the
  dead letter queue, acknowledged, trimmed or on its way, unless the evaluation or
  the task was cancelled or failed before its next step; and an evaluation reports
  no window within the cooldown of a breach stamped before it looked
  (`BreachesReported`).
- **Records tell of what was saved**: the trail of a ticket has no entry without
  its change and every change whose call returned without another on the ticket
  meanwhile, although every command may fail (`RecordsAgree`); a trigger is lost
  only to a call that had read the supplier before it was raised, and a notice
  is missing or uncounted only after a statement that failed (`RegistersAgree`).
- **Sanitized results stay restorable for the call that began last**: no token
  stands for two values in any session, and the mapping forgets what was finished
  before (`ToolsGoverned`).
- **Speech and fragments**: a secret whose beginning lies within the overlap is
  found however the chunks cut it; transcriptions that start together load one model
  (`VoiceSound`).
- **Edges**: without `fail_open` only the pipeline or a refusal answers a
  connection, and a certificate the CA manager knows is on disk with its key,
  unless an upload under its own serial failed or a copy by hand changed the files
  (`ProxySound`); an update
  nothing disturbed runs the image it reports (`AgentsSettle`).

Several of these hold only with the condition their comment states (no overlap,
no failed write, no timed-out command).  Section 6 lists the formula without
the condition, which fails.

**Bounds.**  Requests share no state in `ChatCompletions` (the keys carry the
context id, events carry their own id), so one request shows what happens to
each; the theorems hold for any number.  Two streams are needed where they share
the rotation buffer.  Two cancellations cover one in the main loop and one in
the `finally` block; three attempts have a first, a middle and a last one.  In
`AuditChain` a fork needs two writers of a tenant and a third event shows that
another tenant is not affected; two failing attempts exhaust the retries of one
event.  In `TailBuffer` the window holds the longest token of the texts, as the
code's does, and the texts have complete, broken, nested and overlong partial
tokens.  Three hits are the fewest in which a union meets a further survivor.
In the other modules two callers are the fewest that overlap, and each limit
(queue, page, log, window, budget, retry count) is set one or two below the
number of events, so that it is reached, passed and, where the code resets it,
reached again.  Clocks run just past the longest interval the code compares
with (cooldown, token life and its margin, retention, debounce).  `MCGovernance`
lets evaluations of a breach overlap while the tasks of those they have stamped
rest, and lets tasks and letters go on with one evaluation at a time, cancelled
at any step: an evaluation meets a task only where it makes it.  The theorems of
`SloSpec` have no such restriction.  `MCFront` and
`MCGovernance` do not check deadlock: their tasks end and the counters of calls
are bounded.  Symmetry is used only in runs without liveness properties.

## 4. Fairness

Only liveness properties use it, and each condition is something the code or
its platform provides.

- `ChatCompletions!FairSpec`: weak fairness of `Progress(r)` and `Expire(r)`.
  The event loop runs every ready task, and every call a stage waits for is
  bounded (HTTP client timeouts, `wait_for` around the audit write, the retries
  of the cache); Valkey expires keys.  No fairness of success is assumed: an
  audit write may fail every time.
- `ChatStream!FairSpec`: weak fairness of `CleanupStep(r)` only.  How long a
  provider streams is not bounded by the gateway, so no liveness of the stream
  itself is claimed.
- `SinkBuffer!BufferFairSpec`: weak fairness of `Get`, `Send` and `Wake`, the steps of
  the running loop; `Start` and `Put` are not fair.
- `SocDelivery!SocFairSpec`: weak fairness of `Consume`, `SendToSink` and
  `FanOutEnds`, the steps of the consume loop.
- `Lifespan!LifeFair`: weak fairness of `LifeStep`, the next step of a starting
  or stopping process: every check has a timeout and every bootstrap function
  returns or raises.  Whether the process is ever told to stop is not assumed.
- `MCService!ServiceFair`: the fairness of the buffer and of the lifespan, each
  for the behaviours in which that part runs.

The other new modules have safety properties only: how soon an operator, a
provider or a data subject acts is nothing the code guarantees.

## 5. Proofs

Thirty-six of the forty properties the runs check, both refinements among them,
are theorems of the specifications, for every value of the constants.  Each proof starts from an inductive invariant named `…Inv`: a lemma
for the initial states, one step per action, and a theorem that turns it into
the property.  An invariant was first given to TLC as an invariant of the run of
its module.

| Module | Theorem | States | For every |
|---|---|---|---|
| `ChatCompletionsProofs` | `PipelineInvariant`, `TypeCorrect` | `[]PipelineInv`, `[]TypeOK` | set of requests, configuration, default action, set of failing cache calls, up to five audit attempts, any number of cancellations |
| | `ForwardingIsSafe` | `[]NoCleartextForwarded` | |
| | `CompleteIsAudited` | `[]CompleteMeansAudited` | |
| | `ForwardsOnlyWhileClean` | `ForwardOnlyWhileClean` | |
| | `AccountInvariant`, `FailuresReported`, `MappingsReleased` | `[]AccountInv`, `[]FailuresAccounted`, `[]MappingReleased` | |
| | `GatewayImplemented` | `ImplementsGateway` | |
| `ChatStreamProofs` | `StreamInvariant`, `StreamTypeCorrect` | `[]StreamInv`, `[]TypeOK` | as above, any number of rotations |
| | `StreamRepliesAreSafe`, `StreamsRelease` | `[]StreamRepliesSafe`, `[]StreamReleases` | |
| | `ReplacedSecretsKept` | `[]ReplacedSecretsKeptForOpenSessions` | |
| | `StreamGatewayImplemented` | `StreamImplementsGateway` | |
| `GuardProofs` | `ApprovalInvariant`, `ApprovalTypeCorrect` | `[]ApprovalInv`, `[]TypeOK` | set of tokens and calls |
| | `DecidersOverlap`, `DecisionsAreKept` | `[]DecisionsOverlap`, `DecisionsKept` | |
| | `ToolInvariant`, `ToolsAreGoverned` | `[]ToolInv`, `[]ToolsGoverned` | set of documents, bodies, results, sanitizer calls, number of reloads |
| | `GuardInvariant`, `GuardsDoHold` | `[]GuardInv`, `[]GuardsHold` | rule lists, texts, alphabet, pattern and window, pattern files, words and levels |
| | `SpeechInvariant`, `VoiceIsSound` | `[]SpeechInv`, `[]VoiceSound` | transcripts, forms of secrets, window and overlap, listeners, time stamps, size of buffer and messages |
| `EdgeProofs` | `AccessInvariant`, `AccessIsSound` | `[]AccessInv`, `[]AccessSound` | set of clients and keys, number of rotations and expiries |
| | `PolicyInvariant`, `PolicyIsEnforced` | `[]PolicyInv`, `[]PolicyEnforced` | set of requests and upserts, ids in path and body, rule lists, limits |
| | `AdapterInvariant`, `AdaptersAreFaithful` | `[]AdapterInv`, `[]AdaptersFaithful` | alias table, environment, rotations, lines of a stream |
| | `TailIsIntact` | `[]StreamIntact` | texts, chunks, window, limit and age, number of bypasses |
| | `MaskingIsSound` | `[]MaskingSound` | texts, types, specificities, checksums, exclusions, reported spans |
| `ServiceProofs` | `BufferInvariant`, `QueueStaysOrderly` | `[]BufferInv`, `[]QueueOrderly` | queue size, number of retries, events and starts |
| | `SocInvariant`, `SinksAreServedAlike` | `[]SocInv`, `[]SinksServedAlike` | list of sinks, bus size, set of events with content |
| | `DeliveryInvariant`, `DeliveryIsHonest` | `[]DeliveryInv`, `[]DeliveryHonest` | sink kind, timeout, token life and margin |
| | `LifeInvariant`, `ServesWholeAndStopsClean` | `[]LifeInv`, `[]ServiceWhole` | number of retries, every deployment |
| | `OperationsInvariant`, `AgentsDoSettle` | `[]OperationsInv`, `[]AgentsSettle` | set of updates, images, files |
| | `TrafficInvariant`, `ProxyIsSound` | `[]TrafficInv`, `[]ProxySound` | set of connections, hosts, serial numbers and certificates, life of a leaf, debounce |
| `GovernanceProofs` | `ChainInvariant`, `ChainTypeCorrect` | `[]ChainInv`, `[]TypeOK` | finite set of events, tenants, attempts, open transactions |
| | `AcknowledgedOnce`, `ChainSound` | `[]AckedEventStoredOnce`, `[]ChainHoldsTogether` | |
| | `SubjectInvariant`, `SubjectRightsAreKept` | `[]SubjectInv`, `[]SubjectRightsKept` | set of workers, subjects, holds and keys |
| | `SloInvariant`, `BreachesAreReported` | `[]SloInv`, `[]BreachesReported` | set of evaluators, cooldown, retries, queue size |
| | `GovernanceInvariant`, `RegistersDoAgree`, `OversightDoesStand` | `[]GovernanceInv`, `[]RegistersAgree`, `[]OversightStands` | set of clerks |
| | `RecordInvariant`, `RecordsDoAgree` | `[]RecordInv`, `[]RecordsAgree` | rows, page sizes, callers and tickets |
| | `AuditExportInvariant`, `ExportsAreComplete` | `[]AuditExportInv`, `[]ExportsComplete` | table, page size, order in which rows commit meanwhile, exporters |
| | `DiscoveryInvariant`, `DiscoveryKeepsAgreeing` | `[]DiscoveryInv`, `[]DiscoveryAgrees` | finite table of hosts, logs, enforcements, limit and cut of the activity log |

`PipelineStagesProofs` and `ListProofs` hold lemmas: what each stage of the
pipeline does to a context, and what `Kept`, `Sorted`, `Arranged`, `FlattenSeq`,
`SumFunction` and a function defined by recursion along a list return.

**Assumptions.**  The constants' assumptions are named in the module that
declares them, and TLC evaluates each on a run.  Most only say that a count is a
natural number or a list a finite sequence.  These say something
about the deployment:

- `ChatAssumption`, `StreamAssumption`: at most five audit attempts, the bound
  the settings validate.
- `TransportAssumption`: the margin at which a token is renewed is at least the
  timeout of a request, and a token lives longer than two of them; the code has
  300 s, 30 s and the identity provider's hour.
- `SocAssumption`: the list of sinks names each one once, as the factory builds
  it.
- `PolicyAssumption`: the limits are positive.
- `CredentialAssumption`: a provider's environment variables and its entry of the
  secret store hold its own key or none.  That is how a value is written in the
  model, by the name of its owner.
- `DiscoveryAssumption`: the hosts of the logs are finitely many, their bytes and
  times natural numbers, and the activity log is cut to at least one entry and at
  most its limit (the code cuts 10,000 to 5,000).
- `LevelAssumption`: entities have the levels 0 to 4 of the code, and a client
  asserts one of them or none.

**The inductive invariants**, and what the properties lack without them:

- *Pipeline.*  `NoCleartextForwarded` says what holds once the provider has a
  body, not why the body was clean when it was sent.  `PipelineInv` adds
  `StageOrder`, which ties the position in the stage list to the context: past
  classification the action is ANONYMIZE, past detection `detections` is set,
  past tokenization (stage 9 on) the body is sanitised and its mapping was
  stored, and the provider's body is the context's.  In the main loop there are
  no errors and no cancellation, because `AfterStage` leaves it at the first one.
  `AccountInv` adds what a run still owes in its `finally` block: which guaranteed
  stages are left, which error it will raise, and which of its mapping and its
  event a cancellation has cost it.  `CompleteIsAudited` needs that only
  `AuditWritten` ends a run without adding an error.
- *Stream.*  `StreamInv` is the same argument over the generator's phases; to
  `StageOrder` it adds what the handler has sent and closed, and which of the
  three cleanup flags is set where.  The rotation buffer has an invariant of its
  own: it is at most one version behind the store and keeps every snapshot with
  a session.
- *Refinement.*  With the invariants, each action maps to one step of
  `AnonymizingGateway` or to a stutter.  `CallProvider` is `Forward` because the
  invariant has the mapping recorded and nothing forwarded before; the last step
  of a run is `Complete` or `Reject` by whether its event is in the chain.
- *Approvals.*  `DecisionsOverlap` is history.  `ApprovalInv` keeps what makes
  it true: a call that is to write has read "pending", and every call that decided
  the token since then is in its `with`.
- *Tools.*  `BlockedToolsStop` speaks of the last answer and of the document in
  force.  `ToolInv` connects them: the policies are the entries of that document, and
  the answer is the one they give.  The proof needed the property to say which rule
  counts when a document names a tool twice (the first).  For the sanitizer it keeps
  that a token in the mapping or in an output was given out by its session for its
  value, that the calls of the current session are those that share it, and that
  the session of the call that began last is the current one.
- *Guards.*  `GateInv` says a delivered reply was judged by the engine that is
  there; that a rule of high severity is not replaced by another result of its
  category is a lemma about `EvaluateRules` (`HighRuleStands`).  `WindowInv` has
  the buffer as the last `WindowSize` symbols of all that was streamed
  (`TrimmedTwice`), so an occurrence that ends in a new chunk lies in it
  (`NewOccurrenceInWindow`).  `DlpInv` says, stage by stage, what the action has
  absorbed: the strictest action found, then the level.
- *Voice.*  `VoiceInv` has the window as the end of the speech, and not shorter
  than back to the last segment a detection has seen: of a secret that a later
  chunk completes and whose segments before reach back less than the overlap, the
  beginning is still there (`SecretsMove`).  `LoadInv` ties a
  load under way to the lock, `TranscriptInv` numbers the texts so that no two
  are equal to the sort (`AddedInTime`), and `ChannelInv` has a fragment on its way
  or kept, once: as many as a message has, of one message and in rising order, are
  the message (`CountsUp`).
- *Chain.*  `ChainInv` says why the unique constraint is enough (`InsertedInv`,
  `OneRowInv`), why a link leads back although the row it names was read in
  another transaction (`LinkInv`), and that the newest row stays the one a
  transaction chose while its tenant has one writer (`NewestInv`).
- *Sinks.*  `BufferInv` partitions the numbers issued so far into received, in
  hand, queued, and gone with a recorded fate, and orders the first three.
  `SocInv` gives, in the middle of a fan-out, the common list the sinks before the
  next one have beyond those after it.  `DeliveryInv` bounds the age of the
  request under way against the expiry of its token.
- *Access.*  The key cache can be read, refreshed and dropped while a caller
  waits.  `AccessInv` follows the keys a waiting caller may still get: once the
  cache has dropped a withdrawn key, no answer on its way has it.
- *Policy.*  `PolicyInv` ties an upsert that met no other and read nothing stale
  to the list it will save, and a cache fill to whether a save came between.
- *Adapters.*  `AdapterInv` carries whose key a value is from the environment and
  the store into the request.  What was streamed is the text of the events so
  far; each parser's events say what their line says (`EventsOfLine`), and
  `KeptConcat` puts them behind what was said before.
- *Tail buffer.*  `TailInv` is the property with the types of the buffer.  The
  step that needs an argument is a flush: its cut lies a window before the end of
  what was fed, and the end only moves on; the chunks before it stay what they
  were, so the earlier cuts do too.  A token of at most one character more than the
  window that spans a cut must therefore end in what was fed.
- *Masking.*  `MergeSound` takes the merge hit by hit: each round of `Absorb`
  covers the characters of the survivor it removes and keeps a secret secret, so
  the list covers what has been merged, its spans are apart, and a secret hit lies
  inside a secret span; sorting changes none of it.  `MaskInv` adds what restoring
  needs of the session (`Session`): a token has an index below its type's counter,
  a token and a key are made for each other only, the mapping has the reversible
  tokens and no other.  A node that was masked earlier contains only tokens older
  than the counters, so a later entry of the mapping cannot change what restoring
  it gives (`ShownGrown`), and a token without an entry stays without one
  (`RemainsSecret`).
- *Data subjects.*  `SubjectInv` keeps, for a call under way, the holds that
  lasted since it began and the keys its scan has passed; restrictions of one
  subject follow one another in the order of row and cache.
- *Breaches.*  `SloInv` pairs the breach, its task and its fate by index, keeps
  the stamp of a window at its last breach, and ties what an evaluation has looked
  at to the breaches there were at that moment: one about to stamp is a cooldown
  away from the last breach it could see.
- *Records.*  `RecordInv` says an undisturbed export has got exactly the prefix
  of the list up to its `skip`; that a lifecycle value is a legal path, also the
  one a call has read and not yet written back; and what a ticket call that met no
  other is about to write, whatever fails on the way: the entries it has read and
  its own, each of a change that was saved.
- *Exports.*  A page is defined by ranks, the number of matching rows that come
  before; `RanksNumberRows` shows that they number the rows without a gap for any
  strict order.  `ReaderInv` then says what a walk has sent: with a
  keyset only rows up to the cursor and, of the rows of its beginning, all of
  those; with an offset at least the rows of its beginning that the offset skips,
  which only grow since a new row comes first.  `MonthInv` has the objects
  an exporter has stored before its next format.
- *Discovery.*  Both readings of the logs are written with one loop, `GroupBy`, with
  another key.  `CombinedIsOne` shows that summing what was grouped of each log is
  grouping both, one behind the other, so `merge_summaries` loses nothing.
  `Readings` then goes through the logs entry by entry: an entry of another
  provider, or of a host nobody knows, changes nothing that is said of a provider
  (`OthersStay`), and an own one adds the same to the provider's summary and to one
  of its hosts (`OwnGrow`), which by `SumGrown` is what the sum over the hosts grows
  by.  `DiscoveryInv` adds that the log is a suffix of the events; a suffix of one
  event more stays one after the cut (`CutKeepsNewest`).
- *Process, proxy, agents, registers.*  `LifeInv` says what is open at each step of
  the start and closed at each of the stop; `TrafficInv` which answers may still be
  under way to a connection, which pair a serial has that no failing upload touched,
  and that the two tables
  of routes agree; `OperationsInv` and `GovernanceInv` what a lone caller relies on
  between its read and its write.

**Induction.**  The list properties need facts about every position of a
sequence.  `ListProofs` derives an induction rule over the naturals with a set in
place of the predicate from the well-foundedness of `<`, and proves with it what
the recursive function `Kept` returns: a list with those elements of the given one
that are in the set, built by appending, and of two lists one behind the other
what it keeps of each.  `Sorted` needs no recursion: the number of elements before
one is its place, and `RanksNumber` shows by counting that no place stays empty;
`ArrangedElements` carries that to the sorts of the arbiter, whose keys differ by
the position.  The folds of the merge and of the tokenizer are functions defined
along their list; `RecursionExists` proves that such a function is there and
`AlongList` what holds from its first place to its last.  `SumFunction` is such a
function over the subsets of a domain, in an order of CHOOSE: `SumsRemove` shows
that any element may be taken out first.

**Only model-checked.**

- Liveness (`EveryRequestEnds`, `CleanupTerminates`, `QueuedEventsLeave`,
  `StartEnds`): it rests on fairness and ENABLED, which the prover does not handle.

## 6. Where the code and its documents disagree

Three of these have a run, whose trace TLC prints:

1. `chain_fork`: two overlapping writes of a tenant link to the same event.  The
   lock is on the newest row found when the `SELECT` started; the transaction
   that waited keeps that row although a newer one was appended meanwhile
   (`services/audit_chain.py:178`).  For the first event no row is locked.
2. `tail_split`: `_flush` cuts at a fixed distance from the end of the buffer,
   also inside a token, and the parts are restored separately
   (`streaming/tail_buffer.py:205`).
3. `span_collapse`: of two partially overlapping regex hits only one range
   survives, before the arbiter, which masks unions, sees them
   (`detection/regex_detector.py:150`).

The others are formulas of the modules, whose comments say that and why they
fail.  Those marked with a star are action properties (PROPERTY).  To see the trace, put the formula in place of the properties of
the named configuration (and, where given, change the constants):

| Formula | Configuration | What happens |
|---|---|---|
| `FailedRequestLeavesNoMapping` | `MCChatCompletions_faults` | a `store_mapping` that raises after it was applied leaves the mapping to its TTL, since cleanup deletes only what was recorded (`pipeline/tokenization.py:195`, `pipeline/cleanup.py:69`) |
| `StreamUsesItsSnapshot` | `MCChatStream_faults` | a rotation after `begin_session` sends the stream with the new credential (`routing/chat.py:401`) |
| `EndedStreamHoldsNoSession` | `MCChatStream_faults` | a generator dropped at a yield is closed in another `Context`, where `reset_runtime_secret_store` raises before `end_session` (`routing/chat.py:527`) |
| `FinishMeansFinished` | `MCChatStream_faults` | an interrupted stream is audited as `FINISH`, the initial value of `terminal_state` (`routing/chat.py:442`) |
| `StreamAuditSurvivesCancellation` | `MCChatStream_faults` | a cancellation in the audit write of the normal path loses the event (`routing/chat.py:500`) |
| `TokenSingleUse` | `MCTools` | an approve and a deny that overlap both succeed (`governance/approval.py:301`) |
| `DecidedBeforeExpiry` | `MCTools` | a token is approved after `expires_at`, when nobody polled it (`governance/approval.py:306`) |
| `RecordsHaveTtl` | `MCTools` | a poll that overlaps cleanup recreates the key without a TTL (`governance/approval.py:266`) |
| `EnabledSinksCanSend` | `MCService`, `Reconnecting = {}` | `SinkBuffer.start` does not start the sink it wraps (`soc/buffer.py:212`) |
| `OutageIsRetried` | `MCService` with the fairness of `SocFairSpec` added to `ServiceFair` | the router calls `send_event`, which bypasses the buffer; `put` has no caller (`soc/router.py:52`) |
| `ReportedSpansMasked` | `MCSpanMasking_collapse`, `Checked = {"NAME"}`, `MaxRegex = 1`, `MaxOther = 1` | a checksum that fails on a merged span drops it with the name it absorbed (`pipeline/detection.py:380`), for a type that is dropped and not downgraded |
| `UpdateReplacesRule` | `MCFront` | a body may name another rule than the path (`admin/policy_routes.py:103`); when the Redis key expires, the configured rule is back in front of the rule that replaced it (`policy/store.py:61`) |
| `AcknowledgedIsEnforced` | `MCFront` | a request that missed the cache before an upsert fills it with the older rules afterwards (`policy/store.py:66`) |
| `OverlappingUpsertsStand` * | `MCFront` | two upserts load the same list and save it one after the other (`admin/policy_routes.py:171`) |
| `BadTokensAre401` | `MCFront` | a token with an unknown `kid` raises `ValueError` and is answered 500 (`auth/oidc.py:69`) |
| `RoutedPolicyApplies` | `MCTools` | the stage runs before the request is routed, so the evaluator, which reads "tenant/provider information" from the context, finds no provider there and looks under the name `unknown` (`governance/pdp_tool_evaluator.py:100`, `pipeline/provider.py:120`, `routing/chat.py:392`) |
| `EveryFormatJudged` | `MCTools` | one format is detected per request; calls of another format, and of an MCP body, pass unjudged (`pipeline/tool_governance.py:44`) |
| `RefusedDocumentChangesNothing` * | `MCTools` | `parse()` clears the policies before it reads the document it then refuses (`governance/tool_policy_parser.py:194`) |
| `TokensRestorable` | `MCTools` | overlapping sanitizer calls reset each other's session and mapping (`agent/result_sanitizer.py:47`) |
| `BlockingRuleBlocks` | `MCContent` | of the results of a category one is kept: a monitoring rule of higher severity hides a blocking one (`firewall/engine.py:119`) |
| `FailedLoadChangesNothing` * | `MCContent` | a rule file with a bad category empties the category settings and keeps the rules (`firewall/rules.py:42`) |
| `FailedReloadKeepsPatterns` * | `MCContent` | a pattern file that fails to load brings the default patterns back (`firewall/jailbreak_db.py:63`) |
| `DetectedNotAllowed` | `MCContent` | a failing audit of a block ends in the handler that fails open (`firewall/pipeline.py:149`) |
| `SpokenSecretsMuted`, `SpokenSecretsMasked` | `MCContent` | chunks leave before the window that shows their secret is full; ranges counted from the stream's beginning are applied from the chunk's (`voice/detector.py:67`, `voice/pipeline.py:93`) |
| `LongSecretFound` | `MCContent` | a secret spread over more than the overlap is pruned apart (`voice/detector.py:198`) |
| `ClosedHoldsNoModel` | `MCContent` | a load that ends after `close()` puts the model back (`voice/stt_engine.py:87`) |
| `DeliveredWhole` | `MCContent` | a final fragment that overtakes another cuts the message (`voice/connectors.py:257`) |
| `ReconnectKeepsRoom` | `MCContent` | reconnects count as connections and an idle timeout gives none back (`voice/connectors.py:143`) |
| `GeminiStreamAgrees` | `MCContent` | the text of the line with the end mark is dropped |
| `EveryChoiceEnds` | `MCContent` | the first finish event ends the stream for all choices (`routing/chat.py:464`) |
| `ToolCallsReachClient` | `MCContent` | Anthropic's tool events carry no name, Gemini's are dropped |
| `EverySystemMessageSent` | `MCContent` | Anthropic and Gemini get the last system message alone |
| `StreamErrorsAreAborts` | `MCContent` | a connection that breaks in a stream raises something other than `PipelineAbortError` (`providers/gemini.py:259`) |
| `FailedStartClosesAll`, `StopClosesAll` | `MCService` | sinks run before `app.state` knows them, and `_shutdown` ends at the first stop that raises (`bootstrap/services.py:346`, `main.py:544`) |
| `CaDeploymentServes` | `MCService` | with a loadable CA a middleware is added to a running application, which Starlette refuses (`bootstrap/services.py:187`) |
| `LineMeansStored` | `MCService` | a line written to a connection the peer closed counts as sent (`soc/sinks/qradar_cef.py:190`) |
| `StoredIsReported` | `MCService` | a retry of a stored document is a conflict, reported as a failure (`soc/sinks/elastic_bulk.py:221`) |
| `DisabledNeverBreaks` | `MCService` | a disabled sink is built without having been validated (`soc/sink_factory.py:166`) |
| `HealthyIsCurrent` | `MCService` | the status of a stopped sink stays in the cache (`soc/health.py:142`) |
| `CompletedMeansServed`, `LoneUpdateApplies` | `MCService` | overlapping updates, or one after a bare reference, answer "completed" for an image that does not run (`appliance/agent.py:447`, `:501`) |
| `ConfigDurable` | `MCService` | a write that fails half way leaves a file the next start reads as the defaults (`appliance/agent.py:317`) |
| `LastChangeLoaded`, `GoodFileLoaded` | `MCService` | a late event makes the debounce drop the last change; a broken file ends the watcher's thread (`secrets/reloader.py:88`, `:176`) |
| `OneSetOfLoops`, `RunningCaptures` | `MCService` | a start while `stop()` waits has its loops forgotten and its capture ended (`endpoint/agent.py:131`) |
| `AiNeverUntouched` | `MCService` | with `fail_open` a pinned client or an unknown path is passed on as it came (`proxy/transparent_proxy.py:90`) |
| `PresentedCertValid` | `MCService` | the context cache keeps a leaf past its certificate (`proxy/tls_interceptor.py:148`) |
| `RepliesRestored` | `MCService` | the dispatcher returns a reply no stage restored |
| `DroppedPairsLoaded`, `UploadStays` * | `MCService` | the watcher's thread has no event loop to schedule the reload on; a reload picks the highest file name (`proxy/ca_manager.py:140`, `:322`) |
| `ActiveCaLoads` | `MCService` | an upload under the active serial that fails half way leaves an empty file, or the key of another certificate (`proxy/ca_manager.py:220`) |
| `TlsReportsServed` | `MCService` | a reload that fails at the key leaves the new certificate beside the old context (`proxy/tls.py:146`) |
| `OverrideWins` | `MCService` | removal of a route compares strings, lookup ignores case (`gateway/router.py:149`) |
| `DeletedMeansErased` | `MCGovernance` | the router builds the workflow without services: an erasure is reported and nothing erased (`governance/router_dsar.py:79`) |
| `NoErasureUnderHold` | `MCGovernance` | a hold activated after the check comes too late; `POST /dsar/erasure` checks none (`dsar/workflow.py:233`) |
| `HistoryComplete` | `MCGovernance` | overlapping transitions write the history from the same list (`services/lifecycle.py:106`) |
| `TrailComplete` | `MCGovernance` | a failure after the save leaves a change without an entry; overlapping calls write the trail from the same list (`services/dsar.py:219`, `:232`) |
| `CompletedStays` * | `MCGovernance` | `reject_request` and the `process_*` methods do not look at the status (`services/dsar.py:232`) |
| `HoldSeenAtOnce` | `MCGovernance` | a hold is written before its index |
| `PurgeSparesHeld` * | `MCGovernance` | the purge counts a hold and deletes the rows (`retention/tiers.py:214`) |
| `FailuresMakeBreaches` | `MCGovernance` | an evaluation between the two increments of a success sees a failure (`services/slo_engine.py:141`) |
| `BreachesApart` | `MCGovernance` | two evaluations look before either has stamped (`services/breach_detector.py:105`) |
| `StampIsReported` | `MCGovernance` | the evaluation or the task ends between the stamp and the report, and the cooldown runs all the same (`services/breach_detector.py:120`) |
| `DlqBounded` | `MCGovernance` | the queue is pushed to before it is trimmed |
| `EveryTriggerKept` | `MCGovernance` | a call writes the triggers it had read and one more over those raised meanwhile (`governance/supplier.py:309`) |
| `EveryNoticeCounted` | `MCGovernance` | a commit that took effect and raised leaves a notice that is not counted (`breach/notifications.py:256`) |
| `FailureIsolated`, `QueuedMeansQueued` | `MCGovernance` | the shared session is not rolled back after a failed notification; the flag is set before the entry is inserted (`breach/notifications.py:150`) |
| `FlagCleared` * | `MCGovernance` | an updated assessment keeps its reassessment flag (`governance/risk.py:179`) |
| `EvidenceBehindReport` | `MCGovernance` | a database that cannot answer counts as evidence (`governance/reports.py:498`) |
| `SessionsCounted` | `MCGovernance` | the counter is read and set in two awaits (`services/transparency.py:84`) |
| `NamedFormatsStored` | `MCGovernance` | a configured format the exporter does not know is recorded, and nothing is written for it (`services/audit_exporter.py:208`) |
| `SnapshotIsExact` | `MCGovernance` | a row whose id was taken before the export began commits between two pages, below the bound (`services/audit_chain.py:455`) |
| `OffsetSendsOnce` | `MCGovernance` | a row written meanwhile shifts the pages (`api/v1/admin/audit.py:177`) |
| `ObjectsMatchRecord`, `TrackedOnce` | `MCGovernance` | two exports of a month overwrite and record each other's objects (`services/audit_exporter.py:184`) |
| `InventoryCountsUsers`, `InventoryLastSeen` | `MCGovernance` | proxy entries are counted as users; entries after the first of a batch do not move the time |
| `PricingIsOwn` * | `MCGovernance` | the price table is copied one level deep (`discovery/cost_attribution.py:92`) |

## 7. What is not modelled

Four parts have no module:

- **Admin configuration**: a document is validated and one reference is swapped
  under a lock.  What depends on a configuration is chosen in the modules that
  read it, and the reloads of rules, patterns and policies are modelled there.
- **Presidio client**: a stateless HTTP client; its outcomes are choices of the
  detection stage, and the wait for it at startup is in `Lifespan`.
- **RAG and multimodal**: stateless transformations around the detector.
- **Web console, charts, documentation**: no logic of the gateway.

Within the modelled parts:

- Recognisers, regular expressions, scores, log parsers, host signatures, risk
  figures, fairness metrics and the figures of the trust center: data, a
  nondeterministic answer or an input where a property depends on it.
- Request and event formats, the escaping of exported cells, SSE framing, codecs,
  encryption and topologies of the cache, wording of errors, logging and metrics.
- SQLite as the database of the chain (no row locks, a development setting), the
  archive of single events, listings.
- Quarantine records, percentiles of latency, process scans, the license check,
  the CONNECT handler, batches and the UDP transport of the sinks.
- Nothing in the repository puts a `tool_evaluator` on `app_state`: without one the
  tool stage passes every request, `ToolGovernance` models it with one.
- `record_spend` has no caller: `RecordSpend` is modelled, no property is about
  the day it counts.

## 8. Plan

Done: the request path (first), then the parts around it, in the order of the
table in section 2; the theorems of section 5, which leave only the liveness
properties to TLC.

Abstract specifications worth stating: a single-use token for `ApprovalManager`
(it implements it only for calls that do not overlap), an append-only list per
tenant for `AuditChain`, a lossy bounded FIFO for `SinkBuffer`.
