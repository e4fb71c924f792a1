# Formal model of UndRecreAITwins

TLA+ specifications of the digital-twin platform under `src/` (a TypeScript monorepo:
`packages/core`, `api`, `training`, `embedding-adapter`, the channel adapters, `memory`,
`cli`, `shared`), checked with TLC on small instances and proved with TLAPS where a
property matters for every instance. Paths below are relative to `src/packages/`.

## 1. The system

A *persona* (a twin) belongs to a tenant and answers messages that arrive over the HTTP API
or a messaging channel. State lives in Postgres (rows), Redis (dedup keys, locks, streams,
BullMQ queues, interview state) and in the memory of the processes (pools, caches,
breakers). There is no transaction across the two stores, almost no row lock, and every
background worker is re-run by BullMQ when it fails or stalls; that is where the hard
behaviour is.

| Component | State it keeps | Operations | Interacts with | Hard behaviour | Correct when |
|---|---|---|---|---|---|
| Channel delivery: `core/src/services/{channel-orchestrator,chat-service,delivery-cas,fallback-worker,llm-retry-worker}.ts`, `retry/provider-retry.worker.ts` | dedup keys, `delivery_records`, `llm_retry_jobs`, three BullMQ queues, OUTBOUND | handle an INBOUND entry, soft fallback, two kinds of retry | Redis streams, LLM, Postgres | three publishers race for one turn; failures and crashes between CAS and publish | one governed answer, one fallback, recorded before sent, nothing forgotten |
| Redis transport and channels: `core/src/services/channel-transport.ts`, sixteen `channel-*/src` packages | streams, consumer groups and their pending lists, dedup markers, rate limits, connection state | take a message of the platform, publish, consume, send, ack, connect, reconnect | the platforms, orchestrator | entries left unacked; processes of one kind share one group and ack what is not theirs; markers set before the work | what was accepted is queued, once; what was acked was sent |
| Tool gateway: `core/src/services/hermes/tool-gateway.ts` | `tool_call_audit` rows | read tool, write tool (reserve, run, finalise) | MCP handlers, Postgres | duplicate calls, a crash between reserve and finalise | a write tool runs at most once per idempotency key |
| Agent executor: `hermes/{hermes-executor,hermes-adapter,mcp-server,turn-router}.ts`, `llm-provider/mcp-*` | warm pool of ACP clients, their processes, pending calls, one TCP port, the process-wide tool registry | run a turn, list and call brokered tools, evict, reap, kill | child processes, MCP servers, provider config | eviction or exit while a turn is in flight, time limit, one listener per client | a turn gets its own answer from its own tools, no process is left over, every turn ends |
| Funnel: `funnel/funnel-runtime.ts`, `funnel-repository.ts` | `conversation_funnel_states` (optimistic version), Redis turn lock, definition versions | process a message, confirm a stage, fast exit, return, create a version | LLM classifiers, Postgres, Redis | lock expiry and unconditional release, version result unused, return stack | one message advances a conversation at a time; stack and slots consistent |
| Re-engagement: `reengagement/{scanner,worker,delivery}.ts` | `reengagement_attempts`, counters of a conversation | scan, claim, generate, deliver, sweep | ChatService, OUTBOUND | reply racing a nudge, worker slower than the sweep, counter lost updates | never more attempts than the rule allows; none after a reply |
| Tuning drafts: `tuning/*.ts` | `tuning_drafts`, Redis interview state, embedding-index markers | start, answer, compile, activate | LLM, embedding service | draft read outside the transaction, auto-fail racing a late result, lost update of the interview | a draft is compiled and activated once |
| LLM provider config: `llm-provider/{provider-config.service,resolution}.ts` | override and default rows with a version column | save, disable, delete, resolve | Postgres, executor | statements without a transaction: lost update, two reads of one resolution | what resolves is what is effective |
| Embedding adapter: `embedding-adapter/src/{lib,routes}` | circuit breaker, concurrency limiter | embed, rerank | upstream providers | check, count and settle in different steps; callers that die | no slot is lost |
| Documents and vectors: `core/src/services/document-service.ts`, `training/src/jobs/{document-ingest,lazy-embed}-worker.ts` | `documents`, `document_chunks`, embedding status of a persona, two queues | upload, delete, ingest, index lazily | BullMQ, embedding adapter | ingest or deletion during a lazy job, stalled and repeated jobs, a job that overtakes its transaction | `completed` only when every text has its chunks |
| Validators and correction rules: `validators/*.ts`, `correction-rules/*.ts` | rule cache | guard a reply, rewrite, re-validate, reload | LLM, the product that owns the rules | order of the validators, failing judges, a cache refilled by a slow reader | a reply is what its active validators promise, by recent rules |
| Retrieval grounding: `grounding/*.ts`, `embedding-service.ts` | none of its own | retrieve, prioritise | pgvector, embedding adapter | pure pipeline | context fits its budget |
| Feedback and annotations: `feedback/*.ts`, `annotation-service.ts` | feedback rows | record, retrieve | Postgres | CRUD | - |
| HTTP API: `api/src` | none of its own | routes, auth, rate limits, schemas | every service | thin | - |
| Security helpers: `llm-provider/{crypto,ssrf-guard,ssrf-audit,secret-audit}.ts`, `webhook-signature.ts`, `api-key.service.ts` | key rows | encrypt, check, sign | - | pure functions | - |
| CLI, memory client, shared, LLM clients: `cli`, `memory`, `shared`, `core/src/services/{llm-client,llm,langfuse-service,usage-service}` | none | I/O wrappers | - | - | - |

The hazards that matter most are in `PROJECT.json`, each at its line with the
properties that would catch it. The others met on the way: the tuning proposal that leaves
its cache before its draft is in (`conversation-analyzer.ts:84`), the startup sweep that
row-level security shows no rows (`routes/tuning/index.ts:265`), the re-engagement candidates
that fill a limit of 1000 without ever being served (`scanner.ts:58`).

## 2. The modules and how they fit together

| Component modules | Abstract specification | Proofs | Runs |
|---|---|---|---|
| `Delivery` | `AnswerLedger` | `DeliveryProofs` | `delivery`, `delivery_double_final` |
| `ToolGateway` | `OnceCell` | `AgentProofs` | `gateway` |
| `Reengagement` | | `ReengagementProofs` | `reengage` |
| `FunnelTurn` | `FunnelWalk` | `FunnelTurnProofs` | `funnel` |
| `TuningDraft` | | `TuningDraftProofs` | `tuning` |
| `ChannelAdapters` + `ChannelInbound`, `ChannelOutbound` | | `ChannelProofs` | `inbound`, `outbound`, `outbound_flat` |
| `ProviderConfig` + `Executor` | | `AgentProofs` | `executor` |
| `EmbeddingAdapter` + `Documents` | | `DocumentsProofs` | `documents` |
| `RuleCache` + `ReplyGuard` | | `ReplyGuardProofs` | `replyguard` |

`A + B` means that B EXTENDS A and runs A's actions beside its own: turns read the rows that
administrators save, jobs wait for the adapter's limiter, replies read the rules through the
cache. `MC...` modules hold symmetry sets and constant values. The message path as a whole is
`ChannelInbound` (platform to INBOUND), `Delivery` (INBOUND to OUTBOUND), `ChannelOutbound`
(OUTBOUND to platform), cut at the two streams: each side uses of a stream only that an entry
once written is there and is given to one reader, so composing them in one state space would
multiply states and add no interleaving. There is a fault at both cuts: the code casts the
fields of an entry to a record, and ioredis hands them over as a flat list (section 5).
`ChannelOutbound` has both forms; `Delivery` starts from a message whose fields could be read,
which is how the tests read them. In the same way `ReplyGuard` is the inside of
Delivery's step `Generate`, and `Executor` of the agentic branch that `Delivery` has as
`ReplyWithoutLlm`.

In all modules a *fault* is a failed call to a store or a death of a process; bounds on faults
and the like are CONSTANTS named `Max...`. A section of each module's head holds operators for
*mistakes*, plausible bugs of a definition; no action uses them, they only show that each
property can be broken. TLC's deadlock check is off in every run because every one of
these systems ends: once the given turns, calls, drafts or messages are done, nothing is left
to do. That nothing stops *early* is what the liveness properties say.

Nine configurations are expected to find a violation. Each checks one property that says what a
document or a comment of the repository says; the code does otherwise, and the model, which has
the code, shows how. Two of them are runs of `PROJECT.json`, whose findings quote the lines:
`delivery_double_final` and `outbound_flat`, which decide whether an answer is sent twice or not
at all. The other seven are kept for whoever takes the point up:

    tlc -config TuningDraft_two_active.cfg MCTuningDraft    (SingleActive)
    tlc -config TuningDraft_reaped.cfg     MCTuningDraft    (ReapsGenerating)
    tlc -config Executor_names.cfg         MCExecutor       (OwnServers)
    tlc -config Executor_saves.cfg         MCExecutor       (OptimisticSaves)
    tlc -config Documents_stale.cfg        MCDocuments      (CompletedIsNoLie)
    tlc -config ReplyGuard_malformed.cfg   MCReplyGuard     (MalformedIsClosed)
    tlc -config ReplyGuard_returned.cfg    MCReplyGuard     (ReturnedIsGoverned)

The passing run of the same module states what does hold.

What an extension could take next: the rest of `complete()` around the delivery path, input
validation and the Redis session of the tuning interview, authoring of funnels, the Redis
registry of agents once something uses it; among the proofs, lemmas about the steps that the
liveness properties rest on.

## 3. What is modelled

Each module's header says what a state stands for; each definition's lines in the source are
in `PROJECT.json` under `map`.

### 3.1 Delivery

`Delivery.tla` is one channel message on its way to an answer. `pc[t]` follows the
orchestrator's handler through `ChatService.complete`; `ledger` is `delivery_records.state`,
`row` is `llm_retry_jobs.status`; `fallback`, `llm` and `prov` are the jobs of the three
BullMQ queues; `finals`, `retries`, `texts` and `notices` count what is on OUTBOUND. One action
is one call that can fail or be overtaken: `Receive` (dedup key), `OpenTurn` (new
conversation and ledger row), `ScheduleFallback`, `Generate`/`GenerateFails`/
`ReplyWithoutLlm`, `SaveAnswer`, `CancelFallback`, `Decide` (the CAS), `PublishFinal`,
`EnqueueLlmRetry` and `HandleError` (the two catch blocks), and the steps of the three workers
with their crashes and re-runs. `AnswerLedger.tla` is the promise: at most one fallback, at
most one governed answer, each after its decision.

Facts about the code that the model keeps: `complete()` opens a conversation for every channel
turn, so ledger and retry rows are per turn and only the dedup key is per message; a scripted
reply, an agentic answer and a strict-RAG refusal return before the CAS
(`chat-service.ts:293-317`) and publish nothing; a fallback may be published after the final,
because its CAS is not atomic with its publish; a crash during pacing loses an answer whose
ledger row says delivered; the dedup key is set before the message is processed, so a crash
followed by a resend within 300 s drops the message. Only `ProviderRetryWorker` is started by
`api/src/server.ts`; `LLMRetryWorker`, the fallback worker and the orchestrator are exported
for a worker process that is not in the repository, and are modelled as running.

| Run | Instance | Checks | Shows |
|---|---|---|---|
| `delivery` | two turns with one message, two LLM attempts, three provider attempts, one fault, one expiry, weak fairness | `TypeOK`, `LedgerIsTrue`, `DedupWindow`, `ImplementsLedger`, `EveryCallAccounted` | one governed answer and one fallback at most, decided and recorded before they are sent, wherever the fault falls; the refinement; dedup; until something fails, a generated answer, a retry row and a provider job all come to an end and no turn stays pending |
| `delivery_double_final` | one turn, no faults | `OneFinalDelivery` (violated) | the two retry queues both answer (the finding) |

Turns share only the dedup key, so two of one message are enough. The bound `ExpiresBehind` of
`MCDelivery` lets the key expire once a turn has been answered, the order that 300 s make
likely; the duplicate then runs in full. Two attempts are the least with a retry after a failure;
one fault, in the original, in a worker or anywhere else, is what a run with liveness has room
for, and the theorems of section 4 have any number. Fairness is weak fairness of each handler
and worker as a whole: Node's event loop and BullMQ run a waiting job eventually, and without
a fault every call returns. Nothing is claimed once a call has failed (`faults > 0`).

### 3.2 ToolGateway

`ToolGateway.tla` is `EngineMcpServer.handleToolsCall` and `ToolGateway.executeTool`: gates
(`ToolsCall`, `ExecuteTool`), the read path (`Read`, `NoteRead`), the write path (`Reserve`,
`Run`, `Finalize`), `Crash`. `audit` is `action_audit.status` by key, `author` who inserted
it, `ran` which handlers took effect. A transaction that fails may have committed; a handler
that throws may have had its effect. `OnceCell.tla` is the promise for a key and the gateway
implements it with the write calls of `ran` as its effects. Tools with `requiresConfirmation`
only ever return a preview; a key is replayed whatever tool it was first used for, a read's
key included, so the part of `WritesAreTrue` about replies is stated for keys that serve one
tool.

Run `gateway` (`GatewayTypeOK`, `WritesAreTrue`, `ImplementsOnceCell`): three calls of six kinds of
tools (permitted write, read, write without permission, behind a confirmation, without
handler, not allowed) under two keys with two faults. Three calls are a first, a duplicate and
a retry after both; two keys show that keys do not interfere. Symmetry over calls and keys is
sound: the run has no liveness property.

### 3.3 Reengagement

`Reengagement.tla` is one dormant conversation. An attempt is `<<rule, count>>`, which is the
idempotency key `conversation:rule:reengagementCount` (`scanner.ts:80`). Clocks are reduced to
the comparisons the code makes: `stale`, `cooled`, `recent`, `late`, `past`. Actions: the scan
(`StartScan`, `ScanRule`, `Schedule`, `ScanFails`), the attempt loop (`Claim`, `Check`,
`Expire`, `Generate`, `Load`, `Publish`, `MarkSent`, `Close`, `Fail`), `Sweep`, `Crash`, and
the world (`Reply`, `Leave`, `Deactivate`, `GoStale`, `Cool`).

Run `reengage` (`TypeOK`, `TableIsTrue`, `IntervalKept`, `AttemptsEnd`): one rule with a
budget of two, two scans, two workers, one reply, one crash. Two scans and two workers are
what overlapping processes are; a budget of two is the least with a second hook, one reply the
least that starts a cycle. Fairness: the attempt loop of each process as a whole, and the
sweep of each row, both on timers. A `generate` that never returns would break it:
`generator.ts:48-55` never passes its abort signal on, so this rests on the HTTP client ending
its calls. `deliver`'s query for the newest message is modelled as it is meant;
`ReengagementWorker` is constructed only in a test.

### 3.4 FunnelTurn

`FunnelTurn.tla` is `FunnelRuntime.processMessage` for one conversation with the Redis lock,
the optimistic version, the confirmation gate, stuck counting and the return stack.
`FunnelWalk.tla` is the funnel with indivisible turns, and `ImplementsWalk` says that even
overlapping turns leave a row that turns one after the other could have left.

`chat-service.ts` builds the runtime with repository, scorer and Redis only: classifier,
guards, reteller and slot extraction are dead code there and not modelled. Without
`REDIS_URL` there is no lock at all; the module is for the configuration with one. The lock
has no owner and `DEL` is unconditional. `Refuse` (a second turn throws "Concurrent request")
is the code's whole answer to spec 003's serialization: nobody retries it.

Run `funnel` (`TypeOK`, `TurnsAreSerial`, `ImplementsWalk`, `AskedIsSettled`, `Unlocks`):
three turns, four stages of which one is anytime, one asks for a confirmation and two have an
exit, stuck threshold 2, stack depth 1, one crash, and *one* disturbance: an expiry under a
live turn or a reset. The two share a budget because with one of each the version starts again
at 0 under an overlapping turn, and a write fits a row it never read: `ImplementsWalk` then
fails (a hazard in the list). The theorem `WalkIsImplemented` has the same condition for any
number of turns, expiries and resets. Four turns were also checked once (1.34 million states, no
error). Fairness: weak, of each turn's steps and of the TTL.

### 3.5 TuningDraft

`TuningDraft.tla` is the drafts of one persona: `Sweep`/`Create`/`Finish` of the producers,
`PollRead`/`PollWrite` with the reaper, `Check`, `ReadPart`, `Scan`, `Lock`, `CommitActivate`
of activate, `Undo`, `Lock`, `CommitUndo` of rollback, `Abort`, `Crash`. PostgreSQL is external
and modelled by what these statements use of it: READ COMMITTED, a row lock from a write to
the end of its transaction, writes visible together at commit, a deadlock broken by aborting a
member, and the unique indexes. `live` is the persona's configuration in three parts, each read,
set and put back by statements of its own: the prompt, the switches of the validators (their
rows taken as one) and the active funnel version. A value of a part is the draft it came from.
A draft may fill in any of them or none: one made of an accepted proposal is set to ready as it
was inserted (`conversation-analyzer.ts:88-93`). What a rollback does not put back is a funnel
where there was none.

Two history variables say what the properties are conditional on. `overlap`: two requests
about the persona were open at once (or the reaper wrote over a row that had moved on);
`ActivatedIsLive` and `RollbackRestores` are for histories without. `crossed`, finer: one
activation looked for its predecessor while another was between its own look and its commit;
only then may two drafts be activated. The interleavings are all in the model: `OneActivated`
and `RequestsEnd` hold through the overlaps.

Run `tuning` (`TypeOK`, `OneActivated`, `ActivatedIsLive`, `RollbackRestores`, `NeverBricked`,
`RequestsEnd`): two drafts that fill in nothing, a funnel only or everything, two requests at a
time and three in all, one stall, one crash. Three requests are activate, activate and roll
back; two drafts are one and the one that supersedes it. What the two conditions exempt has configurations of
its own: `TuningDraft_two_active.cfg` (`SingleActive`, violated) crosses two activations and ends
with two activated drafts, and `TuningDraft_reaped.cfg` (`ReapsGenerating`, violated) has a poll
fail a draft that has become ready since the poll read it. Fairness is *strong* for the statements of a request: a
lock that is released goes to the transaction that waits for it.

### 3.6 The channels

`ChannelAdapters.tla` holds the sixteen adapters as *programs*: the same few steps in the order
each adapter has them, inbound (`verify`, `filter`, `dedup`, `early`, `publish`, `ok`),
outbound (`mine`, `rate`, `address`, `require`, `config`, `lookup`, `token`, `call`) and for
`connect`. `filter` (an event that is no message) and `own` (what the bot wrote) are steps only
of the adapters that have the check, and what a check needs may be missing: `bare` is a process
without the optional setting it rests on. The order *is* the behaviour: whether the platform is answered before the stream
has the message, whether the marker is set before the publication, whether the consumer is
started before the status. The initial state picks the kind of adapter, so one run covers all.
Both sides extend it and share what they have in common: the kind of adapter, what a message
is, the count of failures.

`ChannelInbound.tla` interprets an inbound program in concurrent handlers: requests that a
platform repeats until it is told they are accepted, socket events that come once, polled and
mailbox batches handled in sequence; writes to Redis fail, markers lapse, sockets close, the
process dies and restarts (with a fresh cursor where the server's is used).

Run `inbound` (`TypeOK`, `StreamIsExact`, `EventuallyQueued`): two messages of any class, two
handlers, two faults. `StreamIsExact` is that what was accepted is on the stream (or in a
handler's hands, or was spoilt by a failure after a marker or an early answer, which is the
only way to lose it), that an adapter with markers queues a message once while the marker
lives, and that without a fault the stream holds the users' texts and beside them only what the
adapter has no check for, which `Unchecked` names per adapter:
  - the bot's own messages, where nothing tells them from users': DingTalk, SMS, WhatsApp, Feishu,
    WeCom, webhooks, Telegram, Home Assistant, e-mail; Matrix without the optional `userId`, and
    Mattermost unless the post carries the mark of a bot account;
  - messages without a text: Slack, WhatsApp, Feishu, WeCom, Avito, Discord, Mattermost, VK, e-mail;
  - requests without a signature at DingTalk, and falsely signed ones when it has no token.

MTProto without a Redis has no markers. `EventuallyQueued` is
for the four platforms whose answer comes last. Two messages are what a batch needs to be cut
in the middle; two handlers are two deliveries of one message side by side. Fairness: handlers
run (weak), the process is started again (weak), and the platform hands a message over again
and again until it is told it is accepted (strong: it can only be handed while the process
runs and a handler is idle); that is the retry contract of the webhook platforms, and nothing
is claimed of the others.

`ChannelOutbound.tla` is the OUTBOUND stream with the consumer loop of `ChannelTransport` in one
process per channel: `EnsureGroup`, `Read`, `ReadNothing`, `ReadFails` (the fifth ends the
consumer), the outbound program per entry, `Ack`, retries inside an adapter, the rate limiter,
`ConnectStep`, `StartAgain`, events of the client library.

Run `outbound` (`OutboundTypeOK`, `SentAndAcked`, `InOrder`): two channels of one kind, two entries,
batches of two, two failing reads to the end (the code's five, reduced), two faults, one idle
read or limiter window. `named` is whether an entry's fields come by name, as
`channel-transport.ts:38-52` declares and its tests assume, or as the flat list ioredis makes of
XREADGROUP's reply, in which `data.channel_id` is undefined. `SentAndAcked` is that an entry
reaches the platform no oftener than its adapter tries; that, with names, an answer in its own
channel's hands is acknowledged because it was sent or for one of the reasons the adapters
have; that from a flat list nothing is sent; and that an adapter whose status is active has a
consumer. With ioredis as it is `named` is FALSE, no adapter sends anything, and `outbound_flat`
(`AckedIsSent`, violated) shows it: what the passing run says of deliveries is said of the code
with that cast repaired. Symmetry over channels is sound: no liveness property. There is none because a lost
entry *is* the code's behaviour (section 5).

### 3.7 Provider configuration and the agent executor

`ProviderConfig.tla` is the two tables as administrators write them: a save is SELECT, compare,
UPDATE or INSERT, and read back, each a step (`row`, `created`, `save`). `Executor.tla` is
`HermesExecutor`: a turn reads the override and the default, decrypts the key, registers the
tools of its persona's MCP server in the process-wide registry, listens on the one
`ENGINE_MCP_PORT`, takes a client from the pool or spawns one, and waits while the agent
process answers, calls tools, or dies, and timers fire (`Timeout`, `Reap`). Everything between
two awaits is one step. Whatever goes wrong once the configuration is resolved, the turn falls
back to a plain completion; the two queries that resolve it (`hermes-executor.ts:113`) are
outside the `try`, and when one fails the turn throws (`ResolveFails`).

A binding of a persona names an entry of its tenant's catalog, and the entry's name is the name of
its tools. Names are unique within a tenant only (`mcp-catalog-entry.ts:40`), while the registry
is one for the process. `OwnTools`, the second half of `OwnWork`, is what that leaves: the agent
of a turn calls its own persona's server, or, only where another tenant has an entry of the very
same name, possibly that one.

Run `executor` (`TypeOK`, `OwnWork`, `AgentsAccounted`, `OnlyOwnerKills`, `ConfigIsEffective`,
`EveryTurnEnds`): two turns of two personas of two tenants, one place in the pool, two savers, a
row created once and changed once. Rows are written only until the first turn has resolved
(`SaveWindow`), and while they are only one turn takes part (`SavesMeetOneTurn`): a turn uses
its configuration as resolved and never looks again, and what two turns do to one another is
explored with the rows at rest. The action constraint removes behaviours in which saves go on,
so `EveryTurnEnds` is about the behaviours it leaves; since turns never wait for a save nothing
is hidden by it. Two turns are the least that share a client, a port and a pool; one place in
the pool makes every second entry an eviction. Fairness: steps the event loop has ready, the
time limit's timer, and the end of a process that was sent SIGTERM. Nothing makes the agent
answer.

Why turns cannot mix: the port is fixed and is held from before the client is taken until after
the turn ends, so at most one turn uses an agent at a time. `OwnWork`, `AgentsAccounted` and
`OnlyOwnerKills` all rest on that; with a free port per turn (`PortFreeOnAnyPort`, one of the
mistakes) two turns share a client with one listener and the first gets the second's words.

`ConfigIsEffective` is conditional on what the code does not exclude: no write between the two
reads of a turn, nobody between the SELECT and the UPDATE of a save. `Executor_saves.cfg`
(`OptimisticSaves`, violated) is the second case, two saves of which one overwrites the other
although it names a version; the first case, a turn that runs with a mix of two moments, no
document rules out. `Executor_names.cfg` (`OwnServers`, violated) gives the servers of the two tenants
one name: a process that was sent SIGTERM but has not ended calls the tool on the port where
the other tenant's turn listens by now, or a turn loads its tools and replaces the handler a
running turn uses.

### 3.8 The embedding adapter and documents

`EmbeddingAdapter.tla` is the breaker and the limiter of the adapter process around a request to
`/embed` (`Refuse`, `Admit`, `Settle`, `OrphanSettles` for a request whose caller died). The
breaker's clock is a choice at each check; `failureCount` is only compared with its threshold
and stops there. `Documents.tla` is the documents of one persona: upload (`Ingest`, `Commit`,
`Rollback`) with its job queued inside the transaction, `Delete`, the ingest job statement by
statement, the lazy job that makes all chunks anew, and deaths. Any statement may fail
(`StepFails`, `LazyStepFails`), and so may the write of the catch block: the job is then
`unreported`. Both jobs run in a child of the worker (`training/src/index.ts:22-39`). When only
the child dies BullMQ fails the job at once, which for an ingest job, with its one attempt, is
the end; when the worker dies, and its child with it, the job is run once more. The catch
block's write is merged with the error; reading the persona's
mode is a choice merged with `StoreText`; a statement that fails aborts its transaction even
when it is caught, as the driver has it. `enqueueLazyEmbedJob` has no caller in the repository;
the lazy jobs are in the queue from the start.

Run `documents` (`TypeOK`, `IndexIsTrue`, `IngestEnds`): two documents of two chunks (one already
stored), one lazy job with two attempts, one death, threshold 2, two places in the limiter.
`TypeOK` holds the accounting of the limiter: what it counts is requests in flight.
`IndexIsTrue` is that `completed` over an index nobody disturbed since the job began is exact,
and that a document reported ready in vector mode has its chunks (once each, if its job ran
once). What disturbs an index is in the model and not in that property: `Documents_stale.cfg`
(`CompletedIsNoLie`, violated) shows `completed` over a text without chunks. `IngestEnds` is
that an upload is reported ready or failed, or deleted; the ways it is not are part of its
statement, because they are the code's: a failure whose write failed, the death of the
processes, and a job that overtook its upload leave the document as it is for ever. Two chunks let a failure fall
between two inserts, two attempts meet the chunks of the first. Fairness:
workers work on, the database commits or rolls back; no one must upload, delete or die.

### 3.9 Validators and correction rules

`RuleCache.tla` is the process-wide cache in front of the rules, which live in another product:
`LookUp`, `Serve`, `UseAnswer` of overlapping lookups against `Change`, `Tick` and `Invalidate`.
`ReplyGuard.tla` is a reply between generation and delivery: `Generate` picks the kind of reply
and so which path it takes, `Validate` runs the false-promise, language and identity validators
in the order of `pipeline.ts` in any mode with any answer of their judges, `Settle` applies the
empty-output guard, `Correct` the rules with their re-validation and rollback. The judge of
promises fails, convicts, or answers one of three things the code lets pass (`Lenient`): an
acquittal, a conviction below `minConfidence`, and JSON without a confidence, which no comparison
holds of (`false-promise.ts:114-143`). A text is what
the detectors make of it: how sure a promise, which script, whether it gives the model away,
blank or not.

Run `replyguard` (`TypeOK`, `ReplyIsGoverned`): one reply and another lookup beside it, five
generated texts that differ in every attribute, one change of the rules, a clock of three
values and a TTL of one (4.9 million states). The reply is one because replies share only the
cache, where the other lookup is the interference; one change is an old and a new version, two
ticks let an entry be fetched, age and be refreshed. `ReplyIsGoverned` says what goes out is
what the active validators promise of the writer of its last text, is never blank, and was
rewritten by rules in force within the TTL and no older than the last reload allows. An exact
promise goes out of an active validator only on an answer of the judge, never on its failure;
that an answer without a verdict lets it out too is `ReplyGuard_malformed.cfg` (`MalformedIsClosed`,
violated). "Goes out" is what `complete()` stores and publishes; what it returns to a direct
caller is the LLM's own words: `ReplyGuard_returned.cfg` (`ReturnedIsGoverned`, violated).

## 4. What is proved

TLAPS proves, for every value of the constants that satisfies the named assumptions:

| Module | Theorem | Argument |
|---|---|---|
| `DeliveryProofs` | `TypeCorrect`, `LedgerTrue`, `Implementation`, `OneEntryPasses` | `IInv`, per turn: who holds the right to publish. Winning the CAS gives it to one holder (`pacing`, or the retry's `won`/`saved`) while `finals = 0`; the ledger never leaves `final_delivered`, so no second holder appears; a retry exists only when the original has given up. The refinement maps each action to a ledger step or a stutter. Dedup: while no key of a message has expired, the key is held if a turn got in, and no second turn has (`KeyInv`) |
| `AgentProofs` (gateway) | `GatewayTypeCorrect`, `WritesTrue`, `Implementation` | `GatewayInv`: the author of a row is unique because a row is inserted only where none is; a write takes effect only after its own reservation and never returns to that place |
| `AgentProofs` (executor) | `TypeCorrect`, `OwnWorkOnly`, `AgentsAreAccounted`, `NobodyElseKills`, `ResolvesWhatIsEffective` | one port, one agent turn (`PortHeld`); so a process that lives and was not sent SIGTERM works for that turn, pooled or not, and a listener is the turn it works for; the registered handler of a name is an entry of that name (`ToolInv`), and within a tenant that is the one entry; what a save or a turn carries from its first read is what the row still says unless it is marked raced or torn (`AllFaithful`). That an oldest entry of the pool exists is the well-foundedness of strict subsets of a finite set |
| `ReengagementProofs` | `TypeCorrect`, `TableTrue`, `IntervalIsKept` | batches are disjoint and hold claimed attempts only (`Held`); of a batch only the current attempt may be out (`Progress`). With one rule attempts come one by one (`Spaced`): the next index needs the count that the end of its predecessor writes, and one that was sent and is not yet counted is the last there is (`SentLast`) |
| `FunnelTurnProofs` | `TypeCorrect`, `TurnsSerialized`, `WalkIsImplemented`, `AskedSettled` | counting: each entry takes the free lock, each deletion of the key belongs to a turn that leaves or to an expiry; hence without an expiry a turn is alone, and its reading is the row. Walk: while the row is not reset the version only grows, so a write that fits replaces the row it was decided from (`VersionInv`); each kind of write is then a step of `FunnelWalk` (`Allowed`) |
| `TuningDraftProofs` | `TypeCorrect`, `OneActivatedDraft`, `EscapeHatch`, `ActivatedRuns`, `RollbackPutsBack` | while no two activations crossed, at most one is past its look (`OneScanned`), and it has seen all that is activated (`Covered`), so its commit leaves itself alone. What a generate request swept has failed, and only an INSERT makes a draft generating, so what turns it away is not among them (`SweptInv`). Without overlap the one open request holds what the rows still say, and a draft's snapshot is what was live before it (`SerialInv`) |
| `ChannelProofs` (inbound) | `InboundTypes`, `StreamHoldsWhatItShould` | a marker is a debt: while it lives its message is on the stream, was spoilt, or is owed by the one handler that set it; what a handler has behind it says what its message is (`InboundInv`). The sixteen programs enter by the orders of their steps |
| `ChannelProofs` (outbound) | `OutboundTypes`, `SentOnce`, `SentInOrder` | the entry in hand: only its own channel's process takes it past the first step, batches are in the order of the stream, and its sends are counted by the tries (`OutboundInv`); the group gives nothing twice, so what died with a process is not met again |
| `DocumentsProofs` | `TypeCorrect`, `IndexIsAlwaysTrue` | the limiter's count is the two sets of waiting jobs and the orphans (`Accounts`); until a lazy job sweeps them, a document's chunks are what its ingest job has put in so far (`Counted`); a lazy job nobody disturbs runs alone, and each stored text is on its list or already exact (`Progress`) |
| `ReplyGuardProofs` | `TypeCorrect`, `Governed` | cache: the version an entry or an answer holds had not ceased to be in force when its fetch began (`EntryTrue`, `LookTrue`). Reply: at each validator's place, what the earlier ones established of the text and its writer (`PromiseFact`, `LanguageFact`, `IdentityFact`), kept by each later remedy or replaced with the writer |

The properties themselves are not inductive: `finals[t] <= 1` says nothing about a worker that
has won and not yet published. The strengthenings above add exactly that. Assumptions are the
`ASSUME`s of the component modules (types of the constants, finiteness of index sets, model
values that differ, at least one document; catalog entries of one tenant have names that differ,
and a binding stays within its tenant); TLC evaluates them in the runs. Two theorems have a hypothesis of their
own, and each is where the code needs it: `IntervalIsKept` that there is one rule, because hooks
of two rules do fall within one interval (section 5), and `WalkIsImplemented` that not both a
turn outlived its lock and the row was reset, because together they let a write fit a row it
never read.

Every safety property of the passing runs, invariant, action property or refinement, is stated
by one of these theorems. Model-checked only is liveness (`EveryCallAccounted`, `AttemptsEnd`,
`Unlocks`, `RequestsEnd`, `EventuallyQueued`, `EveryTurnEnds`, `IngestEnds`): TLAPS has neither
ENABLED nor the fairness rules. The properties of the nine configurations of section 2 are refuted by TLC.

What a recursive definition computes for every input is out of this prover's reach, and no
module here declares a RECURSIVE operator.

## 5. Where the code and its documents differ

Those with the name of a run or a configuration are shown by it; the others are in the models as the
code has them, and the properties are stated so as to hold of the code. Paths of this list are
below `packages/core/src/services/` unless they begin with another package; `specs/` is the
repository's.

Delivery and tools
  - both retry queues answer one turn (`delivery_double_final`); `channel-orchestrator.ts:71` ("already
    delivered via CAS") is not so for the three early returns; `llm-retry-worker.ts:272` says
    it reverts the CAS and only rethrows;
  - a denial at the MCP server (`mcp-server.ts:143`) leaves no audit row though
    `hermes-executor.contract.md:46` says "denied (audited)"; a reservation whose call died
    stays pending for ever, though line 60 promises a sweep.

Re-engagement
  - after a reply the cycle index starts again at 0 and meets the used key (`scanner.ts:80`;
    `attempt-state-machine.contract.md:37`); deliver sends the newest message of the
    conversation, which need not be the hook (`delivery.ts:33`; `delivery.contract.md:12`); a
    reply between check and publish does not stop the hook (`spec.md:36`), and deliver's write
    undoes the reset of such a reply (`spec.md:59`); hooks of two rules may fall within one
    interval (`spec.md:44`); `opted_out` is never written.

Funnel and tuning
  - `messagesOnCurrentStage` has no column, so every move that needs no confirmation is blocked
    for ever (`funnel-runtime.ts:635`; `specs/003` `spec.md:118`); the return stack is popped by
    resolution only (`funnel-runtime.ts:447`; `specs/020` `spec.md:141`);
  - two activations that cross leave two activated drafts (`TuningDraft_two_active.cfg`;
    `activate-pipeline.ts:79`; `specs/026` `spec.md:131`), and the reaper fails a draft that is
    generating no more (`TuningDraft_reaped.cfg`; `tuning-draft-repository.ts:83`; `spec.md:128`);
  - a persona's first funnel stays active after its draft is rolled back
    (`activate-pipeline.ts:245`; `specs/026` `spec.md:132`); a late result revives a draft the
    reaper failed; `superseded` can be overwritten by a racing rollback.

Channels
  - the fields of an entry are read by name from a flat list, so that no adapter finds its
    channel's name and every entry is acknowledged unsent (`outbound_flat`;
    `channel-transport.ts:38-52`, `telegram-adapter.ts:73`); the orchestrator reads its entries
    in the same way (`channel-orchestrator.ts:46-57`): it would see no field, and mark every
    message with the one key `dedup::`;
  - nine adapters queue the bot's own messages again, nine queue messages without a text, and
    DingTalk takes requests without a signature (section 3.6);
  - an entry of another channel of the same kind is acknowledged and lost; an entry that stays
    pending is never read again although `channel-transport.ts:54` says it will be; the count of
    failing reads is not reset by a read that finds nothing (lines 46, 58, 61);
  - the marker set before a publication is not taken back when it fails; the VK cursor moves
    before its batch is handled, and a fresh server skips what came in between; e-mail never
    marks a mail seen; Mattermost and Home Assistant never reconnect; Telegram and WhatsApp may
    report active over a consumer that has ended;
  - Discord answers to the author's id as if it were a channel and takes its token from the
    environment, Avito answers to the author's id; MTProto publishes without channel type,
    tenant and persona, and its per-peer queues never shrink
    (`channel-telegram-mtproto/src/rate-limit.ts:43`); the orchestrator's failure notice has
    neither content nor recipient.

Agent executor and configuration
  - a client is killed after every turn, so the pool is never warm (`hermes-adapter.ts:138`), and
    the fixed port sends every concurrent turn to the plain completion (`specs/010`
    `spec.md:29`, `58`); handlers are registered process-wide by name
    (`Executor_names.cfg`; `hermes-executor.ts:426`, `tool-gateway.ts:57`; `specs/014` `spec.md:103`,
    `105`); a query that fails at `hermes-executor.ts:113` fails the turn; late
    chunks are still pushed to a timed-out turn's steps; `AGENT_MAX_EXECUTION_MS=0` is no limit;
  - two saves with the same expected version both succeed and the version may go back
    (`Executor_saves.cfg`; `provider-config.service.ts:379`, whose comment at line 40 has it optimistic); a save of a
    row deleted meanwhile ends in a TypeError; a resolution may mix two moments.

Documents
  - `completed` is written over the `idle` of a document that came or went meanwhile
    (`Documents_stale.cfg`; `lazy-embed-worker.ts:80`; `specs/028` `spec.md:117`); when the write
    that reports a failure fails, or the processes die, a document stays `parsing` for ever
    (`document-ingest-worker.ts:114`); a job that overtakes its
    upload's commit loses its text or its `failed`; a job run again after a stall, and two lazy
    jobs at once, leave chunks twice; a lazy job that failed leaves what it swept without vectors;
    a half-open breaker admits everyone.

Validators and rules
  - a judge's JSON without a confidence lets an exact promise out (`ReplyGuard_malformed.cfg`;
    `false-promise.ts:141`; `specs/004` `spec.md:103`);
  - `complete()` returns `llmResponse.content`, not the validated text, to its caller
    (`ReplyGuard_returned.cfg`; `chat-service.ts:628`; `specs/004` FR-001), and the messages go to the LLM as they came
    (`chat-service.ts:404`; FR-002); streamed and agentic replies of personas without a
    language guard are not validated at all;
  - re-validation's language check never fires (`re-validator.ts:31`, `40`; `specs/017`
    `spec.md:137`); it rolls back every rewrite with a new promise-like token, because a clean
    verdict is `no_op` and not `pass`, while the `\b` of its expression never matches around
    Cyrillic letters (`re-validator.ts:12`; `specs/018` SC-005);
  - the empty-output guard restores the text as it was before any validator
    saw it (`pipeline.ts:119`); a translated or regenerated text is not judged for promises again; the
    Russian disclaimer may be stripped by the language guard of an English persona; a text in
    braces escapes that guard;
  - a slow fetch refills the cache after a reload (`rule-cache.ts:38`; `specs/018`
    `spec.md:90`), and a reload reaches one process only.

## 6. What is not modelled, and why

  - *Text*: prompts, the wording of replies, regular expressions, message formats, chunking. A
    text is what the code's branches tell apart.
  - *LLMs, platforms, providers*: a choice of outcomes. *Time*: a comparison when it is made.
    *Tenants*: rows of one tenant never meet another's, but for the tool registry (3.7).
  - *Retrieval grounding, input validation, security helpers*: pure functions of one call; their
    content is text, scores and cryptography.
  - *Feedback, annotations, the channel registry, training jobs, session memory, HTTP routes*:
    single statements or thin wrappers; a route with a state change of its own is modelled with
    the component it changes.
  - *LLM clients, funnel language helpers, CLI, shared types*: wrappers of a remote call, or code
    the running program never builds.
  - Inside modelled components: authoring of funnels, the interview's Redis session, the Redis
    registry of agents, `/rerank`, audit rows of the validators. `PROJECT.json` gives each
    component's status and reason.
