# Verification of agent-connector-sdk

TLA+ models of the `scion_sdk` package (under `src/scion_sdk/`), the TLC
configurations that check them and the TLAPS proofs about them. The SDK connects
agent connectors to external sources and to the epistemic graph (EG, "Medulla"):
it reads sources into the graph under compare-and-swap checkpoints, and it writes
governed changes back to sources. Both directions run over networks that lose
answers, in processes that die, with several instances at work; that is what the
models are about.

## 1. Inventory

### Components, state and operations

| Component (package) | State it keeps | Operations | Hard behaviours | What makes it correct |
|---|---|---|---|---|
| Governed write-back (`writeback/`) | EG ledger of receipts per change set; source entity version and effect record per idempotency key; audit reservation per key; `_unresolved` and in-flight keys in memory | `register`, `apply`, `reconcile`, transport `apply`/`reconcile`, `reserve` | crash between effect and receipt; lost acknowledgement; two instances; approval lapsing during an await; two files written one after the other | one effect per key; receipts true; uncertain outcomes never blindly retried; the stream of receipts replays |
| Write-back sinks (`writeback_sinks/`) | audit reservation files; vendor payloads | `execute_governed`, per-vendor `write` | same as above, through `SinkWriteBackTransport` | same promise for every sink |
| Knowledge ingest (`ingest/service.py`, `request.py`, `stream.py`) | one asyncio lock per stream; EG's accepted checkpoint (sequence, batch digest, cursor) | `submit`, `submit_blocking`, `accepted_cursor`, `source_status`, `SourceStream.sync` and `write` | a race with another process; a chunked page failing part-way; a timed-out `submit_blocking` whose commit lands later | the accepted cursor never passes a record that was not accepted; a page is not replayed onto a newer checkpoint |
| Declared source sync (`ingest/source_sync.py`) | KV checkpoint (cursor, per-record digests, last report) with a version; one `_Run` per call | `sync`, `_sweep`, `_take`, `_flush`, `status` | two runs on one checkpoint; a run stopped by budget, tool failure, refusal or crash between submit and checkpoint | the cursor never passes a record that was not submitted; a changed record is eventually submitted |
| Sync runner (`runner/worker.py`, `syncing.py`, `supervisor.py`, `backoff.py`) | a worker task per connector with its cancel scope, backoff and pending changes; one capacity limiter | `sync_stream`, worker cycle, supervisor reconcile | refused pages, registry changing under workers, cancellation | pages advance in order from the committed checkpoint; every failing worker retries; one worker per descriptor |
| Runner health (`runner/health_state.py`, `health_server.py`) | per-connector records, registry flag, heartbeat | `sync_registry`, `record_credentials`, `record_cycle_*`, `liveness`, `readiness` | registry changes between a worker's start and its report | readiness is not reported before every registered connector resolved |
| Ingest worker (`runner/ingest_worker.py`) | a leased task of the engine's queue | claim, run, `task_queue_ack`, `commit` | crash or error between acknowledge and commit; a lease that ends during a job | a job is acknowledged only after its body; redelivered otherwise |
| Stage graph (`runner/stages.py`) | declared stages and dependencies | `validate_stage_graph` | cycles, unknown dependencies | order respects every dependency |
| HTTP client (`http/`, `httpsupport/`) | retry budget, rate limiter, egress pin | `send`, retry loop, page walks | retry of non-idempotent requests, `Retry-After`, limiter shared by threads, cyclic next links | bounded attempts; only safe requests replayed; paging ends |
| Auth (`auth/`) | cached token with expiry under a lock, delegation cache, rotating credential, browser token file | `get_token`, forced renewal, refresh | expiry during use, several threads minting, a forced renewal racing a read | one mint at a time; an expired token is not handed out |
| Credentials (`credentials/`) | credential sources behind a lock | `resolve` | partial resolution | no secret outside its sensitivity class |
| Repository (`repository/`) | batch being filled, ref manifest | ref walk, tree batches, index calls | ref moving under a walk, a batch at its limit | every file of the walked ref is indexed once |
| MCP server (`mcp/`) | request cache, change events, visibility policy; confirmation is stateless (a binding over action and arguments) | `tools/call`, confirm, subscribe | a confirmation for other arguments; cached results across actors | a confirmation is for exactly one action; cache hits belong to the caller |
| Transports (`transports/`), source client and mount (`source/`) | MCP session, blob cache, a mount's pending changeset | call, subscribe, read blob | session loss during a call | results bound to the session they came from |
| Event feeds, streams (`adapters/event_*.py`, `_stream_bus.py`, `streaming.py`) | event identities, one staged page; topic subscribers, history | `begin`/`stage`/`finish`, `publish`, `subscribe` | a page refused after it was staged; subscribers changing while a publish awaits | identities are kept only of accepted pages |
| Foreign reads, papers, platforms (`adapters/`) | execution handles, the shared quota slot in engine KV, an attempt list under one deadline, temporary files and artifacts | open/chunk/complete/abort, `request_slot`, download, fallback reads | handle expiry, a lost answer of a swap, a holder that dies, a thread that writes on after its deadline | one holder of a slot; every opened execution ends; a paper is under its digest only when whole |
| Document, tool and web sources (`adapters/`, `source_connectors/`) | cursors, version maps, crawl frontiers, seen ids, fan-out positions, watermarks | `poll`, `extract`, `reconcile`, crawl, fetch with redirects | sources that change between two pages; a refused document; a lost batch; names that change their address | a cursor hides nothing that was not taken; a snapshot is what the source showed; only approved addresses are called |
| Vendor extractors, providers, finance, enterprise (`vendor_extractors/`, `earth_observations/`, `taxonomy/`, `finance/`) | a change set being gathered, bindings of checkpoints, bars and alerts, receipts of a ledger | `extract`, stream pages, `publish_tick`, dispatch | records that move between calls, a policy that changes under a checkpoint, a receipt that is not found | nothing that was there throughout is left out; results say what happened |
| Data preparation (`data_prep/`) | row accounts, quarantine, scans, signed results | `run`, `run_paged`, `profile_table`, `run_certification_job` | limits and deadlines half-way, a provider that answers nonsense | every row is accounted for; no rare value is told; one signed verdict |
| File lock, resilience, payments, decide | an operating system lock; attempts of one call; spent budget; a question on the engine's loop | lock/unlock; `run_with_resilience`; pay; `choose` | retry of what may have happened; two payments against one budget; an answer after the timeout | only retry-safe calls are repeated; spending is what was recorded; a choice is earned and logged |
| Manifest, artifacts, certify, tls, testing, a2a, host, voice supply chain, compute | build-time and configuration data | load, validate, sign | none that interleave | schema rules |

### How they interact

* A caller holds a `DurableWritableConnector`; it calls `GovernedWriteBack`, which
  calls the authorization verifier (EG), the audit reservation port and the
  transport, and appends to the ledger (EG). Nothing is shared in memory between
  connector instances: they meet only in the ledger, the reservations and the source.
* `SourceSyncRunner` calls connector tools through a `SourceSession`, submits to EG
  through `KnowledgeIngest` (which has its own checkpoint in EG) and stores its own
  checkpoint in EG's KV with compare-and-swap. Two runs of one source share only
  these two stores.
* The supervisor starts one `ConnectorWorker` task per registered descriptor; a
  worker runs `sync_stream` per stream against the sink and reports to
  `RunnerHealth`, which the health server reads.

## 2. Modules and plan

A module models one component, with one action per operation and one step per await
that another actor can get between; parameters are CONSTANTS. Small components of one
package are sections of one module: a section has its own state, `Init`, `Next` and
`Spec` (`TokenInit`, `TokenNext`, ... where the names would meet) and shares nothing with
the others. Fault operators (`\* Fault: ...`) stand before the definition they corrupt:
each is a bug that one of the module's properties is there to catch, and each was seen to
be caught on the module's instance; `PROJECT.json` lists one of them per checked
property. Bounds are constants named `Max...`, or the sizes of the sets that are passed.

| Part | Modules | Read in |
|---|---|---|
| Governed write-back | `WriteBack`, abstract `EffectOnce`, `WriteBackProofs` | section 3 |
| Declared source sync | `SourceSync`, `SourceSyncProofs` | section 4 |
| Knowledge ingest and source streams | `IngestStream`, `IngestStreamProofs` | section 5 |
| Sync runner | `SyncRunner`, `SyncRunnerProofs` | section 6 |
| Calls out of the process and served calls | `PaperQuota`, `ForeignRead`, `SourceMount`, `ToolSurface`, `Authentication`, `HttpClients`, `McpServer`, `ChannelSelection`, `Sinks`, `CallSupport`, `EnterpriseCalls`; composed in `MCOutbound`; `PaperQuotaProofs`, `SourceMountProofs`, `McpServerProofs`, `PartProofs` | section 7 |
| Reading of sources | `DocumentIngest`, `GitDocuments`, `FileDocuments`, `SnapshotSources`, `PolledSources`, `WebSources`, `EventFeed`, `ToolSource`, `SourceTransport`, `FileReads`, `VendorSources`, `DataProviders`, `TablePipeline`, `LiveStreams`, `StreamContracts`; composed in `MCInbound` | section 8 |
| Overlap of write-back and of the ingest stream | `MCCore`, run `core` | sections 3, 5 |
| Progress, and the runner | `SyncRunner`, `SourceSync` and `IngestStream` in `MCLiveness`, run `liveness` | sections 4, 5, 6 |

Compositions inside the models: `GitDocuments` and `FileDocuments` extend
`DocumentIngest`; the served call of `McpServer` uses the visibility policy of the same
module; `VendorSources` runs the plans of its first section; `EventFeed` and `ToolSource`
include `sync_stream` and the page completion around their adapters; `WriteBack`
implements `EffectOnce`.

Left for later: proofs of the cache of `McpServer` (its lists are filtered with `SelectSeq`,
about which the library has no theorem the provers can use), of `ChannelSelection` and
`EnterpriseCalls`, and of the readers of section 8, of which `StreamContracts` (the jobs)
and `SourceTransport` (the credential and its threads) are the first candidates; and a
composition of `SourceSync` over the accepted checkpoint of `IngestStream`.

A run whose instance composes several parts (`core`, `liveness`, `outbound`, `inbound`)
chooses the part in its initial state and takes only that part's steps: the parts share no
state, and their properties are the modules' own.

## 3. Governed write-back: `WriteBack`, `EffectOnce`, `MCCore`, `MCWriteBack`, `WriteBackProofs`

`WriteBack` models `DurableWritableConnector` (`writeback/connector.py`) around
`GovernedWriteBack` (`writeback/service.py`), with the ledger replay
(`writeback/recovery.py`), the in-flight claim (`writeback/inflight.py`), the audit
reservation, and the two compare-and-apply transports (`writeback/memory.py`,
`writeback/durable_transport.py`).

| Model | Code |
|---|---|
| `registered`, `receipts` | the ledger's change sets and append-only receipts (EG, or `durable_ledger.py`) |
| `reservations` | one durable audit reservation per idempotency key (`_require_bound_reservation`) |
| `version`, `effects` | the source entity's version and the transport's effect record per key |
| `unresolved`, `inflight` | `GovernedWriteBack._unresolved` and `_InFlight._keys`, per connector instance |
| `step`, `target`, `outcome` | where a task's `apply` or `reconcile` call is; one step per await that another actor can get between |
| `expired`, `revoked` | the clock passing `expires_at_ms`, the recorded approval being withdrawn |
| `mutations`, `reported`, `lapsed` | observation only; no action reads them |

Choices a reader should know:

* `Abort` is any exception or cancellation at an await (ledger or audit port not
  available, wallet proof refused, transport without `prepare_writeback`): the
  claim is released by the context manager and nothing else is undone.
* `inflight` is per connector instance. The repository says so itself (R004.17 of
  the write-back requirements): it is no fence between instances.
* The file transport's two writes are synchronous, so nothing in its own process
  gets between them; only a crash does. Its run therefore has one task.
* A ledger append is atomic; its answer can be lost. Source versions only grow.

| Run | Instance | Shows |
|---|---|---|
| `core`, part `writeback` | two instances, one task each, two change sets under one key, the second prepared against the version the first produces; 3 calls, 1 crash | `TypeOK`, `OneEffectPerKey`, `AppliedReceiptIsTrue`, `ReportedIsDurable`, `LapsedAuthorityHasNoEffect`, and that `EffectOnce` is implemented (`KeepsPromise`) |
| `outbound`, part `restart` | one instance at a time, two tasks, 4 calls, 1 crash | `ReceiptsReplayable` (in `ReceiptsAreExplained`), `UncertainIsNotRetried` and `NoEffectIsProven` (as the steps of `UncertainIsHeld`) |
| `outbound`, part `file` | the file transport, one task, 4 calls, 1 crash | `OneEffectPerKey` and `AppliedReceiptIsTrue` also when killed between the two files (in `ReceiptsAreExplained`) |
| `wb_unrecorded` | as part `restart` | finding: a retry decision can be held in memory only |

Three further observations follow from the same actions and have no run of their own:
a crash after the source took the change and before `record_attempt` leaves a ledger
that permits a retry without any proof of no effect (the effect itself is still made
once); two instances can append receipts in an order the replay refuses for good, so
`ReceiptsReplayable` is checked for one instance at a time; and a kill between
`entities.json` and `effects.json` loses the idempotency record of a change that
happened, so that a later reconcile may prove "no effect" of it.

The bounds: an effect takes one call, its recovery a second and a reconcile a third;
the fourth lets a retry follow the reconcile. One crash is the longest distance
between two receipts of one change set. `MaxVersion = 1` lets another writer move
the source once, before, between or after the change sets. Deadlock is not checked:
an idle connector may simply receive no more calls. No liveness is claimed here:
whether a caller ever calls `reconcile` is up to the caller.

`EffectOnce` is the promise to a caller: the source takes at most one change set per
key, once, from its base version; it is acknowledged only after it was taken. Under
the mapping `taken <- Taken`, `acknowledged <- Acknowledged` every step of
`WriteBack` is a step of it or a stutter.

**Proved** (`WriteBackProofs`, for every set of change sets, keys, connectors and
tasks and both transports, from `WriteBackAssumption` alone): `TypeCorrect`,
`EffectInvariant`, `EffectOncePerKey`, `AppliedReceiptTruth`, `ImplementsEffectOnce`,
`ReportsAreDurable`, `LapsedCallsStop`, `OverlapGuard`; and with `SingleInstance` (all
tasks at one connector) `ReceiptsReplay`, `UncertainIsLeftAlone`, `RetryIsProven`.

* `OneEffectPerKey` is not inductive. `EffectInv` adds why it holds: a change moved the
  version past its base version, so the comparison refuses it a second time; it was
  made under the key's write-once reservation, so no other change set of the key gets
  that far; and every place that says "applied" (effect record, a task about to append
  a receipt, the receipts) is about that change.
* `ReportInv` and `LapsedInv` say of each task what its report and its lapsed authority
  rest on: a task that is about to return a prior effect has its APPLIED receipt in the
  ledger, and a task whose authority had lapsed when its reservation returned waits at the
  second verification, about a change set that is still expired or revoked.
* `GuardInv` is `_InFlight`: a running call holds its key, and no other call of the same
  instance does. `HoldInv` builds on it: a call that goes for an effect does so on a
  stream of receipts that is open and not uncertain, and what it is about to append is a
  continuation that the replay accepts. `SingleInstance` is needed: with two
  instances the replay can be closed for good, as said above.

## 4. Declared source sync: `SourceSync`, `MCSourceSync`, `SourceSyncProofs`

`SourceSync` models `SourceSyncRunner.sync` (`ingest/source_sync.py`) with its budget
mixin (`ingest/source_budget.py`, `source_budget_util.py`), the skip decision
(`ingest/_sync_run.py`), tool calls (`ingest/source_calls.py`) and the checkpoint
store (`ingest/_sync_models.py`).

| Model | Code |
|---|---|
| `content`, `stamp`, `listing` | the source: what a record's digest is taken of, its `cursor_field`, what each (parent, tool) pair lists |
| `kv`, `current` | the checkpoint in engine KV; the runs that hold its present version |
| `accepted` | the content of each record the engine took last |
| `run[i]` | the `_Run` of a call: `cursor` is the code's `run.state.cursor`, `high` is `run.cursor`, `pending` the batch, `rows` the rest of the page |
| `ever`, `untouched` | observation only; no action reads them |

* `ReadParents`, `ReadPage`, `Take`, `PageDone`, `FlushNothing`, `Submit`, `StoreBatch`,
  `Complete`, `Finish` are the steps between awaits of `sync`; `Conflict` is the refused
  compare-and-swap, `ToolFails`, `Deadline`, `SubmitRefused` the error paths. `Die` is a
  death or cancellation anywhere and a store whose answer is lost.
* Budgets belong to a runner, so runs with different ones may share a checkpoint.
* Which digests are evicted over `_MAX_DIGESTS` is left open (`Kept`): the dictionary's
  order is data that no property relies on.
* A record without an id is skipped by the code and is not modelled. Offset paging over
  a listing that shifts during the walk loses records at the source; the paged instance
  keeps its listings still, the unpaged ones do not need it.

| Run | Instance | Shows |
|---|---|---|
| `ss_overlap` | two runs, incremental or full, source updates, one failure | `TypeOK`, `DigestWasAccepted`, `WatermarkCovers`, `WithinBudget`, `CursorOnlyForward` |
| `inbound`, part `paged` | two sweeps of two pages, a record listed twice, a for_each parent, budgets that do and do not suffice | `CompletedRunCovers`, `EngineNotOlder`, `WithinBudget` (all in `CompletedRunCovers`) |
| `liveness`, part `watermark` | one sweep, oldest first, called again and again | `EverythingAccepted` |
| `liveness`, part `paging` | one sweep of two pages, for callers whose budget covers it or ends on its first page, one failure, one update | `EverythingAccepted` |
| `ss_budget` | the same two pages, and only the smaller budget | finding: every run ends on the first page, and the second record is never accepted |
| `ss_parents` | two sweeps, incremental | finding: the cursor stored after the first parent's batch hides the second parent's older records for good |

Bounds: two sweeps, pages and batches are the least with a boundary between them; one
update per record suffices to move it across a cursor or a page; one failure separates
any two stores. Fairness: the event loop carries a started call on, and its caller calls
again (incremental); a source that stops changing and calls that stop failing are the
bounds `MaxTouches` and `MaxFaults`. In part `paging` a call with the budget that covers
the source is made again and again (strong: the other budget's calls come between), which
is what `EverythingAccepted` needs: `_sweep_tool` starts at `start_page` and `_take` counts
unchanged records too, so that runs with the smaller budget alone never get further, though
`source_sync.py:12` says "a run that stops part-way resumes from its last accepted batch"
(`ss_budget`). Deadlock is not checked: nobody has to call.

Not claimed, because the code does not do it: with two overlapping runs
`EngineNotOlder` fails (a run submits a page it read before another run read and
submitted newer content; the compare-and-swap refuses its checkpoint, the engine has
already taken its content, and the newer digest makes later runs skip the record) and
so does `EventuallyAccepted`; no instance of a property about either has two overlapping
runs. Cursor values are compared as text
(`source_sync.py:235`): a numeric cursor that goes from 9 to 10 goes backwards, and
records behind it are skipped; the instances use values of one width.

**Proved** (`SourceSyncProofs`, for any records, runs, sweeps, listings, budgets and
bounds, from `SourceSyncAssumption`): `TypeCorrect`, `DigestsAreAccepted`,
`BudgetsHold`, `CursorMovesForward`; and, each under the condition that the code's
promise needs:

* `WatermarkHolds` under `OldestFirst`: one sweep over an unpaged listing, sorted by the
  cursor field, whose text order is its order. `ss_parents` is the counterexample for two
  sweeps, a numeric cursor the one for text.
* `CompletionHolds` under `StillPages` (a listing is read at once, or its order does not
  change under the walk) and without a watermark or `OldestFirst`: the records an offset
  walk over a shifting listing loses at the source are nobody's to find.
* `EngineKeepsUp` under `OneRun`: with two runs it is false, as said above.

`TypeInv` adds to `TypeOK` that a flush knows where it returns to. `DigestInv` says of
every run what `DigestWasAccepted` says of the checkpoint: its digests, and once it is
about to store its whole batch, are of accepted content. `BudgetInv` says in which steps
a batch may be full. `ForwardInv` says that a run that holds the checkpoint's present
version is not behind its cursor. `WatermarkInv` carries the watermark through a run:
whatever is not newer than `high` has been accepted, is pending or is still to be taken.
`CoverInv` does the same for the whole walk, for the records the source left alone.
`OrderInv` follows one record's content from the page to the engine to the digest. TLC
checked each of them before its proof on the instances of the runs above (`CoverInv`
also on the paged one).

## 5. Knowledge ingest and source streams: `IngestStream`, `MCCore`, `MCIngestStream`, `IngestStreamProofs`

`IngestStream` models one stream of the engine with everything that commits to it:
`KnowledgeIngest.submit` and `submit_blocking` (`ingest/service.py`,
`_request_checkpoint.py`, `_service_support.py`), `SourceStream.sync`
(`_stream_paging.py`) and cursorless writes (`_stream_base.py`, `_stream_writes.py`).

| Model | Code |
|---|---|
| `accepted` | the cursor of EG's accepted checkpoint; its sequence and digest are what `fresh` stands for |
| `requests` | requests between this process and EG; `live` while their task waits for the answer |
| `task[t]` | a pager's walk (`cursor`, `walked` for `_remember_cursor`, `read`, `part`) and a submission (`tries`, `previous`) |
| `lock[p]` | the `asyncio.Lock` of the stream in process p |
| `ever`, `pass` | observation only |

* `Fetch`/`FetchLoops`/`FetchFails` are one page of `sync`; `Acquire`, `ReadStatus`,
  `Send`, `Accept`, `Reject` one submission; `GiveUp` an error or a cancellation
  inside the lock, which leaves the request on its way (`EngineLate`).
* `fresh` abstracts compare-and-swap: a commit makes every checkpoint that was read
  before it stale. That is exact because the sequence number grows with every commit.
* `Submissions` is 1, or the number of parts a page needs; `LastEmpty`, `Loops` and
  `Resume` pick the providers and callers of an instance.

| Run | Instance | Shows |
|---|---|---|
| `core`, part `stream` | two pagers and a writer in two processes, two parts per page, looping continuations, an empty last page, one failure | `StreamTypeOK`, `CursorCovers`, `LockServes`, `OnlyPagesMoveCursor` |
| `core`, part `restarted` | the same without loops and failures, for callers that also start over from the first page | the same |
| `liveness`, part `stream` | one pager with `max_pages` below the source's pages, a writer elsewhere, one failure | `EventuallyWalked` |
| `is_stale` | two pagers in two processes | finding: a page another walk overtook commits without a conflict, because the checkpoint it expects is read when it is submitted |

Bounds: two processes are the least that can race, three pages the least with an inner
one, two parts the least partial page; a failure lets a request that was given up land
after its page was sent again. Fairness: event loops run and EG answers
what is waited for (weak); the lock is handed on in order, so a waiter that is often
enabled gets it (strong); a pager's caller syncs again (weak). Nothing is assumed of
requests nobody waits for. Deadlock is not checked: writers may be done.

**Proved** (`IngestStreamProofs`, from `IngestAssumption`): `TypeCorrect`,
`CursorNeverAhead`, `LockIsSafe`, `PagesMoveCursor`. `CursorCovers` is not inductive.
`LiveInv` ties a live request to the task that waits for it; `CoverInv` says that the
cursor a task walks from, the parts it already got accepted and the cursor each request
carries are all backed by accepted data. `Holders` names the steps inside the lock.
`FreshInv` says that a request that is fresh carries, unless it ends a page, exactly
the accepted cursor: that is why it cannot move it. `PassCovers`, `WalkEnds` and
liveness are model-checked only; `PassCovers` holds for one pager and is what `is_stale`
refutes for two.

## 6. The sync runner: `SyncRunner`, `MCLiveness`, `SyncRunnerProofs`

`SyncRunner` models `connector-sync`: `ConnectorSyncRunner.run_forever` and
`_reconcile` (`runner/supervisor.py`), `ConnectorWorker.serve` (`runner/worker.py`),
`sync_stream` (`runner/syncing.py`), the plans (`runner/plans.py`), the change feed
(`transports/mcp_changes.py`), and what readiness is computed from
(`runner/health_state.py`, `credentialed_endpoint.py`).

| Model | Code |
|---|---|
| `registry` | the operator's registry of connectors and descriptors |
| `wanted`, `phase`, `running` | `_reconcile`'s local `wanted`, where its loop is, and the `running` dictionary (the slot is the task behind the cancel scope) |
| `worker[n][s]` | a worker task: its step between awaits, its descriptor, its plan, the page it extracts, its feed's `pending` changes; `cancel` is "asked" once its scope is cancelled and "delivered" once that reached an await |
| `borrowed` | taken places of the `CapacityLimiter` |
| `loaded`, `resolved` | `RunnerHealth._registry_loaded`, `credentials_ok` per connector it knows |
| `data`, `accepted`, `requests` | the source's log of pages; EG's accepted checkpoint; pages on their way |

* `Reconcile` reads the registry and cancels what is outdated in one step, as the code
  does after its await; `StartWorker` is one `tasks.start`, which awaits. A cancelled
  worker is not awaited: it may be woken once more (`Go`) before it unwinds, and its
  replacement may run beside it; its page may arrive late (`Late`).
* `Fail` is an exception at any await of the worker, `Fails` the way to its backoff.
  The length of a backoff, failure counts, `run_once`, content packs, staged event
  pages and the heartbeat's age are not modelled.
* A notification reaches the feed at once or, if no session watches yet, never.

Run `liveness`, part `runner`: one connector, two descriptors, an announced preset and one that is only
scheduled and longer than `max_pages_per_cycle`, one place, two worker slots, one
registry edit, one failure. It shows `TypeOK`, `OneWorker`, `PlacesAreHeld`, `ReadyIsEarned`,
`PagesInOrder` and `EventuallySynced`. Two slots let a replaced worker overlap its
replacement (with one edit there is no third), one place makes a lost one fatal, and
with two pages per cycle three pages need a second, scheduled, cycle. Fairness: the event
loop runs every task, EG answers, the limiter's waiters are served in order (strong),
and a worker that waits is woken by a change or by its interval. Deadlock is not
checked: an empty registry has nothing to do.

Observations without a run: every `_wait` starts the interval afresh, so a server that
announces changes more often than `interval_seconds` keeps postponing the full cycle, and
with it every preset that has no data resource (`worker.py:146`); `EventuallySynced` is
stated for servers that fall silent. `RunnerHealth` never forgets a connector and keeps
`credentials_ok` when a descriptor changes (`health_state.py:105`): a removed
connector whose credentials failed keeps `/health/ready` at 503, and a re-described one
counts as resolved until its new endpoint is tried. `ReadyIsEarned` claims no more.

**Proved** (`SyncRunnerProofs`, for any connectors, descriptors, presets, places, edits
and failures, from the module's assumption): `TypeCorrect`, `WorkersAreKnown`,
`PlacesHold`, `ReadinessIsEarned`, `PagesKeepOrder`. The invariant `IInv` joins
`TypeOK` and `OneWorker` with what they rest on: `PlacesInv` (the cycles that run are a
finite set, of as many as there are taken places),
`PlanInv` (a stream is read from a place the source has reached), `RequestInv` (a page
under way is one the source has, and the one its worker waits for, if it still does) and
`ListedInv` (health knows every connector a worker was started for). Only
`EventuallySynced` is model-checked alone.

## 7. Calls out and served calls: `MCOutbound`, run `outbound`

`MCOutbound` instantiates the modules below and `WriteBack` side by side. A behaviour is
of one part: `Init` chooses it in `part`, `Next` takes only its steps, and the variables
`x1, x2, ...` stand for the variables of whatever part it is. Nothing is lost by checking
them in one run, because the parts share no state; a property of the run is a conjunction
of `part = "..." => ` the property the module states. Deadlock is not checked: every part
has bounds (calls, faults, time) after which it stops.

| Part | Module (section) and code | What interleaves, what fails | Checked |
|---|---|---|---|
| `quota` | `PaperQuota`: `adapters/paper_quota.py`, the paper search | three searches of two hosts around one slot in the engine's KV, pauses, a holder that dies, a swap whose answer is lost | `CallsAreEarned`: `Exclusive`, `SpacedStep`, `HonouredStep` |
| `foreign` | `ForeignRead`: `adapters/foreign_read.py` | three calls on two handles, phases that fail, answers lost, a bounded fence | `ExecutionsAccounted` |
| `mount` | `SourceMount`: `source/` client and mount | writes during a flush, commits of others, lost answers | `WritesAreKept`; finding `mount_lost` |
| `tools` | `ToolSurface`: `mcp/action_split.py`, `tool_surface.py` and what they call | registrations whose split names collide | `ServedCallsAreSound`: `ActionsAreServed`, `ComputationsAreKept`, `SurfaceIsGated`; finding `tool_lost` |
| `proof` | `Sinks`, its last section: the wallet signature and the repository contract of `writeback/` | the clock, a key revoked and another writer between verification, effect and readback | `ReceiptsAreExplained`: `ProofIsSigned`, `ReceiptIsBound` |
| `token`, `secret`, `login`, `renewal`, `caller` | `Authentication`: `auth/` (refresh-token provider, `RotatingAuth`, `SessionLoginAuth`, browser OAuth manager, `DelegatedTokenAuth`) | two or three requests around one cache; rotation at the token endpoint, refusals, lost answers; two login processes around one file and one port: two logins whose tokens are not renewed (`login`), and one whose tokens are (`renewal`) | `CredentialsAreCurrent` |
| `client`, `api`, `pace` | `HttpClients`: `http/` governed client, `BaseApiClient`, `RateLimiter` | overlapping requests, names that change their address, 429 and 401, cancellation while waiting | `CallsAreEarned` |
| `served`, `scope`, `lease` | `McpServer`: `mcp/` server boundary, visibility, dispatch and confirmation; request cache and progress; fleet registration | two overlapping requests and a client that asks again; an admit callback that re-enters the cache; heartbeats that fail | `ServedCallsAreSound` |
| `fallback`, `status` | `ChannelSelection`: `adapters/platform_fallback.py`, the status store | attempts and pauses under one deadline; readers and recorders, a clock that moves on | `CallsAreEarned`, `ServedCallsAreSound` |
| `sink`, `enrich` | `Sinks`: `writeback_sinks/` | a batch of operations with failures and lost answers, a retry of it; pushes to two trackers | `SinkWritesAccounted` |
| `resilience`, `lock`, `payment`, `decide` | `CallSupport`: `resilience`, the file lock and library state, `payments/`, `decide/` | retries and fallbacks; three processes, of which one may die between the halves of a write; payments called in any order; an answer after the timeout | `CallsAreEarned`, `WritesAreKept`, `ReceiptsAreExplained` |
| `enterprise`, `certify` | `EnterpriseCalls`: the enterprise dispatcher, `data_prep` certification jobs | a patch altered while it is being authorised, a receipt beyond the pages that are searched; a provider and a signer that answer nonsense | `ReceiptsAreExplained` |
| `restart`, `file` | `WriteBack`, see section 3 | | `ReceiptsAreExplained`, `UncertainIsHeld` |

The bounds are the second arguments of the instances. Two or three actors are enough for
every conflict the code can have (who came first, who came between); one or two faults
give the retry of what was already done; times run one or two ticks past the longest
limit of the instance. A bound that hides a case is named where it does: a mount has three
revisions, so that a commit of another lands before and after a flush; the quota's time is
one more than its longest pause; the status store has one channel more than it may hold.

What the models show beyond the properties, and what they leave out:

* `PaperQuota`: a provider's pause that a search can not wait for leaves the slot taken
  until an operator frees it; that is the code's choice, not a fault.
* `Authentication`. Refresh tokens: two requests never present one refresh token unless an
  answer was lost. Browser login: no lock between processes, so overlapping refreshes
  present a refresh token twice; the token file is cut and then written, so a crash loses
  the set; `handle_request` answers one request, so that a stray one costs the callback;
  the thread of a login that timed out keeps the port; a stale code file fails the next
  login; a dead refresh token never leads to a new login. The API key override is left
  out. Sessions: the refusal of one request empties the jar another has just filled, so
  that a request may be refused in the end although the docstring says "retries once with
  a fresh login" (`excused`).
* `HttpClients`: with `pin_egress` the request object is rewritten to its address, so that
  an auth flow which sends it again after a 401 is refused as "outbound connection reuse
  crossed origins", although `docs/http-clients.md:138` says tokens are "re-minted once on
  a 401" (that httpx sends the same object is external, hence no run of its own);
  `AIRGAP_MODE` is read once per pass, so that retries go out if it is set meanwhile.
  `backoff_seconds` has no caller in the SDK and is not modelled.
* `McpServer`: a confirmation is bound by an unkeyed digest and may be used again; clients
  send only answers to questions they were asked; `require_entitled` is called by the
  connector's tool; the refill of the rate limit, FastMCP and JWT verification are
  external. The lease of a server that stopped is left to run out.
* `ToolSurface`: `requirements.md:47` (R020.2) "Every action stays served" and
  `action_split.py:622` "never lose an action" do not hold when the split name of an action
  is the name of another router that is split later (ghost `gone`; run `tool_lost`), or when
  the client class has no `get_client` while verbose targets exist (`Unserved`);
  `ActionsAreServed` says that an action is lost in no other way. The analysis of a tool's source is abstracted to what it finds;
  `register_action_tools` without a client and declared sources are not modelled.
* `Sinks`: a sink swallows the errors of its operations, so that the ledger says APPLIED
  whatever the counts say; four sinks stamp, although `core.py` promises "idempotency across
  ALL sinks"; the stamp's key is shared, so that a second sink's stamp makes the first
  one's resolver lose the node. `push_capabilities` does not add to `seen`: two nodes of
  one name are created twice, and a retry after one tracker failed creates again at the
  other. A preview of `link_spec` still sets the spec's links; an error after some calls
  leaves the issue updated, and a retry repeats the comments. `pull_assigned` is not
  modelled; operations are taken to be well formed.
* `ForeignRead`: a caller that is cancelled before the client validated the open result,
  or whose answer was lost or refused, leaves the server's execution to its expiry;
  `NoHandleLeft` is about the handles the client validated.
* `CallSupport`, payments: nothing connects `authorize_payment`, `create_proof` and
  `record_payment`. A proof can be made of a payment that was refused, and a payment can be
  recorded as confirmed twice, or without having been approved. `WithinBudget` therefore
  assumes a host that has one payment approved at a time and confirms it at most once after
  its approval (ghost `strayed`); what holds of every host is that the sums are those of the
  confirmed records (`SpendIsTrue`) and that each of these had a proof of its own
  (`ConfirmedIsProved`). `expires_at` of a budget is never looked at.
* `CallSupport`, the lock file: it orders writers and readers, and makes no write atomic. A
  writer that dies between two halves of its write leaves half an update, which the next
  holder of the lock reads (ghost `torn`), until the next whole write.
* `CallSupport`, decisions: one that timed out goes on, and its record may say "executed"
  although the call site fell back; a log that fails is a warning although `points.py` says
  of write-back "every record is durable".
* `EnterpriseCalls`: a write whose receipt is not found within the pages that are searched,
  or is lost by a crash, is reported as failed without a receipt although it was applied.
  `_observe` builds and signs the "invalid_adapter_result" failure before it looks at the
  observation, so that every completed certification has a second, contradictory signed
  summary, which is thrown away; an authorization's expiry is checked at the start only.
* `Sinks`, the effect proofs: `verify` reads the clock before it awaits the resolver, and `valid_until`
  is not looked at again, so that an effect may follow the expiry of its proof. The
  repository contract is exported for connectors; no module of the SDK calls it.
* `ChannelSelection`: `get` reads the clock after it let the lock go; the wall clock and
  the monotonic one are one clock here.

**Proved** of most of the parts, each under hypotheses that say no more than that the
constants are what they stand for (`None` is no value, counters are numbers):

* `PaperQuotaProofs`, for any tasks, processes, policies, pauses and lost swaps:
  `OneCallAtATime`, `SpacingHolds`, `RetryAfterHolds`. `QuotaInv`: a version is written
  once, so that a swap that still meets the version it read meets the free slot it read;
  who believes to hold the slot holds it; who sleeps before a call sleeps past the spacing
  after the last one; the slot is free, or held by somebody who may call, only while the
  provider lets calls in.
* `SourceMountProofs`, for any paths, contents, commits of others and lost receipts:
  `WritesHold`, `ReadsHold`. `MountInv`: a receipt that is kept or told is of a change
  that was made over the base it names; and while no call overlapped another, a flush
  carries what is pending, a listing is of the base, a read looks at the base for a path
  with nothing pending, and every write is pending, on its way or in a revision.
* `McpServerProofs`, for any tools, policies, clients and requests: `ServedIsAdmitted`,
  `ServedForItsActor`, `ServedIsConfirmed` from `ServedInv`, which says of each request
  what it has passed at its stage (listener, verifier, profile), that its context holds
  its own actor from the binding to its end, that its tool is one its actor reaches and
  the policy shows (`RequestsOnlyNarrow`: the filters of a request never widen a policy),
  and that the question it carries exists and, once it goes on with a destructive tool,
  was accepted for just that tool and those arguments. `ServedConstants` asks besides that
  no tool has the name or tag `Nowhere` that stands for an empty intersection: the code
  chooses it so. Further `ProgressHolds` and `NothingAfterFinish` of the reporter, and
  `RegistrationLasts`: two heartbeat intervals are shorter than every lease of three
  seconds or more (`MIN_LEASE_TTL_SECONDS` is 60).

* `PartProofs` instantiates `CallSupport`, `ForeignRead`, `Authentication` and `HttpClients`
  and proves their sections one by one, each from an inductive invariant of its own:
  * File locks (`LockConstants`: `None` is no kind of lock): `LockKeepsUpdates`. `LockInv`:
    who reads or writes holds the lock in the kind its step says, an exclusive holder is
    alone, the first half of the file is as many updates on as were begun, and the second is
    with it unless a writer is between the two or died there (`torn`); a process that dies
    drops its lock.
  * Retries and fallbacks (`ResilienceConstants`: at least one attempt):
    `SecondCallsAreEarned`, `PlansAreFollowed`. `ResilienceInv`: the calls made so far are
    the first of the plan, all but the last ended with an error the caller lists, and the
    state says how the last one ended.
  * Decisions, for any answers: `ChoicesAreEarned`, `DecisionsAreLogged`. `DecisionInv`: what
    was read as an option is one that the call offered and its answer executed, and the log
    has no record but of the answer its question has.
  * Payments (`PaymentConstants`: amounts and limits are numbers): `BudgetHolds`,
    `ConfirmedAreProved`. `PaymentInv`: a confirmed record has a proof of its payment, the
    count is that of the confirmed records, and, while the host keeps to the workflow
    (`~strayed`), at most one payment is approved and not recorded, which fits what is left
    of the day and the month and the limits of one payment.
  * Foreign reads (`ForeignConstants`): `CapacityIsKept` and `ReservationsHold` count the
    opens under way (`CapacityInv`); `NoHandleIsLeft`, `PhasesTakeTurns` and
    `NothingIsSentAfterEnd` from `HandleInv`: a phase under way is of a tracked execution
    and the only one, and what is no longer tracked ended, expires or was told to end.
    `ClientIsInStep` needs that the server issues an id once (`~Reissues`). With a server
    that issues the id of an execution that ended again, the client may meet the late
    answer of the first under the second: TLC finds it with two faults, a tombstone that
    was dropped and two executions, which the instance of the run does not have; the run
    lets ids come back (`Reissues` is TRUE) within its bounds.
  * Refresh tokens (`TokenConstants`: the POSTs are requests): `RefreshTokensAreCurrent`,
    `PostsActOnce`, `SecondTryIsFresh`. `TokenInv`: one request mints at a time; but between
    an answer and its rotation the provider has what the endpoint takes next, unless an
    answer was lost; a request that is not idempotent is over once it had an effect; and a
    second try has a token issued after the first 401.
  * Rotating secrets, for any requests, rotations and faults: `RefusalsAreExcused`.
    `SecretInv`: for a request without an excuse the secret that is handed out is accepted,
    the one it was refused with is not, and what it fetched since is.
  * Browser login (`LoginConstants`): `LoginsUseTheirCodes`, `LoginFileIsCurrent`.
    `LoginInv`: a login has its number to itself, the port is its own while it waits and
    what arrives there is its code; and, unless calls overlapped or something was lost, the
    tokens in the file, and those that the one caller checks, renews or saves, are the
    newest of their login.
  * Delegated tokens (`CallerConstants`): `TokensAreOwn`, `CachesAreCurrent`. `CallerInv`:
    the cache has one entry of a caller at most, with the newest token issued to it, and
    the one request that holds the lock is the one that exchanges.
  * The governed client (`HttpConstants`: the options are complete and allow an attempt,
    answers are addresses): `ClientIsGoverned`. `ClientInv` says of a request at each of
    its places what the air-gap check, the resolution and the binding decided, that the
    binding is still in `_origin_hosts` (it only grows), and how often the server may have
    acted by its attempt, over both passes of a renewed credential.
  * `BaseApiClient` (`ApiConstants`): `ApiRequestsAreBounded`. `ApiInv`: a request that may
    still be sent was not acted on, and its own limits are none newer than the client's.
  * `RateLimiter` (`PaceConstants`): `SessionsArePaced`. `PaceInv`: who holds the lock sleeps
    until the interval after the last request that left.

TLC checked each invariant before its proof: `QuotaInv` with three tasks and two faults
(9.2 million states), `MountInv` with two flushes (471 thousand), `ServedInv` and the two
small ones on the instances of the run; of `PartProofs` the properties, on the instances of
the run. The run checks these properties inside the conjunctions of the table.
Model-checked only are `ClosedIsEmpty` and the sums of `SpendIsTrue` (the spending recorded
in `payments/` against the amounts of the records: a fold over a growing list, which is
induction over data).

## 8. Reading of sources: `MCInbound`, run `inbound`

`MCInbound` is built in the same way.

| Part | Module (section) and code | What interleaves, what fails | Checked |
|---|---|---|---|
| `git`, `file` | `GitDocuments`, `FileDocuments` over `DocumentIngest`: `adapters/document_sources.py` and its ingest | commits and rewrites of history, files edited while the tree is read, refused documents, faults between poll and commit | `CursorsHideNothing`; finding `git_orphan` |
| `snapshot`, `graphql` | `SnapshotSources`: `source_connectors/connectors/graphql_document.py` | a source that changes between two pages, an operator who changes the profile, a lost batch; answers with errors, fallbacks, bounds | `SnapshotIsExact` |
| `records`, `feed` | `PolledSources`: REST, MCP package and database sources; rss and arxiv | rows written, changed and deleted during a sweep, a batch not accepted; feeds that fail, undated entries, a cap of seen ids | `SweepCovers`, `ListedIsEmitted` |
| `web`, `policy`, `sweep` | `WebSources`: the web crawl, robots rules and domain pacing, `WebFetchSourceAdapter` | sites that change, polls that are lost, a frontier at its limit; three tasks and cancellation; a list that changes with a release | `ListedIsEmitted`, `FetchesAreApproved`, `SweepCovers` |
| `events`, `outage` | `EventFeed`: `adapters/event_*.py` under `runner/syncing.py` | redelivery, refused and lost pages, a full tracker, two tasks on one adapter: three entries and one fault (`events`), two entries and two faults (`outage`) | `EventsAreKept` |
| `tools` | `ToolSource`: the MCP tool adapter with `for_each`, under `sync_stream` | parents and records that come, change and go during a sweep, reconnects | `SweepCovers` |
| `repository` | `SnapshotSources`, its last section: `repository/` | a provider that may answer anything, batches at their limit | `SnapshotIsExact` |
| `fetch`, `credential`, `pages` | `SourceTransport`: the safe fetch, `credentials/source.py`, `PaginationIterator` | names that change between resolve and connect, redirects; threads that refresh one credential; consumers that share one iterator, cyclic cursors | `FetchesAreApproved`, `SweepCovers` |
| `workspace`, `export`, `download` | `FileReads`: `WorkspaceReader`, `BookmarkReader`, `PaperDocumentService` | files edited while they are read, a deadline, parser processes that break; a thread that writes after its deadline | `SnapshotIsExact`, `SweepCovers` |
| `vendor`, `card` | `VendorSources`: `vendor_extractors/`, agent cards | records that move between two calls of an extractor, calls that fail; a server that changes its card between overlapping calls | `SnapshotIsExact` |
| `streams`, `finance` | `DataProviders`: `earth_observations/`, `taxonomy/`, `finance/` adapters | a policy that changes under a checkpoint, pages of another account, files with ambiguous columns | `SweepCovers` |
| `clean`, `profile` | `TablePipeline`: `data_prep/` | every step may end the run; the table changes under a profile; an engine that answers nonsense | `SnapshotIsExact` |
| `bus`, `market`, `listen` | `LiveStreams`: `_stream_bus.py`, `streaming.py`, the market feed, `transports/` listen streams | subscriptions made and given up during a publish; overlapping ticks; a stream that is replaced while changes are under way | `EventsAreKept` |
| `stages`, `drift`, `cursor`, `jobs` | `StreamContracts`: `runner/stages.py`, `ingest/` drift and repair, the cursor strategies, `runner/ingest_worker.py` | every small stage graph; pages of every small schema; a source that changes while it is walked; two workers and leases that end | `SnapshotIsExact`, `CursorsHideNothing`, `EventsAreKept` |
| `paged` | `SourceSync`, see section 4 | | `CompletedRunCovers` |

Bounds: two or three records, two pages, one or two edits and one or two faults, so that a
record is before, on and behind the page that is read when it changes, and one fault can
follow another's recovery. Limits (frontier, seen ids, tracker entries, row counts, bytes)
are set so that they are reached.

What the models show beyond the properties, and what they leave out:

* `EventFeed`: adapters live for a session, so that a failed cycle gets a new tracker; a full
  tracker refuses new events until the next session; a changed payload is refused only
  within a session. Events are listed in the order of their times.
* `ToolSource`: `__fan` is a place in the list of parents that a new session reads again:
  parents that change during a sweep, and a reconnect, skip a parent although `fanout.py:6`
  says "a stopped run resumes at the same parent and page" (ghosts `moved`, `lost`); a
  parent that appears later with children older than the watermark is never read. Only page
  and offset pagination is modelled; withdrawals and relationships are not.
* `SnapshotSources`: links are not part of an entity's version, so that a link whose target
  appears in a later batch is never sent while the linking entity is unchanged; a
  fallback's answer is not counted as incomplete; a dry run returns the real checkpoint.
* `PolledSources`: a row written late behind the watermark is never read (ghost `late`); the
  MCP source keeps its seen ids for ever although `checkpoint.py` says "already emitted in
  this poll session"; more rows than `max_rows` fail every poll.
* `WebSources`: a checkpoint without a digest that is resumed under another list skips URLs
  (ghost `legacy`); one of another list is refused until it is removed. A 4xx answer for
  robots.txt is an allow.
* `SourceTransport`: `source.py:303` "A failed refresh contributes no header" is true only
  when no token is held: an expired one is sent. Rotated refresh tokens are kept in memory
  only. A transient failure of the secret store at first use leaves a source without its
  key until it is registered again. The page walk takes a server to honour the page size;
  `since_id` ends silently at a record without an id. The connection pool is not modelled.
* `FileReads`: an unexpected error of one task fails the whole workspace read; temporary
  files of a crash are never removed; parsers are abstracted.
* `VendorSources`: a list call that fails looks like an empty list for the tolerant vendors;
  records that share their key share an entity (Technitium records of one name and type,
  Caddy routes of one first host, agents of one slug); properties are abstracted.
  Overlapping card discoveries may leave an older card in the cache, which the next call
  revalidates.
* `DataProviders`: a page is refused as a whole for one bad record, so that one identifier
  that is not admitted stops a sweep for good; a checkpoint of another policy is refused
  until it is removed. A CSV activity is its file's digest and its row, so that a file
  exported again with one more row repeats every activity. `stock_image`, the market data
  registry, banking and strategy exports are not modelled.
* `TablePipeline`: bytes of strings and null bitmaps are not counted; minimum, maximum, mean
  and quantiles are one set of values.
* `LiveStreams`: a subscription to a new topic during a publish makes the publish raise after
  its deliveries; overlapping publishes may reach a subscriber out of order; a connection
  closed by its peer leaves `is_connected` True; JSON that is no message ends `listen`. A bar
  size subscribed while a bar is delivered ends `publish_tick`; a bar of negative prices
  only has high 0. A watch that the server declines cancels the earlier stream as well; a
  change announced on the earlier stream before the new one was acknowledged may be lost
  with it although `mcp_session.py:59` says "no event published during the switch is lost"
  (the streams are the mcp library's, hence no run).
* `StreamContracts`: a record that appears in a time window while its page is under way is
  passed over if the window is over by then (ghost `slipped`); positions promise nothing
  once records are removed; keys that tie at a page's end are lost. Without a configured
  contract the target takes the schema discovered at each sync, so that drift between
  syncs goes unnoticed; `paused` is read once, before the pages. `requirements.md:51` (R010)
  has the worker renew its claim every third of `lease_ms`; the code has no renewal, so that
  a body longer than its lease is delivered twice, and an error between acknowledge and
  commit loses the commit.
* `SnapshotSources`, the repository: tombstones are left out.

## 9. What is proved, checked and left out

Theorems hold for every value of the constants under the module's named assumption,
`WriteBackAssumption`, `SourceSyncAssumption`, `IngestAssumption` or `RunnerAssumption`,
which TLC also evaluates on every run of the module; a theorem that needs more names it as
a hypothesis (`LockConstants`, `TokenConstants`, ...), which sections 3, 4 and 7 justify. They are about the models: the engine
(compare-and-swap of checkpoints, append of receipts, KV, the task queue) and the sources
are external and taken at what `src/` expects of them.

Only model-checked, on the instances above: the liveness properties `EverythingAccepted`,
`EventuallyWalked` and `EventuallySynced` (fairness is out of the prover's reach);
`PassCovers` and `WalkEnds`; and the parts of `outbound` and `inbound` that section 7 does
not list as proved. The properties of those two runs are conjunctions over instances whose
constants are fixed, so that a theorem about all of them at once would say less than the
theorems about the modules. What walks a sequence by recursion (`SelectSeq`, folds) is
induction over data and stays with TLC as well: the request cache, the sink batches, the
row walks of the tables and the spending of `payments/` against the sum of its records.

Fairness is assumed in `MCLiveness`, as the modules state it, and in `ss_budget` only: tasks that can run do (an
event loop), the caller of a sync calls it again (the runner's interval), and faults are
finite (`MaxFaults`). No symmetry is used: the liveness runs forbid it, and the safety
runs do not need it.

Findings are the runs that expect a violation: `wb_unrecorded`, `ss_parents`, `ss_budget`,
`is_stale`, `git_orphan`, `mount_lost`, `tool_lost`; `PROJECT.json` quotes the line each
contradicts.

Known and not covered by a property: cursor values are compared as text whatever their type
(`source_sync.py:235`; the models take values whose text sorts like them); every change that
a server announces starts the worker's interval anew (`runner/worker.py:146`), so that a
source without watched resources waits for as long as changes keep coming; two overlapping
runs of one declared source may leave the engine with older content than the checkpoint
vouches for (section 4); the login's token file is whole only for one call at a time and
while no process dies over it (section 7, `Authentication`).

Promises of the repository that the code does not keep, and that a property leaves out by
name instead of a run refuting it:

| Promise | What the code does | Left out by |
|---|---|---|
| `credentials/source.py:303` "A failed refresh contributes no header." | an access token that is held goes out, expired or not | `failed` in `GivenIsCurrent` |
| `transports/mcp_session.py:59` "no event published during the switch is lost" | what only the earlier stream was told goes with it | `c.after = opened` in `ChangesAreHeld` |
| `adapters/mcp_tool_fanout.py:6` "a stopped run resumes at the same parent and page" | `__fan` is a place in a list that is read again: other parents, other place | `lost`, `moved` in `WatermarkCovers` of `ToolSource` |
| `specs/SCION-SOURCE-INGEST/requirements.md:51` (R010): the claim is renewed | no renewal | `StreamContracts` delivers a job again when its lease ends |
| `auth/`: "retries once with a fresh login" | another request's refusal empties the jar that was just filled | `excused` in `RefusalIsExcused` |
| `docs/http-clients.md:138`, `points.py` "every record is durable", `core.py` "idempotency across ALL sinks" | section 7 | `HttpClients`, `unlogged`, the sinks that stamp |

Not modelled: manifests, artifacts, signing and certification of releases, TLS profiles,
the testing kit, voice supply chain, compute, command lines and the scripts of the
repository, which hold no state that interleaves; pure mappings from vendor payloads to
node properties; the formats of text (detection patterns, identity formats). Each has its
row in the component list of `PROJECT.json`.
