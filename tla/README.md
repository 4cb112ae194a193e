# TLA+ models of z3rno-core

z3rno-core is the engine library of an agent-memory service: Python over
PostgreSQL (pgvector, Apache AGE), called by z3rno-server and by Celery
workers. It has no server loop of its own. What makes it hard is that each
operation is a transaction at READ COMMITTED next to others of the same tenant,
that some effects are asynchronous (audit chaining, recall counters, jobs), and
that several steps are "best effort". The models here are about that. Content,
embeddings, ranking and wording are abstracted away.

## Running

    tlc -config audit.cfg MCAuditChain        # every run of the table below
    tlapm AuditChainProofs.tla                # proofs, and so for the other seven *Proofs modules

All runs switch deadlock checking off: the bounded workloads end, and so do the
programs they stand for (a worker without requests has nothing to do). Where
being stuck would be a fault it is a property of its own
(`RecallsDoNotDeadlock`, `EveryCallEnds`, `EventuallyChained`,
`EventuallyWritten`, `RunningEnds`).

## Inventory

Paths are relative to `src/z3rno_core/`, migrations to the repository.

| Component | State | Operations | Talks to | What is hard | What makes it correct |
|---|---|---|---|---|---|
| Audit chain: `engine/audit.py`, migrations 009, 014, 018, 032 | `audit_log_pending`, `audit_log`, per-tenant advisory lock | `enqueue_audit_entry`, `drain_audit_chain`, `flush_audit_chain`, `list_orgs_with_pending`, listener | every engine call enqueues; Celery drains | two drainers, crashes between statements, lost NOTIFY, order of overlapping requests | each event logged once, in order; the chain verifies |
| Audit partitions: `lifecycle.ensure_audit_partitions`, migration 009 | partitions, the default partition | create months ahead | the drain inserts into them | end of a year, a run that comes late | no row falls into the default partition |
| Audit reads: `engine/audit_query.py`, `distill/provenance.py` | none (a caller's cursor) | pages by number or cursor, `verify_chain` | audit chain | statements with a drain between them | a walk is complete; a verdict is honest |
| Recall-count batcher: `engine/recall_batch.py` | in-memory queue, drain task, closed flag | `bump`, drain loop, `flush_pending`, `aclose`, `shutdown_batcher` | `recall` feeds it; writes `memories` | bumps during a flush, two flushers, shutdown | no increment lost but with a failed write |
| Memory table: `engine/store, forget, update, lifecycle, recall`, migrations 007, 008, 013, 035 | `memories`, `memory_relationships`, row locks | store, forget, sweep, retention, transition, decay, update, recall's write-back | audit chain, memo versions, certificates, graph mirror | ids read, then written; row-lock cycles; swallowed errors; the versioning trigger | deletions final and audited; reports true |
| Memo versions: `temporal/memo_versioning.py` | `memo_versions` | append, as-of reads | store | read-then-insert numbering without a lock | one open version, contiguous numbers, a settled past |
| Retrieval: `engine/recall.py`, `retrieval/`, `memory_tiers/` | AUTO's corpus cache | nine strategies and AUTO, re-rank, write-back, audit | memory table, batcher, LLM gateway, graph | swallowed errors, two connections, a cache shared by recalls | results, counts and audit row agree |
| Ingest jobs: `ingest/` | `ingest_jobs` | run, watchdog, dedupe | store, loaders, forge | several transactions per run, crash, watchdog racing a late run | rows tell what happened; a URL is stored once |
| Forge jobs: `forge/`, `distill/` | `distill_jobs`, `entity_provenance` | run per memory, retry | store, audit, LLM gateway, usage | redelivered jobs, partial failure, rejection | each memory distilled once per job, with its trace |
| Usage and budgets: `usage/counters.py` | `usage_counters` | record, resolve, check | jobs | check, then spend | overshoot is bounded |
| Refine: `refine/` | `refine_jobs`, `feedback`, edge weights | dedupe, infer, summarize, reweight, prune | memory table, usage | five stages in one transaction, overlapping runs | feedback applied once per completed run |
| Refine scheduler: `refine/scheduler.py` | `tenants.refine_last_run_at` | pick, mark | refine | SKIP LOCKED, a dispatcher that dies after sending | every tenant gets its turn |
| Conversations: `conversations/` | `conversations`, stamps on `memories` | add turn, page, summary mark, delete | memory table | concurrent turns, summaries finishing out of order | turn numbers dense; a reader misses none |
| Forget certificates: `forget_proof/` | `forget_certificates` | Merkle root, sign, verify | forget | written with the erasure or not at all, for ids nobody has checked | a memory it has a hash for is gone |
| I/O, pure functions and declarations: loaders, scrapers, multimodal, storage, embedding, ontology, chunking, code graph, graph mirror, models, configuration, seeds | – | – | – | – | see "Not modelled" |

`PROJECT.json` lists the components with their sources and modules, the source
lines of every definition, and the hazards of the code, each at its line.

## Modules

| Modules | Models |
|---|---|
| `AuditLedger`, `AuditChain`, `MCAuditChain`, `AuditChainProofs` | audit chain: promise, implementation, constants, proofs |
| `RecallBatch`, `RecallBatchProofs` | recall-count batcher |
| `Memories`, `MCMemories`, `MemoriesProofs` | engine calls on the memory table |
| `JobTables`, `UsageCounters`, `IngestJobs`, `ForgeJobs`, `DistillPipeline`, `MCDistillPipeline`, `DistillPipelineProofs` | ingest and forge jobs on shared workers |
| `RefineScheduler`, `RefineJobs`, `MCRefineJobs`, `RefineJobsProofs` | who is refined when, and the refine run |
| `Conversations`, `MemoVersions`, `AuditReads`, `AuditPartitions`, `AutoRouter`, `RecallPath`, `Records`, `MCRecords` | what is kept of memories and read back; `Records` puts the six side by side |
| `RecallPathProofs`, `MemoVersionsProofs`, `RecordsProofs` | proofs about the six: the recall, the versions, and the other four |

Operators named like faulty code (`LockIgnored`, `MarkForgotten`, each marked
"Faulty variant") are used by no action: put in the place of the definition they
follow they show which bug a property would catch.

### AuditLedger, AuditChain, MCAuditChain, AuditChainProofs

`AuditLedger` is the promise: an event of a committed operation waits, then is
entered in its tenant's ledger once; a ledger grows only at its end.

`AuditChain` is `engine/audit.py` and its tables.

- `pending` and `log` are the committed rows of `audit_log_pending` and
  `audit_log`. What a transaction has written and not committed is in `wrows`
  (a request) or in `mine` and `gone` (a drainer).
- A request: `BeginRequest` (fixes now(), hence `created_at`),
  `enqueue_audit_entry` any number of times, `CommitRequest` or `AbortRequest`.
  Ids come from a sequence and are used up by aborted requests too. The commit
  notifies the listener, or the notification is lost.
- A drain is one transaction, one action per statement: `TryLock`,
  `SelectPending`, `ReadLatest`, one `ChainRow` per row, `DeleteDrained`, then
  the loop of `flush_audit_chain`; `CommitFlush` publishes and unlocks,
  `AbortFlush` may strike at any statement.
- `PeriodicPoll` is the fallback poll over `list_orgs_with_pending`, whose
  LIMIT has no ORDER BY.
- SHA-256 is an injective term (previous hash, row). The queue id is not a
  hashed column, so two equal events have equal data; `src` and `first` in a log
  row are history.
- `advisory_lock_key` keeps the arithmetic of the code with `HalfRange` for
  2^63; tenants with equal prefixes share a lock.

`MCAuditChain` gives the constants that a .cfg cannot express.

### RecallBatch, RecallBatchProofs

One process, one event loop: code between two awaits is one action. The queue,
the snapshots of the two coroutines that flush (drain task, shutdown hook) and
the database column are functions from (tenant, memory) to numbers. There is no
clock: the 50 ms window may pass at any time, so `_wake` (which only shortens the
wait) and the `max_queue` force-flush (which only sets `_wake`) leave no trace.
A memory may be hard-deleted at any time (`HardDelete`); the UPDATE finds no row of
it, and its increments count as dropped.
A commit whose exception comes after it is `UpdateOrg` itself, because the code
never queues entries again. A cancellation that hits after a commit is `UpdateOrg`
followed by `AcloseTimesOut`.

### Memories

Sessions run engine calls, one transaction each, at READ COMMITTED. A statement
that writes rows takes them one at a time: `WriteRow` and `RewriteRow` need the
row lock (`Blockers`), evaluate the WHERE on the newest version (`Matches`), and
`SkipRow` passes a row that does not match any more. recall locks in id order,
all others in any order. `gdpr_delete` waits for the key share lock of a new
relationship; `Link` waits for a DELETE in progress and `LinkFails` is the foreign
key. `memories_scd_trigger` decides which UPDATEs are versioned; those run into
`pk_memories` (finding below), so their only outcome is the error.
`Swallow` is an exception handler without a savepoint: when the database raised,
the transaction is aborted and `CommitAborted` rolls back silently.
A memory's row is a status and its `recall_count`; `org` tells its tenant. Any live
memory may be expired or pinned or returned by a retrieval.
`forget` takes any ids: of rows that are missing, of another tenant, or not
committed yet. The tenant is looked at only by its statements: the hash of what is
there (`snapshot_content_hashes`), the relationships (`RelsOf`), and the rows that
`DeleteBegins` finds (`Visible`). The audit entries, the certificate and the result
name every target all the same. The model notes which of them had a row for the
DELETE or UPDATE (`seen`, the flag in `reported`) and a hash (`hashed`, the part of a
certificate that is evidence): that is what the properties about certificates and
results are about. The caller of `forget` gets a count, not the list of what was
found, so it cannot tell the flag.
Rows of `memory_relationships` are not locked, the AGE mirror (savepoints, errors
ignored) and what a hash is of change nothing that is modelled, `check_duplicates`
is off.

### JobTables, UsageCounters, IngestJobs, ForgeJobs, DistillPipeline

A task is delivered to a worker at least once; a worker may die at any step and
leaves what its committed transactions wrote. `JobTables` has the workers, the
source memories and these faults, and counts all of them against `MaxTrouble`.

- `IngestJobs` is `IngestPipeline.run`, one action per transaction:
  `BootstrapIngest`, `Dedupe`, `Store`, `Codegraph`, `MarkCompleted` or
  `MarkIngestFailed`, with `validate_input` and `materialize` deciding the way.
  `Store` may lose the memory without knowing: `store()` swallows a database error
  of the version write (`store.py:291-310`), COMMIT rolls the memory back, and the
  run goes on with its id (`saved` in `JobTables`), files a distill job for it and
  completes the row.
  The watchdog is two actions, `SelectStale` and the guarded UPDATE
  `mark_stale_running_jobs_failed`: a run may complete its row in between.
  `update_ingest_job` patches only columns that are not None (`Patch`,
  `CompletedRow`), which is why an error of the watchdog stays on a row that is
  completed later. The enum `ingest_job_kind` (migration 016:126) has no
  `s3_uri`: such a job works only if the API filed its row under another kind.
- `ForgeJobs` is `ForgePipeline.run`: `Preflight` (the budget), `BootstrapForge`,
  `ProcessMemory` with `already_distilled`, and `write_distill_result`, whose
  entities and summary carry provenance rows and audit events. What the model
  extracts is a choice (`Distillates`). `AuditEntryFails` is the `except` of
  `_enqueue_distill_audit`: it swallows an error that has aborted the
  transaction. Usage is recorded by the caller when a run is over.
- `UsageCounters` has the windows, the resolution of budgets and the check as
  operators. The library never calls `record_usage`; the server does.
- `DistillPipeline` composes them: the `PostIngest` hook files a distill job for
  the new memory, both kinds of task share the workers, users delete memories.

### RefineScheduler, RefineJobs

A tick is one transaction: `BeginTick` takes the order from its snapshot, as the
relation `before` between tenants (ORDER BY `refine_last_run_at` NULLS FIRST, ties
broken in any way), `pick_refine_tenants` locks the first rows that are free,
`Send` sends the tenants picked one by one and cannot be undone,
`mark_refine_dispatched` stamps with the time the transaction began. A run of
`RefineJobs` works in one transaction of its caller: what it writes is kept in
`refining[w]` and published by `run_prune`'s `Commit`; every failure throws all of
it away, the status `failed` included. `run_infer` makes each memory of the pair focal in turn
and looks only at the edges that leave it (`ExistingTargets`), so that one run may
write an edge in each direction. Reweighting locks edges one by one, in any
order, so that overlapping runs may deadlock. A group of duplicates fails the
run: stamping the memory that is kept is a versioned UPDATE, which the trigger
refuses (`VersionedUpdatesApply` below). Feedback rows are given constants: no
run marks or deletes them.

### Conversations, MemoVersions, AuditReads, AuditPartitions, AutoRouter, RecallPath

- `Conversations`: `add_turn` locks the row of the conversation from the bump of
  its counter (`Bump`) to the commit of the stamp (`CommitTurn`). A summary job
  adds its text as a turn, then `mark_summary_emitted` in another transaction;
  `covered` keeps what the finished ones went through, in whatever order.
- `MemoVersions`: `record_memo_version` as its three statements, with the wait of
  an UPDATE for a locked row and of an INSERT for a key in doubt, several writers
  on one memory. In the library today every writer comes with a fresh id.
- `AuditReads`: the statements of `audit()` and `verify_chain`, each with a
  snapshot of its own, beside a drain that is only what `AuditLedger` promises
  (`TrailIsLedger`, which is proved and is not a property of a run).
- `AuditPartitions`: the month arithmetic as operators, and the calendar, the
  runs and the inserts that meet them.
- `AutoRouter`: the cache of a process, read before and written after an await.
  Answers of the cache and a recall's own have an age. The probe reads what is
  committed; a replica that lags behind (`recall.py:155-161`) is not modelled.
- `RecallPath`: one recall from the arguments to the commit. A strategy is the
  set of its possible outcomes: results, whether it raises, whether it leaves the
  transaction aborted. "Swallowed inside a savepoint", "swallowed without one"
  and "raised" are different outcomes (`FetchSubgraph`, `VersionLabels`,
  `MatchTriplet`): they decide what later statements on the connection can do.

They share no state in the code, so `Records` lets a behaviour exercise one of
them (`focus`) and keeps the others in one initial state.

## Runs

| Run | Module | Expect | Shows | Bounds |
|---|---|---|---|---|
| `audit` | MCAuditChain | pass | `ExactlyOnce`, `RequestOrder`, `LinksBack`, `LinearWhenOrdered`, `FlushCompleteWhenLocked`, `RefinesLedger` | 1 tenant, 2 requests at a time, 2 drainers, 3 events, batches of 1, 2 loop iterations, 2 clock values, no crash |
| `audit_live` | MCAuditChain | pass | `EventuallyChained` | 2 tenants with one lock key, 1 request at a time, 2 drainers, poll of 1 tenant, 2 events, 1 crash |
| `audit_fork` | MCAuditChain | violation | `LinearChain` | as `audit`, batches of 2 |
| `batch` | RecallBatch | pass | `EachBumpOnce`, `NothingStranded`, `ShutdownKeepsEarlier`, `EventuallyWritten` | 2 tenants, 1 memory each, 3 bumps per key, 2 failures |
| `batch_shutdown` | RecallBatch | violation | `NothingQueuedAtExit` | 1 tenant, no failure |
| `memories` | MCMemories | pass | `DeletionsAudited`, `RelationsJoinMemories`, `NoLostBump`, `CertificatesTruthful`, `RecallsDoNotDeadlock`, `ReportedHoldsUnlessSwallowed`, `DeletionIsFinal`, `EveryCallEnds` | 2 tenants, 2 sessions, 2 memories, 2 calls of tenants that have or store a memory, 1 failure |
| `memories_update` | Memories | violation | `VersionedUpdatesApply` | 1 session, 1 memory |
| `memories_swallow` | Memories | violation | `ReportedHolds` | 1 session, 1 memory, 1 failure |
| `jobs` | MCDistillPipeline | pass | `UrlStoredOnce`, `RowsAreTruthful`, `DistilledOnce`, `CountersAreReal`, `DistillationIsTraced`, `OverspendBounded`, `CompletedStands`, `RunningEnds` | 2 workers, 4 workloads (2 ingests of a page; an upload that is distilled; a refused input; 2 distillations of 2 memories), 2 troubles, cap of 1, the summary on for one distill job |
| `refine` | MCRefineJobs | pass | `Rotation`, `FeedbackCountsPerRun`, `SummarizedOnce` | 2 tenants, 2 dispatchers, a tick takes 1, 2 workers, 2 edges with feedback and a pair to infer between, up to 4 ticks or 3 jobs or 2 of each together, 1 trouble |
| `records` | MCRecords | pass | `TurnsDense`, `CursorPassesNothing`, `SummariesSettle`; `VersionsContiguous`, `PastIsSettled`; `WalkComplete`, `VerdictHonest`; `DefaultStaysEmpty`; `DowngradeFresh`; `RecallRecorded` | 2 sessions, 4 turns, cadence 1 or 2; 3 writers, 4 transactions; 4 entries, 5 ids, 2 drains; 11 months from one of two set-ups; 2 recalls, 4 ticks; 3 memories, 3 of the 4 tiers |
| `recall_scope` | RecallPath | violation | `ScopedToConversation` | 2 memories |

Types are proved and are not properties of a run (`TypeCorrect`,
`BatchTypeCorrect`, `MemoriesTypeCorrect`, `PipelineHolds`, `RefineHolds`; those
of the parts of `Records` are conjuncts of their invariants).

Why the bounds are enough. A wrong link needs two requests whose ids and start
times are in opposite order, a batch boundary between them and an earlier row:
three events, two writers, two clock values. Losing the lock race and losing rows
that come after the SELECT need two drainers, two iterations and batches smaller
than the queue. A request or a drain that is cut off (rolled back, at any
statement) takes part in `audit_live`; the order of links needs no crash, since a
rollback leaves the tables as they were. A batcher race needs a bump
before, during and after a flush, two flushers and two tenants, so that one
UPDATE can fail while the other has run. Row-lock cycles, re-deletions and
erasures under a new relationship need two sessions and two rows. A job is
repeated, crosses the watchdog, or loses its worker with one trouble each, and
the second trouble is what happens to the repetition. Two runs of one job, two
jobs on one memory and a budget passed by two jobs at once need two workers and
two jobs. Overlapping refine runs need two workers; a third job shows that the
numbers go on. A version conflict needs a reader of the open row, a writer that
closes it, and a third that waits. A page that a drain tears needs two pages, a
commit and entries whose start times are out of order: four entries. Eleven months
from April 2026 pass the end of the year, the migration's last partition and
`MonthsAhead` of 3. Three tiers are enough for a tier that fails between two
others. Symmetry is declared only in runs that check no liveness;
`MCMemories` takes what a renaming of tenants or sessions would give out by hand.

Some properties hold under a condition that is part of their statement, because
the code promises no more: `UrlStoredOnce`, `DistilledOnce` and `SummarizedOnce`
while two runs on the same thing do not overlap; `CountersAreReal` unless an
audit entry failed unnoticed; `Rotation` up to ticks that overlap or die;
`SummariesSettle` for a cadence above one (with a cadence of one a summary is
itself the turn due for the next); `WalkComplete` for page numbers while no drain
commits between count and page, and for a cursor taken from a page while start
times follow ids; `VerdictHonest` up to a drain that commits between the two
lookups; `DefaultStaysEmpty` for a database whose partition runs come in time
from its set-up on (one set up after July 2026 that logs before its first run
fills the default partition, and then every later run is refused);
`CertificatesTruthful` for ids with a hash and `ReportedHoldsUnlessSwallowed` for
targets that had a row;
`ShutdownKeepsEarlier` for memories that still have a row; `EventuallyChained` for
finitely many events, so that it does not show what the poll's missing ORDER BY
does under a load that never ends.

Three of them say less than their names. `OverspendBounded` bounds the usage that
is recorded: the calls of a job that dies before it is charged are in no counter.
`usage/__init__.py:13-14` speaks of at most 5% overrun by the job in flight; the
bound that holds is what one job of every worker may use, whatever share of the
cap that is. `SummarizedOnce` allows an inferred edge in each direction of a pair.
`DowngradeFresh` lets a recall go by its own probe however long that took, as long
as the "no" is from after it asked.

The conditions on overlap and swallowed errors leave the race of the hazard itself
outside of `UrlStoredOnce`, `DistilledOnce` and `CountersAreReal`;
`FeedbackCountsPerRun` is per completed run and so states
the repeated feedback rather than excluding it; `audit` has no crash: that part of `ExactlyOnce` and `RefinesLedger` rests on their theorems, which allow crashes,
and on `audit_live`.

Fairness (`FairSpec`, in `memories` `MCSpec`, used only where a liveness property is checked and harmless
for the others): a drain task that has started goes on (`FlushStep` of each
drainer) and the beat scheduler polls again (`PeriodicPoll`); asyncio runs ready
coroutines, and a database call returns or fails (`DrainStep`, `HookStep`, the
writes of each flusher); an engine call goes on while it can and PostgreSQL
detects deadlocks (`CallStep`); in `jobs`, workers that live and the watchdog go
on (`Progress`). Requests, new calls, deliveries, failures, crashes,
notifications and shutdown are never forced. Weak fairness is enough for the poll
although the choice of tenants is arbitrary: with finitely many events, every
round that returns one tenant shortens that tenant's queue. It is enough for the
jobs because each step shortens some run and the watchdog's list.

## What the disagreements are

Runs that end in a violation show the code against its own text.

- `LinearChain`: `get_latest_hash` finds the chain head by `created_at`, the start
  of the enqueuing transaction, while the drain chains in id order. Overlapping
  requests make the next batch link to a row that is not the last. The test
  `tests/test_audit_drain_integration.py:219` describes an auditor who walks by
  id. `LinearWhenOrdered` says when the chain is linear, `LinksBack` what holds
  always.
- `VersionedUpdatesApply`: the trigger of migration 035 inserts the successor
  under the same primary key; content updates, transitions and decay raise.
- `ReportedHolds`: best-effort steps (`store.py:288`, `forget.py:159`) swallow
  database errors in an aborted transaction; the commit rolls everything back.
  `ReportedHoldsUnlessSwallowed` is what holds.
- `NothingQueuedAtExit`: the shutdown hook flushes once and the drain loop does
  not look again after closing. `ShutdownKeepsEarlier` is what holds.
- `ScopedToConversation`: `recall.py:146` promises that every strategy filters by
  the conversation; TRIPLET, ASK, CYPHER and the neighbours of CODE are fetched
  by id and tenant alone.

Smaller ones that the models contain without a run of their own:
`flush_audit_chain` ("Loops until the queue is empty", `audit.py:313`) also stops
when it loses the lock; a distill job rejected by its budget keeps its row
`queued`, and no watchdog looks at `distill_jobs`; `_match_triplet_sync` catches a
database error inside its savepoint, whose release then fails; a tier that fails
in AUTO's fan-out has no savepoint, so the tiers after it fail too and the recall
returns nothing; a summary turn counts towards the next summary; a certificate is
signed for every id `forget` was given, also one it found no row for, such as a
live memory of another tenant or one that is being stored, although
`forget_proof/__init__.py:3` speaks of "every Memo touched by a forget()" (an id
without a row has a leaf without a content hash; `CertificatesTruthful` is about the
leaves that have one).

## Proofs

Eight modules are checked by TLAPS: `AuditChainProofs`, `RecallBatchProofs`,
`MemoriesProofs`, `DistillPipelineProofs`, `RefineJobsProofs`, `MemoVersionsProofs`,
`RecallPathProofs` and `RecordsProofs`. Their theorems hold for every value of the
constants that satisfies the ASSUMEs. Every invariant and every action property
that a passing run checks is a theorem, and so are the two refinements of the
ledger; what the runs show on small instances holds for any number of sessions,
rows and retries.

What is assumed of the constants: bounds are natural numbers, and sizes, limits
and batches positive where the code's own validation or default makes them so.
Further: UUID prefixes are numbers of twice the signed range
(`OrgsAssumption`); memory ids are numbers, so that `recall` can lock in their
order, and there are finitely many (`MemsAssumption`); there are finitely many
workers, tenants and dispatchers (`BoundsAssumption` of `JobTables`,
`SchedulerAssumption`); ids of ingest and distill jobs differ, and a workload names
jobs of the right kind (`WorkloadsAssumption`); a database is installed in a month
of a calendar (`PartitionAssumption`); the prune threshold is at most the neutral
weight (`RefineAssumption`, from the defaults in `refine/`).

### AuditChainProofs

- `LockKeyRange`: the lock key is a signed number of the range, for any UUID.
- `TypeCorrect`: types, and the cap of the flush loop.
- `AuditExactlyOnce`. `ExactlyOnce` is not inductive: it speaks of committed
  tables, and what breaks it is a drainer's uncommitted work. The invariant `IInv`
  adds that ids of all rows, committed or not, are below their sequences and unique
  (`FreshIds`, `IdsNameRows`); that what a drainer deletes is what it has inserted
  (`gone`, `drained` and the sources of `mine` fit together, statement by
  statement: `DrainInv`); that its batch is pending and untouched; and that a
  drainer past `TryLock` holds its tenant's key and two drainers hold no key in
  common (`LocksExclusive`), hence work on different tenants. The
  commit of a flush then moves exactly its own rows.
- `AuditRefinesLedger`: from the same invariant, `CommitRequest` is `Record`,
  `CommitFlush` is `Chain`, every other step leaves the ledger alone. That new
  entries stand after old ones of the tenant needs the lock: no other drainer of
  the tenant committed since this one took its first id.

Three more invariants rest on `IInv`, which each may assume.

- `FlushesFinish` (`FlushInv`): a drain transaction holds no key but its tenant's,
  so one whose `TryLock` fails holds none and the property asks nothing of it; ids
  a request has not committed yet are not among those the flush started with, so
  the queue gains no row it owes.
- `RequestsStayInOrder` (`OrderInv`): rows with one `first` are of one request and
  one tenant (`RequestsApart`). Of one request, what is in the log is older than
  what is queued; what a drainer has chained is older than what it has not; what
  is in a batch is older than the rest of the queue (`OldestFirst`). The last
  holds because ORDER BY id LIMIT n cuts the queue at an id (`FirstByIdCuts`).
- `RowsLinkBack` and `OrderedLogIsLinear` (`ChainInv`): the rows of a tenant that a
  drainer sees form a chain (`Chained`), and between reading the head and
  chaining the last row of a batch, `prev_hash` is what the next row must carry
  (`Heads`). `ChainGrows` is the induction step of every chain, `LatestHashHeads`
  says that `get_latest_hash` finds a head; it needs that no row is dated later than
  the clock (`InThePast`), or its ORDER BY would have no first row. What another
  drainer commits is of another tenant, by the lock.

### RecallBatchProofs

- `BatchEachBumpOnce`, `BatchNothingStranded`: inductive together with types.
- `BatchShutdownKeepsEarlier`: the increments accepted before the hook started are
  at every moment in the column, in a snapshot, dropped or still queued, and each
  step of the hook excludes one of these places: the queue is taken or empty
  when the hook starts, its own snapshot is empty when it closes, and the drain
  task's is empty when the task is done. What an UPDATE found no row for is dropped
  also without a failure, which is why the theorem is about memories that have one.

### MemoriesProofs

What is committed changes only when a call commits. So `Fits` says of each call
under way how every row it has written came from the committed one (`Becomes`),
and in which states it leaves rows that it has passed over (`Passes`). Row locks
(`LocksExclusive`) keep the committed rows as they were when the call wrote them,
so the commit of one call does not disturb what holds of the others. A
relationship is never added to a memory that another session is erasing
(`LinksGuarded`: the key share lock). What was hashed is among the rows
that the delete finds, or erased by then, so no property assumes anything of the
ids a caller names. From this follow `EveryDeletionAudited`,
`NoDanglingRelations`, `BumpsNeverLost`, `CertificatesStayTrue`,
`OnlySwallowingMisreports` and, as an action property, `DeletionsFinal`.
`RecallsNeverDeadlock`: along a cycle of recalls that wait for each other the rows
waited for would have to grow for ever, since each call locks in id order.

### DistillPipelineProofs

`PipelineInv` has a part for ingests, one for distillations and one for the budget,
and a lemma for each that the tasks of the other kind leave it alone.

- `Alone`: two runs on one thing are in `overlapped`, and a job with one delivery
  has one run at most. It is what the conditions of `UrlStoredOnce` and
  `DistilledOnce` give to a single run.
- `IngestRun`, `IngestOf`: a run that is its job's only one has stored nothing
  before it stores, nor when it fails by itself; a completed row names what it
  stored, whether or not COMMIT kept it. From these `PagesAreStoredOnce`, `RowsTellTheTruth` and
  `CompletedIngestsStand`.
- `ForgeRun`: the passes of a job over a memory are numbered 1 to some k, and a run
  that nobody overlaps is on a memory that has no pass (`DistilledInOnePass`); what a
  run counts, it has written (`CountersNeverOverstate`). `DistillationsAreTraced` is
  inductive with the way `write_distill_result` writes.
- `OverspendHasABound`: usage is below the cap plus what all workers may charge,
  minus what those who have passed the check may still charge (`BudgetInv`). A
  worker that passes finds usage below the cap, so it starts the account anew.
  The bound speaks of a budget that is set (a cap of 0 is none). That the fold of
  `UsageCounters` over the one day of the model is that day's charge is proved;
  what it sums up over many days is induction over data.

### RefineJobsProofs

- `FeedbackCounts`: a weight is what the feedback makes of it once per completed
  run. A run computes from a weight and writes later; the edge locks keep the
  weight committed what it was (`LocksInv`). A pruned edge stays pruned: its weight
  would be below the threshold after every further run, because only bad feedback
  lowers a weight at all and good or no feedback keeps it at the start or above
  (`WeightsInv`). The history function `After` is recursive; that it satisfies its
  equation for all arguments is proved by giving a function that does.
- `ClustersSummarizedOnce` (`OnceInv`): while no runs overlap, what a run found
  absent before it writes is absent when it commits. A memory is focal once in a
  run, so it gets one edge to the other; the other direction is a choice of its own.
- `TenantsRotate`: by amortization. The debt of u to t is how often t was sent since
  u was, plus the open ticks that may still send t before u. It is at most one
  more than overlaps and troubles together, the one more only while some tick
  prefers t to u or t's stamp is later than u's, and never while a tick is open
  that began no later than u was stamped (`InTurn`). A tick that overlaps pays for itself: as many ticks are
  open as `overlaps` counts, plus one.

### MemoVersionsProofs, RecallPathProofs, RecordsProofs

- `VersionsAreContiguous`: a writer's number is at most one past the last version
  (`Computed`). While it is, no one has committed since the writer read, so what
  it closes is exactly what is open; once it is not, the key refuses it. Only a
  writer that is one past the last gets to its commit, and because inserters of
  the same number wait for each other only one at a time (`OneCommits`).
- `ThePastIsSettled`: an action property. A commit ends the open rows, and begins
  the new one, when its transaction began; for an earlier time the same numbers
  are valid before and after, and `get_memo_at` depends on the numbers alone.
- `RecallIsRecorded`: the property compares what is committed at the end with the
  results; the invariant says where the results wait until then: nowhere before
  the write-back, then in the transaction, the queue or the task, and never in
  two of them, with the audit row on the same connection. It does not depend on
  what the strategies return, only on AUTO telling whom it delegated to.
- `TurnsStayDense`, `PagesPassNoTurn` (`ConvInv`): the turn being stamped is the only
  one and the next one, because of the lock on the conversation's row. The mark is
  the highest of what finished summaries covered, by GREATEST, and a job that is to
  set it has already added its own, later turn (`SessionFits`).
- `SummariesStaySettled` (`Settled`): each summary that is done has moved the mark by
  two turns or more, or was lost, which is a trouble; a job under way has its
  turns to show (`Paid`).
- `WalksAreComplete` (`WalkFits`): by page number, what is known and not yet seen
  stands on a later page, with lemmas on positions in the order of the page; by
  cursor, what is left out is below the cursor (`Unbroken`). Drains add rows with
  higher ids than any seen (`LedgerInv`).
- `ReadersSeeTheLedger`: from `LedgerInv` alone, `Record` is the ledger's `Record`,
  `CommitDrain` is its `Chain`, every other step leaves the ledger as it is. So
  what is proved of a reader is proved beside a drain that keeps the promise
  which `AuditRefinesLedger` proves of the real one.
- `BrokenOnlyInPassing`: an entry that `verify_chain` looks for is in one of the two
  tables at any time.
- `DefaultPartitionUnused` (`KeepsAhead`): while the runs are punctual, every month up
  to the horizon minus the lapse is covered; the arithmetic of months shifts
  across the end of a year.
- `DowngradesAreFresh` (`NoWasTrue`): a "no" that is cached or on its way was read
  after the clock was, so the tenant had no edge at the time it is dated; a recall's
  own answer is thus never older than its question.

Only model-checked: `EventuallyChained`, `EventuallyWritten`, `EveryCallEnds` and
`RunningEnds`. They are liveness properties: their proofs need fairness and
ENABLED, which the provers do not handle. Induction over data is out of reach as
well: what the folds of `UsageCounters` sum up over any number of days is not
proved. The runs that end in a violation have no theorem.

## Not modelled

- Loaders, scrapers, multimodal providers, artifact storage and embedding: I/O
  and conversion; that they fail is a step of the jobs.
- Chunkers, ontology lookup, code-graph extraction, Merkle roots and signatures:
  functions of text or bytes that no interleaving touches.
- Graph mirror and forge relationships: best-effort copies under savepoints that
  nothing reads back to decide; ontology grounding of the writer.
- Near-duplicate detection of `store` (`check_duplicates`): off by default; its
  shape, read then insert, is that of `Dedupe`.
- Scores, ranking, limits and redaction of recall; filters of `audit()`.
- Row-level security: every module is about one tenant, or names the tenant.
- Seeds, scripts, benchmarks, models and configuration.

## Plan

Done: the core, the ledger that it and the readers' drain implement, the batcher,
the memory table, jobs, refine and the six parts of `Records`, each with its
safety and action properties proved.

1. Relationships of distilled entities, and several batchers over the row locks
   of `Memories` (two hazards have no property yet: the retention cap's two
   statements, and the lock order of the batched UPDATE).
2. A variant for the liveness of the chain, as an invariant: each poll leaves less
   to chain.
