# StoryForge: a TLA+ verification project

StoryForge writes long stories: it plans a book, drafts each chapter with an LLM, extracts facts,
evaluates the text, revises it and promotes one version to the canon. The backend
(`src/src/storyforge`) is a set of services over one relational database, a Redis queue with a
transactional outbox, a LangGraph workflow with its own checkpoint store, and a governed gateway
to paid LLM providers. This directory holds TLA+ models of that backend, the TLC configurations
that check them on small instances, and TLAPS proofs for every value of the constants.

Paths below are relative to `src/src/storyforge` unless they begin with `docs/` or `alembic/`.

## 1. Inventory

| Component | State it keeps | Operations | What makes it hard | Module |
|---|---|---|---|---|
| Job core: `services/jobs.py`, `jobs/{transitions,dispatcher,worker,actors}.py`, `repositories/jobs.py` | `jobs`, `outbox_messages`, messages in Redis, a thread per execution | create, request pause/cancel, resume, retry and discard of dead letters; publish, claim, heartbeat, outcome, lease recovery, re-delivery | at-least-once delivery, lost Redis, dead workers, leases that expire under a live handler, requests that race the outcome | `JobQueue` |
| Job admission: `services/jobs.py`, `services/book_runs.py` | unique idempotency keys, one active job per chapter, one active book run per project | lookup, backpressure, create, the fallback after a conflict | check-then-insert races | `JobAdmission` |
| Job events and stream: `repositories/jobs.py`, `api/job_routes.py`, `api/book_routes.py` | `job_events`, a reader's last event id, places of a semaphore | `add_ordered`, `list_after`, SSE catch-up | commit order against id order, lost notifications, clients that disconnect | `JobEvents` |
| Worker registry: `jobs/middleware.py` | `worker_heartbeats` | register, heartbeat | display only: no decision reads it | |
| Job handlers: `jobs/handlers.py` | none | one per job type, `check_control` | compose a service with control requests | with their services |
| Provider gateway: `providers/gateway.py` | `provider_calls`, its own cache | `generate`: retries and fallbacks around budget, idempotency, circuit and limiter | six stores changed in separate transactions around one paid call | `ProviderGateway` |
| Budget: `usage/service.py` | `project_budgets`, provider counters of `workflow_runs` | reserve, settle, release, set, check_workflow | concurrent reservations, partial failure | `ProviderGateway` |
| Provider idempotency: `reliability/idempotency.py` | `provider_idempotency_records` | claim, succeed, fail | a crash between claim and result | `ProviderGateway` |
| Circuit and limiter: `reliability/` | process-local or Redis state | before_call, record_success/failure; acquire, release | half-open probes, counters of dead processes | `ProviderGateway` |
| Governed embeddings: `embeddings/governed.py` | the same budget, audit rows | `embed_texts` with retries | a handler that undoes accounting that may be done | `GovernedEmbeddings` |
| Chapter workflow: `services/workflow.py`, `workflows/transitions.py` | `workflow_runs`, LangGraph checkpoints | run, resume, cancel, sixteen nodes | crash and replay between any two transactions, cooperative pause and cancel | `ChapterWorkflow` |
| Versions and acceptance: `services/versioning.py`, `revision/` | `chapter_versions`, `facts`, `version_comparisons`, the chapter's pointers | draft, extract, revise, compare, accept, reject, needs-review | the same decision is kept in three places | `ChapterWorkflow` |
| Evaluation: `services/evaluation_service.py`, `evaluation/`, `consistency/` | `evaluations`, `conflicts`, the chapter's status | evaluate | a status protocol shared with the workflow and with drafts, partial results | `ChapterWorkflow`, `Drafting` |
| Planning, generation, context: `services/{planning,generation,context_builder}.py` | plans, chapters, versions, facts, foreshadowing | plan, replan, generate, regenerate, extract | short transactions around agent calls, with no lock between them | `Drafting` |
| Book runs: `services/book_runs.py`, `services/books.py`, `application/books.py`, `book/{scheduler,revision}.py` | `book_runs`, snapshots, the top-level job | create, pause, resume, cancel; the handler with its scheduler, gates, snapshots, one round of revisions | two rows that change in separate transactions, a map of chapters rebuilt after a crash | `BookRun` |
| Memory index: `memory/`, `graph/repositories.py` | `memory_chunks`, relations, entities, index records | promote, index, supersede, reindex | embeddings between two transactions, concurrent indexes of one chapter | `MemoryIndex` |
| Migrations and mapped classes: `alembic/versions/`, `models/` | schema, rows, `alembic_version` | ten upgrades and downgrades on SQLite and PostgreSQL | rows the other schema has no place for, batch rebuilds under foreign keys, runs that die midway | `Models`, `MigrationScripts`, `Migrations` |
| Book analysis, retrieval, ranking: `book/`, `retrieval/`, `graph/` | none of their own | timeline, arcs, scoring, hybrid ranking | pure algorithms | |
| Adapters: `llm/`, `api/`, `cli/`, `application/`, `src/frontend` | none | map calls to services | | |

How they interact. A job is created with an outbox row in one transaction. A dispatcher publishes
the row to Redis; a worker thread claims the job under a lease and calls its handler; every step of it
appends an event that clients follow over SSE. The workflow handler runs `ChapterWorkflowService.run`
or `resume` in that thread; every node first calls `check_control`, which reads the job's status, so a
request of a user reaches the graph only at a node boundary. The book handler runs those workflows
itself, one chapter after the other. Nodes call version and evaluation services, which call agents,
which call the gateway. The gateway reserves budget, claims the key of the request and calls a provider.
A promotion calls the memory index, which embeds through the governed provider over the same budget.
When a lease expires, `recover_expired` reschedules the job and pauses its run; the retry resumes the
run from its checkpoint. Plan, draft and evaluation are also reachable directly, by the API, the command
line and jobs of their own, with nothing but the status of a chapter between them.

What makes each correct. Job core: no job is forgotten, run too often, revived after its end, or
finished by an execution that no longer owns it. Gateway: spending stays within the limit,
reservations are neither lost nor released twice, a request is paid once for every answer that is not lost, the
ceiling of a workflow is passed by no more than the calls in flight, claims end.
Workflow: the canon is exactly the accepted text's facts, only a passing text is accepted, a human
is shown the best text, revisions are bounded across replays, every run ends. Drafting: the canon of a
chapter comes from one version and its facts from that version's text, a verdict is on the current text.
Admission: the queue's limit is passed by no more than the requests in flight, and a repeated request is
answered like the first. Events: a reader misses none. Book runs: no chapter is generated twice, the
report matches the chapters, a completed book is whole. Memory: superseded text is hidden, accepted
text is indexed or its failure is on record. Migrations: the schema is the one of the recorded
revision, and rows and links survive.

`PROJECT.json` lists the components with their status and the hazards of this code, each at its
line, with the properties that would catch it going wrong. One more is known and has none there: a
`record_failure` of a call that began before the circuit opened deletes the probe field of another
caller (`reliability/distributed.py:138`); the circuit then admits a second probe.

## 2. Plan

| # | Module | State |
|---|---|---|
| 1 | `JobQueue`, implementing the abstract `JobLifecycle` | checked, seven theorems |
| 2 | `ProviderGateway`, implementing the abstract `BudgetLedger` | checked, nine theorems |
| 3 | `ChapterWorkflow`, implementing the abstract `ChapterLifecycle` | checked, seven theorems |
| 4 | `JobAdmission`: two creators, every kind of conflict | checked, four theorems |
| 5 | `JobEvents`: writers of a job's history and the streams that replay it | checked, four theorems |
| 6 | `BookRun`: the book handler, its requests and the job around it, over a chapter workflow that is one step with its outcomes; its chapters implement `ChapterLifecycle`, its job `JobLifecycle` | checked, four theorems |
| 7 | `MemoryIndex`, which extends `GovernedEmbeddings` | checked, six theorems |
| 8 | `Migrations`, which extends `MigrationScripts`, which extends `Models` | checked |
| 9 | `Drafting`: plans, drafts and evaluations outside the workflow | checked, five theorems |
| 10 | `Algorithms`: comparison decision, rank, reciprocal rank fusion, chunking, against reference definitions over bounded inputs | |

The three abstract specifications say what a component promises to the others, and every implementation of one is
both checked and proved. No module with theorems declares or reaches a recursive operator.

## 3. Modules

### JobQueue, JobLifecycle

One action is one database transaction or one step that another process can observe. `job` and
`outbox` are the tables; `queue` counts the copies of a job's id in Redis; `exec` is what each worker
thread is doing (idle, running, or about to write one of the outcomes); `disp` is the outbox row a
dispatcher has claimed. `Create` … `DiscardDeadLetter` are `JobService`; `ClaimRow`, `Publish`,
`RecordPublished`, `RecordFailure`, `RecoverStranded` are `OutboxDispatcher`; `Claim`, `Heartbeat`,
`ObserveControl`, `Succeed`, `CancelAtBoundary`, `PauseAtBoundary`, `RetryOrDeadLetter`, `Fail`,
`RecoverExpired` are `JobExecutor`. `Allowed` is the table of `jobs/transitions.py`; every write goes
through `Transition` as in the code, and an illegal transition aborts the transaction and ends the
execution.

Abstractions. `due` stands for `available_at <= now` and a lease is live or expired; time passes as
`BecomesDue` and `LeaseExpires`. A batch transaction over several jobs is one action per job. What a
handler does is external; it only ends in one of the classes of outcome the worker tells apart. A
refused publish, a dead process and an emptied Redis are faults.

`JobLifecycle` is what the API promises about a job: the phases a caller can see, the moves between
them and how many executions were started. `PhaseOf` is the refinement mapping.

### ProviderGateway, BudgetLedger

A `caller` is a thread inside `generate`; its `pc` names the next store it touches, in the order of
the code: prepare (privacy and price), circuit, workflow ceiling, reservation, audit row, limiter,
network, audit result, settlement, circuit success, key succeeded; and the handler: release, audit
failure, retry or fallback or raise. `TryError` and `HandlerError` are a database or Redis error at
any of those points, `Crash` the end of the process, `SetBudget` an operator, `Clock` the cooldown of a
circuit and the expiry of keys in Redis. `begun`, `paid`, `sent` and `dropped` (per key, the answers whose bookkeeping an
error or a death cut short) are history variables.

Abstractions. One project and one workflow run; token counters are compared like cost; exceptions are
four classes by what `generate` does with them; the request and token windows of the limiter are a
refusal that may come at any time; candidates without a runtime are skipped as in the code; a
succeeded key or a cache hit changes nothing and is no step; the outcome of a commit is known; the
budget row exists; soft limits only warn and are left out; a crash is modelled where circuit and
limiter are shared through Redis. The concurrency counter expires only while no call of the model is
on the network, that is, the key's time to live exceeds a call's time limit.

`BudgetLedger` is what the project's budget promises whoever pays: an owner holds a share only where it fits under the
limit, gives it back once, with a payment of at most the share, and only a death leaves a share nobody gives back.
The refinement maps the owners to the threads between reservation and settlement or release (`ShareOwners`), and
what dead processes left to the rest of the row's `reserved` (`Orphaned`).

### ChapterWorkflow, ChapterLifecycle

An execution is a thread in `run` or `resume`. Its `pc` is where it is in a node: `enter` (control
callback and `_node_started`), `act`, and, in a node that calls a provider, `call` and `save`, then
`done` (the checkpoint); or in what `run` and `resume` do with an exception: `pausing`,
`cancelling`, `failing`, `blocking`, `reviewing`. Its position is the LangGraph state: the node, the
current and the best version, the revision attempt. `run`, `chapter`, `version` (text status and
status of its facts), `keyed` and `latest` (evaluations), `comparison` are rows; `claimed` are the provider
keys that are active or succeeded; `checkpoint` is the newest checkpoint and the one before it,
because LangGraph writes a checkpoint while the next node already runs, so that a crash may lose the
newest. `owner` is the lease of the job, `request` a pause or cancel request on it, `outside` an
evaluation started by another caller.

Version 1 is the draft and version n + 1 the result of revision n, as the idempotency keys
`generate_draft:0` and `revise_draft:n` name them. A text is its number of critical conflicts, whether
it has high conflicts and other blocking reasons, and whether its score is below 3, between, or at the
pass threshold; `Scored`, `Better`, `RouteAfterEvaluation` and `Decision` are the rules of the scorer, the
rank and the two decisions over that.

Abstractions. One chapter and one run; audit events, memory indexing, the updates of characters and
foreshadowing at a promotion and the text of the brief are left out; scoring has its default
thresholds; whether a requested task is unresolved is a free choice at each comparison; an accepted
version is the chapter's current one when the run starts; `_load_context` and `_mark_evaluating` are
one step (a status that changes between them is refused either way). The route `fail` needs
`state["errors"]`, which no node sets.

`ChapterLifecycle` is what the runs over one chapter promise to the rest of the book: one run at a time is live, the
accepted text and the facts told of it change in one step and only where a run completes, and no pause, failure,
cancellation or review touches either. `ChapterWorkflow` implements it with its nodes, `BookRun` for each chapter of a
book, so that the one step `BookRun` makes of a chapter workflow and the nodes that the step stands for keep the same
promise. That a cancelled or failed run may still be reviewed or completed by an execution that outlives it is the
code's (`CancelOverwritten.cfg`), and the abstract module says so.

### JobAdmission

A client's request walks through `JobService.create` or `BookRunService.create`: `Lookup` of its
idempotency key in one transaction, then `CheckBackpressure`, `CheckChapter` or `CheckRun`, and `Insert`
in another, whose statements each see what has been committed before them; after a conflict a third
transaction, `SettleConflict`, looks for the winner. `EndJob`, `EndRun` and `RetryDeadLetter` are what
workers and operators do meanwhile. Creation of a book run and the retry of a dead letter bypass
backpressure in the code, hence the two exclusions in `Counted`, the jobs `AdmissionBounded` is about.

### JobEvents

A writer is any transaction that appends an event. `Begin` updates the job row (and locks it), `Insert` draws
the id, `Commit` and `Rollback` end it; `OtherJob` draws an id of the shared generator for another job. A
reader is a client and the server's generator for it: `Connect` takes a place of `sse_semaphore`, `Read` is
`list_after` with its limit, `Emit` sends the batch, `CheckStatus` closes the stream of a terminal job, `Wait`
ends with a notification or its timeout, `Disconnect` gives the place back. A notification is only a hint:
losing it costs the timeout, never an event.

### BookRun

`run` is the `book_runs` row, `job` the top-level job, `workflows` the child runs, `accepted` the accepted
version of every chapter, `snapshots` the book's snapshots, `thread` the handler. `Claim` to `FinishNeedsReview`
follow `BookWorkflowApplicationService.execute`: initialize, schedule, budget gate, control check, mark
running, start and link the chapter's workflow, record, count its use, periodic check, global review,
snapshot, analysis, acceptance or one round of revisions. `Pausing`, `Cancelling`, `Failing` and `JobOutcome`
are its exception handlers and the outcome the worker writes; `Request…` and `…TheJob`, `…TheRun` are the two
transactions of each request of the API; `JobRequest` is a request on the job itself, whose retry raises `max`. `Crash`,
`Recover` and `DatabaseFault` are faults. An error inside the `try` of `_run_book` goes to `Failing`; one before it, or in
`mark_paused`, `mark_cancelled` or `mark_failed` (`Unguarded`), goes past the run to `_retry_or_dead_letter`. A retry or a
recovered lease that finds the attempts used up (`Exhausted`) dead-letters the job and tells the run nothing. A chapter workflow (module `ChapterWorkflow`) is one step, `Work`, that promotes,
needs review, fails or stops at a request; version w + 1 is the one workflow w promotes.

Abstractions. One execution at a time (a lost lease under a live handler is in `JobQueue`); calls, tokens and
cost are one resource; a resume without a new limit is one with the limit there is, and has no branch for a run whose
node is `pending`, since every run that can be resumed has passed `_initialize`; nobody accepts a version outside the run
while it runs; the critic's request is the
pair of snapshot and number of workflows, as its idempotency key is; the analysis of `book/` is a verdict.

`PartsKeepTheirLifecycles` ties the module to the two it abstracts: the workflows of every chapter move as
`ChapterLifecycle` says, and the top-level job as the `JobLifecycle` that `JobQueue` implements.

### MemoryIndex, GovernedEmbeddings

An indexer is a thread that has just accepted a version (`AcceptVersion`) or indexes a set of versions again, the smallest first
(`Reindex`). `LoadSnapshot`, `EnsurePending`, `MarkIndexing` and `WriteIndex` are its transactions; between the last two it
embeds. A promotion creates the record of its version in its own transaction, so a version that was ever accepted always
has one. `MarkVersionFailed` and `Raises` are the two ways an error leaves: an `EmbeddingError` is put on record, any
other leaves the caller, also one of the transaction that records the first. The chunks and relations of a version share one status; `profile` is a text of a
character, whose chunks belong to no version; `entity` is one entity that several versions mention.

`GovernedEmbeddings` is `embed_texts`: `Reserve`, `CallProvider`, `FinishCall`, `Settle`, `RecordSuccess`, and the handler
`Release`, which gives back what is reserved, writes the audit row and retries. Its circuit, ceilings and
limiter are those of `ProviderGateway` and here refusals that may come at their place, as do a failing
transaction (`TryError` inside the try block, `HandlerError` inside the handler) and the end of the process.

Abstractions. A call is estimated and paid at one unit, with the budget enabled and its price known; the other
users of the budget are in `ProviderGateway`. Queries of the retriever use the same provider and turn every
error into `RetrieverUnavailableError`: they are no thread of their own. `delete_source_index` has no caller.
No fairness is assumed, so every property is one of safety.

### Models, MigrationScripts, Migrations

`Models` is what the mapped classes declare: of each table the required and the optional columns, the references
with their rule, the unique keys and the values each status check admits. `MigrationScripts` is what the ten
revisions do: two sequences of operations each, in the order of `upgrade()` and `downgrade()`. The two are
written independently in the code and meet in an invariant. `Migrations` runs them: one operation at a time,
from revision to revision, over rows the application wrote at some revision (`Write`). A table's rows are
the kinds of row it holds, a kind being the value of the one column the scripts convert; `empty` are the columns
that are NULL somewhere. PostgreSQL runs everything in one transaction; SQLite commits after each revision, commits
a table creation that precedes the revision's first row change at once, rebuilds the table of a batch and
ignores `PRAGMA foreign_keys` inside a transaction. A batch that only adds columns without a default or with a constant one
is a plain `ALTER TABLE ADD COLUMN` there as well (`AddInPlace`): it rebuilds nothing, unlinks nothing, opens no
transaction, and before the first row change it is committed at once. `Refuse` ends a run at an operation the rows or the schema do not
admit, `Crash` anywhere.

Abstractions. Types, defaults, numeric checks and plain indexes are left out. What Alembic, SQLAlchemy and SQLite do
with an operation is external, and modelled as these scripts use it.

### Drafting

`Planner`, `Generator` and `Evaluator` threads are `PlanningService`, `ChapterGenerationService` and `EvaluationService`
called from the API, jobs or the command line; an action is one transaction together with the answer of the agent
before it. `PrepareRequest`, `PersistPlan`, `MarkPlanFailed`; `ValidateStart`, `BuildContext`, `SetRunning`, `PersistDraft`,
`ReadCanon`, `PersistExtraction`, `MarkFailure`; `ChooseVersion`, `LoadContext`, `MarkEvaluating`, `PersistComplete`, `PersistPartial`,
`MarkEvaluationFailed`. Chapters and versions are found by number where the code finds them so and by row where it
keeps the row, which is the difference the properties depend on. `WithinBudget` is the context's choice of items
under `max_context_chars`.

The transaction of an extraction is two steps. `ReadCanon` is what it reads (`seen`): the chapter, its version, the accepted
facts of other versions, the open hooks, whether every chapter is generated. `PersistExtraction` is its commit: it writes
from `seen`, with no row locked and no version column compared, so that of two extractions that overlap each writes its own
columns over the other's and neither supersedes the facts of the other. What a transaction sets to the value it read is not
flushed (`Written`). `crossed` marks a chapter whose last extraction was such a one. With `autoflush=False` the query for planned
hooks sees the stored status, so that a hook the extraction itself resolved is opened again when it belongs to the
chapter (`HooksAfter`).

Every other transaction is one step. The reads of `ReadCanon` are made at one instant, though at READ COMMITTED each statement
sees the rows of its own. Two drafts that overlap collide on the unique key of chapter and version, two evaluations on that
of chapter and evaluation version, two plans on that of project and chapter number: one of them fails, as it does when it comes second. The
window between the check and the commit of an evaluation is one more way in which a draft may overtake it, of the kind the
window between the critic's answer and the check already is.

Abstractions. Every plan has all numbers, the cast is one character, a text has one fact and a chapter one hook;
row ids are never used again; rules, mechanical scores and the critic are passed or not, and the rows of
conflicts are not kept. No chapter workflow or book run is at work on the same project at the same time.

## 4. Runs

All passing runs finish; deadlock is not checked because every one of these systems may come to
rest (all jobs done, all keys used, the run closed, the bounds spent).

| Run | Checks | Instance, and why it is enough |
|---|---|---|
| `job_queue_safety` | `DeduplicationKeysUnique`, `ImplementsLifecycle` | one job, two threads of one worker process (they share the worker id, the worst case for ownership), a dispatcher, two requests of any kind, a fault, two attempts. Jobs do not share rows, so one job is enough; two attempts give a retry and an exhaustion |
| `job_queue_recovery` | `IntentUntilExhausted`, `AttemptsBounded`, `JobSettles`, `FencedOutcome` | a thread in each of two processes, a fault, the requests that revive or discard a dead letter, fairness |
| `gateway_budget` | `HardLimit`, `WorkflowCeiling`, `KeyExclusive`, `ImplementsLedger` | two threads of one workflow whose ceiling is two calls, two keys, a retry, a fallback that privacy blocks, limits in which one estimate fits and two just fit or do not, a change of the limit and a crash. The ceiling is passed in it (`NeverPastCeiling` fails), by the other thread and by the crash, as `WorkflowCeiling` allows |
| `gateway_liveness` | `PaidOnce`, `KeySettles` | one thread, a retry and a fallback that is not blocked, an error at any step, also after the answer, a crash, a ceiling that is reached, circuit threshold one, fairness. A key is paid twice in it (`NeverPaidTwice` fails), for the one answer that was lost |
| `chapter_workflow` | `CanonicalFacts`, `NeedsReviewShowsBest`, `ClosedRunsLeaveNothingOpen`, `AcceptsOnlyPassing`, `RunFinishes`, `ImplementsChapter` | a new chapter or an accepted one, both operations, two revisions (one rejected, one at the limit), texts that pass, are flagged or contradict the story, provider errors and a blocked budget, and any two different disturbances out of a request, a crash, a lost lease and an outside evaluation |
| `book_run` | `ReportIsTrue`, `GeneratedOnce`, `CompletedIsWhole`, `RunSettles`, `PartsKeepTheirLifecycles` | two chapters, one of them accepted before or not, a limit that is reached and one that is not, one round of one revision, a check after each chapter, two requests, a crash, an error, three of them in all, and a job of two attempts, so that the crash and the error together use them up and the job is dead-lettered. With one task per round, a plan cut by a negative token budget (`book/revision.py:72`) has the length of a full one |
| `job_admission` | `AdmissionBounded`, `AnswersAgree` | two clients, limits of one, six requests that share keys, chapters and projects in every way that conflicts, three jobs, one revival |
| `job_events` | `HistoryOrdered`, `ReceivedIsPrefix`, `FollowerCatchesUp` | two writers, two readers over one place, batches of two, three events (a full batch and a rest), an id lost to another job or a rollback, a disconnection |
| `memory_index` | `StaleOnlyIfOvertaken`, `CompletedIsIndexed`, `LedgersAgree`, `PromotionIsAttended` | three versions, two of one chapter and one of another that mentions the same entity, two indexers, a reindex, a retry, a limit two calls reach, one fault |
| `migrations` | `SchemaOfRevision`, `DataSurvives`, `RefusedForARow` | both dialects, ten revisions, three runs of any length in either direction, one of them interrupted; a data set with rows of every ordinary kind, or with one kind more that the scripts do not convert, and with facts of every status, none accepted or none at all. Kinds are converted row by row and do not interact but for the facts, where the downgrade of milestone 5 keeps the accepted ones only: hence the three sets |
| `drafting` | `CanonIsOneVersion`, `FactsMatchText`, `CompletedHasCanon`, `VerdictOnCurrentText` | two chapters (one before the other, for context), two planners, two generators, an evaluator, two plans, three drafts (two of one chapter overlap, also within their extractions, one follows), one error or crash |

One run expects a violation, of a comment of the code, quoted in `PROJECT.json` under `findings`:
`future_knowledge` checks `NoFutureKnowledge` and finds a chapter that is generated again after a later one was
written: its context has the character in the state in which the later chapter left it.

Each property of a passing run has a mutant in `PROJECT.json`: a changed definition, kept next to the
original, under which TLC finds the property violated.

### Divergences reproduced by further configurations

Each row violates the property it names; together they are the record of where the code does not do what its
documents, docstrings or tables say. They are not part of the regular list. Where the first column has a
configuration of the divergence's own, that file shows it; where it says "instance of", the regular instance does
when the property is added to the file's INVARIANTS.

| Configuration | Property | What TLC shows |
|---|---|---|
| `SharedFence.cfg` | `FencedOutcome` | the worker id names a process, not a thread: with two threads a superseded execution passes `_owned_job` and writes the outcome of the new lease |
| `LeaseTermination.cfg` | `RequestsAreHonoured` | `expired_leases` selects leased and running jobs: a pause or cancel request that meets a dead worker or a retryable error stays requested for ever |
| `PauseOwnership.cfg` | `PauseReleasesOwnership` | `_succeed` pauses a job and leaves its worker id and lease set (`docs/decisions/0010-asynchronous-jobs-and-transactional-outbox.md:52`) |
| `ResumeDelivery.cfg` | `ResumeCreatesDelivery` | a job paused twice before it starts is resumed the second time under the key of the first outbox row, so no delivery is created (`docs/async-jobs.md:30`) |
| `ExhaustedPublish.cfg` | `DeliveryIntent` | a late `_record_published` queues a rescheduled job whose retry row then exhausts its publish attempts; nothing in the database will deliver it (`docs/queue.md:34`) |
| instance of `JobQueueSafety.cfg` | `AttemptsBounded` | a job that is paused in its last attempt and resumed is claimed once more: `claim` does not compare `attempt` with `max_attempts` |
| `DoubleRelease.cfg` | `ReservationsBacked` | an error after `settle` makes the handler of `generate` release the attempt again, from another call's share |
| instance of `GatewayLiveness.cfg` | `NeverPaidTwice` | an error after the provider's answer sends the request to the fallback model (`docs/decisions/0009-m10-provider-governance.md:20`) |
| `KeyReclaim.cfg` | `KeySettles` | a failed key claimed again meets its old audit rows (`models/entities.py:1376`) and stays active |
| `KeyCrash.cfg` | `ClaimsEnd` | the key of a process that died stays active |
| `ProbeLeak.cfg` | `HalfOpenProbeEnds` | a half-open probe of the process-local circuit that ends in a refusal, an invalid response or a rate limit is never given back |
| `WorkflowRace.cfg` | `NeverPastCeiling` | two threads of one workflow pass the ceiling before either is counted |
| `BudgetSwitch.cfg` | `HardLimit` | a call admitted while the budget was disabled settles after it was enabled |
| `CancelOverwritten.cfg` | `TerminalIsFinal` | `accept_version` and `mark_needs_review` assign the run's status without `transition_workflow`: a run cancelled while its last node acts is completed and promoted |
| `CrashReplay.cfg` | `CrashesAreRecovered` | a worker that dies in a provider call leaves the key active (and in an evaluation the chapter `evaluating`); the resumed node is refused and the run fails for good |
| instance of `JobEvents.cfg` | `CleanEndIsComplete` | events and status are read in two transactions: a job that ends in between closes a stream before its last event is sent; only a new connection gets it |
| instance of `JobAdmission.cfg` | `RefusedForAnother` | a client that repeats a request while the first is being created passes the lookup and is then refused because of a job that has its own key |
| instance of `BookRun.cfg` | `AcceptedHasVersion` | a worker that dies between a chapter's promotion and its record leaves the run linked to that workflow; the next chapter is recorded as accepted by it and is never written. Two database errors, the second in `mark_failed`, do the same (`MaxFaults = 2`, no crash) |
| instance of `BookRun.cfg` | `RunAlwaysSettles` (under PROPERTIES) | the attempts of the job run out, by deaths (`recover_expired`, `jobs/worker.py:119-121`) or by errors outside the `try` of `_run_book` (`_retry_or_dead_letter`, `jobs/worker.py:240-242`): the job is dead-lettered and the `book_runs` row stays `generating` until an operator retries the job or cancels the run |
| `BookCancel.cfg` | `CancelSettles` | a cancel request that arrives while a chapter workflow fails or the run closes leaves the run `cancel_requested` for ever |
| instance of `MemoryIndex.cfg` | `VisibleIsCanonical` | a version read before an embedding call is written as accepted memory after another was promoted |
| instance of `Migrations.cfg` | `NoLinkLost` | an upgrade on SQLite that starts at milestone 10 or 11 drops `provider_idempotency_records.provider_call_id` or `worker_records.current_job_id` with the table they point to |
| instance of `Drafting.cfg` | `NoMixedCanon` | two extractions of one chapter overlap (`services/generation.py:211-276`): each has read the accepted facts before the other committed, and the chapter is left with accepted facts of two versions |
| instance of `Drafting.cfg` | `RunningIsAlive` | a gateway error that no service catches, or a crash, leaves a chapter `generating`, `extracting_facts` or `evaluating` with nobody at work on it |

Also met while modelling, and not reproduced by a configuration:

- Job core and workflow. With two executions `ClosedRunsLeaveNothingOpen` fails: a worker that lost its lease may
  still save candidate facts after the retry closed the run. Re-evaluating an accepted version (the first node of
  a `targeted_revision`, or an outside evaluation) sets its status to `evaluated` while the chapter still points at
  it. An outside evaluation in progress makes the first `run` raise `InvalidStateError` and leaves its row
  `running`, with no job that could resume it: hence the exception in `RunFinishes`.
- Book runs. A crash between the mark of a chapter and the link of its workflow, or in a global revision, fails the
  book. Once the critic has answered, a retry is refused by provider idempotency and the run fails even with an
  accepted snapshot. A pending run cannot be cancelled. `max_global_revision_rounds` above one is never used. Requests
  are not observed in a targeted revision. A resume that races the end of a pause leaves the run generating with a
  paused job; a pause at initialization pauses the job and not the run.
- Memory and embeddings. An error that is no `EmbeddingError` leaves the record of a version that is indexed again
  `indexing`, and one failing version ends the reindex of those after it. An error after `settle` releases the
  reservation a second time and overwrites the audit row as failed; refused attempts count in the
  `provider_call_count` of whichever workflow run is the newest active one. A replay of an acceptance after a
  crash never indexes. An entity several chapters mention is superseded with the last of its sources. `current_keys` in
  the indexer is computed and not used.
- Migrations. On SQLite a revision is not atomic: what precedes the first row change is committed, so that a crash or a
  refusal leaves tables or `_alembic_tmp_…` behind which block the next attempt. Foreign keys stay off for the rest of a
  run once a revision has switched them off. The milestone 5 upgrade marks every existing version accepted.
- Drafting. An extraction that ends late leaves `chapter.content` different from the accepted version. A plan replaced
  during a draft loses the text, or the draft lands in the chapter of the new plan. A regenerated chapter's old version
  keeps the status accepted. A project of which a chapter was evaluated before the next was generated is never completed.
  The summaries of recent chapters come from unaccepted drafts too (`docs/workflow.md:66`). A chapter that returns to the
  same status between load and mark of an evaluation gets a verdict on a text the evaluator has not read.

## 5. Fairness

- `JobQueue`: `dispatcher_main` (`runtime.py:194-207`) runs lease recovery, re-delivery and publication in
  one endless loop; worker threads take messages, and every actor has a time limit, so a handler ends;
  clocks advance. Nothing is assumed of operators, heartbeats, faults, or which outcome a handler has.
- `ProviderGateway`: transactions end, a provider answers or its client times out, backoff sleeps are
  bounded; cooldowns and Redis keys expire. Nothing is assumed of new claims, operators or errors.
- `ChapterWorkflow`: a live execution goes on (a provider call ends as above); the dispatcher loop recovers
  expired leases; the retry job that recovery schedules is delivered, which `JobSettles` shows for the job
  core, and resumes the run. `RunFinishes` excludes behaviours with a user's request, because a user need
  not resume what a user paused.
- `BookRun`: the job is delivered and its handler goes on, expired leases are recovered (both as above), and an API
  request that has done its first transaction does the second. `RunSettles` speaks of behaviours without requests, and is
  satisfied by a dead-lettered job: nobody has to retry one.
- `JobEvents`: the server goes on with an open stream (weak fairness), and a client whose stream broke tries again for
  as long as it follows the job, so that it gets one of the places that become free again and again (strong
  fairness of `Connect`, what the browser's `EventSource` does).
- `JobAdmission`, `MemoryIndex`, `Migrations` and `Drafting` state no fairness: all they are asked is safety.

## 6. Proofs

Every theorem holds for any values of the constants that satisfy the `ASSUME` of the module, unless it states an
assumption of its own. Every module of proofs has the same shape: an invariant that is stronger than the properties,
lemmas that say once what a step does to the rows an invariant is about (so that the many actions need not be
taken apart for each of them), one lemma per group of actions, and theorems that need only temporal steps.
TLC finds each of these invariants true on the instances of section 4.

`JobQueueProofs` (any jobs, threads, processes, dispatchers and bounds):

- `TypeCorrect`. `TypeOK` alone is not inductive: a dispatcher with a row in hand indexes the outbox. `TypeInv`
  adds `InFlight`, that the row exists.
- `RunningJobsAreLeased`. `OwnInv` adds `Ownership`: leased and running jobs have a worker and a lease, jobs that
  ended have none.
- `LifecycleImplemented`, the refinement of `JobLifecycle`, from `OwnInv`: each write of `job` goes through
  `Transition` and is classified once by the statuses before and after.
- `OutboxKeysAreUnique`. `KeyInv` adds `KeysOf`: the attempt in a retry row's key is at most the next one, and while
  a worker owns the job, at most the current one. So the key of the row a retry inserts is new,
  although `_retry_outbox` inserts it without a look-up.
- `WaitingJobsAreIntended`, assuming that nobody pauses, and that there is one dispatcher (`docker-compose.yml:130`)
  or nobody retries dead letters. `IntentInv` adds that a waiting job has an unsent row; with one dispatcher, that
  the row it holds is still claimed, and that a dead letter whose next retry row exists has given that row up.
  Without the assumptions `ResumeDelivery.cfg` and `ExhaustedPublish.cfg` have the counterexamples.
- `AttemptsAreBounded`, assuming that nobody pauses (section 4 has the counterexample). A claim does not look at
  `max_attempts`, so the bound is not inductive: `AttemptsInv` adds that a row which may be claimed has an attempt left,
  and that no row is paused. `SparesAttempts` is what every write but a claim and a retry of a dead letter does to a row.
- `OutcomesAreFenced`, for any number of threads per process (the shipped `worker_concurrency` is 2): an execution that is
  behind writes no outcome unless a sibling thread claimed its job while it was still executing it (`SiblingClaims`).
  `OwnedIsCurrent`: as long as the job names the process of an execution, the execution has the job's attempt; a claim by
  another process ends the first, only one by a sibling ends the second and leaves the first. `SharedFence.cfg` is that
  case. The corollary `FencedWithoutSiblings` is `FencedOutcome` itself where no process has a second thread.

`ProviderGatewayProofs` (any callers, keys, candidates, prices, limits):

- `TypeCorrect`, with the clamp of `settle` that keeps the reservation natural.
- `HardLimitHolds` and `CallsAreBacked`, under `BudgetAssumption`: no price exceeds the estimate, the budget
  is not switched off, and no transaction fails halfway through an attempt; crashes and changes of the limit
  are allowed. `BudgetInv` adds that the budget is enabled and `Shaped`, which says where in `generate` a thread
  holds a reservation; lemmas on `Held` state how the number of holders changes when one thread moves.
  `DoubleRelease.cfg` and `BudgetSwitch.cfg` show the need of the assumptions.
- `LedgerImplemented`, the refinement of `BudgetLedger`, and `NothingOrphaned`, under the same assumption. The row has only
  a sum, the ledger has owners: from `BudgetInv` and the lemmas on `Held`, what is reserved is the holders' shares
  and what the dead left, so that `Reserve` is a `Hold` that fits, `Settle` and `Release` are a `GiveBack` of a holder,
  `Crash` is a `Die`, and `SetBudget` a `SetLimit` above all of it. Every other action leaves the ledger alone.
- `SlotsBound`: the calls on the network to a model are at most the counter, which stays within the limit.
- `KeysAreExclusive`: inductive with the types, since only an absent or a failed key is claimed and a thread leaves its
  key before it is failed.
- `AnswersArePaidOnce`, for any errors and crashes. `BilledKey`: a key that was paid once more than answers were lost stays active or
  succeeded, and the thread on it has an answer in hand that is neither lost nor recorded yet; only losing it, which counts
  in `dropped`, lets the key be paid again. The instance of `GatewayLiveness.cfg` shows that it is (`NeverPaidTwice`).
- `CeilingHolds`, for any callers on the workflow run. `CeilingInv`: the calls sent are at most those counted, those between
  sending and counting, and those an error or a crash kept from being counted; and with the threads that have passed
  the check and not sent yet, at most the ceiling and what the others may add. The argument counts two sets of threads
  at once.

`JobAdmissionProofs` (any finite set of clients, any requests and limits):

- `TypeCorrect`, with `Asked`: what a client past its look-up knows.
- `AnswersAreConsistent`. `KeysDecide`: keys of rows are distinct, and a key decides its project, because it is a
  hash of the whole request. Clients compare keys, so without it they could be told a job of another project.
- `AdmissionIsBounded`. `PlacesWithin`: the counted active jobs, and the clients that passed the count and have not
  inserted yet, are together at most the limit and one less than the clients. The argument counts two sets at once
  and is made once for a set of projects, with all of them and with each one.
- `ActiveJobsAreUnique`: `OneActive` is inductive; insertion and revival both meet the partial index.

`JobEventsProofs` (any writers, any finite set of readers, any batch, places and bounds):

- `EventsAreNumbered`. `WriterInv`: one transaction is open at a time; its number is the next one and its id is above
  every visible one. `Drawn` bounds the ids that were drawn.
- `StreamsSkipNothing`. `StreamInv`: the batch in hand continues what the client has received, with nothing in
  between, and the cursor is the last id sent, or, on a new connection, the last one received.
- `PlacesAreGivenBack`: free places and open streams add up to the places there are. `TypeCorrect` follows.

`MemoryIndexProofs` (any indexers, versions, retries, limit and faults), one invariant for both modules:

- `LedgersStayTogether`. `EmbeddingInv`: unless a transaction failed or a process died, what is reserved is the number
  of embedders that hold a reservation, and what is priced is what was spent plus those about to settle.
- `StaleMemoryIsOvertaken`, `CompletedStaysIndexed`, `PromotionsAreAttended`. `IndexInv`: a chapter has one
  accepted version, only versions that were accepted are indexed, a thread at work on a version had it
  accepted or saw it overtaken, and a record that is not final has a thread that owes it an end.
- `TypeCorrect`, with the one accepted version of a chapter, and `LatestProfileIsRemembered`. `ReadsLatest`: a thread at
  work on the version promoted last holds the characters as that promotion left them, since only a promotion changes them
  and nobody can be at a version before its own.

`DraftingProofs` (any chapters, planners, generators, evaluators and faults): `TypeCorrect`, `CanonOfOneVersion`,
`FactsAreOfTheirText`, `CompletionHasCanon`, `VerdictsAreCurrent`. `DraftingInv` says that versions are numbered without
gaps and counted by the chapter's row (`Numbered`), that a plan about to be saved is unknown to every row and thread
(`NewPlan`), that a generator which extracts from a draft of the plan in force finds its own text under the number it
keeps and is alone with it (`Drafted`), that an extraction about to commit which no other overtook has read the accepted
version and every accepted fact of the chapter (`Reading`, `Abreast`), and that an evaluator which no draft overtook holds
the current version (`Evaluated`). Without `Abreast` nothing relates what an extraction writes to the rows it finds when it
commits. `Quiet` is what every step but a few does to planners, generators and evaluators.

`BookRunProofs` (any chapters, limits, rounds, requests and faults): `ReportsAreTrue`, `ChaptersAreGeneratedOnce`,
`CompletedBooksAreWhole`, `PartsLiveLawfully`. Where the thread is decides what the rows must say: `Choosing` (a chapter it is about to
start has no version, and no workflow but the one the run refers to), `Working`, `Reviewing` (a snapshot it
holds is of the versions accepted now), `CompletedRests`. `Linked` is the heart: as long as no process died and one error at most struck (`NothingLost`), a run that
refers to a workflow is executing it, can go on with it, or will not go on at all. A crash, or a second error, breaks it (the
instance of `BookRun.cfg` violates `AcceptedHasVersion`), which is why `ReportIsTrue` speaks of runs without them.
`PartsLiveLawfully` needs `PartsInv`: `JobHeld` (a thread executes a job that was started and is running, or has a request
on it, so that `Claim` is the only start and a finished job is not touched) and `WorkRuns` (the workflow a thread works on
is running, so that its end is a move of a live run). That no other workflow of the chapter is live when one begins
follows from `Choosing`. Each action is then a step of one chapter, of the job, or of neither.

`ChapterWorkflowProofs` (any executions, revisions, requests, crashes, lost leases and outside evaluations):

- `TypeCorrect`, `CanonIsOfAcceptedVersion`, `PromotionsPass`, `RevisionsAreBounded`. `WorkflowInv` says of every
  thread's position, and of both checkpoints, since either may be resumed, that it is `Reachable`: a node on
  the way to a revision leaves room for it, and a node behind an extraction is about a version with
  facts. `Ordinary` is what every step but `accept_version` does to the rows; it is shown to keep the invariant
  once. The typing of positions is in `TypeOK`.
- `ChapterImplemented`, the refinement of `ChapterLifecycle`, from `WorkflowInv` and `Begun`, that an
  execution of a run without a row is about to enter its first node, which creates the row. It holds for executions that
  overlap: whatever a late one does to the run's status is a step the abstract module has.
- `ClosedRunsAreSettled`, for executions that do not overlap. `ClosedRests`: the execution of a closed run has ended or
  waits for its last checkpoint. With two, a worker that lost its lease may save after the run closed (section 4).
- `BestIsShownForReview`, for executions that do not overlap and a chapter nobody evaluates from outside. `ShowInv`
  relates the run's rows to every position it may be resumed from. `Sits`: a position behind the draft, or behind
  its evaluation, has the row it builds on. `Connected`: the execution works from the newest checkpoint, which follows
  the one before. `BestIsRanked` is the heart: an evaluated version that beats the best one is not compared yet, and
  both checkpoints and the execution still lead to its comparison (`AwaitsComparison`). `Calls` covers the other way to
  a review, a blocked budget: a node whose evaluation is stored replays it and calls nobody, so that the budget can
  stop no run while a better text awaits its comparison. `Better` is a strict order, which is what lets the best
  text be replaced without looking at the versions that lost to it.

What is only model-checked:

- all liveness (`JobSettles`, `KeySettles`, `RunFinishes`, `RunSettles`, `FollowerCatchesUp`), which
  is outside what TLAPS can prove under fairness;
- `SchemaOfRevision`, `DataSurvives`, `RefusedForARow`: the schema and the scripts are fixed finite data, and TLC
  goes through every route between revisions; a proof would only repeat the enumeration;
- `TypeOK` and `BegunInOrder` of `BookRun`, which speak of folds over workflows: what a fold computes needs induction
  over data. `RowType` of the proof has the types without the sum.

Defined and in no regular run. Proved, as said above: `TypeOK` of every module with proofs but `BookRun`,
`RunningIsLeased`, `ReservationsBacked`, `FailuresRelease`, `ConcurrencyBound`, `OneActive`, `SlotsBacked`,
`RevisionsBounded`, `ProfileRemembered`; the proofs of type correctness take the place of a run. For use while a module
is changed: `TypeOK` and `BegunInOrder` of `BookRun`.

## 7. Not modelled

The worker registry is a display. Checkers, prompts, parsing, chunking, ranking and the analysis of a book are pure
functions of text: the models choose their results, and the rules that decide on the results are modelled. Of the
limiter, the request and token windows are a refusal that may come at any time; of the retry policy, the length of
the delay is left out. The updates of characters and foreshadowing at a promotion of the workflow, and the rows of
conflicts, are not kept. The HTTP API, the command line, the application services other than those named above and
the web client map calls to services and keep no state of their own. Settings are the constants of the modules.
