# Verification of personalization_core

TLA+ models of the core of `personalization_core`, the TLC configurations that
check them on small instances, and TLAPS proofs of their safety properties and
refinements for instances of every size. The program keeps
what an application knows about its users: behaviour events, memories (what a
user said, or what was inferred), features computed from the events, and profile
snapshots. Requests run concurrently on asyncio event loops,
in any number of server processes, over one SQL database. All paths below are
relative to `src/src/personalization_core/` unless they begin with `docs/`,
`plan.md` or `tests/`.

## 1. The system

### 1.1 Components

| Component | Source | State it keeps | Operations | Status |
|---|---|---|---|---|
| Memory service | `application/memory_service.py`, `domain/memory.py` | `memories`, `memory_revisions`, `memory_evidence`, `evidence` rows | add, patch, confirm, delete, restore, extract, list, search | modelled |
| Event ingestion | `application/event_service.py`, `domain/events.py` | `events` and their `evidence` rows, the subject row | ingest one event, atomic batch, partial batch, list | partly |
| Feature processing | `application/feature_service.py` | `feature_observations`, `feature_states`, `processing_runs` | process event, process pending, rebuild dimension | partly |
| Profile refresh | `application/profile_service.py`, `domain/profile.py` | `profile_snapshots` | refresh, latest, diff, list | partly |
| Subject lifecycle | `application/subject_service.py`, `sqlalchemy_uow.py` | `subjects` | create or get, soft delete, export, purge | partly |
| Purge tokens | `ports/purge_tokens.py` | token digests in the memory of a process | issue, consume, expire | modelled |
| Context resolution | `application/context_service.py` | none | resolve context | partly |
| Indexes | `infrastructure/indexes/` | documents by scope, in the memory of a process | upsert, search, delete subject | partly |
| Units of work, repositories | `infrastructure/persistence/` | the SQL session | begin, flush, commit, roll back; unique keys, compare-and-set | within each model |
| Entities | `domain/entities.py`, `application/event_service.py` | `entities` rows | upsert, list | modelled |
| Embedded engine | `sdk/async_client.py` | initialized and closed flags, the pool | initialize, close, list, probe, delegation | partly |
| Remote SDK client | `sdk/remote_client.py`, `sdk/errors.py` | last request id, the HTTP client | `_request` with retries, close | modelled |
| Synchronous client | `sdk/client.py` | none | runs the asynchronous client | partly, as calls of the engine |
| HTTP API | `api/` | none between requests | authentication, scope, delegation, error statuses | partly |
| Database configuration | `infrastructure/persistence/database.py` | the connection pool | connect, time out, dispose, probe | partly |
| Plugins | `plugins/` | registered extractors and aggregators | register, look up | as constants |
| Observability | `infrastructure/observability/`, `ports/audit_sink.py` | `audit_log`, `purge_audit_log`, counters | emit, count | `emit` modelled |
| Providers | `ports/memory_extractor.py`, `ports/embedder.py`, `ports/reranker.py` | none | extract, embed, rerank | extraction as a choice |
| Evaluation, migrations, adapters, scripts | `evaluation/`, `migrations/`, `adapters/`, `scripts/` | none at run time | offline | not modelled |

### 1.2 How they interact

A caller reaches a service through the embedded engine or through the HTTP API.
Every operation of a service opens one or more *units of work*, each an SQL
transaction: reads, flushed writes, then a commit, or a roll back on any error
that leaves the `async with` block. The repositories turn a violated constraint
into `InvalidArgumentError` **after rolling the whole session back** (`_flush`,
`repositories.py:247`). Services do not call each other's units of work, apart
from `ensure_in_uow`, which creates the subject within the caller's. They
communicate through rows: ingestion leaves events, processing reads them and
leaves observations, states and runs, a refresh reads all of these and the
memories and leaves a snapshot, a context reads memories, states and the latest
snapshot. Audit and retention are called after a commit and change nothing that
an operation reads, yet an error of theirs reaches the caller, and an audit row
needs a session, a connection and its subject's row.

### 1.3 What is hard

* Nothing locks a row that is read. What a request read can be out of date by
  the time it writes; the code relies on revision checks, unique indexes, a
  partial unique index (one active memory per slot) and on looking up again.
* A violated constraint rolls back everything the unit of work flushed, also
  where the caller goes on.
* Requests wait for each other's flushed index entries, and can do so in a
  circle.
* A process can stop between two units of work of one operation, and a caller
  that got no answer repeats its request.
* A refresh, an export and a context read many statements, each of a later
  moment, while writers commit in between.
* The index and the tokens live in a process, the rows do not.
* An update of an entity has no revision to compare, and the flush writes only
  the columns that differ from the row as loaded.
* Every call needs several sessions, one after the other, from one pool, which
  `close` disposes of while calls are under way; all sessions of an in-memory
  SQLite database share one connection.
* The audit row of an operation is written after its commit, to whatever subject
  has the reference by then.
* An attempt that the remote client gave up may still be served, after its
  successor or after the call ended.

### 1.4 What makes each part correct

* **Memories.** One active memory per slot; no update lost; history complete and
  append-only; nothing inferred ever in force without a confirmation that meets
  the policy; the evidence count is the number of bound rows and no evidence is
  left without a memory; supersede and restore do what they say.
* **Events.** The answer and the stored rows are those of a log that handles one
  request at a time; each event keeps exactly one evidence row; every request is
  answered.
* **Features.** One observation per event and extractor; states traceable to
  observations; a succeeded run left its observations; every operation ends.
* **Profiles.** Published versions stay and follow each other; no version repeats
  the one before; a refresh shows everything committed before it began.
* **Preferences.** What the user said prevails over behaviour, and what
  contradicts it is kept as a conflict; every preference and every diff is one
  that the validators of the domain accept.
* **Contexts.** A hard constraint that applies is returned, whatever the query
  finds and the budget allows; what is returned was in force and applied while
  the request ran; the budget is used as far as it goes.
* **Entities and the engine.** A unit of work is all or nothing, and the audit log
  agrees with it; what an undisturbed upsert answers is what it stored;
  `first_seen_at` stays and is never after `last_seen_at`; no call waits for ever.
* **Privacy.** No memory or audit row survives its subject or passes to a later one; purged rows
  are never served; the index keeps nothing after a purge.
* **Remote client.** What a caller is told of its event is so and stays so; an
  operation without a key is applied once at most; an error names its own
  request; every call ends.

## 2. The modules

| Module | Role |
|---|---|
| `MemoryLedger` | abstract: each memory is a log of versions, every step legal in the lifecycle, one active memory per slot |
| `MemoryService` | the memory service over its store; implements `MemoryLedger` |
| `MemoryService_proofs` | theorems about `MemoryService` |
| `Idempotency` | what an event with a key means to a log: operators, no state |
| `EventLog` | abstract: a log, what each caller asked and what it was told; one event or one atomic batch at a time |
| `EventIngestion` | single events and batches statement by statement; implements `EventLog` |
| `EventIngestion_proofs` | theorems about `EventIngestion` |
| `FeatureEngine` | workers turning events into observations and states |
| `FeatureEngine_proofs` | theorems about `FeatureEngine` |
| `ProfileRefresh` | snapshot refreshes beside writers |
| `ProfileRefresh_proofs` | theorems about `ProfileRefresh` |
| `PreferenceResolution` | memories and behaviour into preferences, two profiles into a diff: operators, no state |
| `ContextResolution` | one request for a context beside writers and refreshes |
| `ContextResolution_proofs` | theorems about `PreferenceResolution` and `ContextResolution` |
| `SubjectPrivacy` | one subject's life: writes, soft delete, purge, tokens, export, index, audit log |
| `SubjectPrivacy_proofs` | theorems about `SubjectPrivacy` |
| `EmbeddedEngine` | one engine, its connection pool, and calls that upsert an entity, list and probe |
| `EmbeddedEngine_proofs` | theorems about `EmbeddedEngine` |
| `RemoteClient` | the remote client, a network that loses and delays, `Idempotency` as the service |
| `RemoteClient_proofs` | theorems about `RemoteClient` |
| `MC*` | instances for TLC: constant functions, batches, symmetry; `RemoteClient` needs none |

### 2.1 The database in the models

All modules assume READ COMMITTED, PostgreSQL's default, which the code does not
change: a statement sees what was committed when it began and what its own
session flushed. A flushed row holds its unique index entries, so another insert
of the same key *waits* until the holder commits (the constraint is violated) or
rolls back (the insert goes on). A row refers to its subject through a foreign
key, which keeps the subject's row from being removed until the writer ends. With
SQLite one writer at a time runs, so its behaviours are among those of the models.

A write phase of a request and its commit are one step in `MemoryService`: the
update carries `WHERE revision = expected`, and the rows and index entries touched
stay locked, so a split would add states but no outcome; an extraction flushes
its list step by step, as its own later reads see it. Every other module keeps the
statements apart where another actor's commit, failure or wait in between can
matter, and takes a statement that only reads, or a run of them that reads the
same rows, as one step.

### 2.2 `MemoryService` and the code

`memories`, `revisions`, `evidence` and `bound` are the four tables;
`request[c]` is what a coroutine holds in local variables between its reads and
its writes. `AddRead` and `LoadRead` are the reading halves of the handlers, the
other actions their writing halves, with the decision, the repository checks and
the commit.

An extraction (`extraction[c]`) is longer. `ExtractMatch` takes a proposal of the
provider and looks its slot up in a first unit of work; where the slot is empty
the merge strategy may name any memory. A second unit of work writes the whole
list and commits once: for each proposal `Target` looks the slot up again, and
`ExtractCreate`, `ExtractMerge` or `ExtractReuse` flushes the rows of it into the
session (`rows`, `snapshots`, `links`, `added`). The session's own queries see
them (`View`, `BoundView`), so that a later proposal merges into what an earlier
one created; other sessions see nothing before `ExtractCommit`, in which several
memories and several revisions of each appear at once. `base` is the revision
that the first update of a row was conditioned on. That condition, the new ids
and the unique evidence sources are locked from the flush to the commit, so they
are stated once, in the commit, as for the requests; `Rollback` loses the whole
list. `MaxProposals` bounds a list, and `Extractor` is the set of callers whose
service has a `MemoryExtractor` at all.

`FindExactSlot` is `_find_exact_slot`,
`SlotFree` the index `uq_memories_active_slot`, `RevisionUnchanged` the
compare-and-set, `Confirmable` the confirmation policy, `Save` the update with
its snapshot. `expire_memory` has no caller, so no action expires a memory; a
memory whose validity ends is filtered when read. Texts are values of which only
equality is tested; target, sensitivity and validity columns are left out, since
no check of the service depends on them.

### 2.3 `EventIngestion` and the code

`Submit` picks a list of events and a mode. The subject may exist already, as any
other service can have created it. `Open`, `Enrol`, `EnrolLost` are the
unit of work and `ensure_in_uow`; `Read` is the lookup by idempotency key,
`InsertEvent`, `InsertEvidence` and their `Lost` variants the flushes, `Retry`
the second unit of work that `ingest_event` opens after a violated constraint
and an atomic batch does not, `DeadlockVictim` PostgreSQL's way out of a circle
of waits, `Return` the answer. A partial batch is a sequence of single events.
`Crash` loses the request at any point, also between commit and answer.

`EventLog` has three variables: the log, what each client asked (`asked`: its
mode and its list, mapped from `request` by `Asked`) and what it was told of that
list (`answers`). Every answer is about the client's own events: the event that
a request is at (`Current`) is the one after those answered, "failed" is allowed
for it only while its key is free, "conflict" for an atomic batch only when an
event of that batch meets another content in the log or earlier in the batch
(`HasConflict`), and an atomic batch may fail as a whole whatever is stored, as
the code lets it (section 4, `EventRepetition.cfg`).

### 2.4 `FeatureEngine` and the code

A run row is started in a unit of work of its own (`StartRun`). Then, per event:
look up and insert each extractor's observation, list each dimension met, in
sorted order, and write its state; `Commit` ends the unit of work and, for a
single operation, the run. `InsertLost` is `_save_observation_idempotently`
swallowing an error after the session has been rolled back; `Raise` is an
extractor or aggregator that raises or returns what is not valid. Scores are abstract:
a state is the set of observations it was aggregated from, so a state is current
exactly when that set is. Each extractor yields one observation per event and
each dimension has one value and one aggregator. A release is the sequence of
extractors installed in all workers that run it; `release` gives each worker's,
which is another after a restart with an upgrade (`Crash`), and a run remembers
under which it was done.

### 2.5 `ProfileRefresh` and the code

A refresh reads memories, events, runs, feature states and the latest snapshot,
one action each, in `_build_snapshot`'s order; compares digests (`Unchanged`);
then `Add` (the version check) and `Insert` (the unique index on the version) or
`InsertLost`, and `Commit`. `Coverage` is `_coverage_from_runs`. Other services
are four actions that commit an event, a run, a failed run or a change of the
memories. A snapshot keeps what it was computed from in place of its preferences,
so two snapshots have equal digests exactly when they have equal contents.

### 2.6 `SubjectPrivacy` and the code

`subject` is the row, with the number of its creation; `rows` are memories,
tagged with the creation they belong to; `purged` is a history variable. A write
ensures the subject, inserts (`_subject_pk` finds the live row, or refuses) and
commits. A soft delete reads the row and marks it, unless it is gone. A purge
consumes its token, checks the subject twice (`CheckSubject`), selects its key
(`SelectSubject`; without one it goes on as if it had purged), removes what has
that key in one transaction (`PurgeRows`; `PurgeRefused` when a row that refers
to an event with NO ACTION was committed between its statements) and then clears
the index and calls the retention hook (`Deindex`, `CleanupFails`). A context
lists, upserts the index and reloads; an export reads one page after the other.
Each of them ends with `SQLAlchemyAuditSink.emit`: `FindSubject` looks the
subject up, soft deleted or not, `Log` inserts a row that refers to the subject
found, or is refused when that is gone, `LogPurge` one that refers to none. An
audit row keeps the subject it refers to (`pk`) and the one it tells of (`of`).
Two server processes have tokens and an index of their own and lose both in a
`Crash`.

### 2.7 `RemoteClient` and the code

`call[c]` is what a coroutine holds within `_request`: the phase of its current
attempt (about to send, waiting, sleeping before the next, or holding a reply
that it has not read yet), the request id, the operation and the number of the
attempt. `wire` holds the requests that were sent and not served; giving up an
attempt (`Fail`, `Cancel`) leaves its request there. `Unavailable` is 502 to 504,
`Broken` an answer that is not retried, `AgainOr` the test
`attempt < attempts`, `Close` the closing of the shared HTTP client. `Serve*`,
`Refuse` and `Lose` are the service and the network; an event is stored and
answered as `Idempotency` says, which `EventLog` builds on and `EventIngestion`
is shown to implement.
There are three kinds of operation, as `_request` knows no more: `ingest_event`,
which carries an idempotency key and is retried; what gets, which is retried;
and every other one ("write", atomic batches included), which is not. `told` is
a history variable of what each call returned or raised.

### 2.8 `PreferenceResolution`, `ContextResolution` and the code

`PreferenceResolution` has what `ProfileRefresh` abstracts: `Candidates` are the
memories that `_build_snapshot` collects for a target, `Outranks` its sort key
without the time, `Speakers` those that may come first, as `updated_at` comes
from the clocks of different processes. `ExplicitOnly`, `BehaviorOnly` and
`ResolvePair` are the three ways to a preference, `ChangeKind` the kind that
`diff_profile_snapshots` gives a change, `ValidPreference`, `ValidConflict` and
`ValidChange` the validators. Confidences do not matter: what the user said or
confirmed outranks behaviour of any confidence.

In `ContextResolution` `rows` are the memories in force and `context` is what
`resolve_context` holds: `listed` is `memory_by_id`, `candidates` the dictionary
of that name. `List` reads the subject and the first page of its memories,
`ListPage` another one, as long as the last was full (`_list_paged`); of a memory
that two pages show, the later copy that applies is kept. `newer` is
the order of the list, by `updated_at`: any order when the request begins, and
kept by every commit until the last page is read, the memory that was written
moving forward (`Places`, `Reordered`). `moved` is a history variable: the
memories that came closer to the first page meanwhile. `Search` applies what
retrieval found, each `Reload` reads one candidate again and drops it, from
`candidates` alone, when it no longer fits, `Select` reads the profile and
computes the rest, with `Sorted` for the order and `SelectWithBudget` for the
loop over it. What an index finds is any set; with a query the order is any, as
a reranker may be installed. A memory is the part of its row that these read;
other requests change it by `Activate`, `Patch`, `End` and `Supersede`, which
stand for the operations of `MemoryService`. A refresh is one step, and lists all
memories at once. `during` is a history variable: what
was committed as each memory while the request ran. Nothing inferred is among the
rows, as `MemoryService` shows that nothing inferred is in force, so
`include_inferred` makes no difference.

### 2.9 `EmbeddedEngine` and the code

`call[c]` is what a coroutine, or a thread of the synchronous client, holds:
`Begin` is `_ensure_open` and the choice of an operation, `Connect` the first
statement of a session, which takes a connection from the pool or opens one,
`PoolTimeout` its way out when all are taken for too long. `schema_initializer`
says whether the engine was made with one: `from_sqlite` gives it one, and then
`Inspect` and `CreateAll` are its `create_all`. `from_database`, `from_postgres`
and `from_components` do not, and `initialize` sets the flag and asks the database
for nothing (`InitializeOnly`): such an engine counts as initialized whether or not
the migrations have made the tables, and its calls fail where they are missing.
`TypeOK` speaks of the tables of the first kind only. `Close` and `Dispose` the two
halves of `close`; a connection that is out when the pool is disposed of is
`detached` and counts no longer. `Lookup` to `Commit` are the statements of
`upsert_entity`: the subject is read for the audit and again by
`ensure_in_uow`, the entity by its reference and again in `update` (`Load`), as
the identity map holds rows weakly; `Changed` are the columns that the flush
writes. A row is a function from its columns, and `work[t]` what transaction `t`
has flushed, laid over the committed row by `Overlay`. A flushed row is locked
(`SubjectHeld`, `RowHeld`) until its transaction ends. `Audit` is one emitted
event: look up, insert and commit, in one step, as no other call of this module
removes a subject (`SubjectPrivacy` takes them apart). `TransactionOf` gives each
call the transaction its statements run in: its own, or, with an in-memory SQLite
database, one for all. `clock` never goes back; the code's UTC clock may be set,
and `SeenInOrder` does not hold then. `stored` is a history variable. Soft
deletion of the subject, schema versions and other entities are left out.

## 3. The runs

`tlc -config <cfg> <module>` from this directory. Each run ends within three
minutes on two cores.

| Run | Instance | Checked |
|---|---|---|
| `memory_supersede` | 2 callers, one of which extracts, lists of 2 proposals, 2 memories, 1 slot, 2 contents, 2 evidence sources, 2 revisions | `OneActivePerSlot`, `InferenceNeverActive`, `NoLostUpdate`, `ImplementsLedger` |
| `memory_life` | 2 callers, one of which extracts, lists of 2 proposals, 1 memory, 4 revisions, 2 evidence sources, 2 confidence levels | `StoreInv`, `EvidenceCounted`, `RestoreUndoesDelete` |
| `event_ingestion` | 2 callers, both modes, 6 lists of 1 or 2 events that meet on keys with equal and other contents, on an evidence source and in opposite orders | `TypeOK`, `StoredEventsTraceable`, `ImplementsEventLog`, `EveryRequestAnswered` |
| `feature_engine` | 2 workers, 2 events, 2 runs, scans of up to 2 events; one release, an upgrade, or two that meet the dimensions in opposite orders | `TypeOK`, `ReleaseIsObserved`, `StatesTraceable`, `StatesCurrent`, `OperationsEnd` |
| `feature_upgrade` | 2 workers of different releases, 1 event | **violates** `SucceededIsObserved` |
| `profile_refresh` | 2 refreshes, 1 event, 1 run, 1 change, 2 versions | `TypeOK`, `SeesEarlierWrites`, `NoMeaninglessVersion`, `VersionsGrow` |
| `profile_coverage` | 1 refresh, 2 events, 2 runs | **violates** `CompleteIsCovered` |
| `context_resolution` | 1 request, 3 memories (a hard constraint, an unsure preference, a confirmed one), 2 scopes, 2 commits, pages of 2, budget 3 or none | `TypeOK`, `ValidatorsAccept`, `HardConstraintsKept`, `ShownWasInForce`, `BudgetFilled`, `UserPrevails` |
| `subject_purge` | 2 processes, 2 requests, 2 creations, 2 tokens | `TypeOK`, `RowsBelongToSubject`, `PurgedNotServed` |
| `subject_residue` | 1 process, 2 requests | **violates** `NoIndexResidue` |
| `embedded_engine` | an engine with or without a schema initializer; 3 calls: one upserts, one upserts or initializes, one reads, probes or initializes; 2 inputs, a pool of 2, clock to 2, database with or without tables and subject | `TypeOK`, `CommittedIsStored`, `AuditedAsStored`, `SeenInOrder`, `AnswerIsStored`, `CallsEnd` |
| `remote_client` | 2 coroutines, 2 calls, 1 retry, 1 key, 2 contents | `TypeOK`, `WritesAtMostOnce`, `ToldIsStored`, `ErrorsNameTheirRequest`, `CallsEnd` |

Every property of a passing run has a mutant, an operator with a `Mutant:`
comment beside the definition it replaces: a bug the code could plausibly have,
with which the property fails.

### 3.1 Bounds, and why they are enough

For the safety properties the theorems of section 5 cover every other number. What
the bounds are for is that TLC reaches every action and each case of it, that the
mutants fail, and the liveness properties.

* **Two concurrent actors.** Every guard that protects against interference
  compares what one request read with what one other committed: a revision, a
  slot, a key, a version. A third request adds commits that a second can make in
  sequence, since an actor that is done may begin again.
* **`MaxRevision`.** Two revisions suffice for a lost update; four for create,
  delete, change, restore. Updates beyond the bound are not explored. With two
  revisions `memory_supersede` does not reach a deletion that is undone:
  `memory_life` does, and the theorem `InferenceIsNeverActive` has no bound.
* **`MaxProposals`.** Two proposals suffice for one that meets what the other has
  flushed, for two revisions of a memory and for two memories in one commit. Two
  extractions beside each other are left to the theorems, which have no bound.
* **One slot** in `memory_supersede`. That a patch of the scope moves a memory to
  another slot is covered by the theorem `OneActive`, for any number of them.
* **Contents, scopes, keys, sources, confidence levels**: two where a comparison
  matters and one elsewhere; the threshold lies at the higher level.
* **Six lists of events**, chosen so that any two of them meet: on a key with the
  same contents, on a key with other contents, on an evidence source, or on two
  keys in opposite orders.
* **One request for a context, two commits.** A request writes nothing, so two of
  them do not meet. Two commits change a memory between list and reload and after
  it; the profile is refreshed between requests (`RefreshIn`), as only the
  conflicts depend on it. The theorems cover every other number.
* **Pages of two rows**, of three memories: the third one can slip from the second
  page to the first, one can be listed twice, and the list can end with a full
  page, after which an empty one is read.
* **Budget 3 or none**, memories of cost 2, 2 and 1: the constraint fits with the
  short memory, not with the long one, and both others fit without it.
* **One retry, two calls** in `remote_client`: a late attempt can be overtaken by
  its successor and by another call. The theorems cover every other number.
* **Three calls, a pool of two** in `embedded_engine`: two upserts meet, and a
  third call makes them wait for a connection or closes in on them with
  `initialize`. A pool of two is full with two calls, so that one that held a
  connection while waiting for another would wait for ever.
* **`Limit`** are the limits that callers of `process_pending` give: one that takes
  both events, more than there are before the second is stored.
* **`MaxEvents`, `MaxRuns`, `MaxChanges`, `MaxVersions`, `MaxGen`, `Token`** bound
  what only grows. Two creations of a subject are needed for a row of the first
  to reach the second; two versions for two refreshes to compete.
* **Symmetry** is used over values that the code only compares, and never in a
  run with a liveness property. `CHECK_DEADLOCK FALSE` is set where the bounds
  let everything come to an end (features, profiles, the engine's calls).

### 3.2 Fairness

Liveness is stated for ingestion and feature processing under strong fairness of
`Step(c)`, the steps of a request that was submitted: the event loop runs every
ready coroutine, and a lock queue hands a released lock to one of its waiters.
Strong, as another actor may take the same index entry again and again and so
enable and disable the step. The remote client is given weak fairness of its own
steps alone: a wait ends by httpx's timeout and a sleep by itself, while service
and network owe nothing. The engine is given the weakest fairness that shows no
call is left hanging: while some call can take a step of its own, one of them
takes a step, as the event loop runs its ready coroutines; a call takes finitely
many. Submissions, ingestion of further events and crashes
are not fair: nothing obliges them to happen, and a crash ends a request.

## 4. Disagreements between the code and its documents

Found by a run, with the shortest behaviour that TLC prints:

* **Lost observations** (`feature_upgrade`): two workers of different releases
  process one event. One loses the race for the shared extractor's observation;
  `_flush` rolls its session back, `_save_observation_idempotently`
  (`feature_service.py:305`) swallows the error and the unit of work goes on
  without the new extractor's observation, which it had flushed before. The run
  is recorded as succeeded. `plan.md:499` and `docs/phase17.md:26` say otherwise.
* **Complete but not covered** (`profile_coverage`): `_coverage_from_runs` adds up
  the successes of all runs; an event processed twice counts twice, and a
  snapshot is `complete` (`plan.md:594`) although an event was never processed.
* **Index residue** (`subject_residue`): a context that listed the memories before
  a purge upserts them after the purge cleared the index (`docs/privacy.md:18`).

Further counterexamples, each with a configuration that reproduces it:

* `MemoryRestoreStuck.cfg`, `DeletedStateReadable` (`MCMemoryService`): a memory
  changed while deleted can never be restored, as `restore_memory` looks at
  revision - 1, itself a deleted one (`domain/memory.py:575`).
* `EventRepetition.cfg`, `RepetitionIsReplayed` (`MCEventIngestion`): an atomic
  batch repeated while the first is in flight is refused, not replayed
  (`plan.md:346`).
* `FeaturePending.cfg`, `PendingAreUnprocessed` (`MCFeatureEngine`):
  `process_pending` takes up the newest events again and again (`plan.md:1062`).
* `SubjectExport.cfg`, `ExportIsWhole` (`MCSubjectPrivacy`): an export of a subject
  that is soft deleted meanwhile lacks the later pages and reports success
  (`docs/privacy.md:60`).
* `SubjectAudit.cfg`, `AuditsTellOfSubject` (`MCSubjectPrivacy`): an audit row
  written after its subject was purged and created again is kept in the log of
  the new subject (`docs/privacy.md:46`); and `SubjectRecord.cfg`,
  `PurgeLeavesRecord`: that of the purge itself goes there too, so that
  `purge_audit_log` has no row of it, and the next purge removes it
  (`docs/privacy.md:47`).
* `EngineHash.cfg`, `HashTracksContent` (`MCEmbeddedEngine`): two overlapping
  updates of an entity each write the columns that differ from the row they
  loaded; the row is left with contents of both and a `content_hash` that is the
  digest of neither (`plan.md:315`, `repositories.py:368`).
* `EngineShared.cfg`, `CommittedIsStored` (`MCEmbeddedEngine`): in an in-memory
  SQLite database, the default of `from_sqlite`, all sessions share a connection,
  and the roll back of one discards what another flushed and then commits.
* `EngineCreated.cfg`, `SubjectCreatedOnce` (`MCEmbeddedEngine`): two first upserts
  are both logged as the creation of their subject, as `ensure_in_uow` finds the
  row that the other committed after line 83 (`event_service.py:83`).
* `EngineClosed.cfg`, `PoolReleased` (`MCEmbeddedEngine`): a call under way when
  the engine is closed opens a connection in the pool that took the place of the
  disposed one, and nothing disposes of that (`docs/phase17.md:13`).
* `ContextPages.cfg`, `HardConstraintsShown` (`MCContextResolution`): with more
  memories than a page has rows, a hard constraint that nobody touched is missing
  from a context, as another memory ended between two pages and the next page
  begins behind the constraint (`context_service.py:361`). The way round it is what
  `HardConstraintsKept` excepts with `moved`.
* `ContextConflicts.cfg`, `ConflictsApply` (`MCContextResolution`): a context
  returns a conflict that speaks for a memory of another scope, as the profile was
  resolved for other selectors (`plan.md:626`).
* `ProfileSilentConflict.cfg`, `ConflictsAreShown` (`MCContextResolution`): of two
  memories that contradict each other one speaks for both, and no conflict is
  kept (`plan.md:1338`).
* `ProfileAuthority.cfg`, `ExplicitComesFirst` (`MCContextResolution`): a confirmed
  memory of a narrower scope speaks before an explicit one (`plan.md:557`).

Reachable too, and contradicted by no document: a later snapshot can show older
contents than the one before it; with two workers a state can be overwritten by
one computed from an older list; a purge whose index fails cannot be repeated; a
token issued before a purge can purge the subject created again; a run whose
process stopped stays `running`; a remote caller can be told that its event was
refused, and an earlier attempt of it, served late, stores it.

## 5. What is proved

Every safety property that a run checks, and both refinements, are theorems for
every value of the constants. Each module's proofs rest on the named assumptions
on its constants, which TLC evaluates on its runs, and on nothing else. They all
go the same way: an inductive invariant (`Inv`, `RequestInv`, `StoreInv`), a
lemma per action that says what it keeps, one step per conjunct that it disturbs,
and the property from the invariant. What is instructive is why the property is
not inductive, and what has to be added.

### 5.1 `MemoryService_proofs`

For every number of requests, memories, slots, texts, evidence sources and
revisions, from `BoundsAssumption`, `FiniteAssumption`, `NoneAssumption` and
`RecordAssumption` (confidence levels and bounds are naturals, a revision exists,
finitely many evidence sources, and "None" is no value).

| Theorem | States |
|---|---|
| `StoreInvariant` | `Spec => []StoreInv` |
| `TypeCorrect` | `Spec => []TypeOK` |
| `HistoryIsComplete` | `Spec => []HistoryComplete`: snapshots 1 to the current revision exist and the last is the row |
| `HistoryIsImmutable` | `Spec => HistoryImmutable` |
| `OneActive` | `Spec => []OneActivePerSlot` |
| `InferenceIsNeverActive` | `Spec => []InferenceNeverActive` |
| `NoUpdateIsLost` | `Spec => NoLostUpdate` |
| `RestoreIsUndo` | `Spec => RestoreUndoesDelete` |
| `EvidenceIsCounted` | `Spec => []EvidenceCounted` |
| `ServiceImplementsLedger` | `Spec => ImplementsLedger` |

`StoreInv` is `TypeOK /\ HistoryComplete /\ SnapshotsNumbered /\
ReadingsAreVersions /\ FlushesAreVersions /\ ProposalsAreStored`. `HistoryComplete` alone is not inductive: an update writes
`seen` with its revision plus one, and what was read may be anything unless
`ReadingsAreVersions` says that it is a committed version no newer than the row;
with the compare-and-set it then *is* the row. That a snapshot carries its own
number (`SnapshotsNumbered`) is what turns "no newer" into an index of the
history. `HistoryImmutable` follows since the only snapshot written is the one
after the current revision, and `HistoryComplete` says that there is none yet.
`OneActivePerSlot` is inductive with `TypeOK`: each write that makes a memory
active passes `SlotFree`, and every other one keeps its slot.

`InferenceNeverActive` needs `InferredBefore`: a restore gives a memory the state
of an older snapshot, so that what is inferred now must have been inferred then.
`FlushesAreVersions` is what the one commit of an extraction rests on: what its
session has flushed of a memory are the versions right after the one that it
found, without a gap, each a merge of every one before, the last being the row. A
flush keeps it, since the session writes from its own row once it has one, and
whatever others commit keeps it too, since the found version is in the history
for good. When the compare-and-set of the commit succeeds, the found version is
the newest, and the log gains exactly the flushed ones (`Gains`).

`EvidenceCounted` needs `LinksCurrent`: while the row has the revision that a
request read, what the request found out about the binding of its evidence is
still true; so it is when the compare-and-set succeeds. For extractions it needs
`SessionsCount`: while nobody has changed the memory since the session found it,
a flushed row counts the evidence that is bound to the memory together with what
the session will bind, and every evidence row that the session adds is bound.

The refinement maps each memory to the sequence of its snapshots (`Log`). A step
of the service leaves a log alone, begins one with one version (`Begins`),
continues one (`Continues`), or does both in one step to two memories of a slot,
the superseded and the new one; `Lawful` says that a continued log's last two
versions are related by an edit, a confirmation, a deletion or a restoration of
the ledger. The commit of an extraction extends any number of logs, each by any
number of versions (`Learns`), and is one move of the ledger, `Learn`: the first
version of a new memory is an inferred candidate and every other one a merge of
the version before it. That what a request wrote from *was* the last version is
`ReadingsAreVersions` with the compare-and-set again.

### 5.2 `EventIngestion_proofs`

For every set of callers, keys, contents, sources and lists of events, from
`ConstantAssumption`.

| Theorem | States |
|---|---|
| `InvHolds` | `Spec => []Inv` |
| `IngestionTyped` | `Spec => []TypeOK` |
| `EventsAreTraceable` | `Spec => []StoredEventsTraceable` |
| `IngestionImplementsLog` | `Spec => ImplementsEventLog` |

`Inv` says what is committed (`Sound`: each event has an evidence row and each
evidence row its event, no two share a key or a source), what a request has
flushed in each phase (`Held`), and that no flushed row shares a key or a source
with a committed one or with one of another request (`Apart`): the unique
indexes. A commit makes the first from the other two.

For the refinement a second invariant (`AllTold`) says why an answer that was
decided some steps before the commit is still what the log would answer at the
commit. An atomic batch flushed one row for the *first* item of each key (`Begun`),
and what each item is told is `Justified`: created if it is that first item,
replayed if its event was committed or flushed before. Nothing that was committed
is ever changed, so replayed stays right; what is flushed is held through its
index entry, so created does too. At most one request holds a new subject. A
third, `AllTurned`, counts: a request for one event after the other has been told
of exactly the events before the one it is at, so that the log and the service
answer the same event of the same list next, and no request changes its list
while it works on it (`Works`, `AskedStays`). Each step then is a stutter (reads, flushes, waits, roll backs, retries) or the log's
one step: a commit for an event or an atomic batch, or a refusal.

### 5.3 `FeatureEngine_proofs`

For every set of workers, events, extractors, dimensions and releases and any
number of runs.

| Theorem | States |
|---|---|
| `InvHolds` | `Spec => []Inv` |
| `EngineTyped` | `Spec => []TypeOK` |
| `StatesAreTraceable` | `Spec => []StatesTraceable` |
| `StatesAreCurrent` | `Spec => []StatesCurrent` |
| `ReleaseObserved` | `Spec => []ReleaseIsObserved` |

The hard one is the last: a unit of work that lost a race for an observation goes
on without *any* of those that it had flushed, and its run still counts as
succeeded. With one release nothing is missing all the same, as whoever won
stored the observations of the whole release in one commit (`WholeRelease`); so
after the rollback each one is stored, or still ahead in the list (`Extracted`).
With two releases that fails, which is the finding of `feature_upgrade`. A state
stays traceable because a dimension is listed after everything that can be rolled
back (`Collected`, `Aggregated`), and current while one worker does all runs, as
what was listed is then all there is.

### 5.4 `ProfileRefresh_proofs`

For every set of callers and every bound.

| Theorem | States |
|---|---|
| `InvHolds` | `Spec => []Inv` |
| `ProfileTyped` | `Spec => []TypeOK` |
| `VersionsAreMeaningful` | `Spec => []NoMeaninglessVersion` |
| `AnswersAreCurrent` | `Spec => []SeesEarlierWrites` |
| `VersionsOnlyGrow` | `Spec => VersionsGrow` |

The versions are 1 to the latest, each once (`Dense`), and a row that was flushed
is the next one until its transaction ends (`Flushed`), so that one is flushed at
a time (`OneFlushed`). With that, the snapshot whose digest a refresh compared is
still the one before its own when it commits, and `NoMeaninglessVersion` holds.
`NotOlder` follows a refresh through its statements: what it has read is not older
than its beginning; `AddsUp` and `CountsBounded` bound what `Coverage` computes,
which `TypeOK` needs.

### 5.5 `ContextResolution_proofs`

The preferences for every set of memories, targets and places, every order of the
scopes and every `FullScore`, from `PlaceAssumption`, `ScoreAssumption` and
`NoneAssumption`; the contexts for every `Row`, `Behavior`, `Budget` and page
size, any number of commits and refreshes in any phase, from `ContextAssumption`
beside these.

| Theorem | States |
|---|---|
| `ResolutionAccepted` | what is resolved about a target passes the validators |
| `SpeakerPrevails` | it has the polarity of a memory that none outranks, and keeps behaviour to the contrary as a conflict |
| `DiffExplains` | the kind of every change passes `validate_change`, and is "none" exactly when nothing changed |
| `RequestInvariant` | `Spec => []RequestInv` |
| `HardConstraintsAreKept` | `Spec => []HardConstraintsKept` |
| `ProfileIsValid` | `Spec => [](profile \in Profile /\ ValidatorsAccept)` |
| `UserAlwaysPrevails` | `Spec => UserPrevails` |
| `TypeCorrect` | `Spec => []TypeOK` |
| `ReturnedWasInForce` | `Spec => []ShownWasInForce` |
| `BudgetIsFilled` | `Spec => []BudgetFilled` |

The first three split on which of memories and behaviour there are, and on the
polarities. `HardConstraintsKept` speaks of the end of a request only;
`RequestInv` says what must hold all along: the present rows are among those of
`during`, what is listed of a candidate was in force and applied, and a memory
that was a due hard constraint all the time, and did not move, is still a
candidate or, while pages are read, listed or not before the offset
(`PagesAreListed`). Commits keep that, as the memories before it only become more;
and a page that leaves it out is full (`PageIsNext`), so that another follows. The
search keeps such a memory by its kind, the reload since it still fits, the budget
since hard constraints are taken before it is looked at. `ProfileIsValid` and
`UserAlwaysPrevails` take the types of the rows from `RequestInv` and apply the
first two to the one step that writes a profile.

`BudgetIsFilled` is about two folds of the community modules: `Cost`, a sum over
a set, and the loop of `_select_with_budget`. Both are recursive functions, whose
equations hold only if such a function exists, and the library's induction
theorems cannot be instantiated here. So `CountingUp` restates induction for a
*set* of naturals, from the well-foundedness of `<`, and with it: a function that
satisfies the equations exists (`SumExists`, `LoopExists`), a part of a set has the
same sum in a fold of its own (`SumOfPart`), it does not matter which element is
taken first (`SumTakesAny`, `CostAddsUp`), and the loop comes of one turn for each
memory of the order (`SelectionLoops`). Then `Filled` holds after every turn
(`TurnFills`): what was used is the sum of what was taken, and each memory that the
loop passed was taken or would not fit, also not later, as the sum only grows. An
order without repetition of all the candidates names each of them (`SelectSpends`).

### 5.6 `SubjectPrivacy_proofs`

For every number of processes, requests, memories, tokens and creations of the
subject, from `ConstantAssumption`: every request has a process, and the bound on
creations is a natural.

| Theorem | States |
|---|---|
| `TypeCorrect` | `Spec => []TypeOK`: no two processes hold the same token |
| `NothingInherited` | `Spec => []RowsBelongToSubject` |
| `PurgedIsNotServed` | `Spec => []PurgedNotServed` |

Their invariant (`Inv`) adds what a request holds in between (`Fits`): while a
write has flushed its row and not committed, the subject that the row refers to is
there, which a purge keeps since it waits for `Writers`; a context keeps, in
`since`, what had been purged when it began, and has none of it in `read` after the
reload. The reload shows rows of the present subject only, and what was purged
belongs to a creation that is over (`PurgedIsPast`), so the two never meet. That a
held token was given out (`TokensIssued`) keeps the next one different from it.

### 5.7 `EmbeddedEngine_proofs`

For every number of calls, every pool and every set of inputs, from
`ConstantAssumption` and under the hypothesis `OwnTransactions`: each call has a
transaction of its own, as with PostgreSQL and with a SQLite file. It is the
hypothesis of the run as well, and a necessary one: with the one connection of an
in-memory SQLite database, `EngineShared.cfg` finds `CommittedIsStored` violated.

| Theorem | States |
|---|---|
| `InvHolds` | `OwnTransactions /\ Spec => []Inv` |
| `EngineTyped` | `OwnTransactions /\ Spec => []TypeOK`: no more connections than the pool has, and tables where the engine is to make them |
| `UnitsAreAtomic` | `OwnTransactions /\ Spec => []CommittedIsStored` |
| `AuditIsComplete` | `OwnTransactions /\ Spec => []AuditedAsStored` |
| `EntitySeenInOrder` | `OwnTransactions /\ Spec => SeenInOrder` |
| `AnswersAreStored` | `OwnTransactions /\ Spec => AnswerIsStored` |

`Inv` says what each call holds: a connection in a unit of work only, and in its
transaction what it flushed and nothing else (`Flushes`); what it read of the
entity still tells when that was first seen (`Reading`), although others update the
row in between, as no update changes that column; its audit rows are the first of
those that are due (`Logged`). One call at most has flushed the entity's row
(`OneHolder`) or will log its creation (`OneCreator`). The pool is bounded as a call
takes a connection only when it has none. `TablesMade`: the flag is set by an
initializer after it found or made the tables, which nobody drops.

### 5.8 `RemoteClient_proofs`

For every number of coroutines, calls, retries, keys and contents, from
`ConstantAssumption`: the bounds are naturals, and "no content" is no content.

| Theorem | States |
|---|---|
| `ClientInvariant` | `Spec => []Inv` |
| `TypeCorrect` | `Spec => []TypeOK`: no call makes more attempts than it may |
| `WriteAppliedAtMostOnce` | `Spec => []WritesAtMostOnce` |
| `ToldStaysStored` | `Spec => []ToldIsStored` |
| `ErrorsCarryTheirId` | `Spec => []ErrorsNameTheirRequest` |

None of the properties is inductive. `Inv` adds what they rest on: two calls have
different ids and an id that ended is not in use (`IdsDistinct`); a request on
the wire belongs to a call that was begun, and carries its operation
(`WireIsOfCalls`); a write that was not served is in one place only, about to be
sent or on the wire (`WritesOnce`); every answer, also one on its way that the
caller has not read, is true of the log (`AnswersRest`). The last holds although
attempts are served late, since a stored key never changes and is created only
while there is none. The proof first reduces the steps of `Next` to seven shapes
(`StepShapes`) by what they do to the calls, the wire and the log, and then shows
each conjunct of `Inv` for each shape.

### 5.9 What is only model-checked

Liveness, as fairness and ENABLED are out of the prover's reach:
`EveryRequestAnswered`, `OperationsEnd` and `CallsEnd` (of the engine and of the
remote client). The properties of section 4 fail and have nothing to prove.

### 5.10 What the proofs changed in the models

* `CASE` with arms that overlap leaves the choice to `CHOOSE`, which TLC resolves
  in one way and a proof in none: the tests of `List`, `ListCommitted`,
  `ListExtracted` (`FeatureEngine`), `Begin`, `Connect` (`EmbeddedEngine`) and
  `CheckSubject` (`SubjectPrivacy`) are chains of IF, in the order of the code.
* The clock of `EmbeddedEngine` starts at 1, so `MaxTime` is at least 1.
* `Idempotency` says what a batch is told in closed form (`Decisions`: the first
  item of each key decides) and not as a fold over the batch, which nothing could
  be proved about; the run checks it against the statements of the service.

## 6. Not modelled, and why

* Scores, decay, confidence arithmetic, similarity: floating point.
* The interests and the evidence ids of a context: features by score, unions.
* What `create_or_get_subject` answers after a lost insert: its second unit of
  work (`subject_service.py:86`) reads the other's row and changes nothing, so in
  `SubjectPrivacy` the refused write ends.
* The audit rows and retention calls after the commits of events and memories:
  like those of `SubjectPrivacy` and `EmbeddedEngine`.
* The operations of the engine other than `upsert_entity` and the listing: they
  delegate to services that have models of their own.
* Paging in a refresh, in an export and in the listings of the API. `ContextResolution`
  has it for a context, where a memory that is listed twice does no harm. In a
  refresh it does: both copies become candidates of the same target, and
  `ResolvedPreference` refuses a preference that names a memory twice
  (`domain/profile.py:72`), so that a refresh of more than 200 memories fails when
  one is written between two pages. `ValidatorsAccept` speaks of lists without
  repetition.
* Row mapping, validation, HTTP, logging,
  configuration, evaluation, migrations, adapters.
* Providers: an extraction is any list of proposals or an error, embedder and reranker
  change only the order of candidates.
* The fallback without a token store: engine and API always inject one.

## 7. Plan

Done: 1. memories with the ledger; 2. event ingestion with the event log; 3.
features; 4. profile refresh; 5. subject lifecycle and privacy; 6. the remote
client; 7. preferences and contexts; 8. entities, the engine and its pool; audit
rows in `SubjectPrivacy`; lists by pages in `ContextResolution`; 9. proofs of the
safety properties of all of them and of both refinements.

Next:

10. Paging of a refresh, with the memories that it lists twice.
11. The hazards that no property covers yet (`hazards` in `PROJECT.json`).
