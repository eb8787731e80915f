# A verification of ClearFeature's feature platform

ClearFeature is a feature platform: an HTTP API accepts requests to compute features of an
entity from its reports, Kafka carries them to workers, the workers write a serving store
(Valkey) and an append-only history (PostgreSQL), and a metadata writer keeps a durable audit
of what happened. Feature code is published as wheels and bundles that are promoted from
shadow to live. This directory models the parts of it where state is shared or where several
rules must fit together, checks the models with TLC on small instances, and proves the safety
properties of most of them with TLAPS, for every size of the system.

Paths below are relative to `src/fintech_feature_platform/` in the repository.

## 1. The system

```
 client --> API --(compute request)--> online worker --> Valkey: serving keys, result
             |  \                         |      \--(completed)-----> metadata writer
             |   \--> Valkey: status      \--(offline write)--> offline writer --> history
             |              ^------------- all of them update it ---/      |         ^  |
             |                                                             |         |  v
             |                                             (feature updated)-> propagation
             |--(chunk)--> batch worker --> history, Valkey, job status
             |                    \--(chunk processed)--> metadata writer --> PostgreSQL
             \--(score)--> score writer --> Valkey, (offline write)
 files --> landing --> raw metadata, payloads, manifests --> batch jobs, imports --> history
 checkout --> wheel --> bundle --> shadow --> live --> worker start: artifact binding
```

| Component | State | Operations | Hard behaviour | What makes it correct |
|---|---|---|---|---|
| D9 write guard (`fs_core/write_guard.py`, the Lua script in `stores/valkey_online.py`) | none | decide written / recompute / stale / noop | the rule exists twice, in Python and in Lua | both decide alike; freshness never goes back |
| Online store (`stores/online.py`, `stores/valkey_online.py`) | a record per serving key | write, write_many | racing writers, `write_many` not atomic, replays | latest wins; reports stay true; replay is a noop |
| Online worker (`api/online_worker*.py`) | its offset, the request in hand | poll, deadline, compute, write, publish ×2, store result, retry, dead-letter, commit | crash between any two, partition move, failing call, deadline | no request lost; a result implies everything downstream |
| Offline writer (`api/offline_writer*.py`, `fs_core/dedup.py`) | history rows | dedup read, append, announce, retry, dead-letter | check and append are two transactions | no duplicate rows; a committed event is durable and announced |
| Metadata projection (`api/metadata_writer*.py`, `stores/metadata.py`) | one row per request, audit rows | get, merge, upsert, append event, dead-letter | events of a request arrive in any order from different topics, twice, at two writers | status does not regress; converges |
| Request status and hybrid wait (`stores/request_status.py`, five writers, `api/app.py`) | one Valkey entry per request | put, update (get + set), reconcile, wait | lost updates, updates before the entry exists, a durable row that is overwritten, a timeout racing the answer | claims about other stores are true |
| Batch jobs (`api/batch_worker*.py`, `stores/batch_status.py`, `create_batch_job` in `api/app.py`) | the job entry, chunk offsets | submit, publish chunk, set_chunk, append, refresh, finish | racing submissions, resubmission, partial publication, replay of a chunk | finished means durable; the job finishes |
| Batch audit (`stores/batch_metadata.py`) | chunk rows, job row | upsert chunk, recompute job | two transactions per event | the job row follows the chunk rows |
| Reactive propagation (`api/propagation_worker*.py`, `fs_core/propagation.py`) | debounce store, held offsets | observe, wave, chain, flush | offsets held in memory, diamonds, chains, failed wave, rows that cannot be read yet, inputs too old | an update is not committed before it is recomputed; dependents catch up |
| Registry (`fs_core/registry/models.py`, `validator.py`, `loader.py`, `bundle.py`) | none | build, validate, digest | local checks that must imply global facts | no cycle, no live feature on one that is not; a digest stands for a meaning |
| Planner and compute core (`fs_core/planner.py`, `compute/engine.py`, `feature_store.py`) | history, serving keys | plan, resolve, compute, recompute | freshness and availability of derived values, offline first | an accepted plan runs; served values follow history |
| Point-in-time reads, training sets, consistency (`fs_core/pit.py`, `training.py`, `consistency.py`) | none | select the eligible row, classify | late, corrected and recomputed rows; the rule exists in Python and SQL | nothing known only later is used |
| Raw reports (`api/jsonl_ingestion.py`, `fs_core/raw/`, `stores/source_dataset.py`) | metadata, payloads, corrections, manifests | land, correct availability, list items | racing runs with one report_ref, failed puts | what a batch job is given resolves to what was landed |
| Imports and backfill (`api/dwh_ingestion.py`, `table_import.py`, `backfill.py`, `direct_compute.py`) | history, serving keys | read, dedup, append, write, announce | interrupted and run again | a finished import is in history |
| Model scores (`api/model_score_writer*.py`, `model_feature_batch.py`) | serving keys, offline events | post, write, publish | older and newer scores of several features, dying writer | a committed score is served and on its way to history |
| Releases (`cli/artifact.py`, `cli/fsctl.py`, `fs_core/registry/promotion.py`, `runtime/artifact_verifier.py`, `api/artifact_binding.py`) | wheels, release records, bundles, pointers, audit records | publish, promote, roll back, verify at start | racing publishers, death between two writes, edits in between | a version is one wheel; what is served was tested; soak is enforced |
| Batch controls (`api/batch_controls.py`) | pause keys, token bucket | pause, acquire | a chunk polled and then held back | — |
| Runner daemon, readiness; observability, security, settings; other command line tools; in-memory backend | flags, counters | — | — | — |

The Kafka consumers share one discipline, and it decides most of what can go wrong: `poll`
advances a position in the client; a message is committed only when its handler is done; a
handler that fails on infrastructure returns without a commit and the runner simply polls
again. Nothing seeks back. Redelivery happens only when a process restarts or a partition
moves, and starts at the committed offset.

## 2. Modules

| Module | Models | State and actions |
|---|---|---|
| `WriteGuard` | the guard in Python and Lua, the aggregate status | operators only |
| `OnlineStore` | writers calling `write_many` on serving keys | `store` (key → record), `job`, `outcome`, `report` per writer; `BeginWriteMany`, `Write` (one key, atomic as the script is), `Replay`, `EndWriteMany` |
| `LatestRegister` | what the store promises: a register whose freshness never goes back | abstract specification; `OnlineStore` implements it |
| `OnlineWorker` | `process_next`, `_retry_or_dlq`, `_dead_letter` and the handler, one step per external call | `topic`, `owner`, `position`, `committed`; per worker `pc`, `cur`, `outcomes`; `online`, `offline`, `completed`, `results`, `dlq`; `Crash`, `Rebalance`, `Fault` |
| `OfflineWriter` | the offline writer and direct computes on the same history | `history`, `updates`, `dlq`; `Partition` (read) and `AppendRows` (write) are two steps as in the code |
| `RequestMetadata` | `merge_request` and the projection of each event | operators; shared by the next two |
| `MetadataProjection` | the metadata writers on one request | `durable` row; `SelectRequest` and `UpsertRequest` are two steps; `AppendEvent` (before them for a dead letter, after them otherwise), `DeadLetter`, `Commit` |
| `RequestStatus` | the status entry with all its writers, the GET endpoint, the hybrid endpoint | `entry`; `StatusGet`/`StatusPut` are two steps of any process; so are `SelectRequest` and `Upsert` of the metadata writers on the `durable` row; `Reconcile`; `HybridPoll`, `HybridReadResult`, `HybridTimeout` |
| `BatchStatus` | `_derive_job_status`, `merge_chunk` | operators |
| `BatchJobs` | `create_batch_job`, the batch worker and its runner | `entry`, `topic` per worker; per API call `Submit` (reads the entry), `PutJob`, `PublishChunk`, `PutPublishFailed`, `ApiAborts`; the worker's steps |
| `BatchMetadata` | the batch projections | `chunkRow`, `jobRow`; every transaction a step |
| `BatchAudit` | `BatchMetadata` under names of its own, to stand beside `MetadataProjection` in the proofs | an instance; `AuditSpec` is the specification of `BatchMetadata` |
| `Propagation` | emitters, the propagation worker and its runner on one entity | `topic`, `position`, `committed`, `pending` (held offsets), `debounce` (the wave), `history`; `Observe`, `DeadLetter`, `BeginWave`, `ReadInput`, `SkipStale`, `AppendRow`, `Chain`, `CommitHeld`, `Crash`; dates and availabilities of rows are times of the clock `wave_ts` |
| `Registry` | construction, validation, canonical content, planning | operators on a view |
| `ComputeCore` | `_resolve` and `compute` of the engine | operators; a value is the set of reports it rests on |
| `PointInTime` | `select_pit`, the SQL of `get_pit`, training sets, the consistency report | operators on history |
| `FeatureHistory` | a registry loaded and served: reports arrive, workers compute, recompute and score | `view`, `reports`, `history`, `online`, `job`; `Arrive`, `Compute`, `Recompute`, `ScoreModel`; `partition_new_results` (read) and `AppendRows` (write) are two steps; `WriteOnline`, `Die` |
| `RawLanding` | runs of `land_report_rows` that share the raw stores, and the batch items of their manifests | `meta`, `payloads`, `changes`, `manifests`; `GetMeta` and `Upsert` are two steps, as are `StoreManifest` and `AddItems` |
| `FeatureImport` | warehouse import, table import and backfill | `history`, `served`, `topic`, `evidence`, `run`; a step per store call, `RowFails`, `EmitFails`, `RunDies` |
| `ModelScores` | the score endpoint and the score writer | `topic`, `position`, `committed`, `online`, `offline`, `dlq` |
| `Release` | `publish --wheel`, promotion, rollback, image, worker start with its settings (registry file, code provider) | `checkout`, `built`, `blobs`, `release`, `bundles`, `pointer`, `records`, `worker`; publishers and operators die between any two writes |
| `Entrances` | `Release`, `RawLanding`, `FeatureImport` and `ModelScores` side by side | the variables of the four parts and `focus` |
| `OnlineStoreProofs`, `OnlineWorkerProofs`, `OfflineWriterProofs`, `MetadataProofs`, `RequestStatusProofs`, `BatchJobsProofs`, `PropagationProofs`, `EntrancesProofs` | theorems about the module they are named after; `MetadataProofs` is about `MetadataProjection` and `BatchMetadata`, `EntrancesProofs` about `Release` and the three modules `Entrances` adds to it (section 4) | lemmas and inductive invariants; no state of their own |
| `MC*` | instances for TLC | constants only |

`WriteGuard` is used by `OnlineStore`, `OnlineWorker`, `ModelScores`, `ComputeCore` and
`PointInTime`, the last two, with `Registry`, by `FeatureHistory`; `RequestMetadata` by
`MetadataProjection` and `RequestStatus`; `BatchStatus` by `BatchJobs`. `FeatureHistory` is the
composition of the planner, the engine, deduplication, history, the guard and the serving
store; `RequestStatus` that of API, online worker, offline writer and metadata writer around one
entry. Elsewhere the publish of one component is the input of the next (`offline` of
`OnlineWorker` is `Publish` of `OfflineWriter`, and so on); each consumer module lets that input
arrive at any time and, where a redelivered producer would repeat it, more than once.
`Entrances` puts `Release`, `RawLanding`, `FeatureImport` and `ModelScores` side by side: they share
no state, each behaviour is about one of them (`focus`) and leaves the others alone.

Conventions of the models:

- **One step per external call.** Everything between two calls to Valkey, Kafka or PostgreSQL
  runs in one process and is one step; another process can act between two calls. What a
  database does atomically (the Lua script, a `WATCH`/`MULTI` transaction, a single statement)
  is one step.
- **A failing call** (`Fault`) ends the handler the way the code ends it. A publish that raises
  may have been delivered: `PublisherError` is raised on a flush timeout too.
- **Locals are forgotten** when `process_next` returns (`Return`).
- **Data is abstracted** to what a guard reads: a record is its two timestamps, fingerprint and
  availability; a row is the columns the duplicate check compares; a chunk is its state and its
  items; a request is a name; a wheel is its version, code and definitions, and two have the same
  hash if these are the same; a computed value is the set of reports it was computed from, which
  is what lets `NoLookahead` and `NoStaleOverwrite` speak of where a value came from.
- **Wrong versions.** Definitions whose comment begins "Wrong version" are plausible bugs. They
  take no part in any specification; each property is shown to fail when the definition they
  belong to is replaced by them.

## 3. Runs

Passing runs, with what they establish:

| Run | Instance | Shows |
|---|---|---|
| `online_store` | 2 keys, 2 writers, 7 results covering each branch of the guard, 2 calls in all | `LatestWins`: the store holds something at least as fresh as all that was offered. `ReportTruthful`: an aggregate status is still true after others have written. `TwinsAgree`: Lua and Python decide alike. `ReplayIsNoop`, `ImplementsLatestRegister`, `TypeOK`. |
| `online_worker` | 2 requests (one that never computes), 2 workers, 2 features, 1 crash, 1 partition move, 1 failing call, 2 attempts | `NoSilentLoss`: a request behind the committed offset is settled. `ResultImpliesDownstream`: a stored result means the values are served and both events published. `ExpiredIsFinal`, `EveryRequestSettles`. |
| `offline_writer` | 3 events (good, poison, one on which the handler raises), 2 workers, 1 direct compute of the good rows or of an exact duplicate without a fingerprint, 1 crash or partition move, 1 failing call | `NoDuplicateRows`, `CommittedIsSettled` (in history and announced, or dead-lettered), `EveryEventSettles` |
| `metadata_projection` | 4 kinds of event of one request, 2 writers, a raw-report conflict, 1 redelivery, 1 failing call | `TerminalNeverRegresses`, `Converges`, `OutcomeProjected` |
| `request_status` | five requests, one at a time: handled well or not with a dying consumer; handled well with a lost status call and a client that asks; any outcome with a client in the hybrid endpoint; handled well, or expired with a dying writer, while two metadata writers project it | `ClaimsAreTrue`: whatever stale copy was put back, what the entry, every GET and every hybrid answer say of other stores is so, of the durable row as long as no upsert has replaced a row it had not read. `NoPermanentFalsePending`. |
| `batch_jobs` | 2 chunks of 2 items (one bad); five jobs: inline on one partition and on two, from a manifest with and without an online refresh, and one no worker knows the view of; 2 calls that may race, 1 crash of API or worker, 1 failing call or pause | `FinishedIsDurable`, `NoChunkLost`, `JobFinishes` |
| `batch_metadata` | 2 chunks, one with conflicting results, 2 writers, 1 crash or failing call | `JobFollowsChunks`, `JobIsAudited` |
| `propagation` | a base feature, a diamond above it whose top does not take an input older than 2, a dependent that also reads a feature it does not react to, and a model feature that the daemon skips; rounds of 2; 2 updates from late, corrected and old-version rows, one available only later and one dated in the future; a poison event; 1 crash or failing wave | `HeldUntilRecomputed`: nothing behind the committed offset that could be recomputed still is to be. `CaughtUp`: at rest every dependent whose inputs can be read and are not too old has a row, none of a later date, that was computed from the latest of its reactive inputs. `PropagationEnds`. |
| `entrances`, `Release` | 2 publishers with 2 codes and 2 registries of one version, 1 edit, every image and setting, 3 governance commands, 1 day of soak, 2 platform versions, 1 death | `OneWheelPerVersion`; `ServedIsTested`: the definitions a running worker serves are the promoted bundle's, its code is that of the bundle's tested wheel, and the platform's version is admitted; in an image run with the settings it was built with, code and definitions passed the golden tests together; `SoakEnforced` |
| `entrances`, `RawLanding` | 3 runs over overlapping files (new, duplicate, conflicting, malformed, corrected, future-dated), one with `fail_fast`, 2 interruptions | `JobItemsResolve`: each item of a batch job over the manifests, of one or of several, resolves to the content that was landed; `AvailabilityAudited` |
| `entrances`, `FeatureImport` | one run of each kind over overlapping rows, 2 interruptions | `DurableFirst`: what is announced, served or reported as imported is in history |
| `entrances`, `ModelScores` | 5 writes of older and newer scores of 2 features, one for history only, one unusable; 4 posts, 2 interruptions | `ScoresSettled` |
| `feature_history` | every dependency graph over three live features under two depth caps, a chain under all lifecycles and kinds, odd definitions (bad pins, unknown names, duplicates), and a feature with two edges that stop the engine differently, required or not, in both orders: 1765 candidate views; three of those that load are run with 2 workers, 2 sources with and without availability, 3 reports, future-dated ones too, 2 computations and 1 death | `LoadedIsSound`, `PlansRun`, `DigestIsMeaning` of every view that loads; `NoLookahead`, `PitTwinsAgree`, `OnlineFollowsHistory`, `NoStaleOverwrite` of those that run |

Each property is stated in words above its definition. Several carry a condition: `faults = 0`,
`rebalances = 0`, `reruns = 0`, `pauses = 0`, `~overwritten`, a row that could not be read when it was
announced, or another excluded case. These are not
conveniences of the model: each of them is needed, and section 5 says what happens without it.

The component modules also state a type invariant, which is proved (section 4); `FeatureHistory` has
none.

Violated runs, each contradicting a sentence of the repository:

| Run | Property | What happens |
|---|---|---|
| `online_worker_loss` | `UncommittedIsReplayed` | A call fails, `process_next` returns without a commit, the runner polls the next message and its commit passes the failed one. The runbook says an uncommitted event is re-polled. The same holds for the offline writer (`CommittedIsSettled` without `faults = 0`), where rows are lost from history, and for the score writer. |
| `promotion_soak` | `SoakAlwaysEnforced` | Bundle A has soaked in shadow, the shadow stage is rolled back to bundle B, and B is promoted to live the same day: the rollback kept the clock that A started. |

### Bounds

Two workers are enough for an old and a new owner of a partition to hold the same message; two
requests for a message and one behind it; one crash for a redelivery, which then interleaves with
everything else; one failing call for every error path, each of which ends a `process_next`.
`MaxAttempts = 2` gives a retry and a dead letter at the limit. Two chunks, or two serving keys, are
enough for a partly finished job or write. A round of two updates in `propagation` lets one wave
coalesce two updates and leaves chained ones for the next; its clock starts at 2 and moves by 1 per
wave, so that a row of date 1 becomes too old for an edge with limit 2 in the second wave, and rows
dated 6 or available at 5 cannot be read when they are announced. Three governance commands are a
promotion to shadow, one to live and a command in between. Two reports of one source and one of
another are enough for a computation from old inputs to finish after one from new ones. The results
of `online_store` are chosen so that each pair decides differently. The bounds are constants
(`Max...`) that appear only in guards of the environment's actions; crashes and partition moves
share a bound in `OfflineWriter`, crashes and failing calls in `BatchMetadata`, `Propagation`,
`RawLanding`, `FeatureImport` and `ModelScores`, because a combination of many exceeds what TLC
explores in minutes. Failing calls and pauses share one in `BatchJobs`. `online_store` uses the
symmetry of keys and of writers, `feature_history` that of workers, `entrances` that of publishers
(their temporal properties are action formulas); the others use none.

### Fairness

`FairSpec` asks weak fairness of the steps of a worker process (`Step(w)`): the runners loop
for ever and are restarted when they die, and a step that stays possible is taken. In
`Propagation` the end of a round (`BeginWave`) is asked for as well: a round is bounded by its
number of polls, so it ends even if updates keep coming. In `BatchJobs` it covers the API calls in
progress, in `RequestStatus` only the client that keeps asking. Nothing is asked of the
environment: no crash, failure, submission or partition move need happen. Within a step with a
failing alternative the choice is free, and the number of failures is bounded. `entrances` and
`feature_history` check safety only and ask for none.

`CHECK_DEADLOCK FALSE` is used throughout: the systems have finitely many requests and come to
rest when all are done.

## 4. Proofs

TLC checks the instances of section 3. The theorems below hold for every value of the constants:
any sets of requests, features, chunks, writers or workers, any number of crashes, partition
moves, failed calls, submissions and retries. Each has the same shape: an inductive invariant
that implies the property, one lemma that every step preserves it, one step of the proof per
action. The invariants were model-checked on the instances before they were proved. In every
module `TypeCorrect` comes first (`Spec => []TypeOK`); it also says what the other proofs lean on,
such as that a worker's offsets stay within its topic and that its locals are set only while it
handles a message.

| Module | Theorem | Property |
|---|---|---|
| `OnlineStoreProofs` | `TwinsDecideAlike`, `TwinsAlwaysAgree` | Lua and Python decide alike on every input; `TwinsAgree` |
| | `LatestAlwaysWins`, `ReportsAreTruthful` | `LatestWins`, `ReportTruthful` |
| | `ReplaysAreNoops`, `StoreImplementsRegister` | `ReplayIsNoop`, the refinement `ImplementsLatestRegister` |
| `OnlineWorkerProofs` | `ResultsAreBackedDownstream` | `ResultImpliesDownstream` |
| | `NothingIsSilentlyLost`, `ExpiryIsFinal` | `NoSilentLoss`, the action property `ExpiredIsFinal` |
| `OfflineWriterProofs` | `RowsAreSafe` | no row is lost between check and announcement |
| | `CommittedEventsSettled`, `RowsAppendedOnce` | `CommittedIsSettled`, `NoDuplicateRows` |
| `MetadataProofs` | `TerminalIsKept`, `ProjectionConverges` | the action property `TerminalNeverRegresses`; `Converges` |
| | `JobRowFollows` | `JobFollowsChunks` |
| `RequestStatusProofs` | `StatusIsTrue` | `ClaimsAreTrue` |
| `BatchJobsProofs` | `FinishedChunksAreDurable`, `ChunksAreNotLost` | `FinishedIsDurable` (and nothing is served that history lacks), `NoChunkLost` |
| `PropagationProofs` | `PropagationInvariant` | the inductive invariant of the two below |
| | `UpdatesHeldUntilRecomputed`, `DependentsCatchUp` | `HeldUntilRecomputed`, `CaughtUp` |
| `EntrancesProofs` | `VersionsAreImmutable`, `ServedCodeIsTested`, `SoakIsEnforced` | `OneWheelPerVersion`, `ServedIsTested`, the action property `SoakEnforced` |
| | `JobItemsAlwaysResolve`, `AvailabilityAlwaysAudited` | `JobItemsResolve`, `AvailabilityAudited` |
| | `ImportsAreDurableFirst`, `ScoresAreSettled` | `DurableFirst`, `ScoresSettled` |

The conditions in the properties (`faults = 0` and the like) are those of section 5. The theorems
are about the models of section 2, and hold under these conditions and the assumptions below.

### The arguments

**Online store.** `TwinsDecideAlike` holds provided that equal instants of availability are written
in the same UTC offset. Its content is in the encodings: a missing maximum is sent as `data_ts`, a
missing or untrusted availability as the empty string, and the script reads the stored
availability only when its source is trusted. `LatestWins` is inductive with `TypeOK`: a write
keeps the fresher of two records (`GuardKeepsFreshest`, from the totality of the order,
`TupleOrder`), and every step leaves a key alone or guards it (`NextStoreStep`). `ReportTruthful`
speaks of the aggregate only and is not inductive; the strengthening adds `OutcomesTrue` (each
key's own outcome is still true of the store) and `ReportsAreAggregates`.

**Online worker.** A stored result says nothing of how it came about, so the invariant says it of
the worker: `Reached(w)` states, for each step of the handler, what its request has already left
downstream. It survives other workers because what is published stays and served freshness never
goes back (`Monotone`, from the guard). `NoSilentLoss` needs `NothingSkipped`: not only the
messages behind the committed offset, but those before the message of *every* worker, a former
owner included, are settled or retried further on; that is what makes a late commit of a former
owner harmless. A failing call breaks it, which is the run `online_worker_loss`. `ExpiredIsFinal`
needs that, until the partition moves, only the owner handles messages and that it is not past
the deadline check with a request already announced as expired.

**Offline writer.** `RowsSafe` ties the set a worker found new to history at the time of the
append, over the gap between the two transactions: history only grows, so what was found there
still is. `CommittedIsSettled` combines it with `NothingSkipped` as above. `NoDuplicateRows` needs the
converse, that what was found new is *still* new (`OnceInv`), which holds only while nobody else
appends.

**Metadata.** `MergeFacts` is the algebra of `merge_request`, column by column: a terminal status is
replaced only by another outcome, a column that is set is never cleared, and each column comes
from one of the two rows. `TerminalNeverRegresses` follows at once. `Converges` needs two halves that
only together are inductive: the row says nothing that no event said (`Sound`), and all that
the committed events said and those past their upsert (`Complete`); any order and number of
deliveries preserve them.

**Request status.** An update of the entry is a get and a put, so an old copy can come back at any
time. The invariant therefore speaks of all copies at once, the stored one, those read and
not yet put back and the changes on their way: none of them has a value in `Premature`, the set of
claims that the other stores do not back yet. These stores only grow (`Grows`), the
durable row as long as no upsert has replaced a row it had not read (`overwritten`), so the set only
shrinks, and whichever copy wins, its claims stay true. The rest of the invariant says that the
worker's steps come after the publications they presume and that what a client was told came from
a copy or from the durable row.

**Batch.** `FinishedIsDurable` needs `Reached(w)`: the items a worker has passed are stored or bad,
then all are stored, then all announced. Replays, racing calls and resubmissions preserve it because
nothing is removed: a call only puts an entry in which no chunk is finished (`ApiTouches`).
`NoChunkLost` needs `InStep(w)`: without failures and pauses a worker is at most one chunk ahead of
its committed offset. In the audit, `JobFollowsChunks` is about the end of the projection only; the
invariant says that the job row lags behind the chunk rows only while some writer is between an
upsert and the write of the derived status (`Recomputing`), or before anything was projected, and
that no event is in two hands.

**Releases.** `OneWheelPerVersion` needs what a publisher has established at each step: its wheel
passed its tests, then it is in the store; and that a claimed version never changes hands
(`StoreGrows`). `ServedIsTested` needs what the gate saw when the worker started, and that bundles
and releases are never removed; the gate compares the registry file with the bundle only, which is
why code and definitions are known to have been tested together only where the file is the wheel's.
Its last part, that the platform's version is admitted, compares `_compare_versions` and
`core_version_satisfies` with the order of versions defined independently (`Later`, `Admits`:
versions of any length, missing components zero); `CompareIsOrder` and `SatisfiesIsAdmits` show that
they agree. `SoakEnforced` needs that the shadow pointer's clock was set no earlier than its bundle
entered shadow, until a rollback (`ClockInv`).

**Propagation.** `HeldUntilRecomputed` and `CaughtUp` rest on one inductive invariant. Its first
half ties the topic to history: an announced row is in history, and the wave that handles its
announcement sees it if it could be read when it was computed (`EventsDurable`, `PresentVisible`); a
row that others react to and the wave does not see, because it was computed after the wave began, is
announced further on (`UnseenAnnounced`); a dependent's row was computed from rows that history
still has (`RowsComputed`). The second half follows a round: the held offsets are those from the
committed offset to the position (`HeldOffsets`), which is what makes a crash harmless; each input
read for the dependent in hand is at least as late as every row announced so far (`UnitRead`); and
each observed update is recomputed for its dependents or waits in the debounce store
(`ObservedHandled`; an input that is not too old now was not when an earlier wave read it,
`FreshLater`), from which `HeldUntilRecomputed` follows when a wave commits. `CaughtUp` speaks of
the system at rest; on the way there a dependent may be stale in two ways, because it is itself due
(pending or announced) or because an input of it is (`StaleIsDue`): the second case is what a
diamond needs, where a dependent is recomputed before one of its inputs. That input must be sure to
announce its row: it is in hand, or none of its own inputs can become too old before it is
recomputed (`InputDue`). At rest nothing is due, so everything is up to date.

**Landing.** Runs race on one `report_ref`, so the invariant says what a run may still rely on
between its read of the metadata and its own writes: content and date of a report never change
once they are there, only its availability does (`SameReport`); payloads are where the metadata
says, with its content (`PayloadsMatch`); and the items of a run in progress, like those of its
manifest, resolve (`AllResolve`). `JobItemsResolve` follows for every selection of manifests.

**Imports.** `RowsWritten` says what a run has in history at each step: the groups it has passed
and what it found new in the group in hand, over the gap between duplicate check and append;
`RunKind` that a backfill has stored the raw report first. History only grows, so other runs and
interrupted ones disturb neither.

**Scores.** As in the online worker, `ScoreReached` says what the message in hand has left behind,
and `position` is at most one ahead of `committed` while no call has failed; served freshness
never goes back, so what is settled stays so.

**Side by side.** The lemma `EachPartByItself` shows that a step of `Entrances` is a step of one
part and a stutter of the three others; the theorems about the parts carry over.

### Assumptions

Each is a named ASSUME of the module or, for the parts of `Entrances` and `BatchAudit`, of that
module, evaluated by TLC on the instances.

- Bounds are natural numbers, sets that must not be empty are not, constants have their types;
  the absent record is not a result (`Absent`), as Valkey's nil is no record.
- `OfflineWriterAssumption`: the rows of an event are finitely many, and at most one per feature:
  the planner removes repeated names (`fs_core/planner.py`) and the engine returns a mapping from
  features to results, which the event carries.
- `BatchJobsAssumption`: a job has at least one chunk; `create_batch_job` refuses a scope without
  eligible items before it stores anything.
- `PropagationAssumption`: a pin is the version the registry has and no feature depends on itself,
  both of which the validator checks (`fs_core/registry/validator.py`); names are unique, and the
  features that emitters write are not dependents. Longer cycles, which the validator also
  refuses, need not be excluded.
- `LandingAssumption`, `ImportAssumption`, `ScoresAssumption`: rows, groups and scores have their types; an
  import has at least one group and a score write at least one score. `EntrancesAssumption` is
  their conjunction.
- `ReleaseAssumption`: versions are sequences of numbers, requirements sequences of clauses with
  one of the five operators that `core_version_satisfies` knows.

### Model-checked only

- Liveness (`EveryRequestSettles`, `EveryEventSettles`, `OutcomeProjected`, `NoPermanentFalsePending`,
  `JobFinishes`, `JobIsAudited`, `PropagationEnds`): fairness and ENABLED are out of the prover's reach.
- `FeatureHistory` and what it is built on: `LoadedIsSound`, `PlansRun` and `DigestIsMeaning` are about
  recursive walks over dependency graphs, `NoLookahead`, `PitTwinsAgree`, `OnlineFollowsHistory` and
  `NoStaleOverwrite` about values those walks compute and about folds over history. They need
  induction over data, which the installed provers do not do.
- The two violated runs, which show that a property does not hold.

## 5. Observations

What the conditions in the properties stand for, each seen as a counterexample when the
condition is dropped, and what else the translation met.

Serving and requests:

- *One instant, two offsets* (`SpelledAlike` in `TwinsAgree`): `available_at` keeps the UTC offset it
  came with; `decide_write` compares instants (noop), the script compares ISO texts
  (written_recompute), so a record is rewritten although nothing was corrected. The docstring at
  `fs_core/write_guard.py:3` says the stores "cannot drift apart".
- *Failed call, then commit* (`faults = 0` in `NoSilentLoss`, `CommittedIsSettled`, `ScoresSettled`
  and the liveness properties): see `online_worker_loss`.
- *Zombie worker* (`rebalances = 0` in `ExpiredIsFinal`): a worker that lost its partition in
  mid-request publishes values after the new owner announced `deadline_expired`.
- *Expired after write*: the deadline is checked on each delivery, so a request that wrote and
  whose worker died before the commit ends as `deadline_expired` although
  `docs/03_api_contracts.md:21` says such a request performed no write. Conversely the check is
  made once, at the start, so the comment at `api/app.py:1739` ("past the absolute deadline, the
  request cannot produce a fresh online result") does not hold of a request in progress: this is
  why `ClaimsAreTrue` says nothing of a hybrid answer that comes from the clock.
- *Completed without a result*: the offline writer sets `completed` (`offline_writer_runner.py:191`)
  possibly before the online worker has stored the result; a hybrid caller then gets `completed`
  with `result_missing`. `stores/request_result.py:12` says "``status=completed`` must imply the
  request-scoped result is readable"; this is why `ClaimsAreTrue` takes `online written`, and not
  `completed`, for the claim that the result is there.
- *Double append* (`rebalances = 0 /\ reruns = 0` in `NoDuplicateRows`): two processes read
  history before either appends. There is no unique constraint.
- *Lost merge* (`~overwritten` in `MetadataProjection`, `BatchMetadata` and, in `ClaimsAreTrue`,
  `RequestStatus`): an upsert replaces a row that another writer changed after it was read;
  `accepted` can return over `completed`, and the online status be unset while the entry and the GET
  endpoint say that the metadata is written.
- *Status overwritten*: `_mark_metadata_written` puts back the entry it read, and with it a status
  that was replaced meanwhile.
- *Failed never written*: the terminal projection of a dead-lettered request is `failed`, which
  neither the writer nor the GET endpoint takes as proof, so `metadata_write_status` stays
  `pending`.

Batch:

- *Passed over while paused* (`pauses = 0` in `NoChunkLost`, `JobFinishes`): a chunk that was polled
  and then held back is not polled again; the next chunk's commit covers it. The docstring of
  `run` in `batch_worker_runner.py` says the same message would be re-polled immediately.
- *Replayed inline item* (the death in `OnlineFollowsHistory`): `FeatureStore.compute` with
  deduplication writes online only what was new in history, so an item whose worker died between
  the two is never served.
- *Dead-lettered chunk* (`valid` in `JobFinishes`): no chunk state is set, the job stays running.
- *Racing submissions* (`restarted /\ crashes > 0` excluded in `JobFinishes`): two calls of one key
  that both read no job both put it and publish all its chunks (`api/app.py:1426`, `:1515`). The
  later put sets a job whose chunks are done back to the start; the second copies of the chunks
  repair that, but a call that dies between its put and its publishes leaves the job unfinished for
  ever, although the other call was answered `accepted` and every chunk was processed.
- *API death* (`Published` in `JobFinishes`): a submission that dies after the entry is stored and
  before the last publish is answered `accepted` when it is repeated.
- *Resubmission after a failed publish*: a worker's update re-derives `running` over
  `publish_failed`, and the identical resubmission is answered `accepted` without publishing
  (`api/app.py:1427`; the comment above it says such jobs are retryable).
- *Audit behind its chunks* (`interruptions = 0` in `JobFollowsChunks`): the audit writer dies between
  chunk row and job row; the replay is recognised as identical and returns before the job row is
  recomputed (`stores/batch_metadata.py:486`; its docstring claims replay safety).

Propagation:

- *Failed wave* (`faults = 0` in `HeldUntilRecomputed`, `CaughtUp`): the wave has drained the
  debounce store, and the next successful flush commits the held offsets after it; the docstring
  of the runner ("Only then are the held offsets committed") and the comment "next round replays
  (safe)" do not hold in a process that goes on.
- *Dead letter* (`dlq = {}`): its commit covers the held offsets before it; a crash then loses them.
- *Rows that cannot be read yet* (`OnTime`, `Present`): a wave reads history at its own time. An
  announced row that is dated in the future, or whose source says it is available only later, is
  passed over, or leaves its dependents skipped; the offsets are committed all the same
  (`propagation_worker.py:185`), and nothing looks again when the row becomes readable, until
  another update of an input arrives.
- *Inputs too old* (`Fresh`): an input older than `max_input_age_seconds` of a required edge skips the
  dependent, with the same commit; the dependent keeps the row it had.
- *Appended, never announced* (`AnnouncedAgain`): a crash between the append of a dependent and its
  announcement is repaired by the redelivery, which recomputes the dependent and announces it. If an
  input has become too old meanwhile the redelivery skips it, and what depends on it in turn is not
  told of a row that is in history.
- *A value that returns*: a correction back to an earlier value of the same date is a duplicate in
  history (`fs_core/dedup.py`) and is not stored, for a base feature and for a dependent. Among
  the rows of one date the last one computed may therefore hold the value that was corrected away;
  `CaughtUp` says that the right row exists and that none has a later date, not that it is the
  last.
- *Input that is not reactive* (`Ready` in `CaughtUp`): a dependent that misses only an input over a
  non-reactive edge is not recomputed when that input arrives.

Compute, history and point in time:

- *Unplanned raise* (`unsupported` in `PlansRun`): a feature with nothing but optional
  dependencies, all missing, ends in `min([])`; a udf on a score of an outside model passes
  validation and planning and then raises.
- *Order of the edges* (the second alternative in `DigestIsMeaning`): the digest sorts the edges of a
  feature, the engine takes them in the order of the file and stops at the first that fails
  (`compute/engine.py:146`, `:162-165`). When one edge is too old and the source of another is missing,
  the order decides whether the feature is skipped or the request raises. A computed value never
  differs.
- *Future-dated report* (the second alternative in `NoLookahead`): a report may be dated after its
  arrival (`models.py:336-343`, "odd but legal"). A row of two reports bears the date of the older
  one, so `is_pit_eligible` lets it be selected at an observation before the date of the other. The
  report had arrived, or was declared available, by then all the same.
- *Any missing dependency*: `compute_dependent_from_offline` returns None for an optional one too,
  though its docstring speaks of required ones.
- *Stale overwrite* (features with dependencies, or of three sources, excluded in
  `NoStaleOverwrite`): the guard compares the minimum and maximum of the inputs' dates; with more
  inputs a result that rests on older reports can compare as fresher.
- *Availability*: a feature's availability is unknown as soon as one input's is, so a source's
  claim of a later availability is replaced by the time of the computation. A correction to a
  later availability leaves the earlier row eligible. The safety gap is compared with the oldest
  input only. For these reasons `NoLookahead` accepts a report that was already in the platform's
  hands at the observation.

Landing, imports, scores:

- *Nothing announced again*: when the announcement of a warehouse import fails, the comment at
  `dwh_ingestion.py:229` says "an idempotent rerun re-emits and completes"; the rerun finds only
  duplicates and emits nothing. The same for `table_import.py:290`. A table import or a backfill
  that dies between append and online write never writes those rows online.
- *Two transactions*: manifest and items of a landing are stored one after the other; metadata
  stays when the payload put fails; an insert race rejects an identical row; racing corrections
  break the chain of old and new values in the audit (its last entry is still right).
- *Same-date correction of a score*: a noop online, while history gets it.

Releases:

- *Inherited soak* (`ShadowRolledBack` in `SoakEnforced`): see `promotion_soak`. Pointer and record
  are two writes: an operator that dies in between leaves a pointer no record explains.
- *Rollback*: a rollback by digest to live asks for no approval, and without a bundle store not
  for the existence of the bundle either.
- *Publication*: definitions and platform requirement come from the checkout, not from the wheel;
  the golden tests of the wheel run on the registry it contains.
- *Registry path and provider* (`as_built` and `BuiltIn` in `ServedIsTested`): a worker serves the
  registry file that `FSP_REGISTRY_PATH` names (`api/backend.py:167`). The gate compares its digest with
  the bundle (`api/artifact_binding.py:127`) and the wheel with the bundle, but not the file with the
  wheel: code and definitions that were never tested together can be served when the bundle was
  published from an edited checkout. Without `FSP_UDF_PROVIDER` the provider check is skipped
  (`:135`) and the platform's own functions are served.

## 6. Not modelled

- Expiry of status entries and results (TTL), and the arithmetic of the token bucket: time is
  left out of the modules that would need it.
- The projections of the metadata writer that only insert (model scores, offline audit rows).
- JSON and YAML encoding, SQL text, hashing, pip and subprocess handling, reading of tables and
  mapping of columns, cohort files and output formats: stateless conversions that no property
  here depends on, beyond what section 2 says of data.
- The runner daemon (a flag read between two messages; a stop there is one of the crashes of the
  worker modules), readiness, observability, security and settings: no protocol state.
- The in-memory backend, the acceptance and development scripts and the remaining command line
  tools: stand-ins for the stores that are modelled, and sequential front ends.

## 7. Plan

Models: sections 1 to 3 are as far as the repository's own logic goes; a token bucket over a
bounded clock and the expiry of status entries would be the next additions.

Proofs: every safety property of the runs is proved except those of `FeatureHistory`. The recursion
in `Registry` and `ComputeCore` is written with recursive functions, so lemmas about the operators
around it remain possible; what the walks themselves compute needs induction over data.
