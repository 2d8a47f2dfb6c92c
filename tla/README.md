# Formal models of axiomedge

axiomedge is a knowledge platform: documents are ingested into vector and graph
stores, searched, and distilled into small models that run on machines at the
edge. This directory holds TLA+ models of its protocols, the TLC
configurations that check them, and TLAPS proofs about them. Every definition
is translated from the code below `src/` of the repository; `PROJECT.json` maps
each one to its lines.

## 1. The system

| Part | State | Operations | Talks to |
|---|---|---|---|
| Distill build pipeline (`api/routes/distill_builds.py`, `jobs/distill_jobs.py`, `distill/build_executor.py`, `distill/service.py`, `distill/repositories/build.py`) | build rows in PostgreSQL, a work directory per build | trigger, reset to base model, pre_train and post_train jobs, two cron sweepers | arq queue, S3, EC2 |
| GPU trainer (`distill/gpu_trainer.py`, `scripts/ops/gpu_boot_train.sh`) | training folders in S3, one EC2 instance | upload data, start the instance, check once; list, train, upload, shut down | polled by the training sweeper; never writes the database |
| Model deployment (`distill/deployer.py`, `api/routes/distill_builds.py`, `distill_edge.py`) | `manifest.json` and GGUF objects in S3, `deployed_at` and `s3_uri` of the rows | pipeline deploy, deploy, rollback, delete, set app version | edges poll the manifest |
| Edge sync and server (`edge/sync.py`, `edge/server.py`, `edge/provision.sh`) | `models/current`, `staging`, `rollback`; the loaded model and its cached version | check and update, roll back, reload, start; update sources, push heartbeat, upload logs | manifest over HTTP, server on localhost |
| Edge fleet registry (`distill/repositories/edge_server.py`, `api/routes/distill_edge.py`) | one row per store with two pending flags; the released sources of the edge's programs | heartbeat, request update, mark stale, release | answered to the sync program |
| Edge log collection (`edge/sync.py`, `distill/edge_log_collector.py`) | `queries.jsonl` on the edge, one object per store in S3, rows | rename, upload, append back; read, delete, save | presigned URL, PostgreSQL |
| Bulk upload (`api/routes/uploads.py`, `jobs/upload_jobs.py`) | session rows with counters, objects in S3 | init, finalize, ingest job, orphan cleanup | arq queue, ingestion pipeline |
| Document ingestion (`pipelines/ingestion.py`, `ingestion_extras.py`, `pipelines/dedup/dedup_pipeline.py`, `stores/redis/dedup_cache.py`) | chunks in Qdrant, nodes in Neo4j, hashes in Redis, an index in the API's memory | ingest one document: dedup, two writers, register | every source of documents |
| File ingest jobs (`api/routes/rag.py`, `jobs.py`, `pipelines/jsonl_checkpoint.py`) | one JSONL checkpoint per knowledge base, job status in Redis | upload, re-ingest, cancel | ingestion pipeline |
| Connector syncs (`api/routes/data_sources.py`, `data_source_sync.py`, `me_data_sources.py`) | a row per source, a run record, a fingerprint of the remote | trigger, edit, file ingest; the sync task of each kind of source | ingestion, OCR instance |
| OCR instance (`data_source_sync.py`) | an EC2 instance, its address in Redis | start, wait, use, stop | Confluence syncs |
| Answer cache (`stores/redis/multi_layer_cache.py`, `l1_memory_cache.py`, `l2_semantic_cache.py`, `redis_cache.py`) | a memory per API worker, a semantic and an exact cache in Redis | look up, promote, store, clear after an ingest | search routes |
| Job queue (`jobs/worker.py`, `jobs/queue.py`; arq) | jobs in Redis | enqueue; run, rerun after a worker death | all the above |

The rest (search and ranking, parsing, chat, graph schemas, feature flags,
authentication, dashboards) is listed in `PROJECT.json` with the reason each is left out.

### What is hard about it

* *The database is the only thing the pipeline's actors agree on*, and they
  write it in short transactions with no lock between them. Only
  `create_unique` takes one (an advisory lock held over a count and an insert).
* *Rows are committed before jobs are enqueued*, and arq runs a job again when
  its worker dies but not when it raises or exceeds `job_timeout`.
* *The GPU instance knows nothing of the database.* Its script finds work by
  listing S3, S3 uploads come in any order, the instance may vanish, and the
  sweeper learns of all this from two reads that are not atomic.
* *Three places say which model is out*: the manifest, the objects it points
  to and `deployed_at`. Five operations write them step by step, overlapping.
* *Ingestion writes two stores at once, and remembers what it stored in two more
  places*: a Redis set that outlives the process and an index that does not.
* *Nothing keeps two syncs, two jobs or two sync runs of one resource apart*:
  they share a row, a checkpoint file, a directory or an EC2 instance.
* *Most handlers catch six or seven classes of exceptions*, and the clients of
  Redis, HTTP, S3 and the database raise others: at most steps a call can end
  in the middle with nothing put right.
* *The edge replaces its model with three file operations* and may lose power
  between any two; its server reads the same directory when it likes.

### What makes each part correct

* Pipeline: nothing is released that did not pass the evaluation gate; the gate
  sees what the GPU finished; triggered builds of a profile do not overlap; a
  training result is final; every build that is handed to the GPU, or is in a
  post-train stage, leaves it again.
* Deployment: after operations that were not overlapped, the regression
  baseline, the manifest and the objects agree, whatever happened earlier; a
  deploy keeps the app version and an app release keeps the model.
* Edge: what can be loaded was verified; rollback is an earlier model; a whole
  model survives a cut; a run that reports success is true; an update of the
  programs leaves one that works to come back to; a requested update is not
  forgotten; a logged query is kept or sent.
* Ingestion: what is answered or registered as stored is whole in both stores;
  who is refused as a duplicate has a real double; a completed job accounts for
  its files; a crash costs a bounded number of parsed documents.
* Syncs: a source that says it is syncing is being synced; what a fingerprint
  lets the next sync skip was ingested; a sync that has the OCR instance to
  itself is served.
* Cache: an answer fits its question through every layer; what survives an
  invalidation was on its way when it ran.

## 2. Modules

| Module | Models | Status |
|---|---|---|
| `BuildPipeline` (`MCBuildPipeline`) | pipeline, sweepers, GPU instance, as one specification because they meet only in shared state | checked |
| `BuildPipeline_proofs` | type correctness; the release gate, serialization, the trainings on the GPU instance | proved |
| `ModelDeploy` | publication of models | checked |
| `ModelDeploy_proofs` | type correctness and its four invariants | proved |
| `ModelSlot` | what an edge machine promises about its model, abstractly | implemented by `EdgeSync` |
| `EdgeSync` | the model of one edge machine | checked; refines `ModelSlot` |
| `EdgeSync_proofs` | type correctness, three invariants, the reload's report, the refinement | proved |
| `EdgeFleet` | the programs of one edge machine, its row at the centre, releases | checked |
| `EdgeFleet_proofs` | type correctness and its four invariants | proved |
| `EdgeLogs` | the query log from the server's threads to the rows | checked |
| `EdgeLogs_proofs` | type correctness and its two invariants | proved |
| `BulkUpload` | one upload session | checked |
| `IngestContract` | what the ingestion pipeline promises its callers, abstractly | implemented by `DocIngest` |
| `DocIngest` (`MCDocIngest`) | the ingestion of documents, dedup, restarts | checked; refines `IngestContract` |
| `DocIngest_proofs` | type correctness, the refinement, its invariants and step property | proved |
| `FileIngest` (`MCFileIngest`) | upload and re-ingest jobs on a shared checkpoint | checked |
| `OcrInstance`, `SourceSync` | the OCR instance; the syncs of sources, which extend it | checked |
| `SourceSync_proofs` | all their invariants and the step property of fingerprints | proved |
| `AnswerCache` (`MCAnswerCache`) | the three caches of the hub search | checked |
| `Uploads_proofs` | all properties but liveness of `BulkUpload`, `FileIngest` and `AnswerCache`: the way of a file into a base, and to the caches its ingestion clears | proved |

### How `BuildPipeline` corresponds to the code

`rows` is the table `distill_builds`: status, profile, step list, whether a GPU
instance and `s3_result_key` are recorded (`gpu`), whether `s3_uri` is set
(`uri`). `origin`, `ended` and `gated` are history variables: which route
made the row, whether it once ended, whether `_evaluate` once returned True.
`txn` counts the open `create_unique` transactions of a profile between the
count and the insert; `api` marks a route call between insert and enqueue.
`jobs` is the arq queue with the program counter of each running job, `dir` the
build directory. `sweep` and `post` are where the sweepers are with a build.
`s3` is a build's training folder, `ec2` and `boot` the instance and its script.

A job's stages are the `await`s between which other actors can run: `Start` is
`_prepare`; `GenerateData`, `TrainLocally`, `UploadTrainingData`,
`StartInstance`, `Quantize`, `EvaluatePasses`, `Deploy` and `Complete` the stages
of `run_pre_train` and `run_post_train`, each of which writes its status when it is
entered and does its work later.
`WorkerStops` (arq reruns the job up to `MaxTries`) and `JobAborts` (an
exception outside the executor's tuple, or `job_timeout`; no rerun) can happen
at every stage. The boot script lists the profiles, lists each one's builds
once, and takes them one by one; the upload's two objects appear in either
order. The two reads of `check_gpu_training` are two actions.

Not in the model: `force_deploy` (a column that no code writes), the metrics and
approval columns, the 30 s claim window of `claim_for_sweep` (a build is claimed
by one sweep at a time) and the content of data and models. Deploying is one
step here; `ModelDeploy` has its inside.

The jobs get their repository from the API's `AppState`
(`distill_jobs.py:44-51`), which the API's lifespan fills and
`WorkerSettings.on_startup` does not. The model has a worker in which the
lookup succeeds. A worker started as `arq src.jobs.worker.WorkerSettings` would
fail every one of these jobs at that line; section 6 names it.

### How `ModelDeploy` corresponds to the code

One profile. An operation in flight is a record in `ops` with its program
counter at an `await`, what it read of the manifest (`seen`) and, for a rollback, the
build it found deployed. `deployed` is the column `deployed_at`, a time of `clock` or
`NoTime`: the code compares those times and reads nothing else from them. `uri` are the builds with an
`s3_uri`, `objects` the GGUFs in S3. The history variables `synced` and `app`
say which half of the manifest was last written by an operation that nothing
overlapped and that returned. `OpDies` is a crash or an uncaught exception,
`OpFails` a caught one, `ReadNoManifest` the `NoSuchKey` that the reader of a first
manifest does not catch. A build is
inserted at any time (`NewBuild` has no guard): one trigger waits for another, as `BuildPipeline`
shows, but a reset inserts its build beside a triggered one. The deploy route reads its row
once: `CallDeploy` has the status and the `s3_uri` of that moment, and what follows writes
the status over whatever it is by then, also of a row that is gone.
Versions are identified with builds: two
builds in one minute would share one, which is left to later work.

### How `EdgeSync` corresponds to the code

Each file-system call or HTTP call of `check_and_update_model` and `_rollback`
is an action. A directory is whether it exists, what `model.gguf` holds (a version,
part of one, or bytes that are no version) and the version its manifest names.
`RunEnds` ends a run anywhere: power loss, a kill, or an exception no handler
names (all of httpx's but `ConnectError`); an `rmtree` that is cut leaves a half
removed directory. The server loads at start-up before it binds its port,
reloads one request at a time with the model dropped in between, and answers
only after; a request whose client has gone away is still worked off.
`update_source_files` and `push_heartbeat` are in `EdgeFleet`,
`upload_logs` in `EdgeLogs`. Runs do not overlap (a oneshot systemd unit); `provision.sh`, run again on a
machine that is in use, does not ask whether one is under way and is left out. `ModelSlot` knows one model, the one it replaced,
and no directories: `Replace`, `GoBack`, `Forget`, the server's `Load`, and `Cut`, by which a run
that ends in the swap may leave less.

### How `BulkUpload` corresponds to the code

One session. `row` is its row with status and counters, `put`, `parts` and
`objects` what the browser has sent and what is in S3. A record of `calls` is a
finalize call and then the job it enqueues: `FinalizeReads`, `CompleteMultiparts`,
`SetProcessing`, `EnqueueIngest` are the route between its `await`s, `JobStarts`
to `DeleteObject` the loop over the files. `increment_processed` is two steps,
`CountReads` and `CountCommits`, because its SELECT takes no lock; the commit
writes the columns the object changed (`Written`) and no others. A worker that
stops has its job started over from the first file; a timeout or an exception
the loop does not name ends the job after its `finally` clause. The cleanup
lists, deletes the objects, aborts the uploads and writes the row in four steps.
`fate` is history: how the last try of a file went. The browser's presigned
URLs end long before the cleanup's day (`DayPasses`).

### How `EdgeFleet` corresponds to the code

One store. `target`, `bak` and `new` say what is in the place of `server.py` and
`sync.py`, in their copies and in their downloads; `run` is the sync program
with the steps of `push_heartbeat` and `update_source_files`: download and
check each file, copy the old one, rename the new one, restart, ask for the
health, restore or write the stamp. A run may be cut at every step, a download
may be short, a restart may fail; `faults` counts them. `row` is the store's row
with its two flags and `hb` the heartbeat's transaction, which reads the row
without a lock and clears the flags with a later statement. `Broken` versions do not
start, `Sick` ones start and fail their health check.

### How `EdgeLogs` corresponds to the code

`log` is `queries.jsonl` and `upload` the renamed file, each with the queries
on its lines; `writer` is the server's thread of a query, which may have opened
the file before the rename and write after it (`late`). `sync` reads the renamed
file, puts it, and unlinks it; the named exceptions append it back, the others
leave it behind (`left`). The `collector`s read the store's `object`, delete it by name
and save `rows`, in steps of their own; a read or a delete whose error is caught
is passed over, and the rows are saved although the object is still there. `causes` counts
what may give a query one more row: a body that S3 took, a read that another
reader of the object had not yet deleted, a delete that failed.

### How `DocIngest` corresponds to the code

A call of `IngestionPipeline.ingest` is a record with its program counter at an
`await`: the Redis set, the look-up and the entry of the dedup pipeline with the semantic
index between them, the two writers that `gather` starts, batch by batch, and the registration
in Redis. A run is one pipeline object, made with or without the dedup pipeline.
`points` says which content is at each position of a document in the vector store;
the graph's writer only has its outcome. Writers outlive the call that started them when the other one fails.
A restart of the API (`boot`) loses the index and every call. `IngestContract` knows calls,
verdicts, what is stored whole and the registered contents, and no steps: `What`,
`Verdict` and `Whole` of `DocIngest` map to it.

### How `FileIngest` corresponds to the code

`jsonl` is the checkpoint of one knowledge base: the document of each record and how the
record is on the disk. A write that is cut leaves the record without its
newline (`Torn`), the next append is on the same line (`joined`), and a
character cut in two makes every reader raise, since `UnicodeDecodeError` is
not the `json.JSONDecodeError` that the readers skip. Once more is written behind such a
character the line is `spoilt`: no line for anyone. A write is cut when the process
dies (`Crash`), or raises and becomes an error of the file (`WriteFails`, the
`except` of `rag.py:186`), with all, some or none of the record on the disk. What is not there
may be in the buffer of the job's writer (`held`), and comes with its next record or when it
is closed (`CloseWriter`, which may raise again); if another job has
written meanwhile, it comes on that job's line or its own. The second stage raises at a line
it cannot decode, or before it, since it reads ahead (`ReadFails`). Left out are a writer that
holds back more than one record, a write cut for a second time, and a full disk that takes
all of a record but its newline. `task` is the job's
asyncio task: `TakeFile` and `Parse` are the first stage between its `await`s,
`ReadLine` and `IngestLine` the second, which reads the file as it grows. `Conclude`
and `Finish` are two steps, because the status is read and then written; a
re-ingest does not read it (`_attach_reingest_callbacks`). `RedisFails` is an
exception of the Redis client, which no clause names. The jobs run in one
process, as with `make api`; with two, one crash ends only some of them. The
counts that a job adds to the base's row are left out: `update_counts` reads
the row and writes the sum without a lock, so of two jobs at once one is lost.

### How `SourceSync` and `OcrInstance` correspond to the code

`rows` is the table of sources (status and fingerprint), `records` the
ingestion runs, `head` the state of the remote, `handed` what was given to
ingestion. A task of `run_data_source_sync` is a record with the row its trigger
read (`snap`). `Trigger` and `Mark` are the admin's and the user's route,
`EditRead` and `EditWrite` the update route, which writes back the status it read.
`Begin` to `Record` are the three kinds of sync between their
`await`s, `Caught` and `Uncaught` what an exception does, `Restart` the API
process. `OcrInstance` has the instance's states as EC2 reports them, the
address in Redis, and the steps that start it, wait for it and stop it.

### How `AnswerCache` corresponds to the code

A search is a record with the layer it asks next. It looks up under the bases its
request names, and under `"knowledge"` when it names none or a group (`Looked`); only then are
its bases worked out (`Resolutions`): those named or the group's, or what Qdrant lists,
reduced to the caller's tenant and without the personal bases of others, but not reduced
at all when nothing would be left or the registry fails. It stores under these
and the size its query class needs (`StoredKey`). What this makes of a group is in section 6. An entry is the search whose answer it is and
its lifetime left; `Tick` is time. `Matches` is what the semantic cache accepts: a
similar query and the same set of collections, whatever the number of results.
The ingestion stores, then scans and deletes the legacy cache in two steps
(`SearchCache.clear`); the other two layers are left alone, since the function asks
for a method that does not exist (section 6). A search that has ended, whose answer is in
no cache, gives its record to the next one (`Forgotten`), so that searches go on without bound. Filters of a request are in no
key and are left out; an error of the Redis client is in none of the caught
classes. `get_or_compute` has no caller but the tests and is not modelled.

## 3. Runs

| Run | Instance | Shows |
|---|---|---|
| `pipeline_two_builds` | 1 profile, 2 builds, 1 job at a time, 2 tries, 1 fault, GPU on or off, step lists full and train-only, resets and profile deletes | `GateBeforeRelease`, `TriggeredSerialized`, `ResultIsFinal` |
| `pipeline_one_build` | 1 build, 2 jobs at a time, 2 tries, 2 faults, profile deletes, fairness | `GatedMeansTrained`, `TrainingResolved`, `PostTrainResolved` |
| `model_deploy` | 2 builds, 2 operations at a time, 3 calls, 1 fault | `BaselineIsManifest`, `ManifestServed`, `AppVersionKept`, `DeployedWasUploaded` |
| `edge_sync` | 3 versions (one unsigned, one that cannot be loaded), 2 cuts | `InstalledIsVerified`, `LastModelKept`, `ReloadedServesIt`, `KeepsSlot` |
| `edge_fleet` | 2 versions of the programs, one of them broken, 1 request name, 2 faults | `SomeCopyKept`, `WorkingCopyKept`, `RequestKept`, `StampedIsInstalled` |
| `edge_logs` | 3 queries, 2 collectors, 2 faults | `KeptOrSent`, `EveryRowHasItsCause` |
| `bulk_upload` | 2 files, one of them multipart, 1 finalize, 2 tries, 2 faults, cleanup, fairness | `VerdictIsRight`, `QueuedSessionEnds` |
| `doc_ingest` | 2 knowledge bases, 1 document of 2 contents (1 and 2 chunks), 2 pipelines, 2 calls, 2 API processes, batches of 2 | `CacheMeansStored`, `DuplicateHasWitness`, `WholeDocument`, `SecondCopyIsSeen`, `KeepsContract` |
| `file_ingest` | uploads of two files and of one of them, a re-ingest, 2 jobs at a time, 1 crash or failed write, 1 Redis fault, 1 cancellation | `FilesAccounted`, `LossPerFault`, `CancelStopsSoon` |
| `source_sync` | 1 source of any kind, 2 syncs, 2 boots of the instance, 2 revisions of the remote, 1 upset (fault, restart, edit or file ingest), fairness | `SyncingIsExplained`, `RecordsSettle`, `SkippedWasHandedOn`, `AloneIsServed`, `UpIsExplained`, `FingerprintBackOnlyOvertaken`, `SyncsEnd` |
| `answer_cache` | requests for two bases, for a group and for no base, 2 searches that run or are cached, 2 workers, 1 ingestion, lifetimes 1 and 2, 1 Redis fault | `AnswerFits`, `StaleInLegacyOverlapped` |
| `cache_invalidation` | 2 searches, 1 worker, 1 ingestion of each base, no fault | a statement of the repository that the code does not keep (section 6) |

*Why the bounds are enough.* Two builds are what it takes for one to meet
another: the count against an insert, a second boot against a finished result,
a reset beside a trigger. Two jobs at a time let a pre_train rerun and a
post_train job, or two post_train jobs, work on one build. Two tries are a job
and its rerun; two faults are a crash and a second one in its repair. In
`ModelDeploy` two operations overlap, and three calls follow a race with
clean operations; one of the operations fails or dies, and a second fault, which is left
to the theorems, ends another one in the same way. Three versions give `EdgeSync` a current, an earlier and a
new model. Two files give a job a file before and one behind the one it is at;
two jobs of one session, from two finalizes, are more than a run with faults has time for, and
their counts do go wrong: with four files that could not be sent, they can
overwrite each other's so that neither sees the total, and the session
stays in processing. The listed hazard says so, `QueuedSessionEnds` speaks of sessions
finalized once, and what does hold of two jobs, `FailureSticks`, is proved for
every number of files and finalizes and in no run. `LastModelKept` is stated for one cut, and the second allowed cut
makes the states after it reachable for the other invariants. In `EdgeFleet` one version is installed and one offered; two faults are a cut and one
more in the run that repairs it. In `EdgeLogs` three lines can be in the log, in the
renamed file and on their way at once. A document of two contents is what it
takes for one to shrink, and two bases and two calls for one to refuse or
overtake the other. `FileIngest` has a job that reads or appends to what another one writes,
and a re-ingest before, between or beside them, two at a time; the longer upload or the
re-ingest is cancelled. A second fault
changes nothing in the two records each costs, which is proved for any number. Two syncs are the older and the
newer one. Two records of searches are the answer in the caches and the search it answers, as often as
one likes: a promoted entry is served again, and a later search fills what has expired;
two workers give it another memory to answer from. Counters that
only bound the instance (`faults`, `calls`, `cuts`, the number of builds) are
named in each module's CONSTANTS.

Deadlock is not checked where the bounded system comes to rest: in the pipeline,
deployment, upload, sync, ingest and cache runs all builds or jobs have ended and no call or fault is left. The edge runs
check it.

*Fairness* (`FairSpec` of `BuildPipeline`): a job a worker has, or can take, goes
on (`WF` of `JobStep`); the cron runs each sweep (`arq` fires it each minute and
each five minutes, whatever a previous run did); the instance runs its script.
No fairness is assumed of users, of faults or of the API process: `ApiDies`
needs none, and neither does the enqueue it prevents. Both liveness properties
hold with two faults anywhere. `FairSpec` of `BulkUpload` assumes that a worker goes on
with a job it has (`WF` of `JobStep`), and nothing of browsers, the API or the
cleanup. `FairSpec` of `SourceSync` assumes that the event loop runs a task on
whose `await` has ended, that every wait of the code ends at its timeout, and
that EC2 carries out what it has accepted; nothing of users. The other modules
state no liveness: an edge run may end anywhere and only the timer starts
another, an uncaught exception ends an ingest job for good, and a failing
heartbeat ends a run before its upload, so that what one would like to say of
them does not hold.

## 4. Proofs

All proofs are for arbitrary constants satisfying the named assumptions of
their module: a non-empty set of profiles, natural bounds, any choice
of step lists, any sets of unsigned and unloadable versions, any similarity of queries.

* `BuildPipeline_proofs`: `TypeCorrect`; `GateHolds` and `SerializationHolds`, from the
  inductive `ReleaseInv`. The gate is not inductive alone: a job at its deploy or
  complete stage writes the release, so `DeployGated` says such a job's build has
  passed. Serialization needs to know that a count of zero stays true until the
  insert: `CountHolds` says that while a transaction of a profile is open every
  triggered build of it has ended; it rests on the advisory lock (at most
  one such transaction), on builds being inserted in order (`InsertedInOrder`) and on
  jobs, sweeps and routes working only on builds that exist (`WorkIsKnown`).
  `EndIsRecorded` ties the status to the history variable. `GatedTrained` and
  `ResultsFinal` need the GPU side: `BootInv` says that the boot script trains only a
  build without a result, `TrainedInv` what each stage of a job knows of its
  build's folder, and that a folder's result and GGUF never go again.
* `ModelDeploy_proofs`: `TypeCorrect`, `DeployedUploaded`, `BaselineKept`,
  `AppVersionsKept` and `PublishedServed` from `ServedInv`, in three layers:
  `StampInv` has which builds an operation works on, that `s3_uri` stays set and that no two
  stamps are equal; `SyncInv` what an operation that nothing has overlapped so
  far found and will leave; the last layer, as long as nothing died, that each
  artifact recorded is in S3 or its row about to go.
* `EdgeSync_proofs`: `SyncTypeCorrect`, `InstalledVerified`, `RollbackEarlier`
  and `LastModelSafe`, from the inductive `SyncInv`. What reaches `current` was in
  `staging` when it was verified, and what reaches `rollback` was in `current`,
  so `Staged` and `Newer` say what each stage of a run knows of the
  directories and `Kept` where a whole model is, by the number of cuts so far.
  `ReloadServes` is about steps and needs `ReloadInv`: a load that began after the
  run's own request has opened what `current` holds. `ImplementsSlot` is the refinement of
  `ModelSlot`: while the model is on its way (`Moving`) the slot is what lies in `rollback`, so that
  the second rename is the replacement, the first one of `_rollback` the step back, and every other call
  a stutter or a load; it needs `SlotInv`, that there is no `current` then and no model before the
  first install. `NeverEmptied` carries the contract's own promise over.
* `Uploads_proofs`, `BulkUpload`: `TypeCorrect`; `VerdictHolds`, from `VerdictInv`, which
  carries through the job's loop that the row counts the files behind it and that those
  ahead are untried, with the lemmas on cardinalities it takes; and `FailuresStick`, a property of steps. Only
  `CountCommits` writes the counter of failures, from a row read earlier: a
  success leaves the column alone and a failure writes the old value and one,
  which is above zero because what was read has the type of a row.
* `Uploads_proofs`, `FileIngest`: `FaultLosesTwo` counts more than what is lost. A
  torn end is not yet a lost record, but the next append makes two of it, one
  behind the other on one line; so `Exposed` has the records that cannot be
  read and, while the end is torn, the two places that such an append will
  spoil, and only a crash or a failed write adds to it (`ExposedInv`: at most two for each).
  `UploadsAccounted` follows a document through both stages (`FilesKnown`):
  each file behind `task.file` is an error or has a record (`TakenBefore`), whole or lost for
  good (`Sure`), and one that was read has been handed on, is an error or is lost (`Shown`).
  It is where the jobs meet: a record of another job may answer for
  a file, and `RecordsStay`, an action property proved beside it, is why it still will later:
  no record goes or moves, a whole one stays whole and a lost one lost. A record that is torn
  and last is neither, since the writer that tore it may yet complete it; then its file is
  among that job's errors.
  `CancellationStops` needs `StopOf`: a job that has handed on a document after its
  cancellation reads the status before it takes another.
* `Uploads_proofs`, `AnswerCache`: `AnswersFit` is a property of steps and needs
  `FitInv`: an entry of any layer lies under the key its search stored it under, and that
  search has made its answer, so that what it was made of does not change while an entry
  has it (`Stays`, `InUse`: a record is given to another search only when nothing has its answer); a
  hit on its way to the worker's memory fits what was looked up. `StaleOverlapped` needs `StaleInv`: between
  scan and deletion the keys collected, with the searches that were under way at the scan,
  are all that is older than the ingestion, and cleared revisions are never ahead of stored ones.
* `EdgeFleet_proofs`: `CopiesKept`, `WorkingKept`, `RequestsKept` and
  `StampsAreInstalled` from the inductive `FleetInv`: what the run knows at each
  step of the downloaded file, the copy and the file in its place
  (`DownloadedInv`, `CopiesInv`, `InstalledInv`, `WorkingInv`), step by step
  of the two files, and where a request is between the flag and the answer
  (`RequestInv`).
* `EdgeLogs_proofs`: `LinesKept` and `RowsCaused` from `LogsInv`: what an upload
  read is still in the renamed file, in the object, or came late (`KeptInv`), and
  each cause is spent once, on a row, on a request that holds the query, or on a copy in
  the object that no request about to delete it has read (`CauseInv`, with the
  cardinality of the requests that hold a query).
* `DocIngest_proofs`: `ImplementsContract` is the refinement, `Spec =>
  Contract!Spec`: the step that answers or registers maps to the contract's step,
  every other one to a stutter. It rests on `CInv`, which says at each stage of a call what is
  stored. `CacheIsTrue` follows from the same; `DuplicatesHaveWitnesses` and
  `SecondCopiesSeen` from `DInv`, which relates the index to the calls that
  entered it. `PromisesKept` shows that the contract implies what it is for
  (`IngestContract!CInv` is inductive for it), and so the pipeline has it through the
  refinement; `CacheIsTrue` is one half of that. `DocumentsWhole` follows from `WInv`: calls
  are made in order, a call made alone finds the earlier ones of its document at rest for good
  (`Apart`), and the last writer's content is in every place it has sent (`Written`).
* `SourceSync_proofs`: `AloneServed` and `UpExplained` from `OcrInv`, which is
  inductive by itself since the other steps leave the instance alone: a user alone at work knows
  the instance's boot and the address in Redis, and an instance that is up has
  a user that will stop it or is to blame. `SyncingExplained`, `RecordsSettled`,
  `SkippedHandedOn` and `BackOnlyOvertaken` from `SyncInv`: each stage of a task
  says what it has fetched and what its record may be (`TaskOK`), and each row
  who will write its status and who saved its fingerprint (`RowOK`). A snapshot is `Covered`
  because it was the row's, and a revision once covered stays so.

The inductive invariants were first checked by TLC on the instances above, those of
`SourceSync` also with two sources (as far as TLC came in five minutes). The type invariants of all
modules are proved and not repeated in the runs (those of `SourceSync` and `FileIngest` are parts of
`SyncInv` and `FileInv`). `Uploads_proofs` extends three modules that share no variable; each of its
theorems is about one of the three specifications.

Only model-checked: the liveness properties `TrainingResolved`, `PostTrainResolved`,
`QueuedSessionEnds` and `SyncsEnd`, since liveness under fairness is outside what the prover can
do. Every other property of a passing run is a theorem. The statements that the code does
not keep (section 6) are TLC's: a counterexample is a behaviour of a small instance.

## 5. Reading the properties

A property is preceded in its module by what it says of the code. Each
property of a passing run has a mutant in `PROJECT.json`: a definition with one
plausible bug (the advisory lock dropped, quantize going straight to deploy,
the sweeper not enqueuing, a commit that writes every column, the app fields not carried over, the checksum not
looked at, current removed instead of kept ...) under which TLC finds the
property violated.

Some of them are conditional, on purpose. `BaselineIsManifest` and its
neighbours speak of moments when nothing is in flight and the last writer was not overlapped,
because overlapping writers do leave the three places apart: two
deploys can put their manifests in one order and stamp `deployed_at` in the
other. `LastModelKept` stops at one cut: the run after a cut drops `rollback`
although `current` is missing, and a second cut then leaves no model.
`VerdictIsRight` speaks of a session that was finalized once and not disturbed: a rerun counts
files twice. `TrainingResolved` excludes an instance whose script died under `set -e`, which the code
only warns about.

## 6. Where the code and its documentation differ

One difference has a run of its own:

* `IngestInvalidates` (`cache_invalidation`): `docs/RAG_PIPELINE.md:349` has an
  ingestion invalidate what is cached of its knowledge base.
  `_update_kb_and_invalidate_cache` asks the multi-layer cache for
  `invalidate_by_kb`, which it does not have (its method is `invalidate_kb`), so
  only the legacy cache is cleared, and answers made before the ingestion come
  back from memory and from the semantic cache.

The others are stated as properties in their modules. Each is violated when it
is made the only `INVARIANT` or `PROPERTY` of the named `.cfg`:

* `GpuDeployHasUri` (`BuildPipeline_one.cfg`): nothing sets `s3_uri` before the deploy stage of a
  GPU-trained build, which requires it (`service.py:963-968`). No fault is needed.
* `GroupIsScope` (`AnswerCache_claim.cfg`): the request has a group as its scope (`search.py:46`,
  `docs/RAG_PIPELINE.md:96`). The caches are asked before the group is resolved
  (`search.py:145-149`), under `["knowledge"]`, so that a search of a group is answered with an answer
  made from the base "knowledge". The tenant's and the owner's filter of the bases
  (`_filter_by_kb_registry`) is applied after the look-up as well: `AnswerFits` says what
  the caches do keep, the bases a request names, and not that its caller sees them.
* `EmptyCrawlCompletes` (`SourceSync.cfg`): `test_no_documents_still_completes` has a sync that found
  nothing complete. The Confluence sync calls `complete_sync` without the
  keyword that it requires (`data_source_sync.py:873-876`); the `TypeError` is
  caught, and the source ends in error.
* `NoStrandedBuild` (`BuildPipeline_one.cfg` and `_two.cfg`): `distill_jobs.py:8-9` has a pending or training build
  always taken up by a worker. A build whose API process died before the
  enqueue, or whose job was aborted, is taken up by nobody and blocks the
  profile's next trigger.
* `SuccessNeverFailed` (the same): reading the result before the instance state
  (`gpu_trainer.py:238`) lets a training that ends in between be
  recorded as failed.
* `OneActiveDeployment` (`ModelDeploy.cfg`): the deploy route does not clear the other builds'
  `deployed_at` as `build.py:111-114` asks.
* `FailedReloadIsRolledBack` (`EdgeSync.cfg`): the 500 answer of a failed reload is not among the exceptions
  whose handler rolls back (`edge/sync.py:147`).
* `CompletedMeansTried` (`BulkUpload.cfg`): a job that runs again counts on from the counters of the
  run before it, so a session can be completed before its last file was tried
  (`upload_jobs.py:11-12` has it complete when all files were processed).
* `RequestNeverLost` (`EdgeFleet.cfg`): a request that comes between the heartbeat's read of the
  flags and its clearing is cleared undelivered, though `distill_edge.py:398`
  promises the next sync.
* `RenamePreventsRace` (`EdgeLogs.cfg`): `sync.py:179` renames the log so that no line is lost; a thread that opened it
  before the rename writes into the renamed file, which is then removed.
* `ParsedSurvives` (`FileIngest.cfg`): `jsonl_checkpoint.py:5` has parsed documents survive a crash and its reader
  (line 220) skip malformed lines. A record cut inside a character makes every
  later read of the file raise: uploads into that base stay in processing, and a
  re-ingest answers 500.
* `CancelSticks` (`FileIngest.cfg`): `docs/API.md:723` cancels a running job. The callback of a re-ingest writes
  `completed` over `cancelled` (`rag.py:518-519`).
* `NewestKept` (`DocIngest.cfg`, with three calls): a document that goes back to an earlier content
  is refused as an exact duplicate of itself, although the pipeline's comment
  says that the newest is kept.
* `InstanceGoesDown` (`SourceSync.cfg`): `docs/CONFLUENCE_CRAWLER.md` has the OCR instance stopped after a sync; a stop
  that fails is not tried again.

Met while modelling, without a property:

* Pipeline: the worker started by `arq` alone has no `AppState`, and every
  distill job fails at `distill_jobs.py:44-51`.
* Edge: a store without a row is refused with 400, although
  `distill_edge.py:200` and `docs/API.md:813` have the heartbeat register it, and that error ends the
  run before its log upload. Directly after a restart the health check may meet
  `httpx.ConnectError`, which is not caught, so that nothing is restored. The
  collector deletes an object that it could not parse.
* Ingestion: the hash enters the dedup index before anything is stored, so a
  retry of a failed document is a duplicate until the API restarts, and the index
  does not know knowledge bases. A document that shrinks keeps its old last
  chunks in the vector store. A second knowledge base takes over the
  node of a document.
* Syncs: an uncaught exception or a restart leaves a source in syncing and its
  run in running; a file ingest sets syncing and starts nothing; a git sync of an
  empty repository leaves its run open.
* Cache: a key that is stored again keeps its place in the memory's order, so
  that what is evicted is not the least recently used
  (`l1_memory_cache.py:62-70`); `get_or_compute` removes a key's lock while others wait on it.

## 7. Not modelled, and what is next

* Graph schema bootstrap and re-extraction, feature flags: small state machines
  over one table each; `SchemaBootstrap` (a `has_running` and a `create` in two
  transactions, and a daily cleanup of stale runs) is the next module to write.
* Search and ranking, parsing, OCR, chat, dashboards, alerts, the content of
  training: what they compute is text and scores, which have no protocol to
  check. Authentication is outside the subject.
* Inside the modelled parts: two sync programs on one edge machine, two builds
  of one profile in one minute (they share a version), near-duplicates and
  conflicts of the dedup pipeline, the command line's use of the checkpoint,
  cache versions and capacity. `PROJECT.json` names what each component leaves out.

Worth doing next:

1. More abstract specifications: an upload session, an ended build and a published
   model, implemented by `BulkUpload`, `BuildPipeline` and `ModelDeploy` where
   nothing is rerun or overlapped.
2. Proofs: the four liveness properties on paper, from the invariants that are proved here.
