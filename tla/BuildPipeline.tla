--------------------------- MODULE BuildPipeline ---------------------------
(***************************************************************************)
(* The distill build pipeline: the API routes that create builds, the arq  *)
(* jobs that carry them from generation to deployment, the two cron        *)
(* sweepers, and the GPU instance whose boot script trains whatever it     *)
(* finds in S3.  They share four things: the build rows of PostgreSQL, the *)
(* arq queue in Redis, the build directories of the worker and the         *)
(* training folders of S3.  What deploying does to S3, to the manifest and *)
(* to deployed_at is the subject of ModelDeploy; here it is one step.      *)
(***************************************************************************)
EXTENDS Naturals

CONSTANTS
    Profiles,      \* distill profiles
    MaxBuilds,     \* bound: build rows ever created
    MaxJobs,       \* bound: arq jobs in Redis at a time
    MaxTries,      \* WorkerSettings.max_tries
    MaxFaults,     \* bound: crashes, aborts and lost instances
    GpuModes,      \* the settings of DISTILL_GPU_INSTANCE_ID: set (TRUE) or not
    StepChoices,   \* the step lists a caller of POST /builds may send
    Requests       \* what else users do: reset to the base model, delete a profile

ASSUME ProfilesAssumption == Profiles # {}
ASSUME BoundsAssumption ==
    MaxBuilds \in Nat \ {0} /\ MaxJobs \in Nat /\ MaxTries \in Nat \ {0} /\ MaxFaults \in Nat
ASSUME ModesAssumption ==
    GpuModes \subseteq BOOLEAN /\ Requests \subseteq {"reset", "delete profile"}

Steps == {"generate", "train", "quantize", "deploy"}   \* "evaluate" always runs
ASSUME StepsAssumption == StepChoices \subseteq SUBSET Steps

ResetSteps == {"quantize", "deploy"}
Builds == 1..MaxBuilds     \* build ids, in the order of creation
Slots  == 1..MaxJobs

PostStatuses     == {"quantizing", "evaluating", "deploying"}
ActiveStatuses   == {"pending", "generating", "training"} \cup PostStatuses
TerminalStatuses == {"completed", "failed"}
Statuses         == {"absent"} \cup ActiveStatuses \cup TerminalStatuses

Rows == [status : Statuses, profile : Profiles, origin : {"trigger", "reset"},
         steps : SUBSET Steps, gpu : BOOLEAN, uri : BOOLEAN,
         ended : BOOLEAN,   \* history: the build was once completed or failed
         gated : BOOLEAN]   \* history: _evaluate returned True for the build

PostStages == {"quantize", "evaluate", "deploy", "complete"}
GpuStages  == {"ec2", "start", "mark"}
Stages     == {"generate", "train", "handover"} \cup GpuStages \cup PostStages
Jobs == [kind : {"pre", "post"}, build : Builds,
         pc : {"free", "queued", "ack"} \cup Stages, tries : 0..MaxTries]

VARIABLES
    gpuMode,  \* DISTILL_GPU_INSTANCE_ID is configured
    live,     \* profiles in the database
    rows,     \* distill_builds
    txn,      \* create_unique transactions of a profile between count and insert
    api,      \* a route call that inserted the build and has yet to enqueue its job
    jobs,     \* the arq queue and the workers that run it
    dir,      \* work_dir/<build id> on the worker
    sweep,    \* distill_sweep_training, per build
    post,     \* distill_sweep_post_train, per build
    s3,       \* train/<build id>/ : train.jsonl, output/result.json, output/model.gguf
    ec2,      \* state of the GPU instance
    boot,     \* gpu_boot_train.sh
    faults    \* faults so far

dbVars    == <<live, rows, txn>>
jobVars   == <<jobs, dir>>
sweepVars == <<sweep, post>>
gpuVars   == <<s3, ec2, boot>>
vars == <<gpuMode, live, rows, txn, api, jobs, dir, sweep, post, s3, ec2, boot, faults>>

NewRow(st, p, origin, steps) ==
    [status |-> st, profile |-> p, origin |-> origin, steps |-> steps,
     gpu |-> FALSE, uri |-> FALSE, ended |-> FALSE, gated |-> FALSE]
NoRow   == NewRow("absent", CHOOSE p \in Profiles : TRUE, "trigger", {})
FreeJob == [kind |-> "pre", build |-> 1, pc |-> "free", tries |-> 0]
NoBoot == [pc |-> "off", profs |-> {}, todo |-> {}, cur |-> 0]

Init ==
    /\ gpuMode \in GpuModes
    /\ live = Profiles
    /\ rows = [b \in Builds |-> NoRow]
    /\ txn = [p \in Profiles |-> 0]
    /\ api = [b \in Builds |-> FALSE]
    /\ jobs = [j \in Slots |-> FreeJob]
    /\ dir = [b \in Builds |-> {}]
    /\ sweep = [b \in Builds |-> "idle"]
    /\ post = [b \in Builds |-> "idle"]
    /\ s3 = [b \in Builds |-> [data |-> FALSE, result |-> "none", gguf |-> FALSE]]
    /\ ec2 = "stopped"
    /\ boot = NoBoot
    /\ faults = 0

-----------------------------------------------------------------------------
(* Rows: update_build writes whatever the row held before.                 *)

Active(b) == rows[b].status \in ActiveStatuses

SetStatus(r, st) == [r EXCEPT !.status = st, !.ended = @ \/ st \in TerminalStatuses]

Update(b, st) == rows' = [rows EXCEPT ![b] = SetStatus(@, st)]

IsNext(b) == /\ rows[b].status = "absent"
             /\ \A c \in Builds : c < b => rows[c].status # "absent"

Insert(b, p, origin, steps) ==
    rows' = [rows EXCEPT ![b] = NewRow("pending", p, origin, steps)]

Fault == faults < MaxFaults /\ faults' = faults + 1

(* A new job takes the first free slot; the queue is at-least-once.        *)
FreeSlot(j) == jobs[j].pc = "free" /\ \A i \in Slots : i < j => jobs[i].pc # "free"

Enqueue(j, kind, b) ==
    /\ FreeSlot(j)
    /\ jobs' = [jobs EXCEPT ![j] = [kind |-> kind, build |-> b, pc |-> "queued", tries |-> 1]]

-----------------------------------------------------------------------------
(* API routes                                                              *)

(* The active builds are counted; a count above zero is answered with 409  *)
(* and changes nothing.  On its own (a mutant) this is the check without   *)
(* the advisory lock.                                                      *)
CountActiveNoLock(p) ==
    /\ p \in live
    /\ \A b \in Builds : rows[b].profile = p => ~Active(b)
    /\ \E b \in Builds : IsNext(b)
    /\ txn' = [txn EXCEPT ![p] = @ + 1]
    /\ UNCHANGED <<gpuMode, live, rows, api, jobVars, sweepVars, gpuVars, faults>>

CountActive(p) ==
    /\ txn[p] = 0          \* pg_advisory_xact_lock
    /\ CountActiveNoLock(p)

InsertTriggered(p, b, steps) ==
    /\ txn[p] > 0
    /\ IsNext(b)
    /\ Insert(b, p, "trigger", steps)
    /\ txn' = [txn EXCEPT ![p] = @ - 1]
    /\ api' = [api EXCEPT ![b] = TRUE]
    /\ UNCHANGED <<gpuMode, live, jobVars, sweepVars, gpuVars, faults>>

TriggerRollsBack(p) ==
    /\ txn[p] > 0
    /\ txn' = [txn EXCEPT ![p] = @ - 1]
    /\ UNCHANGED <<gpuMode, live, rows, api, jobVars, sweepVars, gpuVars, faults>>

(* reset_to_base_model uses create, not create_unique: no lock, no count.  *)
ResetToBase(p, b) ==
    /\ "reset" \in Requests
    /\ p \in live
    /\ IsNext(b)
    /\ Insert(b, p, "reset", ResetSteps)
    /\ api' = [api EXCEPT ![b] = TRUE]
    /\ UNCHANGED <<gpuMode, live, txn, jobVars, sweepVars, gpuVars, faults>>

EnqueuePreTrain(b, j) ==
    /\ api[b]
    /\ Enqueue(j, "pre", b)
    /\ api' = [api EXCEPT ![b] = FALSE]
    /\ UNCHANGED <<gpuMode, dbVars, dir, sweepVars, gpuVars, faults>>

EnqueueFails(b) ==
    /\ api[b]
    /\ Fault
    /\ Update(b, "failed")
    /\ api' = [api EXCEPT ![b] = FALSE]
    /\ UNCHANGED <<gpuMode, live, txn, jobVars, sweepVars, gpuVars>>

(* The API process dies between the commit and the enqueue.                *)
ApiDies(b) ==
    /\ api[b]
    /\ Fault
    /\ api' = [api EXCEPT ![b] = FALSE]
    /\ UNCHANGED <<gpuMode, dbVars, jobVars, sweepVars, gpuVars>>

DeleteProfile(p) ==
    /\ "delete profile" \in Requests
    /\ p \in live
    /\ live' = live \ {p}
    /\ UNCHANGED <<gpuMode, rows, txn, api, jobVars, sweepVars, gpuVars, faults>>

-----------------------------------------------------------------------------
(* Jobs: a stage writes its status when it is entered and does its work    *)
(* after that.  The pre_train job of a local build carries on with the     *)
(* post-train stages; the sweeper enqueues post_train without a step list, *)
(* which stands for all the steps.                                         *)

StepsOf(j) == IF jobs[j].kind = "pre" THEN rows[jobs[j].build].steps ELSE Steps

StatusOf(stage) ==
    CASE stage = "generate" -> "generating" [] stage = "train"  -> "training"
      [] stage = "quantize" -> "quantizing" [] stage = "evaluate" -> "evaluating"
      [] stage = "deploy"   -> "deploying"

AfterGenerate(j) == IF "train" \in StepsOf(j) THEN "train" ELSE "handover"
FirstStage(j)    == IF "generate" \in StepsOf(j) THEN "generate" ELSE AfterGenerate(j)
PostStage(j)     == IF jobs[j].kind = "pre" /\ "quantize" \in StepsOf(j)
                    THEN "quantize" ELSE "evaluate"
AfterEvaluate(j) == IF "deploy" \in StepsOf(j) THEN "deploy" ELSE "complete"

At(j, stage) == jobs[j].pc = stage
GoTo(j, stage) == jobs' = [jobs EXCEPT ![j].pc = stage]

(* Entering a stage: the program counter and, where there is one, the      *)
(* status, written over the row r.                                         *)
Enter(j, stage, r) ==
    /\ GoTo(j, stage)
    /\ rows' = [rows EXCEPT ![jobs[j].build] =
                  IF stage \in {"handover", "complete"} THEN r ELSE SetStatus(r, StatusOf(stage))]

RowOf(j) == rows[jobs[j].build]
HasProfile(j) == RowOf(j).profile \in live
AddFile(j, f) == dir' = [dir EXCEPT ![jobs[j].build] = @ \cup {f}]
RemoveDir(j)  == dir' = [dir EXCEPT ![jobs[j].build] = {}]
GpuJob(j)     == jobs[j].kind = "post"     \* train_result["gpu_trained"]

JobFrame == UNCHANGED <<gpuMode, live, txn, api, sweepVars, faults>>

(* _prepare of a queued job. *)
Start(j) ==
    /\ At(j, "queued")
    /\ HasProfile(j)
    /\ Enter(j, IF GpuJob(j) THEN PostStage(j) ELSE FirstStage(j), RowOf(j))
    /\ UNCHANGED <<dir, gpuVars>> /\ JobFrame

(* _prepare of run_post_train, after run_pre_train returned                *)
(* "post_train_ready" to the same job.                                     *)
Handover(j) ==
    /\ At(j, "handover")
    /\ HasProfile(j)
    /\ Enter(j, PostStage(j), RowOf(j))
    /\ UNCHANGED <<dir, gpuVars>> /\ JobFrame

ProfileNotFound(j) ==
    /\ jobs[j].pc \in {"queued", "handover"}
    /\ ~HasProfile(j)
    /\ GoTo(j, "ack")
    /\ Update(jobs[j].build, "failed")
    /\ UNCHANGED <<dir, gpuVars>> /\ JobFrame

GenerateData(j) ==
    /\ At(j, "generate")
    /\ AddFile(j, "data")
    /\ Enter(j, AfterGenerate(j), RowOf(j))
    /\ UNCHANGED gpuVars /\ JobFrame

TrainLocally(j) ==
    /\ At(j, "train") /\ ~gpuMode
    /\ "data" \in dir[jobs[j].build]
    /\ AddFile(j, "model")
    /\ GoTo(j, "handover")
    /\ UNCHANGED <<rows, gpuVars>> /\ JobFrame

(* start_gpu_training: upload, read the state of the instance, start it    *)
(* unless it runs, and let the caller register the sweeper's marker.       *)
UploadTrainingData(j) ==
    /\ At(j, "train") /\ gpuMode
    /\ "data" \in dir[jobs[j].build]
    /\ s3' = [s3 EXCEPT ![jobs[j].build].data = TRUE]
    /\ GoTo(j, "ec2")
    /\ UNCHANGED <<rows, dir, ec2, boot>> /\ JobFrame

SeeInstanceState(j) ==
    /\ At(j, "ec2")
    /\ GoTo(j, IF ec2 = "running" THEN "mark" ELSE "start")
    /\ UNCHANGED <<rows, dir, gpuVars>> /\ JobFrame

(* A stopping instance is waited for; starting a running one does nothing. *)
StartInstance(j) ==
    /\ At(j, "start")
    /\ ec2 # "stopping"
    /\ ec2' = "running"
    /\ boot' = IF ec2 = "running" THEN boot ELSE [NoBoot EXCEPT !.pc = "list", !.profs = Profiles]
    /\ GoTo(j, "mark")
    /\ UNCHANGED <<rows, dir, s3>> /\ JobFrame

MarkGpuBuild(j) ==
    /\ At(j, "mark")
    /\ rows' = [rows EXCEPT ![jobs[j].build].gpu = TRUE]
    /\ GoTo(j, "ack")
    /\ UNCHANGED <<dir, gpuVars>> /\ JobFrame

(* Mutant: the order of the enum comment (models.py), evaluate first, with *)
(* the stage after quantizing taken from it.                               *)
QuantizeThenDeploy(j) ==
    /\ At(j, "quantize")
    /\ "model" \in dir[jobs[j].build]
    /\ AddFile(j, "gguf")
    /\ Enter(j, "deploy", RowOf(j))
    /\ UNCHANGED gpuVars /\ JobFrame

Quantize(j) ==
    /\ At(j, "quantize")
    /\ "model" \in dir[jobs[j].build]
    /\ AddFile(j, "gguf")
    /\ Enter(j, "evaluate", RowOf(j))
    /\ UNCHANGED gpuVars /\ JobFrame

(* Mutant: without the GGUF the gate falls back to the training loss.      *)
CanEvaluateWithoutGguf(j) == "data" \in dir[jobs[j].build]

(* The gate fails closed: the evaluation data and a GGUF must be there; a  *)
(* GPU-trained build evaluates the GGUF downloaded from its S3 output.     *)
(* force_deploy, a column that no code writes, has its default: FALSE.     *)
CanEvaluate(j) ==
    LET b == jobs[j].build IN
    /\ "data" \in dir[b]
    /\ IF GpuJob(j) THEN s3[b].gguf ELSE "gguf" \in dir[b]

EvaluatePasses(j) ==
    /\ At(j, "evaluate")
    /\ CanEvaluate(j)
    /\ Enter(j, AfterEvaluate(j), [RowOf(j) EXCEPT !.gated = TRUE])
    /\ IF GpuJob(j) THEN AddFile(j, "gguf") ELSE UNCHANGED dir
    /\ UNCHANGED gpuVars /\ JobFrame

(* download_file of a missing GGUF raises botocore's ClientError, which    *)
(* neither _download_gguf_from_s3 nor the executor catches: the job ends   *)
(* with the build left in "evaluating".                                    *)
GgufMissing(j) == At(j, "evaluate") /\ GpuJob(j) /\ ~s3[jobs[j].build].gguf

DownloadAborts(j) ==
    /\ GgufMissing(j)
    /\ GoTo(j, "ack")
    /\ RemoveDir(j)
    /\ UNCHANGED <<rows, gpuVars>> /\ JobFrame

(* A GPU-trained build is copied from the s3_uri of its row.               *)
CanDeploy(j) == IF GpuJob(j) THEN RowOf(j).uri ELSE "gguf" \in dir[jobs[j].build]

Deploy(j) ==
    /\ At(j, "deploy")
    /\ CanDeploy(j)
    /\ Enter(j, "complete", [RowOf(j) EXCEPT !.uri = TRUE])
    /\ UNCHANGED <<dir, gpuVars>> /\ JobFrame

Complete(j) ==
    /\ At(j, "complete")
    /\ GoTo(j, "ack")
    /\ Update(jobs[j].build, "completed")
    /\ RemoveDir(j)
    /\ UNCHANGED gpuVars /\ JobFrame

(* An exception the executor catches, or a gate that answers no: the work  *)
(* of every stage can fail, and must where what it needs is missing.       *)
StageFails(j) ==
    /\ jobs[j].pc \in {"generate", "train"} \cup (GpuStages \ {"mark"}) \cup (PostStages \ {"complete"})
    /\ ~GgufMissing(j)
    /\ GoTo(j, "ack")
    /\ Update(jobs[j].build, "failed")
    /\ RemoveDir(j)
    /\ UNCHANGED gpuVars /\ JobFrame

(* The job has returned and arq removes it from the queue.                 *)
Acknowledge(j) ==
    /\ At(j, "ack")
    /\ jobs' = [jobs EXCEPT ![j] = FreeJob]
    /\ UNCHANGED <<rows, dir, gpuVars>> /\ JobFrame

Retried(job) == IF job.tries < MaxTries
                THEN [job EXCEPT !.pc = "queued", !.tries = @ + 1]
                ELSE FreeJob

(* The worker is killed or shut down while it runs or acknowledges the     *)
(* job: arq runs the job again, up to MaxTries.  A shutdown cancels the    *)
(* coroutine, and the finally of run_post_train removes the directory.     *)
WorkerStops(j) ==
    /\ jobs[j].pc \in Stages \cup {"ack"}
    /\ Fault
    /\ jobs' = [jobs EXCEPT ![j] = Retried(@)]
    /\ \/ UNCHANGED dir
       \/ jobs[j].pc \in PostStages /\ RemoveDir(j)
    /\ UNCHANGED <<gpuMode, dbVars, api, sweepVars, gpuVars>>

(* job_timeout, or an exception outside the tuple the executor catches     *)
(* (botocore, httpx, SQLAlchemy): no status is written, no retry follows.  *)
JobAborts(j) ==
    /\ jobs[j].pc \in Stages
    /\ Fault
    /\ GoTo(j, "ack")
    /\ IF jobs[j].pc \in PostStages THEN RemoveDir(j) ELSE UNCHANGED dir
    /\ UNCHANGED <<gpuMode, dbVars, api, sweepVars, gpuVars>>

JobStep(j) ==
    \/ Start(j) \/ Handover(j) \/ ProfileNotFound(j)
    \/ GenerateData(j) \/ TrainLocally(j)
    \/ UploadTrainingData(j) \/ SeeInstanceState(j) \/ StartInstance(j) \/ MarkGpuBuild(j)
    \/ Quantize(j) \/ EvaluatePasses(j) \/ DownloadAborts(j) \/ Deploy(j) \/ Complete(j)
    \/ StageFails(j) \/ Acknowledge(j)

-----------------------------------------------------------------------------
(* Sweepers.  A claim (last_sweep_at) keeps a second worker off the build  *)
(* while it lasts; the model has one sweep of a build in flight at a time. *)

SetSweep(b, pc) == sweep' = [sweep EXCEPT ![b] = pc]
SetPost(b, pc)  == post' = [post EXCEPT ![b] = pc]
SweepFrame == UNCHANGED <<gpuMode, live, txn, api, dir, gpuVars>>

ListTraining(b) ==
    /\ sweep[b] = "idle"
    /\ rows[b].status = "training" /\ rows[b].gpu
    /\ SetSweep(b, "listed")
    /\ UNCHANGED <<rows, jobs, post, faults>> /\ SweepFrame

(* claim_for_sweep, then get_profile: the status is not read again.        *)
ClaimForSweep(b) ==
    /\ sweep[b] = "listed"
    /\ rows[b].profile \in live
    /\ SetSweep(b, "claimed")
    /\ UNCHANGED <<rows, jobs, post, faults>> /\ SweepFrame

SweepProfileGone(b) ==
    /\ sweep[b] = "listed"
    /\ rows[b].profile \notin live
    /\ SetSweep(b, "idle")
    /\ Update(b, "failed")
    /\ UNCHANGED <<jobs, post, faults>> /\ SweepFrame

ResultCompleted(b) == s3[b].result = "completed"

(* Mutant: the result is recorded but nothing is enqueued.                 *)
SweepSuccessNoEnqueue(b, j) ==
    /\ sweep[b] = "claimed"
    /\ ResultCompleted(b)
    /\ FreeSlot(j)
    /\ SetSweep(b, "idle")
    /\ UNCHANGED <<rows, jobs, post, faults>> /\ SweepFrame

(* check_gpu_training reads result.json first ...                          *)
SweepSuccess(b, j) ==
    /\ sweep[b] = "claimed"
    /\ ResultCompleted(b)
    /\ Enqueue(j, "post", b)
    /\ SetSweep(b, "idle")
    /\ UNCHANGED <<rows, post, faults>> /\ SweepFrame

SweepFailedResult(b) ==
    /\ sweep[b] = "claimed"
    /\ s3[b].result = "failed"
    /\ SetSweep(b, "idle")
    /\ Update(b, "failed")
    /\ UNCHANGED <<jobs, post, faults>> /\ SweepFrame

SweepNoResult(b) ==
    /\ sweep[b] = "claimed"
    /\ s3[b].result = "none"
    /\ SetSweep(b, "noresult")
    /\ UNCHANGED <<rows, jobs, post, faults>> /\ SweepFrame

(* ... and the state of the instance after it.                             *)
SweepInstanceStopped(b) ==
    /\ sweep[b] = "noresult"
    /\ ec2 = "stopped"
    /\ SetSweep(b, "idle")
    /\ Update(b, "failed")
    /\ UNCHANGED <<jobs, post, faults>> /\ SweepFrame

SweepStillRunning(b) ==
    /\ sweep[b] = "noresult"
    /\ ec2 # "stopped"
    /\ SetSweep(b, "idle")
    /\ UNCHANGED <<rows, jobs, post, faults>> /\ SweepFrame

SweepDies(b) ==
    /\ sweep[b] # "idle"
    /\ Fault
    /\ SetSweep(b, "idle")
    /\ UNCHANGED <<rows, jobs, post>> /\ SweepFrame

(* Mutant: "deploying" is forgotten in the sweeper's filter.               *)
ListStuckNotDeploying(b) ==
    /\ post[b] = "idle"
    /\ rows[b].status \in {"quantizing", "evaluating"}
    /\ \A j \in Slots : jobs[j].build = b => jobs[j].pc \in {"free", "queued", "ack"}
    /\ SetPost(b, "listed")
    /\ UNCHANGED <<rows, jobs, sweep, faults>> /\ SweepFrame

(* The post-train sweeper lists builds whose updated_at is 2 h old.  A job *)
(* runs at most job_timeout (5 min), so no job of the build is running     *)
(* then; one may still be queued and start before the build is failed.     *)
ListStuckPostTrain(b) ==
    /\ post[b] = "idle"
    /\ rows[b].status \in PostStatuses
    /\ \A j \in Slots : jobs[j].build = b => jobs[j].pc \in {"free", "queued", "ack"}
    /\ SetPost(b, "listed")
    /\ UNCHANGED <<rows, jobs, sweep, faults>> /\ SweepFrame

FailStuckPostTrain(b) ==
    /\ post[b] = "listed"
    /\ SetPost(b, "idle")
    /\ Update(b, "failed")
    /\ UNCHANGED <<jobs, sweep, faults>> /\ SweepFrame

-----------------------------------------------------------------------------
(* GPU instance: one boot script, started with the instance.               *)

BootFrame == UNCHANGED <<gpuMode, dbVars, api, jobVars, sweepVars>>

(* One listing of a profile's train/ folder; later uploads are not in it.  *)
BootListsProfile(p) ==
    /\ boot.pc = "list" /\ boot.todo = {}
    /\ p \in boot.profs
    /\ boot' = [boot EXCEPT !.profs = @ \ {p},
                            !.todo = {b \in Builds : s3[b].data /\ rows[b].profile = p}]
    /\ UNCHANGED <<s3, ec2, faults>> /\ BootFrame

BootSkips(b) ==
    /\ boot.pc = "list" /\ b \in boot.todo
    /\ s3[b].result # "none"
    /\ boot' = [boot EXCEPT !.todo = @ \ {b}]
    /\ UNCHANGED <<s3, ec2, faults>> /\ BootFrame

(* Without the check for a result (a mutant): whatever is listed.          *)
BootTrainsAny(b) ==
    /\ boot.pc = "list" /\ b \in boot.todo
    /\ boot' = [boot EXCEPT !.pc = "train", !.cur = b, !.todo = @ \ {b}]
    /\ UNCHANGED <<s3, ec2, faults>> /\ BootFrame

BootTrains(b) ==
    /\ s3[b].result = "none"
    /\ BootTrainsAny(b)

BootTrainingFails ==
    /\ boot.pc = "train"
    /\ s3' = [s3 EXCEPT ![boot.cur].result = "failed"]
    /\ boot' = [boot EXCEPT !.pc = "list", !.cur = 0]
    /\ UNCHANGED <<ec2, faults>> /\ BootFrame

BootTrainingSucceeds ==
    /\ boot.pc = "train"
    /\ boot' = [boot EXCEPT !.pc = "upload"]
    /\ UNCHANGED <<s3, ec2, faults>> /\ BootFrame

(* aws s3 sync uploads the files of output/ in any order; the sync ends,   *)
(* and the script goes on, when both are there.                            *)
BootUploadsResult ==
    /\ boot.pc = "upload"
    /\ s3[boot.cur].result = "none"
    /\ s3' = [s3 EXCEPT ![boot.cur].result = "completed"]
    /\ UNCHANGED <<boot, ec2, faults>> /\ BootFrame

BootUploadsGguf ==
    /\ boot.pc = "upload"
    /\ ~s3[boot.cur].gguf
    /\ s3' = [s3 EXCEPT ![boot.cur].gguf = TRUE]
    /\ UNCHANGED <<boot, ec2, faults>> /\ BootFrame

BootSyncEnds ==
    /\ boot.pc = "upload"
    /\ s3[boot.cur].result # "none" /\ s3[boot.cur].gguf
    /\ boot' = [boot EXCEPT !.pc = "list", !.cur = 0]
    /\ UNCHANGED <<s3, ec2, faults>> /\ BootFrame

BootShutsDown ==
    /\ boot.pc = "list" /\ boot.profs = {} /\ boot.todo = {}
    /\ boot' = NoBoot
    /\ ec2' = "stopping"
    /\ UNCHANGED <<s3, faults>> /\ BootFrame

InstanceStops ==
    /\ ec2 = "stopping"
    /\ ec2' = "stopped"
    /\ UNCHANGED <<s3, boot, faults>> /\ BootFrame

(* set -e ends the script; nothing shuts the instance down.                *)
BootScriptDies ==
    /\ boot.pc \in {"list", "train", "upload"}
    /\ Fault
    /\ boot' = [NoBoot EXCEPT !.pc = "dead"]
    /\ UNCHANGED <<s3, ec2>> /\ BootFrame

InstanceLost ==
    /\ ec2 = "running"
    /\ Fault
    /\ ec2' = "stopped"
    /\ boot' = NoBoot
    /\ UNCHANGED s3 /\ BootFrame

-----------------------------------------------------------------------------

ApiNext ==
    \/ \E p \in Profiles : CountActive(p) \/ TriggerRollsBack(p) \/ DeleteProfile(p)
    \/ \E p \in Profiles, b \in Builds :
         ResetToBase(p, b) \/ \E steps \in StepChoices : InsertTriggered(p, b, steps)
    \/ \E b \in Builds : EnqueueFails(b) \/ ApiDies(b) \/ \E j \in Slots : EnqueuePreTrain(b, j)

WorkerNext == \E j \in Slots : JobStep(j) \/ WorkerStops(j) \/ JobAborts(j)

TrainingSweep(b) ==
    \/ ListTraining(b) \/ ClaimForSweep(b) \/ SweepProfileGone(b)
    \/ \E j \in Slots : SweepSuccess(b, j)
    \/ SweepFailedResult(b) \/ SweepNoResult(b)
    \/ SweepInstanceStopped(b) \/ SweepStillRunning(b)
PostSweep(b) == ListStuckPostTrain(b) \/ FailStuckPostTrain(b)
SweepNext == \E b \in Builds : TrainingSweep(b) \/ SweepDies(b) \/ PostSweep(b)

BootStep ==
    \/ \E p \in Profiles : BootListsProfile(p)
    \/ \E b \in Builds : BootSkips(b) \/ BootTrains(b)
    \/ BootTrainingFails \/ BootTrainingSucceeds
    \/ BootUploadsResult \/ BootUploadsGguf \/ BootSyncEnds
    \/ BootShutsDown \/ InstanceStops
GpuNext == BootStep \/ BootScriptDies \/ InstanceLost

Next == ApiNext \/ WorkerNext \/ SweepNext \/ GpuNext

Spec == Init /\ [][Next]_vars

(* A worker that is up runs its jobs and its cron; the instance, once      *)
(* started, runs its script.  Users and faults owe nothing.                *)
Fairness ==
    /\ \A j \in Slots : WF_vars(JobStep(j))
    /\ \A b \in Builds : WF_vars(TrainingSweep(b)) /\ WF_vars(PostSweep(b))
    /\ WF_vars(BootStep)

FairSpec == Spec /\ Fairness

-----------------------------------------------------------------------------
(* Properties                                                              *)

(* Every variable keeps its shape: statuses, stages, sweep states and S3   *)
(* training folders take no value outside those listed.                    *)
TypeOK ==
    /\ gpuMode \in BOOLEAN
    /\ live \subseteq Profiles
    /\ rows \in [Builds -> Rows]
    /\ txn \in [Profiles -> Nat]
    /\ api \in [Builds -> BOOLEAN]
    /\ jobs \in [Slots -> Jobs]
    /\ dir \in [Builds -> SUBSET {"data", "model", "gguf"}]
    /\ sweep \in [Builds -> {"idle", "listed", "claimed", "noresult"}]
    /\ post \in [Builds -> {"idle", "listed"}]
    /\ s3 \in [Builds -> [data : BOOLEAN, result : {"none", "completed", "failed"}, gguf : BOOLEAN]]
    /\ ec2 \in {"stopped", "running", "stopping"}
    /\ boot \in [pc : {"off", "list", "train", "upload", "dead"}, profs : SUBSET Profiles,
                 todo : SUBSET Builds, cur : {0} \cup Builds]
    /\ faults \in 0..MaxFaults

(* No build is completed, and none has a published artifact, unless the    *)
(* evaluation gate once let that build through: not when a job runs twice, *)
(* when a step list omits "evaluate", nor when the worker stops in between *)
(* (build_executor.py, "the evaluation can never be skipped").             *)
GateBeforeRelease ==
    \A b \in Builds : rows[b].status = "completed" \/ rows[b].uri => rows[b].gated

(* create_unique serialises the builds of a profile that POST /builds      *)
(* creates: when one is inserted every earlier one had been completed or   *)
(* failed, whatever requests, jobs and sweeps run at the same time.        *)
TriggeredSerialized ==
    \A b1, b2 \in Builds :
        /\ b1 < b2
        /\ rows[b1].profile = rows[b2].profile
        /\ rows[b1].origin = "trigger" /\ rows[b1].status # "absent"
        /\ rows[b2].origin = "trigger" /\ rows[b2].status # "absent"
        => rows[b1].ended

(* A build that went to the GPU passes the gate only with what the GPU     *)
(* produced: a completed result.json and the GGUF, both in S3.  They are   *)
(* uploaded in any order and the instance may vanish between them; the     *)
(* sweeper and the gate then hold the build back (_evaluate, fail-closed). *)
GatedMeansTrained ==
    \A b \in Builds :
        rows[b].gpu /\ rows[b].gated => s3[b].result = "completed" /\ s3[b].gguf

(* What the boot script wrote as a build's result stays: neither a second  *)
(* boot, nor a job that uploads the training data again, nor two jobs that *)
(* start the instance together make it train a finished build once more.   *)
ResultIsFinal ==
    [][\A b \in Builds : s3[b].result # "none" => s3'[b].result = s3[b].result]_vars

(* A build handed to the GPU leaves "training" in the end: its result is   *)
(* swept, or the stopped instance is, as long as the boot script has not   *)
(* died on a running instance (that case the sweeper only warns about).    *)
TrainingResolved ==
    \A b \in Builds :
        rows[b].status = "training" /\ rows[b].gpu
            ~> rows[b].status # "training" \/ boot.pc = "dead"

(* No build stays in a post-train stage for good: its job ends it, a rerun *)
(* of its pre_train job takes it back to "generating", or the post-train   *)
(* sweeper fails it once no worker is left with it.                        *)
PostTrainResolved ==
    \A b \in Builds : rows[b].status \in PostStatuses ~> rows[b].status \notin PostStatuses

(* jobs/distill_jobs.py:8-9: without a worker a build only stays "pending" *)
(* or "training", and a worker that comes up carries on with it; so there  *)
(* is always a job, a route or a sweeper that will.                        *)
NoStrandedBuild ==
    \A b \in Builds : rows[b].status \in {"pending", "generating", "training"} =>
        \/ api[b]
        \/ \E j \in Slots : jobs[j].build = b /\ jobs[j].pc # "free"
        \/ rows[b].status = "training" /\ rows[b].gpu

(* gpu_trainer.py:238: result.json is looked at first because training     *)
(* ends before the instance stops; so the sweeper does not fail a build    *)
(* whose training completed.                                               *)
SuccessNeverFailed ==
    [][\A b \in Builds :
         /\ sweep[b] = "noresult" /\ sweep'[b] = "idle"
         /\ rows[b].status = "training" /\ rows'[b].status = "failed"
         => s3[b].result # "completed"]_vars

(* distill_builds.py:211 and service.py:954: a GPU-trained build has its   *)
(* s3_uri at the training output by the time it is deployed.               *)
GpuDeployHasUri ==
    \A j \in Slots : jobs[j].pc = "deploy" /\ GpuJob(j) => rows[jobs[j].build].uri
=============================================================================
