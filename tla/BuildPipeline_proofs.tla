------------------------ MODULE BuildPipeline_proofs ------------------------
(* Proofs about BuildPipeline, for every number of profiles, builds, jobs, *)
(* tries and faults.                                                       *)
EXTENDS BuildPipeline, TLAPS

-----------------------------------------------------------------------------
(* Lemmas about the operators the actions are built from.                  *)

(* Writing a status keeps a row a row and touches only status and ended.   *)
LEMMA SetStatusRow ==
    ASSUME NEW r \in Rows, NEW st \in Statuses
    PROVE  /\ SetStatus(r, st) \in Rows
           /\ SetStatus(r, st).status = st
           /\ SetStatus(r, st).ended = (r.ended \/ st \in TerminalStatuses)
           /\ SetStatus(r, st).gated = r.gated
           /\ SetStatus(r, st).uri = r.uri
           /\ SetStatus(r, st).gpu = r.gpu
           /\ SetStatus(r, st).profile = r.profile
           /\ SetStatus(r, st).origin = r.origin
           /\ SetStatus(r, st).steps = r.steps
<1>1. SetStatus(r, st) \in Rows
  BY DEF SetStatus, Rows
<1>2. QED BY DEF SetStatus, Rows

(* A row is created with the given status and none of the later marks.     *)
LEMMA NewRowType ==
    ASSUME NEW st \in Statuses, NEW p \in Profiles, NEW o \in {"trigger", "reset"},
           NEW S \in SUBSET Steps
    PROVE  NewRow(st, p, o, S) \in Rows
BY DEF NewRow, Rows

(* The status a stage writes is an active one.                             *)
LEMMA StageStatus ==
    ASSUME NEW stage \in {"generate", "train", "quantize", "evaluate", "deploy"}
    PROVE  StatusOf(stage) \in ActiveStatuses
BY DEF StatusOf, ActiveStatuses, PostStatuses

(* The stage that comes next is a stage, and one whose status is known or  *)
(* one that writes none.                                                   *)
LEMMA NextStage ==
    ASSUME NEW j
    PROVE  /\ AfterGenerate(j) \in {"train", "handover"}
           /\ FirstStage(j) \in {"generate", "train", "handover"}
           /\ PostStage(j) \in {"quantize", "evaluate"}
           /\ AfterEvaluate(j) \in {"deploy", "complete"}
BY DEF AfterGenerate, FirstStage, PostStage, AfterEvaluate

-----------------------------------------------------------------------------

LEMMA InitTypeOK == Init => TypeOK
<1> SUFFICES ASSUME Init PROVE TypeOK
  OBVIOUS
<1> USE BoundsAssumption DEF Init
<1>1. (CHOOSE p \in Profiles : TRUE) \in Profiles
  BY ProfilesAssumption
<1>2. NoRow \in Rows
  BY <1>1, NewRowType DEF NoRow, Statuses
<1>3. FreeJob \in Jobs
  BY DEF FreeJob, Jobs, Builds
<1>4. NoBoot \in [pc : {"off", "list", "train", "upload", "dead"}, profs : SUBSET Profiles,
                  todo : SUBSET Builds, cur : {0} \cup Builds]
  BY DEF NoBoot
<1>5. gpuMode \in BOOLEAN
  BY ModesAssumption
<1> QED
  BY <1>2, <1>3, <1>4, <1>5 DEF TypeOK

(* The helpers that write rows, jobs and directories keep their types.     *)
LEMMA UpdateType ==
    ASSUME TypeOK, NEW b \in Builds, NEW st \in Statuses, Update(b, st)
    PROVE  rows' \in [Builds -> Rows]
<1>1. SetStatus(rows[b], st) \in Rows
  BY SetStatusRow DEF TypeOK
<1> QED
  BY <1>1 DEF Update, TypeOK

LEMMA GoToType ==
    ASSUME TypeOK, NEW j \in Slots, NEW pc \in Stages \cup {"queued", "ack"}, GoTo(j, pc)
    PROVE  jobs' \in [Slots -> Jobs]
<1>1. jobs \in [Slots -> Jobs]
  BY DEF TypeOK
<1>2. [jobs[j] EXCEPT !.pc = pc] \in Jobs
  <2>1. jobs[j] \in Jobs
    BY <1>1
  <2> QED
    BY <2>1 DEF Jobs
<1> QED
  BY <1>1, <1>2 DEF GoTo

(* The build of a job is a build.                                          *)
LEMMA BuildOfJob ==
    ASSUME TypeOK, NEW j \in Slots
    PROVE  jobs[j].build \in Builds
BY DEF TypeOK, Jobs

LEMMA EnqueueType ==
    ASSUME TypeOK, NEW j \in Slots, NEW b \in Builds, NEW kind \in {"pre", "post"},
           Enqueue(j, kind, b)
    PROVE  jobs' \in [Slots -> Jobs]
BY BoundsAssumption DEF Enqueue, TypeOK, Jobs

LEMMA EnterType ==
    ASSUME TypeOK, NEW j \in Slots, NEW r \in Rows,
           NEW stage \in {"generate", "train", "handover"} \cup PostStages, Enter(j, stage, r)
    PROVE  rows' \in [Builds -> Rows] /\ jobs' \in [Slots -> Jobs]
<1>1. jobs' \in [Slots -> Jobs]
  BY GoToType DEF Enter, Stages
<1>2. jobs[j].build \in Builds
  BY DEF TypeOK, Jobs
<1>3. CASE stage \in {"handover", "complete"}
  BY <1>1, <1>2, <1>3 DEF Enter, TypeOK
<1>4. CASE stage \notin {"handover", "complete"}
  <2>1. stage \in {"generate", "train", "quantize", "evaluate", "deploy"}
    BY <1>4 DEF PostStages
  <2>2. StatusOf(stage) \in Statuses
    BY <2>1, StageStatus DEF Statuses
  <2>3. SetStatus(r, StatusOf(stage)) \in Rows
    BY <2>2, SetStatusRow
  <2> QED
    BY <1>1, <1>2, <1>4, <2>3 DEF Enter, TypeOK
<1> QED
  BY <1>3, <1>4

LEMMA DirType ==
    ASSUME TypeOK, NEW j \in Slots
    PROVE  /\ \A f \in {"data", "model", "gguf"} :
                AddFile(j, f) => dir' \in [Builds -> SUBSET {"data", "model", "gguf"}]
           /\ RemoveDir(j) => dir' \in [Builds -> SUBSET {"data", "model", "gguf"}]
           /\ jobs[j].build \in Builds
           /\ RowOf(j) \in Rows
<1>1. jobs[j].build \in Builds
  BY DEF TypeOK, Jobs
<1>2. RowOf(j) \in Rows
  BY <1>1 DEF TypeOK, RowOf
<1>3. \A f \in {"data", "model", "gguf"} :
        AddFile(j, f) => dir' \in [Builds -> SUBSET {"data", "model", "gguf"}]
  BY <1>1 DEF TypeOK, AddFile
<1>4. RemoveDir(j) => dir' \in [Builds -> SUBSET {"data", "model", "gguf"}]
  BY <1>1 DEF TypeOK, RemoveDir
<1> QED
  BY <1>1, <1>2, <1>3, <1>4
-----------------------------------------------------------------------------
(* Steps, process by process.                                              *)

LEMMA ApiType == TypeOK /\ ApiNext => TypeOK'
<1> SUFFICES ASSUME TypeOK, ApiNext PROVE TypeOK'
  OBVIOUS
<1>1. ASSUME NEW p \in Profiles, CountActive(p) PROVE TypeOK'
  BY <1>1 DEF CountActive, CountActiveNoLock, TypeOK, dbVars, jobVars, sweepVars, gpuVars
<1>2. ASSUME NEW p \in Profiles, NEW b \in Builds, NEW steps \in StepChoices, InsertTriggered(p, b, steps) PROVE TypeOK'
  <2>1. NewRow("pending", p, "trigger", steps) \in Rows
    BY NewRowType, StepsAssumption DEF Statuses, ActiveStatuses
  <2>2. rows' \in [Builds -> Rows]
    BY <1>2, <2>1 DEF InsertTriggered, Insert, TypeOK
  <2>3. txn' \in [Profiles -> Nat] /\ api' \in [Builds -> BOOLEAN]
    BY <1>2 DEF InsertTriggered, TypeOK
  <2> QED
    BY <1>2, <2>2, <2>3 DEF InsertTriggered, TypeOK, jobVars, sweepVars, gpuVars
<1>3. ASSUME NEW p \in Profiles, TriggerRollsBack(p) PROVE TypeOK'
  BY <1>3 DEF TriggerRollsBack, TypeOK, jobVars, sweepVars, gpuVars
<1>4. ASSUME NEW p \in Profiles, NEW b \in Builds, ResetToBase(p, b) PROVE TypeOK'
  <2>1. NewRow("pending", p, "reset", ResetSteps) \in Rows
    BY NewRowType, StepsAssumption DEF Statuses, ActiveStatuses, ResetSteps, Steps
  <2>2. rows' \in [Builds -> Rows]
    BY <1>4, <2>1 DEF ResetToBase, Insert, TypeOK
  <2>3. txn' \in [Profiles -> Nat] /\ api' \in [Builds -> BOOLEAN]
    BY <1>4 DEF ResetToBase, TypeOK
  <2> QED
    BY <1>4, <2>2, <2>3 DEF ResetToBase, TypeOK, jobVars, sweepVars, gpuVars
<1>5. ASSUME NEW b \in Builds, NEW j \in Slots, EnqueuePreTrain(b, j) PROVE TypeOK'
  <2>1. jobs' \in [Slots -> Jobs]
    BY <1>5, EnqueueType DEF EnqueuePreTrain
  <2> QED
    BY <1>5, <2>1 DEF EnqueuePreTrain, TypeOK, dbVars, sweepVars, gpuVars
<1>6. ASSUME NEW b \in Builds, EnqueueFails(b) PROVE TypeOK'
  <2>1. rows' \in [Builds -> Rows]
    BY <1>6, UpdateType DEF EnqueueFails, Statuses, TerminalStatuses
  <2>2. faults' \in 0..MaxFaults
    BY <1>6, BoundsAssumption DEF EnqueueFails, Fault, TypeOK
  <2>3. api' \in [Builds -> BOOLEAN]
    BY <1>6 DEF EnqueueFails, TypeOK
  <2> QED
    BY <1>6, <2>1, <2>2, <2>3 DEF EnqueueFails, TypeOK, jobVars, sweepVars, gpuVars
<1>7. ASSUME NEW b \in Builds, ApiDies(b) PROVE TypeOK'
  BY <1>7, BoundsAssumption DEF ApiDies, Fault, TypeOK, dbVars, jobVars, sweepVars, gpuVars
<1>8. ASSUME NEW p \in Profiles, DeleteProfile(p) PROVE TypeOK'
  BY <1>8 DEF DeleteProfile, TypeOK, jobVars, sweepVars, gpuVars
<1> QED
  BY <1>1, <1>2, <1>3, <1>4, <1>5, <1>6, <1>7, <1>8 DEF ApiNext

LEMMA FreeJobType == FreeJob \in Jobs
BY BoundsAssumption DEF FreeJob, Jobs, Builds

(* A job that arq runs again, or gives up, is a job.                       *)
LEMMA RetriedType == ASSUME NEW r \in Jobs PROVE Retried(r) \in Jobs
<1>1. CASE r.tries < MaxTries
  <2>1. r.tries + 1 \in 0..MaxTries
    BY <1>1, BoundsAssumption DEF Jobs
  <2> QED
    BY <1>1, <2>1 DEF Retried, Jobs
<1>2. CASE ~(r.tries < MaxTries)
  BY <1>2, FreeJobType DEF Retried
<1> QED
  BY <1>1, <1>2

LEMMA WorkerType == TypeOK /\ WorkerNext => TypeOK'
<1> SUFFICES ASSUME TypeOK, WorkerNext PROVE TypeOK'
  OBVIOUS
<1>1. ASSUME NEW j \in Slots, Start(j) PROVE TypeOK'
  <2>1. rows' \in [Builds -> Rows] /\ jobs' \in [Slots -> Jobs]
    BY <1>1, EnterType, NextStage, DirType DEF Start, PostStages
  <2> QED
    BY <1>1, <2>1, DirType DEF Start, TypeOK, JobFrame, sweepVars, gpuVars
<1>2. ASSUME NEW j \in Slots, Handover(j) PROVE TypeOK'
  <2>1. rows' \in [Builds -> Rows] /\ jobs' \in [Slots -> Jobs]
    BY <1>2, EnterType, NextStage, DirType DEF Handover, PostStages
  <2> QED
    BY <1>2, <2>1, DirType DEF Handover, TypeOK, JobFrame, sweepVars, gpuVars
<1>3. ASSUME NEW j \in Slots, ProfileNotFound(j) PROVE TypeOK'
  <2>1. jobs' \in [Slots -> Jobs]
    BY <1>3, GoToType DEF ProfileNotFound
  <2>2. rows' \in [Builds -> Rows]
    BY <1>3, UpdateType, DirType DEF ProfileNotFound, Statuses, TerminalStatuses
  <2> QED
    BY <1>3, <2>1, <2>2, DirType DEF ProfileNotFound, TypeOK, JobFrame, sweepVars, gpuVars
<1>4. ASSUME NEW j \in Slots, GenerateData(j) PROVE TypeOK'
  <2>1. rows' \in [Builds -> Rows] /\ jobs' \in [Slots -> Jobs]
    BY <1>4, EnterType, NextStage, DirType DEF GenerateData, PostStages
  <2> QED
    BY <1>4, <2>1, DirType DEF GenerateData, TypeOK, JobFrame, sweepVars, gpuVars
<1>5. ASSUME NEW j \in Slots, TrainLocally(j) PROVE TypeOK'
  <2>1. jobs' \in [Slots -> Jobs]
    BY <1>5, GoToType DEF TrainLocally, Stages, GpuStages, PostStages
  <2> QED
    BY <1>5, <2>1, DirType DEF TrainLocally, TypeOK, JobFrame, sweepVars, gpuVars
<1>6. ASSUME NEW j \in Slots, UploadTrainingData(j) PROVE TypeOK'
  <2>1. jobs' \in [Slots -> Jobs]
    BY <1>6, GoToType DEF UploadTrainingData, Stages, GpuStages, PostStages
  <2>2. s3' \in [Builds -> [data : BOOLEAN, result : {"none", "completed", "failed"},
                            gguf : BOOLEAN]]
    BY <1>6, BuildOfJob DEF UploadTrainingData, TypeOK
  <2>3. UNCHANGED <<gpuMode, live, rows, txn, api, dir, sweep, post, ec2, boot, faults>>
    BY <1>6 DEF UploadTrainingData, JobFrame, sweepVars
  <2> QED
    BY <2>1, <2>2, <2>3 DEF TypeOK
<1>7. ASSUME NEW j \in Slots, SeeInstanceState(j) PROVE TypeOK'
  <2>1. jobs' \in [Slots -> Jobs]
    BY <1>7, GoToType DEF SeeInstanceState, Stages, GpuStages, PostStages
  <2> QED
    BY <1>7, <2>1, DirType DEF SeeInstanceState, TypeOK, JobFrame, sweepVars, gpuVars
<1>8. ASSUME NEW j \in Slots, StartInstance(j) PROVE TypeOK'
  <2>1. jobs' \in [Slots -> Jobs]
    BY <1>8, GoToType DEF StartInstance, Stages, GpuStages, PostStages
  <2> QED
    BY <1>8, <2>1, DirType DEF StartInstance, TypeOK, JobFrame, sweepVars, gpuVars, NoBoot
<1>9. ASSUME NEW j \in Slots, MarkGpuBuild(j) PROVE TypeOK'
  <2>1. jobs' \in [Slots -> Jobs]
    BY <1>9, GoToType DEF MarkGpuBuild
  <2>2. rows' \in [Builds -> Rows]
    <3>1. [RowOf(j) EXCEPT !.gpu = TRUE] \in Rows
      BY DirType DEF Rows
    <3> QED
      BY <1>9, <3>1, DirType DEF MarkGpuBuild, TypeOK, RowOf
  <2> QED
    BY <1>9, <2>1, <2>2 DEF MarkGpuBuild, TypeOK, JobFrame, sweepVars, gpuVars
<1>10. ASSUME NEW j \in Slots, Quantize(j) PROVE TypeOK'
  <2>1. rows' \in [Builds -> Rows] /\ jobs' \in [Slots -> Jobs]
    BY <1>10, EnterType, NextStage, DirType DEF Quantize, PostStages
  <2> QED
    BY <1>10, <2>1, DirType DEF Quantize, TypeOK, JobFrame, sweepVars, gpuVars
<1>11. ASSUME NEW j \in Slots, EvaluatePasses(j) PROVE TypeOK'
  <2>1. [RowOf(j) EXCEPT !.gated = TRUE] \in Rows
    BY DirType DEF Rows
  <2>2. rows' \in [Builds -> Rows] /\ jobs' \in [Slots -> Jobs]
    BY <1>11, <2>1, EnterType, NextStage DEF EvaluatePasses, PostStages
  <2> QED
    BY <1>11, <2>2, DirType DEF EvaluatePasses, TypeOK, JobFrame, sweepVars, gpuVars
<1>12. ASSUME NEW j \in Slots, DownloadAborts(j) PROVE TypeOK'
  <2>1. jobs' \in [Slots -> Jobs]
    BY <1>12, GoToType DEF DownloadAborts, Stages, GpuStages, PostStages
  <2> QED
    BY <1>12, <2>1, DirType DEF DownloadAborts, TypeOK, JobFrame, sweepVars, gpuVars
<1>13. ASSUME NEW j \in Slots, Deploy(j) PROVE TypeOK'
  <2>1. [RowOf(j) EXCEPT !.uri = TRUE] \in Rows
    BY DirType DEF Rows
  <2>2. rows' \in [Builds -> Rows] /\ jobs' \in [Slots -> Jobs]
    BY <1>13, <2>1, EnterType, NextStage DEF Deploy, PostStages
  <2> QED
    BY <1>13, <2>2, DirType DEF Deploy, TypeOK, JobFrame, sweepVars, gpuVars
<1>14. ASSUME NEW j \in Slots, Complete(j) PROVE TypeOK'
  <2>1. jobs' \in [Slots -> Jobs]
    BY <1>14, GoToType DEF Complete
  <2>2. rows' \in [Builds -> Rows]
    BY <1>14, UpdateType, DirType DEF Complete, Statuses, TerminalStatuses
  <2> QED
    BY <1>14, <2>1, <2>2, DirType DEF Complete, TypeOK, JobFrame, sweepVars, gpuVars
<1>15. ASSUME NEW j \in Slots, StageFails(j) PROVE TypeOK'
  <2>1. jobs' \in [Slots -> Jobs]
    BY <1>15, GoToType DEF StageFails
  <2>2. rows' \in [Builds -> Rows]
    BY <1>15, UpdateType, DirType DEF StageFails, Statuses, TerminalStatuses
  <2> QED
    BY <1>15, <2>1, <2>2, DirType DEF StageFails, TypeOK, JobFrame, sweepVars, gpuVars
<1>16. ASSUME NEW j \in Slots, Acknowledge(j) PROVE TypeOK'
  <2>1. jobs' \in [Slots -> Jobs]
    BY <1>16, FreeJobType DEF Acknowledge, TypeOK
  <2> QED
    BY <1>16, <2>1 DEF Acknowledge, TypeOK, JobFrame, sweepVars, gpuVars
<1>17. ASSUME NEW j \in Slots, WorkerStops(j) PROVE TypeOK'
  <2>1. Retried(jobs[j]) \in Jobs
    BY RetriedType DEF TypeOK
  <2>2. jobs' \in [Slots -> Jobs]
    BY <1>17, <2>1 DEF WorkerStops, TypeOK
  <2>3. dir' \in [Builds -> SUBSET {"data", "model", "gguf"}]
    BY <1>17, DirType DEF WorkerStops, TypeOK
  <2> QED
    BY <1>17, <2>2, <2>3, BoundsAssumption DEF WorkerStops, Fault, TypeOK, dbVars, sweepVars, gpuVars
<1>18. ASSUME NEW j \in Slots, JobAborts(j) PROVE TypeOK'
  <2>1. jobs' \in [Slots -> Jobs]
    BY <1>18, GoToType DEF JobAborts
  <2>2. dir' \in [Builds -> SUBSET {"data", "model", "gguf"}]
    BY <1>18, DirType DEF JobAborts, TypeOK
  <2> QED
    BY <1>18, <2>1, <2>2, BoundsAssumption DEF JobAborts, Fault, TypeOK, dbVars, sweepVars, gpuVars
<1> QED
  BY <1>1, <1>2, <1>3, <1>4, <1>5, <1>6, <1>7, <1>8, <1>9, <1>10, <1>11, <1>12, <1>13, <1>14, <1>15, <1>16, <1>17, <1>18 DEF WorkerNext, JobStep

LEMMA SweepType == TypeOK /\ SweepNext => TypeOK'
<1> SUFFICES ASSUME TypeOK, SweepNext PROVE TypeOK'
  OBVIOUS
<1>1. ASSUME NEW b \in Builds, ListTraining(b) PROVE TypeOK'
  BY <1>1 DEF ListTraining, TypeOK, SweepFrame, gpuVars, SetSweep, SetPost
<1>2. ASSUME NEW b \in Builds, ClaimForSweep(b) PROVE TypeOK'
  BY <1>2 DEF ClaimForSweep, TypeOK, SweepFrame, gpuVars, SetSweep, SetPost
<1>3. ASSUME NEW b \in Builds, SweepProfileGone(b) PROVE TypeOK'
  <2>1. rows' \in [Builds -> Rows]
    BY <1>3, UpdateType DEF SweepProfileGone, Statuses, TerminalStatuses
  <2> QED
    BY <1>3, <2>1 DEF SweepProfileGone, TypeOK, SweepFrame, gpuVars, SetSweep, SetPost
<1>4. ASSUME NEW b \in Builds, NEW j \in Slots, SweepSuccess(b, j) PROVE TypeOK'
  <2>1. jobs' \in [Slots -> Jobs]
    BY <1>4, EnqueueType DEF SweepSuccess
  <2> QED
    BY <1>4, <2>1 DEF SweepSuccess, TypeOK, SweepFrame, gpuVars, SetSweep, SetPost
<1>5. ASSUME NEW b \in Builds, SweepFailedResult(b) PROVE TypeOK'
  <2>1. rows' \in [Builds -> Rows]
    BY <1>5, UpdateType DEF SweepFailedResult, Statuses, TerminalStatuses
  <2> QED
    BY <1>5, <2>1 DEF SweepFailedResult, TypeOK, SweepFrame, gpuVars, SetSweep, SetPost
<1>6. ASSUME NEW b \in Builds, SweepNoResult(b) PROVE TypeOK'
  BY <1>6 DEF SweepNoResult, TypeOK, SweepFrame, gpuVars, SetSweep, SetPost
<1>7. ASSUME NEW b \in Builds, SweepInstanceStopped(b) PROVE TypeOK'
  <2>1. rows' \in [Builds -> Rows]
    BY <1>7, UpdateType DEF SweepInstanceStopped, Statuses, TerminalStatuses
  <2> QED
    BY <1>7, <2>1 DEF SweepInstanceStopped, TypeOK, SweepFrame, gpuVars, SetSweep, SetPost
<1>8. ASSUME NEW b \in Builds, SweepStillRunning(b) PROVE TypeOK'
  BY <1>8 DEF SweepStillRunning, TypeOK, SweepFrame, gpuVars, SetSweep, SetPost
<1>9. ASSUME NEW b \in Builds, SweepDies(b) PROVE TypeOK'
  BY <1>9, BoundsAssumption DEF SweepDies, Fault, TypeOK, SweepFrame, gpuVars, SetSweep, SetPost
<1>10. ASSUME NEW b \in Builds, ListStuckPostTrain(b) PROVE TypeOK'
  BY <1>10 DEF ListStuckPostTrain, TypeOK, SweepFrame, gpuVars, SetSweep, SetPost
<1>11. ASSUME NEW b \in Builds, FailStuckPostTrain(b) PROVE TypeOK'
  <2>1. rows' \in [Builds -> Rows]
    BY <1>11, UpdateType DEF FailStuckPostTrain, Statuses, TerminalStatuses
  <2> QED
    BY <1>11, <2>1 DEF FailStuckPostTrain, TypeOK, SweepFrame, gpuVars, SetSweep, SetPost
<1> QED
  BY <1>1, <1>2, <1>3, <1>4, <1>5, <1>6, <1>7, <1>8, <1>9, <1>10, <1>11 DEF SweepNext, TrainingSweep, PostSweep

LEMMA GpuType == TypeOK /\ GpuNext => TypeOK'
<1> SUFFICES ASSUME TypeOK, GpuNext PROVE TypeOK'
  OBVIOUS
<1>1. ASSUME NEW p \in Profiles, BootListsProfile(p) PROVE TypeOK'
  BY <1>1 DEF BootListsProfile, TypeOK, BootFrame, dbVars, jobVars, sweepVars
<1>2. ASSUME NEW b \in Builds, BootSkips(b) PROVE TypeOK'
  BY <1>2 DEF BootSkips, TypeOK, BootFrame, dbVars, jobVars, sweepVars
<1>3. ASSUME NEW b \in Builds, BootTrains(b) PROVE TypeOK'
  BY <1>3 DEF BootTrains, BootTrainsAny, TypeOK, BootFrame, dbVars, jobVars, sweepVars
<1>4. ASSUME BootTrainingFails PROVE TypeOK'
  BY <1>4 DEF BootTrainingFails, TypeOK, BootFrame, dbVars, jobVars, sweepVars
<1>5. ASSUME BootTrainingSucceeds PROVE TypeOK'
  BY <1>5 DEF BootTrainingSucceeds, TypeOK, BootFrame, dbVars, jobVars, sweepVars
<1>6. ASSUME BootUploadsResult PROVE TypeOK'
  BY <1>6 DEF BootUploadsResult, TypeOK, BootFrame, dbVars, jobVars, sweepVars
<1>7. ASSUME BootUploadsGguf PROVE TypeOK'
  BY <1>7 DEF BootUploadsGguf, TypeOK, BootFrame, dbVars, jobVars, sweepVars
<1>8. ASSUME BootSyncEnds PROVE TypeOK'
  BY <1>8 DEF BootSyncEnds, TypeOK, BootFrame, dbVars, jobVars, sweepVars
<1>9. ASSUME BootShutsDown PROVE TypeOK'
  BY <1>9 DEF BootShutsDown, NoBoot, TypeOK, BootFrame, dbVars, jobVars, sweepVars
<1>10. ASSUME InstanceStops PROVE TypeOK'
  BY <1>10 DEF InstanceStops, TypeOK, BootFrame, dbVars, jobVars, sweepVars
<1>11. ASSUME BootScriptDies PROVE TypeOK'
  BY <1>11, BoundsAssumption DEF BootScriptDies, NoBoot, Fault, TypeOK, BootFrame, dbVars, jobVars, sweepVars
<1>12. ASSUME InstanceLost PROVE TypeOK'
  BY <1>12, BoundsAssumption DEF InstanceLost, NoBoot, Fault, TypeOK, BootFrame, dbVars, jobVars, sweepVars
<1> QED
  BY <1>1, <1>2, <1>3, <1>4, <1>5, <1>6, <1>7, <1>8, <1>9, <1>10, <1>11, <1>12 DEF GpuNext, BootStep

-----------------------------------------------------------------------------

(* TypeOK is inductive: every variable of the pipeline keeps its shape,    *)
(* for all values of the constants.                                        *)
THEOREM TypeCorrect == Spec => []TypeOK
<1>1. Init => TypeOK
  BY InitTypeOK
<1>2. TypeOK /\ [Next]_vars => TypeOK'
  <2> SUFFICES ASSUME TypeOK, [Next]_vars PROVE TypeOK'
    OBVIOUS
  <2>1. CASE Next
    BY <2>1, ApiType, WorkerType, SweepType, GpuType DEF Next
  <2>2. CASE UNCHANGED vars
    BY <2>2 DEF vars, TypeOK, jobVars, sweepVars, gpuVars
  <2> QED
    BY <2>1, <2>2
<1> QED
  BY <1>1, <1>2, PTL DEF Spec

-----------------------------------------------------------------------------
(***************************************************************************)
(* The two invariants that protect a release: nothing is completed or      *)
(* published that the gate did not let through, and the triggered builds   *)
(* of a profile follow one another.                                        *)
(***************************************************************************)

Known(b)    == rows[b].status # "absent"
Terminal(r) == r.status \in TerminalStatuses

\* A job that is about to deploy or complete has a build that passed the gate.
DeployGated ==
    \A j \in Slots : jobs[j].pc \in {"deploy", "complete"} => rows[jobs[j].build].gated

\* Routes, jobs and sweeps work on builds that were inserted: an insertion,
\* which clears the marks of a row, cannot hit a build somebody works on.
WorkIsKnown ==
    /\ \A j \in Slots : jobs[j].pc # "free" => Known(jobs[j].build)
    /\ \A b \in Builds : api[b] \/ sweep[b] # "idle" \/ post[b] # "idle" => Known(b)

EndIsRecorded == \A b \in Builds : Terminal(rows[b]) => rows[b].ended
InsertedInOrder == \A b, c \in Builds : c < b /\ Known(b) => Known(c)

\* A transaction that counted no active build is the only one of its profile,
\* and what it counted still holds.
CountHolds ==
    \A p \in Profiles :
        /\ txn[p] \in {0, 1}
        /\ txn[p] = 1 =>
             \A b \in Builds :
                 Known(b) /\ rows[b].profile = p /\ rows[b].origin = "trigger" => rows[b].ended

ReleaseInv ==
    /\ TypeOK
    /\ GateBeforeRelease
    /\ DeployGated
    /\ WorkIsKnown
    /\ EndIsRecorded
    /\ InsertedInOrder
    /\ CountHolds
    /\ TriggeredSerialized

-----------------------------------------------------------------------------
(* What a step that inserts no build and counts none does.                 *)

\* A row is written over: the build stays the same one, no mark is taken back,
\* an end is recorded, and it is released only if it passed the gate.
Touched(r, r2) ==
    /\ r.status # "absent" /\ r2.status # "absent"
    /\ r2.profile = r.profile /\ r2.origin = r.origin
    /\ r.gated => r2.gated
    /\ r.ended => r2.ended
    /\ Terminal(r2) => r2.ended
    /\ r2.status = "completed" => r2.gated
    /\ r2.uri => r.uri \/ r2.gated

RowsMove == \A b \in Builds : rows'[b] = rows[b] \/ Touched(rows[b], rows'[b])

\* A job is freed, queued for a known build, or carries on with its build.
JobsMove ==
    \A j \in Slots :
        \/ jobs'[j].pc = "free"
        \/ jobs'[j].pc = "queued" /\ Known(jobs'[j].build)
        \/ /\ jobs[j].pc # "free" /\ jobs'[j].build = jobs[j].build
           /\ jobs'[j].pc \in {"deploy", "complete"} =>
                \/ jobs[j].pc \in {"deploy", "complete"}
                \/ rows'[jobs[j].build].gated

\* Counts end, and routes and sweeps turn only to known builds.
UsersMove ==
    /\ \A p \in Profiles : txn'[p] = txn[p] \/ txn'[p] = 0
    /\ \A b \in Builds : api'[b] \/ sweep'[b] # "idle" \/ post'[b] # "idle" => Known(b)

LEMMA KeptStep ==
    ASSUME ReleaseInv, TypeOK', RowsMove, JobsMove, UsersMove
    PROVE  ReleaseInv'
<1> USE DEF ReleaseInv
<1>1. \A b \in Builds : (Known(b) => Known(b)') /\ (Known(b)' => Known(b))
  BY DEF RowsMove, Touched, Known
<1>2. \A j \in Slots : jobs[j].build \in Builds /\ jobs'[j].build \in Builds
  BY DEF TypeOK, Jobs
<1>3. GateBeforeRelease'
  BY DEF GateBeforeRelease, RowsMove, Touched
<1>4. DeployGated'
  <2> SUFFICES ASSUME NEW j \in Slots, jobs'[j].pc \in {"deploy", "complete"}
               PROVE  rows'[jobs'[j].build].gated
    BY DEF DeployGated
  <2>1. /\ jobs[j].pc # "free" /\ jobs'[j].build = jobs[j].build
        /\ \/ jobs[j].pc \in {"deploy", "complete"}
           \/ rows'[jobs[j].build].gated
    BY DEF JobsMove
  <2>2. CASE jobs[j].pc \in {"deploy", "complete"}
    <3>1. rows[jobs[j].build].gated
      BY <2>2 DEF DeployGated
    <3> QED
      BY <1>2, <2>1, <3>1 DEF RowsMove, Touched
  <2> QED
    BY <2>1, <2>2
<1>5. WorkIsKnown'
  <2>1. ASSUME NEW j \in Slots, jobs'[j].pc # "free" PROVE rows'[jobs'[j].build].status # "absent"
    <3>1. Known(jobs'[j].build)
      BY <2>1 DEF JobsMove, WorkIsKnown
    <3> QED
      BY <3>1, <1>2 DEF RowsMove, Touched, Known
  <2>2. ASSUME NEW b \in Builds, api'[b] \/ sweep'[b] # "idle" \/ post'[b] # "idle"
        PROVE  Known(b)'
    BY <2>2, <1>1 DEF UsersMove
  <2> QED
    BY <2>1, <2>2 DEF WorkIsKnown, Known
<1>6. EndIsRecorded'
  BY DEF EndIsRecorded, Terminal, RowsMove, Touched
<1>7. InsertedInOrder'
  BY <1>1 DEF InsertedInOrder
<1>8. \A b \in Builds : /\ rows'[b].profile = rows[b].profile
                        /\ rows'[b].origin = rows[b].origin
                        /\ rows[b].ended => rows'[b].ended
  BY DEF RowsMove, Touched
<1>9. CountHolds'
  BY <1>1, <1>8 DEF CountHolds, UsersMove, Known
<1>10. TriggeredSerialized'
  BY <1>1, <1>8 DEF TriggeredSerialized, Known
<1> QED
  BY <1>3, <1>4, <1>5, <1>6, <1>7, <1>9, <1>10

-----------------------------------------------------------------------------
(* The helpers move rows and jobs that way.                                *)

LEMMA UpdateMoves ==
    ASSUME ReleaseInv, NEW b \in Builds, NEW st \in TerminalStatuses, Known(b),
           st = "completed" => rows[b].gated, Update(b, st)
    PROVE  RowsMove
<1>1. rows[b] \in Rows /\ rows \in [Builds -> Rows]
  BY DEF ReleaseInv, TypeOK
<1>2. rows'[b] = SetStatus(rows[b], st)
  BY <1>1 DEF Update
<1>3. \A c \in Builds : c # b => rows'[c] = rows[c]
  BY <1>1 DEF Update
<1>4. Touched(rows[b], SetStatus(rows[b], st))
  BY <1>1, SetStatusRow DEF Touched, Terminal, Known, TerminalStatuses, Statuses
<1> QED
  BY <1>2, <1>3, <1>4 DEF RowsMove

LEMMA GoToMoves ==
    ASSUME ReleaseInv, NEW j \in Slots, NEW pc \in Stages \cup {"queued", "ack"},
           GoTo(j, pc), jobs[j].pc # "free",
           pc \in {"deploy", "complete"} => rows'[jobs[j].build].gated
    PROVE  JobsMove
<1>1. jobs \in [Slots -> Jobs]
  BY DEF ReleaseInv, TypeOK
<1>2. jobs'[j].pc = pc /\ jobs'[j].build = jobs[j].build
  BY <1>1 DEF GoTo, Jobs
<1>3. \A i \in Slots : i # j => jobs'[i] = jobs[i]
  BY <1>1 DEF GoTo
<1> QED
  BY <1>2, <1>3 DEF JobsMove

LEMMA EnqueueMoves ==
    ASSUME ReleaseInv, NEW j \in Slots, NEW b \in Builds, NEW kind \in {"pre", "post"},
           Known(b), Enqueue(j, kind, b)
    PROVE  JobsMove
<1>1. jobs \in [Slots -> Jobs]
  BY DEF ReleaseInv, TypeOK
<1>2. jobs'[j].pc = "queued" /\ jobs'[j].build = b
  BY <1>1 DEF Enqueue
<1>3. \A i \in Slots : i # j => jobs'[i] = jobs[i]
  BY <1>1 DEF Enqueue
<1> QED
  BY <1>2, <1>3 DEF JobsMove

\* A job enters a stage over the row r, which differs from the row of its build
\* at most by marks; it enters the last two stages only with the gate passed.
LEMMA EnterMoves ==
    ASSUME ReleaseInv, NEW j \in Slots, NEW r \in Rows,
           NEW stage \in {"generate", "train", "handover"} \cup PostStages,
           jobs[j].pc # "free", Enter(j, stage, r),
           r.status = RowOf(j).status, r.profile = RowOf(j).profile,
           r.origin = RowOf(j).origin, r.ended = RowOf(j).ended,
           RowOf(j).gated => r.gated, r.uri => RowOf(j).uri \/ r.gated,
           stage \in {"deploy", "complete"} => r.gated
    PROVE  RowsMove /\ JobsMove
<1> DEFINE b == jobs[j].build
           new == IF stage \in {"handover", "complete"} THEN r ELSE SetStatus(r, StatusOf(stage))
<1>1. rows \in [Builds -> Rows] /\ b \in Builds /\ RowOf(j) = rows[b]
  BY DEF ReleaseInv, TypeOK, Jobs, RowOf
<1>2. Known(b)
  BY DEF ReleaseInv, WorkIsKnown
<1>3. rows[b].status = "completed" => rows[b].gated
  BY <1>1 DEF ReleaseInv, GateBeforeRelease
<1>4. rows[b].status \in TerminalStatuses => rows[b].ended
  BY <1>1 DEF ReleaseInv, EndIsRecorded, Terminal
<1>5. Touched(rows[b], new) /\ new.gated = r.gated
  <2>1. CASE stage \in {"handover", "complete"}
    <3>1. new = r
      BY <2>1
    <3> HIDE DEF new, b
    <3> QED
      BY <1>1, <1>2, <1>3, <1>4, <3>1 DEF Touched, Terminal, Known
  <2>2. CASE stage \notin {"handover", "complete"}
    <3>1. stage \in {"generate", "train", "quantize", "evaluate", "deploy"}
      BY <2>2 DEF PostStages
    <3>2. StatusOf(stage) \in ActiveStatuses
      BY <3>1, StageStatus
    <3>3. /\ StatusOf(stage) \in Statuses
          /\ StatusOf(stage) \notin TerminalStatuses
          /\ StatusOf(stage) \notin {"absent", "completed"}
      BY <3>2 DEF Statuses, ActiveStatuses, PostStatuses, TerminalStatuses
    <3>4. new = SetStatus(r, StatusOf(stage))
      BY <2>2
    <3> HIDE DEF new, b
    <3>5. /\ new.status = StatusOf(stage) /\ new.profile = r.profile
          /\ new.origin = r.origin /\ new.uri = r.uri /\ new.gated = r.gated
          /\ r.ended => new.ended
      BY <3>3, <3>4, SetStatusRow
    <3>6. ~Terminal(new) /\ new.status # "absent" /\ new.status # "completed"
      BY <3>3, <3>5 DEF Terminal
    <3> QED
      BY <1>1, <1>2, <3>5, <3>6 DEF Touched, Known
  <2> QED
    BY <2>1, <2>2
<1>6. rows' = [rows EXCEPT ![b] = new]
  BY DEF Enter
<1>7. RowsMove
  <2> HIDE DEF new, b
  <2> QED
    BY <1>1, <1>5, <1>6 DEF RowsMove
<1>8. JobsMove
  <2>1. stage \in {"deploy", "complete"} => rows'[b].gated
    <3> HIDE DEF new, b
    <3> QED
      BY <1>1, <1>5, <1>6
  <2>2. stage \in Stages \cup {"queued", "ack"}
    BY DEF Stages
  <2> QED
    BY <2>1, <2>2, GoToMoves DEF Enter
<1> QED
  BY <1>7, <1>8

-----------------------------------------------------------------------------
(* The steps, process by process.                                          *)

\* A build is inserted: as the next one, with no marks and nobody at work on it.
LEMMA InsertStep ==
    ASSUME ReleaseInv, TypeOK', NEW b \in Builds, NEW p \in Profiles,
           NEW origin \in {"trigger", "reset"}, NEW steps \in SUBSET Steps,
           IsNext(b), Insert(b, p, origin, steps),
           UNCHANGED <<jobs, sweep, post>>,
           api' = [api EXCEPT ![b] = TRUE],
           \A q \in Profiles : txn'[q] = txn[q] \/ txn'[q] = 0,
           origin = "trigger" => txn[p] = 1 /\ txn'[p] = 0
    PROVE  ReleaseInv'
<1> USE DEF ReleaseInv
<1>1. /\ rows'[b].status = "pending" /\ rows'[b].profile = p /\ rows'[b].origin = origin
      /\ ~rows'[b].uri /\ ~rows'[b].gated /\ ~rows'[b].ended
  BY DEF Insert, NewRow, TypeOK
<1>2. \A c \in Builds : c # b => rows'[c] = rows[c]
  BY DEF Insert, TypeOK
<1>3. ~Known(b) /\ \A c \in Builds : c < b => Known(c)
  BY DEF IsNext, Known
<1>4. \A c \in Builds : Known(c)' <=> c = b \/ Known(c)
  BY <1>1, <1>2 DEF Known
<1>5. \A j \in Slots : jobs[j].pc # "free" => jobs[j].build \in Builds /\ jobs[j].build # b
  <2>1. \A j \in Slots : jobs[j].build \in Builds
    BY DEF TypeOK, Jobs
  <2> QED
    BY <2>1, <1>3 DEF WorkIsKnown
<1>6. GateBeforeRelease'
  BY <1>1, <1>2 DEF GateBeforeRelease
<1>7. DeployGated'
  BY <1>2, <1>5 DEF DeployGated
<1>8. WorkIsKnown'
  BY <1>4, <1>5 DEF WorkIsKnown, TypeOK, Known
<1>9. EndIsRecorded'
  BY <1>1, <1>2 DEF EndIsRecorded, Terminal, TerminalStatuses
<1>10. InsertedInOrder'
  <2> SUFFICES ASSUME NEW c \in Builds, NEW d \in Builds, c < d, Known(d)' PROVE Known(c)'
    BY DEF InsertedInOrder, Known
  <2>1. CASE d = b
    BY <2>1, <1>3, <1>4
  <2>2. CASE d # b
    BY <2>2, <1>4 DEF InsertedInOrder
  <2> QED
    BY <2>1, <2>2
<1>11. CountHolds'
  <2> SUFFICES ASSUME NEW q \in Profiles
               PROVE  /\ txn'[q] \in {0, 1}
                      /\ txn'[q] = 1 =>
                           \A c \in Builds :
                              Known(c)' /\ rows'[c].profile = q /\ rows'[c].origin = "trigger"
                                 => rows'[c].ended
    BY DEF CountHolds, Known
  <2>1. txn'[q] \in {0, 1}
    BY DEF CountHolds
  <2>2. ASSUME txn'[q] = 1, NEW c \in Builds, Known(c)', rows'[c].profile = q,
               rows'[c].origin = "trigger"
        PROVE  rows'[c].ended
    <3>1. txn[q] = 1
      BY <2>2
    <3>2. c # b
      BY <2>2, <1>1
    <3> QED
      BY <2>2, <3>1, <3>2, <1>2, <1>4 DEF CountHolds
  <2> QED
    BY <2>1, <2>2
<1>12. TriggeredSerialized'
  <2> SUFFICES ASSUME NEW c \in Builds, NEW d \in Builds, c < d,
                      rows'[c].profile = rows'[d].profile,
                      rows'[c].origin = "trigger", Known(c)',
                      rows'[d].origin = "trigger", Known(d)'
               PROVE  rows'[c].ended
    BY DEF TriggeredSerialized, Known
  <2>1. CASE d = b
    <3>1. origin = "trigger" /\ c # b /\ Known(c)
      BY <2>1, <1>1, <1>4 DEF Builds
    <3> QED
      BY <2>1, <3>1, <1>1, <1>2 DEF CountHolds
  <2>2. CASE c = b
    <3>1. Known(d) /\ b < d
      BY <2>2, <1>4 DEF Builds
    <3> QED
      BY <3>1, <1>3 DEF InsertedInOrder
  <2>3. CASE c # b /\ d # b
    BY <2>3, <1>2, <1>4 DEF TriggeredSerialized, Known
  <2> QED
    BY <2>1, <2>2, <2>3
<1> QED
  BY <1>6, <1>7, <1>8, <1>9, <1>10, <1>11, <1>12

LEMMA ApiRelease == ReleaseInv /\ ApiNext => ReleaseInv'
<1> SUFFICES ASSUME ReleaseInv, ApiNext PROVE ReleaseInv'
  OBVIOUS
<1>t. TypeOK /\ TypeOK'
  BY ApiType DEF ReleaseInv
<1>1. ASSUME NEW p \in Profiles, CountActive(p) PROVE ReleaseInv'
  <2>1. UNCHANGED <<rows, api, jobs, sweep, post>>
    BY <1>1 DEF CountActive, CountActiveNoLock, jobVars, sweepVars
  <2>2. txn[p] = 0 /\ txn'[p] = 1 /\ \A q \in Profiles : q # p => txn'[q] = txn[q]
    BY <1>1, <1>t DEF CountActive, CountActiveNoLock, TypeOK
  <2>3. \A b \in Builds : Known(b) /\ rows[b].profile = p => rows[b].ended
    <3> SUFFICES ASSUME NEW b \in Builds, Known(b), rows[b].profile = p PROVE rows[b].ended
      OBVIOUS
    <3>1. rows[b].status \in Statuses
      BY <1>t DEF TypeOK, Rows
    <3>2. rows[b].status \notin ActiveStatuses
      BY <1>1 DEF CountActive, CountActiveNoLock, Active
    <3>3. rows[b].status \in TerminalStatuses
      BY <3>1, <3>2 DEF Statuses, Known
    <3> QED
      BY <3>3 DEF ReleaseInv, EndIsRecorded, Terminal
  <2>4. CountHolds'
    BY <2>1, <2>2, <2>3 DEF ReleaseInv, CountHolds, Known
  <2> QED
    BY <1>t, <2>1, <2>4 DEF ReleaseInv, GateBeforeRelease, DeployGated, WorkIsKnown, Known,
          EndIsRecorded, Terminal, InsertedInOrder, TriggeredSerialized
<1>2. ASSUME NEW p \in Profiles, NEW b \in Builds, NEW steps \in StepChoices,
             InsertTriggered(p, b, steps)
      PROVE  ReleaseInv'
  <2>1. txn[p] = 1 /\ txn'[p] = 0 /\ \A q \in Profiles : txn'[q] = txn[q] \/ txn'[q] = 0
    BY <1>2, <1>t DEF InsertTriggered, ReleaseInv, CountHolds, TypeOK
  <2>2. steps \in SUBSET Steps
    BY StepsAssumption
  <2> QED
    BY <1>2, <1>t, <2>1, <2>2, InsertStep DEF InsertTriggered, jobVars, sweepVars
<1>3. ASSUME NEW p \in Profiles, NEW b \in Builds, ResetToBase(p, b) PROVE ReleaseInv'
  <2>1. ResetSteps \in SUBSET Steps
    BY DEF ResetSteps, Steps
  <2> QED
    BY <1>3, <1>t, <2>1, InsertStep DEF ResetToBase, jobVars, sweepVars
<1>4. ASSUME NEW p \in Profiles, TriggerRollsBack(p) PROVE ReleaseInv'
  <2>1. \A q \in Profiles : txn'[q] = txn[q] \/ txn'[q] = 0
    BY <1>4, <1>t DEF TriggerRollsBack, ReleaseInv, CountHolds, TypeOK
  <2>2. RowsMove /\ JobsMove /\ UsersMove
    BY <1>4, <2>1 DEF TriggerRollsBack, RowsMove, JobsMove, UsersMove, ReleaseInv, WorkIsKnown,
          jobVars, sweepVars
  <2> QED
    BY <1>t, <2>2, KeptStep
<1>5. ASSUME NEW b \in Builds, NEW j \in Slots, EnqueuePreTrain(b, j) PROVE ReleaseInv'
  <2>1. Known(b)
    BY <1>5 DEF EnqueuePreTrain, ReleaseInv, WorkIsKnown
  <2>2. JobsMove
    BY <1>5, <2>1, EnqueueMoves DEF EnqueuePreTrain
  <2>3. RowsMove /\ UsersMove
    BY <1>5, <1>t DEF EnqueuePreTrain, RowsMove, UsersMove, ReleaseInv, WorkIsKnown, TypeOK,
          dbVars, sweepVars
  <2> QED
    BY <1>t, <2>2, <2>3, KeptStep
<1>6. ASSUME NEW b \in Builds, EnqueueFails(b) PROVE ReleaseInv'
  <2>1. Known(b)
    BY <1>6 DEF EnqueueFails, ReleaseInv, WorkIsKnown
  <2>2. RowsMove
    BY <1>6, <2>1, UpdateMoves DEF EnqueueFails, TerminalStatuses
  <2>3. JobsMove /\ UsersMove
    BY <1>6, <1>t DEF EnqueueFails, JobsMove, UsersMove, ReleaseInv, WorkIsKnown, TypeOK,
          jobVars, sweepVars
  <2> QED
    BY <1>t, <2>2, <2>3, KeptStep
<1>7. ASSUME NEW b \in Builds, ApiDies(b) PROVE ReleaseInv'
  <2>1. RowsMove /\ JobsMove /\ UsersMove
    BY <1>7, <1>t DEF ApiDies, RowsMove, JobsMove, UsersMove, ReleaseInv, WorkIsKnown, TypeOK,
          dbVars, jobVars, sweepVars
  <2> QED
    BY <1>t, <2>1, KeptStep
<1>8. ASSUME NEW p \in Profiles, DeleteProfile(p) PROVE ReleaseInv'
  <2>1. RowsMove /\ JobsMove /\ UsersMove
    BY <1>8 DEF DeleteProfile, RowsMove, JobsMove, UsersMove, ReleaseInv, WorkIsKnown,
          jobVars, sweepVars
  <2> QED
    BY <1>t, <2>1, KeptStep
<1> QED
  BY <1>1, <1>2, <1>3, <1>4, <1>5, <1>6, <1>7, <1>8 DEF ApiNext

\* What a job step leaves alone outside rows and jobs.
LEMMA JobFrameMoves == ASSUME ReleaseInv, JobFrame PROVE UsersMove
BY DEF JobFrame, sweepVars, UsersMove, ReleaseInv, WorkIsKnown

LEMMA WorkerRelease == ReleaseInv /\ WorkerNext => ReleaseInv'
<1> SUFFICES ASSUME ReleaseInv, WorkerNext PROVE ReleaseInv'
  OBVIOUS
<1>t. TypeOK /\ TypeOK'
  BY WorkerType DEF ReleaseInv
<1>b. \A j \in Slots : /\ jobs[j].build \in Builds /\ RowOf(j) \in Rows
                       /\ RowOf(j) = rows[jobs[j].build]
                       /\ jobs[j].pc # "free" => Known(jobs[j].build)
  BY <1>t DEF TypeOK, Jobs, RowOf, ReleaseInv, WorkIsKnown
<1>1. ASSUME NEW j \in Slots, Start(j) PROVE ReleaseInv'
  <2>1. jobs[j].pc # "free" /\ JobFrame
    BY <1>1 DEF Start, At
  <2>2. RowsMove /\ JobsMove
    BY <1>1, <1>b, <2>1, NextStage, EnterMoves DEF Start, PostStages
  <2> QED
    BY <1>t, <2>1, <2>2, JobFrameMoves, KeptStep
<1>2. ASSUME NEW j \in Slots, Handover(j) PROVE ReleaseInv'
  <2>1. jobs[j].pc # "free" /\ JobFrame
    BY <1>2 DEF Handover, At
  <2>2. RowsMove /\ JobsMove
    BY <1>2, <1>b, <2>1, NextStage, EnterMoves DEF Handover, PostStages
  <2> QED
    BY <1>t, <2>1, <2>2, JobFrameMoves, KeptStep
<1>3. ASSUME NEW j \in Slots, GenerateData(j) PROVE ReleaseInv'
  <2>1. jobs[j].pc # "free" /\ JobFrame
    BY <1>3 DEF GenerateData, At
  <2>2. RowsMove /\ JobsMove
    BY <1>3, <1>b, <2>1, NextStage, EnterMoves DEF GenerateData, PostStages
  <2> QED
    BY <1>t, <2>1, <2>2, JobFrameMoves, KeptStep
<1>4. ASSUME NEW j \in Slots, Quantize(j) PROVE ReleaseInv'
  <2>1. jobs[j].pc # "free" /\ JobFrame
    BY <1>4 DEF Quantize, At
  <2>2. RowsMove /\ JobsMove
    BY <1>4, <1>b, <2>1, NextStage, EnterMoves DEF Quantize, PostStages
  <2> QED
    BY <1>t, <2>1, <2>2, JobFrameMoves, KeptStep
<1>5. ASSUME NEW j \in Slots, EvaluatePasses(j) PROVE ReleaseInv'
  <2>1. jobs[j].pc # "free" /\ JobFrame
    BY <1>5 DEF EvaluatePasses, At
  <2> DEFINE r == [RowOf(j) EXCEPT !.gated = TRUE]
  <2>2. /\ r \in Rows /\ r.gated /\ r.status = RowOf(j).status
        /\ r.profile = RowOf(j).profile /\ r.origin = RowOf(j).origin
        /\ r.ended = RowOf(j).ended /\ r.uri = RowOf(j).uri
    BY <1>b DEF Rows
  <2>3. Enter(j, AfterEvaluate(j), r)
    BY <1>5 DEF EvaluatePasses
  <2>4. AfterEvaluate(j) \in {"generate", "train", "handover"} \cup PostStages
    BY NextStage DEF PostStages
  <2>5. RowsMove /\ JobsMove
    <3> HIDE DEF r
    <3> QED
      BY <2>1, <2>2, <2>3, <2>4, EnterMoves
  <2> QED
    BY <1>t, <2>1, <2>5, JobFrameMoves, KeptStep
<1>6. ASSUME NEW j \in Slots, Deploy(j) PROVE ReleaseInv'
  <2>1. jobs[j].pc = "deploy" /\ JobFrame
    BY <1>6 DEF Deploy, At
  <2> DEFINE r == [RowOf(j) EXCEPT !.uri = TRUE]
  <2>2. RowOf(j).gated
    BY <1>b, <2>1 DEF ReleaseInv, DeployGated
  <2>3. /\ r \in Rows /\ r.gated = RowOf(j).gated /\ r.status = RowOf(j).status
        /\ r.profile = RowOf(j).profile /\ r.origin = RowOf(j).origin
        /\ r.ended = RowOf(j).ended
    BY <1>b DEF Rows
  <2>4. Enter(j, "complete", r)
    BY <1>6 DEF Deploy
  <2>5. RowsMove /\ JobsMove
    <3> HIDE DEF r
    <3> QED
      BY <2>1, <2>2, <2>3, <2>4, EnterMoves DEF PostStages
  <2> QED
    BY <1>t, <2>1, <2>5, JobFrameMoves, KeptStep
<1>7. ASSUME NEW j \in Slots, TrainLocally(j) PROVE ReleaseInv'
  <2>1. jobs[j].pc # "free" /\ UNCHANGED rows /\ JobFrame
    BY <1>7 DEF TrainLocally, At
  <2>2. JobsMove
    BY <1>7, <2>1, GoToMoves DEF TrainLocally, Stages, GpuStages
  <2>3. RowsMove
    BY <2>1 DEF RowsMove
  <2> QED
    BY <1>t, <2>1, <2>2, <2>3, JobFrameMoves, KeptStep
<1>8. ASSUME NEW j \in Slots, UploadTrainingData(j) PROVE ReleaseInv'
  <2>1. jobs[j].pc # "free" /\ UNCHANGED rows /\ JobFrame
    BY <1>8 DEF UploadTrainingData, At
  <2>2. JobsMove
    BY <1>8, <2>1, GoToMoves DEF UploadTrainingData, Stages, GpuStages
  <2>3. RowsMove
    BY <2>1 DEF RowsMove
  <2> QED
    BY <1>t, <2>1, <2>2, <2>3, JobFrameMoves, KeptStep
<1>9. ASSUME NEW j \in Slots, SeeInstanceState(j) PROVE ReleaseInv'
  <2>1. jobs[j].pc # "free" /\ UNCHANGED rows /\ JobFrame
    BY <1>9 DEF SeeInstanceState, At
  <2>2. JobsMove
    BY <1>9, <2>1, GoToMoves DEF SeeInstanceState, Stages, GpuStages
  <2>3. RowsMove
    BY <2>1 DEF RowsMove
  <2> QED
    BY <1>t, <2>1, <2>2, <2>3, JobFrameMoves, KeptStep
<1>10. ASSUME NEW j \in Slots, StartInstance(j) PROVE ReleaseInv'
  <2>1. jobs[j].pc # "free" /\ UNCHANGED rows /\ JobFrame
    BY <1>10 DEF StartInstance, At
  <2>2. JobsMove
    BY <1>10, <2>1, GoToMoves DEF StartInstance, Stages, GpuStages
  <2>3. RowsMove
    BY <2>1 DEF RowsMove
  <2> QED
    BY <1>t, <2>1, <2>2, <2>3, JobFrameMoves, KeptStep
<1>11. ASSUME NEW j \in Slots, DownloadAborts(j) PROVE ReleaseInv'
  <2>1. jobs[j].pc # "free" /\ UNCHANGED rows /\ JobFrame
    BY <1>11 DEF DownloadAborts, At, GgufMissing
  <2>2. JobsMove
    BY <1>11, <2>1, GoToMoves DEF DownloadAborts, Stages, GpuStages
  <2>3. RowsMove
    BY <2>1 DEF RowsMove
  <2> QED
    BY <1>t, <2>1, <2>2, <2>3, JobFrameMoves, KeptStep
<1>12. ASSUME NEW j \in Slots, ProfileNotFound(j) PROVE ReleaseInv'
  <2>1. jobs[j].pc # "free" /\ JobFrame
    BY <1>12 DEF ProfileNotFound
  <2>3. RowsMove
    BY <1>12, <1>b, <2>1, UpdateMoves DEF ProfileNotFound, TerminalStatuses
  <2>4. JobsMove
    BY <1>12, <2>1, GoToMoves DEF ProfileNotFound
  <2> QED
    BY <1>t, <2>1, <2>3, <2>4, JobFrameMoves, KeptStep
<1>13. ASSUME NEW j \in Slots, Complete(j) PROVE ReleaseInv'
  <2>1. jobs[j].pc # "free" /\ JobFrame
    BY <1>13 DEF Complete, At
  <2>2. rows[jobs[j].build].gated
    BY <1>13 DEF Complete, At, ReleaseInv, DeployGated
  <2>3. RowsMove
    BY <1>13, <1>b, <2>1, <2>2, UpdateMoves DEF Complete, TerminalStatuses
  <2>4. JobsMove
    BY <1>13, <2>1, GoToMoves DEF Complete
  <2> QED
    BY <1>t, <2>1, <2>3, <2>4, JobFrameMoves, KeptStep
<1>14. ASSUME NEW j \in Slots, StageFails(j) PROVE ReleaseInv'
  <2>1. jobs[j].pc # "free" /\ JobFrame
    BY <1>14 DEF StageFails, GpuStages, PostStages
  <2>3. RowsMove
    BY <1>14, <1>b, <2>1, UpdateMoves DEF StageFails, TerminalStatuses
  <2>4. JobsMove
    BY <1>14, <2>1, GoToMoves DEF StageFails
  <2> QED
    BY <1>t, <2>1, <2>3, <2>4, JobFrameMoves, KeptStep
<1>15. ASSUME NEW j \in Slots, MarkGpuBuild(j) PROVE ReleaseInv'
  <2>1. jobs[j].pc # "free" /\ JobFrame
    BY <1>15 DEF MarkGpuBuild, At
  <2> DEFINE r == [RowOf(j) EXCEPT !.gpu = TRUE]
  <2>2. /\ r.status = RowOf(j).status /\ r.profile = RowOf(j).profile
        /\ r.origin = RowOf(j).origin /\ r.ended = RowOf(j).ended
        /\ r.uri = RowOf(j).uri /\ r.gated = RowOf(j).gated
    BY <1>b DEF Rows
  <2>3. rows' = [rows EXCEPT ![jobs[j].build] = r]
    BY <1>15 DEF MarkGpuBuild, RowOf
  <2>4. RowsMove
    <3> HIDE DEF r
    <3>1. Touched(RowOf(j), r)
      BY <1>b, <2>1, <2>2 DEF Touched, Known, Terminal, ReleaseInv, GateBeforeRelease, EndIsRecorded
    <3> QED
      BY <1>t, <1>b, <2>3, <3>1 DEF RowsMove, TypeOK
  <2>5. JobsMove
    BY <1>15, <2>1, GoToMoves DEF MarkGpuBuild
  <2> QED
    BY <1>t, <2>1, <2>4, <2>5, JobFrameMoves, KeptStep
<1>16. ASSUME NEW j \in Slots, Acknowledge(j) PROVE ReleaseInv'
  <2>1. UNCHANGED rows /\ JobFrame
    BY <1>16 DEF Acknowledge
  <2>2. JobsMove
    BY <1>16, <1>t DEF Acknowledge, FreeJob, JobsMove, TypeOK
  <2>3. RowsMove
    BY <2>1 DEF RowsMove
  <2> QED
    BY <1>t, <2>1, <2>2, <2>3, JobFrameMoves, KeptStep
<1>17. ASSUME NEW j \in Slots, WorkerStops(j) PROVE ReleaseInv'
  <2>1. jobs[j].pc # "free"
    BY <1>17 DEF WorkerStops, Stages, GpuStages, PostStages
  <2>2. jobs' = [jobs EXCEPT ![j] = Retried(jobs[j])]
    BY <1>17 DEF WorkerStops
  <2>3. \/ Retried(jobs[j]).pc = "free"
        \/ Retried(jobs[j]).pc = "queued" /\ Retried(jobs[j]).build = jobs[j].build
    BY <1>t DEF Retried, FreeJob, TypeOK, Jobs
  <2>4. JobsMove
    BY <1>t, <1>b, <2>1, <2>2, <2>3 DEF JobsMove, TypeOK
  <2>5. RowsMove /\ UsersMove
    BY <1>17 DEF WorkerStops, RowsMove, UsersMove, ReleaseInv, WorkIsKnown, dbVars, sweepVars
  <2> QED
    BY <1>t, <2>4, <2>5, KeptStep
<1>18. ASSUME NEW j \in Slots, JobAborts(j) PROVE ReleaseInv'
  <2>1. jobs[j].pc # "free"
    BY <1>18 DEF JobAborts, Stages, GpuStages, PostStages
  <2>2. JobsMove
    BY <1>18, <2>1, GoToMoves DEF JobAborts
  <2>3. RowsMove /\ UsersMove
    BY <1>18 DEF JobAborts, RowsMove, UsersMove, ReleaseInv, WorkIsKnown, dbVars, sweepVars
  <2> QED
    BY <1>t, <2>2, <2>3, KeptStep
<1> QED
  BY <1>1, <1>2, <1>3, <1>4, <1>5, <1>6, <1>7, <1>8, <1>9, <1>10, <1>11, <1>12,
     <1>13, <1>14, <1>15, <1>16, <1>17, <1>18 DEF WorkerNext, JobStep

LEMMA SweepRelease == ReleaseInv /\ SweepNext => ReleaseInv'
<1> SUFFICES ASSUME ReleaseInv, SweepNext PROVE ReleaseInv'
  OBVIOUS
<1>t. TypeOK /\ TypeOK'
  BY SweepType DEF ReleaseInv
<1>1. ASSUME NEW b \in Builds, ListTraining(b) PROVE ReleaseInv'
  <2>1. RowsMove /\ JobsMove
    BY <1>1 DEF ListTraining, RowsMove, JobsMove
  <2>2. UsersMove
    BY <1>1, <1>t DEF ListTraining, UsersMove, ReleaseInv, WorkIsKnown, Known, TypeOK, SetSweep, SetPost, SweepFrame
  <2> QED
    BY <1>t, <2>1, <2>2, KeptStep
<1>2. ASSUME NEW b \in Builds, ClaimForSweep(b) PROVE ReleaseInv'
  <2>1. RowsMove /\ JobsMove
    BY <1>2 DEF ClaimForSweep, RowsMove, JobsMove
  <2>2. UsersMove
    BY <1>2, <1>t DEF ClaimForSweep, UsersMove, ReleaseInv, WorkIsKnown, Known, TypeOK, SetSweep, SetPost, SweepFrame
  <2> QED
    BY <1>t, <2>1, <2>2, KeptStep
<1>3. ASSUME NEW b \in Builds, SweepNoResult(b) PROVE ReleaseInv'
  <2>1. RowsMove /\ JobsMove
    BY <1>3 DEF SweepNoResult, RowsMove, JobsMove
  <2>2. UsersMove
    BY <1>3, <1>t DEF SweepNoResult, UsersMove, ReleaseInv, WorkIsKnown, Known, TypeOK, SetSweep, SetPost, SweepFrame
  <2> QED
    BY <1>t, <2>1, <2>2, KeptStep
<1>4. ASSUME NEW b \in Builds, SweepStillRunning(b) PROVE ReleaseInv'
  <2>1. RowsMove /\ JobsMove
    BY <1>4 DEF SweepStillRunning, RowsMove, JobsMove
  <2>2. UsersMove
    BY <1>4, <1>t DEF SweepStillRunning, UsersMove, ReleaseInv, WorkIsKnown, Known, TypeOK, SetSweep, SetPost, SweepFrame
  <2> QED
    BY <1>t, <2>1, <2>2, KeptStep
<1>5. ASSUME NEW b \in Builds, SweepDies(b) PROVE ReleaseInv'
  <2>1. RowsMove /\ JobsMove
    BY <1>5 DEF SweepDies, RowsMove, JobsMove
  <2>2. UsersMove
    BY <1>5, <1>t DEF SweepDies, UsersMove, ReleaseInv, WorkIsKnown, Known, TypeOK, SetSweep, SetPost, SweepFrame
  <2> QED
    BY <1>t, <2>1, <2>2, KeptStep
<1>6. ASSUME NEW b \in Builds, ListStuckPostTrain(b) PROVE ReleaseInv'
  <2>1. RowsMove /\ JobsMove
    BY <1>6 DEF ListStuckPostTrain, RowsMove, JobsMove
  <2>2. UsersMove
    BY <1>6, <1>t DEF ListStuckPostTrain, UsersMove, ReleaseInv, WorkIsKnown, Known, TypeOK, SetSweep, SetPost, SweepFrame, PostStatuses
  <2> QED
    BY <1>t, <2>1, <2>2, KeptStep
<1>7. ASSUME NEW b \in Builds, SweepProfileGone(b) PROVE ReleaseInv'
  <2>1. Known(b)
    BY <1>7 DEF SweepProfileGone, ReleaseInv, WorkIsKnown
  <2>2. RowsMove
    BY <1>7, <2>1, UpdateMoves DEF SweepProfileGone, TerminalStatuses
  <2>3. JobsMove
    BY <1>7 DEF SweepProfileGone, JobsMove
  <2>4. UsersMove
    BY <1>7, <1>t DEF SweepProfileGone, UsersMove, ReleaseInv, WorkIsKnown, Known, TypeOK, SetSweep, SetPost, SweepFrame
  <2> QED
    BY <1>t, <2>2, <2>3, <2>4, KeptStep
<1>8. ASSUME NEW b \in Builds, SweepFailedResult(b) PROVE ReleaseInv'
  <2>1. Known(b)
    BY <1>8 DEF SweepFailedResult, ReleaseInv, WorkIsKnown
  <2>2. RowsMove
    BY <1>8, <2>1, UpdateMoves DEF SweepFailedResult, TerminalStatuses
  <2>3. JobsMove
    BY <1>8 DEF SweepFailedResult, JobsMove
  <2>4. UsersMove
    BY <1>8, <1>t DEF SweepFailedResult, UsersMove, ReleaseInv, WorkIsKnown, Known, TypeOK, SetSweep, SetPost, SweepFrame
  <2> QED
    BY <1>t, <2>2, <2>3, <2>4, KeptStep
<1>9. ASSUME NEW b \in Builds, SweepInstanceStopped(b) PROVE ReleaseInv'
  <2>1. Known(b)
    BY <1>9 DEF SweepInstanceStopped, ReleaseInv, WorkIsKnown
  <2>2. RowsMove
    BY <1>9, <2>1, UpdateMoves DEF SweepInstanceStopped, TerminalStatuses
  <2>3. JobsMove
    BY <1>9 DEF SweepInstanceStopped, JobsMove
  <2>4. UsersMove
    BY <1>9, <1>t DEF SweepInstanceStopped, UsersMove, ReleaseInv, WorkIsKnown, Known, TypeOK, SetSweep, SetPost, SweepFrame
  <2> QED
    BY <1>t, <2>2, <2>3, <2>4, KeptStep
<1>10. ASSUME NEW b \in Builds, FailStuckPostTrain(b) PROVE ReleaseInv'
  <2>1. Known(b)
    BY <1>10 DEF FailStuckPostTrain, ReleaseInv, WorkIsKnown
  <2>2. RowsMove
    BY <1>10, <2>1, UpdateMoves DEF FailStuckPostTrain, TerminalStatuses
  <2>3. JobsMove
    BY <1>10 DEF FailStuckPostTrain, JobsMove
  <2>4. UsersMove
    BY <1>10, <1>t DEF FailStuckPostTrain, UsersMove, ReleaseInv, WorkIsKnown, Known, TypeOK, SetSweep, SetPost, SweepFrame
  <2> QED
    BY <1>t, <2>2, <2>3, <2>4, KeptStep
<1>11. ASSUME NEW b \in Builds, NEW j \in Slots, SweepSuccess(b, j) PROVE ReleaseInv'
  <2>1. Known(b)
    BY <1>11 DEF SweepSuccess, ReleaseInv, WorkIsKnown
  <2>2. JobsMove
    BY <1>11, <2>1, EnqueueMoves DEF SweepSuccess
  <2>3. RowsMove
    BY <1>11 DEF SweepSuccess, RowsMove
  <2>4. UsersMove
    BY <1>11, <1>t DEF SweepSuccess, UsersMove, ReleaseInv, WorkIsKnown, Known, TypeOK, SetSweep, SetPost, SweepFrame
  <2> QED
    BY <1>t, <2>2, <2>3, <2>4, KeptStep
<1> QED
  BY <1>1, <1>2, <1>3, <1>4, <1>5, <1>6, <1>7, <1>8, <1>9, <1>10, <1>11 DEF
     SweepNext, TrainingSweep, PostSweep

LEMMA GpuRelease == ReleaseInv /\ GpuNext => ReleaseInv'
<1> SUFFICES ASSUME ReleaseInv, GpuNext PROVE ReleaseInv'
  OBVIOUS
<1>1. TypeOK'
  BY GpuType DEF ReleaseInv
<1>2. BootFrame
  BY DEF GpuNext, BootStep, BootListsProfile, BootSkips, BootTrains, BootTrainsAny,
         BootTrainingFails, BootTrainingSucceeds, BootUploadsResult, BootUploadsGguf,
         BootSyncEnds, BootShutsDown, InstanceStops, BootScriptDies, InstanceLost
<1>3. RowsMove /\ JobsMove /\ UsersMove
  BY <1>2 DEF BootFrame, RowsMove, JobsMove, UsersMove, ReleaseInv, WorkIsKnown,
         dbVars, jobVars, sweepVars
<1> QED
  BY <1>1, <1>3, KeptStep

-----------------------------------------------------------------------------

LEMMA InitRelease == Init => ReleaseInv
<1> SUFFICES ASSUME Init PROVE ReleaseInv
  OBVIOUS
<1>1. /\ \A b \in Builds : /\ rows[b].status = "absent" /\ ~rows[b].uri
                           /\ ~api[b] /\ sweep[b] = "idle" /\ post[b] = "idle"
      /\ \A j \in Slots : jobs[j].pc = "free"
      /\ \A p \in Profiles : txn[p] = 0
  BY DEF Init, NoRow, NewRow, FreeJob
<1> QED
  BY <1>1, InitTypeOK DEF ReleaseInv, GateBeforeRelease, DeployGated, WorkIsKnown, Known,
     EndIsRecorded, Terminal, TerminalStatuses, InsertedInOrder, CountHolds, TriggeredSerialized

\* The invariant that relates rows, jobs, routes, sweeps and count transactions
\* holds in every reachable state of the pipeline.
THEOREM ReleaseInvariant == Spec => []ReleaseInv
<1>1. Init => ReleaseInv
  BY InitRelease
<1>2. ReleaseInv /\ [Next]_vars => ReleaseInv'
  <2> SUFFICES ASSUME ReleaseInv, [Next]_vars PROVE ReleaseInv'
    OBVIOUS
  <2>1. CASE Next
    BY <2>1, ApiRelease, WorkerRelease, SweepRelease, GpuRelease DEF Next
  <2>2. CASE UNCHANGED vars
    <3>1. RowsMove /\ JobsMove /\ UsersMove
      BY <2>2 DEF vars, RowsMove, JobsMove, UsersMove, ReleaseInv, WorkIsKnown
    <3>2. TypeOK'
      BY <2>2 DEF vars, ReleaseInv, TypeOK
    <3> QED
      BY <3>1, <3>2, KeptStep
  <2> QED
    BY <2>1, <2>2
<1> QED
  BY <1>1, <1>2, PTL DEF Spec

\* A build is completed or has a published artifact only after the evaluation
\* gate let it through, for any number of builds, jobs, retries and crashes.
THEOREM GateHolds == Spec => []GateBeforeRelease
<1>1. ReleaseInv => GateBeforeRelease
  BY DEF ReleaseInv
<1> QED
  BY <1>1, ReleaseInvariant, PTL

\* Of two triggered builds of a profile the earlier one had ended before the
\* later one was inserted, for any number of concurrent requests.
THEOREM SerializationHolds == Spec => []TriggeredSerialized
<1>1. ReleaseInv => TriggeredSerialized
  BY DEF ReleaseInv
<1> QED
  BY <1>1, ReleaseInvariant, PTL
-----------------------------------------------------------------------------
(***************************************************************************)
(* What the GPU wrote: a result stays what it is, and the gate lets a      *)
(* build that went to the GPU through only with what the GPU delivered.    *)
(***************************************************************************)

GpuBuild(r)  == gpuMode /\ "train" \in r.steps
Delivered(b) == ResultCompleted(b) /\ s3[b].gguf

\* The script trains a build that has no result yet.
BootInv == boot.pc = "train" => boot.cur \in Builds /\ s3[boot.cur].result = "none"

\* What the stage of a job says of its build: a pre_train job never carries a
\* GPU build past the marker, and a post_train job has a completed result.
TrainedJob(job) ==
    /\ job.pc \in GpuStages => GpuBuild(rows[job.build])
    /\ job.pc = "train" => "train" \in rows[job.build].steps
    /\ job.pc # "free" /\ job.kind = "post" => ResultCompleted(job.build)
    /\ job.pc \in {"generate", "train", "handover"} \cup GpuStages => job.kind = "pre"
    /\ job.pc \in {"handover"} \cup PostStages /\ job.kind = "pre" => ~GpuBuild(rows[job.build])

TrainedInv ==
    /\ \A b \in Builds : /\ rows[b].gpu => GpuBuild(rows[b])
                         /\ rows[b].gated /\ GpuBuild(rows[b]) => Delivered(b)
    /\ \A j \in Slots : TrainedJob(jobs[j])

\* Results and GGUFs stay in S3.
S3Moves ==
    \A b \in Builds : /\ s3[b].result # "none" => s3'[b].result = s3[b].result
                      /\ s3[b].gguf => s3'[b].gguf

LEMMA GpuDelivers == TypeOK /\ BootInv /\ GpuNext => S3Moves /\ BootInv'
<1> SUFFICES ASSUME TypeOK, BootInv, GpuNext PROVE S3Moves /\ BootInv'
  OBVIOUS
<1> USE DEF S3Moves, BootInv, TypeOK
<1>1. ASSUME NEW p \in Profiles, BootListsProfile(p) PROVE S3Moves /\ BootInv'
  BY <1>1 DEF BootListsProfile
<1>2. ASSUME NEW b \in Builds, BootSkips(b) PROVE S3Moves /\ BootInv'
  BY <1>2 DEF BootSkips
<1>3. ASSUME NEW b \in Builds, BootTrains(b) PROVE S3Moves /\ BootInv'
  BY <1>3 DEF BootTrains, BootTrainsAny
<1>4. ASSUME BootTrainingFails PROVE S3Moves /\ BootInv'
  BY <1>4 DEF BootTrainingFails
<1>5. ASSUME BootTrainingSucceeds PROVE S3Moves /\ BootInv'
  BY <1>5 DEF BootTrainingSucceeds
<1>6. ASSUME BootUploadsResult PROVE S3Moves /\ BootInv'
  BY <1>6 DEF BootUploadsResult
<1>7. ASSUME BootUploadsGguf PROVE S3Moves /\ BootInv'
  BY <1>7 DEF BootUploadsGguf
<1>8. ASSUME BootSyncEnds PROVE S3Moves /\ BootInv'
  BY <1>8 DEF BootSyncEnds
<1>9. ASSUME BootShutsDown PROVE S3Moves /\ BootInv'
  BY <1>9 DEF BootShutsDown, NoBoot
<1>10. ASSUME InstanceStops PROVE S3Moves /\ BootInv'
  BY <1>10 DEF InstanceStops
<1>11. ASSUME BootScriptDies PROVE S3Moves /\ BootInv'
  BY <1>11 DEF BootScriptDies, NoBoot
<1>12. ASSUME InstanceLost PROVE S3Moves /\ BootInv'
  BY <1>12 DEF InstanceLost, NoBoot
<1> QED
  BY <1>1, <1>2, <1>3, <1>4, <1>5, <1>6, <1>7, <1>8, <1>9, <1>10, <1>11, <1>12
  DEF GpuNext, BootStep

\* Only the upload of training data and the start of the instance reach the
\* GPU from the worker, and neither touches a result.
LEMMA WorkerDelivers == TypeOK /\ BootInv /\ WorkerNext => S3Moves /\ BootInv'
<1> SUFFICES ASSUME TypeOK, BootInv, WorkerNext PROVE S3Moves /\ BootInv'
  OBVIOUS
<1> PICK j \in Slots : JobStep(j) \/ WorkerStops(j) \/ JobAborts(j)
  BY DEF WorkerNext
<1>1. CASE UploadTrainingData(j)
  BY <1>1, BuildOfJob DEF UploadTrainingData, S3Moves, BootInv, TypeOK
<1>2. CASE StartInstance(j)
  BY <1>2 DEF StartInstance, NoBoot, S3Moves, BootInv, TypeOK
<1>3. CASE ~UploadTrainingData(j) /\ ~StartInstance(j)
  <2>1. UNCHANGED <<s3, boot>>
    BY <1>3 DEF JobStep, Start, Handover, ProfileNotFound, GenerateData, TrainLocally,
         SeeInstanceState, MarkGpuBuild, Quantize, EvaluatePasses, DownloadAborts, Deploy,
         Complete, StageFails, Acknowledge, WorkerStops, JobAborts, gpuVars
  <2> QED
    BY <2>1 DEF S3Moves, BootInv
<1> QED
  BY <1>1, <1>2, <1>3

LEMMA ApiLeavesGpu == ApiNext => UNCHANGED <<gpuMode, s3, boot>>
BY DEF ApiNext, CountActive, CountActiveNoLock, TriggerRollsBack, DeleteProfile, ResetToBase,
       InsertTriggered, EnqueueFails, ApiDies, EnqueuePreTrain, gpuVars

LEMMA SweepLeavesGpu == SweepNext => UNCHANGED <<gpuMode, s3, boot>>
BY DEF SweepNext, TrainingSweep, PostSweep, ListTraining, ClaimForSweep, SweepProfileGone,
       SweepSuccess, SweepFailedResult, SweepNoResult, SweepInstanceStopped,
       SweepStillRunning, SweepDies, ListStuckPostTrain, FailStuckPostTrain, SweepFrame, gpuVars

LEMMA DeliveryStep == TypeOK /\ BootInv /\ [Next]_vars => S3Moves /\ BootInv'
<1> SUFFICES ASSUME TypeOK, BootInv, [Next]_vars PROVE S3Moves /\ BootInv'
  OBVIOUS
<1>1. CASE ApiNext \/ SweepNext \/ UNCHANGED vars
  <2>1. UNCHANGED <<s3, boot>>
    BY <1>1, ApiLeavesGpu, SweepLeavesGpu DEF vars
  <2> QED
    BY <2>1 DEF S3Moves, BootInv
<1>2. CASE WorkerNext
  BY <1>2, WorkerDelivers
<1>3. CASE GpuNext
  BY <1>3, GpuDelivers
<1> QED
  BY <1>1, <1>2, <1>3 DEF Next

-----------------------------------------------------------------------------
(* What a step does to the rows and jobs, seen from the GPU.               *)

RowsTrain ==
    \A b \in Builds :
        \/ /\ rows'[b].steps = rows[b].steps
           /\ rows'[b].gpu => GpuBuild(rows[b])
           /\ rows'[b].gated /\ GpuBuild(rows[b]) => Delivered(b)
        \/ ~Known(b) /\ ~rows'[b].gpu /\ ~rows'[b].gated

JobsTrain ==
    \A j \in Slots :
        jobs'[j].pc = "free" \/ (Known(jobs'[j].build) /\ TrainedJob(jobs'[j]))

LEMMA TrainedKept ==
    ASSUME ReleaseInv, TypeOK', TrainedInv, S3Moves, gpuMode' = gpuMode, RowsTrain, JobsTrain
    PROVE  TrainedInv'
<1>1. ASSUME NEW b \in Builds
      PROVE  /\ rows'[b].gpu => GpuBuild(rows[b])'
             /\ rows'[b].gated /\ GpuBuild(rows[b])' => Delivered(b)'
  BY DEF RowsTrain, S3Moves, GpuBuild, Delivered, ResultCompleted
<1>2. ASSUME NEW j \in Slots PROVE TrainedJob(jobs[j])'
  <2>1. CASE jobs'[j].pc = "free"
    BY <2>1 DEF TrainedJob, GpuStages, PostStages
  <2>2. CASE jobs'[j].pc # "free"
    <3> DEFINE b == jobs'[j].build
    <3>1. b \in Builds /\ Known(b) /\ TrainedJob(jobs'[j])
      BY <2>2 DEF JobsTrain, TypeOK, Jobs
    <3>2. rows'[b].steps = rows[b].steps
      BY <3>1 DEF RowsTrain
    <3>3. ResultCompleted(b) => s3'[b].result = "completed"
      BY <3>1 DEF S3Moves, ResultCompleted
    <3> QED
      BY <3>1, <3>2, <3>3 DEF TrainedJob, GpuBuild, ResultCompleted
  <2> QED
    BY <2>1, <2>2
<1> QED
  BY <1>1, <1>2 DEF TrainedInv

LEMMA RowsStay == ASSUME TrainedInv, UNCHANGED rows PROVE RowsTrain
BY DEF TrainedInv, RowsTrain

LEMMA JobsStay == ASSUME ReleaseInv, TrainedInv, UNCHANGED jobs PROVE JobsTrain
BY DEF ReleaseInv, WorkIsKnown, TrainedInv, JobsTrain

\* A row written over with the same build's steps.
LEMMA OneRowTrains ==
    ASSUME TypeOK, TrainedInv, NEW b \in Builds, NEW r, rows' = [rows EXCEPT ![b] = r],
           r.steps = rows[b].steps, r.gpu => GpuBuild(rows[b]),
           r.gated /\ GpuBuild(rows[b]) => Delivered(b)
    PROVE  RowsTrain
BY DEF TypeOK, TrainedInv, RowsTrain

LEMMA UpdateTrains ==
    ASSUME TypeOK, TrainedInv, NEW b \in Builds, NEW st \in Statuses, Update(b, st)
    PROVE  RowsTrain
<1> DEFINE r == SetStatus(rows[b], st)
<1>1. r.steps = rows[b].steps /\ r.gpu = rows[b].gpu /\ r.gated = rows[b].gated
  BY SetStatusRow DEF TypeOK
<1>2. rows' = [rows EXCEPT ![b] = r]
  BY DEF Update
<1> HIDE DEF r
<1> QED
  BY <1>1, <1>2, OneRowTrains DEF TrainedInv

LEMMA OneJobTrains ==
    ASSUME ReleaseInv, TrainedInv, NEW j \in Slots, NEW job, jobs' = [jobs EXCEPT ![j] = job],
           job.pc = "free" \/ (Known(job.build) /\ TrainedJob(job))
    PROVE  JobsTrain
BY DEF ReleaseInv, TypeOK, WorkIsKnown, TrainedInv, JobsTrain

\* A job goes to a stage its build is fit for.
Fit(j, stage) ==
    /\ stage \in GpuStages => GpuBuild(RowOf(j))
    /\ stage = "train" => "train" \in RowOf(j).steps
    /\ stage \in {"generate", "train", "handover"} \cup GpuStages => jobs[j].kind = "pre"
    /\ stage \in {"handover"} \cup PostStages /\ jobs[j].kind = "pre" => ~GpuBuild(RowOf(j))

LEMMA GoToTrains ==
    ASSUME ReleaseInv, TrainedInv, NEW j \in Slots, NEW stage \in Stages \cup {"queued", "ack"},
           GoTo(j, stage), jobs[j].pc # "free", Fit(j, stage)
    PROVE  JobsTrain
<1> DEFINE job == [jobs[j] EXCEPT !.pc = stage]
<1>1. jobs[j] \in Jobs /\ jobs' = [jobs EXCEPT ![j] = job]
  BY DEF GoTo, ReleaseInv, TypeOK
<1>2. job.pc = stage /\ job.build = jobs[j].build /\ job.kind = jobs[j].kind
  BY <1>1 DEF Jobs
<1>3. Known(jobs[j].build) /\ TrainedJob(jobs[j])
  BY DEF ReleaseInv, WorkIsKnown, TrainedInv
<1> HIDE DEF job
<1>4. TrainedJob(job)
  BY <1>2, <1>3 DEF TrainedJob, Fit, RowOf
<1> QED
  BY <1>1, <1>2, <1>3, <1>4, OneJobTrains

LEMMA EnterTrains ==
    ASSUME ReleaseInv, TrainedInv, NEW j \in Slots, NEW r \in Rows,
           NEW stage \in {"generate", "train", "handover"} \cup PostStages,
           jobs[j].pc # "free", Enter(j, stage, r), Fit(j, stage),
           r.steps = RowOf(j).steps, r.gpu = RowOf(j).gpu,
           r.gated /\ GpuBuild(RowOf(j)) => Delivered(jobs[j].build)
    PROVE  RowsTrain /\ JobsTrain
<1> DEFINE b == jobs[j].build
           new == IF stage \in {"handover", "complete"} THEN r ELSE SetStatus(r, StatusOf(stage))
<1>1. TypeOK /\ b = jobs[j].build /\ b \in Builds /\ RowOf(j) = rows[b]
  BY DEF ReleaseInv, TypeOK, Jobs, RowOf
<1>2. new.steps = r.steps /\ new.gpu = r.gpu /\ new.gated = r.gated
  <2>1. CASE stage \in {"handover", "complete"}
    BY <2>1
  <2>2. CASE stage \notin {"handover", "complete"}
    <3>1. stage \in {"generate", "train", "quantize", "evaluate", "deploy"}
      BY <2>2 DEF PostStages
    <3>2. StatusOf(stage) \in Statuses
      BY <3>1, StageStatus DEF Statuses
    <3> QED
      BY <2>2, <3>2, SetStatusRow
  <2> QED
    BY <2>1, <2>2
<1>3. rows' = [rows EXCEPT ![b] = new]
  BY DEF Enter
<1>4. JobsTrain
  BY GoToTrains DEF Enter, Stages
<1>5. RowsTrain
  <2> HIDE DEF new, b
  <2> QED
    BY <1>1, <1>2, <1>3, OneRowTrains DEF TrainedInv
<1> QED
  BY <1>4, <1>5

-----------------------------------------------------------------------------
(* The steps, process by process.                                          *)

LEMMA ApiTrains == ReleaseInv /\ TrainedInv /\ ApiNext => RowsTrain /\ JobsTrain
<1> SUFFICES ASSUME ReleaseInv, TrainedInv, ApiNext PROVE RowsTrain /\ JobsTrain
  OBVIOUS
<1>t. TypeOK
  BY DEF ReleaseInv
<1>1. ASSUME NEW p \in Profiles, NEW b \in Builds, NEW origin, NEW steps,
             IsNext(b), Insert(b, p, origin, steps)
      PROVE  RowsTrain
  <2>1. ~rows'[b].gpu /\ ~rows'[b].gated /\ ~Known(b)
    BY <1>1, <1>t DEF IsNext, Insert, NewRow, Known, TypeOK
  <2>2. \A c \in Builds : c # b => rows'[c] = rows[c]
    BY <1>1, <1>t DEF Insert, TypeOK
  <2> QED
    BY <2>1, <2>2 DEF RowsTrain, TrainedInv
<1>2. ASSUME NEW p \in Profiles, CountActive(p) \/ TriggerRollsBack(p) \/ DeleteProfile(p)
      PROVE  RowsTrain /\ JobsTrain
  <2>1. UNCHANGED <<rows, jobs>>
    BY <1>2 DEF CountActive, CountActiveNoLock, TriggerRollsBack, DeleteProfile, jobVars
  <2> QED
    BY <2>1, RowsStay, JobsStay
<1>3. ASSUME NEW p \in Profiles, NEW b \in Builds,
             \/ ResetToBase(p, b)
             \/ \E steps \in StepChoices : InsertTriggered(p, b, steps)
      PROVE  RowsTrain /\ JobsTrain
  <2>1. UNCHANGED jobs
    BY <1>3 DEF ResetToBase, InsertTriggered, jobVars
  <2> QED
    BY <1>1, <1>3, <2>1, JobsStay DEF ResetToBase, InsertTriggered
<1>4. ASSUME NEW b \in Builds, EnqueueFails(b) PROVE RowsTrain /\ JobsTrain
  <2>1. UNCHANGED jobs /\ Update(b, "failed")
    BY <1>4 DEF EnqueueFails, jobVars
  <2> QED
    BY <1>t, <2>1, JobsStay, UpdateTrains DEF Statuses, TerminalStatuses
<1>5. ASSUME NEW b \in Builds, ApiDies(b) PROVE RowsTrain /\ JobsTrain
  BY <1>5, RowsStay, JobsStay DEF ApiDies, jobVars, dbVars
<1>6. ASSUME NEW b \in Builds, NEW j \in Slots, EnqueuePreTrain(b, j)
      PROVE  RowsTrain /\ JobsTrain
  <2> DEFINE job == [kind |-> "pre", build |-> b, pc |-> "queued", tries |-> 1]
  <2>1. Known(b) /\ TrainedJob(job)
    BY <1>6 DEF EnqueuePreTrain, ReleaseInv, WorkIsKnown, TrainedJob, GpuStages, PostStages
  <2>2. job.build = b /\ jobs' = [jobs EXCEPT ![j] = job]
    BY <1>6 DEF EnqueuePreTrain, Enqueue
  <2>3. JobsTrain
    <3> HIDE DEF job
    <3> QED
      BY <2>1, <2>2, OneJobTrains
  <2>4. UNCHANGED rows
    BY <1>6 DEF EnqueuePreTrain, dbVars
  <2> QED
    BY <2>3, <2>4, RowsStay
<1> QED
  BY <1>2, <1>3, <1>4, <1>5, <1>6 DEF ApiNext

LEMMA SweepTrains == ReleaseInv /\ TrainedInv /\ SweepNext => RowsTrain /\ JobsTrain
<1> SUFFICES ASSUME ReleaseInv, TrainedInv, SweepNext PROVE RowsTrain /\ JobsTrain
  OBVIOUS
<1>t. TypeOK
  BY DEF ReleaseInv
<1>1. ASSUME NEW b \in Builds, NEW j \in Slots, SweepSuccess(b, j)
      PROVE  RowsTrain /\ JobsTrain
  <2> DEFINE job == [kind |-> "post", build |-> b, pc |-> "queued", tries |-> 1]
  <2>1. Known(b) /\ TrainedJob(job)
    BY <1>1 DEF SweepSuccess, ReleaseInv, WorkIsKnown, TrainedJob, GpuStages, PostStages
  <2>2. job.build = b /\ jobs' = [jobs EXCEPT ![j] = job]
    BY <1>1 DEF SweepSuccess, Enqueue
  <2>3. JobsTrain
    <3> HIDE DEF job
    <3> QED
      BY <2>1, <2>2, OneJobTrains
  <2> QED
    BY <1>1, <2>3, RowsStay DEF SweepSuccess
<1>2. ASSUME NEW b \in Builds,
             \/ SweepProfileGone(b) \/ SweepFailedResult(b)
             \/ SweepInstanceStopped(b) \/ FailStuckPostTrain(b)
      PROVE  RowsTrain /\ JobsTrain
  <2>1. UNCHANGED jobs /\ Update(b, "failed")
    BY <1>2 DEF SweepProfileGone, SweepFailedResult, SweepInstanceStopped, FailStuckPostTrain
  <2> QED
    BY <1>t, <2>1, JobsStay, UpdateTrains DEF Statuses, TerminalStatuses
<1>3. ASSUME NEW b \in Builds,
             \/ ListTraining(b) \/ ClaimForSweep(b) \/ SweepNoResult(b)
             \/ SweepStillRunning(b) \/ SweepDies(b) \/ ListStuckPostTrain(b)
      PROVE  RowsTrain /\ JobsTrain
  <2>1. UNCHANGED <<rows, jobs>>
    BY <1>3 DEF ListTraining, ClaimForSweep, SweepNoResult, SweepStillRunning, SweepDies,
                ListStuckPostTrain
  <2> QED
    BY <2>1, RowsStay, JobsStay
<1> QED
  BY <1>1, <1>2, <1>3 DEF SweepNext, TrainingSweep, PostSweep

LEMMA WorkerTrains == ReleaseInv /\ TrainedInv /\ WorkerNext => RowsTrain /\ JobsTrain
<1> SUFFICES ASSUME ReleaseInv, TrainedInv, WorkerNext PROVE RowsTrain /\ JobsTrain
  OBVIOUS
<1>t. TypeOK
  BY DEF ReleaseInv
<1> PICK j \in Slots : JobStep(j) \/ WorkerStops(j) \/ JobAborts(j)
  BY DEF WorkerNext
<1> DEFINE b == jobs[j].build
<1>b. /\ b \in Builds /\ RowOf(j) = rows[b] /\ RowOf(j) \in Rows /\ jobs[j] \in Jobs
      /\ RowOf(j).gated /\ GpuBuild(RowOf(j)) => Delivered(b)
      /\ jobs[j].kind \in {"pre", "post"}
  BY <1>t DEF TypeOK, Jobs, RowOf, TrainedInv
<1>j. TrainedJob(jobs[j])
  BY DEF TrainedInv
<1>1. CASE Start(j)
  <2> DEFINE stage == IF GpuJob(j) THEN PostStage(j) ELSE FirstStage(j)
  <2>1. jobs[j].pc # "free" /\ Enter(j, stage, RowOf(j))
    BY <1>1 DEF Start, At
  <2>2. Fit(j, stage)
    BY <1>b DEF Fit, GpuJob, PostStage, FirstStage, AfterGenerate, StepsOf, RowOf, GpuBuild,
                GpuStages, PostStages
  <2>3. stage \in {"generate", "train", "handover"} \cup PostStages
    BY NextStage DEF PostStages
  <2> QED
    BY <1>b, <2>1, <2>2, <2>3, EnterTrains
<1>2. CASE Handover(j)
  <2>1. jobs[j].pc # "free" /\ Enter(j, PostStage(j), RowOf(j))
    BY <1>2 DEF Handover, At
  <2>2. Fit(j, PostStage(j))
    BY <1>2, <1>b, <1>j DEF Handover, At, Fit, TrainedJob, RowOf, PostStage, StepsOf, GpuBuild, GpuStages, PostStages
  <2>3. PostStage(j) \in {"generate", "train", "handover"} \cup PostStages
    BY NextStage DEF PostStages
  <2> QED
    BY <1>b, <2>1, <2>2, <2>3, EnterTrains
<1>3. CASE GenerateData(j)
  <2>1. jobs[j].pc # "free" /\ Enter(j, AfterGenerate(j), RowOf(j))
    BY <1>3 DEF GenerateData, At
  <2>2. Fit(j, AfterGenerate(j))
    BY <1>3, <1>b, <1>j DEF GenerateData, At, Fit, TrainedJob, RowOf, AfterGenerate, StepsOf, GpuBuild, GpuStages, PostStages
  <2>3. AfterGenerate(j) \in {"generate", "train", "handover"} \cup PostStages
    BY NextStage DEF PostStages
  <2> QED
    BY <1>b, <2>1, <2>2, <2>3, EnterTrains
<1>4. CASE Quantize(j)
  <2>1. jobs[j].pc # "free" /\ Enter(j, "evaluate", RowOf(j))
    BY <1>4 DEF Quantize, At
  <2>2. Fit(j, "evaluate")
    BY <1>4, <1>b, <1>j DEF Quantize, At, Fit, TrainedJob, RowOf, GpuBuild, GpuStages, PostStages
  <2>3. "evaluate" \in {"generate", "train", "handover"} \cup PostStages
    BY NextStage DEF PostStages
  <2> QED
    BY <1>b, <2>1, <2>2, <2>3, EnterTrains
<1>5. CASE EvaluatePasses(j)
  <2> DEFINE r == [RowOf(j) EXCEPT !.gated = TRUE]
  <2>1. /\ jobs[j].pc = "evaluate" /\ CanEvaluate(j)
        /\ Enter(j, AfterEvaluate(j), r)
    BY <1>5 DEF EvaluatePasses, At
  <2>2. r \in Rows /\ r.steps = RowOf(j).steps /\ r.gpu = RowOf(j).gpu
    BY <1>b DEF Rows
  <2>3. Fit(j, AfterEvaluate(j))
    BY <2>1, <1>b, <1>j, NextStage DEF Fit, TrainedJob, RowOf, GpuStages, PostStages
  <2>4. GpuBuild(RowOf(j)) => Delivered(b)
    BY <2>1, <1>b, <1>j
    DEF TrainedJob, PostStages, CanEvaluate, GpuJob, Delivered, ResultCompleted, RowOf
  <2>5. AfterEvaluate(j) \in {"generate", "train", "handover"} \cup PostStages
    BY NextStage DEF PostStages
  <2> HIDE DEF r
  <2> QED
    BY <2>1, <2>2, <2>3, <2>4, <2>5, EnterTrains
<1>6. CASE Deploy(j)
  <2> DEFINE r == [RowOf(j) EXCEPT !.uri = TRUE]
  <2>1. jobs[j].pc = "deploy" /\ Enter(j, "complete", r)
    BY <1>6 DEF Deploy, At
  <2>2. /\ r \in Rows /\ r.steps = RowOf(j).steps /\ r.gpu = RowOf(j).gpu
        /\ r.gated = RowOf(j).gated
    BY <1>b DEF Rows
  <2>3. Fit(j, "complete")
    BY <2>1, <1>b, <1>j DEF Fit, TrainedJob, RowOf, GpuStages, PostStages
  <2> HIDE DEF r
  <2> QED
    BY <1>b, <2>1, <2>2, <2>3, EnterTrains DEF PostStages
<1>7. CASE TrainLocally(j)
  <2>1. jobs[j].pc # "free" /\ UNCHANGED rows /\ GoTo(j, "handover")
    BY <1>7 DEF TrainLocally, At, GgufMissing
  <2>2. Fit(j, "handover")
    BY <1>7, <1>b, <1>j DEF TrainLocally, At, Fit, TrainedJob, RowOf, GpuBuild, GpuStages, PostStages
  <2>3. "handover" \in Stages \cup {"queued", "ack"}
    BY DEF Stages, GpuStages
  <2> QED
    BY <2>1, <2>2, <2>3, GoToTrains, RowsStay
<1>8. CASE UploadTrainingData(j)
  <2>1. jobs[j].pc # "free" /\ UNCHANGED rows /\ GoTo(j, "ec2")
    BY <1>8 DEF UploadTrainingData, At, GgufMissing
  <2>2. Fit(j, "ec2")
    BY <1>8, <1>b, <1>j DEF UploadTrainingData, At, Fit, TrainedJob, RowOf, GpuBuild, GpuStages, PostStages
  <2>3. "ec2" \in Stages \cup {"queued", "ack"}
    BY DEF Stages, GpuStages
  <2> QED
    BY <2>1, <2>2, <2>3, GoToTrains, RowsStay
<1>9. CASE SeeInstanceState(j)
  <2>1. jobs[j].pc # "free" /\ UNCHANGED rows /\ GoTo(j, (IF ec2 = "running" THEN "mark" ELSE "start"))
    BY <1>9 DEF SeeInstanceState, At, GgufMissing
  <2>2. Fit(j, (IF ec2 = "running" THEN "mark" ELSE "start"))
    BY <1>9, <1>b, <1>j DEF SeeInstanceState, At, Fit, TrainedJob, RowOf, GpuBuild, GpuStages, PostStages
  <2>3. (IF ec2 = "running" THEN "mark" ELSE "start") \in Stages \cup {"queued", "ack"}
    BY DEF Stages, GpuStages
  <2> QED
    BY <2>1, <2>2, <2>3, GoToTrains, RowsStay
<1>10. CASE StartInstance(j)
  <2>1. jobs[j].pc # "free" /\ UNCHANGED rows /\ GoTo(j, "mark")
    BY <1>10 DEF StartInstance, At, GgufMissing
  <2>2. Fit(j, "mark")
    BY <1>10, <1>b, <1>j DEF StartInstance, At, Fit, TrainedJob, RowOf, GpuBuild, GpuStages, PostStages
  <2>3. "mark" \in Stages \cup {"queued", "ack"}
    BY DEF Stages, GpuStages
  <2> QED
    BY <2>1, <2>2, <2>3, GoToTrains, RowsStay
<1>11. CASE DownloadAborts(j)
  <2>1. jobs[j].pc # "free" /\ UNCHANGED rows /\ GoTo(j, "ack")
    BY <1>11 DEF DownloadAborts, At, GgufMissing
  <2>2. Fit(j, "ack")
    BY <1>11, <1>b, <1>j DEF DownloadAborts, At, Fit, TrainedJob, RowOf, GpuBuild, GpuStages, PostStages
  <2>3. "ack" \in Stages \cup {"queued", "ack"}
    BY DEF Stages, GpuStages
  <2> QED
    BY <2>1, <2>2, <2>3, GoToTrains, RowsStay
<1>12. CASE ProfileNotFound(j)
  <2>1. jobs[j].pc # "free" /\ Update(b, "failed") /\ GoTo(j, "ack")
    BY <1>12 DEF ProfileNotFound, At, GpuStages, PostStages
  <2>2. Fit(j, "ack")
    BY DEF Fit, GpuStages, PostStages
  <2> QED
    BY <1>t, <1>b, <2>1, <2>2, GoToTrains, UpdateTrains DEF Statuses, TerminalStatuses
<1>13. CASE StageFails(j)
  <2>1. jobs[j].pc # "free" /\ Update(b, "failed") /\ GoTo(j, "ack")
    BY <1>13 DEF StageFails, At, GpuStages, PostStages
  <2>2. Fit(j, "ack")
    BY DEF Fit, GpuStages, PostStages
  <2> QED
    BY <1>t, <1>b, <2>1, <2>2, GoToTrains, UpdateTrains DEF Statuses, TerminalStatuses
<1>14. CASE Complete(j)
  <2>1. jobs[j].pc # "free" /\ Update(b, "completed") /\ GoTo(j, "ack")
    BY <1>14 DEF Complete, At, GpuStages, PostStages
  <2>2. Fit(j, "ack")
    BY DEF Fit, GpuStages, PostStages
  <2> QED
    BY <1>t, <1>b, <2>1, <2>2, GoToTrains, UpdateTrains DEF Statuses, TerminalStatuses
<1>15. CASE MarkGpuBuild(j)
  <2> DEFINE r == [RowOf(j) EXCEPT !.gpu = TRUE]
  <2>1. /\ jobs[j].pc = "mark" /\ GoTo(j, "ack")
        /\ rows' = [rows EXCEPT ![b] = r]
    BY <1>15 DEF MarkGpuBuild, At, RowOf
  <2>2. r.steps = rows[b].steps /\ r.gated = rows[b].gated
    BY <1>b DEF Rows
  <2>3. GpuBuild(rows[b])
    BY <2>1, <1>j DEF TrainedJob, GpuStages
  <2>4. Fit(j, "ack")
    BY DEF Fit, GpuStages, PostStages
  <2> HIDE DEF r
  <2>5. RowsTrain
    BY <1>t, <1>b, <2>1, <2>2, <2>3, OneRowTrains
  <2> QED
    BY <2>1, <2>4, <2>5, GoToTrains
<1>16. CASE Acknowledge(j)
  BY <1>16, RowsStay, OneJobTrains DEF Acknowledge, FreeJob
<1>17. CASE WorkerStops(j)
  <2> DEFINE job == Retried(jobs[j])
  <2>1. jobs[j].pc # "free" /\ UNCHANGED rows /\ jobs' = [jobs EXCEPT ![j] = job]
    BY <1>17 DEF WorkerStops, Stages, GpuStages, PostStages, dbVars
  <2>2. \/ job.pc = "free"
        \/ job.pc = "queued" /\ job.build = b /\ job.kind = jobs[j].kind
    BY <1>b DEF Retried, FreeJob, Jobs
  <2> HIDE DEF job
  <2>3. Known(b)
    BY <2>1 DEF ReleaseInv, WorkIsKnown
  <2>4. job.pc = "queued" => TrainedJob(job)
    BY <2>1, <2>2, <1>j DEF TrainedJob, GpuStages, PostStages
  <2> QED
    BY <2>1, <2>2, <2>3, <2>4, RowsStay, OneJobTrains
<1>18. CASE JobAborts(j)
  <2>1. jobs[j].pc # "free" /\ UNCHANGED rows /\ GoTo(j, "ack")
    BY <1>18 DEF JobAborts, Stages, GpuStages, PostStages, dbVars
  <2>2. Fit(j, "ack")
    BY DEF Fit, GpuStages, PostStages
  <2> QED
    BY <2>1, <2>2, GoToTrains, RowsStay
<1> QED
  BY <1>1, <1>2, <1>3, <1>4, <1>5, <1>6, <1>7, <1>8, <1>9, <1>10, <1>11, <1>12, <1>13, <1>14, <1>15, <1>16, <1>17, <1>18
  DEF JobStep

LEMMA TrainedStep ==
    ReleaseInv /\ TypeOK' /\ BootInv /\ TrainedInv /\ [Next]_vars => TrainedInv'
<1> SUFFICES ASSUME ReleaseInv, TypeOK', BootInv, TrainedInv, [Next]_vars PROVE TrainedInv'
  OBVIOUS
<1>1. S3Moves
  BY DeliveryStep DEF ReleaseInv
<1>2. gpuMode' = gpuMode
  BY ApiLeavesGpu, SweepLeavesGpu
  DEF Next, vars, WorkerNext, JobStep, Start, Handover, ProfileNotFound, GenerateData,
      TrainLocally, UploadTrainingData, SeeInstanceState, StartInstance, MarkGpuBuild,
      Quantize, EvaluatePasses, DownloadAborts, Deploy, Complete, StageFails, Acknowledge,
      WorkerStops, JobAborts, JobFrame, GpuNext, BootStep, BootListsProfile, BootSkips,
      BootTrains, BootTrainsAny, BootTrainingFails, BootTrainingSucceeds, BootUploadsResult,
      BootUploadsGguf, BootSyncEnds, BootShutsDown, InstanceStops, BootScriptDies,
      InstanceLost, BootFrame
<1>3. RowsTrain /\ JobsTrain
  <2>1. CASE GpuNext \/ UNCHANGED vars
    <3>1. UNCHANGED <<rows, jobs>>
      BY <2>1 DEF vars, GpuNext, BootStep, BootListsProfile, BootSkips, BootTrains,
         BootTrainsAny, BootTrainingFails, BootTrainingSucceeds, BootUploadsResult,
         BootUploadsGguf, BootSyncEnds, BootShutsDown, InstanceStops, BootScriptDies,
         InstanceLost, BootFrame, dbVars, jobVars
    <3> QED
      BY <3>1, RowsStay, JobsStay
  <2> QED
    BY <2>1, ApiTrains, WorkerTrains, SweepTrains DEF Next
<1> QED
  BY <1>1, <1>2, <1>3, TrainedKept

LEMMA InitTrained == Init => BootInv /\ TrainedInv
<1> SUFFICES ASSUME Init PROVE BootInv /\ TrainedInv
  OBVIOUS
<1>1. BootInv
  BY DEF Init, BootInv, NoBoot
<1>2. \A b \in Builds : ~rows[b].gpu /\ ~rows[b].gated
  BY DEF Init, NoRow, NewRow
<1>3. \A j \in Slots : jobs[j].pc = "free"
  BY DEF Init, FreeJob
<1>4. \A j \in Slots : TrainedJob(jobs[j])
  BY <1>3 DEF TrainedJob, GpuStages, PostStages
<1> QED
  BY <1>1, <1>2, <1>4 DEF TrainedInv

\* The stages of the jobs, the rows and the training folders agree on what went
\* to the GPU and what came back.
THEOREM TrainedInvariant == Spec => [](ReleaseInv /\ BootInv /\ TrainedInv)
<1>1. Init => BootInv /\ TrainedInv
  BY InitTrained
<1>2. ReleaseInv /\ TypeOK' /\ BootInv /\ TrainedInv /\ [Next]_vars => BootInv' /\ TrainedInv'
  BY DeliveryStep, TrainedStep DEF ReleaseInv
<1> QED
  BY <1>1, <1>2, ReleaseInvariant, TypeCorrect, PTL DEF Spec

\* A build that went to the GPU passes the gate only with a completed result
\* and the GGUF in S3, for any number of builds, jobs, boots and faults.
THEOREM GatedTrained == Spec => []GatedMeansTrained
<1>1. TrainedInv => GatedMeansTrained
  BY DEF TrainedInv, GatedMeansTrained, Delivered, ResultCompleted
<1> QED
  BY <1>1, TrainedInvariant, PTL

\* What the boot script wrote as a build's result is never written again.
THEOREM ResultsFinal == Spec => ResultIsFinal
<1>1. TypeOK /\ BootInv /\ [Next]_vars
          => [\A b \in Builds : s3[b].result # "none" => s3'[b].result = s3[b].result]_vars
  BY DeliveryStep DEF S3Moves
<1>2. ReleaseInv => TypeOK
  BY DEF ReleaseInv
<1> QED
  BY <1>1, <1>2, TrainedInvariant, PTL DEF Spec, ResultIsFinal
=============================================================================
