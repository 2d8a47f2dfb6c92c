------------------------- MODULE ModelDeploy_proofs -------------------------
(***************************************************************************)
(* Proofs about ModelDeploy, for every number of builds, operations in     *)
(* flight, calls and faults: no build is stamped that was not uploaded, and *)
(* what rows, manifest and objects say of one another when nothing is in   *)
(* flight.                                                                 *)
(***************************************************************************)
EXTENDS ModelDeploy, TLAPS

Publishes(o) == InFlight(o) /\ ops[o].kind \in Publishers
Deletes(o)   == InFlight(o) /\ ops[o].kind = "delete"
SetsApp(o)   == InFlight(o) /\ ops[o].kind = "app"
Alone(o)     == InFlight(o) /\ ops[o].alone

StagesOf(kind) ==
    CASE kind = "pipeline" -> {"upload", "read", "put", "uri", "mark", "complete"}
      [] kind = "deploy"   -> {"begin", "refuse", "read", "put", "mark"}
      [] kind = "rollback" -> {"read", "put", "mark"}
      [] kind = "delete"   -> {"object", "row"}
      [] OTHER             -> {"read", "put"}

\* Operations are at a stage of their kind, and work on builds that were created.
WorkIsOnBuilds ==
    \A o \in Slots : InFlight(o) =>
        /\ ops[o].pc \in StagesOf(ops[o].kind)
        /\ ops[o].kind # "app" => ops[o].build \in Builds /\ status[ops[o].build] # "absent"

-----------------------------------------------------------------------------
(* What keeps a build from being stamped that is not in S3.                *)

\* The operation found or made its build's s3_uri set.
FoundUri(o) ==
    \/ ops[o].kind = "pipeline" /\ ops[o].pc \in {"mark", "complete"}
    \/ ops[o].kind = "deploy" /\ ops[o].pc \in {"begin", "read", "put", "mark"}
    \/ ops[o].kind = "rollback" /\ InFlight(o)

UriStaysSet ==
    \A o \in Slots : FoundUri(o) /\ Row(ops[o].build) => ops[o].build \in uri

StampsDiffer ==
    \A b, c \in Builds : IsDeployed(b) /\ deployed[b] = deployed[c] => b = c

StampInv == TypeOK /\ WorkIsOnBuilds /\ UriStaysSet /\ StampsDiffer /\ DeployedWasUploaded

-----------------------------------------------------------------------------
(* What an operation that nothing overlaps can rely on.                    *)

AloneIsAlone == \A o, i \in Slots : Alone(o) /\ InFlight(i) => i = o

Finds(o) ==
    /\ Publishes(o) => Row(ops[o].build)
    /\ ops[o].pc = "put" => ops[o].seen = manifest
    /\ ops[o].pc \in {"uri", "mark", "complete"} => manifest.build = ops[o].build
    /\ ops[o].pc = "complete" => IsNewest(ops[o].build)

AloneFinds == \A o \in Slots : Alone(o) => Finds(o)

\* As long as nobody publishes: deletions in flight are of builds not deployed.
ModelAgrees ==
    /\ \A o \in Slots : ~Publishes(o)
    /\ manifest.build \in Builds /\ IsNewest(manifest.build)
    /\ \A o \in Slots : Deletes(o) => ~IsDeployed(ops[o].build)

ModelInSync == "model" \in synced => ModelAgrees

\* As long as no app version is being set: who rewrites the manifest keeps it.
AppAgrees ==
    /\ \A o \in Slots : ~SetsApp(o)
    /\ manifest.app = app
    /\ \A o \in Slots : ops[o].pc = "put" => ops[o].seen.app = app

AppInSync == "app" \in synced => AppAgrees

SyncInv == StampInv /\ AloneIsAlone /\ AloneFinds /\ ModelInSync /\ AppInSync

-----------------------------------------------------------------------------
(* What holds as long as no operation has died.                            *)

\* A build enters its deploy stage once; who works on it meanwhile rolls back to it.
PipelineHasBuild ==
    /\ \A o, i \in Slots : InFlight(o) /\ ops[o].kind = "pipeline" =>
         /\ status[ops[o].build] = "deploying"
         /\ InFlight(i) /\ ops[i].build = ops[o].build => i = o \/ ops[i].kind = "rollback"
    /\ \A b \in Builds : status[b] \in {"absent", "building"} =>
         /\ b \notin uri
         /\ \A o \in Slots : InFlight(o) => ops[o].build # b

Uploaded ==
    \A o \in Slots : 
        ops[o].kind = "pipeline" /\ ops[o].pc \in {"read", "put", "uri", "mark", "complete"} =>
            ops[o].build \in objects

\* An object is removed by a deletion that then removes the row.
UriHasObject ==
    \A b \in Builds : b \in uri =>
        \/ b \in objects
        \/ \E o \in Slots : ops[o].kind = "delete" /\ ops[o].pc = "row" /\ ops[o].build = b

SyncedIsServed == "model" \in synced => manifest.build \in objects

ServedInv ==
    SyncInv /\ (faults = 0 => PipelineHasBuild /\ Uploaded /\ UriHasObject /\ SyncedIsServed)

-----------------------------------------------------------------------------
(* Lemmas about the operators the actions are built from.                  *)

Pcs == {"free", "begin", "refuse", "upload", "read", "put", "uri", "mark", "complete",
        "object", "row"}

(* Writing a status touches the row of the build only, and only when there *)
(* is one; deleted rows stay deleted and rows that were never made too.    *)
LEMMA StatusType ==
    ASSUME status \in [Builds -> Statuses], NEW b \in Builds, NEW st \in Statuses,
           SetStatus(b, st)
    PROVE  status' \in [Builds -> Statuses]
BY DEF SetStatus

LEMMA StampType ==
    ASSUME TypeOK, NEW b \in Builds, NEW S, StampNow(b, S)
    PROVE  /\ clock' \in Nat
           /\ deployed' \in [Builds -> 0..clock']
BY DEF TypeOK, StampNow, Cleared, NoTime

LEMMA ClearType ==
    ASSUME TypeOK, NEW S
    PROVE  Cleared(S) \in [Builds -> 0..clock]
BY DEF TypeOK, Cleared, NoTime

LEMMA FreeOpType == FreeOp \in Ops
<1>1. NoManifest \in Manifests
  BY BoundsAssumption DEF NoManifest, Manifests
<1> QED
  BY <1>1, BoundsAssumption DEF FreeOp, Ops, Kinds, Publishers

LEMMA CurrentType == CurrentBuild \in Builds \cup {NoBuild}
BY DEF CurrentBuild

LEMMA BeginType ==
    ASSUME TypeOK, NEW o \in Slots, NEW op \in Ops, Begin(o, op)
    PROVE  /\ ops' \in [Slots -> Ops]
           /\ synced' \subseteq {"model", "app"} /\ app' \in 0..MaxCalls
<1>1. ops \in [Slots -> Ops]
  BY DEF TypeOK
<1>2. [op EXCEPT !.alone = Quiet] \in Ops
  BY DEF Ops, Quiet
<1>3. ASSUME NEW i \in Slots PROVE [ops[i] EXCEPT !.alone = ops[i].pc = "free"] \in Ops
  <2>1. ops[i] \in Ops
    BY <1>1
  <2> QED
    BY <2>1 DEF Ops
<1>4. ops' \in [Slots -> Ops]
  BY <1>2, <1>3 DEF Begin
<1> QED
  BY <1>4 DEF Begin, TypeOK

LEMMA GoToType ==
    ASSUME TypeOK, NEW o \in Slots, NEW pc \in Pcs, GoTo(o, pc)
    PROVE  ops' \in [Slots -> Ops]
<1>1. ops \in [Slots -> Ops]
  BY DEF TypeOK
<1>2. [ops[o] EXCEPT !.pc = pc] \in Ops
  <2>1. ops[o] \in Ops
    BY <1>1
  <2> QED
    BY <2>1 DEF Ops, Pcs
<1> QED
  BY <1>1, <1>2 DEF GoTo

LEMMA FreeType ==
    ASSUME TypeOK, NEW o \in Slots, Free(o)
    PROVE  ops' \in [Slots -> Ops]
BY FreeOpType DEF Free, TypeOK

LEMMA FinishType ==
    ASSUME TypeOK, NEW o \in Slots, NEW part \in {"model", "app"}, Finish(o, part)
    PROVE  /\ ops' \in [Slots -> Ops]
           /\ synced' \subseteq {"model", "app"} /\ app' \in 0..MaxCalls
<1>1. ops[o].value \in 0..MaxCalls
  BY DEF TypeOK, Ops
<1> QED
  BY <1>1, FreeType DEF Finish, TypeOK

LEMMA BuildOfOp ==
    ASSUME TypeOK, WorkIsOnBuilds, NEW o \in Slots, InFlight(o), ops[o].kind # "app"
    PROVE  ops[o].build \in Builds
BY DEF WorkIsOnBuilds

-----------------------------------------------------------------------------
(* Every step keeps the types.                                             *)

LEMMA InitType == Init => TypeOK
<1> SUFFICES ASSUME Init PROVE TypeOK
  OBVIOUS
<1>1. manifest \in Manifests
  <2>1. NoManifest \in Manifests
    BY BoundsAssumption DEF NoManifest, Manifests
  <2>2. [NoManifest EXCEPT !.exists = TRUE] \in Manifests
    BY <2>1 DEF Manifests
  <2> QED
    BY <2>1, <2>2 DEF Init
<1>2. ops \in [Slots -> Ops]
  BY FreeOpType DEF Init
<1> QED
  BY <1>1, <1>2, BoundsAssumption DEF Init, TypeOK, Statuses, NoTime

LEMMA TypeOfRowSteps ==
    ASSUME TypeOK, NEW b \in Builds,
           NewBuild(b) \/ BuildFails(b) \/ BuildCompletesUndeployed(b) \/ JobRunsAgain(b)
             \/ SweepStuck(b)
    PROVE  TypeOK'
<1>1. status' \in [Builds -> Statuses]
  BY DEF TypeOK, NewBuild, BuildFails, BuildCompletesUndeployed, JobRunsAgain, SweepStuck,
         Statuses
<1>2. faults' \in 0..MaxFaults
  BY BoundsAssumption DEF TypeOK, NewBuild, BuildFails, BuildCompletesUndeployed, JobRunsAgain,
         SweepStuck, Fault
<1>3. UNCHANGED <<uri, deployed, clock, objects, manifest, ops, calls, synced, app>>
  BY DEF NewBuild, BuildFails, BuildCompletesUndeployed, JobRunsAgain, SweepStuck, s3Vars, history
<1> QED
  BY <1>1, <1>2, <1>3 DEF TypeOK

(* The operations that calls and the pipeline begin are operations.        *)
LEMMA BegunType ==
    ASSUME NEW b \in Builds, NEW kind \in Kinds, NEW pc \in Pcs
    PROVE  [FreeOp EXCEPT !.kind = kind, !.build = b, !.pc = pc] \in Ops
BY FreeOpType DEF Ops, Pcs

LEMMA TypeOfCalls ==
    ASSUME TypeOK, NEW o \in Slots,
           \/ CallSetAppVersion(o)
           \/ \E b \in Builds : PipelineDeploys(o, b) \/ CallDeploy(o, b) \/ CallRollback(o, b)
                                \/ CallDelete(o, b)
    PROVE  TypeOK'
<1>1. CASE CallSetAppVersion(o)
  <2>1. calls' \in 0..MaxCalls
    BY <1>1, BoundsAssumption DEF CallSetAppVersion, Call, TypeOK
  <2>2. [FreeOp EXCEPT !.kind = "app", !.pc = "read", !.value = calls'] \in Ops
    BY <2>1, FreeOpType DEF Ops, Kinds
  <2>3. ops' \in [Slots -> Ops] /\ synced' \subseteq {"model", "app"} /\ app' \in 0..MaxCalls
    BY <1>1, <2>2, BeginType DEF CallSetAppVersion
  <2>4. UNCHANGED <<status, uri, deployed, clock, objects, manifest, faults>>
    BY <1>1 DEF CallSetAppVersion, rowVars, s3Vars
  <2> QED
    BY <2>1, <2>3, <2>4 DEF TypeOK
<1>2. ASSUME NEW b \in Builds, PipelineDeploys(o, b) PROVE TypeOK'
  <2>1. status' \in [Builds -> Statuses]
    BY <1>2, StatusType DEF PipelineDeploys, TypeOK, Statuses
  <2>2. ops' \in [Slots -> Ops] /\ synced' \subseteq {"model", "app"} /\ app' \in 0..MaxCalls
    BY <1>2, BegunType, BeginType DEF PipelineDeploys, Kinds, Publishers, Pcs
  <2>3. UNCHANGED <<uri, deployed, clock, objects, manifest, calls, faults>>
    BY <1>2 DEF PipelineDeploys, s3Vars
  <2> QED
    BY <2>1, <2>2, <2>3 DEF TypeOK
<1>3. ASSUME NEW b \in Builds, CallDeploy(o, b) \/ CallRollback(o, b) \/ CallDelete(o, b)
      PROVE  TypeOK'
  <2>1. calls' \in 0..MaxCalls
    <3>1. Call
      BY <1>3 DEF CallDeploy, CallRollback, CallDelete
    <3> QED
      BY <3>1, BoundsAssumption DEF Call, TypeOK
  <2>2. [FreeOp EXCEPT !.kind = "rollback", !.build = b, !.pc = "read",
                       !.current = CurrentBuild] \in Ops
    BY FreeOpType, CurrentType DEF Ops, Kinds, Publishers
  <2>3. ops' \in [Slots -> Ops] /\ synced' \subseteq {"model", "app"} /\ app' \in 0..MaxCalls
    <3>1. CASE CallDeploy(o, b)
      BY <3>1, BegunType, BeginType DEF CallDeploy, Kinds, Publishers, Pcs
    <3>2. CASE CallRollback(o, b)
      BY <3>2, <2>2, BeginType DEF CallRollback
    <3>3. CASE CallDelete(o, b)
      BY <3>3, BegunType, BeginType DEF CallDelete, Kinds, Publishers, Pcs
    <3> QED
      BY <1>3, <3>1, <3>2, <3>3
  <2>4. UNCHANGED <<status, uri, deployed, clock, objects, manifest, faults>>
    BY <1>3 DEF CallDeploy, CallRollback, CallDelete, rowVars, s3Vars
  <2> QED
    BY <2>1, <2>3, <2>4 DEF TypeOK
<1> QED
  BY <1>1, <1>2, <1>3

LEMMA ManifestType ==
    ASSUME TypeOK, NEW o \in Slots, NEW b \in Builds
    PROVE  /\ [ops[o].seen EXCEPT !.build = b] \in Manifests
           /\ [ops[o].seen EXCEPT !.app = ops[o].value] \in Manifests
<1>1. ops[o].seen \in Manifests /\ ops[o].value \in 0..MaxCalls
  BY DEF TypeOK, Ops
<1> QED
  BY <1>1 DEF Manifests

LEMMA TypeOfOps ==
    ASSUME TypeOK, WorkIsOnBuilds, NEW o \in Slots,
           \/ Upload(o) \/ ReadManifest(o) \/ ReadNoManifest(o) \/ PutManifest(o)
           \/ SetUri(o) \/ MarkBuildDeployed(o) \/ PipelineCompletes(o)
           \/ DeployBegins(o) \/ DeployRefused(o) \/ DeployEnds(o) \/ RollbackEnds(o)
           \/ DeleteObject(o) \/ DeleteRow(o) \/ PutAppVersion(o)
           \/ OpFails(o) \/ OpDies(o)
    PROVE  TypeOK'
<1>b. InFlight(o) /\ ops[o].kind # "app" => ops[o].build \in Builds
  BY BuildOfOp
<1>1. CASE Upload(o)
  <2>1. ops' \in [Slots -> Ops]
    BY <1>1, GoToType DEF Upload, Pcs
  <2>2. objects' \subseteq Builds
    BY <1>1, <1>b DEF Upload, TypeOK, At, InFlight
  <2> QED
    BY <1>1, <2>1, <2>2 DEF TypeOK, Upload, rowVars, history
<1>2. CASE ReadManifest(o)
  <2>1. ops[o] \in Ops /\ manifest \in Manifests
    BY DEF TypeOK
  <2>2. [ops[o] EXCEPT !.pc = "put", !.seen = manifest] \in Ops
    BY <2>1 DEF Ops
  <2>3. ops' \in [Slots -> Ops]
    BY <1>2, <2>2 DEF ReadManifest, TypeOK
  <2> QED
    BY <1>2, <2>3 DEF TypeOK, ReadManifest, rowVars, s3Vars, history
<1>3. CASE ReadNoManifest(o)
  BY <1>3, FreeType DEF TypeOK, ReadNoManifest, Stop, rowVars, s3Vars, history
<1>4. CASE PutManifest(o)
  <2>1. ops' \in [Slots -> Ops]
    BY <1>4, GoToType DEF PutManifest, Pcs
  <2>2. ops[o].build \in Builds
    BY <1>4, <1>b DEF PutManifest, Publishers, InFlight
  <2>3. manifest' \in Manifests
    BY <1>4, <2>2, ManifestType DEF PutManifest
  <2> QED
    BY <1>4, <2>1, <2>3 DEF TypeOK, PutManifest, rowVars, history
<1>5. CASE SetUri(o)
  <2>1. ops' \in [Slots -> Ops]
    BY <1>5, GoToType DEF SetUri, Pcs
  <2>2. uri' \subseteq Builds
    BY <1>5, <1>b DEF SetUri, TypeOK, At, InFlight
  <2> QED
    BY <1>5, <2>1, <2>2 DEF TypeOK, SetUri, s3Vars, history
<1>6. CASE MarkBuildDeployed(o)
  <2>1. ops' \in [Slots -> Ops]
    BY <1>6, GoToType DEF MarkBuildDeployed, Pcs
  <2>2. clock' \in Nat /\ deployed' \in [Builds -> 0..clock']
    BY <1>6, <1>b, StampType DEF MarkBuildDeployed, At, InFlight
  <2> QED
    BY <1>6, <2>1, <2>2 DEF TypeOK, MarkBuildDeployed, s3Vars, history
<1>7. CASE PipelineCompletes(o) \/ DeployEnds(o) \/ RollbackEnds(o) \/ PutAppVersion(o)
  <2>1. /\ ops' \in [Slots -> Ops]
        /\ synced' \subseteq {"model", "app"} /\ app' \in 0..MaxCalls
    BY <1>7, FinishType DEF PipelineCompletes, DeployEnds, RollbackEnds, PutAppVersion
  <2>2. status' \in [Builds -> Statuses]
    BY <1>7, <1>b, StatusType DEF PipelineCompletes, DeployEnds, RollbackEnds, PutAppVersion,
           TypeOK, At, InFlight, Statuses, rowVars
  <2>3. clock' \in Nat /\ deployed' \in [Builds -> 0..clock']
    <3>1. CASE DeployEnds(o) \/ RollbackEnds(o)
      BY <3>1, <1>b, StampType DEF DeployEnds, RollbackEnds, At, InFlight
    <3>2. CASE PipelineCompletes(o) \/ PutAppVersion(o)
      BY <3>2 DEF PipelineCompletes, PutAppVersion, TypeOK, rowVars
    <3> QED
      BY <1>7, <3>1, <3>2
  <2>4. manifest' \in Manifests
    <3>1. CASE PutAppVersion(o)
      <4>1. ops[o].seen \in Manifests /\ ops[o].value \in 0..MaxCalls
        BY DEF TypeOK, Ops
      <4> QED
        BY <3>1, <4>1 DEF PutAppVersion, Manifests
    <3>2. CASE ~PutAppVersion(o)
      BY <1>7, <3>2 DEF PipelineCompletes, DeployEnds, RollbackEnds, TypeOK, s3Vars
    <3> QED
      BY <3>1, <3>2
  <2>5. UNCHANGED <<uri, objects, calls, faults>>
    BY <1>7 DEF PipelineCompletes, DeployEnds, RollbackEnds, PutAppVersion, rowVars, s3Vars
  <2> QED
    BY <2>1, <2>2, <2>3, <2>4, <2>5 DEF TypeOK
<1>8. CASE DeployBegins(o)
  <2>1. ops' \in [Slots -> Ops]
    BY <1>8, GoToType DEF DeployBegins, Pcs
  <2>2. status' \in [Builds -> Statuses]
    BY <1>8, <1>b, StatusType DEF DeployBegins, TypeOK, At, InFlight, Statuses
  <2> QED
    BY <1>8, <2>1, <2>2 DEF TypeOK, DeployBegins, s3Vars, history
<1>9. CASE DeployRefused(o)
  <2>1. ops' \in [Slots -> Ops]
    BY <1>9, FreeType DEF DeployRefused, Stop
  <2>2. status' \in [Builds -> Statuses]
    BY <1>9, <1>b, StatusType DEF DeployRefused, TypeOK, At, InFlight, Statuses
  <2> QED
    BY <1>9, <2>1, <2>2 DEF TypeOK, DeployRefused, Stop, s3Vars, history
<1>10. CASE DeleteObject(o)
  <2>1. ops' \in [Slots -> Ops]
    BY <1>10, GoToType DEF DeleteObject, Pcs
  <2> QED
    BY <1>10, <2>1 DEF TypeOK, DeleteObject, rowVars, history
<1>11. CASE DeleteRow(o)
  <2>1. ops' \in [Slots -> Ops]
    BY <1>11, FreeType DEF DeleteRow, Stop
  <2>2. status' \in [Builds -> Statuses]
    BY <1>11, <1>b, StatusType DEF DeleteRow, TypeOK, At, InFlight, Statuses
  <2>3. deployed' \in [Builds -> 0..clock']
    BY <1>11, ClearType DEF DeleteRow
  <2> QED
    BY <1>11, <2>1, <2>2, <2>3 DEF TypeOK, DeleteRow, Stop, s3Vars, history
<1>12. CASE OpFails(o)
  <2>1. ops' \in [Slots -> Ops]
    BY <1>12, FreeType DEF OpFails, Stop
  <2>2. status' \in [Builds -> Statuses]
    <3>1. CASE ops[o].kind = "pipeline"
      BY <1>12, <1>b, <3>1, StatusType DEF OpFails, TypeOK, InFlight, Statuses
    <3>2. CASE ops[o].kind = "deploy"
      BY <1>12, <1>b, <3>2, StatusType DEF OpFails, TypeOK, InFlight, Statuses
    <3>3. CASE ops[o].kind \notin {"pipeline", "deploy"}
      BY <1>12, <3>3 DEF OpFails, TypeOK
    <3> QED
      BY <3>1, <3>2, <3>3
  <2> QED
    BY <1>12, <2>1, <2>2 DEF TypeOK, OpFails, Stop, s3Vars, history
<1>13. CASE OpDies(o)
  <2>1. ops' \in [Slots -> Ops]
    BY <1>13, FreeType DEF OpDies, Stop
  <2>2. faults' \in 0..MaxFaults
    BY <1>13, BoundsAssumption DEF OpDies, Fault, TypeOK
  <2> QED
    BY <1>13, <2>1, <2>2 DEF TypeOK, OpDies, Stop, rowVars, s3Vars, history
<1> QED
  BY <1>1, <1>2, <1>3, <1>4, <1>5, <1>6, <1>7, <1>8, <1>9, <1>10, <1>11, <1>12, <1>13

LEMMA TypeStep ==
    ASSUME TypeOK, WorkIsOnBuilds, [Next]_vars
    PROVE  TypeOK'
<1>1. CASE UNCHANGED vars
  BY <1>1 DEF TypeOK, vars, rowVars, s3Vars, history
<1>2. CASE Next
  BY <1>2, TypeOfRowSteps, TypeOfCalls, TypeOfOps DEF Next, BuildNext, CallNext, OpNext
<1> QED
  BY <1>1, <1>2

-----------------------------------------------------------------------------
(* How the operations move.                                                *)

\* What is the same of operation i, whether or not it is alone.
Stays(i) ==
    /\ ops'[i].pc = ops[i].pc /\ ops'[i].kind = ops[i].kind /\ ops'[i].build = ops[i].build
    /\ ops'[i].seen = ops[i].seen /\ ops'[i].current = ops[i].current
    /\ ops'[i].value = ops[i].value

(* An operation that begins takes a free slot and disturbs the others.     *)
LEMMA BeginMoves ==
    ASSUME TypeOK, NEW o \in Slots, NEW op \in Ops, Begin(o, op)
    PROVE  /\ ops[o].pc = "free"
           /\ ops'[o] = [op EXCEPT !.alone = Quiet] /\ Quiet \in BOOLEAN
           /\ \A i \in Slots : i # o => Stays(i) /\ ops'[i].alone = (ops[i].pc = "free")
<1>1. \A i \in Slots : ops[i] \in Ops
  BY DEF TypeOK
<1>2. ops[o].pc = "free"
  BY DEF Begin, InFlight
<1>3. ops'[o] = [op EXCEPT !.alone = Quiet] /\ Quiet \in BOOLEAN
  BY DEF Begin, Quiet
<1>4. ASSUME NEW i \in Slots, i # o PROVE Stays(i) /\ ops'[i].alone = (ops[i].pc = "free")
  <2>1. ops'[i] = [ops[i] EXCEPT !.alone = ops[i].pc = "free"]
    BY <1>4 DEF Begin
  <2> QED
    BY <2>1, <1>1 DEF Stays, Ops
<1> QED
  BY <1>2, <1>3, <1>4

LEMMA GoToMoves ==
    ASSUME TypeOK, NEW o \in Slots, NEW pc \in Pcs, GoTo(o, pc)
    PROVE  /\ ops'[o] = [ops[o] EXCEPT !.pc = pc]
           /\ ops'[o].pc = pc /\ ops'[o].kind = ops[o].kind /\ ops'[o].build = ops[o].build
           /\ ops'[o].seen = ops[o].seen /\ ops'[o].alone = ops[o].alone
           /\ \A i \in Slots : i # o => ops'[i] = ops[i]
<1>1. ops[o] \in Ops
  BY DEF TypeOK
<1>2. ops'[o] = [ops[o] EXCEPT !.pc = pc] /\ \A i \in Slots : i # o => ops'[i] = ops[i]
  BY DEF GoTo, TypeOK
<1> QED
  BY <1>1, <1>2 DEF Ops

LEMMA ReadMoves ==
    ASSUME TypeOK, NEW o \in Slots, ReadManifest(o)
    PROVE  /\ ops'[o].pc = "put" /\ ops'[o].kind = ops[o].kind /\ ops'[o].build = ops[o].build
           /\ ops'[o].seen = manifest /\ ops'[o].alone = ops[o].alone
           /\ \A i \in Slots : i # o => ops'[i] = ops[i]
<1>1. ops[o] \in Ops
  BY DEF TypeOK
<1>2. /\ ops'[o] = [ops[o] EXCEPT !.pc = "put", !.seen = manifest]
      /\ \A i \in Slots : i # o => ops'[i] = ops[i]
  BY DEF ReadManifest, TypeOK
<1> QED
  BY <1>1, <1>2 DEF Ops

LEMMA FreeMoves ==
    ASSUME TypeOK, NEW o \in Slots, Free(o)
    PROVE  /\ ops'[o].pc = "free" /\ ops'[o].kind = "app" /\ ops'[o].build = NoBuild
           /\ \A i \in Slots : i # o => ops'[i] = ops[i]
BY DEF Free, TypeOK, FreeOp

(* What calls and the pipeline begin.                                      *)
Begun(o, kind, b, pc) ==
    /\ ops[o].pc = "free"
    /\ ops'[o].kind = kind /\ ops'[o].build = b /\ ops'[o].pc = pc
    /\ ops'[o].alone = Quiet /\ Quiet \in BOOLEAN
    /\ \A i \in Slots : i # o => Stays(i) /\ ops'[i].alone = (ops[i].pc = "free")

LEMMA CallMoves ==
    ASSUME TypeOK, NEW o \in Slots
    PROVE  /\ CallSetAppVersion(o) => Begun(o, "app", NoBuild, "read")
           /\ \A b \in Builds :
                /\ PipelineDeploys(o, b) => Begun(o, "pipeline", b, "upload")
                /\ CallDeploy(o, b) =>
                     Begun(o, "deploy", b, IF b \in uri THEN "begin" ELSE "refuse")
                /\ CallRollback(o, b) => Begun(o, "rollback", b, "read")
                /\ CallDelete(o, b) =>
                     Begun(o, "delete", b, IF b \in uri THEN "object" ELSE "row")
<1>1. ASSUME NEW op \in Ops, Begin(o, op) PROVE Begun(o, op.kind, op.build, op.pc)
  <2>1. /\ ops[o].pc = "free"
        /\ ops'[o] = [op EXCEPT !.alone = Quiet] /\ Quiet \in BOOLEAN
        /\ \A i \in Slots : i # o => Stays(i) /\ ops'[i].alone = (ops[i].pc = "free")
    BY <1>1, BeginMoves
  <2>2. /\ ops'[o].kind = op.kind /\ ops'[o].build = op.build /\ ops'[o].pc = op.pc
        /\ ops'[o].alone = Quiet
    BY <2>1 DEF Ops
  <2> QED
    BY <2>1, <2>2 DEF Begun
<1>2. ASSUME CallSetAppVersion(o) PROVE Begun(o, "app", NoBuild, "read")
  <2> DEFINE op == [FreeOp EXCEPT !.kind = "app", !.pc = "read", !.value = calls']
  <2>1. calls' \in 0..MaxCalls
    BY <1>2, BoundsAssumption DEF CallSetAppVersion, Call, TypeOK
  <2>2. op \in Ops /\ op.kind = "app" /\ op.build = NoBuild /\ op.pc = "read"
    BY <2>1, FreeOpType DEF Ops, Kinds, FreeOp
  <2>3. Begin(o, op)
    BY <1>2 DEF CallSetAppVersion
  <2> HIDE DEF op
  <2> QED
    BY <1>1, <2>2, <2>3
<1>3. ASSUME NEW b \in Builds, NEW kind \in Kinds, NEW pc \in Pcs,
             Begin(o, [FreeOp EXCEPT !.kind = kind, !.build = b, !.pc = pc])
      PROVE  Begun(o, kind, b, pc)
  <2> DEFINE op == [FreeOp EXCEPT !.kind = kind, !.build = b, !.pc = pc]
  <2>1. op \in Ops /\ op.kind = kind /\ op.build = b /\ op.pc = pc
    BY BegunType DEF FreeOp
  <2>2. Begin(o, op)
    BY <1>3
  <2> HIDE DEF op
  <2> QED
    BY <1>1, <2>1, <2>2
<1>4. ASSUME NEW b \in Builds, CallRollback(o, b) PROVE Begun(o, "rollback", b, "read")
  <2> DEFINE op == [FreeOp EXCEPT !.kind = "rollback", !.build = b, !.pc = "read",
                                  !.current = CurrentBuild]
  <2>1. op \in Ops
    BY FreeOpType, CurrentType DEF Ops, Kinds, Publishers
  <2>2. op.kind = "rollback" /\ op.build = b /\ op.pc = "read"
    BY DEF FreeOp
  <2>3. Begin(o, op)
    BY <1>4 DEF CallRollback
  <2> HIDE DEF op
  <2> QED
    BY <1>1, <2>1, <2>2, <2>3
<1>5. ASSUME NEW b \in Builds
      PROVE  /\ PipelineDeploys(o, b) => Begun(o, "pipeline", b, "upload")
             /\ CallDeploy(o, b) =>
                  Begun(o, "deploy", b, IF b \in uri THEN "begin" ELSE "refuse")
             /\ CallDelete(o, b) => Begun(o, "delete", b, IF b \in uri THEN "object" ELSE "row")
  BY <1>3 DEF PipelineDeploys, CallDeploy, CallDelete, Kinds, Publishers, Pcs
<1> QED
  BY <1>2, <1>4, <1>5

-----------------------------------------------------------------------------
(* Rows are made once and deleted for good; operations stay on their builds. *)

RowsKept ==
    \A b \in Builds :
        /\ status[b] # "absent" => status'[b] # "absent"
        /\ Row(b)' => Row(b) \/ status[b] = "absent"

LEMMA SetStatusKeeps ==
    ASSUME TypeOK, NEW b \in Builds, NEW st \in Statuses \ {"absent"}, SetStatus(b, st)
    PROVE  RowsKept
BY DEF TypeOK, SetStatus, RowsKept, Row

LEMMA RowsStep ==
    ASSUME TypeOK, WorkIsOnBuilds, Next
    PROVE  RowsKept
<1>1. ASSUME NEW b \in Builds,
             NewBuild(b) \/ BuildFails(b) \/ BuildCompletesUndeployed(b) \/ JobRunsAgain(b)
               \/ SweepStuck(b)
      PROVE  RowsKept
  BY <1>1 DEF TypeOK, RowsKept, Row, NewBuild, BuildFails, BuildCompletesUndeployed,
              JobRunsAgain, SweepStuck
<1>2. ASSUME UNCHANGED status PROVE RowsKept
  BY <1>2 DEF RowsKept, Row
<1>3. ASSUME NEW o \in Slots,
             \/ CallSetAppVersion(o)
             \/ \E b \in Builds : PipelineDeploys(o, b) \/ CallDeploy(o, b) \/ CallRollback(o, b)
                                  \/ CallDelete(o, b)
      PROVE  RowsKept
  <2>1. ASSUME NEW b \in Builds, PipelineDeploys(o, b) PROVE RowsKept
    BY <2>1, SetStatusKeeps DEF PipelineDeploys, Statuses
  <2>2. CASE \A b \in Builds : ~PipelineDeploys(o, b)
    <3>1. UNCHANGED status
      BY <1>3, <2>2 DEF CallSetAppVersion, CallDeploy, CallRollback, CallDelete, rowVars
    <3> QED
      BY <3>1, <1>2
  <2> QED
    BY <2>1, <2>2
<1>4. ASSUME NEW o \in Slots,
             \/ PipelineCompletes(o) \/ DeployBegins(o) \/ DeployRefused(o)
             \/ DeployEnds(o) \/ DeleteRow(o)
      PROVE  RowsKept
  <2>1. ops[o].build \in Builds
    BY <1>4, BuildOfOp DEF PipelineCompletes, DeployBegins, DeployRefused, DeployEnds, DeleteRow,
           At, InFlight
  <2>2. \E st \in Statuses \ {"absent"} : SetStatus(ops[o].build, st)
    BY <1>4 DEF PipelineCompletes, DeployBegins, DeployRefused, DeployEnds, DeleteRow, Statuses
  <2> QED
    BY <2>1, <2>2, SetStatusKeeps
<1>5. ASSUME NEW o \in Slots, OpFails(o) PROVE RowsKept
  <2>1. CASE ops[o].kind \in {"pipeline", "deploy"}
    <3>1. ops[o].build \in Builds
      BY <1>5, <2>1, BuildOfOp DEF OpFails, InFlight
    <3>2. SetStatus(ops[o].build, "failed") \/ SetStatus(ops[o].build, "completed")
      BY <1>5, <2>1 DEF OpFails
    <3> QED
      BY <3>1, <3>2, SetStatusKeeps DEF Statuses
  <2>2. CASE ops[o].kind \notin {"pipeline", "deploy"}
    BY <1>2, <1>5, <2>2 DEF OpFails
  <2> QED
    BY <2>1, <2>2
<1>6. ASSUME NEW o \in Slots,
             \/ Upload(o) \/ ReadManifest(o) \/ ReadNoManifest(o) \/ PutManifest(o) \/ SetUri(o)
             \/ MarkBuildDeployed(o) \/ RollbackEnds(o) \/ DeleteObject(o) \/ PutAppVersion(o)
             \/ OpDies(o)
      PROVE  RowsKept
  BY <1>2, <1>6 DEF Upload, ReadManifest, ReadNoManifest, PutManifest, SetUri, MarkBuildDeployed,
         RollbackEnds, DeleteObject, PutAppVersion, OpDies, rowVars
<1> QED
  BY <1>1, <1>3, <1>4, <1>5, <1>6 DEF Next, BuildNext, CallNext, OpNext

(* What a step does to an operation: nothing but that it may be overlapped, *)
(* end it, begin it on a build that is there, or bring it to another stage. *)
OpMoves(i) ==
    \/ Stays(i)
    \/ ops'[i].pc = "free"
    \/ /\ ops[i].pc = "free"
       /\ ops'[i].kind \in Kinds /\ ops'[i].pc \in StagesOf(ops'[i].kind)
       /\ ops'[i].kind # "app" =>
            ops'[i].build \in Builds /\ status[ops'[i].build] # "absent"
    \/ /\ ops'[i].kind = ops[i].kind /\ ops'[i].build = ops[i].build
       /\ ops[i].pc # "free" /\ ops'[i].pc \in StagesOf(ops[i].kind)

LEMMA OpsStep ==
    ASSUME TypeOK, WorkIsOnBuilds, Next, NEW i \in Slots
    PROVE  OpMoves(i)
<1>1. ASSUME ops'[i] = ops[i] PROVE OpMoves(i)
  BY <1>1 DEF OpMoves, Stays
<1>2. ASSUME NEW b \in Builds,
             NewBuild(b) \/ BuildFails(b) \/ BuildCompletesUndeployed(b) \/ JobRunsAgain(b)
               \/ SweepStuck(b)
      PROVE  OpMoves(i)
  BY <1>1, <1>2 DEF NewBuild, BuildFails, BuildCompletesUndeployed, JobRunsAgain, SweepStuck
<1>3. ASSUME NEW o \in Slots, NEW kind \in Kinds, NEW b \in Builds \cup {NoBuild}, NEW pc \in Pcs,
             Begun(o, kind, b, pc), pc \in StagesOf(kind),
             kind # "app" => b \in Builds /\ status[b] # "absent"
      PROVE  OpMoves(i)
  BY <1>3 DEF Begun, OpMoves
<1>4. ASSUME NEW o \in Slots,
             \/ CallSetAppVersion(o)
             \/ \E b \in Builds : PipelineDeploys(o, b) \/ CallDeploy(o, b) \/ CallRollback(o, b)
                                  \/ CallDelete(o, b)
      PROVE  OpMoves(i)
  <2>1. CASE CallSetAppVersion(o)
    BY <1>3, <2>1, CallMoves DEF StagesOf, Kinds, Pcs
  <2>2. ASSUME NEW b \in Builds, PipelineDeploys(o, b) PROVE OpMoves(i)
    BY <1>3, <2>2, CallMoves DEF StagesOf, Kinds, Publishers, Pcs, PipelineDeploys
  <2>3. ASSUME NEW b \in Builds, CallDeploy(o, b) PROVE OpMoves(i)
    BY <1>3, <2>3, CallMoves DEF StagesOf, Kinds, Publishers, Pcs, CallDeploy
  <2>4. ASSUME NEW b \in Builds, CallRollback(o, b) PROVE OpMoves(i)
    BY <1>3, <2>4, CallMoves DEF StagesOf, Kinds, Publishers, Pcs, CallRollback, Row
  <2>5. ASSUME NEW b \in Builds, CallDelete(o, b) PROVE OpMoves(i)
    <3>1. status[b] # "absent"
      BY <2>5 DEF CallDelete, CanDelete, CanDeleteInactive, Row
    <3>2. (IF b \in uri THEN "object" ELSE "row") \in StagesOf("delete")
      BY DEF StagesOf
    <3> QED
      BY <1>3, <2>5, <3>1, <3>2, CallMoves DEF Kinds, Publishers, Pcs
  <2> QED
    BY <1>4, <2>1, <2>2, <2>3, <2>4, <2>5
<1>5. ASSUME NEW o \in Slots, Free(o) PROVE OpMoves(i)
  BY <1>1, <1>5, FreeMoves DEF OpMoves
<1>6. ASSUME NEW o \in Slots, NEW pc \in Pcs, GoTo(o, pc), ops[o].pc # "free",
             pc \in StagesOf(ops[o].kind)
      PROVE  OpMoves(i)
  BY <1>1, <1>6, GoToMoves DEF OpMoves
<1>7. ASSUME NEW o \in Slots,
             Upload(o) \/ SetUri(o) \/ MarkBuildDeployed(o) \/ DeployBegins(o) \/ DeleteObject(o)
      PROVE  OpMoves(i)
  BY <1>6, <1>7 DEF Upload, SetUri, MarkBuildDeployed, DeployBegins, DeleteObject, At, StagesOf, Pcs
<1>8. ASSUME NEW o \in Slots, PutManifest(o) PROVE OpMoves(i)
  BY <1>6, <1>8 DEF PutManifest, StagesOf, Pcs, Publishers
<1>9. ASSUME NEW o \in Slots, ReadManifest(o) PROVE OpMoves(i)
  <2>1. "put" \in StagesOf(ops[o].kind)
    BY <1>9 DEF ReadManifest, WorkIsOnBuilds, InFlight, StagesOf
  <2> QED
    BY <1>1, <1>9, <2>1, ReadMoves DEF ReadManifest, OpMoves
<1>10. ASSUME NEW o \in Slots,
              \/ ReadNoManifest(o) \/ PipelineCompletes(o) \/ DeployRefused(o) \/ DeployEnds(o)
              \/ RollbackEnds(o) \/ DeleteRow(o) \/ PutAppVersion(o) \/ OpFails(o) \/ OpDies(o)
       PROVE  OpMoves(i)
  BY <1>5, <1>10 DEF ReadNoManifest, PipelineCompletes, DeployRefused, DeployEnds, RollbackEnds,
         DeleteRow, PutAppVersion, OpFails, OpDies, Stop, Finish
<1> QED
  BY <1>2, <1>4, <1>7, <1>8, <1>9, <1>10 DEF Next, BuildNext, CallNext, OpNext

LEMMA WorkStep ==
    ASSUME TypeOK, WorkIsOnBuilds, [Next]_vars
    PROVE  WorkIsOnBuilds'
<1>1. CASE UNCHANGED vars
  BY <1>1 DEF WorkIsOnBuilds, InFlight, vars, rowVars
<1>2. CASE Next
  <2>1. RowsKept
    BY <1>2, RowsStep
  <2>2. ASSUME NEW i \in Slots, ops'[i].pc # "free"
        PROVE  /\ ops'[i].pc \in StagesOf(ops'[i].kind)
               /\ ops'[i].kind # "app" =>
                    ops'[i].build \in Builds /\ status'[ops'[i].build] # "absent"
    <3>1. OpMoves(i)
      BY <1>2, OpsStep
    <3> QED
      BY <2>1, <2>2, <3>1 DEF OpMoves, Stays, RowsKept, WorkIsOnBuilds, InFlight
  <2> QED
    BY <2>2 DEF WorkIsOnBuilds, InFlight
<1> QED
  BY <1>1, <1>2

-----------------------------------------------------------------------------
(* A build that is stamped was uploaded.                                   *)

LEMMA UriKept ==
    ASSUME TypeOK, WorkIsOnBuilds, Next, NEW b \in Builds, b \in uri, Row(b)'
    PROVE  b \in uri'
<1>1. ASSUME NEW o \in Slots, DeleteRow(o) PROVE b # ops[o].build
  BY <1>1 DEF DeleteRow, SetStatus, Row, TypeOK
<1>2. ASSUME NEW o \in Slots, SetUri(o) PROVE b \in uri'
  BY <1>2 DEF SetUri
<1>3. ASSUME NEW o \in Slots, DeleteRow(o) PROVE b \in uri'
  BY <1>1, <1>3 DEF DeleteRow
<1>4. CASE UNCHANGED uri
  BY <1>4
<1>5. (\A o \in Slots : ~SetUri(o) /\ ~DeleteRow(o)) => UNCHANGED uri
  BY DEF Next, BuildNext, CallNext, OpNext, NewBuild, BuildFails, BuildCompletesUndeployed,
         JobRunsAgain, SweepStuck, CallSetAppVersion, PipelineDeploys, CallDeploy, CallRollback,
         CallDelete, Upload, ReadManifest, ReadNoManifest, PutManifest, MarkBuildDeployed,
         PipelineCompletes, DeployBegins, DeployRefused, DeployEnds, RollbackEnds, DeleteObject,
         PutAppVersion, OpFails, OpDies, rowVars
<1> QED
  BY <1>2, <1>3, <1>4, <1>5

(* An operation that finds the s3_uri set either found it set before or     *)
(* sees it, or sets it, in this step.                                      *)
FoundAnew(i) == (Row(ops[i].build) => ops[i].build \in uri)'
FoundBefore(i) == FoundUri(i) /\ ops'[i].build = ops[i].build

LEMMA FoundStep ==
    ASSUME TypeOK, WorkIsOnBuilds, Next, NEW i \in Slots, FoundUri(i)'
    PROVE  FoundAnew(i) \/ FoundBefore(i)
<1>1. ASSUME Stays(i) PROVE FoundBefore(i)
  BY <1>1 DEF FoundUri, FoundBefore, Stays, InFlight
<1>2. ASSUME ops'[i] = ops[i] PROVE FoundBefore(i)
  BY <1>1, <1>2 DEF Stays
<1>3. ASSUME NEW o \in Slots, CallSetAppVersion(o) PROVE FoundBefore(i)
  <2>1. Begun(o, "app", NoBuild, "read")
    BY <1>3, CallMoves
  <2>2. i # o
    BY <2>1 DEF Begun, FoundUri
  <2> QED
    BY <1>1, <2>1, <2>2 DEF Begun
<1>4. ASSUME NEW o \in Slots, NEW b \in Builds,
             PipelineDeploys(o, b) \/ CallDelete(o, b)
      PROVE  FoundBefore(i)
  <2>1. \/ Begun(o, "pipeline", b, "upload")
        \/ Begun(o, "delete", b, IF b \in uri THEN "object" ELSE "row")
    BY <1>4, CallMoves
  <2>2. i # o
    BY <2>1 DEF Begun, FoundUri
  <2> QED
    BY <1>1, <2>1, <2>2 DEF Begun
<1>5. ASSUME NEW o \in Slots, NEW b \in Builds, CallRollback(o, b)
      PROVE  FoundAnew(i) \/ FoundBefore(i)
  <2>1. b \in uri' /\ Begun(o, "rollback", b, "read")
    BY <1>5, CallMoves DEF CallRollback, rowVars
  <2>2. CASE i = o
    BY <2>1, <2>2 DEF Begun, FoundAnew
  <2>3. CASE i # o
    BY <1>1, <2>1, <2>3 DEF Begun
  <2> QED
    BY <2>2, <2>3
<1>13. ASSUME NEW o \in Slots, NEW b \in Builds, CallDeploy(o, b)
       PROVE  FoundAnew(i) \/ FoundBefore(i)
  <2>1. /\ uri' = uri
        /\ Begun(o, "deploy", b, IF b \in uri THEN "begin" ELSE "refuse")
    BY <1>13, CallMoves DEF CallDeploy, rowVars
  <2>2. CASE i = o
    BY <2>1, <2>2 DEF Begun, FoundAnew, FoundUri
  <2>3. CASE i # o
    BY <1>1, <2>1, <2>3 DEF Begun
  <2> QED
    BY <2>2, <2>3
<1>6. ASSUME NEW o \in Slots, Free(o) PROVE FoundBefore(i)
  <2>1. ops'[o].pc = "free" /\ ops'[o].kind = "app" /\ (i # o => ops'[i] = ops[i])
    BY <1>6, FreeMoves
  <2>2. i # o
    BY <2>1 DEF FoundUri
  <2> QED
    BY <1>2, <2>1, <2>2
<1>7. ASSUME NEW o \in Slots, SetUri(o) PROVE FoundAnew(i) \/ FoundBefore(i)
  <2>1. CASE i = o
    <3>1. ops'[o].build = ops[o].build
      BY <1>7, GoToMoves DEF SetUri, Pcs
    <3> QED
      BY <1>7, <2>1, <3>1 DEF SetUri, FoundAnew, Row
  <2>2. CASE i # o
    BY <1>2, <1>7, <2>2, GoToMoves DEF SetUri, Pcs
  <2> QED
    BY <2>1, <2>2
<1>8. ASSUME NEW o \in Slots, DeployBegins(o) PROVE FoundBefore(i)
  <2>1. ops'[o].build = ops[o].build /\ (i # o => ops'[i] = ops[i])
    BY <1>8, GoToMoves DEF DeployBegins, Pcs
  <2> QED
    BY <1>2, <1>8, <2>1 DEF DeployBegins, FoundBefore, FoundUri, At
<1>9. ASSUME NEW o \in Slots,
             Upload(o) \/ PutManifest(o) \/ MarkBuildDeployed(o) \/ DeleteObject(o)
      PROVE  FoundBefore(i)
  <2>1. \E pc \in Pcs : GoTo(o, pc)
    BY <1>9 DEF Upload, PutManifest, MarkBuildDeployed, DeleteObject, Pcs
  <2>2. /\ ops'[o].kind = ops[o].kind /\ ops'[o].build = ops[o].build
        /\ i # o => ops'[i] = ops[i]
    BY <2>1, GoToMoves
  <2>3. CASE i = o /\ (Upload(o) \/ DeleteObject(o))
    <3>1. ops'[o].pc \in {"read", "row"} /\ ops[o].kind \in {"pipeline", "delete"}
      BY <2>3, GoToMoves DEF Upload, DeleteObject, Pcs, At
    <3> QED
      BY <2>2, <2>3, <3>1 DEF FoundUri
  <2>4. CASE i = o /\ PutManifest(o)
    <3>1. ops[o].kind = "pipeline" => ops'[o].pc = "uri"
      BY <2>4, GoToMoves DEF PutManifest, Pcs
    <3> QED
      BY <2>2, <2>4, <3>1 DEF FoundUri, FoundBefore, PutManifest, InFlight
  <2>5. CASE i = o /\ MarkBuildDeployed(o)
    BY <2>2, <2>5 DEF FoundUri, FoundBefore, MarkBuildDeployed, At
  <2> QED
    BY <1>2, <1>9, <2>2, <2>3, <2>4, <2>5
<1>10. ASSUME NEW o \in Slots, ReadManifest(o) PROVE FoundBefore(i)
  <2>1. /\ ops'[o].kind = ops[o].kind /\ ops'[o].build = ops[o].build /\ ops'[o].pc = "put"
        /\ ops[o].pc = "read" /\ (i # o => ops'[i] = ops[i])
    BY <1>10, ReadMoves DEF ReadManifest
  <2> QED
    BY <1>2, <2>1 DEF FoundUri, FoundBefore, InFlight
<1>11. ASSUME NEW b \in Builds,
              NewBuild(b) \/ BuildFails(b) \/ BuildCompletesUndeployed(b) \/ JobRunsAgain(b)
                \/ SweepStuck(b)
       PROVE  FoundBefore(i)
  BY <1>2, <1>11 DEF NewBuild, BuildFails, BuildCompletesUndeployed, JobRunsAgain, SweepStuck,
         FoundBefore, FoundUri, InFlight
<1>12. ASSUME NEW o \in Slots,
              \/ ReadNoManifest(o) \/ PipelineCompletes(o) \/ DeployRefused(o) \/ DeployEnds(o)
              \/ RollbackEnds(o) \/ DeleteRow(o) \/ PutAppVersion(o) \/ OpFails(o) \/ OpDies(o)
       PROVE  FoundBefore(i)
  BY <1>6, <1>12 DEF ReadNoManifest, PipelineCompletes, DeployRefused, DeployEnds, RollbackEnds,
         DeleteRow, PutAppVersion, OpFails, OpDies, Stop, Finish
<1> QED
  BY <1>3, <1>4, <1>5, <1>7, <1>8, <1>9, <1>10, <1>11, <1>12, <1>13
     DEF Next, BuildNext, CallNext, OpNext

LEMMA UriStaysStep ==
    ASSUME StampInv, Next
    PROVE  UriStaysSet'
<1>1. ASSUME NEW i \in Slots, FoundUri(i)', Row(ops[i].build)' PROVE (ops[i].build \in uri)'
  <2>1. FoundAnew(i) \/ FoundBefore(i)
    BY <1>1, FoundStep DEF StampInv
  <2>2. CASE FoundAnew(i)
    BY <1>1, <2>2 DEF FoundAnew
  <2>3. CASE FoundBefore(i)
    <3> DEFINE b == ops[i].build
    <3>1. FoundUri(i) /\ ops'[i].build = b
      BY <2>3 DEF FoundBefore
    <3>2. b \in Builds /\ status[b] # "absent"
      BY <3>1 DEF StampInv, WorkIsOnBuilds, FoundUri, InFlight
    <3>3. status'[b] \notin {"absent", "deleted"}
      BY <1>1, <3>1 DEF Row
    <3>4. Row(b)
      BY <3>2, <3>3, RowsStep DEF StampInv, RowsKept, Row
    <3>5. b \in uri
      BY <3>1, <3>4 DEF StampInv, UriStaysSet
    <3> HIDE DEF b
    <3>6. b \in uri'
      BY <3>2, <3>3, <3>5, UriKept DEF StampInv, Row
    <3> QED
      BY <3>1, <3>6
  <2> QED
    BY <2>1, <2>2, <2>3
<1> QED
  BY <1>1 DEF UriStaysSet

(* A stamp is newer than any other; the rest is as it was or is cleared.   *)
LEMMA StampMoves ==
    ASSUME TypeOK, NEW b \in Builds, NEW S, StampNow(b, S), NEW c \in Builds
    PROVE  /\ c # b \/ ~Row(b) => deployed'[c] = (IF c \in S THEN NoTime ELSE deployed[c])
           /\ c = b /\ Row(b) => deployed'[c] = clock + 1
<1>1. deployed' = IF Row(b) THEN [Cleared(S) EXCEPT ![b] = clock + 1] ELSE Cleared(S)
  BY DEF StampNow
<1>2. Cleared(S) = [a \in Builds |-> IF a \in S THEN NoTime ELSE deployed[a]]
  BY DEF Cleared
<1> QED
  BY <1>1, <1>2

\* What a step may do to a deployed_at.
TimeMoves(c) ==
    \/ deployed'[c] = deployed[c]
    \/ deployed'[c] = NoTime
    \/ deployed'[c] = clock + 1 /\ c \in uri

LEMMA TimesStep ==
    ASSUME StampInv, Next
    PROVE  /\ \A c \in Builds : TimeMoves(c)
           /\ \A b, c \in Builds :
                deployed'[b] = clock + 1 /\ deployed'[c] = clock + 1 => b = c
           /\ \A o \in Slots : DeleteRow(o) => deployed'[ops[o].build] = NoTime
<1>1. TypeOK /\ WorkIsOnBuilds
  BY DEF StampInv
<1>2. ASSUME UNCHANGED deployed
      PROVE  /\ \A c \in Builds : TimeMoves(c)
             /\ \A b, c \in Builds :
                  deployed'[b] = clock + 1 /\ deployed'[c] = clock + 1 => b = c
  BY <1>1, <1>2 DEF TimeMoves, TypeOK
<1>3. ASSUME NEW b \in Builds, NEW S, StampNow(b, S), Row(b) => b \in uri
      PROVE  /\ \A c \in Builds : TimeMoves(c)
             /\ \A a, c \in Builds :
                  deployed'[a] = clock + 1 /\ deployed'[c] = clock + 1 => a = c
  <2>1. ASSUME NEW c \in Builds PROVE deployed[c] \in Nat /\ deployed[c] <= clock /\ clock \in Nat
    BY <1>1 DEF TypeOK
  <2>2. ASSUME NEW c \in Builds
        PROVE  /\ TimeMoves(c)
               /\ deployed'[c] = clock + 1 => c = b
    BY <1>1, <1>3, <2>1, <2>2, StampMoves DEF TimeMoves, NoTime
  <2> QED
    BY <2>2
<1>4. ASSUME NEW o \in Slots, MarkBuildDeployed(o) \/ DeployEnds(o) \/ RollbackEnds(o)
      PROVE  /\ \A c \in Builds : TimeMoves(c)
             /\ \A a, c \in Builds :
                  deployed'[a] = clock + 1 /\ deployed'[c] = clock + 1 => a = c
  <2>1. ops[o].build \in Builds /\ FoundUri(o)
    BY <1>1, <1>4, BuildOfOp DEF MarkBuildDeployed, DeployEnds, RollbackEnds, At, InFlight, FoundUri
  <2>2. Row(ops[o].build) => ops[o].build \in uri
    BY <2>1 DEF StampInv, UriStaysSet
  <2>3. \E S : StampNow(ops[o].build, S)
    BY <1>4 DEF MarkBuildDeployed, DeployEnds, RollbackEnds
  <2> QED
    BY <1>3, <2>1, <2>2, <2>3
<1>5. ASSUME NEW o \in Slots, DeleteRow(o)
      PROVE  /\ \A c \in Builds : TimeMoves(c)
             /\ \A a, c \in Builds :
                  deployed'[a] = clock + 1 /\ deployed'[c] = clock + 1 => a = c
             /\ deployed'[ops[o].build] = NoTime
  <2>1. ops[o].build \in Builds
    BY <1>1, <1>5, BuildOfOp DEF DeleteRow, At, InFlight
  <2>2. \A c \in Builds : deployed'[c] = (IF c = ops[o].build THEN NoTime ELSE deployed[c])
    BY <1>5 DEF DeleteRow, Cleared
  <2>3. \A c \in Builds : deployed'[c] # clock + 1
    BY <1>1, <2>2 DEF TypeOK, NoTime
  <2> QED
    BY <2>1, <2>2, <2>3 DEF TimeMoves
<1>6. (\A o \in Slots : ~MarkBuildDeployed(o) /\ ~DeployEnds(o) /\ ~RollbackEnds(o) /\ ~DeleteRow(o))
        => UNCHANGED deployed
  BY DEF Next, BuildNext, CallNext, OpNext, NewBuild, BuildFails, BuildCompletesUndeployed,
         JobRunsAgain, SweepStuck, CallSetAppVersion, PipelineDeploys, CallDeploy, CallRollback,
         CallDelete, Upload, ReadManifest, ReadNoManifest, PutManifest, SetUri,
         PipelineCompletes, DeployBegins, DeployRefused, DeleteObject,
         PutAppVersion, OpFails, OpDies, rowVars
<1> QED
  BY <1>2, <1>4, <1>5, <1>6

(* StampInv is kept by every step.                                         *)
LEMMA StampStep ==
    ASSUME StampInv, [Next]_vars
    PROVE  StampInv'
<1>1. CASE UNCHANGED vars
  BY <1>1 DEF StampInv, TypeOK, WorkIsOnBuilds, UriStaysSet, StampsDiffer, DeployedWasUploaded,
              FoundUri, InFlight, Row, IsDeployed, vars, rowVars, s3Vars, history
<1>2. CASE Next
  <2>1. TypeOK /\ WorkIsOnBuilds
    BY DEF StampInv
  <2>2. TypeOK' /\ WorkIsOnBuilds'
    BY <2>1, TypeStep, WorkStep
  <2>3. UriStaysSet'
    BY <1>2, UriStaysStep
  <2>4. \A c \in Builds : deployed[c] \in 0..clock /\ clock \in Nat
    BY <2>1 DEF TypeOK
  <2>5. ASSUME NEW b \in Builds, NEW c \in Builds, deployed'[b] # NoTime, deployed'[b] = deployed'[c]
        PROVE  b = c
    <3>1. TimeMoves(b) /\ TimeMoves(c)
      BY <1>2, TimesStep
    <3>2. deployed'[b] = clock + 1 => b = c
      BY <1>2, <2>5, TimesStep
    <3>3. deployed[b] = deployed[c] /\ deployed[b] # NoTime => b = c
      BY DEF StampInv, StampsDiffer, IsDeployed
    <3> QED
      BY <2>4, <2>5, <3>1, <3>2, <3>3 DEF TimeMoves
  <2>6. ASSUME NEW b \in Builds, deployed'[b] # NoTime PROVE b \in uri'
    <3>1. b \in uri
      BY <1>2, <2>6, TimesStep DEF TimeMoves, StampInv, DeployedWasUploaded, IsDeployed
    <3>2. ASSUME NEW o \in Slots, DeleteRow(o) PROVE b \in uri'
      BY <1>2, <2>6, <3>1, <3>2, TimesStep DEF DeleteRow
    <3>3. (\A o \in Slots : ~DeleteRow(o)) => uri \subseteq uri'
      BY <1>2 DEF Next, BuildNext, CallNext, OpNext, NewBuild, BuildFails,
         BuildCompletesUndeployed, JobRunsAgain, SweepStuck, CallSetAppVersion, PipelineDeploys,
         CallDeploy, CallRollback, CallDelete, Upload, ReadManifest, ReadNoManifest, PutManifest,
         SetUri, MarkBuildDeployed, PipelineCompletes, DeployBegins, DeployRefused, DeployEnds,
         RollbackEnds, DeleteObject, PutAppVersion, OpFails, OpDies, rowVars
    <3> QED
      BY <3>1, <3>2, <3>3
  <2> QED
    BY <2>2, <2>3, <2>5, <2>6 DEF StampInv, StampsDiffer, DeployedWasUploaded, IsDeployed
<1> QED
  BY <1>1, <1>2

LEMMA InitStamp == Init => StampInv
<1> SUFFICES ASSUME Init PROVE StampInv
  OBVIOUS
<1>1. \A o \in Slots : ops[o] = FreeOp
  BY DEF Init
<1>2. WorkIsOnBuilds /\ UriStaysSet
  BY <1>1 DEF WorkIsOnBuilds, UriStaysSet, FoundUri, InFlight, FreeOp
<1>3. \A b \in Builds : deployed[b] = NoTime
  BY DEF Init
<1> QED
  BY <1>2, <1>3, InitType DEF StampInv, StampsDiffer, DeployedWasUploaded, IsDeployed

-----------------------------------------------------------------------------
(* Operations that nothing overlaps.                                       *)

\* One operation in flight ends or goes on.
Advances(o) ==
    /\ ops[o].pc # "free"
    /\ ops'[o].pc = "free" \/ ops'[o].alone = ops[o].alone
    /\ \A i \in Slots : i # o => ops'[i] = ops[i]

LEMMA OpAdvances ==
    ASSUME TypeOK, NEW o \in Slots,
           \/ Upload(o) \/ ReadManifest(o) \/ ReadNoManifest(o) \/ PutManifest(o)
           \/ SetUri(o) \/ MarkBuildDeployed(o) \/ PipelineCompletes(o)
           \/ DeployBegins(o) \/ DeployRefused(o) \/ DeployEnds(o) \/ RollbackEnds(o)
           \/ DeleteObject(o) \/ DeleteRow(o) \/ PutAppVersion(o)
           \/ OpFails(o) \/ OpDies(o)
    PROVE  Advances(o)
<1>1. ASSUME Free(o), ops[o].pc # "free" PROVE Advances(o)
  BY <1>1, FreeMoves DEF Advances
<1>2. ASSUME NEW pc \in Pcs, GoTo(o, pc), ops[o].pc # "free" PROVE Advances(o)
  BY <1>2, GoToMoves DEF Advances
<1>3. CASE Upload(o) \/ SetUri(o) \/ MarkBuildDeployed(o) \/ DeployBegins(o) \/ DeleteObject(o)
  BY <1>2, <1>3 DEF Upload, SetUri, MarkBuildDeployed, DeployBegins, DeleteObject, At, Pcs
<1>4. CASE PutManifest(o)
  BY <1>2, <1>4 DEF PutManifest, Pcs
<1>5. CASE ReadManifest(o)
  <2>1. ops[o].pc = "read"
    BY <1>5 DEF ReadManifest
  <2> QED
    BY <1>5, <2>1, ReadMoves DEF Advances
<1>6. CASE \/ ReadNoManifest(o) \/ PipelineCompletes(o) \/ DeployRefused(o) \/ DeployEnds(o)
           \/ RollbackEnds(o) \/ DeleteRow(o) \/ PutAppVersion(o) \/ OpFails(o) \/ OpDies(o)
  BY <1>1, <1>6 DEF ReadNoManifest, PipelineCompletes, DeployRefused, DeployEnds, RollbackEnds,
         DeleteRow, PutAppVersion, OpFails, OpDies, Stop, Finish, At, InFlight
<1> QED
  BY <1>3, <1>4, <1>5, <1>6

\* A step is of a row, begins an operation, or advances one.
Begins(o) == \E kind \in Kinds, b \in Builds \cup {NoBuild}, pc \in Pcs : Begun(o, kind, b, pc)

LEMMA CallBegins ==
    ASSUME TypeOK, NEW o \in Slots,
           \/ CallSetAppVersion(o)
           \/ \E b \in Builds : PipelineDeploys(o, b) \/ CallDeploy(o, b) \/ CallRollback(o, b)
                                \/ CallDelete(o, b)
    PROVE  Begins(o)
<1>1. "app" \in Kinds /\ "pipeline" \in Kinds /\ "deploy" \in Kinds /\ "rollback" \in Kinds
      /\ "delete" \in Kinds
  BY DEF Kinds, Publishers
<1>2. {"read", "upload", "begin", "refuse", "object", "row"} \subseteq Pcs
  BY DEF Pcs
<1>3. CASE CallSetAppVersion(o)
  <2>1. Begun(o, "app", NoBuild, "read")
    BY <1>3, CallMoves
  <2> QED
    BY <1>1, <1>2, <2>1 DEF Begins
<1>4. ASSUME NEW b \in Builds, PipelineDeploys(o, b) \/ CallDeploy(o, b) \/ CallRollback(o, b)
                                \/ CallDelete(o, b)
      PROVE  Begins(o)
  <2>1. \/ Begun(o, "pipeline", b, "upload")
        \/ Begun(o, "deploy", b, IF b \in uri THEN "begin" ELSE "refuse")
        \/ Begun(o, "rollback", b, "read")
        \/ Begun(o, "delete", b, "object") \/ Begun(o, "delete", b, "row")
    BY <1>4, CallMoves
  <2> QED
    BY <1>1, <1>2, <2>1 DEF Begins
<1> QED
  BY <1>3, <1>4

LEMMA StepKinds ==
    ASSUME TypeOK, Next
    PROVE  (BuildNext /\ ops' = ops) \/ \E o \in Slots : Begins(o) \/ Advances(o)
<1>1. BuildNext => ops' = ops
  BY DEF BuildNext, NewBuild, BuildFails, BuildCompletesUndeployed, JobRunsAgain, SweepStuck
<1>2. CallNext => \E o \in Slots : Begins(o)
  BY CallBegins DEF CallNext
<1>3. OpNext => \E o \in Slots : Advances(o)
  BY OpAdvances DEF OpNext
<1> QED
  BY <1>1, <1>2, <1>3 DEF Next

LEMMA AloneStep ==
    ASSUME TypeOK, AloneIsAlone, Next
    PROVE  AloneIsAlone'
<1>1. ASSUME ops' = ops PROVE AloneIsAlone'
  BY <1>1 DEF AloneIsAlone, Alone, InFlight
<1>2. ASSUME NEW o \in Slots, Begins(o) PROVE AloneIsAlone'
  <2>1. /\ ops'[o].alone = Quiet /\ ops[o].pc = "free"
        /\ \A i \in Slots : i # o => ops'[i].pc = ops[i].pc /\ ops'[i].alone = (ops[i].pc = "free")
    BY <1>2 DEF Begins, Begun, Stays
  <2>2. ASSUME NEW i \in Slots, NEW j \in Slots, ops'[i].pc # "free", ops'[i].alone, ops'[j].pc # "free"
        PROVE  i = j
    <3>1. i = o
      BY <2>1, <2>2
    <3>2. \A k \in Slots : ops[k].pc = "free"
      BY <2>1, <2>2, <3>1 DEF Quiet, InFlight
    <3> QED
      BY <2>1, <2>2, <3>1, <3>2
  <2> QED
    BY <2>2 DEF AloneIsAlone, Alone, InFlight
<1>3. ASSUME NEW o \in Slots, Advances(o) PROVE AloneIsAlone'
  BY <1>3 DEF AloneIsAlone, Alone, InFlight, Advances
<1> QED
  BY <1>1, <1>2, <1>3, StepKinds

(* Who is alone after a step has begun on a quiet system, or was alone, and *)
(* then the step is its own or one of a row.                               *)
LEMMA AloneActs ==
    ASSUME TypeOK, AloneIsAlone, NEW i \in Slots, Alone(i)', NEW o \in Slots
    PROVE  /\ Begins(o) => i = o
           /\ Advances(o) => i = o /\ Alone(i)
<1>1. ASSUME Begins(o) PROVE i = o
  BY <1>1 DEF Begins, Begun, Stays, Alone, InFlight
<1>2. ASSUME Advances(o) PROVE i = o /\ Alone(i)
  BY <1>2 DEF Advances, AloneIsAlone, Alone, InFlight
<1> QED
  BY <1>1, <1>2

LEMMA AloneFindsStep ==
    ASSUME StampInv, AloneIsAlone, AloneFinds, Next
    PROVE  AloneFinds'
<1>t. TypeOK /\ WorkIsOnBuilds
  BY DEF StampInv
<1> SUFFICES ASSUME NEW i \in Slots, Alone(i)' PROVE Finds(i)'
  BY DEF AloneFinds
<1>1. ASSUME NEW b \in Builds,
             NewBuild(b) \/ BuildFails(b) \/ BuildCompletesUndeployed(b) \/ JobRunsAgain(b)
               \/ SweepStuck(b)
      PROVE  Finds(i)'
  <2>1. UNCHANGED <<deployed, manifest, ops>>
    BY <1>1 DEF NewBuild, BuildFails, BuildCompletesUndeployed, JobRunsAgain, SweepStuck, s3Vars
  <2>2. \A c \in Builds : Row(c) => Row(c)'
    BY <1>t, <1>1 DEF NewBuild, BuildFails, BuildCompletesUndeployed, JobRunsAgain, SweepStuck, Row,
           TypeOK
  <2>3. Finds(i) /\ (Publishes(i) => ops[i].build \in Builds)
    BY <1>t, <2>1 DEF AloneFinds, Alone, InFlight, Publishes, Publishers, WorkIsOnBuilds
  <2>4. Row(ops[i].build) /\ ops[i].build \in Builds => Row(ops[i].build)'
    BY <2>1, <2>2 DEF Row
  <2> QED
    BY <2>1, <2>3, <2>4 DEF Finds, Publishes, InFlight, IsNewest, IsDeployed
<1>2. ASSUME NEW o \in Slots, CallSetAppVersion(o) PROVE Finds(i)'
  <2>1. Begun(o, "app", NoBuild, "read") /\ i = o
    BY <1>t, <1>2, CallMoves, CallBegins, AloneActs
  <2> QED
    BY <2>1 DEF Begun, Finds, Publishes, Publishers
<1>3. ASSUME NEW o \in Slots, NEW b \in Builds,
             PipelineDeploys(o, b) \/ CallDeploy(o, b) \/ CallRollback(o, b) \/ CallDelete(o, b)
      PROVE  Finds(i)'
  <2>1. i = o
    BY <1>t, <1>3, CallBegins, AloneActs
  <2>2. /\ ops'[o].build = b
        /\ ops'[o].pc \in {"upload", "begin", "refuse", "read", "object", "row"}
        /\ CallDelete(o, b) => ops'[o].kind = "delete"
    BY <1>t, <1>3, CallMoves DEF Begun
  <2>3. ~CallDelete(o, b) => status'[b] \notin {"absent", "deleted"}
    BY <1>t, <1>3 DEF PipelineDeploys, CallDeploy, CallRollback, SetStatus, Row, TypeOK, rowVars
  <2> QED
    BY <2>1, <2>2, <2>3 DEF Finds, Publishes, Publishers, Row
<1>4. ASSUME NEW o \in Slots, ops'[o].pc = "free", Advances(o) PROVE FALSE
  BY <1>t, <1>4, AloneActs DEF Alone, InFlight
<1>5. ASSUME NEW o \in Slots,
             \/ ReadNoManifest(o) \/ PipelineCompletes(o) \/ DeployRefused(o) \/ DeployEnds(o)
             \/ RollbackEnds(o) \/ DeleteRow(o) \/ PutAppVersion(o) \/ OpFails(o) \/ OpDies(o)
      PROVE  Finds(i)'
  <2>1. Free(o)
    BY <1>5 DEF ReadNoManifest, PipelineCompletes, DeployRefused, DeployEnds, RollbackEnds,
         DeleteRow, PutAppVersion, OpFails, OpDies, Stop, Finish
  <2> QED
    BY <1>t, <1>4, <1>5, <2>1, OpAdvances, FreeMoves
<1>6. ASSUME NEW o \in Slots,
             \/ Upload(o) \/ ReadManifest(o) \/ PutManifest(o) \/ SetUri(o)
             \/ MarkBuildDeployed(o) \/ DeployBegins(o) \/ DeleteObject(o)
      PROVE  i = o /\ Alone(o) /\ Finds(o)
  BY <1>t, <1>6, OpAdvances, AloneActs DEF AloneFinds
<1>7. ASSUME NEW o \in Slots, Upload(o) \/ DeleteObject(o) PROVE Finds(i)'
  <2>1. /\ ops'[o].pc \in {"read", "row"} /\ ops'[o].kind = ops[o].kind
        /\ ops'[o].build = ops[o].build
    BY <1>t, <1>7, GoToMoves DEF Upload, DeleteObject, Pcs
  <2>2. UNCHANGED status /\ ops[o].pc # "free"
    BY <1>7 DEF Upload, DeleteObject, At, rowVars
  <2> QED
    BY <1>6, <1>7, <2>1, <2>2 DEF Finds, Publishes, InFlight, Row
<1>8. ASSUME NEW o \in Slots, ReadManifest(o) PROVE Finds(i)'
  <2>1. /\ ops'[o].pc = "put" /\ ops'[o].kind = ops[o].kind /\ ops'[o].build = ops[o].build
        /\ ops'[o].seen = manifest /\ ops[o].pc = "read"
    BY <1>t, <1>8, ReadMoves DEF ReadManifest
  <2>2. UNCHANGED <<status, manifest>>
    BY <1>8 DEF ReadManifest, rowVars, s3Vars
  <2> QED
    BY <1>6, <1>8, <2>1, <2>2 DEF Finds, Publishes, InFlight, Row
<1>9. ASSUME NEW o \in Slots, PutManifest(o) PROVE Finds(i)'
  <2>1. /\ ops'[o].pc \in {"uri", "mark"} /\ ops'[o].kind = ops[o].kind
        /\ ops'[o].build = ops[o].build
    BY <1>t, <1>9, GoToMoves DEF PutManifest, Pcs
  <2>2. UNCHANGED status /\ ops[o].pc # "free"
    BY <1>9 DEF PutManifest, rowVars
  <2>3. manifest'.build = ops[o].build
    <3>1. ops[o].seen \in Manifests
      BY <1>t DEF TypeOK, Ops
    <3> QED
      BY <1>9, <3>1 DEF PutManifest, Manifests
  <2> QED
    BY <1>6, <1>9, <2>1, <2>2, <2>3 DEF Finds, Publishes, InFlight, Row
<1>10. ASSUME NEW o \in Slots, SetUri(o) PROVE Finds(i)'
  <2>1. ops'[o].pc = "mark" /\ ops'[o].kind = ops[o].kind /\ ops'[o].build = ops[o].build
    BY <1>t, <1>10, GoToMoves DEF SetUri, Pcs
  <2>2. UNCHANGED <<status, manifest>> /\ ops[o].pc = "uri"
    BY <1>10 DEF SetUri, At, s3Vars
  <2> QED
    BY <1>6, <1>10, <2>1, <2>2 DEF Finds, Publishes, InFlight, Row
<1>11. ASSUME NEW o \in Slots, MarkBuildDeployed(o) PROVE Finds(i)'
  <2>1. ops'[o].pc = "complete" /\ ops'[o].kind = ops[o].kind /\ ops'[o].build = ops[o].build
    BY <1>t, <1>11, GoToMoves DEF MarkBuildDeployed, Pcs
  <2>2. UNCHANGED <<status, manifest>> /\ ops[o].pc = "mark" /\ ops[o].kind = "pipeline"
    BY <1>11 DEF MarkBuildDeployed, At, s3Vars
  <2>3. Row(ops[o].build) /\ manifest.build = ops[o].build
    BY <1>6, <1>11, <2>2 DEF Finds, Publishes, InFlight, Publishers
  <2>4. IsNewest(ops[o].build)'
    <3>1. ops[o].build \in Builds
      BY <1>t, <2>2, BuildOfOp DEF InFlight
    <3>2. /\ deployed'[ops[o].build] = clock + 1
          /\ \A c \in Builds : c # ops[o].build => deployed'[c] = NoTime
      BY <1>t, <1>11, <2>3, <3>1, StampMoves DEF MarkBuildDeployed
    <3> QED
      BY <1>t, <2>1, <3>1, <3>2 DEF IsNewest, IsDeployed, TypeOK, NoTime
  <2> QED
    BY <1>6, <1>11, <2>1, <2>2, <2>3, <2>4 DEF Finds, Publishes, InFlight, Row
<1>12. ASSUME NEW o \in Slots, DeployBegins(o) PROVE Finds(i)'
  <2>1. ops'[o].pc = "read" /\ ops'[o].kind = ops[o].kind /\ ops'[o].build = ops[o].build
    BY <1>t, <1>12, GoToMoves DEF DeployBegins, Pcs
  <2>2. ops[o].pc = "begin" /\ ops[o].kind = "deploy"
    BY <1>12 DEF DeployBegins, At
  <2>3. Row(ops[o].build) /\ ops[o].build \in Builds
    BY <1>t, <1>6, <1>12, <2>2, BuildOfOp DEF Finds, Publishes, InFlight, Publishers
  <2>4. status'[ops[o].build] \notin {"absent", "deleted"}
    BY <1>t, <1>12, <2>3 DEF DeployBegins, SetStatus, Row, TypeOK
  <2> QED
    BY <1>6, <1>12, <2>1, <2>4 DEF Finds, Row
<1> QED
  BY <1>1, <1>2, <1>3, <1>5, <1>7, <1>8, <1>9, <1>10, <1>11, <1>12
     DEF Next, BuildNext, CallNext, OpNext

-----------------------------------------------------------------------------
(* What the manifest says as long as nothing is in doubt.                  *)

\* No operation has begun, none works on something else than before.
NothingBegins ==
    \A i \in Slots : ops'[i].pc # "free" =>
        ops[i].pc # "free" /\ ops'[i].kind = ops[i].kind /\ ops'[i].build = ops[i].build

LEMMA ModelStaysInSync ==
    ASSUME ModelAgrees, NothingBegins, UNCHANGED <<deployed, manifest>>
    PROVE  ModelAgrees'
<1>1. IsNewest(manifest.build)'
  BY DEF ModelAgrees, IsNewest, IsDeployed
<1> QED
  BY <1>1 DEF ModelAgrees, NothingBegins, Publishes, Deletes, InFlight, IsDeployed

LEMMA NothingBegun ==
    ASSUME TypeOK, OpNext
    PROVE  NothingBegins
<1>1. ASSUME NEW o \in Slots, Free(o) PROVE NothingBegins
  BY <1>1, FreeMoves DEF NothingBegins
<1>2. ASSUME NEW o \in Slots, NEW pc \in Pcs, GoTo(o, pc), ops[o].pc # "free" PROVE NothingBegins
  BY <1>2, GoToMoves DEF NothingBegins
<1>3. ASSUME NEW o \in Slots, 
             Upload(o) \/ SetUri(o) \/ MarkBuildDeployed(o) \/ DeployBegins(o) \/ DeleteObject(o)
      PROVE  NothingBegins
  BY <1>2, <1>3 DEF Upload, SetUri, MarkBuildDeployed, DeployBegins, DeleteObject, At, Pcs
<1>4. ASSUME NEW o \in Slots, PutManifest(o) PROVE NothingBegins
  BY <1>2, <1>4 DEF PutManifest, Pcs
<1>5. ASSUME NEW o \in Slots, ReadManifest(o) PROVE NothingBegins
  <2>1. ops[o].pc = "read"
    BY <1>5 DEF ReadManifest
  <2> QED
    BY <1>5, <2>1, ReadMoves DEF NothingBegins
<1>6. ASSUME NEW o \in Slots,
             \/ ReadNoManifest(o) \/ PipelineCompletes(o) \/ DeployRefused(o) \/ DeployEnds(o)
             \/ RollbackEnds(o) \/ DeleteRow(o) \/ PutAppVersion(o) \/ OpFails(o) \/ OpDies(o)
      PROVE  NothingBegins
  BY <1>1, <1>6 DEF ReadNoManifest, PipelineCompletes, DeployRefused, DeployEnds, RollbackEnds,
         DeleteRow, PutAppVersion, OpFails, OpDies, Stop, Finish
<1> QED
  BY <1>3, <1>4, <1>5, <1>6 DEF OpNext

(* Who finishes alone leaves nobody in flight.                             *)
LEMMA NobodyLeft ==
    ASSUME TypeOK, AloneIsAlone, NEW o \in Slots, InFlight(o), ops[o].alone, Free(o)
    PROVE  \A i \in Slots : ops'[i].pc = "free"
BY FreeMoves DEF AloneIsAlone, Alone, InFlight

LEMMA ModelFinish ==
    ASSUME StampInv, AloneIsAlone, AloneFinds, NEW o \in Slots, "model" \in synced',
           PipelineCompletes(o) \/ DeployEnds(o) \/ RollbackEnds(o)
    PROVE  ModelAgrees'
<1>t. TypeOK /\ WorkIsOnBuilds
  BY DEF StampInv
<1>1. Finish(o, "model") /\ UNCHANGED manifest
  BY DEF PipelineCompletes, DeployEnds, RollbackEnds, s3Vars
<1>2. /\ ops[o].kind \in Publishers /\ ops[o].pc \in {"mark", "complete"}
      /\ PipelineCompletes(o) => ops[o].pc = "complete"
  BY DEF PipelineCompletes, DeployEnds, RollbackEnds, At, Publishers
<1>3. ops[o].alone /\ Free(o)
  BY <1>1 DEF Finish
<1>4. \A i \in Slots : ops'[i].pc = "free"
  BY <1>t, <1>2, <1>3, NobodyLeft DEF InFlight
<1>5. Finds(o) /\ Publishes(o)
  BY <1>2, <1>3 DEF AloneFinds, Alone, Publishes, InFlight
<1> DEFINE b == ops[o].build
<1>6. manifest.build = b /\ Row(b) /\ (ops[o].pc = "complete" => IsNewest(b))
  BY <1>2, <1>5 DEF Finds
<1>7. b \in Builds
  BY <1>2, <1>t, BuildOfOp DEF InFlight, Publishers
<1>8. /\ deployed'[b] # NoTime
      /\ \A c \in Builds : deployed'[c] <= deployed'[b]
  <2>1. CASE PipelineCompletes(o)
    BY <1>2, <1>6, <2>1 DEF PipelineCompletes, IsNewest, IsDeployed
  <2>2. CASE DeployEnds(o) \/ RollbackEnds(o)
    <3>1. PICK S : StampNow(b, S)
      BY <2>2 DEF DeployEnds, RollbackEnds
    <3> HIDE DEF b
    <3>2. /\ deployed'[b] = clock + 1
          /\ \A c \in Builds : c # b => deployed'[c] = (IF c \in S THEN NoTime ELSE deployed[c])
      BY <1>t, <1>6, <1>7, <3>1, StampMoves
    <3>3. \A c \in Builds : deployed[c] \in 0..clock /\ clock \in Nat
      BY <1>t DEF TypeOK
    <3> QED
      BY <1>7, <3>2, <3>3 DEF NoTime
  <2> QED
    BY <2>1, <2>2
<1> HIDE DEF b
<1>9. IsNewest(manifest.build)'
  BY <1>1, <1>6, <1>8 DEF IsNewest, IsDeployed
<1> QED
  BY <1>1, <1>4, <1>6, <1>7, <1>9 DEF ModelAgrees, Publishes, Deletes, InFlight

LEMMA ModelInSyncStep ==
    ASSUME StampInv, AloneIsAlone, AloneFinds, ModelInSync, Next, "model" \in synced'
    PROVE  ModelAgrees'
<1>t. TypeOK /\ WorkIsOnBuilds
  BY DEF StampInv
<1>1. ASSUME NEW b \in Builds,
             NewBuild(b) \/ BuildFails(b) \/ BuildCompletesUndeployed(b) \/ JobRunsAgain(b)
               \/ SweepStuck(b)
      PROVE  ModelAgrees'
  <2>1. UNCHANGED <<deployed, manifest, ops, synced>>
    BY <1>1 DEF NewBuild, BuildFails, BuildCompletesUndeployed, JobRunsAgain, SweepStuck, s3Vars,
           history
  <2> QED
    BY <2>1, ModelStaysInSync DEF ModelInSync, NothingBegins
<1>2. ASSUME NEW o \in Slots, NEW kind \in {"app", "delete"}, NEW b \in Builds \cup {NoBuild}, NEW pc,
             Begun(o, kind, b, pc), UNCHANGED <<deployed, manifest>>, "model" \in synced,
             kind = "delete" => ~IsDeployed(b)
      PROVE  ModelAgrees'
  <2>1. ModelAgrees
    BY <1>2 DEF ModelInSync
  <2>2. IsNewest(manifest.build)'
    BY <1>2, <2>1 DEF ModelAgrees, IsNewest, IsDeployed
  <2>3. ASSUME NEW i \in Slots
        PROVE  /\ ~Publishes(i)'
               /\ Deletes(i)' => ~IsDeployed(ops[i].build)'
    <3>1. CASE i = o
      BY <1>2, <3>1 DEF Begun, Publishes, Publishers, Deletes, IsDeployed
    <3>2. CASE i # o
      BY <1>2, <2>1, <3>2 DEF ModelAgrees, Begun, Stays, Publishes, Deletes, InFlight, IsDeployed
    <3> QED
      BY <3>1, <3>2
  <2> QED
    BY <1>2, <2>1, <2>2, <2>3 DEF ModelAgrees
<1>3. ASSUME NEW o \in Slots, CallSetAppVersion(o) PROVE ModelAgrees'
  <2>1. UNCHANGED <<deployed, manifest>> /\ synced' = synced \ {"app"}
    BY <1>3 DEF CallSetAppVersion, Begin, FreeOp, Publishers, rowVars, s3Vars
  <2>2. Begun(o, "app", NoBuild, "read")
    BY <1>3, <1>t, CallMoves
  <2> QED
    BY <1>2, <2>1, <2>2
<1>4. ASSUME NEW o \in Slots, NEW b \in Builds, CallDelete(o, b) PROVE ModelAgrees'
  <2>1. UNCHANGED <<deployed, manifest, synced>> /\ ~IsDeployed(b)
    BY <1>4 DEF CallDelete, CanDelete, Begin, FreeOp, Publishers, rowVars, s3Vars
  <2>2. Begun(o, "delete", b, IF b \in uri THEN "object" ELSE "row")
    BY <1>4, <1>t, CallMoves
  <2> QED
    BY <1>2, <2>1, <2>2
<1>5. ASSUME NEW o \in Slots, NEW b \in Builds,
             PipelineDeploys(o, b) \/ CallDeploy(o, b) \/ CallRollback(o, b)
      PROVE  FALSE
  BY <1>5 DEF PipelineDeploys, CallDeploy, CallRollback, Begin, FreeOp, Publishers
<1>6. ASSUME "model" \in synced, NEW o \in Slots PROVE ~(ops[o].pc # "free" /\ ops[o].kind \in Publishers)
  BY <1>6 DEF ModelInSync, ModelAgrees, Publishes, InFlight
<1>7. ASSUME NEW o \in Slots,
             \/ Upload(o) \/ PutManifest(o) \/ SetUri(o) \/ MarkBuildDeployed(o)
             \/ DeployBegins(o) \/ DeployRefused(o)
      PROVE  FALSE
  <2>1. UNCHANGED synced /\ ops[o].pc # "free" /\ ops[o].kind \in Publishers
    BY <1>7 DEF Upload, PutManifest, SetUri, MarkBuildDeployed, DeployBegins, DeployRefused, Stop,
           At, history, Publishers
  <2> QED
    BY <1>6, <2>1
<1>8. ASSUME NEW o \in Slots,
             ReadManifest(o) \/ ReadNoManifest(o) \/ OpFails(o) \/ OpDies(o) \/ DeleteObject(o)
      PROVE  ModelAgrees'
  <2>1. UNCHANGED <<deployed, manifest, synced>>
    BY <1>8 DEF ReadManifest, ReadNoManifest, OpFails, OpDies, DeleteObject, Stop, rowVars, s3Vars,
           history
  <2>2. NothingBegins
    BY <1>t, <1>8, NothingBegun DEF OpNext
  <2> QED
    BY <2>1, <2>2, ModelStaysInSync DEF ModelInSync
<1>9. ASSUME NEW o \in Slots, DeleteRow(o) PROVE ModelAgrees'
  <2>1. UNCHANGED <<manifest, synced>> /\ deployed' = Cleared({ops[o].build})
    BY <1>9 DEF DeleteRow, Stop, s3Vars, history
  <2>2. deployed[ops[o].build] = NoTime
    BY <1>9, <2>1 DEF ModelInSync, ModelAgrees, Deletes, InFlight, IsDeployed, DeleteRow, At
  <2>3. UNCHANGED deployed
    BY <1>t, <2>1, <2>2 DEF Cleared, TypeOK
  <2>4. NothingBegins
    BY <1>t, <1>9, NothingBegun DEF OpNext
  <2> QED
    BY <2>1, <2>3, <2>4, ModelStaysInSync DEF ModelInSync
<1>10. ASSUME NEW o \in Slots, PutAppVersion(o) PROVE ModelAgrees'
  <2>1. /\ UNCHANGED deployed /\ Finish(o, "app") /\ ops[o].pc = "put"
        /\ manifest' = [ops[o].seen EXCEPT !.app = ops[o].value]
    BY <1>10 DEF PutAppVersion, At, rowVars
  <2>2. ops[o].alone /\ Free(o) /\ "model" \in synced
    BY <2>1 DEF Finish
  <2>3. \A i \in Slots : ops'[i].pc = "free"
    BY <1>t, <2>1, <2>2, NobodyLeft DEF InFlight
  <2>4. ops[o].seen = manifest /\ manifest \in Manifests
    BY <1>t, <2>1, <2>2 DEF AloneFinds, Alone, InFlight, Finds, TypeOK
  <2>5. manifest'.build = manifest.build
    BY <2>1, <2>4 DEF Manifests
  <2>6. manifest.build \in Builds /\ IsNewest(manifest.build)
    BY <2>2 DEF ModelInSync, ModelAgrees
  <2>7. IsNewest(manifest.build)'
    BY <2>1, <2>5, <2>6 DEF IsNewest, IsDeployed
  <2> QED
    BY <2>3, <2>5, <2>6, <2>7 DEF ModelAgrees, Publishes, Deletes, InFlight
<1>11. ASSUME NEW o \in Slots, PipelineCompletes(o) \/ DeployEnds(o) \/ RollbackEnds(o)
       PROVE  ModelAgrees'
  BY <1>11, ModelFinish
<1> QED
  BY <1>1, <1>3, <1>4, <1>5, <1>7, <1>8, <1>9, <1>10, <1>11 DEF Next, BuildNext, CallNext, OpNext

LEMMA AppStaysInSync ==
    ASSUME AppAgrees, NothingBegins, UNCHANGED <<manifest, app>>,
           \A i \in Slots : ops'[i].pc = "put" =>
               ops'[i].seen = manifest \/ (ops[i].pc = "put" /\ ops'[i].seen = ops[i].seen)
    PROVE  AppAgrees'
BY DEF AppAgrees, NothingBegins, SetsApp, InFlight

LEMMA AppInSyncStep ==
    ASSUME StampInv, AloneIsAlone, AppInSync, Next, "app" \in synced'
    PROVE  AppAgrees'
<1>t. TypeOK /\ WorkIsOnBuilds
  BY DEF StampInv
<1>1. ASSUME NEW b \in Builds,
             NewBuild(b) \/ BuildFails(b) \/ BuildCompletesUndeployed(b) \/ JobRunsAgain(b)
               \/ SweepStuck(b)
      PROVE  AppAgrees'
  <2>1. UNCHANGED <<app, manifest, ops, synced>>
    BY <1>1 DEF NewBuild, BuildFails, BuildCompletesUndeployed, JobRunsAgain, SweepStuck, s3Vars,
           history
  <2> QED
    BY <2>1, AppStaysInSync DEF AppInSync, NothingBegins
<1>2. ASSUME NEW o \in Slots, CallSetAppVersion(o) PROVE FALSE
  BY <1>2 DEF CallSetAppVersion, Begin, FreeOp, Publishers
<1>3. ASSUME NEW o \in Slots, NEW b \in Builds,
             PipelineDeploys(o, b) \/ CallDeploy(o, b) \/ CallRollback(o, b) \/ CallDelete(o, b)
      PROVE  AppAgrees'
  <2>1. UNCHANGED <<manifest, app>> /\ "app" \in synced
    BY <1>3 DEF PipelineDeploys, CallDeploy, CallRollback, CallDelete, Begin, s3Vars, FreeOp
  <2>2. /\ ops'[o].kind # "app" /\ ops'[o].pc # "put"
        /\ \A i \in Slots : i # o => Stays(i)
    BY <1>t, <1>3, CallMoves DEF Begun
  <2>3. AppAgrees
    BY <2>1 DEF AppInSync
  <2> QED
    BY <2>1, <2>2, <2>3 DEF AppAgrees, SetsApp, InFlight, Stays
<1>4. ASSUME NEW o \in Slots, UNCHANGED <<manifest, app, synced>>,
             \/ Free(o)
             \/ \E pc \in Pcs \ {"put"} : GoTo(o, pc)
             \/ ReadManifest(o),
             OpNext
      PROVE  AppAgrees'
  <2>1. NothingBegins /\ AppAgrees
    BY <1>t, <1>4, NothingBegun DEF AppInSync
  <2>2. ASSUME NEW i \in Slots, ops'[i].pc = "put"
        PROVE  ops'[i].seen = manifest \/ (ops[i].pc = "put" /\ ops'[i].seen = ops[i].seen)
    <3>1. CASE Free(o)
      BY <1>t, <2>2, <3>1, FreeMoves
    <3>2. CASE \E pc \in Pcs \ {"put"} : GoTo(o, pc)
      <4>1. PICK pc \in Pcs \ {"put"} : GoTo(o, pc)
        BY <3>2
      <4>2. ops'[o].pc = pc /\ (i # o => ops'[i] = ops[i])
        BY <1>t, <4>1, GoToMoves
      <4> QED
        BY <2>2, <4>2
    <3>3. CASE ReadManifest(o)
      BY <1>t, <2>2, <3>3, ReadMoves
    <3> QED
      BY <1>4, <3>1, <3>2, <3>3
  <2> QED
    BY <1>4, <2>1, <2>2, AppStaysInSync
<1>5. ASSUME NEW o \in Slots,
             Upload(o) \/ SetUri(o) \/ MarkBuildDeployed(o) \/ DeployBegins(o) \/ DeleteObject(o)
      PROVE  AppAgrees'
  <2>1. UNCHANGED <<manifest, app, synced>> /\ \E pc \in Pcs \ {"put"} : GoTo(o, pc)
    BY <1>5 DEF Upload, SetUri, MarkBuildDeployed, DeployBegins, DeleteObject, s3Vars, history, Pcs
  <2> QED
    BY <1>4, <1>5, <2>1 DEF OpNext
<1>6. ASSUME NEW o \in Slots, ReadManifest(o) PROVE AppAgrees'
  BY <1>4, <1>6 DEF OpNext, ReadManifest, s3Vars, history
<1>7. ASSUME NEW o \in Slots,
             ReadNoManifest(o) \/ DeployRefused(o) \/ DeleteRow(o) \/ OpFails(o) \/ OpDies(o)
      PROVE  AppAgrees'
  <2>1. UNCHANGED <<manifest, app, synced>> /\ Free(o)
    BY <1>7 DEF ReadNoManifest, DeployRefused, DeleteRow, OpFails, OpDies, Stop, s3Vars, history
  <2> QED
    BY <1>4, <1>7, <2>1 DEF OpNext
<1>8. ASSUME NEW o \in Slots, PutManifest(o) PROVE AppAgrees'
  <2>1. AppAgrees /\ UNCHANGED app
    BY <1>8 DEF AppInSync, PutManifest, history
  <2>2. ops[o].seen \in Manifests /\ ops[o].seen.app = app
    BY <1>t, <1>8, <2>1 DEF TypeOK, Ops, AppAgrees, PutManifest
  <2>3. manifest'.app = app
    BY <1>8, <2>2 DEF PutManifest, Manifests
  <2>4. /\ ops'[o].pc # "put"
        /\ \A i \in Slots : i # o => ops'[i] = ops[i]
    BY <1>t, <1>8, GoToMoves DEF PutManifest, Pcs
  <2>5. NothingBegins
    BY <1>t, <1>8, NothingBegun DEF OpNext
  <2> QED
    BY <2>1, <2>3, <2>4, <2>5 DEF AppAgrees, NothingBegins, SetsApp, InFlight
<1>9. ASSUME NEW o \in Slots, PutAppVersion(o) PROVE AppAgrees'
  <2>1. /\ Finish(o, "app") /\ ops[o].pc = "put"
        /\ manifest' = [ops[o].seen EXCEPT !.app = ops[o].value]
    BY <1>9 DEF PutAppVersion, At
  <2>2. ops[o].alone /\ Free(o) /\ app' = ops[o].value
    BY <2>1 DEF Finish
  <2>3. \A i \in Slots : ops'[i].pc = "free"
    BY <1>t, <2>1, <2>2, NobodyLeft DEF InFlight
  <2>4. ops[o].seen \in Manifests
    BY <1>t DEF TypeOK, Ops
  <2>5. manifest'.app = app'
    BY <2>1, <2>2, <2>4 DEF Manifests
  <2> QED
    BY <2>3, <2>5 DEF AppAgrees, SetsApp, InFlight
<1>10. ASSUME NEW o \in Slots, PipelineCompletes(o) \/ DeployEnds(o) \/ RollbackEnds(o)
       PROVE  AppAgrees'
  <2>1. /\ UNCHANGED <<manifest, app>> /\ Free(o)
        /\ synced' = IF ops[o].alone THEN synced \cup {"model"} ELSE {}
    BY <1>10 DEF PipelineCompletes, DeployEnds, RollbackEnds, Finish, s3Vars
  <2>2. AppAgrees
    BY <2>1 DEF AppInSync
  <2>3. NothingBegins
    BY <1>t, <1>10, NothingBegun DEF OpNext
  <2>4. \A i \in Slots : ops'[i].pc = "put" => ops[i].pc = "put" /\ ops'[i].seen = ops[i].seen
    BY <1>t, <2>1, FreeMoves
  <2> QED
    BY <2>1, <2>2, <2>3, <2>4, AppStaysInSync
<1> QED
  BY <1>1, <1>2, <1>3, <1>5, <1>6, <1>7, <1>8, <1>9, <1>10 DEF Next, BuildNext, CallNext, OpNext

LEMMA InitSync == Init => SyncInv
<1> SUFFICES ASSUME Init PROVE SyncInv
  OBVIOUS
<1>1. \A o \in Slots : ops[o].pc = "free"
  BY DEF Init, FreeOp
<1>2. synced = {}
  BY DEF Init
<1> QED
  BY <1>1, <1>2, InitStamp DEF SyncInv, AloneIsAlone, AloneFinds, Alone, InFlight, ModelInSync,
     AppInSync

(* SyncInv is kept by every step.                                          *)
LEMMA SyncStep ==
    ASSUME SyncInv, [Next]_vars
    PROVE  SyncInv'
<1>1. CASE UNCHANGED vars
  <2>1. StampInv'
    BY <1>1, StampStep DEF SyncInv
  <2> QED
    BY <1>1, <2>1 DEF SyncInv, AloneIsAlone, AloneFinds, Alone, Finds, ModelInSync, ModelAgrees,
       AppInSync, AppAgrees, Publishes, Deletes, SetsApp, InFlight, Row, IsNewest, IsDeployed,
       vars, rowVars, s3Vars, history
<1>2. CASE Next
  BY <1>2, StampStep, AloneStep, AloneFindsStep, ModelInSyncStep, AppInSyncStep
     DEF SyncInv, StampInv, ModelInSync, AppInSync
<1> QED
  BY <1>1, <1>2

-----------------------------------------------------------------------------
(* As long as no operation dies                                            *)

\* A step of o writes no status but that of its build, and of a pipeline's build
\* only the pipeline itself, in its last step.
WritesOwnStatus(o) ==
    \/ UNCHANGED status
    \/ /\ \E st \in {"deploying", "completed", "failed", "deleted"} :
              SetStatus(ops[o].build, st)
       /\ ops[o].kind # "rollback" /\ ops[o].build \in Builds
       /\ Free(o) \/ ops[o].kind # "pipeline"

LEMMA OwnStatusWritten ==
    ASSUME TypeOK, WorkIsOnBuilds, NEW o \in Slots,
           \/ Upload(o) \/ ReadManifest(o) \/ ReadNoManifest(o) \/ PutManifest(o)
           \/ SetUri(o) \/ MarkBuildDeployed(o) \/ PipelineCompletes(o)
           \/ DeployBegins(o) \/ DeployRefused(o) \/ DeployEnds(o) \/ RollbackEnds(o)
           \/ DeleteObject(o) \/ DeleteRow(o) \/ PutAppVersion(o)
           \/ OpFails(o) \/ OpDies(o)
    PROVE  WritesOwnStatus(o) /\ InFlight(o)
<1>b. InFlight(o) /\ ops[o].kind # "app" => ops[o].build \in Builds
  BY BuildOfOp
<1>1. CASE \/ Upload(o) \/ ReadManifest(o) \/ ReadNoManifest(o) \/ PutManifest(o) \/ SetUri(o)
           \/ MarkBuildDeployed(o) \/ RollbackEnds(o) \/ DeleteObject(o) \/ PutAppVersion(o)
           \/ OpDies(o)
  BY <1>1 DEF Upload, ReadManifest, ReadNoManifest, PutManifest, SetUri, MarkBuildDeployed,
         RollbackEnds, DeleteObject, PutAppVersion, OpDies, rowVars, WritesOwnStatus, At, InFlight
<1>2. CASE PipelineCompletes(o) \/ DeployBegins(o) \/ DeployRefused(o) \/ DeployEnds(o)
             \/ DeleteRow(o)
  <2>1. InFlight(o) /\ ops[o].kind \in {"pipeline", "deploy", "delete"}
    BY <1>2 DEF PipelineCompletes, DeployBegins, DeployRefused, DeployEnds, DeleteRow, At, InFlight
  <2>2. \E st \in {"deploying", "completed", "failed", "deleted"} : SetStatus(ops[o].build, st)
    BY <1>2 DEF PipelineCompletes, DeployBegins, DeployRefused, DeployEnds, DeleteRow
  <2>3. ops[o].kind = "pipeline" => Free(o)
    BY <1>2 DEF PipelineCompletes, DeployBegins, DeployRefused, DeployEnds, DeleteRow, At, Finish
  <2> QED
    BY <1>b, <2>1, <2>2, <2>3 DEF WritesOwnStatus
<1>3. CASE OpFails(o)
  <2>1. InFlight(o) /\ Free(o)
    BY <1>3 DEF OpFails, InFlight, Stop
  <2>2. CASE ops[o].kind = "pipeline"
    BY <1>b, <1>3, <2>1, <2>2 DEF OpFails, WritesOwnStatus
  <2>3. CASE ops[o].kind = "deploy"
    BY <1>b, <1>3, <2>1, <2>3 DEF OpFails, WritesOwnStatus
  <2>4. CASE ops[o].kind \notin {"pipeline", "deploy"}
    BY <1>3, <2>1, <2>4 DEF OpFails, WritesOwnStatus
  <2> QED
    BY <2>2, <2>3, <2>4
<1> QED
  BY <1>1, <1>2, <1>3

LEMMA PipelineStep ==
    ASSUME TypeOK, WorkIsOnBuilds, PipelineHasBuild, Next, UNCHANGED faults
    PROVE  PipelineHasBuild'
<1>1. ASSUME NEW b \in Builds,
             NewBuild(b) \/ BuildFails(b) \/ BuildCompletesUndeployed(b) \/ JobRunsAgain(b)
               \/ SweepStuck(b)
      PROVE  PipelineHasBuild'
  <2>1. UNCHANGED <<uri, ops>> /\ ~JobRunsAgain(b)
    BY <1>1 DEF TypeOK, NewBuild, BuildFails, BuildCompletesUndeployed, JobRunsAgain, SweepStuck,
           Fault
  <2>2. \A o \in Slots : InFlight(o) => ops[o].build # b
    BY <1>1, <2>1 DEF PipelineHasBuild, NewBuild, BuildFails, BuildCompletesUndeployed, SweepStuck
  <2>3. /\ \A c \in Builds : c # b => status'[c] = status[c]
        /\ status'[b] \in {"absent", "building"} => status[b] \in {"absent", "building"}
    BY <1>1, <2>1 DEF TypeOK, NewBuild, BuildFails, BuildCompletesUndeployed, SweepStuck
  <2>4. ASSUME NEW o \in Slots, InFlight(o), ops[o].kind = "pipeline"
        PROVE  status'[ops[o].build] = "deploying"
    <3>1. ops[o].build \in Builds /\ status[ops[o].build] = "deploying"
      BY <2>4, BuildOfOp DEF PipelineHasBuild
    <3> QED
      BY <2>2, <2>3, <2>4, <3>1
  <2>5. ASSUME NEW c \in Builds, status'[c] \in {"absent", "building"}
        PROVE  c \notin uri /\ \A o \in Slots : InFlight(o) => ops[o].build # c
    BY <2>3, <2>5 DEF PipelineHasBuild
  <2>6. \A o, i \in Slots :
          /\ InFlight(o) /\ ops[o].kind = "pipeline"
          /\ InFlight(i) /\ ops[i].build = ops[o].build
          => i = o \/ ops[i].kind = "rollback"
    BY DEF PipelineHasBuild
  <2> QED
    BY <2>1, <2>4, <2>5, <2>6 DEF PipelineHasBuild, InFlight
<1>2. ASSUME NEW o \in Slots, CallSetAppVersion(o) PROVE PipelineHasBuild'
  <2>1. UNCHANGED <<status, uri>> /\ Begun(o, "app", NoBuild, "read")
    BY <1>2, CallMoves DEF CallSetAppVersion, rowVars
  <2>2. NoBuild \notin Builds
    BY DEF NoBuild, Builds
  <2>3. \A i \in Slots : InFlight(i) /\ ops[i].kind = "pipeline" => ops[i].build \in Builds
    BY BuildOfOp
  <2> QED
    BY <2>1, <2>2, <2>3 DEF PipelineHasBuild, Begun, Stays, InFlight
<1>3. ASSUME NEW o \in Slots, NEW b \in Builds,
             CallDeploy(o, b) \/ CallRollback(o, b) \/ CallDelete(o, b)
      PROVE  PipelineHasBuild'
  <2>1. UNCHANGED <<status, uri>>
    BY <1>3 DEF CallDeploy, CallRollback, CallDelete, rowVars
  <2>2. \/ Begun(o, "rollback", b, "read")
        \/ /\ status[b] # "deploying"
           /\ \E kind \in {"deploy", "delete"}, pc \in Pcs : Begun(o, kind, b, pc)
    BY <1>3, CallMoves DEF CallDeploy, CallDelete, CanDelete, CanDeleteInactive, Pcs
  <2>3. status[b] \notin {"absent", "building"}
    BY <1>3 DEF CallDeploy, CallRollback, CallDelete, CanDelete, CanDeleteInactive, Row,
           PipelineHasBuild
  <2>4. /\ ops[o].pc = "free" /\ ops'[o].build = b
        /\ \/ ops'[o].kind = "rollback"
           \/ ops'[o].kind \in {"deploy", "delete"} /\ status[b] # "deploying"
        /\ \A i \in Slots : i # o => Stays(i)
    BY <2>2 DEF Begun
  <2> QED
    BY <2>1, <2>3, <2>4 DEF PipelineHasBuild, Stays, InFlight
<1>4. ASSUME NEW o \in Slots, NEW b \in Builds, PipelineDeploys(o, b)
      PROVE  PipelineHasBuild'
  <2>1. UNCHANGED uri /\ status[b] = "building" /\ Begun(o, "pipeline", b, "upload")
    BY <1>4, CallMoves DEF PipelineDeploys
  <2>2. status' = [status EXCEPT ![b] = "deploying"]
    BY <1>4 DEF PipelineDeploys, SetStatus, Row
  <2>3. /\ status'[b] = "deploying" /\ \A c \in Builds : c # b => status'[c] = status[c]
    BY <2>2 DEF TypeOK
  <2>4. \A i \in Slots : InFlight(i) => ops[i].build # b
    BY <2>1 DEF PipelineHasBuild
  <2>5. /\ ops'[o].build = b /\ ops'[o].kind = "pipeline"
        /\ \A i \in Slots : i # o => Stays(i)
    BY <2>1 DEF Begun
  <2>6. \A i \in Slots : InFlight(i) /\ ops[i].kind = "pipeline" => ops[i].build \in Builds
    BY BuildOfOp
  <2> QED
    BY <2>1, <2>3, <2>4, <2>5, <2>6 DEF PipelineHasBuild, Stays, InFlight
<1>5. ASSUME OpNext PROVE PipelineHasBuild'
  <2>1. PICK o \in Slots :
          \/ Upload(o) \/ ReadManifest(o) \/ ReadNoManifest(o) \/ PutManifest(o)
          \/ SetUri(o) \/ MarkBuildDeployed(o) \/ PipelineCompletes(o)
          \/ DeployBegins(o) \/ DeployRefused(o) \/ DeployEnds(o) \/ RollbackEnds(o)
          \/ DeleteObject(o) \/ DeleteRow(o) \/ PutAppVersion(o)
          \/ OpFails(o) \/ OpDies(o)
    BY <1>5 DEF OpNext
  <2>2. WritesOwnStatus(o) /\ InFlight(o)
    BY <2>1, OwnStatusWritten
  <2>3. NothingBegins
    BY <1>5, NothingBegun
  <2>4. uri' \subseteq uri \cup {ops[o].build}
    BY <2>1 DEF Upload, ReadManifest, ReadNoManifest, PutManifest, SetUri, MarkBuildDeployed,
           PipelineCompletes, DeployBegins, DeployRefused, DeployEnds, RollbackEnds, DeleteObject,
           DeleteRow, PutAppVersion, OpFails, OpDies, rowVars
  <2>5. \A b \in Builds : /\ b # ops[o].build => status'[b] = status[b]
                          /\ status'[b] \in {"absent", "building"} => status'[b] = status[b]
    BY <2>2 DEF WritesOwnStatus, SetStatus, TypeOK
  <2>6. ASSUME NEW i \in Slots, ops'[i].pc # "free", ops'[i].kind = "pipeline"
        PROVE  status'[ops'[i].build] = "deploying"
    <3>1. InFlight(i) /\ ops[i].kind = "pipeline" /\ ops'[i].build = ops[i].build
      BY <2>3, <2>6 DEF NothingBegins, InFlight
    <3>2. ops[i].build \in Builds /\ status[ops[i].build] = "deploying"
      BY <3>1, BuildOfOp DEF PipelineHasBuild
    <3>3. CASE UNCHANGED status
      BY <3>1, <3>2, <3>3
    <3>4. CASE Free(o) \/ ops[o].kind \notin {"pipeline", "rollback"}
      <4>1. i # o
        BY <2>6, <3>1, <3>4, FreeMoves
      <4>2. ops[o].build # ops[i].build \/ ops[o].kind = "rollback"
        BY <2>2, <3>1, <4>1 DEF PipelineHasBuild
      <4>3. CASE ops[o].build # ops[i].build
        BY <2>5, <3>1, <3>2, <4>3
      <4>4. CASE ops[o].kind = "rollback"
        BY <2>2, <3>3, <4>4 DEF WritesOwnStatus
      <4> QED
        BY <4>2, <4>3, <4>4
    <3> QED
      BY <2>2, <3>3, <3>4 DEF WritesOwnStatus
  <2>7. \A b \in Builds : status'[b] \in {"absent", "building"} =>
          b \notin uri' /\ \A i \in Slots : ops'[i].pc # "free" => ops'[i].build # b
    BY <2>2, <2>3, <2>4, <2>5 DEF PipelineHasBuild, NothingBegins, InFlight
  <2>8. \A j, i \in Slots :
          /\ ops'[j].pc # "free" /\ ops'[j].kind = "pipeline"
          /\ ops'[i].pc # "free" /\ ops'[i].build = ops'[j].build
          => i = j \/ ops'[i].kind = "rollback"
    BY <2>3 DEF PipelineHasBuild, NothingBegins, InFlight
  <2> QED
    BY <2>6, <2>7, <2>8 DEF PipelineHasBuild, InFlight
<1> QED
  BY <1>1, <1>2, <1>3, <1>4, <1>5 DEF Next, BuildNext, CallNext

(* Objects: what uploads put and deletions take away.                      *)

LEMMA ObjectsStep ==
    ASSUME Next
    PROVE  \/ objects \subseteq objects'
           \/ \E o \in Slots : DeleteObject(o) /\ objects' = objects \ {ops[o].build}
BY DEF Next, BuildNext, CallNext, OpNext, NewBuild, BuildFails, BuildCompletesUndeployed,
       JobRunsAgain, SweepStuck, CallSetAppVersion, PipelineDeploys, CallDeploy, CallRollback,
       CallDelete, Upload, ReadManifest, ReadNoManifest, PutManifest, SetUri, MarkBuildDeployed,
       PipelineCompletes, DeployBegins, DeployRefused, DeployEnds, RollbackEnds, DeleteObject,
       DeleteRow, PutAppVersion, OpFails, OpDies, s3Vars

(* A pipeline that has uploaded, or has in this step.                      *)
LEMMA UploadedBefore ==
    ASSUME TypeOK, WorkIsOnBuilds, Next, NEW i \in Slots, ops'[i].kind = "pipeline",
           ops'[i].pc \in {"read", "put", "uri", "mark", "complete"}
    PROVE  \/ /\ ops[i].kind = "pipeline" /\ ops'[i].build = ops[i].build
              /\ ops[i].pc \in {"read", "put", "uri", "mark", "complete"}
           \/ ops'[i].build \in objects'
<1>1. ASSUME NEW o \in Slots, Upload(o)
      PROVE  ops'[o].build \in objects' /\ (i # o => ops'[i] = ops[i])
  BY <1>1, GoToMoves DEF Upload, Pcs
<1>2. ASSUME NEW o \in Slots, NEW kind \in Kinds, NEW b, NEW pc \in Pcs, Begun(o, kind, b, pc),
             kind = "pipeline" => pc = "upload"
      PROVE  i # o /\ Stays(i)
  BY <1>2 DEF Begun
<1>3. CASE BuildNext
  BY <1>3 DEF BuildNext, NewBuild, BuildFails, BuildCompletesUndeployed, JobRunsAgain, SweepStuck
<1>4. CASE CallNext
  <2>1. PICK o \in Slots :
          \/ CallSetAppVersion(o)
          \/ \E b \in Builds : PipelineDeploys(o, b) \/ CallDeploy(o, b) \/ CallRollback(o, b)
                               \/ CallDelete(o, b)
    BY <1>4 DEF CallNext
  <2>2. \/ Begun(o, "app", NoBuild, "read")
        \/ \E b \in Builds : \/ Begun(o, "pipeline", b, "upload")
                             \/ Begun(o, "deploy", b, IF b \in uri THEN "begin" ELSE "refuse")
                             \/ Begun(o, "rollback", b, "read")
                             \/ Begun(o, "delete", b, "object") \/ Begun(o, "delete", b, "row")
    BY <2>1, CallMoves
  <2>3. i # o /\ Stays(i)
    BY <2>2 DEF Begun
  <2> QED
    BY <2>3 DEF Stays
<1>5. CASE OpNext
  <2>1. PICK o \in Slots :
          \/ Upload(o) \/ ReadManifest(o) \/ ReadNoManifest(o) \/ PutManifest(o)
          \/ SetUri(o) \/ MarkBuildDeployed(o) \/ PipelineCompletes(o)
          \/ DeployBegins(o) \/ DeployRefused(o) \/ DeployEnds(o) \/ RollbackEnds(o)
          \/ DeleteObject(o) \/ DeleteRow(o) \/ PutAppVersion(o)
          \/ OpFails(o) \/ OpDies(o)
    BY <1>5 DEF OpNext
  <2>2. CASE i # o
    <3>1. ops'[i] = ops[i]
      BY <2>1, <2>2, OpAdvances DEF Advances
    <3> QED
      BY <3>1
  <2>3. CASE i = o /\ Upload(o)
    BY <1>1, <2>3
  <2>4. CASE i = o /\ ~Upload(o)
    <3>1. /\ ops[i].pc # "free" /\ ops'[i].kind = ops[i].kind /\ ops'[i].build = ops[i].build
      BY <1>5, NothingBegun DEF NothingBegins
    <3>2. ops[i].pc # "upload"
      BY <2>1, <2>4, <3>1, FreeMoves DEF ReadManifest, ReadNoManifest, PutManifest, SetUri,
         MarkBuildDeployed, PipelineCompletes, DeployBegins, DeployRefused, DeployEnds,
         RollbackEnds, DeleteObject, DeleteRow, PutAppVersion, OpFails, OpDies, Stop, At
    <3>3. ops[i].pc \in StagesOf("pipeline")
      BY <3>1 DEF WorkIsOnBuilds, InFlight
    <3> QED
      BY <3>1, <3>2, <3>3 DEF StagesOf
  <2> QED
    BY <2>2, <2>3, <2>4
<1> QED
  BY <1>3, <1>4, <1>5 DEF Next

LEMMA UploadedStep ==
    ASSUME TypeOK, WorkIsOnBuilds, PipelineHasBuild, Uploaded, Next
    PROVE  Uploaded'
<1> SUFFICES ASSUME NEW i \in Slots, ops'[i].kind = "pipeline",
                    ops'[i].pc \in {"read", "put", "uri", "mark", "complete"},
                    ops[i].kind = "pipeline", ops'[i].build = ops[i].build,
                    ops[i].pc \in {"read", "put", "uri", "mark", "complete"}
             PROVE  ops[i].build \in objects'
  BY UploadedBefore DEF Uploaded
<1>1. ops[i].build \in objects
  BY DEF Uploaded
<1>2. ASSUME NEW o \in Slots, DeleteObject(o) PROVE ops[o].build # ops[i].build
  BY <1>2 DEF DeleteObject, At, PipelineHasBuild, InFlight
<1> QED
  BY <1>1, <1>2, ObjectsStep

LEMMA UriHasObjectStep ==
    ASSUME TypeOK, WorkIsOnBuilds, Uploaded, UriHasObject, Next, UNCHANGED faults
    PROVE  UriHasObject'
<1> SUFFICES ASSUME NEW b \in Builds, b \in uri', b \notin objects'
             PROVE  \E i \in Slots : ops'[i].kind = "delete" /\ ops'[i].pc = "row" /\ ops'[i].build = b
  BY DEF UriHasObject
<1>1. CASE b \in objects
  <2>1. PICK o \in Slots : DeleteObject(o) /\ objects' = objects \ {ops[o].build}
    BY <1>1, ObjectsStep
  <2>2. ops[o].build = b /\ ops[o].kind = "delete"
    BY <1>1, <2>1 DEF DeleteObject, At
  <2>3. ops'[o].kind = "delete" /\ ops'[o].pc = "row" /\ ops'[o].build = b
    BY <2>1, <2>2, GoToMoves DEF DeleteObject, Pcs
  <2> QED
    BY <2>3
<1>2. CASE b \notin objects
  <2>1. ASSUME NEW o \in Slots, SetUri(o) PROVE b \in uri
    <3>1. ops[o].build \in objects
      BY <2>1 DEF SetUri, At, Uploaded
    <3> QED
      BY <1>2, <2>1, <3>1 DEF SetUri
  <2>2. (\A o \in Slots : ~SetUri(o)) => uri' \subseteq uri
    BY DEF Next, BuildNext, CallNext, OpNext, NewBuild, BuildFails, BuildCompletesUndeployed,
       JobRunsAgain, SweepStuck, CallSetAppVersion, PipelineDeploys, CallDeploy, CallRollback,
       CallDelete, Upload, ReadManifest, ReadNoManifest, PutManifest, MarkBuildDeployed,
       PipelineCompletes, DeployBegins, DeployRefused, DeployEnds, RollbackEnds, DeleteObject,
       DeleteRow, PutAppVersion, OpFails, OpDies, rowVars
  <2>3. PICK i \in Slots : ops[i].kind = "delete" /\ ops[i].pc = "row" /\ ops[i].build = b
    BY <1>2, <2>1, <2>2 DEF UriHasObject
  <2>4. ~DeleteRow(i) /\ ~OpDies(i)
    BY <2>3 DEF DeleteRow, OpDies, Fault, TypeOK
  <2>5. Stays(i) \/ ops'[i] = ops[i]
    <3>1. CASE BuildNext
      BY <3>1 DEF BuildNext, NewBuild, BuildFails, BuildCompletesUndeployed, JobRunsAgain,
         SweepStuck
    <3>2. CASE CallNext
      BY <2>3, <3>2, CallBegins DEF CallNext, Begins, Begun
    <3>3. CASE OpNext
      <4>1. PICK o \in Slots :
              \/ Upload(o) \/ ReadManifest(o) \/ ReadNoManifest(o) \/ PutManifest(o)
              \/ SetUri(o) \/ MarkBuildDeployed(o) \/ PipelineCompletes(o)
              \/ DeployBegins(o) \/ DeployRefused(o) \/ DeployEnds(o) \/ RollbackEnds(o)
              \/ DeleteObject(o) \/ DeleteRow(o) \/ PutAppVersion(o)
              \/ OpFails(o) \/ OpDies(o)
        BY <3>3 DEF OpNext
      <4>2. i # o
        BY <2>3, <2>4, <4>1 DEF Upload, ReadManifest, ReadNoManifest, PutManifest, SetUri,
           MarkBuildDeployed, PipelineCompletes, DeployBegins, DeployRefused, DeployEnds,
           RollbackEnds, DeleteObject, PutAppVersion, OpFails, At
      <4> QED
        BY <4>1, <4>2, OpAdvances DEF Advances
    <3> QED
      BY <3>1, <3>2, <3>3 DEF Next
  <2> QED
    BY <2>3, <2>5 DEF Stays
<1> QED
  BY <1>1, <1>2

LEMMA SyncedIsServedStep ==
    ASSUME SyncInv, Uploaded, UriHasObject, SyncedIsServed, Next, UNCHANGED faults,
           "model" \in synced'
    PROVE  manifest'.build \in objects'
<1>t. TypeOK /\ WorkIsOnBuilds
  BY DEF SyncInv, StampInv
<1>1. ASSUME NEW o \in Slots, PipelineCompletes(o) \/ DeployEnds(o) \/ RollbackEnds(o)
      PROVE  manifest'.build \in objects'
  <2>1. Finish(o, "model") /\ UNCHANGED <<manifest, objects>>
    BY <1>1 DEF PipelineCompletes, DeployEnds, RollbackEnds, s3Vars
  <2>2. /\ ops[o].kind \in Publishers /\ ops[o].pc \in {"mark", "complete"}
        /\ ops[o].kind = "pipeline" => ops[o].pc = "complete"
    BY <1>1 DEF PipelineCompletes, DeployEnds, RollbackEnds, At, Publishers
  <2>3. Alone(o) /\ Publishes(o)
    BY <2>1, <2>2 DEF Finish, Alone, Publishes, InFlight
  <2>4. manifest.build = ops[o].build /\ Row(ops[o].build)
    BY <2>2, <2>3 DEF SyncInv, AloneFinds, Finds
  <2>5. CASE ops[o].kind = "pipeline"
    BY <2>1, <2>2, <2>4, <2>5 DEF Uploaded
  <2>6. CASE ops[o].kind # "pipeline"
    <3>1. ops[o].build \in Builds
      BY <1>t, <2>2, BuildOfOp DEF Publishers, InFlight
    <3>2. FoundUri(o)
      BY <1>1, <2>6 DEF PipelineCompletes, DeployEnds, RollbackEnds, At, FoundUri, InFlight
    <3>3. ops[o].build \in uri
      BY <2>4, <3>2 DEF SyncInv, StampInv, UriStaysSet
    <3>4. ASSUME NEW i \in Slots, ops[i].kind = "delete", ops[i].pc = "row" PROVE FALSE
      BY <2>2, <2>3, <3>4 DEF SyncInv, AloneIsAlone, InFlight, Publishers
    <3> QED
      BY <2>1, <2>4, <3>1, <3>3, <3>4 DEF UriHasObject
  <2> QED
    BY <2>5, <2>6
<1>2. ASSUME NEW o \in Slots, PutManifest(o) PROVE "model" \notin synced
  BY <1>2 DEF PutManifest, SyncInv, ModelInSync, ModelAgrees, Publishes, Publishers, InFlight
<1>3. ASSUME NEW o \in Slots, PutAppVersion(o) PROVE manifest'.build = manifest.build
  <2>1. /\ Finish(o, "app") /\ ops[o].pc = "put"
        /\ manifest' = [ops[o].seen EXCEPT !.app = ops[o].value]
    BY <1>3 DEF PutAppVersion, At
  <2>2. ops[o].alone
    BY <2>1 DEF Finish
  <2>3. ops[o].seen = manifest /\ manifest \in Manifests
    BY <1>t, <2>1, <2>2 DEF SyncInv, AloneFinds, Alone, InFlight, Finds, TypeOK
  <2> QED
    BY <2>1, <2>3 DEF Manifests
<1>4. ASSUME \A o \in Slots : ~PipelineCompletes(o) /\ ~DeployEnds(o) /\ ~RollbackEnds(o)
      PROVE  "model" \in synced
  <2>1. CASE BuildNext
    BY <2>1 DEF BuildNext, NewBuild, BuildFails, BuildCompletesUndeployed, JobRunsAgain,
       SweepStuck, history
  <2>2. CASE CallNext
    BY <2>2 DEF CallNext, CallSetAppVersion, PipelineDeploys, CallDeploy, CallRollback, CallDelete,
       Begin
  <2>3. CASE OpNext
    <3>1. ASSUME NEW o \in Slots, PutAppVersion(o) PROVE "model" \in synced
      BY <3>1 DEF PutAppVersion, Finish
    <3>2. ASSUME NEW o \in Slots,
                 \/ Upload(o) \/ ReadManifest(o) \/ ReadNoManifest(o) \/ PutManifest(o)
                 \/ SetUri(o) \/ MarkBuildDeployed(o) \/ DeployBegins(o) \/ DeployRefused(o)
                 \/ DeleteObject(o) \/ DeleteRow(o) \/ OpFails(o) \/ OpDies(o)
          PROVE  UNCHANGED synced
      BY <3>2 DEF Upload, ReadManifest, ReadNoManifest, PutManifest, SetUri, MarkBuildDeployed,
         DeployBegins, DeployRefused, DeleteObject, DeleteRow, OpFails, OpDies, Stop, history
    <3> QED
      BY <1>4, <2>3, <3>1, <3>2 DEF OpNext
  <2> QED
    BY <2>1, <2>2, <2>3 DEF Next
<1>5. ASSUME "model" \in synced PROVE manifest'.build = manifest.build
  <2>1. CASE \E o \in Slots : PutAppVersion(o)
    BY <1>3, <2>1
  <2>2. CASE \A o \in Slots : ~PutAppVersion(o)
    <3>1. UNCHANGED manifest
      BY <1>2, <1>5, <2>2 DEF Next, BuildNext, CallNext, OpNext, NewBuild, BuildFails,
         BuildCompletesUndeployed, JobRunsAgain, SweepStuck, CallSetAppVersion, PipelineDeploys,
         CallDeploy, CallRollback, CallDelete, Upload, ReadManifest, ReadNoManifest, SetUri,
         MarkBuildDeployed, PipelineCompletes, DeployBegins, DeployRefused, DeployEnds,
         RollbackEnds, DeleteObject, DeleteRow, OpFails, OpDies, s3Vars
    <3> QED
      BY <3>1
  <2> QED
    BY <2>1, <2>2
<1>6. ASSUME "model" \in synced PROVE manifest.build \in objects'
  <2>1. manifest.build \in objects /\ IsDeployed(manifest.build)
    BY <1>6 DEF SyncedIsServed, SyncInv, ModelInSync, ModelAgrees, IsNewest
  <2>2. ASSUME NEW o \in Slots, DeleteObject(o) PROVE ops[o].build # manifest.build
    BY <1>6, <2>1, <2>2 DEF DeleteObject, At, SyncInv, ModelInSync, ModelAgrees, Deletes, InFlight
  <2> QED
    BY <2>1, <2>2, ObjectsStep
<1> QED
  BY <1>1, <1>4, <1>5, <1>6

(* ServedInv is kept by every step; faults never go back to 0.             *)
LEMMA InitServed == Init => ServedInv
<1> SUFFICES ASSUME Init PROVE ServedInv
  OBVIOUS
<1>1. \A o \in Slots : ops[o] = FreeOp
  BY DEF Init
<1>2. uri = {} /\ synced = {}
  BY DEF Init
<1> QED
  BY <1>1, <1>2, InitSync DEF ServedInv, PipelineHasBuild, Uploaded, UriHasObject, SyncedIsServed,
     InFlight, FreeOp

LEMMA FaultsStep ==
    ASSUME TypeOK, Next, faults' = 0
    PROVE  faults = 0
<1>1. faults' = faults \/ Fault
  BY DEF Next, BuildNext, CallNext, OpNext, NewBuild, BuildFails, BuildCompletesUndeployed,
     JobRunsAgain, SweepStuck, CallSetAppVersion, PipelineDeploys, CallDeploy, CallRollback,
     CallDelete, Upload, ReadManifest, ReadNoManifest, PutManifest, SetUri, MarkBuildDeployed,
     PipelineCompletes, DeployBegins, DeployRefused, DeployEnds, RollbackEnds, DeleteObject,
     DeleteRow, PutAppVersion, OpFails, OpDies
<1>2. faults \in Nat
  BY BoundsAssumption DEF TypeOK
<1> QED
  BY <1>1, <1>2 DEF Fault

LEMMA ServedStep ==
    ASSUME ServedInv, [Next]_vars
    PROVE  ServedInv'
<1>1. SyncInv /\ SyncInv' /\ TypeOK /\ WorkIsOnBuilds
  BY SyncStep DEF ServedInv, SyncInv, StampInv
<1>2. CASE UNCHANGED vars
  BY <1>1, <1>2 DEF ServedInv, PipelineHasBuild, Uploaded, UriHasObject, SyncedIsServed, InFlight,
     vars, rowVars, s3Vars, history
<1>3. CASE Next /\ faults' = 0
  <2>1. faults = 0 /\ UNCHANGED faults
    BY <1>1, <1>3, FaultsStep
  <2>2. PipelineHasBuild /\ Uploaded /\ UriHasObject /\ SyncedIsServed
    BY <2>1 DEF ServedInv
  <2>3. PipelineHasBuild' /\ Uploaded' /\ UriHasObject'
    BY <1>1, <1>3, <2>1, <2>2, PipelineStep, UploadedStep, UriHasObjectStep
  <2>4. SyncedIsServed'
    BY <1>1, <1>3, <2>1, <2>2, SyncedIsServedStep DEF SyncedIsServed
  <2> QED
    BY <1>1, <2>3, <2>4 DEF ServedInv
<1>4. CASE faults' # 0
  BY <1>1, <1>4 DEF ServedInv
<1> QED
  BY <1>2, <1>3, <1>4

THEOREM Inductive == Spec => []ServedInv
<1>1. Init => ServedInv
  BY InitServed
<1>2. ServedInv /\ [Next]_vars => ServedInv'
  BY ServedStep
<1> QED
  BY <1>1, <1>2, PTL DEF Spec

-----------------------------------------------------------------------------
(* The properties                                                          *)

(* Rows, manifest and operations keep their shape, with any number of      *)
(* builds, operations in flight, calls and faults.                         *)
THEOREM TypeCorrect == Spec => []TypeOK
<1>1. ServedInv => TypeOK
  BY DEF ServedInv, SyncInv, StampInv
<1> QED
  BY <1>1, Inductive, PTL

(* No interleaving of pipeline, routes, reruns and deletions leaves a      *)
(* deployed_at on a build without a recorded artifact.                     *)
THEOREM DeployedUploaded == Spec => []DeployedWasUploaded
<1>1. ServedInv => DeployedWasUploaded
  BY DEF ServedInv, SyncInv, StampInv
<1> QED
  BY <1>1, Inductive, PTL

(* Times of deployment differ, so the newest one is of a single build.     *)
LEMMA NewestIsOne ==
    ASSUME TypeOK, StampsDiffer, NEW b \in Builds, IsNewest(b)
    PROVE  Newest = b
<1>1. ASSUME NEW c \in Builds, IsNewest(c) PROVE c = b
  <2>1. deployed[b] <= deployed[c] /\ deployed[c] <= deployed[b]
    BY <1>1 DEF IsNewest
  <2>2. deployed[b] \in Nat /\ deployed[c] \in Nat
    BY DEF TypeOK
  <2>3. deployed[b] = deployed[c]
    BY <2>1, <2>2
  <2> QED
    BY <2>3 DEF StampsDiffer, IsNewest
<1> QED
  BY <1>1 DEF Newest

(* After a deploy or rollback that nothing overlapped, the build with the  *)
(* newest deployed_at is the one in the manifest, whatever races and       *)
(* crashes came before.                                                    *)
THEOREM BaselineKept == Spec => []BaselineIsManifest
<1>1. ServedInv => BaselineIsManifest
  BY NewestIsOne DEF ServedInv, SyncInv, StampInv, ModelInSync, ModelAgrees, BaselineIsManifest
<1> QED
  BY <1>1, Inductive, PTL

(* An app version acknowledged to a caller that nothing overlapped stays   *)
(* in the manifest through the deploys and rollbacks that follow.          *)
THEOREM AppVersionsKept == Spec => []AppVersionKept
<1>1. ServedInv => AppVersionKept
  BY DEF ServedInv, SyncInv, AppInSync, AppAgrees, AppVersionKept
<1> QED
  BY <1>1, Inductive, PTL

(* As long as no operation died half-way, no deletion takes the published  *)
(* GGUF away.                                                              *)
THEOREM PublishedServed == Spec => []ManifestServed
<1>1. ServedInv => ManifestServed
  BY DEF ServedInv, SyncedIsServed, ManifestServed
<1> QED
  BY <1>1, Inductive, PTL
=============================================================================
