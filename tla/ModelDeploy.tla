---------------------------- MODULE ModelDeploy ----------------------------
(***************************************************************************)
(* Publication of a profile's models: what the deploy stage of the build   *)
(* pipeline and the routes deploy, rollback, delete and app-version do,    *)
(* await by await, to the three places that say which model is out: the    *)
(* manifest in S3 that the edges poll, the GGUF objects it points to, and  *)
(* deployed_at in the build rows.  Nothing locks the three together.       *)
(* A build here starts with the pipeline reaching its deploy stage; what   *)
(* comes before is the subject of BuildPipeline.                           *)
(***************************************************************************)
EXTENDS Naturals

CONSTANTS
    MaxBuilds,   \* bound: builds of the profile
    MaxOps,      \* bound: operations in flight at a time
    MaxCalls,    \* bound: route calls
    MaxFaults    \* bound: operations that die, jobs that run again

ASSUME BoundsAssumption ==
    /\ MaxBuilds \in Nat \ {0} /\ MaxOps \in Nat
    /\ MaxCalls \in Nat /\ MaxFaults \in Nat

Builds == 1..MaxBuilds     \* ids in the order of creation
Slots  == 1..MaxOps
NoBuild == 0
NoTime  == 0

Publishers == {"pipeline", "deploy", "rollback"}
Kinds == Publishers \cup {"delete", "app"}

VARIABLES
    status,    \* status column; "building" stands for the stages before deploying
    uri,       \* builds whose s3_uri is set
    deployed,  \* deployed_at: deployed[b] is a time, NoTime for a NULL
    clock,     \* the time of the last deployed_at written
    objects,   \* builds whose versioned GGUF is in S3
    manifest,  \* manifest.json: there or not, the build it names, the app version
    ops,       \* operations in flight
    calls,     \* route calls so far
    faults,    \* faults so far
    synced,    \* history: which of "model" and "app" was last written by an
               \*   operation that no other one overlapped
    app        \* history: the app version last acknowledged to a caller

rowVars == <<status, uri, deployed, clock>>
s3Vars  == <<objects, manifest>>
history == <<synced, app>>
vars == <<rowVars, s3Vars, ops, calls, faults, history>>

Statuses  == {"absent", "building", "deploying", "completed", "failed", "deleted"}
Manifests == [exists : BOOLEAN, build : Builds \cup {NoBuild}, app : 0..MaxCalls]
NoManifest == [exists |-> FALSE, build |-> NoBuild, app |-> 0]
Ops == [kind : Kinds, build : Builds \cup {NoBuild}, alone : BOOLEAN,
        pc : {"free", "begin", "refuse", "upload", "read", "put", "uri", "mark", "complete",
              "object", "row"},
        seen : Manifests,                  \* the manifest as read
        current : Builds \cup {NoBuild},   \* rollback: the build deployed now
        value : 0..MaxCalls]               \* app: the version asked for
FreeOp == [kind |-> "app", build |-> NoBuild, alone |-> TRUE, pc |-> "free",
           seen |-> NoManifest, current |-> NoBuild, value |-> 0]

Init ==
    /\ status = [b \in Builds |-> "absent"]
    /\ uri = {} /\ objects = {}
    /\ deployed = [b \in Builds |-> NoTime] /\ clock = 0
    /\ manifest \in {NoManifest, [NoManifest EXCEPT !.exists = TRUE]}
    /\ ops = [o \in Slots |-> FreeOp]
    /\ calls = 0 /\ faults = 0
    /\ synced = {} /\ app = 0

-----------------------------------------------------------------------------
(* Rows.  update_build of a deleted row changes nothing.                   *)

Row(b) == status[b] \notin {"absent", "deleted"}
InFlight(o) == ops[o].pc # "free"
Quiet == \A o \in Slots : ~InFlight(o)

SetStatus(b, st) == status' = IF Row(b) THEN [status EXCEPT ![b] = st] ELSE status

IsDeployed(b) == deployed[b] # NoTime
IsNewest(b) == IsDeployed(b) /\ \A c \in Builds : deployed[c] <= deployed[b]
Newest == IF \E b \in Builds : IsNewest(b) THEN CHOOSE b \in Builds : IsNewest(b) ELSE NoBuild

\* deployed_at of S := NULL
Cleared(S) == [b \in Builds |-> IF b \in S THEN NoTime ELSE deployed[b]]
StampNow(b, S) ==          \* deployed_at of b := now, of S := NULL
    /\ clock' = clock + 1
    /\ deployed' = IF Row(b) THEN [Cleared(S) EXCEPT ![b] = clock'] ELSE Cleared(S)

(* get_latest_build(status = "completed"), if it has a deployed_at         *)
CurrentBuild ==
    LET done == {b \in Builds : status[b] = "completed"}
        last == {b \in done : \A c \in done : c <= b /\ IsDeployed(b)}
    IN  IF last = {} THEN NoBuild ELSE CHOOSE b \in last : TRUE

-----------------------------------------------------------------------------
(* Operations start, move, end and die.                                    *)

Begin(o, op) ==
    /\ ~InFlight(o) /\ \A i \in Slots : i < o => InFlight(i)
    /\ ops' = [i \in Slots |->
                 IF i = o THEN [op EXCEPT !.alone = Quiet]
                 ELSE [ops[i] EXCEPT !.alone = ops[i].pc = "free"]]
    /\ synced' = IF op.kind \in Publishers THEN synced \ {"model"}
                 ELSE IF op.kind = "app" THEN synced \ {"app"} ELSE synced
    /\ UNCHANGED app

Call == calls < MaxCalls /\ calls' = calls + 1

At(o, kind, pc) == ops[o].kind = kind /\ ops[o].pc = pc
GoTo(o, pc) == ops' = [ops EXCEPT ![o].pc = pc]

Free(o) == ops' = [ops EXCEPT ![o] = FreeOp]
Stop(o) == Free(o) /\ UNCHANGED history

(* The operation returned: what it wrote is what the manifest says if no   *)
(* other operation ran meanwhile, and in doubt if one did.                 *)
Finish(o, part) ==
    /\ Free(o)
    /\ synced' = IF ops[o].alone THEN synced \cup {part} ELSE {}
    /\ app' = IF part = "app" THEN ops[o].value ELSE app

Fault == faults < MaxFaults /\ faults' = faults + 1

-----------------------------------------------------------------------------
(* Build pipeline: _deploy and the "completed" that follows it             *)

(* A trigger inserts a build when none of the profile is active, a reset   *)
(* to the base model at any time.                                          *)
NewBuild(b) ==
    /\ status[b] = "absent" /\ \A c \in Builds : c < b => status[c] # "absent"
    /\ status' = [status EXCEPT ![b] = "building"]
    /\ UNCHANGED <<uri, deployed, clock, s3Vars, ops, calls, faults, history>>

BuildFails(b) ==
    /\ status[b] = "building"
    /\ status' = [status EXCEPT ![b] = "failed"]
    /\ UNCHANGED <<uri, deployed, clock, s3Vars, ops, calls, faults, history>>

(* The step list has no "deploy": completed with no artifact in S3.        *)
BuildCompletesUndeployed(b) ==
    /\ status[b] = "building"
    /\ status' = [status EXCEPT ![b] = "completed"]
    /\ UNCHANGED <<uri, deployed, clock, s3Vars, ops, calls, faults, history>>

PipelineDeploys(o, b) ==
    /\ status[b] = "building"
    /\ SetStatus(b, "deploying")
    /\ Begin(o, [FreeOp EXCEPT !.kind = "pipeline", !.build = b, !.pc = "upload"])
    /\ UNCHANGED <<uri, deployed, clock, s3Vars, calls, faults>>

Upload(o) ==
    /\ At(o, "pipeline", "upload")
    /\ objects' = objects \cup {ops[o].build}
    /\ GoTo(o, "read")
    /\ UNCHANGED <<rowVars, manifest, calls, faults, history>>

(* create_and_upload_manifest: the old manifest is read for its app        *)
(* fields; when there is none, NoSuchKey is not among the exceptions       *)
(* caught and ends the operation.                                          *)
ReadManifest(o) ==
    /\ ops[o].pc = "read"
    /\ manifest.exists
    /\ ops' = [ops EXCEPT ![o].pc = "put", ![o].seen = manifest]
    /\ UNCHANGED <<rowVars, s3Vars, calls, faults, history>>

ReadNoManifest(o) ==
    /\ ops[o].pc = "read"
    /\ ~manifest.exists
    /\ Stop(o)
    /\ UNCHANGED <<rowVars, s3Vars, calls, faults>>

(* Mutant: the app fields start empty in the new manifest.                 *)
PutManifestAfresh(o) ==
    /\ ops[o].pc = "put" /\ ops[o].kind \in Publishers
    /\ manifest' = [exists |-> TRUE, build |-> ops[o].build, app |-> 0]
    /\ GoTo(o, IF ops[o].kind = "pipeline" THEN "uri" ELSE "mark")
    /\ UNCHANGED <<rowVars, objects, calls, faults, history>>

PutManifest(o) ==
    /\ ops[o].pc = "put" /\ ops[o].kind \in Publishers
    /\ manifest' = [ops[o].seen EXCEPT !.build = ops[o].build]
    /\ GoTo(o, IF ops[o].kind = "pipeline" THEN "uri" ELSE "mark")
    /\ UNCHANGED <<rowVars, objects, calls, faults, history>>

SetUri(o) ==
    /\ At(o, "pipeline", "uri")
    /\ uri' = IF Row(ops[o].build) THEN uri \cup {ops[o].build} ELSE uri
    /\ GoTo(o, "mark")
    /\ UNCHANGED <<status, deployed, clock, s3Vars, calls, faults, history>>

(* mark_build_deployed clears every other build of the profile.            *)
MarkBuildDeployed(o) ==
    /\ At(o, "pipeline", "mark")
    /\ StampNow(ops[o].build, Builds)
    /\ GoTo(o, "complete")
    /\ UNCHANGED <<status, uri, s3Vars, calls, faults, history>>

PipelineCompletes(o) ==
    /\ At(o, "pipeline", "complete")
    /\ SetStatus(ops[o].build, "completed")
    /\ Finish(o, "model")
    /\ UNCHANGED <<uri, deployed, clock, s3Vars, calls, faults>>

(* A caught exception: the executor writes "failed", the deploy route      *)
(* "completed", rollback and app-version nothing.                          *)
OpFails(o) ==
    /\ ops[o].pc \in {"upload", "read", "put"}
    /\ CASE ops[o].kind = "pipeline" -> SetStatus(ops[o].build, "failed")
         [] ops[o].kind = "deploy"   -> SetStatus(ops[o].build, "completed")
         [] OTHER                    -> UNCHANGED status
    /\ Stop(o)
    /\ UNCHANGED <<uri, deployed, clock, s3Vars, calls, faults>>

(* The process dies, or an exception escapes: the rest does not happen.    *)
OpDies(o) ==
    /\ InFlight(o)
    /\ Fault
    /\ Stop(o)
    /\ UNCHANGED <<rowVars, s3Vars, calls>>

(* A worker that died at or after the deploy stage runs the job again.     *)
JobRunsAgain(b) ==
    /\ status[b] \in {"deploying", "completed"}
    /\ \A o \in Slots : InFlight(o) => ops[o].build # b
    /\ Fault
    /\ status' = [status EXCEPT ![b] = "building"]
    /\ UNCHANGED <<uri, deployed, clock, s3Vars, ops, calls, history>>

(* distill_sweep_post_train: 2 h without a change in "deploying".          *)
SweepStuck(b) ==
    /\ status[b] = "deploying"
    /\ \A o \in Slots : InFlight(o) => ops[o].build # b
    /\ status' = [status EXCEPT ![b] = "failed"]
    /\ UNCHANGED <<uri, deployed, clock, s3Vars, ops, calls, faults, history>>

-----------------------------------------------------------------------------
(* Routes                                                                  *)

(* Mutant: the s3_uri is not looked at.                                    *)
CallDeployUnchecked(o, b) ==
    /\ status[b] = "completed"
    /\ Call
    /\ Begin(o, [FreeOp EXCEPT !.kind = "deploy", !.build = b, !.pc = "begin"])
    /\ UNCHANGED <<rowVars, s3Vars, faults>>

(* The row is read once: status and s3_uri are what they were at the call. *)
CallDeploy(o, b) ==
    /\ status[b] = "completed"
    /\ Call
    /\ Begin(o, [FreeOp EXCEPT !.kind = "deploy", !.build = b,
                               !.pc = IF b \in uri THEN "begin" ELSE "refuse"])
    /\ UNCHANGED <<rowVars, s3Vars, faults>>

(* The status is written over whatever it is by now.                       *)
DeployBegins(o) ==
    /\ At(o, "deploy", "begin")
    /\ SetStatus(ops[o].build, "deploying")
    /\ GoTo(o, "read")
    /\ UNCHANGED <<uri, deployed, clock, s3Vars, calls, faults, history>>

(* A build without s3_uri, deployed by nobody, gets "completed" back.      *)
DeployRefused(o) ==
    /\ At(o, "deploy", "refuse")
    /\ SetStatus(ops[o].build, "completed")
    /\ Stop(o)
    /\ UNCHANGED <<uri, deployed, clock, s3Vars, calls, faults>>

(* The route stamps its build and clears no other.                         *)
DeployEnds(o) ==
    /\ At(o, "deploy", "mark")
    /\ SetStatus(ops[o].build, "completed")
    /\ StampNow(ops[o].build, {})
    /\ Finish(o, "model")
    /\ UNCHANGED <<uri, s3Vars, calls, faults>>

CallRollback(o, b) ==
    /\ Call
    /\ Row(b) /\ b \in uri
    /\ Begin(o, [FreeOp EXCEPT !.kind = "rollback", !.build = b, !.pc = "read",
                               !.current = CurrentBuild])
    /\ UNCHANGED <<rowVars, s3Vars, faults>>

(* Mutant: the build rolled back to is stamped only when some build was    *)
(* found deployed.                                                         *)
RollbackEndsStampingNone(o) ==
    /\ At(o, "rollback", "mark")
    /\ IF ops[o].current = NoBuild THEN UNCHANGED <<deployed, clock>>
       ELSE StampNow(ops[o].build, {ops[o].current})
    /\ Finish(o, "model")
    /\ UNCHANGED <<status, uri, s3Vars, calls, faults>>

(* rollback_to, or update_build when no deployed build was found.          *)
RollbackEnds(o) ==
    /\ At(o, "rollback", "mark")
    /\ StampNow(ops[o].build, {ops[o].current})
    /\ Finish(o, "model")
    /\ UNCHANGED <<status, uri, s3Vars, calls, faults>>

(* Without its second conjunct (a mutant) the published build can go.      *)
CanDeleteInactive(b) == Row(b) /\ status[b] \notin {"building", "deploying"}
CanDelete(b) == CanDeleteInactive(b) /\ ~IsDeployed(b)

CallDelete(o, b) ==
    /\ Call
    /\ CanDelete(b)
    /\ Begin(o, [FreeOp EXCEPT !.kind = "delete", !.build = b,
                               !.pc = IF b \in uri THEN "object" ELSE "row"])
    /\ UNCHANGED <<rowVars, s3Vars, faults>>

(* Best effort: an error of S3 is logged and the row goes all the same.    *)
DeleteObject(o) ==
    /\ At(o, "delete", "object")
    /\ objects' \in {objects, objects \ {ops[o].build}}
    /\ GoTo(o, "row")
    /\ UNCHANGED <<rowVars, manifest, calls, faults, history>>

DeleteRow(o) ==
    /\ At(o, "delete", "row")
    /\ SetStatus(ops[o].build, "deleted")
    /\ uri' = uri \ {ops[o].build}
    /\ deployed' = Cleared({ops[o].build})
    /\ Stop(o)
    /\ UNCHANGED <<clock, s3Vars, calls, faults>>

CallSetAppVersion(o) ==
    /\ Call
    /\ Begin(o, [FreeOp EXCEPT !.kind = "app", !.pc = "read", !.value = calls'])
    /\ UNCHANGED <<rowVars, s3Vars, faults>>

PutAppVersion(o) ==
    /\ At(o, "app", "put")
    /\ manifest' = [ops[o].seen EXCEPT !.app = ops[o].value]
    /\ Finish(o, "app")
    /\ UNCHANGED <<rowVars, objects, calls, faults>>

-----------------------------------------------------------------------------

BuildNext == \E b \in Builds :
    NewBuild(b) \/ BuildFails(b) \/ BuildCompletesUndeployed(b) \/ JobRunsAgain(b) \/ SweepStuck(b)

CallNext == \E o \in Slots :
    \/ CallSetAppVersion(o)
    \/ \E b \in Builds : PipelineDeploys(o, b) \/ CallDeploy(o, b) \/ CallRollback(o, b)
                         \/ CallDelete(o, b)

OpNext == \E o \in Slots :
    \/ Upload(o) \/ ReadManifest(o) \/ ReadNoManifest(o) \/ PutManifest(o)
    \/ SetUri(o) \/ MarkBuildDeployed(o) \/ PipelineCompletes(o)
    \/ DeployBegins(o) \/ DeployRefused(o) \/ DeployEnds(o) \/ RollbackEnds(o)
    \/ DeleteObject(o) \/ DeleteRow(o) \/ PutAppVersion(o)
    \/ OpFails(o) \/ OpDies(o)

Next == BuildNext \/ CallNext \/ OpNext

Spec == Init /\ [][Next]_vars

-----------------------------------------------------------------------------
(* Properties                                                              *)

(* Rows, manifest and operations keep their shape, and no deployed_at is   *)
(* in the future.                                                          *)
TypeOK ==
    /\ status \in [Builds -> Statuses]
    /\ uri \subseteq Builds /\ objects \subseteq Builds
    /\ clock \in Nat /\ deployed \in [Builds -> 0..clock]
    /\ manifest \in Manifests
    /\ ops \in [Slots -> Ops]
    /\ calls \in 0..MaxCalls /\ faults \in 0..MaxFaults
    /\ synced \subseteq {"model", "app"} /\ app \in 0..MaxCalls

(* The baseline of the regression check (newest deployed_at) is the model  *)
(* the edges are served, whenever nothing is in flight and the last deploy *)
(* or rollback was not overlapped and did not die half-way, whatever races *)
(* and crashes came before it.                                             *)
BaselineIsManifest ==
    Quiet /\ "model" \in synced => manifest.build = Newest

(* Under the same condition, and as long as no operation ever died, the    *)
(* GGUF the manifest points to is in S3: deleting builds never takes the   *)
(* published model away.                                                   *)
ManifestServed ==
    Quiet /\ "model" \in synced /\ faults = 0 => manifest.build \in objects

(* An app version set by a call that nothing overlapped stays in the       *)
(* manifest through the deploys and rollbacks that follow one by one       *)
(* (create_and_upload_manifest keeps the app fields).                      *)
AppVersionKept ==
    Quiet /\ "app" \in synced => manifest.app = app

(* A build with a deployed_at has its artifact recorded: no interleaving   *)
(* of pipeline, routes, reruns and deletions stamps a build that was never *)
(* uploaded or is gone.                                                    *)
DeployedWasUploaded ==
    \A b \in Builds : IsDeployed(b) => b \in uri

(* build.py:113: mark_build_deployed keeps the invariant "one active       *)
(* deployment per profile".                                                *)
OneActiveDeployment == \A b, c \in Builds : IsDeployed(b) /\ IsDeployed(c) => b = c
=============================================================================
