----------------------------- MODULE EdgeFleet -----------------------------
(***************************************************************************)
(* One store of the fleet: its row at the centre with the two pending      *)
(* flags, the heartbeat that reports and fetches them, and the update of   *)
(* the edge's own two programs, one file-system call at a time.  The model *)
(* check that a heartbeat may start is EdgeSync, the log upload that ends  *)
(* every run is EdgeLogs; here the first is one step and the second none.  *)
(* Runs do not overlap.  A call that raises what its handler does not name *)
(* (every httpx error, a failed systemctl) ends the run as a power cut     *)
(* does: RunEnds.                                                          *)
(***************************************************************************)
EXTENDS Naturals

CONSTANTS
    Versions,    \* versions of the edge programs
    Names,       \* what a manifest may call one; set apart from the files
    Broken,      \* those whose server.py exits when it is started
    Sick,        \* those whose server.py starts and answers errors only;
                 \*   one that is in both sets may do either
    MaxFaults    \* bound: runs cut short, calls that fail, crashes of the server

ASSUME FleetAssumption ==
    /\ Broken \subseteq Versions /\ Sick \subseteq Versions
    /\ {"none", "partial"} \cap Versions = {}
    /\ {"none", "unknown", "initial"} \cap Names = {}
    /\ MaxFaults \in Nat

VARIABLES
    centre,   \* what the API serves as edge-files, the app_version of the manifest
    row,      \* the row of the store in distill_edge_servers
    hb,       \* the heartbeat transaction in the API: the flags it has read
    target, bak, new,   \* APP_DIR: each program, its .bak and its .new
    stamp,    \* .app_version
    run,      \* the sync program
    server,   \* the edge server: the code it runs, whether its port answers
    asked,    \* history: an app update was asked for, and none was begun since
    missed,   \* history: it was asked for after the heartbeat under way had
              \*   read the flags, or the run it was handed to ended early
    faults    \* history: runs cut short, calls that failed, crashes

central == <<centre, row, hb>>
disk == <<target, bak, new>>
local == <<disk, stamp, server>>
requests == <<asked, missed>>
vars == <<central, local, run, requests, faults>>

Files == {"server.py", "sync.py"}   \* EDGE_SOURCE_FILES, in this order
Maybe == Versions \cup {"none"}
\* online: the status is online, and not pending, no_model or offline
Rows == [exists : BOOLEAN, online : BOOLEAN, model : BOOLEAN, app : BOOLEAN]
NewRow == [exists |-> TRUE, online |-> FALSE, model |-> FALSE, app |-> FALSE]
Types == {"model", "app", "both"}

Stages == {"off", "collect", "post", "answer", "model", "app", "stage",
           "drop", "keep", "place", "restart", "health",
           "unlink", "rename", "again", "clean", "stamp"}
Causes == {"none", "swap", "restart", "health"}   \* why backups are restored
Runs == [pc : Stages, app : BOOLEAN, want : Names \cup {"none"}, file : Files,
         got : [Files -> Maybe], backups : SUBSET Files, cause : Causes]
Off == [pc |-> "off", app |-> FALSE, want |-> "none", file |-> "server.py",
        got |-> [f \in Files |-> "none"], backups |-> {}, cause |-> "none"]

\* provision.sh has downloaded both programs and registered the services.
Init ==
    /\ \E v \in Versions \ (Broken \cup Sick), name \in Names \cup {"none"} :
           /\ centre = [files |-> v, named |-> name]
           /\ target = [f \in Files |-> v]
           /\ stamp = IF name = "none" THEN "initial" ELSE name
    /\ bak = [f \in Files |-> "none"] /\ new = [f \in Files |-> "none"]
    /\ row = NewRow
    /\ hb = [busy |-> FALSE, model |-> FALSE, app |-> FALSE]
    /\ server = [code |-> "none", listening |-> FALSE]
    /\ run = Off
    /\ asked = FALSE /\ missed = FALSE
    /\ faults = 0

---------------------------------------------------------------------------
(* The centre                                                              *)

Edge == UNCHANGED <<local, run, faults>>

DeployFiles ==
    /\ \E v \in Versions : centre' = [centre EXCEPT !.files = v]
    /\ Edge /\ UNCHANGED <<row, hb, requests>>

SetAppVersion ==
    /\ \E name \in Names : centre' = [centre EXCEPT !.named = name]
    /\ Edge /\ UNCHANGED <<row, hb, requests>>

Register ==
    /\ ~row.exists
    /\ row' = NewRow
    /\ Edge /\ UNCHANGED <<centre, hb, requests>>

DeleteServer ==
    /\ row.exists
    /\ row' = [NewRow EXCEPT !.exists = FALSE]
    /\ asked' = FALSE /\ missed' = FALSE
    /\ Edge /\ UNCHANGED <<centre, hb>>

\* The flags that a request of this type sets, and its trace in the history.
SetFlags(type) ==
    /\ row' = [row EXCEPT !.model = @ \/ type \in {"model", "both"},
                          !.app = @ \/ type \in {"app", "both"}]
    /\ IF type = "model" THEN UNCHANGED requests
       ELSE asked' = TRUE /\ missed' = (hb.busy /\ ~hb.app)
    /\ Edge /\ UNCHANGED <<centre, hb>>

RequestUpdate == row.exists /\ \E type \in Types : SetFlags(type)

\* Only the servers whose last heartbeat said online are asked.
BulkRequestUpdate ==
    row.exists /\ row.online /\ \E type \in Types : SetFlags(type)

MarkStale ==
    /\ row.exists /\ row.online
    /\ row' = [row EXCEPT !.online = FALSE]
    /\ Edge /\ UNCHANGED <<centre, hb, requests>>

---------------------------------------------------------------------------
(* The sync program                                                        *)

At(stage) == run.pc = stage
GoTo(stage) == run' = [run EXCEPT !.pc = stage]
Fault == faults < MaxFaults /\ faults' = faults + 1
OnlyRun == UNCHANGED <<central, local, requests, faults>>
DiskOnly == UNCHANGED <<central, stamp, server, requests>>

\* The timer starts sync.py, if there is one.
StartRun ==
    /\ At("off") /\ target["sync.py"] # "none"
    /\ run' = [Off EXCEPT !.pc = "collect"]
    /\ OnlyRun

CollectAnything ==                                           \* mutant
    /\ At("collect")
    /\ GoTo("post")
    /\ OnlyRun

\* Nobody listening on the local port is a ConnectError, which ends the run;
\* an error page is no JSON, and there is no heartbeat.
Collect ==
    /\ At("collect")
    /\ IF server.listening /\ server.code \notin Sick THEN GoTo("post") ELSE run' = Off
    /\ OnlyRun

\* The request reads the row.  A store without one is refused with 400: its
\* data names no profile, which the new row may not do without.
PostHeartbeat ==
    /\ At("post") /\ ~hb.busy
    /\ IF row.exists
       THEN /\ hb' = [busy |-> TRUE, model |-> row.model, app |-> row.app]
            /\ GoTo("answer")
       ELSE run' = Off /\ UNCHANGED hb
    /\ UNCHANGED <<centre, row, local, requests, faults>>

NoHeartbeat == [busy |-> FALSE, model |-> FALSE, app |-> FALSE]

\* push_heartbeat takes the answer: first the model, then the app.
Answered(model, app) ==
    run' = IF model THEN [run EXCEPT !.pc = "model", !.app = app]
           ELSE IF app THEN [run EXCEPT !.pc = "app", !.app = TRUE] ELSE Off

CommitHeartbeatRereads ==                                    \* mutant
    /\ hb.busy
    /\ \E online \in BOOLEAN :
           row' = IF ~row.exists THEN row
                  ELSE [row EXCEPT !.online = online, !.model = FALSE, !.app = FALSE]
    /\ hb' = NoHeartbeat
    /\ IF At("answer") THEN Answered(row'.model, row'.app) /\ UNCHANGED missed
       ELSE UNCHANGED run /\ missed' = (missed \/ hb.app)
    /\ UNCHANGED <<centre, local, asked, faults>>

\* One UPDATE writes the report and clears both flags, whatever they are by
\* now; the answer carries what was read.
CommitHeartbeat ==
    /\ hb.busy
    /\ \E online \in BOOLEAN :
           row' = IF ~row.exists THEN row
                  ELSE [row EXCEPT !.online = online, !.model = FALSE, !.app = FALSE]
    /\ hb' = NoHeartbeat
    /\ IF At("answer") THEN Answered(hb.model, hb.app) /\ UNCHANGED missed
       ELSE UNCHANGED run /\ missed' = (missed \/ hb.app)
    /\ UNCHANGED <<centre, local, asked, faults>>

\* The transaction is rolled back and the 500 ends the run.
HeartbeatFails ==
    /\ hb.busy
    /\ Fault
    /\ hb' = NoHeartbeat
    /\ IF At("answer") THEN run' = Off ELSE UNCHANGED run
    /\ UNCHANGED <<centre, row, local, requests>>

\* check_and_update came back, with or without a new model.
ModelChecked ==
    /\ At("model")
    /\ IF run.app THEN GoTo("app") ELSE run' = Off
    /\ OnlyRun

\* update_source_files begins: the version in the manifest, or none when the
\* manifest has none or is no JSON, against .app_version.
ReadVersions ==
    /\ At("app")
    /\ \E want \in {centre.named, "none"} :
           /\ want # centre.named => faults < MaxFaults
           /\ faults' = IF want # centre.named THEN faults + 1 ELSE faults
           /\ run' = IF want # "none" /\ want = stamp THEN Off
                     ELSE [run EXCEPT !.pc = "stage", !.app = FALSE, !.want = want]
    /\ asked' = FALSE /\ missed' = FALSE
    /\ UNCHANGED <<central, local>>

\* The run goes on with the other file at stage, or past the last one to next.
NextFile(stage, next) ==
    IF run.file = "server.py" THEN [run EXCEPT !.pc = stage, !.file = "sync.py"]
    ELSE [run EXCEPT !.pc = next, !.file = "server.py"]

Download ==
    /\ At("stage")
    /\ new' = [new EXCEPT ![run.file] = centre.files]
    /\ run' = [NextFile("stage", "drop") EXCEPT !.got[run.file] = centre.files]
    /\ DiskOnly /\ UNCHANGED <<target, bak, faults>>

\* A failure to write is caught: the whole .new files are removed.
DownloadFails ==
    /\ At("stage")
    /\ Fault
    /\ new' = [f \in Files |-> IF f = run.file THEN "partial"
                              ELSE IF run.got[f] # "none" THEN "none" ELSE new[f]]
    /\ run' = Off
    /\ DiskOnly /\ UNCHANGED <<target, bak>>

SwapAlwaysDropsBak ==                                        \* mutant
    /\ At("drop")
    /\ bak' = [bak EXCEPT ![run.file] = "none"]
    /\ GoTo(IF target[run.file] = "none" THEN "place" ELSE "keep")
    /\ DiskOnly /\ UNCHANGED <<target, new, faults>>

SwapDropsBak ==
    /\ At("drop")
    /\ IF target[run.file] = "none" THEN GoTo("place") /\ UNCHANGED bak
       ELSE GoTo("keep") /\ bak' = [bak EXCEPT ![run.file] = "none"]
    /\ DiskOnly /\ UNCHANGED <<target, new, faults>>

SwapKeeps ==
    /\ At("keep")
    /\ bak' = [bak EXCEPT ![run.file] = target[run.file]]
    /\ target' = [target EXCEPT ![run.file] = "none"]
    /\ run' = [run EXCEPT !.pc = "place", !.backups = @ \cup {run.file}]
    /\ DiskOnly /\ UNCHANGED <<new, faults>>

SwapPlaces ==
    /\ At("place")
    /\ target' = [target EXCEPT ![run.file] = new[run.file]]
    /\ new' = [new EXCEPT ![run.file] = "none"]
    /\ run' = NextFile("drop", "restart")
    /\ DiskOnly /\ UNCHANGED <<bak, faults>>

Restore(cause) ==
    run' = [run EXCEPT !.pc = "unlink", !.file = "server.py", !.cause = cause]

SwapFails ==
    /\ run.pc \in {"drop", "keep", "place"}
    /\ Fault
    /\ Restore("swap")
    /\ UNCHANGED <<central, local, requests>>

\* The restart command stops the server and starts what is there now.
Started ==
    LET code == target["server.py"]
    IN  IF code \in Broken \ Sick THEN {"none"}
        ELSE IF code \in Broken THEN {"none", code} ELSE {code}

StartServer ==
    \E code \in Started : server' = [code |-> code, listening |-> FALSE]

Restart ==
    /\ At("restart")
    /\ StartServer
    /\ GoTo("health")
    /\ UNCHANGED <<central, disk, stamp, requests, faults>>

RestartFailsUnseen ==                                        \* mutant
    /\ At("restart")
    /\ Fault
    /\ GoTo("health")
    /\ UNCHANGED <<central, local, requests>>

\* no systemctl is an OSError; a systemctl that fails is RunEnds
RestartFails ==
    /\ At("restart")
    /\ Fault
    /\ Restore("restart")
    /\ UNCHANGED <<central, local, requests>>

\* A connection refused, as long as the new server is loading its model or
\* when it has exited, ends the run; only an answer other than 200 is retried
\* and then leads to the restore.
Health ==
    /\ At("health")
    /\ CASE ~server.listening -> run' = Off
         [] server.listening /\ server.code \in Sick -> Restore("health")
         [] OTHER -> run' = [run EXCEPT !.pc = "clean", !.file = "server.py"]
    /\ OnlyRun

Restored == IF run.file = "server.py" THEN NextFile("unlink", "unlink")
            ELSE IF run.cause = "health" THEN [run EXCEPT !.pc = "again"] ELSE Off

\* After the last file the handler of a failed swap removes the .new files.
DropNew ==
    new' = IF run.file = "sync.py" /\ run.cause = "swap"
           THEN [f \in Files |-> "none"] ELSE new

RestoreUnlinks ==
    /\ At("unlink")
    /\ IF run.file \in run.backups /\ bak[run.file] # "none"
       THEN /\ target' = [target EXCEPT ![run.file] = "none"]
            /\ GoTo("rename")
            /\ UNCHANGED new
       ELSE run' = Restored /\ DropNew /\ UNCHANGED target
    /\ DiskOnly /\ UNCHANGED <<bak, faults>>

RestoreRenames ==
    /\ At("rename")
    /\ target' = [target EXCEPT ![run.file] = bak[run.file]]
    /\ bak' = [bak EXCEPT ![run.file] = "none"]
    /\ run' = Restored
    /\ DropNew
    /\ DiskOnly /\ UNCHANGED faults

\* _restore_backups goes on with the next file.
RestoreSkips ==
    /\ run.pc \in {"unlink", "rename"} /\ run.cause # "swap"
    /\ Fault
    /\ run' = Restored
    /\ UNCHANGED <<central, local, requests>>

RestartAgain ==
    /\ At("again")
    /\ StartServer
    /\ run' = Off
    /\ UNCHANGED <<central, disk, stamp, requests, faults>>

CleanBak ==
    /\ At("clean")
    /\ bak' = IF run.file \in run.backups
              THEN [bak EXCEPT ![run.file] = "none"] ELSE bak
    /\ run' = NextFile("clean", "stamp")
    /\ DiskOnly /\ UNCHANGED <<target, new, faults>>

Stamp ==
    /\ At("stamp")
    /\ stamp' = IF run.want = "none" THEN "unknown" ELSE run.want
    /\ run' = Off
    /\ UNCHANGED <<central, disk, server, requests, faults>>

\* The run is killed, loses its network or fails where nothing is caught.
RunEnds ==
    /\ ~At("off")
    /\ Fault
    /\ run' = Off
    /\ \/ UNCHANGED new
       \/ At("stage") /\ new' = [new EXCEPT ![run.file] = "partial"]
    /\ missed' = (missed \/ run.app)
    /\ UNCHANGED <<central, target, bak, stamp, server, asked>>

---------------------------------------------------------------------------
(* The edge server; its service manager starts it again for ever           *)

OnlyServer == UNCHANGED <<central, disk, stamp, run, requests>>

ServerStarts ==
    /\ server.code = "none"
    /\ StartServer
    /\ OnlyServer /\ UNCHANGED faults

ServerListens ==
    /\ server.code # "none" /\ ~server.listening
    /\ server' = [server EXCEPT !.listening = TRUE]
    /\ OnlyServer /\ UNCHANGED faults

ServerStops ==
    /\ server.code # "none"
    /\ Fault
    /\ server' = [code |-> "none", listening |-> FALSE]
    /\ OnlyServer

CentreNext ==
    \/ DeployFiles \/ SetAppVersion
    \/ Register \/ DeleteServer
    \/ RequestUpdate \/ BulkRequestUpdate \/ MarkStale
    \/ CommitHeartbeat \/ HeartbeatFails

UpdateNext ==
    \/ ReadVersions \/ Download \/ DownloadFails
    \/ SwapDropsBak \/ SwapKeeps \/ SwapPlaces \/ SwapFails
    \/ Restart \/ RestartFails \/ Health
    \/ RestoreUnlinks \/ RestoreRenames \/ RestoreSkips \/ RestartAgain
    \/ CleanBak \/ Stamp

Next ==
    \/ CentreNext
    \/ StartRun \/ Collect \/ PostHeartbeat \/ ModelChecked \/ UpdateNext \/ RunEnds
    \/ ServerStarts \/ ServerListens \/ ServerStops

Spec == Init /\ [][Next]_vars

---------------------------------------------------------------------------
(* Properties                                                              *)

\* Every variable stays in its set.
TypeOK ==
    /\ centre \in [files : Versions, named : Names \cup {"none"}]
    /\ row \in Rows
    /\ hb \in [busy : BOOLEAN, model : BOOLEAN, app : BOOLEAN]
    /\ target \in [Files -> Maybe] /\ bak \in [Files -> Maybe]
    /\ new \in [Files -> Maybe \cup {"partial"}]
    /\ stamp \in Names \cup {"unknown", "initial"}
    /\ run \in Runs
    /\ server \in [code : Maybe, listening : BOOLEAN]
    /\ asked \in BOOLEAN /\ missed \in BOOLEAN
    /\ faults \in 0..MaxFaults

\* Wherever the updates of a store were cut, and whatever failed in them, each
\* of its programs is there, under its own name or as .bak (update_source_files
\* 349-366, _restore_backups).
SomeCopyKept ==
    \A f \in Files : target[f] # "none" \/ bak[f] # "none"

\* As long as nothing else fails, a store that was given a server.py that does
\* not work still has one that does: a refused connection ends the run before it
\* restores the .bak, but with no server to collect a heartbeat from no later
\* run gets as far as replacing it (push_heartbeat 222-228, _health_check).
WorkingCopyKept ==
    faults = 0 =>
        \E code \in {target["server.py"], bak["server.py"]} :
            code \in Versions \ (Broken \cup Sick)

\* .app_version is only written when both programs are the ones this run has
\* downloaded, and the server that runs, if any, is the new one and answered
\* (update_source_files 369-393).
StampedIsInstalled ==
    [][stamp' # stamp =>
           /\ \A f \in Files : target[f] = run.got[f]
           /\ server.code \in {"none", run.got["server.py"]}
           /\ run.got["server.py"] \notin Sick \cup Broken]_vars

\* A request to update the edge programs waits in the row, or in the answer to
\* a heartbeat, until a run begins it; it is lost only to the heartbeat it
\* overlapped or to a run that ended with the answer (upsert_heartbeat 83-112,
\* push_heartbeat 244-249).
RequestKept ==
    asked /\ ~missed => row.app \/ hb.app \/ run.app

\* Claim of the route's docstring: a request takes effect in the next sync
\* cycle.  The heartbeat clears the flags it has not read.
RequestNeverLost == asked /\ faults = 0 => row.app \/ hb.app \/ run.app
=============================================================================
