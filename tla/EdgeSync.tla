------------------------------ MODULE EdgeSync ------------------------------
(***************************************************************************)
(* One edge machine: the sync program that replaces the model directory by *)
(* the version the central manifest names, one file-system call at a time, *)
(* and the LLM server that loads models/current when it starts and when it *)
(* is told to reload.  The two programs share nothing but the directory.   *)
(* Runs of the sync program do not overlap (a oneshot unit of a timer);    *)
(* any call of a run may be its last, and the directory stays as it was.   *)
(* What starts a check, a flag in the heartbeat's answer or --check-only,  *)
(* is left open here.                                                      *)
(***************************************************************************)
EXTENDS Naturals

CONSTANTS
    Versions,    \* model versions the centre may publish
    Unsigned,    \* those whose manifest carries no sha256
    Unloadable,  \* those llama.cpp cannot load
    MaxCuts      \* bound: runs that end while they replace the model

ASSUME VersionsAssumption ==
    /\ Unsigned \subseteq Versions /\ Unloadable \subseteq Versions
    /\ {"none", "partial", "garbled"} \cap Versions = {}
    /\ MaxCuts \in Nat

VARIABLES
    manifest,   \* the version in the manifest that the centre serves
    current, staging, rollback,   \* the directories under MODEL_DIR
    sync,       \* the sync program: where its run is, what it read, how it ended
    server,     \* the LLM server process
    installed,  \* history: a model was put into current
    cuts        \* history: runs that ended between their first change to
                \*   rollback or current and the answer to their reload

dirs == <<current, staging, rollback>>
vars == <<manifest, dirs, sync, server, installed, cuts>>

\* A directory is there or not, with the contents of model.gguf and the
\* version its manifest.json names.
Contents == Versions \cup {"none", "partial", "garbled"}
Dirs == [exists : BOOLEAN, gguf : Contents, manifest : Versions \cup {"none"}]
NoDir == [exists |-> FALSE, gguf |-> "none", manifest |-> "none"]
EmptyDir == [NoDir EXCEPT !.exists = TRUE]
HasModel(d) == d.gguf # "none"
Whole(d) == d.gguf \notin {"none", "partial"}
Loadable(gguf) == gguf \in Versions \ Unloadable

\* What an rmtree that is cut short may leave of a directory.
HalfRemoved(d) ==
    {d, [d EXCEPT !.gguf = "none"], [d EXCEPT !.manifest = "none"]}

SwapStages == {"drop", "keep", "install", "reload", "waiting", "restore", "rename"}
SyncStages == {"off", "fetch", "download", "body", "verify", "stamp", "ping"} \cup SwapStages
Results == {"none", "kept", "reloaded", "left", "refused", "restored"}
SyncStates == [pc : SyncStages, want : Versions \cup {"none"}, result : Results]

\* asked: a /reload waits for the event loop; busy: a load is going on, of the
\* contents opened; listening: start-up is over and the port answers.
ServerStates ==
    [up : BOOLEAN, listening : BOOLEAN, asked : BOOLEAN, busy : BOOLEAN,
     opened : Contents, llm : Versions \cup {"none"},
     cached : Versions \cup {"none", "unknown"}]
ServerDown == [up |-> FALSE, listening |-> FALSE, asked |-> FALSE, busy |-> FALSE,
               opened |-> "none", llm |-> "none", cached |-> "none"]

\* provision.sh leaves an empty models/current and starts the server
Init ==
    /\ manifest \in Versions
    /\ current = EmptyDir /\ staging = NoDir /\ rollback = NoDir
    /\ sync = [pc |-> "off", want |-> "none", result |-> "none"]
    /\ server = ServerDown
    /\ installed = FALSE /\ cuts = 0

---------------------------------------------------------------------------
(* The sync program.  A call that fails with an exception its handler does *)
(* not name (every httpx error) ends the run as a crash does: RunEnds.     *)

At(stage) == sync.pc = stage
GoTo(stage) == sync' = [sync EXCEPT !.pc = stage]
EndRun(result) == sync' = [sync EXCEPT !.pc = "off", !.result = result]
OnlySync == UNCHANGED <<manifest, dirs, server, installed, cuts>>
DiskOnly == UNCHANGED <<manifest, server, installed, cuts>>

StartCheck ==
    /\ At("off")
    /\ sync' = [pc |-> "fetch", want |-> "none", result |-> "none"]
    /\ OnlySync

\* The version on disk is current/manifest.json's, or none.
NeverUpToDate(version) == FALSE                              \* mutant
UpToDate(version) == version = current.manifest

FetchManifest ==
    /\ At("fetch")
    /\ IF UpToDate(manifest)
       THEN EndRun("kept")
       ELSE sync' = [sync EXCEPT !.pc = "download", !.want = manifest]
    /\ OnlySync

\* mkdir(exist_ok) and open("wb"): what an earlier run left is overwritten
DownloadStarts ==
    /\ At("download")
    /\ staging' = [staging EXCEPT !.exists = TRUE, !.gguf = "partial"]
    /\ GoTo("body")
    /\ DiskOnly /\ UNCHANGED <<current, rollback>>

DownloadEnds ==
    /\ At("body")
    /\ \E gguf \in {sync.want, "garbled"} : staging' = [staging EXCEPT !.gguf = gguf]
    /\ GoTo("verify")
    /\ DiskOnly /\ UNCHANGED <<current, rollback>>

\* A failure to write is caught, unlike one of the network.
DownloadFails ==
    /\ sync.pc \in {"download", "body"}
    /\ staging' = NoDir
    /\ EndRun("none")
    /\ DiskOnly /\ UNCHANGED <<current, rollback>>

AcceptsAny(gguf) == TRUE                                     \* mutant
Accepts(gguf) == sync.want \in Unsigned \/ gguf = sync.want

Verify ==
    /\ At("verify")
    /\ IF Accepts(staging.gguf)
       THEN GoTo("stamp") /\ UNCHANGED staging
       ELSE EndRun("none") /\ staging' = NoDir
    /\ DiskOnly /\ UNCHANGED <<current, rollback>>

StampStaging ==
    /\ At("stamp")
    /\ staging' = [staging EXCEPT !.manifest = sync.want]
    /\ GoTo("drop")
    /\ DiskOnly /\ UNCHANGED <<current, rollback>>

DropRollback ==
    /\ At("drop")
    /\ rollback' = NoDir
    /\ GoTo("keep")
    /\ DiskOnly /\ UNCHANGED <<current, staging>>

RemoveCurrent ==                                             \* mutant
    /\ At("keep")
    /\ current' = NoDir
    /\ GoTo("install")
    /\ DiskOnly /\ UNCHANGED <<staging, rollback>>

\* a current without a model is no rollback: it is removed
KeepCurrent ==
    /\ At("keep")
    /\ rollback' = IF HasModel(current) THEN current ELSE rollback
    /\ current' = NoDir
    /\ GoTo("install")
    /\ DiskOnly /\ UNCHANGED staging

Install ==
    /\ At("install")
    /\ current' = staging
    /\ staging' = NoDir
    /\ installed' = TRUE
    /\ GoTo("reload")
    /\ UNCHANGED <<manifest, rollback, server, cuts>>

\* POST /reload; nobody listening is a ConnectError and the model stays
PostReload ==
    /\ At("reload")
    /\ \/ /\ ~server.listening
          /\ EndRun("left")
          /\ UNCHANGED server
       \/ /\ server.listening
          /\ server' = [server EXCEPT !.asked = TRUE]
          /\ GoTo("waiting")
    /\ UNCHANGED <<manifest, dirs, installed, cuts>>

\* _rollback, in its three calls; entered from Reloaded below
RestoreRemovesCurrent ==
    /\ At("restore")
    /\ current' = NoDir
    /\ GoTo("rename")
    /\ DiskOnly /\ UNCHANGED <<staging, rollback>>

RestoreRenames ==
    /\ At("rename")
    /\ current' = rollback
    /\ rollback' = NoDir
    /\ GoTo("ping")
    /\ DiskOnly /\ UNCHANGED staging

RestorePings ==
    /\ At("ping")
    /\ server' = [server EXCEPT !.asked = server.listening]
    /\ EndRun("restored")
    /\ UNCHANGED <<manifest, dirs, installed, cuts>>

\* The run is killed, loses its network or the file system refuses a call:
\* it ends where it is.
RunEnds ==
    /\ ~At("off")
    /\ EndRun("none")
    /\ IF sync.pc \in SwapStages
       THEN cuts < MaxCuts /\ cuts' = cuts + 1
       ELSE UNCHANGED cuts
    /\ IF At("drop") THEN rollback' \in HalfRemoved(rollback) ELSE UNCHANGED rollback
    /\ IF At("restore") THEN current' \in HalfRemoved(current) ELSE UNCHANGED current
    /\ UNCHANGED <<manifest, staging, server, installed>>

SyncNext ==
    \/ StartCheck \/ FetchManifest
    \/ DownloadStarts \/ DownloadEnds \/ DownloadFails
    \/ Verify \/ StampStaging
    \/ DropRollback \/ KeepCurrent \/ Install \/ PostReload
    \/ RestoreRemovesCurrent \/ RestoreRenames \/ RestorePings
    \/ RunEnds

---------------------------------------------------------------------------
(* The LLM server                                                          *)

Answered == At("waiting") /\ ~server.asked   \* the load going on is this run's

\* Start-up opens the model before the port is bound.
ServerStarts ==
    /\ ~server.up
    /\ server' = [ServerDown EXCEPT !.up = TRUE, !.opened = current.gguf]
    /\ UNCHANGED <<manifest, dirs, sync, installed, cuts>>

ServerListens ==
    /\ server.up /\ ~server.listening
    /\ \E llm \in {"none"} \cup (IF Loadable(server.opened) THEN {server.opened} ELSE {}) :
           server' = [server EXCEPT !.listening = TRUE, !.opened = "none", !.llm = llm]
    /\ UNCHANGED <<manifest, dirs, sync, installed, cuts>>

\* A run waiting for its reload loses the connection with the server.
ServerStops ==
    /\ server.up
    /\ server' = ServerDown
    /\ IF At("waiting") THEN EndRun("none") ELSE UNCHANGED sync
    /\ UNCHANGED <<manifest, dirs, installed, cuts>>

ReadVersion == IF current.manifest = "none" THEN "unknown" ELSE current.manifest

\* The first /ask after a start reads the version it logs from the disk.
AskLogsVersion ==
    /\ server.listening /\ ~server.busy /\ server.llm # "none"
    /\ server.cached = "none"
    /\ server' = [server EXCEPT !.cached = ReadVersion]
    /\ UNCHANGED <<manifest, dirs, sync, installed, cuts>>

\* 500 and 400 leave the run as an uncaught HTTPStatusError.
ReloadRefused == IF Answered THEN EndRun("refused") ELSE UNCHANGED sync

ReloadBegins ==
    /\ server.listening /\ server.asked /\ ~server.busy
    /\ HasModel(current)
    /\ server' = [server EXCEPT !.asked = FALSE, !.busy = TRUE,
                                !.opened = current.gguf, !.llm = "none"]
    /\ UNCHANGED <<manifest, dirs, sync, installed, cuts>>

ReloadFindsNoModel ==
    /\ server.listening /\ server.asked /\ ~server.busy
    /\ ~HasModel(current)
    /\ server' = [server EXCEPT !.asked = FALSE]
    /\ IF At("waiting") THEN EndRun("refused") ELSE UNCHANGED sync
    /\ UNCHANGED <<manifest, dirs, installed, cuts>>

\* The 200 answer: the run ends, or its body does not parse and the run
\* restores the previous model if there is one.
Reloaded ==
    IF ~Answered THEN UNCHANGED sync
    ELSE \/ EndRun("reloaded")
         \/ IF HasModel(rollback) THEN GoTo("restore") ELSE EndRun("left")

LoadedKeepsVersion ==                                        \* mutant
    [server EXCEPT !.busy = FALSE, !.opened = "none", !.llm = server.opened]
Loaded == [server EXCEPT !.busy = FALSE, !.opened = "none",
                         !.llm = server.opened, !.cached = ReadVersion]

ReloadSucceeds ==
    /\ server.busy /\ Loadable(server.opened)
    /\ server' = Loaded
    /\ Reloaded
    /\ UNCHANGED <<manifest, dirs, installed, cuts>>

ReloadFails ==
    /\ server.busy
    /\ server' = [server EXCEPT !.busy = FALSE, !.opened = "none"]
    /\ ReloadRefused
    /\ UNCHANGED <<manifest, dirs, installed, cuts>>

ServerNext ==
    \/ ServerStarts \/ ServerListens \/ ServerStops
    \/ AskLogsVersion
    \/ ReloadBegins \/ ReloadFindsNoModel \/ ReloadSucceeds \/ ReloadFails

\* A deployment, or a rollback to an earlier version, at the centre.
Publish ==
    /\ manifest' \in Versions \ {manifest}
    /\ UNCHANGED <<dirs, sync, server, installed, cuts>>

Next == SyncNext \/ ServerNext \/ Publish

Spec == Init /\ [][Next]_vars

---------------------------------------------------------------------------
(* What the machine promises (ModelSlot).  Between the two renames the      *)
(* model is on its way: it is the one in rollback.                          *)

Model(d) == IF HasModel(d) THEN [gguf |-> d.gguf, manifest |-> d.manifest]
            ELSE [gguf |-> "none", manifest |-> "none"]
Moving == sync.pc \in {"install", "rename"}
SlotNow == IF Moving THEN Model(rollback) ELSE Model(current)
SpareNow == IF Moving THEN Model(NoDir) ELSE Model(rollback)

Slot == INSTANCE ModelSlot
        WITH slot <- SlotNow, spare <- SpareNow, opened <- server.opened, hurt <- cuts > 0

\* Whatever the file calls in between, a model is replaced at once by a verified
\* one of another version, going back brings the one that was replaced, and the
\* server opens nothing else; only a cut leaves less (check_and_update 92-137,
\* _rollback, startup and reload of the server).
KeepsSlot == Slot!Spec

---------------------------------------------------------------------------
(* Properties                                                              *)

\* Every variable stays in its set.
TypeOK ==
    /\ manifest \in Versions
    /\ current \in Dirs /\ staging \in Dirs /\ rollback \in Dirs
    /\ sync \in SyncStates
    /\ server \in ServerStates
    /\ installed \in BOOLEAN
    /\ cuts \in 0..MaxCuts

\* Whatever crashes a run suffered, a directory the server can load from names
\* the version of the bytes it holds, unless its manifest has no checksum: the
\* staging directory an earlier run left behind never gets into current with a
\* manifest that is not its own (check_and_update, 92-127).
InstalledIsVerified ==
    \A d \in {current, rollback} :
        HasModel(d) /\ d.manifest \in Versions \ Unsigned => d.gguf = d.manifest

\* The rollback directory holds an earlier model, never a second copy of the
\* current one: going back changes something (check_and_update, 80-84 and
\* 119-127, _rollback).
RollbackIsEarlier ==
    HasModel(current) /\ HasModel(rollback) /\ current.manifest \in Versions
        => current.manifest # rollback.manifest

\* An edge that once had a model never loses its last whole one to a single
\* run cut short in the swap, wherever it is cut and whatever the later runs
\* find (check_and_update, 119-127).  Two such runs can lose it: the next run
\* drops rollback although current is missing, and the one after that
\* overwrites staging.
LastModelKept ==
    installed /\ cuts <= 1 => \E d \in {current, staging, rollback} : Whole(d)

\* A run that reports "Server reloaded" leaves the server answering with the
\* version the run installed, under that version's name in the query log, even
\* when reloads that earlier runs gave up waiting for are still being worked
\* off (check_and_update 132-137, reload_model).
ReloadedServesIt ==
    [][sync.result # "reloaded" /\ sync'.result = "reloaded"
         => server'.llm = sync.want /\ server'.cached = sync.want]_vars

\* Claim of the comment on the reload's except clause: a server that is up but
\* fails to reload may be unable to load the new model, and the previous one is
\* restored when rollback holds it.  The code lets the error answer escape.
FailedReloadIsRolledBack ==
    At("off") /\ sync.result = "refused" => ~HasModel(rollback)
=============================================================================
