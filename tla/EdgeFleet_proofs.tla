------------------------- MODULE EdgeFleet_proofs -------------------------
(***************************************************************************)
(* Proofs about EdgeFleet for any versions, names and number of faults.    *)
(***************************************************************************)
EXTENDS EdgeFleet, TLAPS

---------------------------------------------------------------------------
(* The records                                                             *)

LEMMA OffType == Off \in Runs
  BY DEF Off, Runs, Stages, Files, Maybe, Causes

LEMMA RunMoves ==
    ASSUME NEW r \in Runs, NEW pc \in Stages
    PROVE  [r EXCEPT !.pc = pc] \in Runs
  BY DEF Runs

LEMMA RunMovesTo ==
    ASSUME NEW r \in Runs, NEW pc \in Stages, NEW f \in Files
    PROVE  [r EXCEPT !.pc = pc, !.file = f] \in Runs
  BY DEF Runs

LEMMA NextFileType ==
    ASSUME run \in Runs, NEW stage \in Stages, NEW next \in Stages
    PROVE  NextFile(stage, next) \in Runs
  <1>1. "sync.py" \in Files /\ "server.py" \in Files
    BY DEF Files
  <1> QED  BY <1>1, RunMovesTo DEF NextFile

LEMMA RestoredType ==
    ASSUME run \in Runs
    PROVE  Restored \in Runs
  <1>1. "unlink" \in Stages /\ "again" \in Stages
    BY DEF Stages
  <1> QED  BY <1>1, NextFileType, RunMoves, OffType DEF Restored

LEMMA RestoreType ==
    ASSUME run \in Runs, NEW cause \in Causes, Restore(cause)
    PROVE  run' \in Runs
  <1>1. "unlink" \in Stages /\ "server.py" \in Files
    BY DEF Stages, Files
  <1> QED  BY <1>1 DEF Restore, Runs

LEMMA StartServerType ==
    ASSUME TypeOK, StartServer
    PROVE  server' \in [code : Maybe, listening : BOOLEAN]
  <1>1. "server.py" \in Files
    BY DEF Files
  <1>2. target["server.py"] \in Maybe
    BY <1>1 DEF TypeOK
  <1>3. PICK code \in Started : server' = [code |-> code, listening |-> FALSE]
    BY DEF StartServer
  <1>4. code \in Maybe
    BY <1>2, <1>3 DEF Started, Maybe
  <1> QED  BY <1>3, <1>4

LEMMA RowFlags ==
    ASSUME NEW r \in Rows, NEW m \in BOOLEAN, NEW a \in BOOLEAN
    PROVE  [r EXCEPT !.model = m, !.app = a] \in Rows
  BY DEF Rows

LEMMA RowReports ==
    ASSUME NEW r \in Rows, NEW o \in BOOLEAN, NEW m \in BOOLEAN, NEW a \in BOOLEAN
    PROVE  [r EXCEPT !.online = o, !.model = m, !.app = a] \in Rows
  BY DEF Rows

LEMMA RunGets ==
    ASSUME NEW r \in Runs, NEW f \in Files, NEW v \in Maybe
    PROVE  [r EXCEPT !.got[f] = v] \in Runs
  BY DEF Runs

LEMMA RunKeeps ==
    ASSUME NEW r \in Runs, NEW pc \in Stages, NEW f \in Files
    PROVE  [r EXCEPT !.pc = pc, !.backups = r.backups \cup {f}] \in Runs
  BY DEF Runs

LEMMA AnsweredType ==
    ASSUME run \in Runs, NEW model \in BOOLEAN, NEW app \in BOOLEAN, Answered(model, app)
    PROVE  run' \in Runs
  <1>1. "model" \in Stages /\ "app" \in Stages
    BY DEF Stages
  <1>2. CASE model
    <2>1. run' = [run EXCEPT !.pc = "model", !.app = app]
      BY <1>2 DEF Answered
    <2> QED  BY <1>1, <2>1 DEF Runs
  <1>3. CASE ~model /\ app
    <2>1. run' = [run EXCEPT !.pc = "app", !.app = TRUE]
      BY <1>3 DEF Answered
    <2> QED  BY <1>1, <2>1 DEF Runs
  <1>4. CASE ~model /\ ~app
    BY <1>4, OffType DEF Answered
  <1> QED  BY <1>2, <1>3, <1>4

LEMMA SetFlagsType ==
    ASSUME TypeOK, NEW type \in Types, SetFlags(type)
    PROVE  TypeOK'
  <1>1. row' \in Rows
    <2> DEFINE m == row.model \/ type \in {"model", "both"}
               a == row.app \/ type \in {"app", "both"}
    <2>1. m \in BOOLEAN /\ a \in BOOLEAN
      OBVIOUS
    <2>2. row' = [row EXCEPT !.model = m, !.app = a]
      BY DEF SetFlags
    <2>3. row \in Rows
      BY DEF TypeOK
    <2> HIDE DEF m, a
    <2> QED  BY <2>1, <2>2, <2>3, RowFlags
  <1>2. asked' \in BOOLEAN /\ missed' \in BOOLEAN
    <2>1. CASE type = "model"
      BY <2>1 DEF SetFlags, requests, TypeOK
    <2>2. CASE type # "model"
      <3>1. asked' = TRUE /\ missed' = (hb.busy /\ ~hb.app)
        BY <2>2 DEF SetFlags
      <3>2. (hb.busy /\ ~hb.app) \in BOOLEAN
        OBVIOUS
      <3> QED  BY <3>1, <3>2
    <2> QED  BY <2>1, <2>2
  <1> QED
    BY <1>1, <1>2 DEF SetFlags, Edge, local, disk, TypeOK

---------------------------------------------------------------------------
(* What a run knows of the files                                           *)

Swapping == run.pc \in {"drop", "keep", "place"}
OnServer == run.file = "server.py"

\* What the run has yet to put in place is whole, and is what it downloaded.
DownloadedInv ==
    /\ run.pc \in {"collect", "post", "answer", "model", "app"} => OnServer
    /\ At("stage") /\ run.file = "sync.py" =>
           new["server.py"] \in Versions /\ new["server.py"] = run.got["server.py"]
    /\ Swapping =>
           /\ new[run.file] \in Versions /\ new[run.file] = run.got[run.file]
           /\ run.file = "server.py" =>
                  new["sync.py"] \in Versions /\ new["sync.py"] = run.got["sync.py"]

\* Between the two renames of a swap or of a restore the other copy is there.
CopiesInv ==
    /\ SomeCopyKept
    /\ At("keep") => target[run.file] # "none"
    /\ At("rename") => bak[run.file] # "none"
    /\ Swapping /\ run.file = "sync.py" => target["server.py"] # "none"
    /\ run.pc \in {"restart", "health", "clean"} => \A f \in Files : target[f] # "none"

\* What is in place when the version is written, and what the server runs.
InstalledInv ==
    /\ Swapping /\ run.file = "sync.py" => target["server.py"] = run.got["server.py"]
    /\ run.pc \in {"restart", "health", "clean", "stamp"} =>
           \A f \in Files : target[f] = run.got[f]
    /\ run.pc \in {"health", "clean", "stamp"} => server.code \in {"none", target["server.py"]}
    /\ run.pc \in {"clean", "stamp"} => target["server.py"] \notin Sick \cup Broken
    /\ server.listening => server.code # "none"
    /\ server.code \notin Broken \ Sick

Good == Versions \ (Broken \cup Sick)

\* Stages at which the server runs, if anything, what is in place; at which that
\* works; and at which the .bak does.
AsPlaced ==
    \/ run.pc \in {"off", "collect", "post", "answer", "model", "app", "stage",
                  "health", "clean", "stamp"}
    \/ run.pc \in {"drop", "keep"} /\ OnServer

TargetWorks ==
    \/ run.pc \in {"post", "answer", "model", "app", "stage", "again", "clean", "stamp"}
    \/ run.pc \in {"drop", "keep"} /\ OnServer
    \/ run.pc \in {"unlink", "rename"} /\ ~OnServer

BakWorks ==
    \/ Swapping /\ ~OnServer
    \/ run.pc \in {"place", "restart", "health"}
    \/ At("unlink") /\ OnServer

\* Without faults: where a server.py that works is, stage by stage.
WorkingInv ==
    faults = 0 =>
        /\ WorkingCopyKept
        /\ AsPlaced => server.code \in {"none", target["server.py"]}
        /\ TargetWorks => target["server.py"] \in Good
        /\ BakWorks => bak["server.py"] \in Good /\ "server.py" \in run.backups
        /\ run.pc \in {"unlink", "rename"} => run.cause = "health"
        /\ At("rename") /\ OnServer => bak["server.py"] \in Good

\* Where a request is, and what the heartbeat under way knows of it.
RequestInv ==
    /\ RequestKept
    /\ run.app => run.pc \in {"model", "app"}
    /\ hb.app => hb.busy
    /\ hb.busy /\ ~hb.app /\ row.app /\ asked => missed
    /\ hb.app /\ asked => row.app
    /\ row.app => row.exists

FleetInv == TypeOK /\ DownloadedInv /\ CopiesInv /\ InstalledInv /\ WorkingInv /\ RequestInv

---------------------------------------------------------------------------
(* What a step makes of the run where it may go several ways               *)

LEMMA CommitRun ==
    ASSUME TypeOK, CommitHeartbeat
    PROVE  run' = run \/ (At("answer") /\ run'.pc \in {"model", "app", "off"}
                                     /\ run'.file \in {run.file, "server.py"})
<1>1. CASE ~At("answer")
  BY <1>1 DEF CommitHeartbeat
<1>2. CASE At("answer")
  <2>1. Answered(hb.model, hb.app)
    BY <1>2 DEF CommitHeartbeat
  <2>2. PICK b : \/ run' = [run EXCEPT !.pc = "model", !.app = b]
                 \/ run' = [run EXCEPT !.pc = "app", !.app = b]
                 \/ run' = Off
    BY <2>1, Zenon DEF Answered
  <2>3. run \in Runs
    BY DEF TypeOK
  <2>4. run'.pc \in {"model", "app", "off"} /\ run'.file \in {run.file, "server.py"}
    <3>1. CASE run' = Off
      BY <3>1 DEF Off
    <3>2. CASE run' = [run EXCEPT !.pc = "model", !.app = b]
      BY <2>3, <3>2 DEF Runs
    <3>3. CASE run' = [run EXCEPT !.pc = "app", !.app = b]
      BY <2>3, <3>3 DEF Runs
    <3> QED  BY <2>2, <3>1, <3>2, <3>3
  <2> QED  BY <1>2, <2>4
<1> QED  BY <1>1, <1>2

LEMMA HealthRun ==
    ASSUME TypeOK, Health
    PROVE  \/ run' = Off
           \/ run' = [run EXCEPT !.pc = "unlink", !.file = "server.py", !.cause = "health"]
              /\ server.code \in Sick
           \/ run' = [run EXCEPT !.pc = "clean", !.file = "server.py"]
              /\ server.listening /\ server.code \notin Sick
<1>1. CASE ~server.listening
  BY <1>1 DEF Health
<1>2. CASE server.listening /\ server.code \in Sick
  BY <1>2 DEF Health, Restore
<1>3. CASE server.listening /\ server.code \notin Sick
  BY <1>3 DEF Health
<1> QED  BY <1>1, <1>2, <1>3

LEMMA RestoredRun ==
    ASSUME run \in Runs
    PROVE  Restored.pc \in {"unlink", "again", "off"}
BY DEF Restored, NextFile, Off, Runs, Files

LEMMA SetFlagsKeeps ==
    ASSUME TypeOK, RequestInv, row.exists, NEW type \in Types, SetFlags(type)
    PROVE  RequestInv'
<1>1. UNCHANGED <<hb, run>> /\ row'.exists = row.exists
  BY DEF SetFlags, Edge, TypeOK, Rows
<1>2. CASE type = "model"
  <2>1. UNCHANGED <<asked, missed>>
    BY <1>2 DEF SetFlags, requests
  <2>2. row'.app = row.app
    BY <1>2 DEF SetFlags, TypeOK, Rows
  <2> QED
    BY <1>1, <2>1, <2>2, Zenon DEF RequestInv, RequestKept, At
<1>3. CASE type # "model"
  <2>1. missed' = (hb.busy /\ ~hb.app)
    BY <1>3 DEF SetFlags
  <2>2. row'.app = TRUE
    BY <1>3 DEF SetFlags, TypeOK, Rows, Types
  <2> QED
    BY <1>1, <2>1, <2>2, Zenon DEF RequestInv, RequestKept, At
<1> QED  BY <1>2, <1>3

LEMMA AnsweredRun ==
    ASSUME run \in Runs, NEW model \in BOOLEAN, NEW app \in BOOLEAN, Answered(model, app)
    PROVE  /\ run'.app => run'.pc \in {"model", "app"}
           /\ app => run'.app
<1>1. CASE model
  <2>1. run' = [run EXCEPT !.pc = "model", !.app = app]
    BY <1>1 DEF Answered
  <2>2. run'.pc = "model" /\ run'.app = app
    BY <2>1 DEF Runs
  <2> QED  BY <2>2
<1>2. CASE ~model /\ app
  <2>1. run' = [run EXCEPT !.pc = "app", !.app = TRUE]
    BY <1>2 DEF Answered
  <2>2. run'.pc = "app" /\ run'.app = TRUE
    BY <2>1 DEF Runs
  <2> QED  BY <2>2
<1>3. CASE ~model /\ ~app
  <2>1. run'.app = FALSE
    BY <1>3 DEF Answered, Off
  <2> QED  BY <1>3, <2>1
<1> QED  BY <1>1, <1>2, <1>3

LEMMA RestoredApp ==
    ASSUME run \in Runs
    PROVE  Restored.app \in {run.app, FALSE}
BY DEF Restored, NextFile, Off, Runs

LEMMA TypeStep ==
    ASSUME TypeOK, DownloadedInv, [Next]_vars
    PROVE  TypeOK'
<1>1. CASE DeployFiles
  BY <1>1 DEF DeployFiles, Edge, local, disk, requests, TypeOK
<1>2. CASE SetAppVersion
  BY <1>2 DEF SetAppVersion, Edge, local, disk, requests, TypeOK
<1>3. CASE Register
  BY <1>3 DEF Register, Edge, local, disk, requests, NewRow, Rows, TypeOK
<1>4. CASE DeleteServer
  BY <1>4 DEF DeleteServer, Edge, local, disk, requests, NewRow, Rows, TypeOK
<1>5. CASE RequestUpdate
  BY <1>5, SetFlagsType DEF RequestUpdate
<1>6. CASE BulkRequestUpdate
  BY <1>6, SetFlagsType DEF BulkRequestUpdate
<1>7. CASE MarkStale
  BY <1>7 DEF MarkStale, Edge, local, disk, requests, Rows, TypeOK
<1>8. CASE CommitHeartbeat
  <2>1. PICK online \in BOOLEAN :
            row' = IF ~row.exists THEN row
                   ELSE [row EXCEPT !.online = online, !.model = FALSE, !.app = FALSE]
    BY <1>8 DEF CommitHeartbeat
  <2>2. row' \in Rows
    BY <2>1, RowReports DEF TypeOK
  <2>3. hb' = NoHeartbeat
    BY <1>8 DEF CommitHeartbeat
  <2>4. run' \in Runs /\ missed' \in BOOLEAN
    <3>1. CASE At("answer")
      <4>1. Answered(hb.model, hb.app) /\ missed' = missed
        BY <1>8, <3>1 DEF CommitHeartbeat
      <4>2. hb.model \in BOOLEAN /\ hb.app \in BOOLEAN
        BY DEF TypeOK
      <4> QED  BY <4>1, <4>2, AnsweredType DEF TypeOK
    <3>2. CASE ~At("answer")
      <4>1. run' = run /\ missed' = (missed \/ hb.app)
        BY <1>8, <3>2 DEF CommitHeartbeat
      <4>2. (missed \/ hb.app) \in BOOLEAN
        OBVIOUS
      <4> QED  BY <4>1, <4>2 DEF TypeOK
    <3> QED  BY <3>1, <3>2
  <2> QED
    BY <1>8, <2>2, <2>3, <2>4 DEF CommitHeartbeat, NoHeartbeat, local, disk, TypeOK
<1>9. CASE HeartbeatFails
  BY <1>9, FleetAssumption, OffType DEF HeartbeatFails, local, disk, requests,
      NoHeartbeat, Fault, TypeOK
<1>10. CASE StartRun
  BY <1>10, OffType, RunMoves DEF StartRun, OnlyRun, central, local, disk, requests,
      Stages, TypeOK
<1>11. CASE Collect
  <2>1. "post" \in Stages
    BY DEF Stages
  <2>2. run \in Runs
    BY DEF TypeOK
  <2>3. run' = [run EXCEPT !.pc = "post"] \/ run' = Off
    BY <1>11, Zenon DEF Collect, GoTo
  <2>4. run' \in Runs
    BY <2>1, <2>2, <2>3, RunMoves, OffType
  <2> QED  BY <1>11, <2>4 DEF Collect, OnlyRun, central, local, disk, requests, TypeOK
<1>12. CASE PostHeartbeat
  <2>1. "answer" \in Stages /\ run \in Runs
    BY DEF Stages, TypeOK
  <2>2. CASE row.exists
    <3>1. hb' = [busy |-> TRUE, model |-> row.model, app |-> row.app]
          /\ run' = [run EXCEPT !.pc = "answer"]
      BY <1>12, <2>2 DEF PostHeartbeat, GoTo
    <3>2. row.model \in BOOLEAN /\ row.app \in BOOLEAN
      BY DEF TypeOK, Rows
    <3> QED
      BY <1>12, <2>1, <3>1, <3>2, RunMoves DEF PostHeartbeat, local, disk, requests,
          TypeOK
  <2>3. CASE ~row.exists
    <3>1. hb' = hb /\ run' = Off
      BY <1>12, <2>3 DEF PostHeartbeat
    <3> QED
      BY <1>12, <3>1, OffType DEF PostHeartbeat, local, disk, requests, TypeOK
  <2> QED  BY <2>2, <2>3
<1>13. CASE ModelChecked
  <2>1. "app" \in Stages /\ run \in Runs
    BY DEF Stages, TypeOK
  <2>2. run' = [run EXCEPT !.pc = "app"] \/ run' = Off
    BY <1>13, Zenon DEF ModelChecked, GoTo
  <2>3. run' \in Runs
    BY <2>1, <2>2, RunMoves, OffType
  <2> QED  BY <1>13, <2>3 DEF ModelChecked, OnlyRun, central, local, disk, requests, TypeOK
<1>14. CASE ReadVersions
  <2>1. PICK want \in {centre.named, "none"} :
            /\ want # centre.named => faults < MaxFaults
            /\ faults' = IF want # centre.named THEN faults + 1 ELSE faults
            /\ run' = IF want # "none" /\ want = stamp THEN Off
                      ELSE [run EXCEPT !.pc = "stage", !.app = FALSE, !.want = want]
    BY <1>14 DEF ReadVersions
  <2>2. faults' \in 0..MaxFaults
    BY <2>1, FleetAssumption DEF TypeOK
  <2>3. want \in Names \cup {"none"} /\ run \in Runs /\ "stage" \in Stages
    BY <2>1 DEF Stages, TypeOK
  <2>4. [run EXCEPT !.pc = "stage", !.app = FALSE, !.want = want] \in Runs
    BY <2>3 DEF Runs
  <2>5. run' \in Runs
    BY <2>1, <2>4, OffType
  <2> QED
    BY <1>14, <2>2, <2>5 DEF ReadVersions, central, local, disk, TypeOK
<1>15. CASE Download
  <2>1. run.file \in Files /\ run \in Runs /\ "stage" \in Stages /\ "drop" \in Stages
    BY DEF Runs, Stages, TypeOK
  <2>2. centre.files \in Maybe /\ centre.files \in Maybe \cup {"partial"}
    BY DEF TypeOK, Maybe
  <2>3. run' \in Runs
    BY <1>15, <2>1, <2>2, NextFileType, RunGets DEF Download
  <2>4. new' \in [Files -> Maybe \cup {"partial"}]
    BY <1>15, <2>1, <2>2 DEF Download, TypeOK
  <2> QED
    BY <1>15, <2>3, <2>4 DEF Download, DiskOnly, central, requests, TypeOK
<1>16. CASE DownloadFails
  <2>1. new' \in [Files -> Maybe \cup {"partial"}]
    BY <1>16 DEF DownloadFails, TypeOK, Maybe
  <2> QED
    BY <1>16, <2>1, OffType, FleetAssumption DEF DownloadFails, Fault, DiskOnly,
        central, requests, TypeOK
<1>17. CASE SwapDropsBak
  <2>1. run.file \in Files /\ run \in Runs /\ "keep" \in Stages /\ "place" \in Stages
    BY DEF Runs, Stages, TypeOK
  <2>2. bak' = bak \/ bak' = [bak EXCEPT ![run.file] = "none"]
    BY <1>17 DEF SwapDropsBak
  <2>3. bak' \in [Files -> Maybe]
    BY <2>1, <2>2 DEF TypeOK, Maybe
  <2>4. run' \in Runs
    BY <1>17, <2>1, RunMoves DEF SwapDropsBak, GoTo
  <2> QED
    BY <1>17, <2>3, <2>4 DEF SwapDropsBak, DiskOnly, central, requests, TypeOK
<1>18. CASE SwapKeeps
  <2>1. run.file \in Files /\ run \in Runs /\ "place" \in Stages
    BY DEF Runs, Stages, TypeOK
  <2>2. run' = [run EXCEPT !.pc = "place", !.backups = run.backups \cup {run.file}]
    BY <1>18 DEF SwapKeeps
  <2>3. run' \in Runs
    BY <2>1, <2>2, RunKeeps
  <2>4. target' \in [Files -> Maybe] /\ bak' \in [Files -> Maybe]
    BY <1>18, <2>1 DEF SwapKeeps, TypeOK, Maybe
  <2> QED
    BY <1>18, <2>3, <2>4 DEF SwapKeeps, DiskOnly, central, requests, TypeOK
<1>19. CASE SwapPlaces
  <2>1. run.file \in Files /\ "drop" \in Stages /\ "restart" \in Stages /\ run \in Runs
    BY DEF Runs, Stages, TypeOK
  <2>2. run' \in Runs
    BY <1>19, <2>1, NextFileType DEF SwapPlaces
  <2>3. new[run.file] \in Maybe
    BY <1>19, <2>1 DEF SwapPlaces, DownloadedInv, OnServer, Swapping, At, Maybe
  <2>4. target' \in [Files -> Maybe]
    BY <1>19, <2>1, <2>3 DEF SwapPlaces, TypeOK
  <2>5. new' \in [Files -> Maybe \cup {"partial"}]
    BY <1>19, <2>1 DEF SwapPlaces, TypeOK, Maybe
  <2> QED
    BY <1>19, <2>2, <2>4, <2>5 DEF SwapPlaces, DiskOnly, central, requests, TypeOK
<1>20. CASE SwapFails
  BY <1>20, FleetAssumption, RestoreType DEF SwapFails, central, local, disk, requests,
      Causes, Fault, TypeOK
<1>21. CASE Restart
  BY <1>21, RunMoves, StartServerType DEF Restart, central, disk, requests, Stages, At,
      GoTo, TypeOK
<1>22. CASE RestartFails
  BY <1>22, FleetAssumption, RestoreType DEF RestartFails, central, local, disk,
      requests, Causes, Fault, TypeOK
<1>23. CASE Health
  <2>1. "clean" \in Stages /\ "server.py" \in Files /\ "health" \in Causes /\ run \in Runs
    BY DEF Stages, Files, Causes, TypeOK
  <2>2. CASE ~server.listening
    <3>1. run' = Off
      BY <1>23, <2>2 DEF Health
    <3> QED  BY <1>23, <3>1, OffType DEF Health, OnlyRun, central, local, disk, requests, TypeOK
  <2>3. CASE server.listening /\ server.code \in Sick
    <3>1. Restore("health")
      BY <1>23, <2>3 DEF Health
    <3>2. run' \in Runs
      BY <2>1, <3>1, RestoreType
    <3> QED  BY <1>23, <3>2 DEF Health, OnlyRun, central, local, disk, requests, TypeOK
  <2>4. CASE server.listening /\ server.code \notin Sick
    <3>1. run' = [run EXCEPT !.pc = "clean", !.file = "server.py"]
      BY <1>23, <2>4 DEF Health
    <3>2. run' \in Runs
      BY <2>1, <3>1, RunMovesTo
    <3> QED  BY <1>23, <3>2 DEF Health, OnlyRun, central, local, disk, requests, TypeOK
  <2> QED  BY <2>2, <2>3, <2>4
<1>24. CASE RestoreUnlinks
  <2>1. run.file \in Files /\ run \in Runs /\ "rename" \in Stages
    BY DEF Runs, Stages, TypeOK
  <2>2. run' \in Runs
    BY <1>24, <2>1, RestoredType, RunMoves DEF RestoreUnlinks, GoTo
  <2>3. target' \in [Files -> Maybe]
    BY <1>24, <2>1 DEF RestoreUnlinks, TypeOK, Maybe
  <2>4. new' \in [Files -> Maybe \cup {"partial"}]
    BY <1>24 DEF RestoreUnlinks, DropNew, TypeOK, Maybe
  <2> QED
    BY <1>24, <2>2, <2>3, <2>4 DEF RestoreUnlinks, DiskOnly, central, requests, TypeOK
<1>25. CASE RestoreRenames
  BY <1>25, RestoredType DEF RestoreRenames, DiskOnly, central, requests, DropNew,
      Maybe, TypeOK
<1>26. CASE RestoreSkips
  BY <1>26, FleetAssumption, RestoredType DEF RestoreSkips, central, local, disk,
      requests, Fault, TypeOK
<1>27. CASE RestartAgain
  BY <1>27, OffType, StartServerType DEF RestartAgain, central, disk, requests, TypeOK
<1>28. CASE CleanBak
  <2>1. run.file \in Files /\ "clean" \in Stages /\ "stamp" \in Stages /\ run \in Runs
    BY DEF Runs, Stages, TypeOK
  <2>2. run' \in Runs
    BY <1>28, <2>1, NextFileType DEF CleanBak
  <2>3. bak' \in [Files -> Maybe]
    BY <1>28, <2>1 DEF CleanBak, TypeOK, Maybe
  <2> QED
    BY <1>28, <2>2, <2>3 DEF CleanBak, DiskOnly, central, requests, TypeOK
<1>29. CASE Stamp
  BY <1>29, OffType DEF Stamp, central, disk, requests, Runs, TypeOK
<1>30. CASE RunEnds
  BY <1>30, FleetAssumption, OffType DEF RunEnds, central, Fault, TypeOK
<1>31. CASE ServerStarts
  BY <1>31, StartServerType DEF ServerStarts, OnlyServer, central, disk, requests,
      TypeOK
<1>32. CASE ServerListens
  BY <1>32 DEF ServerListens, OnlyServer, central, disk, requests, TypeOK
<1>33. CASE ServerStops
  <2>1. "none" \in Maybe
    BY DEF Maybe
  <2> QED
    BY <1>33, <2>1, FleetAssumption DEF ServerStops, Fault, OnlyServer, central, disk,
        requests, TypeOK
<1>34. CASE UNCHANGED vars
  BY <1>34 DEF vars, central, local, disk, requests, TypeOK
<1> QED
  BY <1>1, <1>2, <1>3, <1>4, <1>5, <1>6, <1>7, <1>8, <1>9, <1>10, <1>11, <1>12,
     <1>13, <1>14, <1>15, <1>16, <1>17, <1>18, <1>19, <1>20, <1>21, <1>22, <1>23, <1>24,
     <1>25, <1>26, <1>27, <1>28, <1>29, <1>30, <1>31, <1>32, <1>33, <1>34
     DEF Next, CentreNext, UpdateNext

LEMMA DownloadedStep ==
    ASSUME TypeOK, DownloadedInv, [Next]_vars
    PROVE  DownloadedInv'
<1>1. CASE DeployFiles
  BY <1>1 DEF DeployFiles, Edge, local, disk, DownloadedInv, OnServer, Swapping, At
<1>2. CASE SetAppVersion
  BY <1>2 DEF SetAppVersion, Edge, local, disk, DownloadedInv, OnServer, Swapping, At
<1>3. CASE Register
  BY <1>3 DEF Register, Edge, local, disk, DownloadedInv, OnServer, Swapping, At
<1>4. CASE DeleteServer
  BY <1>4 DEF DeleteServer, Edge, local, disk, DownloadedInv, OnServer, Swapping, At
<1>5. CASE RequestUpdate
  BY <1>5 DEF RequestUpdate, SetFlags, Edge, local, disk, DownloadedInv, OnServer,
      Swapping, At
<1>6. CASE BulkRequestUpdate
  BY <1>6 DEF BulkRequestUpdate, SetFlags, Edge, local, disk, DownloadedInv, OnServer,
      Swapping, At
<1>7. CASE MarkStale
  BY <1>7 DEF MarkStale, Edge, local, disk, DownloadedInv, OnServer, Swapping, At
<1>8. CASE CommitHeartbeat
  <2>1. UNCHANGED <<target, bak, new, server>>
    BY <1>8 DEF CommitHeartbeat, local, disk
  <2>2. CASE run' = run
    BY <2>1, <2>2 DEF DownloadedInv, OnServer, Swapping, At
  <2>3. CASE run' # run
    BY <1>8, <2>1, <2>3, CommitRun DEF DownloadedInv, OnServer, Swapping, At
  <2> QED  BY <2>2, <2>3
<1>9. CASE HeartbeatFails
  BY <1>9 DEF HeartbeatFails, local, disk, Off, Fault, DownloadedInv, OnServer,
      Swapping, At
<1>10. CASE StartRun
  BY <1>10 DEF StartRun, OnlyRun, local, disk, Off, DownloadedInv, OnServer, Swapping,
      At
<1>11. CASE Collect
  BY <1>11 DEF Collect, OnlyRun, local, disk, GoTo, Off, DownloadedInv, OnServer,
      Swapping, At, TypeOK, Runs
<1>12. CASE PostHeartbeat
  BY <1>12 DEF PostHeartbeat, local, disk, GoTo, Off, DownloadedInv, OnServer, Swapping,
      At, TypeOK, Runs
<1>13. CASE ModelChecked
  BY <1>13 DEF ModelChecked, OnlyRun, local, disk, GoTo, Off, DownloadedInv, OnServer,
      Swapping, At, TypeOK, Runs
<1>14. CASE ReadVersions
  BY <1>14 DEF ReadVersions, local, disk, Off, DownloadedInv, OnServer, Swapping, At
<1>15. CASE Download
  BY <1>15 DEF Download, DiskOnly, NextFile, DownloadedInv, OnServer, Swapping, At,
      TypeOK, Runs, Files
<1>16. CASE DownloadFails
  BY <1>16 DEF DownloadFails, DiskOnly, Off, Fault, DownloadedInv, OnServer, Swapping,
      At
<1>17. CASE SwapDropsBak
  BY <1>17 DEF SwapDropsBak, DiskOnly, GoTo, DownloadedInv, OnServer, Swapping, At,
      TypeOK, Runs
<1>18. CASE SwapKeeps
  BY <1>18 DEF SwapKeeps, DiskOnly, DownloadedInv, OnServer, Swapping, At
<1>19. CASE SwapPlaces
  BY <1>19 DEF SwapPlaces, DiskOnly, NextFile, DownloadedInv, OnServer, Swapping, At
<1>20. CASE SwapFails
  BY <1>20 DEF SwapFails, local, disk, Restore, Fault, DownloadedInv, OnServer,
      Swapping, At
<1>21. CASE Restart
  BY <1>21 DEF Restart, disk, GoTo, DownloadedInv, OnServer, Swapping, At
<1>22. CASE RestartFails
  BY <1>22 DEF RestartFails, local, disk, Restore, Fault, DownloadedInv, OnServer,
      Swapping, At
<1>23. CASE Health
  <2>1. UNCHANGED <<target, bak, new, server>>
    BY <1>23 DEF Health, OnlyRun, local, disk
  <2>2. run \in Runs /\ At("health")
    BY <1>23 DEF Health, TypeOK
  <2>3. CASE run' = Off
    BY <2>1, <2>3 DEF DownloadedInv, OnServer, Swapping, At, Off
  <2>4. CASE run' = [run EXCEPT !.pc = "unlink", !.file = "server.py", !.cause = "health"]
    BY <2>1, <2>2, <2>4 DEF DownloadedInv, OnServer, Swapping, At, Runs
  <2>5. CASE /\ run' = [run EXCEPT !.pc = "clean", !.file = "server.py"]
             /\ server.listening /\ server.code \notin Sick
    BY <2>1, <2>2, <2>5 DEF DownloadedInv, OnServer, Swapping, At, Runs, Files
  <2> QED  BY <1>23, <2>3, <2>4, <2>5, HealthRun
<1>24. CASE RestoreUnlinks
  <2>1. UNCHANGED <<bak, server>> /\ run \in Runs /\ At("unlink") /\ run.file \in Files
    BY <1>24 DEF RestoreUnlinks, DiskOnly, Runs, TypeOK
  <2>2. CASE run.file \in run.backups /\ bak[run.file] # "none"
    <3>1. /\ target' = [target EXCEPT ![run.file] = "none"] /\ new' = new
          /\ run' = [run EXCEPT !.pc = "rename"]
      BY <1>24, <2>2 DEF RestoreUnlinks, GoTo
    <3> QED
      BY <2>1, <2>2, <3>1 DEF DownloadedInv, OnServer, Swapping, At, Runs, Files, TypeOK
  <2>3. CASE ~(run.file \in run.backups /\ bak[run.file] # "none")
    <3>1. target' = target /\ run' = Restored
      BY <1>24, <2>3 DEF RestoreUnlinks
    <3> QED
      BY <2>1, <3>1, RestoredRun DEF DownloadedInv, OnServer, Swapping, At
  <2> QED  BY <2>2, <2>3
<1>25. CASE RestoreRenames
  BY <1>25 DEF RestoreRenames, DiskOnly, Restored, NextFile, Off, DownloadedInv,
      OnServer, Swapping, At
<1>26. CASE RestoreSkips
  BY <1>26 DEF RestoreSkips, local, disk, Restored, NextFile, Off, Fault, DownloadedInv,
      OnServer, Swapping, At
<1>27. CASE RestartAgain
  BY <1>27 DEF RestartAgain, disk, Off, DownloadedInv, OnServer, Swapping, At
<1>28. CASE CleanBak
  BY <1>28 DEF CleanBak, DiskOnly, NextFile, DownloadedInv, OnServer, Swapping, At
<1>29. CASE Stamp
  BY <1>29 DEF Stamp, disk, Off, DownloadedInv, OnServer, Swapping, At
<1>30. CASE RunEnds
  BY <1>30 DEF RunEnds, Off, Fault, DownloadedInv, OnServer, Swapping, At
<1>31. CASE ServerStarts
  BY <1>31 DEF ServerStarts, OnlyServer, disk, DownloadedInv, OnServer, Swapping, At
<1>32. CASE ServerListens
  BY <1>32 DEF ServerListens, OnlyServer, disk, DownloadedInv, OnServer, Swapping, At
<1>33. CASE ServerStops
  BY <1>33 DEF ServerStops, OnlyServer, disk, Fault, DownloadedInv, OnServer, Swapping,
      At
<1>34. CASE UNCHANGED vars
  BY <1>34 DEF vars, local, disk, DownloadedInv, OnServer, Swapping, At
<1> QED
  BY <1>1, <1>2, <1>3, <1>4, <1>5, <1>6, <1>7, <1>8, <1>9, <1>10, <1>11, <1>12,
     <1>13, <1>14, <1>15, <1>16, <1>17, <1>18, <1>19, <1>20, <1>21, <1>22, <1>23, <1>24,
     <1>25, <1>26, <1>27, <1>28, <1>29, <1>30, <1>31, <1>32, <1>33, <1>34
     DEF Next, CentreNext, UpdateNext

LEMMA CopiesStep ==
    ASSUME TypeOK, DownloadedInv, CopiesInv, [Next]_vars
    PROVE  CopiesInv'
<1>1. CASE DeployFiles
  BY <1>1 DEF DeployFiles, Edge, local, disk, CopiesInv, SomeCopyKept, OnServer,
      Swapping, At
<1>2. CASE SetAppVersion
  BY <1>2 DEF SetAppVersion, Edge, local, disk, CopiesInv, SomeCopyKept, OnServer,
      Swapping, At
<1>3. CASE Register
  BY <1>3 DEF Register, Edge, local, disk, CopiesInv, SomeCopyKept, OnServer, Swapping,
      At
<1>4. CASE DeleteServer
  BY <1>4 DEF DeleteServer, Edge, local, disk, CopiesInv, SomeCopyKept, OnServer,
      Swapping, At
<1>5. CASE RequestUpdate
  BY <1>5 DEF RequestUpdate, SetFlags, Edge, local, disk, CopiesInv, SomeCopyKept,
      OnServer, Swapping, At
<1>6. CASE BulkRequestUpdate
  BY <1>6 DEF BulkRequestUpdate, SetFlags, Edge, local, disk, CopiesInv, SomeCopyKept,
      OnServer, Swapping, At
<1>7. CASE MarkStale
  BY <1>7 DEF MarkStale, Edge, local, disk, CopiesInv, SomeCopyKept, OnServer, Swapping,
      At
<1>8. CASE CommitHeartbeat
  <2>1. UNCHANGED <<target, bak, new, server>>
    BY <1>8 DEF CommitHeartbeat, local, disk
  <2>2. CASE run' = run
    BY <2>1, <2>2 DEF CopiesInv, SomeCopyKept, Swapping, At
  <2>3. CASE run' # run
    BY <1>8, <2>1, <2>3, CommitRun DEF CopiesInv, SomeCopyKept, Swapping, At
  <2> QED  BY <2>2, <2>3
<1>9. CASE HeartbeatFails
  BY <1>9 DEF HeartbeatFails, local, disk, Off, Fault, CopiesInv, SomeCopyKept,
      OnServer, Swapping, At
<1>10. CASE StartRun
  BY <1>10 DEF StartRun, OnlyRun, local, disk, CopiesInv, SomeCopyKept, OnServer,
      Swapping, At
<1>11. CASE Collect
  BY <1>11 DEF Collect, OnlyRun, local, disk, GoTo, Off, CopiesInv, SomeCopyKept,
      OnServer, Swapping, At, TypeOK, Runs
<1>12. CASE PostHeartbeat
  BY <1>12 DEF PostHeartbeat, local, disk, GoTo, Off, CopiesInv, SomeCopyKept, OnServer,
      Swapping, At, TypeOK, Runs
<1>13. CASE ModelChecked
  BY <1>13 DEF ModelChecked, OnlyRun, local, disk, GoTo, Off, CopiesInv, SomeCopyKept,
      OnServer, Swapping, At, TypeOK, Runs
<1>14. CASE ReadVersions
  BY <1>14 DEF ReadVersions, local, disk, Off, CopiesInv, SomeCopyKept, OnServer,
      Swapping, At
<1>15. CASE Download
  BY <1>15 DEF Download, DiskOnly, NextFile, CopiesInv, SomeCopyKept, OnServer,
      Swapping, At
<1>16. CASE DownloadFails
  BY <1>16 DEF DownloadFails, DiskOnly, Off, Fault, CopiesInv, SomeCopyKept, OnServer,
      Swapping, At
<1>17. CASE SwapDropsBak
  BY <1>17 DEF SwapDropsBak, DiskOnly, GoTo, CopiesInv, SomeCopyKept, OnServer,
      Swapping, At, TypeOK, Runs
<1>18. CASE SwapKeeps
  BY <1>18 DEF SwapKeeps, DiskOnly, CopiesInv, SomeCopyKept, OnServer, Swapping, At,
      TypeOK
<1>19. CASE SwapPlaces
  BY <1>19, FleetAssumption DEF SwapPlaces, DiskOnly, NextFile, CopiesInv, SomeCopyKept,
      DownloadedInv, OnServer, Swapping, At, TypeOK, Runs, Files
<1>20. CASE SwapFails
  BY <1>20 DEF SwapFails, local, disk, Restore, Fault, CopiesInv, SomeCopyKept,
      OnServer, Swapping, At
<1>21. CASE Restart
  BY <1>21 DEF Restart, disk, GoTo, CopiesInv, SomeCopyKept, OnServer, Swapping, At
<1>22. CASE RestartFails
  BY <1>22 DEF RestartFails, local, disk, Restore, Fault, CopiesInv, SomeCopyKept,
      OnServer, Swapping, At
<1>23. CASE Health
  <2>1. UNCHANGED <<target, bak, new, server>>
    BY <1>23 DEF Health, OnlyRun, local, disk
  <2>2. run \in Runs /\ At("health")
    BY <1>23 DEF Health, TypeOK
  <2>3. CASE run' = Off
    BY <2>1, <2>3 DEF CopiesInv, SomeCopyKept, Swapping, At, Off
  <2>4. CASE run' = [run EXCEPT !.pc = "unlink", !.file = "server.py", !.cause = "health"]
    BY <2>1, <2>2, <2>4 DEF CopiesInv, SomeCopyKept, Swapping, At, Runs
  <2>5. CASE /\ run' = [run EXCEPT !.pc = "clean", !.file = "server.py"]
             /\ server.listening /\ server.code \notin Sick
    BY <2>1, <2>2, <2>5 DEF CopiesInv, SomeCopyKept, Swapping, At, Runs, Files
  <2> QED  BY <1>23, <2>3, <2>4, <2>5, HealthRun
<1>24. CASE RestoreUnlinks
  <2>1. UNCHANGED <<bak, server>> /\ run \in Runs /\ At("unlink") /\ run.file \in Files
    BY <1>24 DEF RestoreUnlinks, DiskOnly, Runs, TypeOK
  <2>2. CASE run.file \in run.backups /\ bak[run.file] # "none"
    <3>1. /\ target' = [target EXCEPT ![run.file] = "none"] /\ new' = new
          /\ run' = [run EXCEPT !.pc = "rename"]
      BY <1>24, <2>2 DEF RestoreUnlinks, GoTo
    <3> QED
      BY <2>1, <2>2, <3>1 DEF CopiesInv, SomeCopyKept, Swapping, At, Runs, Files, TypeOK
  <2>3. CASE ~(run.file \in run.backups /\ bak[run.file] # "none")
    <3>1. target' = target /\ run' = Restored
      BY <1>24, <2>3 DEF RestoreUnlinks
    <3> QED
      BY <2>1, <3>1, RestoredRun DEF CopiesInv, SomeCopyKept, Swapping, At
  <2> QED  BY <2>2, <2>3
<1>25. CASE RestoreRenames
  BY <1>25 DEF RestoreRenames, DiskOnly, Restored, NextFile, Off, CopiesInv,
      SomeCopyKept, OnServer, Swapping, At, TypeOK
<1>26. CASE RestoreSkips
  BY <1>26 DEF RestoreSkips, local, disk, Restored, NextFile, Off, Fault, CopiesInv,
      SomeCopyKept, OnServer, Swapping, At
<1>27. CASE RestartAgain
  BY <1>27 DEF RestartAgain, disk, Off, CopiesInv, SomeCopyKept, OnServer, Swapping, At
<1>28. CASE CleanBak
  BY <1>28 DEF CleanBak, DiskOnly, NextFile, CopiesInv, SomeCopyKept, OnServer,
      Swapping, At
<1>29. CASE Stamp
  BY <1>29 DEF Stamp, disk, Off, CopiesInv, SomeCopyKept, OnServer, Swapping, At
<1>30. CASE RunEnds
  BY <1>30 DEF RunEnds, Off, Fault, CopiesInv, SomeCopyKept, OnServer, Swapping, At
<1>31. CASE ServerStarts
  BY <1>31 DEF ServerStarts, OnlyServer, disk, CopiesInv, SomeCopyKept, OnServer,
      Swapping, At
<1>32. CASE ServerListens
  BY <1>32 DEF ServerListens, OnlyServer, disk, CopiesInv, SomeCopyKept, OnServer,
      Swapping, At
<1>33. CASE ServerStops
  BY <1>33 DEF ServerStops, OnlyServer, disk, Fault, CopiesInv, SomeCopyKept, OnServer,
      Swapping, At
<1>34. CASE UNCHANGED vars
  BY <1>34 DEF vars, local, disk, CopiesInv, SomeCopyKept, OnServer, Swapping, At
<1> QED
  BY <1>1, <1>2, <1>3, <1>4, <1>5, <1>6, <1>7, <1>8, <1>9, <1>10, <1>11, <1>12,
     <1>13, <1>14, <1>15, <1>16, <1>17, <1>18, <1>19, <1>20, <1>21, <1>22, <1>23, <1>24,
     <1>25, <1>26, <1>27, <1>28, <1>29, <1>30, <1>31, <1>32, <1>33, <1>34
     DEF Next, CentreNext, UpdateNext

LEMMA InstalledStep ==
    ASSUME TypeOK, DownloadedInv, InstalledInv, [Next]_vars
    PROVE  InstalledInv'
<1>1. CASE DeployFiles
  BY <1>1 DEF DeployFiles, Edge, local, disk, InstalledInv, OnServer, Swapping, At
<1>2. CASE SetAppVersion
  BY <1>2 DEF SetAppVersion, Edge, local, disk, InstalledInv, OnServer, Swapping, At
<1>3. CASE Register
  BY <1>3 DEF Register, Edge, local, disk, InstalledInv, OnServer, Swapping, At
<1>4. CASE DeleteServer
  BY <1>4 DEF DeleteServer, Edge, local, disk, InstalledInv, OnServer, Swapping, At
<1>5. CASE RequestUpdate
  BY <1>5 DEF RequestUpdate, SetFlags, Edge, local, disk, InstalledInv, OnServer,
      Swapping, At
<1>6. CASE BulkRequestUpdate
  BY <1>6 DEF BulkRequestUpdate, SetFlags, Edge, local, disk, InstalledInv, OnServer,
      Swapping, At
<1>7. CASE MarkStale
  BY <1>7 DEF MarkStale, Edge, local, disk, InstalledInv, OnServer, Swapping, At
<1>8. CASE CommitHeartbeat
  <2>1. UNCHANGED <<target, bak, new, server>>
    BY <1>8 DEF CommitHeartbeat, local, disk
  <2>2. CASE run' = run
    BY <2>1, <2>2 DEF InstalledInv, Swapping, At
  <2>3. CASE run' # run
    BY <1>8, <2>1, <2>3, CommitRun DEF InstalledInv, Swapping, At
  <2> QED  BY <2>2, <2>3
<1>9. CASE HeartbeatFails
  BY <1>9 DEF HeartbeatFails, local, disk, Off, Fault, InstalledInv, OnServer, Swapping,
      At
<1>10. CASE StartRun
  BY <1>10 DEF StartRun, OnlyRun, local, disk, InstalledInv, OnServer, Swapping, At
<1>11. CASE Collect
  BY <1>11 DEF Collect, OnlyRun, local, disk, GoTo, Off, InstalledInv, OnServer,
      Swapping, At, TypeOK, Runs
<1>12. CASE PostHeartbeat
  BY <1>12 DEF PostHeartbeat, local, disk, GoTo, Off, InstalledInv, OnServer, Swapping,
      At, TypeOK, Runs
<1>13. CASE ModelChecked
  BY <1>13 DEF ModelChecked, OnlyRun, local, disk, GoTo, Off, InstalledInv, OnServer,
      Swapping, At, TypeOK, Runs
<1>14. CASE ReadVersions
  BY <1>14 DEF ReadVersions, local, disk, Off, InstalledInv, OnServer, Swapping, At
<1>15. CASE Download
  BY <1>15 DEF Download, DiskOnly, NextFile, InstalledInv, OnServer, Swapping, At
<1>16. CASE DownloadFails
  BY <1>16 DEF DownloadFails, DiskOnly, Off, Fault, InstalledInv, OnServer, Swapping, At
<1>17. CASE SwapDropsBak
  BY <1>17 DEF SwapDropsBak, DiskOnly, GoTo, InstalledInv, OnServer, Swapping, At,
      TypeOK, Runs
<1>18. CASE SwapKeeps
  BY <1>18 DEF SwapKeeps, DiskOnly, InstalledInv, OnServer, Swapping, At
<1>19. CASE SwapPlaces
  BY <1>19 DEF SwapPlaces, DiskOnly, NextFile, InstalledInv, DownloadedInv, OnServer,
      Swapping, At, TypeOK, Runs, Files
<1>20. CASE SwapFails
  BY <1>20 DEF SwapFails, local, disk, Restore, Fault, InstalledInv, OnServer, Swapping,
      At
<1>21. CASE Restart
  BY <1>21, FleetAssumption DEF Restart, disk, GoTo, StartServer, Started, InstalledInv,
      OnServer, Swapping, At
<1>22. CASE RestartFails
  BY <1>22 DEF RestartFails, local, disk, Restore, Fault, InstalledInv, OnServer,
      Swapping, At
<1>23. CASE Health
  <2>1. UNCHANGED <<target, bak, new, server>>
    BY <1>23 DEF Health, OnlyRun, local, disk
  <2>2. run \in Runs /\ At("health")
    BY <1>23 DEF Health, TypeOK
  <2>3. CASE run' = Off
    BY <2>1, <2>3 DEF InstalledInv, Swapping, At, Off
  <2>4. CASE run' = [run EXCEPT !.pc = "unlink", !.file = "server.py", !.cause = "health"]
    BY <2>1, <2>2, <2>4 DEF InstalledInv, Swapping, At, Runs
  <2>5. CASE /\ run' = [run EXCEPT !.pc = "clean", !.file = "server.py"]
             /\ server.listening /\ server.code \notin Sick
    BY <2>1, <2>2, <2>5 DEF InstalledInv, Swapping, At, Runs, Files
  <2> QED  BY <1>23, <2>3, <2>4, <2>5, HealthRun
<1>24. CASE RestoreUnlinks
  <2>1. UNCHANGED <<bak, server>> /\ run \in Runs /\ At("unlink") /\ run.file \in Files
    BY <1>24 DEF RestoreUnlinks, DiskOnly, Runs, TypeOK
  <2>2. CASE run.file \in run.backups /\ bak[run.file] # "none"
    <3>1. /\ target' = [target EXCEPT ![run.file] = "none"] /\ new' = new
          /\ run' = [run EXCEPT !.pc = "rename"]
      BY <1>24, <2>2 DEF RestoreUnlinks, GoTo
    <3> QED
      BY <2>1, <2>2, <3>1 DEF InstalledInv, Swapping, At, Runs, Files, TypeOK
  <2>3. CASE ~(run.file \in run.backups /\ bak[run.file] # "none")
    <3>1. target' = target /\ run' = Restored
      BY <1>24, <2>3 DEF RestoreUnlinks
    <3> QED
      BY <2>1, <3>1, RestoredRun DEF InstalledInv, Swapping, At
  <2> QED  BY <2>2, <2>3
<1>25. CASE RestoreRenames
  BY <1>25 DEF RestoreRenames, DiskOnly, Restored, NextFile, Off, InstalledInv,
      OnServer, Swapping, At
<1>26. CASE RestoreSkips
  BY <1>26 DEF RestoreSkips, local, disk, Restored, NextFile, Off, Fault, InstalledInv,
      OnServer, Swapping, At
<1>27. CASE RestartAgain
  BY <1>27, FleetAssumption DEF RestartAgain, disk, Off, StartServer, Started,
      InstalledInv, OnServer, Swapping, At
<1>28. CASE CleanBak
  BY <1>28 DEF CleanBak, DiskOnly, NextFile, InstalledInv, OnServer, Swapping, At
<1>29. CASE Stamp
  BY <1>29 DEF Stamp, disk, Off, InstalledInv, OnServer, Swapping, At
<1>30. CASE RunEnds
  BY <1>30 DEF RunEnds, Off, Fault, InstalledInv, OnServer, Swapping, At
<1>31. CASE ServerStarts
  BY <1>31 DEF ServerStarts, OnlyServer, disk, StartServer, Started, InstalledInv,
      OnServer, Swapping, At
<1>32. CASE ServerListens
  BY <1>32 DEF ServerListens, OnlyServer, disk, InstalledInv, OnServer, Swapping, At
<1>33. CASE ServerStops
  BY <1>33, FleetAssumption DEF ServerStops, OnlyServer, disk, Fault, InstalledInv,
      OnServer, Swapping, At
<1>34. CASE UNCHANGED vars
  BY <1>34 DEF vars, local, disk, InstalledInv, OnServer, Swapping, At
<1> QED
  BY <1>1, <1>2, <1>3, <1>4, <1>5, <1>6, <1>7, <1>8, <1>9, <1>10, <1>11, <1>12,
     <1>13, <1>14, <1>15, <1>16, <1>17, <1>18, <1>19, <1>20, <1>21, <1>22, <1>23, <1>24,
     <1>25, <1>26, <1>27, <1>28, <1>29, <1>30, <1>31, <1>32, <1>33, <1>34
     DEF Next, CentreNext, UpdateNext

LEMMA WorkingStep ==
    ASSUME TypeOK, DownloadedInv, CopiesInv, InstalledInv, CopiesInv', InstalledInv', WorkingInv, [Next]_vars
    PROVE  WorkingInv'
<1>1. CASE DeployFiles
  BY <1>1 DEF DeployFiles, Edge, local, disk, WorkingInv, WorkingCopyKept, AsPlaced,
      TargetWorks, BakWorks, OnServer, Swapping, At
<1>2. CASE SetAppVersion
  BY <1>2 DEF SetAppVersion, Edge, local, disk, WorkingInv, WorkingCopyKept, AsPlaced,
      TargetWorks, BakWorks, OnServer, Swapping, At
<1>3. CASE Register
  BY <1>3 DEF Register, Edge, local, disk, WorkingInv, WorkingCopyKept, AsPlaced,
      TargetWorks, BakWorks, OnServer, Swapping, At
<1>4. CASE DeleteServer
  BY <1>4 DEF DeleteServer, Edge, local, disk, WorkingInv, WorkingCopyKept, AsPlaced,
      TargetWorks, BakWorks, OnServer, Swapping, At
<1>5. CASE RequestUpdate
  BY <1>5 DEF RequestUpdate, SetFlags, Edge, local, disk, WorkingInv, WorkingCopyKept,
      AsPlaced, TargetWorks, BakWorks, OnServer, Swapping, At
<1>6. CASE BulkRequestUpdate
  BY <1>6 DEF BulkRequestUpdate, SetFlags, Edge, local, disk, WorkingInv,
      WorkingCopyKept, AsPlaced, TargetWorks, BakWorks, OnServer, Swapping, At
<1>7. CASE MarkStale
  BY <1>7 DEF MarkStale, Edge, local, disk, WorkingInv, WorkingCopyKept, AsPlaced,
      TargetWorks, BakWorks, OnServer, Swapping, At
<1>8. CASE CommitHeartbeat
  <2>1. UNCHANGED <<target, bak, server, faults>>
    BY <1>8 DEF CommitHeartbeat, local, disk
  <2>2. CASE run' = run
    BY <2>1, <2>2 DEF WorkingInv, WorkingCopyKept, AsPlaced, TargetWorks, BakWorks,
        OnServer, Swapping, At
  <2>3. CASE run' # run
    BY <1>8, <2>1, <2>3, CommitRun DEF WorkingInv, WorkingCopyKept, AsPlaced,
        TargetWorks, BakWorks, OnServer, Swapping, At
  <2> QED  BY <2>2, <2>3
<1>9. CASE HeartbeatFails
  BY <1>9 DEF HeartbeatFails, local, disk, Fault, WorkingInv, AsPlaced, TargetWorks,
      BakWorks, OnServer, Swapping, At, TypeOK
<1>10. CASE StartRun
  BY <1>10 DEF StartRun, OnlyRun, local, disk, WorkingInv, WorkingCopyKept, AsPlaced,
      TargetWorks, BakWorks, OnServer, Swapping, At
<1>11. CASE Collect
  <2>1. UNCHANGED <<target, bak, server, faults>> /\ At("collect") /\ run \in Runs
    BY <1>11 DEF Collect, OnlyRun, local, disk, TypeOK
  <2>2. CASE server.listening /\ server.code \notin Sick
    <3>1. run' = [run EXCEPT !.pc = "post"]
      BY <1>11, <2>2 DEF Collect, GoTo
    <3>2. server.code \in Versions \ (Broken \cup Sick)
      BY <2>2 DEF InstalledInv, TypeOK, Maybe
    <3>3. server.code # "none"
      BY <2>2 DEF InstalledInv
    <3> QED
      BY <2>1, <3>1, <3>2, <3>3 DEF WorkingInv, WorkingCopyKept, AsPlaced, TargetWorks,
          BakWorks, OnServer, Swapping, At, Good, Runs
  <2>3. CASE ~(server.listening /\ server.code \notin Sick)
    <3>1. run' = Off
      BY <1>11, <2>3, Zenon DEF Collect
    <3> QED
      BY <2>1, <3>1 DEF WorkingInv, WorkingCopyKept, AsPlaced, TargetWorks, BakWorks,
          OnServer, Swapping, At, Off
  <2> QED  BY <2>2, <2>3
<1>12. CASE PostHeartbeat
  BY <1>12 DEF PostHeartbeat, local, disk, GoTo, Off, WorkingInv, WorkingCopyKept,
      AsPlaced, TargetWorks, BakWorks, OnServer, Swapping, At, TypeOK, Runs
<1>13. CASE ModelChecked
  BY <1>13 DEF ModelChecked, OnlyRun, local, disk, GoTo, Off, WorkingInv,
      WorkingCopyKept, AsPlaced, TargetWorks, BakWorks, OnServer, Swapping, At, TypeOK,
      Runs
<1>14. CASE ReadVersions
  BY <1>14 DEF ReadVersions, local, disk, Off, WorkingInv, WorkingCopyKept, AsPlaced,
      TargetWorks, BakWorks, OnServer, Swapping, At, TypeOK
<1>15. CASE Download
  BY <1>15 DEF Download, DiskOnly, NextFile, WorkingInv, WorkingCopyKept, AsPlaced,
      TargetWorks, BakWorks, OnServer, Swapping, At
<1>16. CASE DownloadFails
  BY <1>16 DEF DownloadFails, DiskOnly, Fault, WorkingInv, AsPlaced, TargetWorks,
      BakWorks, OnServer, Swapping, At, TypeOK
<1>17. CASE SwapDropsBak
  BY <1>17, FleetAssumption DEF SwapDropsBak, DiskOnly, GoTo, WorkingInv,
      WorkingCopyKept, AsPlaced, TargetWorks, BakWorks, Good, OnServer, Swapping, At,
      TypeOK, Runs
<1>18. CASE SwapKeeps
  BY <1>18 DEF SwapKeeps, DiskOnly, WorkingInv, WorkingCopyKept, AsPlaced, TargetWorks,
      BakWorks, Good, OnServer, Swapping, At, TypeOK, Files
<1>19. CASE SwapPlaces
  BY <1>19 DEF SwapPlaces, DiskOnly, NextFile, WorkingInv, WorkingCopyKept, AsPlaced,
      TargetWorks, BakWorks, Good, OnServer, Swapping, At
<1>20. CASE SwapFails
  BY <1>20 DEF SwapFails, local, disk, Restore, Fault, WorkingInv, AsPlaced,
      TargetWorks, BakWorks, OnServer, Swapping, At, TypeOK
<1>21. CASE Restart
  BY <1>21 DEF Restart, disk, GoTo, StartServer, Started, WorkingInv, WorkingCopyKept,
      AsPlaced, TargetWorks, BakWorks, OnServer, Swapping, At
<1>22. CASE RestartFails
  BY <1>22 DEF RestartFails, local, disk, Restore, Fault, WorkingInv, AsPlaced,
      TargetWorks, BakWorks, OnServer, Swapping, At, TypeOK
<1>23. CASE Health
  <2>1. UNCHANGED <<target, bak, server, faults>>
    BY <1>23 DEF Health, OnlyRun, local, disk
  <2>2. run \in Runs /\ At("health")
    BY <1>23 DEF Health, TypeOK
  <2>3. CASE run' = Off
    BY <2>1, <2>2, <2>3 DEF WorkingInv, WorkingCopyKept, AsPlaced, TargetWorks,
        BakWorks, OnServer, Swapping, At, Off
  <2>4. CASE run' = [run EXCEPT !.pc = "unlink", !.file = "server.py", !.cause = "health"]
    BY <2>1, <2>2, <2>4 DEF WorkingInv, WorkingCopyKept, AsPlaced, TargetWorks,
        BakWorks, OnServer, Swapping, At, Runs
  <2>5. CASE /\ run' = [run EXCEPT !.pc = "clean", !.file = "server.py"]
             /\ server.listening /\ server.code \notin Sick
    <3>1. run'.pc = "clean" /\ run'.file = "server.py"
      BY <2>2, <2>5 DEF Runs
    <3>2. target["server.py"] \in Good
      BY <2>1, <2>2, <3>1 DEF CopiesInv, InstalledInv, Good, At, Files, TypeOK, Maybe
    <3> QED
      BY <2>1, <2>2, <3>1, <3>2 DEF WorkingInv, WorkingCopyKept, AsPlaced, TargetWorks,
          BakWorks, OnServer, Swapping, At
  <2> QED  BY <1>23, <2>3, <2>4, <2>5, HealthRun
<1>24. CASE RestoreUnlinks
  <2>1. UNCHANGED <<bak, server, faults>> /\ run \in Runs /\ At("unlink") /\ run.file \in Files
    BY <1>24 DEF RestoreUnlinks, DiskOnly, Runs, TypeOK
  <2>2. CASE run.file \in run.backups /\ bak[run.file] # "none"
    <3>1. /\ target' = [target EXCEPT ![run.file] = "none"]
          /\ run' = [run EXCEPT !.pc = "rename"]
      BY <1>24, <2>2 DEF RestoreUnlinks, GoTo
    <3>2. run'.pc = "rename" /\ run'.file = run.file /\ run'.cause = run.cause
      BY <2>1, <3>1 DEF Runs
    <3>3. CASE OnServer
      BY <2>1, <3>2, <3>3 DEF WorkingInv, WorkingCopyKept, AsPlaced, TargetWorks,
          BakWorks, OnServer, Swapping, At, Good
    <3>4. CASE ~OnServer
      <4>1. target'["server.py"] = target["server.py"]
        BY <2>1, <3>1, <3>4 DEF OnServer, TypeOK, Files
      <4> QED
        BY <2>1, <3>2, <3>4, <4>1 DEF WorkingInv, WorkingCopyKept, AsPlaced,
            TargetWorks, BakWorks, OnServer, Swapping, At, Good
    <3> QED  BY <3>3, <3>4
  <2>3. CASE ~(run.file \in run.backups /\ bak[run.file] # "none")
    <3>1. target' = target /\ run' = Restored
      BY <1>24, <2>3 DEF RestoreUnlinks
    <3>2. CASE OnServer
      <4>1. faults # 0
        BY <2>1, <2>3, <3>2, FleetAssumption DEF WorkingInv, BakWorks, OnServer, Good
      <4> QED  BY <2>1, <4>1 DEF WorkingInv
    <3>3. CASE ~OnServer
      <4>1. faults = 0 => run' = [run EXCEPT !.pc = "again"]
        BY <2>1, <3>1, <3>3 DEF WorkingInv, Restored, OnServer, At
      <4>2. SUFFICES ASSUME faults = 0 PROVE WorkingInv'
        BY <2>1 DEF WorkingInv
      <4> QED
        BY <2>1, <3>1, <3>3, <4>1, <4>2 DEF WorkingInv, WorkingCopyKept, AsPlaced,
            TargetWorks, BakWorks, OnServer, Swapping, At, Runs
    <3> QED  BY <3>2, <3>3
  <2> QED  BY <2>2, <2>3
<1>25. CASE RestoreRenames
  <2>1. /\ UNCHANGED <<server, faults>> /\ At("rename") /\ run \in Runs /\ run.file \in Files
        /\ target' = [target EXCEPT ![run.file] = bak[run.file]]
        /\ run' = Restored
    BY <1>25 DEF RestoreRenames, DiskOnly, Runs, TypeOK
  <2>2. SUFFICES ASSUME faults = 0 PROVE WorkingInv'
    BY <2>1 DEF WorkingInv
  <2>3. CASE OnServer
    <3>1. run'.pc = "unlink" /\ run'.file = "sync.py" /\ run'.cause = run.cause
      BY <2>1, <2>3 DEF Restored, NextFile, OnServer, Runs
    <3>2. target'["server.py"] = bak["server.py"] /\ bak["server.py"] \in Good
      BY <2>1, <2>2, <2>3 DEF WorkingInv, OnServer, TypeOK, Files
    <3> QED
      BY <2>1, <2>2, <3>1, <3>2 DEF WorkingInv, WorkingCopyKept, AsPlaced, TargetWorks,
          BakWorks, OnServer, Swapping, At, Good
  <2>4. CASE ~OnServer
    <3>1. run' = [run EXCEPT !.pc = "again"]
      BY <2>1, <2>2, <2>4 DEF Restored, OnServer, WorkingInv, At
    <3>2. run'.pc = "again"
      BY <2>1, <3>1 DEF Runs
    <3>3. target'["server.py"] = target["server.py"] /\ target["server.py"] \in Good
      BY <2>1, <2>2, <2>4 DEF WorkingInv, TargetWorks, OnServer, At, TypeOK, Files
    <3> QED
      BY <2>1, <2>2, <3>2, <3>3 DEF WorkingInv, WorkingCopyKept, AsPlaced, TargetWorks,
          BakWorks, OnServer, Swapping, At, Good
  <2> QED  BY <2>3, <2>4
<1>26. CASE RestoreSkips
  BY <1>26 DEF RestoreSkips, local, disk, Fault, WorkingInv, AsPlaced, TargetWorks,
      BakWorks, OnServer, Swapping, At, TypeOK
<1>27. CASE RestartAgain
  BY <1>27 DEF RestartAgain, disk, Off, StartServer, Started, WorkingInv,
      WorkingCopyKept, AsPlaced, TargetWorks, BakWorks, OnServer, Swapping, At
<1>28. CASE CleanBak
  BY <1>28 DEF CleanBak, DiskOnly, NextFile, WorkingInv, WorkingCopyKept, AsPlaced,
      TargetWorks, BakWorks, Good, OnServer, Swapping, At
<1>29. CASE Stamp
  BY <1>29 DEF Stamp, disk, Off, WorkingInv, WorkingCopyKept, AsPlaced, TargetWorks,
      BakWorks, OnServer, Swapping, At
<1>30. CASE RunEnds
  BY <1>30 DEF RunEnds, Fault, WorkingInv, AsPlaced, TargetWorks, BakWorks, OnServer,
      Swapping, At, TypeOK
<1>31. CASE ServerStarts
  BY <1>31 DEF ServerStarts, OnlyServer, disk, StartServer, Started, WorkingInv,
      WorkingCopyKept, AsPlaced, TargetWorks, BakWorks, OnServer, Swapping, At
<1>32. CASE ServerListens
  BY <1>32 DEF ServerListens, OnlyServer, disk, WorkingInv, WorkingCopyKept, AsPlaced,
      TargetWorks, BakWorks, OnServer, Swapping, At
<1>33. CASE ServerStops
  BY <1>33 DEF ServerStops, OnlyServer, disk, Fault, WorkingInv, AsPlaced, TargetWorks,
      BakWorks, OnServer, Swapping, At, TypeOK
<1>34. CASE UNCHANGED vars
  BY <1>34 DEF vars, local, disk, WorkingInv, WorkingCopyKept, AsPlaced, TargetWorks,
      BakWorks, OnServer, Swapping, At
<1> QED
  BY <1>1, <1>2, <1>3, <1>4, <1>5, <1>6, <1>7, <1>8, <1>9, <1>10, <1>11, <1>12,
     <1>13, <1>14, <1>15, <1>16, <1>17, <1>18, <1>19, <1>20, <1>21, <1>22, <1>23, <1>24,
     <1>25, <1>26, <1>27, <1>28, <1>29, <1>30, <1>31, <1>32, <1>33, <1>34
     DEF Next, CentreNext, UpdateNext

LEMMA RequestStep ==
    ASSUME TypeOK, RequestInv, [Next]_vars
    PROVE  RequestInv'
<1>1. CASE DeployFiles
  BY <1>1 DEF DeployFiles, Edge, requests, RequestInv, RequestKept, At
<1>2. CASE SetAppVersion
  BY <1>2 DEF SetAppVersion, Edge, requests, RequestInv, RequestKept, At
<1>3. CASE Register
  <2>1. row' = NewRow /\ ~row.exists /\ UNCHANGED <<hb, run, asked, missed>>
    BY <1>3 DEF Register, Edge, requests
  <2>2. ~row'.app
    BY <2>1 DEF NewRow
  <2> QED
    BY <2>1, <2>2, Zenon DEF RequestInv, RequestKept, At
<1>4. CASE DeleteServer
  BY <1>4 DEF DeleteServer, Edge, requests, NewRow, RequestInv, RequestKept, At
<1>5. CASE RequestUpdate
  BY <1>5, SetFlagsKeeps DEF RequestUpdate
<1>6. CASE BulkRequestUpdate
  BY <1>6, SetFlagsKeeps DEF BulkRequestUpdate
<1>7. CASE MarkStale
  BY <1>7 DEF MarkStale, Edge, requests, RequestInv, RequestKept, At
<1>8. CASE CommitHeartbeat
  <2>1. hb.busy /\ asked' = asked /\ ~hb'.app /\ ~hb'.busy
    BY <1>8 DEF CommitHeartbeat, NoHeartbeat
  <2>2. row'.app => row'.exists
    <3>1. CASE row.exists
      <4>1. row'.app = FALSE
        BY <1>8, <3>1 DEF CommitHeartbeat, TypeOK, Rows
      <4> QED  BY <4>1
    <3>2. CASE ~row.exists
      BY <1>8, <3>2 DEF CommitHeartbeat, RequestInv
    <3> QED  BY <3>1, <3>2
  <2>3. CASE At("answer")
    <3>1. Answered(hb.model, hb.app) /\ missed' = missed
      BY <1>8, <2>3 DEF CommitHeartbeat
    <3>2. (run'.app => run'.pc \in {"model", "app"}) /\ (hb.app => run'.app)
      BY <3>1, AnsweredRun DEF TypeOK
    <3>3. ~run.app
      BY <2>3 DEF RequestInv, At
    <3> QED
      BY <2>1, <2>2, <3>1, <3>2, <3>3, Zenon DEF RequestInv, RequestKept
  <2>4. CASE ~At("answer")
    <3>1. run' = run /\ missed' = (missed \/ hb.app)
      BY <1>8, <2>4 DEF CommitHeartbeat
    <3> QED
      BY <2>1, <2>2, <3>1, Zenon DEF RequestInv, RequestKept
  <2> QED  BY <2>3, <2>4
<1>9. CASE HeartbeatFails
  BY <1>9 DEF HeartbeatFails, requests, Off, NoHeartbeat, Fault, RequestInv,
      RequestKept, At
<1>10. CASE StartRun
  BY <1>10 DEF StartRun, OnlyRun, central, requests, Off, RequestInv, RequestKept, At
<1>11. CASE Collect
  BY <1>11 DEF Collect, OnlyRun, central, requests, GoTo, Off, RequestInv, RequestKept,
      At, TypeOK, Runs
<1>12. CASE PostHeartbeat
  BY <1>12 DEF PostHeartbeat, requests, GoTo, Off, RequestInv, RequestKept, At, TypeOK,
      Runs
<1>13. CASE ModelChecked
  BY <1>13 DEF ModelChecked, OnlyRun, central, requests, GoTo, Off, RequestInv,
      RequestKept, At, TypeOK, Runs
<1>14. CASE ReadVersions
  BY <1>14 DEF ReadVersions, central, Off, RequestInv, RequestKept, At
<1>15. CASE Download
  BY <1>15 DEF Download, DiskOnly, central, requests, NextFile, RequestInv, RequestKept,
      At
<1>16. CASE DownloadFails
  BY <1>16 DEF DownloadFails, DiskOnly, central, requests, Off, Fault, RequestInv,
      RequestKept, At
<1>17. CASE SwapDropsBak
  BY <1>17 DEF SwapDropsBak, DiskOnly, central, requests, GoTo, RequestInv, RequestKept,
      At, TypeOK, Runs
<1>18. CASE SwapKeeps
  BY <1>18 DEF SwapKeeps, DiskOnly, central, requests, RequestInv, RequestKept, At
<1>19. CASE SwapPlaces
  BY <1>19 DEF SwapPlaces, DiskOnly, central, requests, NextFile, RequestInv,
      RequestKept, At
<1>20. CASE SwapFails
  BY <1>20 DEF SwapFails, central, requests, Restore, Fault, RequestInv, RequestKept, At
<1>21. CASE Restart
  BY <1>21 DEF Restart, central, requests, GoTo, RequestInv, RequestKept, At
<1>22. CASE RestartFails
  BY <1>22 DEF RestartFails, central, requests, Restore, Fault, RequestInv, RequestKept,
      At
<1>23. CASE Health
  <2>1. UNCHANGED <<row, hb, asked, missed>>
    BY <1>23 DEF Health, OnlyRun, central, requests
  <2>2. run.pc \notin {"model", "app"}
    BY <1>23 DEF Health, At
  <2>3. run'.app \in {run.app, FALSE}
    <3>1. run \in Runs
      BY DEF TypeOK
    <3>2. CASE run' = Off
      BY <3>2 DEF Off
    <3>3. CASE run' = [run EXCEPT !.pc = "unlink", !.file = "server.py", !.cause = "health"]
      BY <3>1, <3>3 DEF Runs
    <3>4. CASE run' = [run EXCEPT !.pc = "clean", !.file = "server.py"]
      BY <3>1, <3>4 DEF Runs
    <3> QED  BY <1>23, <3>2, <3>3, <3>4, HealthRun
  <2>4. ~run.app
    BY <2>2 DEF RequestInv
  <2>5. ~run'.app
    BY <2>3, <2>4
  <2> QED
    BY <2>1, <2>4, <2>5, Zenon DEF RequestInv, RequestKept, At
<1>24. CASE RestoreUnlinks
  <2>1. UNCHANGED <<row, hb, asked, missed>>
    BY <1>24 DEF RestoreUnlinks, DiskOnly, central, requests
  <2>2. run.pc \notin {"model", "app"}
    BY <1>24 DEF RestoreUnlinks, At
  <2>3. run'.app \in {run.app, FALSE}
    <3>1. run' = Restored \/ run' = [run EXCEPT !.pc = "rename"]
      BY <1>24, Zenon DEF RestoreUnlinks, GoTo
    <3> QED  BY <3>1, RestoredApp DEF TypeOK, Runs
  <2>4. ~run.app
    BY <2>2 DEF RequestInv
  <2>5. ~run'.app
    BY <2>3, <2>4
  <2> QED
    BY <2>1, <2>4, <2>5, Zenon DEF RequestInv, RequestKept, At
<1>25. CASE RestoreRenames
  BY <1>25 DEF RestoreRenames, DiskOnly, central, requests, Restored, NextFile, Off,
      RequestInv, RequestKept, At
<1>26. CASE RestoreSkips
  BY <1>26 DEF RestoreSkips, central, requests, Restored, NextFile, Off, Fault,
      RequestInv, RequestKept, At
<1>27. CASE RestartAgain
  BY <1>27 DEF RestartAgain, central, requests, Off, RequestInv, RequestKept, At
<1>28. CASE CleanBak
  BY <1>28 DEF CleanBak, DiskOnly, central, requests, NextFile, RequestInv, RequestKept,
      At
<1>29. CASE Stamp
  BY <1>29 DEF Stamp, central, requests, Off, RequestInv, RequestKept, At
<1>30. CASE RunEnds
  BY <1>30 DEF RunEnds, central, Off, Fault, RequestInv, RequestKept, At
<1>31. CASE ServerStarts
  BY <1>31 DEF ServerStarts, OnlyServer, central, requests, RequestInv, RequestKept, At
<1>32. CASE ServerListens
  BY <1>32 DEF ServerListens, OnlyServer, central, requests, RequestInv, RequestKept, At
<1>33. CASE ServerStops
  BY <1>33 DEF ServerStops, OnlyServer, central, requests, Fault, RequestInv,
      RequestKept, At
<1>34. CASE UNCHANGED vars
  BY <1>34 DEF vars, central, requests, RequestInv, RequestKept, At
<1> QED
  BY <1>1, <1>2, <1>3, <1>4, <1>5, <1>6, <1>7, <1>8, <1>9, <1>10, <1>11, <1>12,
     <1>13, <1>14, <1>15, <1>16, <1>17, <1>18, <1>19, <1>20, <1>21, <1>22, <1>23, <1>24,
     <1>25, <1>26, <1>27, <1>28, <1>29, <1>30, <1>31, <1>32, <1>33, <1>34
     DEF Next, CentreNext, UpdateNext

---------------------------------------------------------------------------
(* The theorems                                                            *)

LEMMA FleetInit == Init => FleetInv
<1> SUFFICES ASSUME Init PROVE FleetInv
  OBVIOUS
<1>1. PICK v \in Versions \ (Broken \cup Sick), name \in Names \cup {"none"} :
          /\ centre = [files |-> v, named |-> name]
          /\ target = [f \in Files |-> v]
          /\ stamp = IF name = "none" THEN "initial" ELSE name
  BY DEF Init
<1>2. bak = [f \in Files |-> "none"] /\ new = [f \in Files |-> "none"] /\ run = Off
  BY DEF Init
<1>3. target["server.py"] = v /\ v # "none" /\ target \in [Files -> Maybe]
  BY <1>1, FleetAssumption DEF Files, Maybe
<1>4. TypeOK
  <2>1. row \in Rows /\ hb \in [busy : BOOLEAN, model : BOOLEAN, app : BOOLEAN]
    BY DEF Init, NewRow, Rows
  <2>2. /\ bak \in [Files -> Maybe] /\ new \in [Files -> Maybe \cup {"partial"}]
        /\ server \in [code : Maybe, listening : BOOLEAN]
    BY <1>2 DEF Init, Maybe
  <2>3. /\ centre \in [files : Versions, named : Names \cup {"none"}]
        /\ stamp \in Names \cup {"unknown", "initial"}
    BY <1>1
  <2>4. asked \in BOOLEAN /\ missed \in BOOLEAN
    BY DEF Init
  <2>5. faults \in 0..MaxFaults /\ run \in Runs
    BY <1>2, OffType, FleetAssumption DEF Init
  <2> QED
    BY <1>3, <2>1, <2>2, <2>3, <2>4, <2>5 DEF TypeOK
<1>5. DownloadedInv
  BY <1>2 DEF DownloadedInv, Off, At, Swapping, OnServer
<1>6. CopiesInv
  <2>1. SomeCopyKept
    BY <1>1, <1>3 DEF SomeCopyKept
  <2> QED
    BY <1>2, <2>1 DEF CopiesInv, Off, At, Swapping
<1>7. InstalledInv
  <2>1. ~server.listening /\ server.code = "none"
    BY DEF Init
  <2> QED
    BY <1>2, <2>1, FleetAssumption DEF InstalledInv, Off, At, Swapping
<1>8. WorkingInv
  BY <1>2, <1>3 DEF Init, WorkingInv, WorkingCopyKept, AsPlaced, TargetWorks, BakWorks, 
     Off, At, Swapping, OnServer
<1>9. RequestInv
  <2>1. ~asked /\ ~hb.app /\ ~hb.busy /\ ~row.app /\ ~run.app
    BY <1>2 DEF Init, NewRow, Off
  <2> QED
    BY <2>1, Zenon DEF RequestInv, RequestKept
<1> QED
  BY <1>4, <1>5, <1>6, <1>7, <1>8, <1>9 DEF FleetInv

LEMMA FleetStep ==
    ASSUME FleetInv, [Next]_vars
    PROVE  FleetInv'
<1>1. TypeOK' /\ DownloadedInv'
  BY TypeStep, DownloadedStep DEF FleetInv
<1>2. CopiesInv' /\ InstalledInv'
  BY CopiesStep, InstalledStep DEF FleetInv
<1>3. WorkingInv' /\ RequestInv'
  BY <1>2, WorkingStep, RequestStep DEF FleetInv
<1> QED  BY <1>1, <1>2, <1>3 DEF FleetInv

\* Every reachable state of a store and its row is type correct, for any
\* versions, names and number of faults.
THEOREM TypeCorrect == Spec => []TypeOK
<1>1. FleetInv => TypeOK
  BY DEF FleetInv
<1> QED
  BY FleetInit, FleetStep, <1>1, PTL DEF Spec

\* No program of a store is ever lost, however often its updates are cut or
\* fail, and whichever versions do not work.
THEOREM CopiesKept == Spec => []SomeCopyKept
<1>1. FleetInv => SomeCopyKept
  BY DEF FleetInv, CopiesInv
<1> QED
  BY FleetInit, FleetStep, <1>1, PTL DEF Spec

\* Without faults a store keeps a server.py that works, whatever versions it is
\* given and however many updates begin and end.
THEOREM WorkingKept == Spec => []WorkingCopyKept
<1>1. FleetInv => WorkingCopyKept
  BY DEF FleetInv, WorkingInv, WorkingCopyKept
<1> QED
  BY FleetInit, FleetStep, <1>1, PTL DEF Spec

\* A request is in the row, an answer or a run unless the heartbeat it overlapped
\* cleared it or the run it was handed to ended early, for any number of
\* requests, heartbeats and faults.
THEOREM RequestsKept == Spec => []RequestKept
<1>1. FleetInv => RequestKept
  BY DEF FleetInv, RequestInv
<1> QED
  BY FleetInit, FleetStep, <1>1, PTL DEF Spec

\* Only Stamp writes .app_version, and when it does both programs are those the
\* run downloaded and a server that runs is one that works.
THEOREM StampsAreInstalled == Spec => StampedIsInstalled
<1>1. FleetInv /\ [Next]_vars =>
        [stamp' # stamp =>
           /\ \A f \in Files : target[f] = run.got[f]
           /\ server.code \in {"none", run.got["server.py"]}
           /\ run.got["server.py"] \notin Sick \cup Broken]_vars
  <2> SUFFICES ASSUME FleetInv, [Next]_vars, stamp' # stamp
               PROVE  /\ \A f \in Files : target[f] = run.got[f]
                      /\ server.code \in {"none", run.got["server.py"]}
                      /\ run.got["server.py"] \notin Sick \cup Broken
    OBVIOUS
  <2>1. Stamp
    BY DEF vars, Next, CentreNext, UpdateNext, DeployFiles, SetAppVersion, Register,
        DeleteServer, RequestUpdate, BulkRequestUpdate, MarkStale, CommitHeartbeat,
       HeartbeatFails, StartRun, Collect, PostHeartbeat, ModelChecked, ReadVersions, Download, DownloadFails,
       SwapDropsBak, SwapKeeps, SwapPlaces, SwapFails, Restart, RestartFails, Health, RestoreUnlinks,
       RestoreRenames, RestoreSkips, RestartAgain, CleanBak, RunEnds, ServerStarts, ServerListens, ServerStops,
       SetFlags, DiskOnly, Edge, OnlyRun, OnlyServer, central, disk, local, requests
  <2>2. At("stamp") /\ InstalledInv
    BY <2>1 DEF Stamp, FleetInv
  <2> QED
    BY <2>2 DEF InstalledInv, At, Files
<1> QED
  BY FleetInit, FleetStep, <1>1, PTL DEF Spec, StampedIsInstalled
=============================================================================
