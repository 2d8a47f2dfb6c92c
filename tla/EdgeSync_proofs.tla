--------------------------- MODULE EdgeSync_proofs ---------------------------
(***************************************************************************)
(* Proofs of the safety invariants of EdgeSync for every set of versions   *)
(* and every number of cut runs.  None of them is inductive alone: what is *)
(* in current was in staging when it was verified, and what is in rollback *)
(* was in current, so SyncInv says what each stage of a run knows of the   *)
(* three directories.                                                      *)
(***************************************************************************)
EXTENDS EdgeSync, TLAPS

Fetched  == {"download", "body", "verify", "stamp", "drop", "keep", "install"}
Replacing == {"drop", "keep", "install"}

\* What a directory the server loads from holds.
Sound(d) ==
    /\ d.gguf # "partial"
    /\ HasModel(d) /\ d.manifest \in Versions \ Unsigned => d.gguf = d.manifest

\* What the run knows of staging.
Staged ==
    /\ sync.pc \in Fetched => sync.want \in Versions
    /\ sync.pc \in {"verify", "stamp"} \cup Replacing => staging.gguf \in {sync.want, "garbled"}
    /\ sync.pc \in {"stamp"} \cup Replacing => Accepts(staging.gguf)
    /\ sync.pc \in Replacing => staging.manifest = sync.want

\* What the run knows of current and rollback.
Newer ==
    /\ sync.pc \in Fetched \ {"install"} => current.manifest # sync.want
    /\ At("keep") => rollback = NoDir
    /\ At("install") => rollback.manifest # sync.want
    /\ sync.pc \in {"restore", "rename"} => HasModel(rollback)

\* Where a model is, by the number of runs cut short.
Kept ==
    /\ installed /\ cuts = 0 =>
           IF sync.pc \in {"install", "restore", "rename"}
           THEN HasModel(rollback) ELSE HasModel(current)
    /\ installed /\ cuts = 1 /\ sync.pc \notin Replacing =>
           HasModel(current) \/ HasModel(rollback)

SyncInv ==
    /\ TypeOK
    /\ Sound(current) /\ Sound(rollback)
    /\ Staged
    /\ Newer
    /\ RollbackIsEarlier
    /\ Kept

---------------------------------------------------------------------------
(* The records                                                             *)

\* A directory that is there or not, and what one call changes of it.
LEMMA DirType ==
    /\ NoDir \in Dirs /\ EmptyDir \in Dirs
    /\ NoDir.gguf = "none" /\ NoDir.manifest = "none"
    /\ EmptyDir.gguf = "none" /\ EmptyDir.manifest = "none"
  BY DEF NoDir, EmptyDir, Dirs, Contents

LEMMA DirFields ==
    ASSUME NEW d \in Dirs
    PROVE  d.gguf \in Contents /\ d.manifest \in Versions \cup {"none"}
  BY DEF Dirs

LEMMA WriteGguf ==
    ASSUME NEW d \in Dirs, NEW gguf \in Contents
    PROVE  /\ [d EXCEPT !.gguf = gguf] \in Dirs
           /\ [d EXCEPT !.gguf = gguf].gguf = gguf
           /\ [d EXCEPT !.gguf = gguf].manifest = d.manifest
  BY DEF Dirs

LEMMA CreateGguf ==
    ASSUME NEW d \in Dirs, NEW gguf \in Contents
    PROVE  /\ [d EXCEPT !.exists = TRUE, !.gguf = gguf] \in Dirs
           /\ [d EXCEPT !.exists = TRUE, !.gguf = gguf].gguf = gguf
           /\ [d EXCEPT !.exists = TRUE, !.gguf = gguf].manifest = d.manifest
  BY DEF Dirs

LEMMA WriteManifest ==
    ASSUME NEW d \in Dirs, NEW m \in Versions \cup {"none"}
    PROVE  /\ [d EXCEPT !.manifest = m] \in Dirs
           /\ [d EXCEPT !.manifest = m].gguf = d.gguf
           /\ [d EXCEPT !.manifest = m].manifest = m
  BY DEF Dirs

\* What is left of a removal cut short lacks a part of what was there.
LEMMA HalfRemovedType ==
    ASSUME NEW d \in Dirs, NEW e \in HalfRemoved(d)
    PROVE  /\ e \in Dirs
           /\ e.gguf \in {"none", d.gguf}
           /\ e.manifest \in {"none", d.manifest}
<1>1. CASE e = d
  BY <1>1
<1>2. CASE e = [d EXCEPT !.gguf = "none"]
  BY <1>2, WriteGguf DEF Contents
<1>3. CASE e = [d EXCEPT !.manifest = "none"]
  BY <1>3, WriteManifest
<1> QED
  BY <1>1, <1>2, <1>3 DEF HalfRemoved

\* How a run goes on and ends.
LEMMA GoToType ==
    ASSUME sync \in SyncStates, NEW stage \in SyncStages, GoTo(stage)
    PROVE  /\ sync' \in SyncStates
           /\ sync'.pc = stage
           /\ sync'.want = sync.want
  BY DEF GoTo, SyncStates

LEMMA EndRunType ==
    ASSUME sync \in SyncStates, NEW result \in Results, EndRun(result)
    PROVE  sync' \in SyncStates /\ sync'.pc = "off" /\ sync'.want = sync.want
  BY DEF EndRun, SyncStates, SyncStages

LEMMA NewRunType ==
    sync' = [pc |-> "fetch", want |-> "none", result |-> "none"]
        => sync' \in SyncStates /\ sync'.pc = "fetch"
  BY DEF SyncStates, SyncStages, Results

LEMMA WantType ==
    ASSUME sync \in SyncStates, NEW version \in Versions,
           sync' = [sync EXCEPT !.pc = "download", !.want = version]
    PROVE  sync' \in SyncStates /\ sync'.pc = "download" /\ sync'.want = version
  BY DEF SyncStates, SyncStages

LEMMA SyncFields ==
    sync \in SyncStates => sync.pc \in SyncStages /\ sync.want \in Versions \cup {"none"}
  BY DEF SyncStates

---------------------------------------------------------------------------
(* Type correctness                                                        *)

LEMMA InitTypeOK == Init => TypeOK
<1> SUFFICES ASSUME Init PROVE TypeOK
  OBVIOUS
<1>1. current \in Dirs /\ staging \in Dirs /\ rollback \in Dirs
  BY DirType DEF Init
<1>2. sync \in SyncStates
  BY DEF Init, SyncStates, SyncStages, Results
<1>3. server \in ServerStates
  BY DEF Init, ServerDown, ServerStates, Contents
<1>4. manifest \in Versions /\ cuts \in 0..MaxCuts
  BY VersionsAssumption DEF Init
<1>5. installed \in BOOLEAN
  BY DEF Init
<1> QED
  BY <1>1, <1>2, <1>3, <1>4, <1>5 DEF TypeOK

\* The server's record, action by action.
LEMMA ServerType ==
    ASSUME server \in ServerStates, current \in Dirs,
           \/ PostReload
           \/ RestorePings
           \/ ServerStarts
           \/ ServerListens
           \/ ServerStops
           \/ AskLogsVersion
           \/ ReloadBegins
           \/ ReloadFindsNoModel
           \/ ReloadSucceeds
           \/ ReloadFails
    PROVE  server' \in ServerStates
<1>1. current.gguf \in Contents /\ current.manifest \in Versions \cup {"none"}
  BY DirFields
<1>2. CASE PostReload
  BY <1>1, <1>2 DEF PostReload, ServerStates, Contents
<1>3. CASE RestorePings
  BY <1>1, <1>3 DEF RestorePings, ServerStates, Contents
<1>4. CASE ServerStarts
  BY <1>1, <1>4 DEF ServerStarts, ServerDown, ServerStates, Contents
<1>5. CASE ServerListens
  BY <1>1, <1>5 DEF ServerListens, Loadable, ServerStates, Contents
<1>6. CASE ServerStops
  BY <1>1, <1>6 DEF ServerStops, ServerDown, ServerStates, Contents
<1>7. CASE AskLogsVersion
  BY <1>1, <1>7 DEF AskLogsVersion, ReadVersion, ServerStates, Contents
<1>8. CASE ReloadBegins
  BY <1>1, <1>8 DEF ReloadBegins, HasModel, ServerStates, Contents
<1>9. CASE ReloadFindsNoModel
  BY <1>1, <1>9 DEF ReloadFindsNoModel, HasModel, ServerStates, Contents
<1>10. CASE ReloadSucceeds
  BY <1>1, <1>10
  DEF ReloadSucceeds, Loadable, Loaded, ReadVersion, ServerStates, Contents
<1>11. CASE ReloadFails
  BY <1>1, <1>11 DEF ReloadFails, ServerStates, Contents
<1> QED
  BY <1>2, <1>3, <1>4, <1>5, <1>6, <1>7, <1>8, <1>9, <1>10, <1>11

LEMMA TypeStep == TypeOK /\ [Next]_vars => TypeOK'
<1> SUFFICES ASSUME TypeOK, [Next]_vars PROVE TypeOK'
  OBVIOUS
<1> USE VersionsAssumption
<1>1. CASE StartCheck
  BY <1>1, NewRunType
  DEF StartCheck, At, OnlySync, DiskOnly, dirs, TypeOK, SyncStages,
      SwapStages, Results, Contents
<1>2. CASE FetchManifest
  BY <1>2, EndRunType, WantType
  DEF FetchManifest, UpToDate, At, OnlySync, DiskOnly, dirs, TypeOK,
      SyncStages, SwapStages, Results, Contents
<1>3. CASE DownloadStarts
  BY <1>3, CreateGguf, GoToType
  DEF DownloadStarts, At, OnlySync, DiskOnly, dirs, TypeOK, SyncStages,
      SwapStages, Results, Contents
<1>4. CASE DownloadEnds
  BY <1>4, WriteGguf, GoToType, SyncFields
  DEF DownloadEnds, At, OnlySync, DiskOnly, dirs, TypeOK, SyncStages,
      SwapStages, Results, Contents
<1>5. CASE DownloadFails
  BY <1>5, DirType, EndRunType
  DEF DownloadFails, At, OnlySync, DiskOnly, dirs, TypeOK, SyncStages,
      SwapStages, Results, Contents
<1>6. CASE Verify
  BY <1>6, DirType, GoToType, EndRunType
  DEF Verify, Accepts, At, OnlySync, DiskOnly, dirs, TypeOK, SyncStages,
      SwapStages, Results, Contents
<1>7. CASE StampStaging
  BY <1>7, WriteManifest, GoToType, SyncFields
  DEF StampStaging, At, OnlySync, DiskOnly, dirs, TypeOK, SyncStages,
      SwapStages, Results, Contents
<1>8. CASE DropRollback
  BY <1>8, DirType, GoToType
  DEF DropRollback, At, OnlySync, DiskOnly, dirs, TypeOK, SyncStages,
      SwapStages, Results, Contents
<1>9. CASE KeepCurrent
  BY <1>9, DirType, GoToType
  DEF KeepCurrent, HasModel, At, OnlySync, DiskOnly, dirs, TypeOK, SyncStages,
      SwapStages, Results, Contents
<1>10. CASE Install
  BY <1>10, DirType, GoToType
  DEF Install, At, OnlySync, DiskOnly, dirs, TypeOK, SyncStages, SwapStages,
      Results, Contents
<1>11. CASE PostReload
  BY <1>11, GoToType, EndRunType, ServerType
  DEF PostReload, At, OnlySync, DiskOnly, dirs, TypeOK, SyncStages,
      SwapStages, Results, Contents
<1>12. CASE RestoreRemovesCurrent
  BY <1>12, DirType, GoToType
  DEF RestoreRemovesCurrent, At, OnlySync, DiskOnly, dirs, TypeOK, SyncStages,
      SwapStages, Results, Contents
<1>13. CASE RestoreRenames
  BY <1>13, DirType, GoToType
  DEF RestoreRenames, At, OnlySync, DiskOnly, dirs, TypeOK, SyncStages,
      SwapStages, Results, Contents
<1>14. CASE RestorePings
  BY <1>14, EndRunType, ServerType
  DEF RestorePings, At, OnlySync, DiskOnly, dirs, TypeOK, SyncStages,
      SwapStages, Results, Contents
<1>15. CASE RunEnds
  BY <1>15, HalfRemovedType, EndRunType
  DEF RunEnds, At, OnlySync, DiskOnly, dirs, TypeOK, SyncStages, SwapStages,
      Results, Contents
<1>16. CASE ServerStarts
  BY <1>16, ServerType
  DEF ServerStarts, ServerDown, At, OnlySync, DiskOnly, dirs, TypeOK,
      SyncStages, SwapStages, Results, Contents
<1>17. CASE ServerListens
  BY <1>17, ServerType
  DEF ServerListens, Loadable, At, OnlySync, DiskOnly, dirs, TypeOK,
      SyncStages, SwapStages, Results, Contents
<1>18. CASE ServerStops
  BY <1>18, EndRunType, ServerType
  DEF ServerStops, ServerDown, At, OnlySync, DiskOnly, dirs, TypeOK,
      SyncStages, SwapStages, Results, Contents
<1>19. CASE AskLogsVersion
  BY <1>19, ServerType
  DEF AskLogsVersion, ReadVersion, At, OnlySync, DiskOnly, dirs, TypeOK,
      SyncStages, SwapStages, Results, Contents
<1>20. CASE ReloadBegins
  BY <1>20, ServerType
  DEF ReloadBegins, HasModel, At, OnlySync, DiskOnly, dirs, TypeOK,
      SyncStages, SwapStages, Results, Contents
<1>21. CASE ReloadFindsNoModel
  BY <1>21, EndRunType, ServerType
  DEF ReloadFindsNoModel, HasModel, At, OnlySync, DiskOnly, dirs, TypeOK,
      SyncStages, SwapStages, Results, Contents
<1>22. CASE ReloadSucceeds
  BY <1>22, GoToType, EndRunType, ServerType
  DEF ReloadSucceeds, Loadable, Loaded, ReadVersion, Reloaded, Answered,
      HasModel, At, OnlySync, DiskOnly, dirs, TypeOK, SyncStages, SwapStages,
      Results, Contents
<1>23. CASE ReloadFails
  BY <1>23, EndRunType, ServerType
  DEF ReloadFails, ReloadRefused, Answered, At, OnlySync, DiskOnly, dirs,
      TypeOK, SyncStages, SwapStages, Results, Contents
<1>24. CASE Publish
  BY <1>24
  DEF Publish, At, OnlySync, DiskOnly, dirs, TypeOK, SyncStages, SwapStages,
      Results, Contents
<1>25. CASE UNCHANGED vars
  BY <1>25 DEF vars, dirs, TypeOK
<1> QED
  BY <1>1, <1>2, <1>3, <1>4, <1>5, <1>6, <1>7, <1>8, <1>9, <1>10, <1>11,
     <1>12, <1>13, <1>14, <1>15, <1>16, <1>17, <1>18, <1>19, <1>20, <1>21,
     <1>22, <1>23, <1>24, <1>25
  DEF Next, SyncNext, ServerNext

---------------------------------------------------------------------------
(* The inductive invariant                                                 *)

LEMMA InitSyncInv == Init => SyncInv
  BY InitTypeOK, DirType, VersionsAssumption
  DEF Init, SyncInv, At, Sound, Staged, Newer, RollbackIsEarlier, Kept, Fetched, Replacing, HasModel, Accepts

LEMMA SyncInvStep == SyncInv /\ [Next]_vars => SyncInv'
<1> SUFFICES ASSUME SyncInv, [Next]_vars PROVE SyncInv'
  OBVIOUS
<1>t. TypeOK /\ TypeOK'
  BY TypeStep DEF SyncInv
<1>f. /\ current.gguf \in Contents /\ current.manifest \in Versions \cup {"none"}
      /\ rollback.gguf \in Contents /\ rollback.manifest \in Versions \cup {"none"}
      /\ cuts \in 0..MaxCuts
  BY <1>t, DirFields DEF TypeOK
<1> USE VersionsAssumption
<1>1. CASE StartCheck
  BY <1>t, <1>f, <1>1, NewRunType
  DEF SyncInv, StartCheck, At, OnlySync, DiskOnly, dirs, Sound, Staged, Newer,
      RollbackIsEarlier, Kept, Fetched, Replacing, HasModel, Accepts, TypeOK,
      SyncStages, SwapStages, Results, Contents
<1>2. CASE FetchManifest
  BY <1>t, <1>f, <1>2, EndRunType, WantType
  DEF SyncInv, FetchManifest, UpToDate, At, OnlySync, DiskOnly, dirs, Sound,
      Staged, Newer, RollbackIsEarlier, Kept, Fetched, Replacing, HasModel,
      Accepts, TypeOK, SyncStages, SwapStages, Results, Contents
<1>3. CASE DownloadStarts
  <2>1. sync'.pc = "body" /\ sync'.want = sync.want /\ sync.pc = "download"
    BY <1>t, <1>3, GoToType DEF DownloadStarts, At, TypeOK, SyncStages
  <2> QED
    BY <2>1, <1>t, <1>f, <1>3 DEF SyncInv, DownloadStarts, At, OnlySync, DiskOnly, dirs, Sound, Staged, Newer, RollbackIsEarlier, Kept, Fetched, Replacing, HasModel, Accepts
<1>4. CASE DownloadEnds
  BY <1>t, <1>f, <1>4, WriteGguf, GoToType, SyncFields
  DEF SyncInv, DownloadEnds, At, OnlySync, DiskOnly, dirs, Sound, Staged,
      Newer, RollbackIsEarlier, Kept, Fetched, Replacing, HasModel, Accepts,
      TypeOK, SyncStages, SwapStages, Results, Contents
<1>5. CASE DownloadFails
  BY <1>t, <1>f, <1>5, DirType, EndRunType
  DEF SyncInv, DownloadFails, At, OnlySync, DiskOnly, dirs, Sound, Staged,
      Newer, RollbackIsEarlier, Kept, Fetched, Replacing, HasModel, Accepts,
      TypeOK, SyncStages, SwapStages, Results, Contents
<1>6. CASE Verify
  BY <1>t, <1>f, <1>6, DirType, GoToType, EndRunType
  DEF SyncInv, Verify, Accepts, At, OnlySync, DiskOnly, dirs, Sound, Staged,
      Newer, RollbackIsEarlier, Kept, Fetched, Replacing, HasModel, TypeOK,
      SyncStages, SwapStages, Results, Contents
<1>7. CASE StampStaging
  BY <1>t, <1>f, <1>7, WriteManifest, GoToType, SyncFields
  DEF SyncInv, StampStaging, At, OnlySync, DiskOnly, dirs, Sound, Staged,
      Newer, RollbackIsEarlier, Kept, Fetched, Replacing, HasModel, Accepts,
      TypeOK, SyncStages, SwapStages, Results, Contents
<1>8. CASE DropRollback
  BY <1>t, <1>f, <1>8, DirType, GoToType
  DEF SyncInv, DropRollback, At, OnlySync, DiskOnly, dirs, Sound, Staged,
      Newer, RollbackIsEarlier, Kept, Fetched, Replacing, HasModel, Accepts,
      TypeOK, SyncStages, SwapStages, Results, Contents
<1>9. CASE KeepCurrent
  BY <1>t, <1>f, <1>9, DirType, GoToType
  DEF SyncInv, KeepCurrent, HasModel, At, OnlySync, DiskOnly, dirs, Sound,
      Staged, Newer, RollbackIsEarlier, Kept, Fetched, Replacing, Accepts,
      TypeOK, SyncStages, SwapStages, Results, Contents
<1>10. CASE Install
  BY <1>t, <1>f, <1>10, DirType, GoToType
  DEF SyncInv, Install, At, OnlySync, DiskOnly, dirs, Sound, Staged, Newer,
      RollbackIsEarlier, Kept, Fetched, Replacing, HasModel, Accepts, TypeOK,
      SyncStages, SwapStages, Results, Contents
<1>11. CASE PostReload
  BY <1>t, <1>f, <1>11, GoToType, EndRunType
  DEF SyncInv, PostReload, At, OnlySync, DiskOnly, dirs, Sound, Staged, Newer,
      RollbackIsEarlier, Kept, Fetched, Replacing, HasModel, Accepts, TypeOK,
      SyncStages, SwapStages, Results, Contents
<1>12. CASE RestoreRemovesCurrent
  BY <1>t, <1>f, <1>12, DirType, GoToType
  DEF SyncInv, RestoreRemovesCurrent, At, OnlySync, DiskOnly, dirs, Sound,
      Staged, Newer, RollbackIsEarlier, Kept, Fetched, Replacing, HasModel,
      Accepts, TypeOK, SyncStages, SwapStages, Results, Contents
<1>13. CASE RestoreRenames
  BY <1>t, <1>f, <1>13, DirType, GoToType
  DEF SyncInv, RestoreRenames, At, OnlySync, DiskOnly, dirs, Sound, Staged,
      Newer, RollbackIsEarlier, Kept, Fetched, Replacing, HasModel, Accepts,
      TypeOK, SyncStages, SwapStages, Results, Contents
<1>14. CASE RestorePings
  BY <1>t, <1>f, <1>14, EndRunType
  DEF SyncInv, RestorePings, At, OnlySync, DiskOnly, dirs, Sound, Staged,
      Newer, RollbackIsEarlier, Kept, Fetched, Replacing, HasModel, Accepts,
      TypeOK, SyncStages, SwapStages, Results, Contents
<1>15. CASE RunEnds
  BY <1>t, <1>f, <1>15, HalfRemovedType, EndRunType
  DEF SyncInv, RunEnds, At, OnlySync, DiskOnly, dirs, Sound, Staged, Newer,
      RollbackIsEarlier, Kept, Fetched, Replacing, HasModel, Accepts, TypeOK,
      SyncStages, SwapStages, Results, Contents
<1>16. CASE ServerStarts
  BY <1>t, <1>f, <1>16
  DEF SyncInv, ServerStarts, At, OnlySync, DiskOnly, dirs, Sound, Staged,
      Newer, RollbackIsEarlier, Kept, Fetched, Replacing, HasModel, Accepts,
      TypeOK, SyncStages, SwapStages, Results, Contents
<1>17. CASE ServerListens
  BY <1>t, <1>f, <1>17
  DEF SyncInv, ServerListens, At, OnlySync, DiskOnly, dirs, Sound, Staged,
      Newer, RollbackIsEarlier, Kept, Fetched, Replacing, HasModel, Accepts,
      TypeOK, SyncStages, SwapStages, Results, Contents
<1>18. CASE ServerStops
  BY <1>t, <1>f, <1>18, EndRunType
  DEF SyncInv, ServerStops, ServerDown, At, OnlySync, DiskOnly, dirs, Sound,
      Staged, Newer, RollbackIsEarlier, Kept, Fetched, Replacing, HasModel,
      Accepts, TypeOK, SyncStages, SwapStages, Results, Contents
<1>19. CASE AskLogsVersion
  BY <1>t, <1>f, <1>19
  DEF SyncInv, AskLogsVersion, At, OnlySync, DiskOnly, dirs, Sound, Staged,
      Newer, RollbackIsEarlier, Kept, Fetched, Replacing, HasModel, Accepts,
      TypeOK, SyncStages, SwapStages, Results, Contents
<1>20. CASE ReloadBegins
  BY <1>t, <1>f, <1>20
  DEF SyncInv, ReloadBegins, HasModel, At, OnlySync, DiskOnly, dirs, Sound,
      Staged, Newer, RollbackIsEarlier, Kept, Fetched, Replacing, Accepts,
      TypeOK, SyncStages, SwapStages, Results, Contents
<1>21. CASE ReloadFindsNoModel
  BY <1>t, <1>f, <1>21, EndRunType
  DEF SyncInv, ReloadFindsNoModel, HasModel, At, OnlySync, DiskOnly, dirs,
      Sound, Staged, Newer, RollbackIsEarlier, Kept, Fetched, Replacing,
      Accepts, TypeOK, SyncStages, SwapStages, Results, Contents
<1>22. CASE ReloadSucceeds
  BY <1>t, <1>f, <1>22, GoToType, EndRunType
  DEF SyncInv, ReloadSucceeds, Loadable, Loaded, ReadVersion, Reloaded,
      Answered, HasModel, At, OnlySync, DiskOnly, dirs, Sound, Staged, Newer,
      RollbackIsEarlier, Kept, Fetched, Replacing, Accepts, TypeOK,
      SyncStages, SwapStages, Results, Contents
<1>23. CASE ReloadFails
  BY <1>t, <1>f, <1>23, EndRunType
  DEF SyncInv, ReloadFails, ReloadRefused, Answered, At, OnlySync, DiskOnly,
      dirs, Sound, Staged, Newer, RollbackIsEarlier, Kept, Fetched, Replacing,
      HasModel, Accepts, TypeOK, SyncStages, SwapStages, Results, Contents
<1>24. CASE Publish
  BY <1>t, <1>f, <1>24
  DEF SyncInv, Publish, At, OnlySync, DiskOnly, dirs, Sound, Staged, Newer,
      RollbackIsEarlier, Kept, Fetched, Replacing, HasModel, Accepts, TypeOK,
      SyncStages, SwapStages, Results, Contents
<1>25. CASE UNCHANGED vars
  BY <1>t, <1>25
  DEF SyncInv, vars, dirs, At, Sound, Staged, Newer, RollbackIsEarlier, Kept,
      Fetched, Replacing, HasModel, Accepts
<1> QED
  BY <1>1, <1>2, <1>3, <1>4, <1>5, <1>6, <1>7, <1>8, <1>9, <1>10, <1>11,
     <1>12, <1>13, <1>14, <1>15, <1>16, <1>17, <1>18, <1>19, <1>20, <1>21,
     <1>22, <1>23, <1>24, <1>25
  DEF Next, SyncNext, ServerNext

\* Every reachable state of the edge satisfies the invariant.
THEOREM SyncInvariant == Spec => []SyncInv
<1>1. Init => SyncInv
  BY InitSyncInv
<1>2. SyncInv /\ [Next]_vars => SyncInv'
  BY SyncInvStep
<1> QED
  BY <1>1, <1>2, PTL DEF Spec

\* The variables of the sync program, the server and the model directory stay
\* in their sets, for every set of versions and every number of cut runs.
THEOREM SyncTypeCorrect == Spec => []TypeOK
<1>1. SyncInv => TypeOK
  BY DEF SyncInv
<1> QED
  BY <1>1, SyncInvariant, PTL

\* A directory the server can load from names the version of its bytes if the
\* manifest has a checksum, whatever crashes the runs suffered.
THEOREM InstalledVerified == Spec => []InstalledIsVerified
<1>1. SyncInv => InstalledIsVerified
  BY DEF SyncInv, Sound, InstalledIsVerified
<1> QED
  BY <1>1, SyncInvariant, PTL

\* The rollback directory holds an earlier model than current.
THEOREM RollbackEarlier == Spec => []RollbackIsEarlier
<1>1. SyncInv => RollbackIsEarlier
  BY DEF SyncInv
<1> QED
  BY <1>1, SyncInvariant, PTL

\* No single run cut short in the swap loses the last whole model.
THEOREM LastModelSafe == Spec => []LastModelKept
<1>1. SyncInv => LastModelKept
  <2> SUFFICES ASSUME SyncInv, installed, cuts <= 1
               PROVE  \E d \in {current, staging, rollback} : Whole(d)
    BY DEF LastModelKept
  <2> USE VersionsAssumption
  <2>1. CASE sync.pc \in Replacing
    <3>1. Whole(staging)
      BY <2>1 DEF SyncInv, Staged, Fetched, Replacing, Whole
    <3> QED
      BY <3>1
  <2>2. CASE sync.pc \notin Replacing
    <3>1. cuts = 0 \/ cuts = 1
      BY DEF SyncInv, TypeOK
    <3>2. HasModel(current) \/ HasModel(rollback)
      BY <2>2, <3>1 DEF SyncInv, Kept
    <3>3. Whole(current) \/ Whole(rollback)
      BY <3>2 DEF SyncInv, Sound, HasModel, Whole
    <3> QED
      BY <3>3
  <2> QED
    BY <2>1, <2>2
<1> QED
  BY <1>1, SyncInvariant, PTL

---------------------------------------------------------------------------
(* A reload that reports success                                           *)

\* What a run knows once it installed the model: current holds what it
\* fetched, and a load that began after its request opened exactly that.
ReloadInv ==
    /\ sync.pc \in {"reload", "waiting"} =>
           /\ sync.want \in Versions
           /\ current.manifest = sync.want
           /\ current.gguf \in {sync.want, "garbled"}
    /\ server.busy => server.listening
    /\ Answered /\ server.busy => server.opened = current.gguf

LEMMA InitReloadInv == Init => ReloadInv
  BY DEF Init, ReloadInv, Answered, At, ServerDown

\* The stages a run can be at after each of its own calls.
LEMMA StageStep ==
    ASSUME TypeOK, SyncNext, ~Install, ~PostReload
    PROVE  /\ sync'.pc \notin {"reload", "waiting"}
           /\ server.busy' = server.busy /\ server.listening' = server.listening
<1>1. CASE StartCheck
  BY <1>1 DEF StartCheck, OnlySync, DiskOnly, dirs, GoTo, EndRun, TypeOK, SyncStates, ServerStates
<1>2. CASE FetchManifest
  BY <1>2 DEF FetchManifest, OnlySync, DiskOnly, dirs, GoTo, EndRun, TypeOK, SyncStates, ServerStates
<1>3. CASE DownloadStarts
  BY <1>3 DEF DownloadStarts, OnlySync, DiskOnly, dirs, GoTo, EndRun, TypeOK, SyncStates, ServerStates
<1>4. CASE DownloadEnds
  BY <1>4 DEF DownloadEnds, OnlySync, DiskOnly, dirs, GoTo, EndRun, TypeOK, SyncStates, ServerStates
<1>5. CASE DownloadFails
  BY <1>5 DEF DownloadFails, OnlySync, DiskOnly, dirs, GoTo, EndRun, TypeOK, SyncStates, ServerStates
<1>6. CASE Verify
  BY <1>6 DEF Verify, OnlySync, DiskOnly, dirs, GoTo, EndRun, TypeOK, SyncStates, ServerStates
<1>7. CASE StampStaging
  BY <1>7 DEF StampStaging, OnlySync, DiskOnly, dirs, GoTo, EndRun, TypeOK, SyncStates, ServerStates
<1>8. CASE DropRollback
  BY <1>8 DEF DropRollback, OnlySync, DiskOnly, dirs, GoTo, EndRun, TypeOK, SyncStates, ServerStates
<1>9. CASE KeepCurrent
  BY <1>9 DEF KeepCurrent, OnlySync, DiskOnly, dirs, GoTo, EndRun, TypeOK, SyncStates, ServerStates
<1>10. CASE RestoreRemovesCurrent
  BY <1>10 DEF RestoreRemovesCurrent, OnlySync, DiskOnly, dirs, GoTo, EndRun, TypeOK, SyncStates, ServerStates
<1>11. CASE RestoreRenames
  BY <1>11 DEF RestoreRenames, OnlySync, DiskOnly, dirs, GoTo, EndRun, TypeOK, SyncStates, ServerStates
<1>12. CASE RestorePings
  BY <1>12 DEF RestorePings, OnlySync, DiskOnly, dirs, GoTo, EndRun, TypeOK, SyncStates, ServerStates
<1>13. CASE RunEnds
  BY <1>13 DEF RunEnds, OnlySync, DiskOnly, dirs, GoTo, EndRun, TypeOK, SyncStates, ServerStates
<1> QED
  BY <1>1, <1>2, <1>3, <1>4, <1>5, <1>6, <1>7, <1>8, <1>9, <1>10, <1>11, <1>12, <1>13 DEF SyncNext

LEMMA ReloadStep ==
    ASSUME SyncInv, SyncInv', ReloadInv, [Next]_vars
    PROVE  ReloadInv'
<1>t. TypeOK
  BY DEF SyncInv
<1>1. CASE Install
  <2>1. sync'.pc = "reload" /\ sync'.want = sync.want /\ At("install")
    BY <1>t, <1>1, GoToType DEF Install, TypeOK, SyncStages, SwapStages
  <2>2. /\ sync.want \in Versions /\ staging.manifest = sync.want
        /\ staging.gguf \in {sync.want, "garbled"}
    BY <2>1 DEF SyncInv, Staged, Fetched, Replacing, At
  <2> QED
    BY <1>1, <2>1, <2>2 DEF Install, ReloadInv, Answered, At
<1>2. CASE PostReload
  <2>1. At("reload")
    BY <1>2 DEF PostReload
  <2>2. CASE ~server.listening
    <3>1. sync'.pc = "off" /\ server' = server
      BY <1>t, <1>2, <2>2, EndRunType DEF PostReload, TypeOK, Results
    <3> QED
      BY <3>1 DEF ReloadInv, Answered, At
  <2>3. CASE server.listening
    <3>1. /\ sync'.pc = "waiting" /\ sync'.want = sync.want
          /\ server' = [server EXCEPT !.asked = TRUE] /\ current' = current
      BY <1>t, <1>2, <2>3, GoToType
      DEF PostReload, TypeOK, SyncStages, SwapStages, dirs
    <3>2. server'.asked /\ server'.listening = server.listening /\ server'.busy = server.busy
      BY <1>t, <3>1 DEF TypeOK, ServerStates
    <3> QED
      BY <2>1, <3>1, <3>2 DEF ReloadInv, Answered, At
  <2> QED
    BY <2>2, <2>3
<1>3. CASE SyncNext /\ ~Install /\ ~PostReload
  BY <1>t, <1>3, StageStep DEF ReloadInv, Answered, At
<1>4. CASE ServerStarts
  BY <1>t, <1>4 DEF ServerStarts, ServerDown, dirs, ReloadInv, Answered, At
<1>5. CASE ServerListens
  BY <1>t, <1>5 DEF ServerListens, dirs, ReloadInv, Answered, At, TypeOK, ServerStates
<1>6. CASE ServerStops
  BY <1>t, <1>6, EndRunType
  DEF ServerStops, ServerDown, dirs, ReloadInv, Answered, At, TypeOK, Results
<1>7. CASE AskLogsVersion
  BY <1>t, <1>7 DEF AskLogsVersion, dirs, ReloadInv, Answered, At, TypeOK, ServerStates
<1>8. CASE ReloadBegins
  BY <1>t, <1>8 DEF ReloadBegins, dirs, ReloadInv, Answered, At, TypeOK, ServerStates
<1>9. CASE ReloadFindsNoModel
  BY <1>t, <1>9, EndRunType
  DEF ReloadFindsNoModel, dirs, ReloadInv, Answered, At, TypeOK, ServerStates, Results
<1>10. CASE ReloadSucceeds
  <2>1. ~server'.busy
    BY <1>t, <1>10 DEF ReloadSucceeds, Loaded, TypeOK, ServerStates
  <2>2. sync' = sync \/ sync'.pc \in {"off", "restore"}
    BY <1>t, <1>10, EndRunType, GoToType
    DEF ReloadSucceeds, Reloaded, TypeOK, Results, SyncStages, SwapStages
  <2> QED
    BY <2>1, <2>2, <1>10 DEF ReloadSucceeds, dirs, ReloadInv, Answered, At
<1>11. CASE ReloadFails
  <2>1. ~server'.busy
    BY <1>t, <1>11 DEF ReloadFails, TypeOK, ServerStates
  <2>2. sync' = sync \/ sync'.pc = "off"
    BY <1>t, <1>11, EndRunType DEF ReloadFails, ReloadRefused, TypeOK, Results
  <2> QED
    BY <2>1, <2>2, <1>11 DEF ReloadFails, dirs, ReloadInv, Answered, At
<1>12. CASE Publish
  BY <1>12 DEF Publish, dirs, ReloadInv, Answered, At
<1>13. CASE UNCHANGED vars
  BY <1>13 DEF vars, dirs, ReloadInv, Answered, At
<1> QED
  BY <1>1, <1>2, <1>3, <1>4, <1>5, <1>6, <1>7, <1>8, <1>9, <1>10, <1>11, <1>12, <1>13
  DEF Next, ServerNext

\* Only the answer to a run's own reload ends it with that result.
LEMMA OnlyReloadSucceeds ==
    ASSUME TypeOK, [Next]_vars, sync.result # "reloaded", sync'.result = "reloaded"
    PROVE  ReloadSucceeds /\ Answered
<1>1. CASE StartCheck
  BY <1>1 DEF StartCheck, OnlySync, GoTo, EndRun, TypeOK, SyncStates
<1>2. CASE FetchManifest
  BY <1>2 DEF FetchManifest, OnlySync, GoTo, EndRun, TypeOK, SyncStates
<1>3. CASE DownloadStarts
  BY <1>3 DEF DownloadStarts, OnlySync, GoTo, EndRun, TypeOK, SyncStates
<1>4. CASE DownloadEnds
  BY <1>4 DEF DownloadEnds, OnlySync, GoTo, EndRun, TypeOK, SyncStates
<1>5. CASE DownloadFails
  BY <1>5 DEF DownloadFails, OnlySync, GoTo, EndRun, TypeOK, SyncStates
<1>6. CASE Verify
  BY <1>6 DEF Verify, OnlySync, GoTo, EndRun, TypeOK, SyncStates
<1>7. CASE StampStaging
  BY <1>7 DEF StampStaging, OnlySync, GoTo, EndRun, TypeOK, SyncStates
<1>8. CASE DropRollback
  BY <1>8 DEF DropRollback, OnlySync, GoTo, EndRun, TypeOK, SyncStates
<1>9. CASE KeepCurrent
  BY <1>9 DEF KeepCurrent, OnlySync, GoTo, EndRun, TypeOK, SyncStates
<1>10. CASE Install
  BY <1>10 DEF Install, OnlySync, GoTo, EndRun, TypeOK, SyncStates
<1>11. CASE PostReload
  BY <1>11 DEF PostReload, OnlySync, GoTo, EndRun, TypeOK, SyncStates
<1>12. CASE RestoreRemovesCurrent
  BY <1>12 DEF RestoreRemovesCurrent, OnlySync, GoTo, EndRun, TypeOK, SyncStates
<1>13. CASE RestoreRenames
  BY <1>13 DEF RestoreRenames, OnlySync, GoTo, EndRun, TypeOK, SyncStates
<1>14. CASE RestorePings
  BY <1>14 DEF RestorePings, OnlySync, GoTo, EndRun, TypeOK, SyncStates
<1>15. CASE RunEnds
  BY <1>15 DEF RunEnds, OnlySync, GoTo, EndRun, TypeOK, SyncStates
<1>16. CASE ServerStarts
  BY <1>16 DEF ServerStarts, OnlySync, GoTo, EndRun, TypeOK, SyncStates
<1>17. CASE ServerListens
  BY <1>17 DEF ServerListens, OnlySync, GoTo, EndRun, TypeOK, SyncStates
<1>18. CASE ServerStops
  BY <1>18 DEF ServerStops, OnlySync, GoTo, EndRun, TypeOK, SyncStates
<1>19. CASE AskLogsVersion
  BY <1>19 DEF AskLogsVersion, OnlySync, GoTo, EndRun, TypeOK, SyncStates
<1>20. CASE ReloadBegins
  BY <1>20 DEF ReloadBegins, OnlySync, GoTo, EndRun, TypeOK, SyncStates
<1>21. CASE ReloadFindsNoModel
  BY <1>21 DEF ReloadFindsNoModel, OnlySync, GoTo, EndRun, TypeOK, SyncStates
<1>22. CASE ReloadSucceeds
  BY <1>22 DEF ReloadSucceeds, Reloaded
<1>23. CASE ReloadFails
  BY <1>23 DEF ReloadFails, ReloadRefused, OnlySync, GoTo, EndRun, TypeOK, SyncStates
<1>24. CASE Publish
  BY <1>24 DEF Publish, OnlySync, GoTo, EndRun, TypeOK, SyncStates
<1>25. CASE UNCHANGED vars
  BY <1>25 DEF vars, OnlySync, GoTo, EndRun, TypeOK, SyncStates
<1> QED
  BY <1>1, <1>2, <1>3, <1>4, <1>5, <1>6, <1>7, <1>8, <1>9, <1>10, <1>11, <1>12, <1>13, <1>14, <1>15, <1>16, <1>17, <1>18, <1>19, <1>20, <1>21, <1>22, <1>23, <1>24, <1>25
  DEF Next, SyncNext, ServerNext

LEMMA ReloadedStep ==
    ASSUME SyncInv, ReloadInv, [Next]_vars,
           sync.result # "reloaded", sync'.result = "reloaded"
    PROVE  server'.llm = sync.want /\ server'.cached = sync.want
<1>1. TypeOK
  BY DEF SyncInv
<1>2. ReloadSucceeds /\ Answered
  BY <1>1, OnlyReloadSucceeds
<1>3. /\ sync.want \in Versions /\ current.manifest = sync.want
      /\ server.opened \in {sync.want, "garbled"}
  BY <1>2 DEF ReloadInv, ReloadSucceeds, Answered, At
<1>4. server.opened = sync.want
  BY <1>2, <1>3, VersionsAssumption DEF ReloadSucceeds, Loadable
<1>5. ReadVersion = sync.want
  BY <1>3, VersionsAssumption DEF ReadVersion
<1> QED
  BY <1>1, <1>2, <1>4, <1>5 DEF ReloadSucceeds, Loaded, TypeOK, ServerStates

\* A run that reports "Server reloaded" leaves the server answering with the
\* version it installed and logging that version's name, for every set of
\* versions and every number of reloads that earlier runs gave up on.
THEOREM ReloadServes == Spec => ReloadedServesIt
<1>1. Init => SyncInv /\ ReloadInv
  BY InitSyncInv, InitReloadInv
<1>2. SyncInv /\ ReloadInv /\ [Next]_vars => SyncInv' /\ ReloadInv'
  BY SyncInvStep, ReloadStep
<1>3. SyncInv /\ ReloadInv /\ [Next]_vars
          => [sync.result # "reloaded" /\ sync'.result = "reloaded"
                 => server'.llm = sync.want /\ server'.cached = sync.want]_vars
  BY ReloadedStep
<1> QED
  BY <1>1, <1>2, <1>3, PTL DEF Spec, ReloadedServesIt

---------------------------------------------------------------------------
(* The machine keeps what ModelSlot promises                               *)

\* What the refinement needs beside SyncInv: there is no current while the model
\* is on its way, and no model before the first one was installed.
SlotInv ==
    /\ Moving => current = NoDir
    /\ HasModel(current) \/ HasModel(rollback) => installed

\* A model, as the contract sees the directory that holds it.
LEMMA ModelOf ==
    /\ Slot!NoModel.gguf = "none" /\ Slot!NoModel.manifest = "none"
    /\ Model(NoDir) = Slot!NoModel
    /\ \A d : ~HasModel(d) => Model(d) = Slot!NoModel
    /\ \A d : HasModel(d) => /\ Model(d) = [gguf |-> d.gguf, manifest |-> d.manifest]
                            /\ Model(d) # Slot!NoModel
    /\ \A d : Model(d).gguf = d.gguf
<1>1. Slot!NoModel = [gguf |-> "none", manifest |-> "none"]
  BY DEF Slot!NoModel
<1>2. ASSUME NEW d, ~HasModel(d)
      PROVE  Model(d) = Slot!NoModel /\ Model(d).gguf = d.gguf
  BY <1>1, <1>2 DEF Model, HasModel
<1>3. ASSUME NEW d, HasModel(d)
      PROVE  /\ Model(d) = [gguf |-> d.gguf, manifest |-> d.manifest]
             /\ Model(d) # Slot!NoModel
             /\ Model(d).gguf = d.gguf
  <2>1. d.gguf # "none"
    BY <1>3 DEF HasModel
  <2>2. Model(d) = [gguf |-> d.gguf, manifest |-> d.manifest]
    BY <1>3 DEF Model
  <2>3. Model(d).gguf = d.gguf
    BY <2>2
  <2>4. Model(d) # Slot!NoModel
    BY <1>1, <2>1, <2>3
  <2> QED  BY <2>2, <2>3, <2>4
<1>4. ~HasModel(NoDir)
  BY DEF HasModel, NoDir
<1>5. Slot!NoModel.gguf = "none" /\ Slot!NoModel.manifest = "none"
  BY <1>1
<1>6. \A d : Model(d).gguf = d.gguf
  <2> SUFFICES ASSUME NEW d PROVE Model(d).gguf = d.gguf
    OBVIOUS
  <2> QED  BY <1>2, <1>3
<1>7. Model(NoDir) = Slot!NoModel
  BY <1>2, <1>4
<1> QED  BY <1>2, <1>3, <1>5, <1>6, <1>7

\* Where the model and the earlier one are.
LEMMA WhereIs ==
    /\ Moving => SlotNow = Model(rollback) /\ SpareNow = Slot!NoModel
    /\ ~Moving => SlotNow = Model(current) /\ SpareNow = Model(rollback)
  BY ModelOf DEF SlotNow, SpareNow

\* The directories are left alone, and so is the stage, as far as the contract sees it.
Quiet ==
    /\ UNCHANGED <<current, rollback, installed, cuts>>
    /\ Moving' = Moving
    /\ server'.opened \in {server.opened, current.gguf, "none"}

\* Such a step is at most a load.
LEMMA QuietIsLoad ==
    ASSUME SlotInv, Quiet
    PROVE  [Slot!Next]_(Slot!svars) /\ SlotInv'
<1>0. UNCHANGED <<current, rollback, installed, cuts>> /\ Moving' = Moving
  BY DEF Quiet
<1>1. SlotNow' = SlotNow /\ SpareNow' = SpareNow
  BY <1>0 DEF SlotNow, SpareNow, Model, HasModel
<1>2. SlotInv'
  BY <1>0 DEF SlotInv, HasModel
<1>3. current.gguf \in {SlotNow.gguf, "none"}
  BY ModelOf, WhereIs DEF SlotInv, NoDir
<1>4. CASE server'.opened = server.opened
  BY <1>0, <1>1, <1>2, <1>4 DEF Slot!svars
<1>5. CASE server'.opened \in {SlotNow.gguf, "none"}
  <2>1. Slot!Load
    BY <1>0, <1>1, <1>5 DEF Slot!Load
  <2> QED  BY <1>2, <2>1 DEF Slot!Next
<1> QED  BY <1>3, <1>4, <1>5 DEF Quiet

\* Everything before the swap, the reload and the last ping.
LEMMA QuietSync ==
    ASSUME TypeOK,
           \/ StartCheck \/ FetchManifest \/ DownloadStarts \/ DownloadEnds \/ DownloadFails
           \/ Verify \/ StampStaging \/ PostReload \/ RestorePings
    PROVE  Quiet
<1>t. sync \in SyncStates /\ server \in ServerStates
  BY DEF TypeOK
<1>1. CASE StartCheck
  BY <1>1, NewRunType DEF StartCheck, OnlySync, dirs, Quiet, Moving, At
<1>2. CASE FetchManifest
  <2>1. sync'.pc \in {"off", "download"}
    BY <1>t, <1>2 DEF FetchManifest, EndRun, SyncStates
  <2> QED  BY <1>2, <2>1 DEF FetchManifest, OnlySync, dirs, Quiet, Moving, At
<1>3. CASE DownloadStarts
  BY <1>t, <1>3, GoToType DEF DownloadStarts, DiskOnly, Quiet, Moving, At, SyncStages
<1>4. CASE DownloadEnds
  BY <1>t, <1>4, GoToType DEF DownloadEnds, DiskOnly, Quiet, Moving, At, SyncStages
<1>5. CASE DownloadFails
  BY <1>t, <1>5, EndRunType DEF DownloadFails, DiskOnly, Quiet, Moving, At, Results
<1>6. CASE Verify
  <2>1. sync'.pc \in {"off", "stamp"}
    BY <1>t, <1>6 DEF Verify, EndRun, GoTo, SyncStates
  <2> QED  BY <1>6, <2>1 DEF Verify, DiskOnly, Quiet, Moving, At
<1>7. CASE StampStaging
  BY <1>t, <1>7, GoToType
  DEF StampStaging, DiskOnly, Quiet, Moving, At, SyncStages, SwapStages
<1>8. CASE PostReload
  <2>1. sync'.pc \in {"off", "waiting"}
    BY <1>t, <1>8 DEF PostReload, EndRun, GoTo, SyncStates
  <2>2. server'.opened = server.opened
    BY <1>t, <1>8 DEF PostReload, ServerStates
  <2> QED  BY <1>8, <2>1, <2>2 DEF PostReload, dirs, Quiet, Moving, At
<1>9. CASE RestorePings
  <2>1. sync'.pc = "off"
    BY <1>t, <1>9 DEF RestorePings, EndRun, SyncStates
  <2>2. server'.opened = server.opened
    BY <1>t, <1>9 DEF RestorePings, ServerStates
  <2> QED  BY <1>9, <2>1, <2>2 DEF RestorePings, dirs, Quiet, Moving, At
<1> QED
  BY <1>1, <1>2, <1>3, <1>4, <1>5, <1>6, <1>7, <1>8, <1>9

\* The server and the centre: a start and a reload open the model there is.
LEMMA QuietServer ==
    ASSUME TypeOK, ServerNext \/ Publish \/ UNCHANGED vars
    PROVE  Quiet
<1>t. sync \in SyncStates /\ server \in ServerStates
  BY DEF TypeOK
<1>0. ASSUME sync' = sync \/ (At("waiting") /\ sync'.pc \in {"off", "restore"})
      PROVE  Moving' = Moving
  BY <1>0 DEF Moving, At
<1>1. CASE ServerStarts
  <2>1. server'.opened = current.gguf
    BY <1>1 DEF ServerStarts, ServerDown
  <2> QED  BY <1>0, <1>1, <2>1 DEF ServerStarts, dirs, Quiet
<1>2. CASE ServerListens
  <2>1. server'.opened = "none"
    BY <1>t, <1>2 DEF ServerListens, ServerStates
  <2> QED  BY <1>0, <1>2, <2>1 DEF ServerListens, dirs, Quiet
<1>3. CASE ServerStops
  <2>1. server'.opened = "none"
    BY <1>3 DEF ServerStops, ServerDown
  <2>2. sync' = sync \/ (At("waiting") /\ sync'.pc \in {"off", "restore"})
    BY <1>t, <1>3 DEF ServerStops, EndRun, SyncStates
  <2> QED  BY <1>0, <1>3, <2>1, <2>2 DEF ServerStops, dirs, Quiet
<1>4. CASE AskLogsVersion
  <2>1. server'.opened = server.opened
    BY <1>t, <1>4 DEF AskLogsVersion, ServerStates
  <2> QED  BY <1>0, <1>4, <2>1 DEF AskLogsVersion, dirs, Quiet
<1>5. CASE ReloadBegins
  <2>1. server'.opened = current.gguf
    BY <1>t, <1>5 DEF ReloadBegins, ServerStates
  <2> QED  BY <1>0, <1>5, <2>1 DEF ReloadBegins, dirs, Quiet
<1>6. CASE ReloadFindsNoModel
  <2>1. server'.opened = server.opened
    BY <1>t, <1>6 DEF ReloadFindsNoModel, ServerStates
  <2>2. sync' = sync \/ (At("waiting") /\ sync'.pc \in {"off", "restore"})
    BY <1>t, <1>6 DEF ReloadFindsNoModel, EndRun, SyncStates
  <2> QED  BY <1>0, <1>6, <2>1, <2>2 DEF ReloadFindsNoModel, dirs, Quiet
<1>7. CASE ReloadSucceeds
  <2>1. server'.opened = "none"
    BY <1>t, <1>7 DEF ReloadSucceeds, Loaded, ServerStates
  <2>2. sync' = sync \/ (At("waiting") /\ sync'.pc \in {"off", "restore"})
    BY <1>t, <1>7 DEF ReloadSucceeds, Reloaded, Answered, GoTo, EndRun, SyncStates
  <2> QED  BY <1>0, <1>7, <2>1, <2>2 DEF ReloadSucceeds, dirs, Quiet
<1>8. CASE ReloadFails
  <2>1. server'.opened = "none"
    BY <1>t, <1>8 DEF ReloadFails, ServerStates
  <2>2. sync' = sync \/ (At("waiting") /\ sync'.pc \in {"off", "restore"})
    BY <1>t, <1>8 DEF ReloadFails, ReloadRefused, Answered, EndRun, SyncStates
  <2> QED  BY <1>0, <1>8, <2>1, <2>2 DEF ReloadFails, dirs, Quiet
<1>9. CASE Publish \/ UNCHANGED vars
  BY <1>0, <1>9 DEF Publish, vars, dirs, Quiet
<1> QED
  BY <1>1, <1>2, <1>3, <1>4, <1>5, <1>6, <1>7, <1>8, <1>9 DEF ServerNext

LEMMA DropIsForget ==
    ASSUME SyncInv, SlotInv, DropRollback
    PROVE  [Slot!Next]_(Slot!svars) /\ SlotInv'
<1>1. TypeOK /\ sync \in SyncStates /\ cuts \in Nat
  BY VersionsAssumption DEF SyncInv, TypeOK
<1>2. /\ sync.pc = "drop" /\ sync'.pc = "keep" /\ rollback' = NoDir
      /\ UNCHANGED <<current, server, installed, cuts>>
  BY <1>1 DEF DropRollback, At, GoTo, DiskOnly, SyncStates
<1>3. /\ SlotNow = Model(current) /\ SlotNow' = Model(current)
      /\ SpareNow = Model(rollback) /\ SpareNow' = Slot!NoModel
  BY <1>2, ModelOf DEF SlotNow, SpareNow, Moving, Model, HasModel, NoDir
<1>4. SlotInv'
  BY <1>2 DEF SlotInv, Moving, HasModel, NoDir
<1>5. CASE ~HasModel(rollback)
  <2>1. SlotNow' = SlotNow /\ SpareNow' = SpareNow
    BY <1>3, <1>5, ModelOf
  <2> QED  BY <1>2, <1>4, <2>1 DEF Slot!svars
<1>6. CASE HasModel(rollback)
  <2>1. HasModel(current) \/ cuts > 0
    BY <1>1, <1>2, <1>6 DEF SyncInv, SlotInv, Kept
  <2>2. SpareNow # Slot!NoModel /\ (SlotNow # Slot!NoModel \/ cuts > 0)
    BY <1>3, <1>6, <2>1, ModelOf
  <2>3. Slot!Forget
    BY <1>2, <1>3, <2>2 DEF Slot!Forget
  <2> QED  BY <1>4, <2>3 DEF Slot!Next
<1> QED  BY <1>5, <1>6

LEMMA KeepIsUnseen ==
    ASSUME SyncInv, SlotInv, KeepCurrent
    PROVE  [Slot!Next]_(Slot!svars) /\ SlotInv'
<1>1. sync \in SyncStates /\ rollback = NoDir
  BY DEF SyncInv, TypeOK, Newer, KeepCurrent
<1>2. /\ sync.pc = "keep" /\ sync'.pc = "install" /\ current' = NoDir
      /\ rollback' = (IF HasModel(current) THEN current ELSE rollback)
      /\ UNCHANGED <<server, installed, cuts>>
  BY <1>1 DEF KeepCurrent, At, GoTo, DiskOnly, SyncStates
<1>3. /\ SlotNow = Model(current) /\ SlotNow' = Model(rollback')
      /\ SpareNow = Slot!NoModel /\ SpareNow' = Slot!NoModel
  BY <1>1, <1>2, ModelOf DEF SlotNow, SpareNow, Moving, Model, HasModel, NoDir
<1>4. Model(rollback') = Model(current)
  BY <1>1, <1>2, ModelOf
<1>5. SlotInv'
  BY <1>1, <1>2 DEF SlotInv, HasModel, NoDir
<1> QED  BY <1>2, <1>3, <1>4, <1>5 DEF Slot!svars

LEMMA InstallIsReplace ==
    ASSUME SyncInv, SlotInv, Install
    PROVE  [Slot!Next]_(Slot!svars) /\ SlotInv'
<1>1. /\ sync \in SyncStates /\ sync.want \in Versions
      /\ staging.gguf \in {sync.want, "garbled"} /\ Accepts(staging.gguf)
      /\ staging.manifest = sync.want /\ rollback.manifest # sync.want
  BY DEF SyncInv, TypeOK, Staged, Newer, Fetched, Replacing, Install, At
<1>2. /\ sync.pc = "install" /\ sync'.pc = "reload" /\ current' = staging
      /\ UNCHANGED <<rollback, server, cuts>> /\ installed'
  BY <1>1 DEF Install, At, GoTo, SyncStates
<1>3. HasModel(staging) /\ staging.gguf \in Slot!Passing(sync.want)
  BY <1>1, VersionsAssumption DEF HasModel, Accepts, Slot!Passing
<1>4. /\ SlotNow = Model(rollback) /\ SpareNow = Slot!NoModel
      /\ SlotNow' = [gguf |-> staging.gguf, manifest |-> sync.want]
      /\ SpareNow' = Model(rollback)
  BY <1>1, <1>2, <1>3, ModelOf DEF SlotNow, SpareNow, Moving, Model, HasModel
<1>5. sync.want # SlotNow.manifest
  BY <1>1, <1>4, VersionsAssumption DEF Model
<1>6. Slot!Replace
  BY <1>1, <1>2, <1>3, <1>4, <1>5 DEF Slot!Replace
<1>7. SlotInv'
  BY <1>2 DEF SlotInv, Moving
<1> QED  BY <1>6, <1>7 DEF Slot!Next

LEMMA RestoreIsGoBack ==
    ASSUME SyncInv, SlotInv, RestoreRemovesCurrent
    PROVE  [Slot!Next]_(Slot!svars) /\ SlotInv'
<1>1. sync \in SyncStates /\ HasModel(rollback)
  BY DEF SyncInv, TypeOK, Newer, RestoreRemovesCurrent, At
<1>2. /\ sync.pc = "restore" /\ sync'.pc = "rename" /\ current' = NoDir
      /\ UNCHANGED <<rollback, server, installed, cuts>>
  BY <1>1 DEF RestoreRemovesCurrent, At, GoTo, DiskOnly, SyncStates
<1>3. /\ SpareNow = Model(rollback) /\ SpareNow # Slot!NoModel
      /\ SlotNow' = Model(rollback) /\ SpareNow' = Slot!NoModel
  BY <1>1, <1>2, ModelOf DEF SlotNow, SpareNow, Moving, Model, HasModel, NoDir
<1>4. Slot!GoBack
  BY <1>2, <1>3 DEF Slot!GoBack
<1>5. SlotInv'
  BY <1>1, <1>2 DEF SlotInv, HasModel, NoDir
<1> QED  BY <1>4, <1>5 DEF Slot!Next

LEMMA RenameIsUnseen ==
    ASSUME SyncInv, SlotInv, RestoreRenames
    PROVE  [Slot!Next]_(Slot!svars) /\ SlotInv'
<1>1. sync \in SyncStates
  BY DEF SyncInv, TypeOK
<1>2. /\ sync.pc = "rename" /\ sync'.pc = "ping" /\ current' = rollback /\ rollback' = NoDir
      /\ UNCHANGED <<server, installed, cuts>>
  BY <1>1 DEF RestoreRenames, At, GoTo, DiskOnly, SyncStates
<1>3. /\ SlotNow = Model(rollback) /\ SlotNow' = Model(rollback)
      /\ SpareNow = Slot!NoModel /\ SpareNow' = Slot!NoModel
  BY <1>2, ModelOf DEF SlotNow, SpareNow, Moving, Model, HasModel, NoDir
<1>4. SlotInv'
  BY <1>2 DEF SlotInv, Moving, HasModel, NoDir
<1> QED  BY <1>2, <1>3, <1>4 DEF Slot!svars

\* What a removal that is cut short leaves of a directory it leaves of the model.
LEMMA HalfModel ==
    ASSUME NEW d \in Dirs, NEW e \in HalfRemoved(d)
    PROVE  Model(e) \in Slot!Half(Model(d)) /\ (HasModel(e) => HasModel(d))
<1>1. CASE e = d
  BY <1>1 DEF Slot!Half
<1>2. CASE e = [d EXCEPT !.gguf = "none"]
  <2>1. ~HasModel(e)
    BY <1>2, WriteGguf DEF HasModel, Contents
  <2> QED  BY <2>1, ModelOf DEF Slot!Half
<1>3. CASE e = [d EXCEPT !.manifest = "none"]
  <2>1. e.gguf = d.gguf /\ e.manifest = "none"
    BY <1>3, WriteManifest
  <2>2. CASE HasModel(d)
    <3>1. HasModel(e)
      BY <2>1, <2>2 DEF HasModel
    <3>2. /\ Model(e) = [gguf |-> d.gguf, manifest |-> "none"]
          /\ Model(d) = [gguf |-> d.gguf, manifest |-> d.manifest]
      BY <2>1, <2>2, <3>1, ModelOf
    <3>3. Model(e) = [Model(d) EXCEPT !.manifest = "none"]
      BY <3>2
    <3> QED  BY <2>2, <3>3 DEF Slot!Half
  <2>3. CASE ~HasModel(d)
    <3>1. ~HasModel(e)
      BY <2>1, <2>3 DEF HasModel
    <3> QED  BY <3>1, ModelOf DEF Slot!Half
  <2> QED  BY <2>2, <2>3
<1> QED  BY <1>1, <1>2, <1>3 DEF HalfRemoved

\* A run that ends in the swap cuts it; where a model is on its way, it stays
\* behind as the spare one.
LEMMA RunEndsIsCut ==
    ASSUME SyncInv, SlotInv, RunEnds
    PROVE  [Slot!Next]_(Slot!svars) /\ SlotInv'
<1>1. /\ sync \in SyncStates /\ cuts \in Nat
      /\ current \in Dirs /\ rollback \in Dirs
  BY VersionsAssumption DEF SyncInv, TypeOK
<1>2. /\ sync'.pc = "off" /\ UNCHANGED <<server, installed>>
      /\ IF sync.pc \in SwapStages THEN cuts' = cuts + 1 ELSE UNCHANGED cuts
      /\ IF At("drop") THEN rollback' \in HalfRemoved(rollback) ELSE UNCHANGED rollback
      /\ IF At("restore") THEN current' \in HalfRemoved(current) ELSE UNCHANGED current
  BY <1>1 DEF RunEnds, EndRun, SyncStates
<1>3. ~Moving' /\ SlotNow' = Model(current') /\ SpareNow' = Model(rollback')
  BY <1>2 DEF Moving, SlotNow, SpareNow, Model, HasModel
<1>4. ASSUME sync.pc \notin SwapStages
      PROVE  [Slot!Next]_(Slot!svars) /\ SlotInv'
  <2>1. ~Moving /\ ~At("drop") /\ ~At("restore")
    BY <1>4 DEF Moving, At, SwapStages
  <2>2. Moving' = Moving
    BY <1>3, <2>1 DEF Moving
  <2>3. Quiet
    BY <1>2, <1>4, <2>1, <2>2 DEF Quiet
  <2> QED  BY <2>3, QuietIsLoad
<1>5. ASSUME sync.pc \in SwapStages
      PROVE  [Slot!Next]_(Slot!svars) /\ SlotInv'
  <2>1. (cuts > 0)' = TRUE
    BY <1>1, <1>2, <1>5
  <2>2. SlotInv'
    <3>1. HasModel(current') => HasModel(current)
      BY <1>1, <1>2, HalfModel
    <3>2. HasModel(rollback') => HasModel(rollback)
      BY <1>1, <1>2, HalfModel
    <3> QED  BY <1>2, <1>3, <3>1, <3>2 DEF SlotInv, HasModel
  <2>3. CASE Moving
    <3>1. ~At("drop") /\ ~At("restore") /\ UNCHANGED <<current, rollback>>
      BY <1>2, <2>3 DEF Moving, At
    <3>2. /\ SlotNow = Model(rollback) /\ SpareNow = Slot!NoModel
          /\ SlotNow' = Slot!NoModel /\ SpareNow' = Model(rollback)
      BY <1>3, <2>3, <3>1, WhereIs, ModelOf DEF SlotInv
    <3>3. Slot!Cut
      BY <1>2, <2>1, <3>2 DEF Slot!Cut
    <3> QED  BY <2>2, <3>3 DEF Slot!Next
  <2>4. CASE ~Moving
    <3>1. SlotNow = Model(current) /\ SpareNow = Model(rollback)
      BY <2>4, WhereIs
    <3>2. CASE At("drop")
      <4>1. UNCHANGED current /\ rollback' \in HalfRemoved(rollback)
        BY <1>2, <3>2 DEF At
      <4>2. SlotNow' = SlotNow /\ SpareNow' \in Slot!Half(SpareNow)
        BY <1>1, <1>3, <3>1, <4>1, HalfModel
      <4>3. Slot!Cut
        BY <1>2, <2>1, <4>2 DEF Slot!Cut
      <4> QED  BY <2>2, <4>3 DEF Slot!Next
    <3>3. CASE ~At("drop")
      <4>1. UNCHANGED rollback /\ current' \in HalfRemoved(current)
        BY <1>2, <3>3 DEF HalfRemoved
      <4>2. SpareNow' = SpareNow /\ SlotNow' \in Slot!Half(SlotNow)
        BY <1>1, <1>3, <3>1, <4>1, HalfModel
      <4>3. Slot!Cut
        BY <1>2, <2>1, <4>2 DEF Slot!Cut
      <4> QED  BY <2>2, <4>3 DEF Slot!Next
    <3> QED  BY <3>2, <3>3
  <2> QED  BY <2>3, <2>4
<1> QED  BY <1>4, <1>5

\* Every step of the machine is one of the contract's or none.
LEMMA SlotStep ==
    ASSUME SyncInv, SlotInv, [Next]_vars
    PROVE  [Slot!Next]_(Slot!svars) /\ SlotInv'
<1>t. TypeOK
  BY DEF SyncInv
<1>1. CASE \/ StartCheck \/ FetchManifest \/ DownloadStarts \/ DownloadEnds \/ DownloadFails
           \/ Verify \/ StampStaging \/ PostReload \/ RestorePings
  <2>1. Quiet
    BY <1>t, <1>1, QuietSync
  <2> QED  BY <2>1, QuietIsLoad
<1>2. CASE ServerNext \/ Publish \/ UNCHANGED vars
  <2>1. Quiet
    BY <1>t, <1>2, QuietServer
  <2> QED  BY <2>1, QuietIsLoad
<1>3. CASE DropRollback
  BY <1>3, DropIsForget
<1>4. CASE KeepCurrent
  BY <1>4, KeepIsUnseen
<1>5. CASE Install
  BY <1>5, InstallIsReplace
<1>6. CASE RestoreRemovesCurrent
  BY <1>6, RestoreIsGoBack
<1>7. CASE RestoreRenames
  BY <1>7, RenameIsUnseen
<1>8. CASE RunEnds
  BY <1>8, RunEndsIsCut
<1> QED
  BY <1>1, <1>2, <1>3, <1>4, <1>5, <1>6, <1>7, <1>8 DEF Next, SyncNext

LEMMA InitSlotInv == Init => Slot!Init /\ SlotInv
<1> SUFFICES ASSUME Init PROVE Slot!Init /\ SlotInv
  OBVIOUS
<1>1. ~Moving /\ ~HasModel(current) /\ ~HasModel(rollback)
  BY DEF Init, Moving, HasModel, NoDir, EmptyDir
<1>2. SlotNow = Slot!NoModel /\ SpareNow = Slot!NoModel
  BY <1>1, ModelOf, WhereIs
<1>3. server.opened = "none" /\ (cuts > 0) = FALSE
  BY DEF Init, ServerDown
<1>4. SlotInv
  BY <1>1 DEF SlotInv
<1> QED  BY <1>2, <1>3, <1>4 DEF Slot!Init

\* The sync program and the server, whatever their interleaving and wherever a
\* run is cut short, do what ModelSlot allows: the swap of the directories is,
\* for the model, one step.
THEOREM ImplementsSlot == Spec => KeepsSlot
<1>1. Init => SyncInv /\ SlotInv /\ Slot!Init
  BY InitSyncInv, InitSlotInv
<1>2. SyncInv /\ SlotInv /\ [Next]_vars => SyncInv' /\ SlotInv' /\ [Slot!Next]_(Slot!svars)
  BY SyncInvStep, SlotStep
<1> QED
  BY <1>1, <1>2, PTL DEF Spec, KeepsSlot, Slot!Spec

\* So a machine that has a model has one after every step, as long as no run was
\* cut short.
THEOREM NeverEmptied == Spec => Slot!NeverEmptied
<1>1. [Slot!Next]_(Slot!svars)
          => [SlotNow # Slot!NoModel /\ ~(cuts > 0)' => SlotNow' # Slot!NoModel]_(Slot!svars)
  <2> SUFFICES ASSUME [Slot!Next]_(Slot!svars), SlotNow # Slot!NoModel, ~(cuts > 0)'
               PROVE  SlotNow' # Slot!NoModel
    BY DEF Slot!svars
  <2>1. CASE Slot!Forget \/ Slot!Load \/ UNCHANGED Slot!svars
    BY <2>1 DEF Slot!Forget, Slot!Load, Slot!svars
  <2>2. CASE Slot!Replace
    <3>1. \E v \in Versions : SlotNow'.manifest = v
      BY <2>2 DEF Slot!Replace
    <3>2. \A v \in Versions : v # "none"
      BY VersionsAssumption
    <3> QED  BY <3>1, <3>2, ModelOf
  <2>3. CASE Slot!GoBack
    BY <2>3 DEF Slot!GoBack
  <2>4. CASE Slot!Cut
    BY <2>4 DEF Slot!Cut
  <2> QED  BY <2>1, <2>2, <2>3, <2>4 DEF Slot!Next
<1> QED
  BY <1>1, ImplementsSlot, PTL DEF KeepsSlot, Slot!Spec, Slot!NeverEmptied
=============================================================================
