---------------------------- MODULE BulkUpload ----------------------------
(***************************************************************************)
(* One bulk upload session: the browser that puts its files into object    *)
(* storage, the finalize route, the ingest job it enqueues, and the daily  *)
(* cleanup of sessions nobody finalized.  They share the session's row and *)
(* its objects, and each reads and writes the row in transactions of its   *)
(* own.  A finalize call and the job it enqueues are one record here: the  *)
(* call ends where the job begins.  Parsing and ingesting a file is one    *)
(* step; what it writes is the business of the ingestion pipeline.         *)
(***************************************************************************)
EXTENDS Naturals, FiniteSets

CONSTANTS
    MaxFiles,    \* files of the session
    Multi,       \* those above the multipart threshold
    MaxCalls,    \* bound: finalize calls that find the session pending
    MaxTries,    \* WorkerSettings.max_tries
    MaxFaults    \* bound: deaths, aborts and storage errors

ASSUME BoundsAssumption ==
    /\ MaxFiles \in Nat \ {0} /\ MaxCalls \in Nat
    /\ MaxTries \in Nat \ {0} /\ MaxFaults \in Nat

Files == 1..MaxFiles
Calls == 1..MaxCalls
ASSUME MultiAssumption == Multi \subseteq Files

VARIABLES
    row,       \* the session's row: status and counters
    old,       \* the session is older than the orphan TTL
    put,       \* files whose bytes, or all of whose parts, the browser has put
    parts,     \* multipart uploads: open, completed or aborted
    objects,   \* files whose object is in storage
    calls,     \* finalize calls and their jobs
    clean,     \* cleanup_orphan_uploads: where it is with this session
    fate,      \* history: how a job's last try of the file went
    faults     \* faults so far

storage == <<put, parts, objects>>
vars == <<row, old, storage, calls, clean, fate, faults>>

Ended == {"completed", "failed"}
Row == [status : {"pending", "processing"} \cup Ended,
        processed : Nat, failed : Nat]

RoutePcs == {"complete", "set", "enqueue"}
FilePcs  == {"ingest", "count", "commit", "delete"}
JobPcs   == {"file"} \cup FilePcs
CallPcs == {"free", "queued", "returned", "lost"} \cup RoutePcs \cup JobPcs
CallStates ==
    [pc : CallPcs,
     skip : SUBSET Files,    \* failed_indices
     tries : 0..MaxTries,
     file : Files,           \* the file the loop is at
     fetched : BOOLEAN,      \* its temporary copy was downloaded
     ok : BOOLEAN,           \* success, as increment_processed is told
     seen : Row]             \* the row as increment_processed read it
NewRow == [status |-> "pending", processed |-> 0, failed |-> 0]
NoCall == [pc |-> "free", skip |-> {}, tries |-> 0, file |-> 1,
           fetched |-> FALSE, ok |-> FALSE, seen |-> NewRow]

\* init_upload has made the row and the presigned URLs.
Init ==
    /\ row = NewRow
    /\ old = FALSE
    /\ put = {} /\ parts = [f \in Multi |-> "open"] /\ objects = {}
    /\ calls = [c \in Calls |-> NoCall]
    /\ clean = "idle"
    /\ fate = [f \in Files |-> "none"]
    /\ faults = 0

At(c, pc) == calls[c].pc = pc
GoTo(c, pc) == calls' = [calls EXCEPT ![c].pc = pc]
Fault == faults < MaxFaults /\ faults' = faults + 1

---------------------------------------------------------------------------
(* The browser.  A URL is valid for an hour, the TTL is a day.             *)

Put(f) ==
    /\ ~old /\ f \notin put
    /\ put' = put \cup {f}
    /\ objects' = IF f \in Multi THEN objects ELSE objects \cup {f}
    /\ UNCHANGED <<row, old, parts, calls, clean, fate, faults>>

DayPasses ==
    /\ ~old
    /\ old' = TRUE
    /\ UNCHANGED <<row, storage, calls, clean, fate, faults>>

---------------------------------------------------------------------------
(* finalize_upload                                                         *)

\* What it could not put the browser reports as failed; a put it gave up may
\* have arrived all the same.
FinalizeReads(c, skip) ==
    /\ At(c, "free") /\ \A d \in Calls : d < c => ~At(d, "free")
    /\ row.status = "pending"
    /\ Files \ put \subseteq skip
    /\ calls' = [calls EXCEPT ![c] = [NoCall EXCEPT !.pc = "complete", !.skip = skip]]
    /\ UNCHANGED <<row, old, storage, clean, fate, faults>>

\* A multipart upload that cannot be completed is aborted, if that works, and
\* its file skipped.  Completing one again may be answered with a success.
CompleteMultiparts(c) ==
    /\ At(c, "complete")
    /\ LET todo == Multi \ calls[c].skip
           open == {f \in todo : parts[f] = "open"}
       IN  \E done \in SUBSET {f \in todo : parts[f] # "aborted"} :
           \E gone \in SUBSET (open \ done) :
              /\ parts' = [f \in Multi |-> IF f \in done THEN "completed"
                                           ELSE IF f \in gone THEN "aborted" ELSE parts[f]]
              /\ objects' = objects \cup (done \cap open)
              /\ calls' = [calls EXCEPT ![c] = [@ EXCEPT !.pc = "set", !.skip = calls[c].skip \cup (todo \ done)]]
    /\ UNCHANGED <<row, old, put, clean, fate, faults>>

SetProcessing(c) ==
    /\ At(c, "set")
    /\ row' = [row EXCEPT !.status = "processing"]
    /\ GoTo(c, "enqueue")
    /\ UNCHANGED <<old, storage, clean, fate, faults>>

EnqueueIngest(c) ==
    /\ At(c, "enqueue")
    /\ calls' = [calls EXCEPT ![c] = [@ EXCEPT !.pc = "queued", !.tries = 1]]
    /\ UNCHANGED <<row, old, storage, clean, fate, faults>>

EnqueueFails(c) ==
    /\ At(c, "enqueue")
    /\ Fault
    /\ row' = [row EXCEPT !.status = "failed"]
    /\ GoTo(c, "lost")
    /\ UNCHANGED <<old, storage, clean, fate>>

ApiDies(c) ==
    /\ calls[c].pc \in RoutePcs
    /\ Fault
    /\ GoTo(c, "lost")
    /\ UNCHANGED <<row, old, storage, clean, fate>>

---------------------------------------------------------------------------
(* ingest_from_object_storage: one file after the other.                   *)

JobStarts(c) ==
    /\ At(c, "queued")
    /\ calls' = [calls EXCEPT ![c] = [@ EXCEPT !.pc = "file", !.file = 1, !.fetched = FALSE]]
    /\ UNCHANGED <<row, old, storage, clean, fate, faults>>

IsLast(f) == f = MaxFiles

\* The loop goes on behind a file, or returns after the last.
NextFile(c) ==
    LET done == [calls[c] EXCEPT !.fetched = FALSE, !.ok = FALSE, !.seen = NewRow]
    IN  IF IsLast(done.file) THEN [done EXCEPT !.pc = "returned", !.skip = {}]
        ELSE [done EXCEPT !.pc = "file", !.file = @ + 1]

\* The file is counted as failed without a try: the browser reported it, or
\* the download raises S3StorageError.
Unread(c) ==
    /\ calls' = [calls EXCEPT ![c] = [@ EXCEPT !.pc = "count", !.ok = FALSE, !.fetched = FALSE]]
    /\ UNCHANGED <<row, old, storage, clean>>

\* (A mutant) the loop passes over the file without counting it.
SkipUncounted(c) ==
    /\ At(c, "file") /\ calls[c].file \in calls[c].skip
    /\ calls' = [calls EXCEPT ![c] = NextFile(c)]
    /\ UNCHANGED <<row, old, storage, clean, fate, faults>>

SkipFile(c) ==
    /\ At(c, "file") /\ calls[c].file \in calls[c].skip
    /\ Unread(c)
    /\ UNCHANGED <<fate, faults>>

DownloadFails(c) ==
    /\ At(c, "file") /\ calls[c].file \notin calls[c].skip
    /\ IF calls[c].file \in objects THEN Fault ELSE UNCHANGED faults
    /\ Unread(c)
    /\ fate' = [fate EXCEPT ![calls[c].file] = "bad"]

Download(c) ==
    /\ At(c, "file") /\ calls[c].file \notin calls[c].skip
    /\ calls[c].file \in objects
    /\ calls' = [calls EXCEPT ![c] = [@ EXCEPT !.pc = "ingest", !.fetched = TRUE]]
    /\ UNCHANGED <<row, old, storage, clean, fate, faults>>

\* Parsing may raise.  pipeline.ingest does not: a document it refuses (gate,
\* dedup, quality) or breaks on comes back as a result, a success to this loop.
Ingest(c, ok) ==
    /\ At(c, "ingest")
    /\ fate' = [fate EXCEPT ![calls[c].file] = IF ok THEN "good" ELSE "bad"]
    /\ calls' = [calls EXCEPT ![c] = [@ EXCEPT !.pc = "count", !.ok = ok]]
    /\ UNCHANGED <<row, old, storage, clean, faults>>

\* increment_processed: a SELECT without a lock, then an UPDATE of the columns
\* that changed since it.
CountReads(c) ==
    /\ At(c, "count")
    /\ calls' = [calls EXCEPT ![c] = [@ EXCEPT !.pc = "commit", !.seen = row]]
    /\ UNCHANGED <<row, old, storage, clean, fate, faults>>

Counted(r, ok) ==
    [r EXCEPT !.processed = IF ok THEN @ + 1 ELSE @,
              !.failed    = IF ok THEN @ ELSE @ + 1]
AllCountedOffByOne(r) == r.processed + r.failed > MaxFiles    \* (a mutant)
AllCounted(r) == r.processed + r.failed >= MaxFiles
WithStatus(r) ==
    IF AllCounted(r)
    THEN [r EXCEPT !.status = IF r.failed = 0 THEN "completed" ELSE "failed"]
    ELSE r
Written(was, new, now) == IF new = was THEN now ELSE new

CountCommits(c) ==
    /\ At(c, "commit")
    /\ LET seen == calls[c].seen
           new  == WithStatus(Counted(seen, calls[c].ok))
       IN  row' = [status    |-> Written(seen.status, new.status, row.status),
                   processed |-> Written(seen.processed, new.processed, row.processed),
                   failed    |-> Written(seen.failed, new.failed, row.failed)]
    /\ calls' = [calls EXCEPT ![c] = IF @.fetched
                                     THEN [@ EXCEPT !.pc = "delete", !.seen = NewRow]
                                     ELSE NextFile(c)]
    /\ UNCHANGED <<old, storage, clean, fate, faults>>

\* Whatever became of the file its object is deleted; an error is only logged.
DeleteObject(c) ==
    /\ At(c, "delete")
    /\ objects' \in {objects, objects \ {calls[c].file}}
    /\ calls' = [calls EXCEPT ![c] = NextFile(c)]
    /\ UNCHANGED <<row, old, put, parts, clean, fate, faults>>

\* finally: the temporary copy's object is deleted.
Finally(c) == IF calls[c].pc \in FilePcs /\ calls[c].fetched
              THEN objects \ {calls[c].file} ELSE objects

\* The worker is killed, or shut down with its jobs cancelled: arq starts the
\* job over, up to max_tries, and a cancelled one has run its finally clause.
WorkerStops(c) ==
    /\ calls[c].pc \in JobPcs
    /\ Fault
    /\ objects' \in {objects, Finally(c)}
    /\ calls' = [calls EXCEPT ![c] = IF @.tries < MaxTries
                                     THEN [@ EXCEPT !.pc = "queued", !.tries = calls[c].tries + 1,
                                                    !.seen = NewRow]
                                     ELSE [@ EXCEPT !.pc = "lost"]]
    /\ UNCHANGED <<row, old, put, parts, clean, fate>>

\* job_timeout, or an exception the loop does not name (SQLAlchemyError): the
\* finally clause still deletes the object, and arq does not run it again.
JobAborts(c) ==
    /\ calls[c].pc \in {"queued"} \cup JobPcs
    /\ Fault
    /\ objects' = Finally(c)
    /\ GoTo(c, "lost")
    /\ UNCHANGED <<row, old, put, parts, clean, fate>>

---------------------------------------------------------------------------
(* cleanup_orphan_uploads, once a day                                      *)

ListOrphan ==
    /\ clean = "idle" /\ old /\ row.status = "pending"
    /\ clean' = "listed"
    /\ UNCHANGED <<row, old, storage, calls, fate, faults>>

CleanObjects ==
    /\ clean = "listed"
    /\ objects' = {}
    /\ clean' = "emptied"
    /\ UNCHANGED <<row, old, put, parts, calls, fate, faults>>

\* One that cannot be aborted is only logged.
AbortMultiparts ==
    /\ clean = "emptied"
    /\ \E gone \in SUBSET {f \in Multi : parts[f] = "open"} :
          parts' = [f \in Multi |-> IF f \in gone THEN "aborted" ELSE parts[f]]
    /\ clean' = "cleaned"
    /\ UNCHANGED <<row, old, put, objects, calls, fate, faults>>

FailOrphan ==
    /\ clean = "cleaned"
    /\ row' = [row EXCEPT !.status = "failed"]
    /\ clean' = "idle"
    /\ UNCHANGED <<old, storage, calls, fate, faults>>

\* An error of storage or database is counted, and the session left for the
\* next day; or the worker dies.
CleanupFails ==
    /\ clean # "idle"
    /\ Fault
    /\ clean' = "idle"
    /\ UNCHANGED <<row, old, storage, calls, fate>>

---------------------------------------------------------------------------

BrowserNext == DayPasses \/ \E f \in Files : Put(f)

FinalizeNext == \E c \in Calls :
    \/ \E skip \in SUBSET Files : FinalizeReads(c, skip)
    \/ CompleteMultiparts(c) \/ SetProcessing(c)
    \/ EnqueueIngest(c) \/ EnqueueFails(c) \/ ApiDies(c)

JobStep(c) ==
    \/ JobStarts(c)
    \/ SkipFile(c) \/ DownloadFails(c) \/ Download(c)
    \/ \E ok \in BOOLEAN : Ingest(c, ok)
    \/ CountReads(c) \/ CountCommits(c) \/ DeleteObject(c)
JobNext == \E c \in Calls : JobStep(c) \/ WorkerStops(c) \/ JobAborts(c)

CleanupNext ==
    ListOrphan \/ CleanObjects \/ AbortMultiparts \/ FailOrphan \/ CleanupFails

Next == BrowserNext \/ FinalizeNext \/ JobNext \/ CleanupNext

Spec == Init /\ [][Next]_vars

\* A worker that is up runs the jobs it has.  Users, the API and the cron owe
\* nothing.
FairSpec == Spec /\ \A c \in Calls : WF_vars(JobStep(c))

---------------------------------------------------------------------------
(* Properties                                                              *)

TypeOK ==
    /\ row \in Row
    /\ old \in BOOLEAN
    /\ put \subseteq Files /\ objects \subseteq Files
    /\ parts \in [Multi -> {"open", "completed", "aborted"}]
    /\ calls \in [Calls -> CallStates]
    /\ clean \in {"idle", "listed", "emptied", "cleaned"}
    /\ fate \in [Files -> {"none", "good", "bad"}]
    /\ faults \in 0..MaxFaults

\* A failure that increment_processed recorded is never lost again, whatever
\* two jobs of the session do to the row at once: the counter may be too small,
\* but not zero.  (A success only writes the columns it changed.)  Proved in
\* Uploads_proofs for any number of jobs; the run has only one.
FailureSticks == [][row.failed > 0 => row'.failed > 0]_vars

\* One finalize, no fault, no cleanup: the row says what became of the files.
Settled ==
    /\ \E c \in Calls : At(c, "returned")
    /\ \A c \in Calls : At(c, "returned") \/ At(c, "free")
VerdictIsRight ==
    (Settled /\ ~old /\ faults = 0 /\ \A c \in Calls \ {1} : At(c, "free")) =>
        /\ row.processed = Cardinality({f \in Files : fate[f] = "good"})
        /\ row.failed = MaxFiles - row.processed
        /\ row.status = IF row.failed = 0 THEN "completed" ELSE "failed"

\* A session finalized once ends for good when its job was queued, whatever
\* was rerun and whatever the cleanup did, unless a fault loses the job.  The
\* session's user polls its status until then.
QueuedSessionEnds ==
    \A c \in Calls :
        At(c, "queued") ~> \/ [](row.status \in Ended)
                          \/ \E d \in Calls : At(d, "lost") \/ (d # c /\ ~At(d, "free"))

\* Repository: the status changes to completed when all files have been
\* processed (jobs/upload_jobs.py, module docstring).  A rerun counts the
\* files of the run before it once more.
CompletedMeansTried == row.status = "completed" => \A f \in Files : fate[f] # "none"
=============================================================================
