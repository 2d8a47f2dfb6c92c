----------------------------- MODULE SourceSync -----------------------------
(***************************************************************************)
(* Syncs of data sources: the admin's and the user's trigger, the background *)
(* task it starts, the source's row, the ingestion run's record and, for     *)
(* Confluence, the OCR instance it shares with other syncs and the command   *)
(* line (api/routes/data_sources.py, me_data_sources.py,                     *)
(* data_source_sync.py).                                                     *)
(*                                                                         *)
(* A task works on the row as it was when the trigger read it.  Nothing      *)
(* keeps two tasks of one source apart, and a task that ends in an exception  *)
(* outside the caught classes, or with its process, leaves row and record as *)
(* they are.  Remotes, connectors and the ingestion of the documents are     *)
(* external here (the latter is DocIngest).                                   *)
(***************************************************************************)
EXTENDS OcrInstance

CONSTANTS
    Sources,    \* data sources
    MaxRev,     \* bound on the revisions of a remote
    MaxUpsets   \* bound on faults, updates of a row and file ingests together

ASSUME SyncAssumption == MaxRev \in Nat \ {0} /\ MaxUpsets \in Nat

\* The users of the instance are the background tasks.
Tasks == Users

VARIABLES
    rows,       \* type, status and saved fingerprint of each source
    records,    \* status of the ingestion run of each task
    tasks,      \* the triggers and the background tasks they start
    head,       \* the revision each remote is at
    handed,     \* revisions of each source whose documents went through ingestion
    edit,       \* an update of a row that has read it and not yet written
    edits,      \* updates and file ingests begun
    touched,    \* sources whose status one of these has written
    faults      \* faults so far

syncVars == <<rows, records, tasks, head, handed, edit, edits, touched, faults>>
vars == <<syncVars, ocrVars>>

Kinds == {"git", "generic", "confluence"}
Statuses == {"active", "syncing", "error"}

TaskSteps == {"idle", "mark", "begin", "ocr", "fetch", "ingest", "close", "record",
              "report", "settle", "finally", "done"}

NewTask == [pc |-> "idle", src |-> None, admin |-> FALSE, snap |-> 0, rev |-> 0,
            got |-> "nothing", lost |-> FALSE]

TaskType == [pc : TaskSteps, src : Sources \cup {None}, admin : BOOLEAN,
             snap : 0 .. MaxRev, rev : 0 .. MaxRev,
             got : {"nothing", "skip", "empty", "docs"}, lost : BOOLEAN]

NoEdit == [src |-> None, status |-> "active"]

TypeOK ==
    /\ OcrTypeOK
    /\ rows \in [Sources -> [kind : Kinds, status : Statuses, fp : 0 .. MaxRev]]
    /\ records \in [Tasks -> {"none", "running", "completed", "failed"}]
    /\ tasks \in [Tasks -> TaskType]
    /\ head \in [Sources -> 1 .. MaxRev]
    /\ handed \in [Sources -> SUBSET (1 .. MaxRev)]
    /\ edit \in [src : Sources \cup {None}, status : Statuses]
    /\ edits \in 0 .. MaxUpsets
    /\ touched \subseteq Sources
    /\ faults \in 0 .. MaxUpsets

Init ==
    /\ OcrInit
    /\ \E kind \in [Sources -> Kinds] :
          rows = [s \in Sources |-> [kind |-> kind[s], status |-> "active", fp |-> 0]]
    /\ records = [t \in Tasks |-> "none"]
    /\ tasks = [t \in Tasks |-> NewTask]
    /\ head = [s \in Sources |-> 1]
    /\ handed = [s \in Sources |-> {}]
    /\ edit = NoEdit
    /\ edits = 0
    /\ touched = {}
    /\ faults = 0

Working(t) == tasks[t].pc \notin {"idle", "done"}
TasksOf(s) == {t \in Tasks : tasks[t].pc # "idle" /\ tasks[t].src = s}
KindOf(t) == rows[tasks[t].src].kind

Goto(t, pc) == tasks' = [tasks EXCEPT ![t].pc = pc]

\* Where a task goes after its last write: a Confluence sync to its finally.
Ending(t) == IF users[t].pc = "work" THEN "finally" ELSE "done"

SetStatus(s, status) == rows' = [rows EXCEPT ![s].status = status]

AnyFault == faults + edits < MaxUpsets /\ faults' = faults + 1

-----------------------------------------------------------------------------
(* Triggers *)

\* The row is read; the task will see it as it is now.  The user's trigger
\* starts the task without touching the row.
Trigger(t, s, admin) ==
    /\ tasks[t].pc = "idle"
    /\ \A e \in Tasks : e < t => tasks[e].pc # "idle"
    /\ tasks' = [tasks EXCEPT ![t] =
                    [NewTask EXCEPT !.pc = IF admin THEN "mark" ELSE "begin", !.src = s,
                                    !.admin = admin, !.snap = rows[s].fp]]
    /\ UNCHANGED <<rows, records, head, handed, edit, edits, touched, faults, ocrVars>>

Mark(t) ==
    /\ tasks[t].pc = "mark"
    /\ SetStatus(tasks[t].src, "syncing")
    /\ Goto(t, "begin")
    /\ UNCHANGED <<records, head, handed, edit, edits, touched, faults, ocrVars>>

-----------------------------------------------------------------------------
(* The task *)

\* Only a Confluence sync needs the OCR instance.  The run's record is written,
\* or not with an error that is caught.
Begin(t) ==
    /\ tasks[t].pc = "begin"
    /\ KindOf(t) # "confluence"
    /\ Goto(t, "fetch")
    /\ \E status \in {"running", "none"} :
          /\ records' = [records EXCEPT ![t] = status]
          /\ IF status = "running" THEN UNCHANGED faults ELSE AnyFault
    /\ UNCHANGED <<rows, head, handed, edit, edits, touched, ocrVars>>

\* Without a page id or an access token the sync reports failure before anything
\* else.
BeginConfluence(t) ==
    /\ tasks[t].pc = "begin"
    /\ KindOf(t) = "confluence"
    /\ \/ Goto(t, "ocr") /\ Enter(t) /\ UNCHANGED faults
       \/ Goto(t, "report") /\ AnyFault /\ UNCHANGED ocrVars
    /\ UNCHANGED <<rows, records, head, handed, edit, edits, touched>>

OcrReady_NeedsOcr(t) ==  \* mutant
    /\ tasks[t].pc = "ocr"
    /\ users[t].pc = "work" /\ users[t].found # None
    /\ Goto(t, "fetch")
    /\ records' = [records EXCEPT ![t] = "running"]
    /\ UNCHANGED <<rows, head, handed, edit, edits, touched, faults, ocrVars>>

\* OCR has been started, or is done without.
OcrReady(t) ==
    /\ tasks[t].pc = "ocr"
    /\ users[t].pc = "work"
    /\ Goto(t, "fetch")
    /\ \E status \in {"running", "none"} :
          /\ records' = [records EXCEPT ![t] = status]
          /\ IF status = "running" THEN UNCHANGED faults ELSE AnyFault
    /\ UNCHANGED <<rows, head, handed, edit, edits, touched, ocrVars>>

\* The remote's present revision, unless it is the one of the row the trigger
\* read; the git connector says so, the generic ones return no documents.
Fetch(t) ==
    /\ tasks[t].pc = "fetch"
    /\ \E got \in IF KindOf(t) = "confluence" THEN {"empty", "docs"}
                  ELSE IF tasks[t].snap = head[tasks[t].src] THEN {"skip"}
                  ELSE {"empty", "docs"} :
          tasks' = [tasks EXCEPT ![t] =
                       [@ EXCEPT !.rev = head[tasks[t].src], !.got = got,
                                 !.pc = IF got = "docs" THEN "ingest" ELSE "close"]]
    /\ UNCHANGED <<rows, records, head, handed, edit, edits, touched, faults, ocrVars>>

\* The documents go through the pipeline; what became of each is not looked at.
Ingest(t) ==
    /\ tasks[t].pc = "ingest"
    /\ handed' = [handed EXCEPT ![tasks[t].src] = @ \cup {tasks[t].rev}]
    /\ Goto(t, "close")
    /\ UNCHANGED <<rows, records, head, edit, edits, touched, faults, ocrVars>>

\* Every sync without documents returns at once.
AfterClose_Returns(t) == IF tasks[t].got = "empty" THEN "done" ELSE "record"  \* mutant

\* A git sync without documents returns without completing its run's record.
AfterClose(t) == IF KindOf(t) = "git" /\ tasks[t].got = "empty" THEN "done" ELSE "record"

\* complete_sync.  A Confluence sync without documents calls it without the
\* organization, which it requires: a TypeError, reported as a failure.
Close(t) ==
    LET s == tasks[t].src
    IN  /\ tasks[t].pc = "close"
        /\ \/ /\ KindOf(t) = "confluence" /\ tasks[t].got = "empty"
              /\ Goto(t, "report")
              /\ UNCHANGED rows
           \/ /\ KindOf(t) = "confluence" /\ tasks[t].got = "docs"
              /\ SetStatus(s, "active")
              /\ Goto(t, "record")
           \/ /\ KindOf(t) # "confluence"
              /\ rows' = [rows EXCEPT ![s] = [@ EXCEPT !.status = "active", !.fp = tasks[t].rev]]
              /\ Goto(t, AfterClose(t))
        /\ UNCHANGED <<records, head, handed, edit, edits, touched, faults, ocrVars>>

\* The record is completed; no row is matched when none was created.
Settle(t, status) ==
    records' = [records EXCEPT ![t] = IF @ = "none" THEN "none" ELSE status]

Record(t) ==
    /\ tasks[t].pc = "record"
    /\ Settle(t, "completed")
    /\ Goto(t, Ending(t))
    /\ UNCHANGED <<rows, head, handed, edit, edits, touched, faults, ocrVars>>

Report_Unwritten(t) ==  \* mutant
    /\ tasks[t].pc = "report"
    /\ Goto(t, "settle")
    /\ UNCHANGED <<rows, records, head, handed, edit, edits, touched, faults, ocrVars>>

Report_Saves(t) ==  \* mutant
    /\ tasks[t].pc = "report"
    /\ rows' = [rows EXCEPT ![tasks[t].src] = [@ EXCEPT !.status = "error", !.fp = tasks[t].rev]]
    /\ Goto(t, "settle")
    /\ UNCHANGED <<records, head, handed, edit, edits, touched, faults, ocrVars>>

Report_Forgets(t) ==  \* mutant
    /\ tasks[t].pc = "report"
    /\ rows' = [rows EXCEPT ![tasks[t].src] = [@ EXCEPT !.status = "error", !.fp = 0]]
    /\ Goto(t, "settle")
    /\ UNCHANGED <<records, head, handed, edit, edits, touched, faults, ocrVars>>

\* _report_sync_failure: the fingerprint stays.
Report(t) ==
    /\ tasks[t].pc = "report"
    /\ SetStatus(tasks[t].src, "error")
    /\ Goto(t, "settle")
    /\ UNCHANGED <<records, head, handed, edit, edits, touched, faults, ocrVars>>

ReportRecord(t) ==
    /\ tasks[t].pc = "settle"
    /\ Settle(t, "failed")
    /\ Goto(t, Ending(t))
    /\ UNCHANGED <<rows, head, handed, edit, edits, touched, faults, ocrVars>>

\* The finally clause, up to the stop of the instance.
Finally(t) ==
    /\ tasks[t].pc = "finally"
    /\ Leave(t)
    /\ Goto(t, "done")
    /\ UNCHANGED <<rows, records, head, handed, edit, edits, touched, faults>>

-----------------------------------------------------------------------------
(* Faults *)

\* An exception of a caught class: the connector, the crawler, the ingestion
\* services or complete_sync itself.
Caught(t) ==
    /\ tasks[t].pc \in {"fetch", "ingest", "close"}
    /\ AnyFault
    /\ Goto(t, "report")
    /\ UNCHANGED <<rows, records, head, handed, edit, edits, touched, ocrVars>>

\* A write that fails with a caught class is passed over at the end.
WriteSkipped(t) ==
    /\ tasks[t].pc \in {"record", "report", "settle"}
    /\ AnyFault
    /\ tasks' = [tasks EXCEPT ![t] =
                    [@ EXCEPT !.pc = IF @ = "report" THEN "settle" ELSE Ending(t),
                              !.lost = TRUE]]
    /\ UNCHANGED <<rows, records, head, handed, edit, edits, touched, ocrVars>>

\* Any other exception (SQLAlchemyError, an HTTP client's) ends the task; the
\* finally clause still runs.
Uncaught(t) ==
    /\ tasks[t].pc \in {"begin", "fetch", "ingest", "close", "record", "report", "settle"}
    /\ AnyFault
    /\ tasks' = [tasks EXCEPT ![t] = [@ EXCEPT !.pc = Ending(t), !.lost = TRUE]]
    /\ UNCHANGED <<rows, records, head, handed, edit, edits, touched, ocrVars>>

\* The API restarts: its tasks and the requests under way are gone.
Restart ==
    /\ AnyFault
    /\ tasks' = [t \in Tasks |-> IF Working(t)
                                 THEN [tasks[t] EXCEPT !.pc = "done", !.lost = TRUE]
                                 ELSE tasks[t]]
    /\ users' = [u \in Users |-> IF u \in Tasks /\ AtWork(u)
                                 THEN [users[u] EXCEPT !.pc = "dead"]
                                 ELSE users[u]]
    /\ edit' = NoEdit
    /\ UNCHANGED <<rows, records, head, handed, edits, touched, inst, boots, url>>

-----------------------------------------------------------------------------
(* The other writers of the row, and the remotes *)

\* PUT: the status is read, and written back unless the request has one.
EditRead(s) ==
    /\ edit = NoEdit /\ faults + edits < MaxUpsets
    /\ edit' = [src |-> s, status |-> rows[s].status]
    /\ edits' = edits + 1
    /\ UNCHANGED <<rows, records, tasks, head, handed, touched, faults, ocrVars>>

EditWrite ==
    /\ edit # NoEdit
    /\ SetStatus(edit.src, edit.status)
    /\ touched' = touched \cup {edit.src}
    /\ edit' = NoEdit
    /\ UNCHANGED <<records, tasks, head, handed, edits, faults, ocrVars>>

\* POST file-ingest: the row says syncing, and no task is started.
FileIngest(s) ==
    /\ faults + edits < MaxUpsets
    /\ SetStatus(s, "syncing")
    /\ touched' = touched \cup {s}
    /\ edits' = edits + 1
    /\ UNCHANGED <<records, tasks, head, handed, edit, faults, ocrVars>>

NewRevision(s) ==
    /\ rows[s].kind # "confluence" /\ head[s] < MaxRev
    /\ head' = [head EXCEPT ![s] = @ + 1]
    /\ UNCHANGED <<rows, records, tasks, handed, edit, edits, touched, faults, ocrVars>>

-----------------------------------------------------------------------------
(* The OCR instance: its users' own steps *)

OcrUser(u) == OcrStep(u) /\ UNCHANGED syncVars

OcrFaulty(u) == OcrFault(u) /\ AnyFault
                /\ UNCHANGED <<rows, records, tasks, head, handed, edit, edits, touched>>

Ec2 == (Started \/ Stopped) /\ UNCHANGED syncVars

TaskStep(t) ==
    \/ Mark(t) \/ Begin(t) \/ BeginConfluence(t) \/ OcrReady(t) \/ Fetch(t) \/ Ingest(t)
    \/ Close(t) \/ Record(t) \/ Report(t) \/ ReportRecord(t) \/ Finally(t)

Next ==
    \/ \E t \in Tasks : \/ \E s \in Sources, admin \in BOOLEAN : Trigger(t, s, admin)
                        \/ TaskStep(t)
                        \/ Caught(t) \/ WriteSkipped(t) \/ Uncaught(t)
    \/ \E s \in Sources : EditRead(s) \/ FileIngest(s) \/ NewRevision(s)
    \/ EditWrite \/ Restart \/ Ec2
    \/ \E t \in Tasks : OcrUser(t) \/ OcrFaulty(t)

Spec == Init /\ [][Next]_vars

\* asyncio runs its tasks on, every wait has a timeout, and EC2 carries out what
\* it accepted: as long as one of them has a step, one is taken.
Progress == (\E t \in Tasks : TaskStep(t) \/ OcrUser(t)) \/ Ec2

FairSpec == Spec /\ WF_vars(Progress)

-----------------------------------------------------------------------------
(* What is checked *)

(***************************************************************************)
(* A row says "syncing" only while an admin's sync of it is at work, unless   *)
(* one was lost to an exception or a restart, or an update or file ingest     *)
(* has written the status: every way through a sync that it handles itself    *)
(* ends with complete_sync.                                                   *)
(***************************************************************************)
SyncingIsExplained ==
    \A s \in Sources : rows[s].status = "syncing" =>
        \/ s \in touched
        \/ \E t \in TasksOf(s) : tasks[t].admin /\ (tasks[t].pc # "done" \/ tasks[t].lost)

(***************************************************************************)
(* A task that came to its end has settled the record of its run, except a    *)
(* git sync that found no documents (the early return of _run_git_source_sync *)
(* is the only one that leaves it), and the record's verdict agrees with what *)
(* the task did: completed only when everything fetched went to ingestion.    *)
(***************************************************************************)
RecordsSettle ==
    \A t \in Tasks :
        /\ (tasks[t].pc = "done" /\ records[t] = "running") =>
              tasks[t].lost \/ (KindOf(t) = "git" /\ tasks[t].got = "empty")
        /\ (records[t] = "completed" /\ tasks[t].got = "docs") =>
              tasks[t].rev \in handed[tasks[t].src]

(***************************************************************************)
(* The fingerprint of a source is that of a revision some task fetched and    *)
(* handed to ingestion, or found without documents; so a sync that skips      *)
(* ("unchanged") skips nothing that was never handed on, whatever syncs run   *)
(* beside it, and whatever failed before.                                     *)
(***************************************************************************)
Covered(s, r) == r \in handed[s] \/ \E t \in TasksOf(s) : tasks[t].rev = r
                                                           /\ tasks[t].got = "empty"

SkippedWasHandedOn ==
    /\ \A s \in Sources : rows[s].fp # 0 => Covered(s, rows[s].fp)
    /\ \A t \in Tasks : tasks[t].got = "skip" => Covered(tasks[t].src, tasks[t].rev)

(***************************************************************************)
(* A fingerprint goes back to an earlier revision only at the hands of a task *)
(* that another sync of the same source overtook: it fetched before the other *)
(* one did and closed after it.                                                *)
(***************************************************************************)
FingerprintBackOnlyOvertaken ==
    [][\A s \in Sources : rows'[s].fp < rows[s].fp =>
          \E t, e \in TasksOf(s) : /\ t # e
                                   /\ tasks[t].pc = "close" /\ tasks'[t].pc # "close"
                                   /\ tasks[t].rev < tasks[e].rev]_vars

(***************************************************************************)
(* Every sync ends, and a row that says "syncing" comes out of it again,      *)
(* unless a sync was lost or someone else wrote the status.                   *)
(***************************************************************************)
SyncsEnd ==
    \A s \in Sources :
        rows[s].status = "syncing" ~>
            \/ rows[s].status # "syncing"
            \/ s \in touched
            \/ \E t \in TasksOf(s) : tasks[t].lost

(***************************************************************************)
(* tests/unit/test_data_source_sync.py, test_no_documents_still_completes: a   *)
(* sync whose crawl finds no documents completes.  When such a sync met no    *)
(* fault and has ended alone, its source is not in error.                      *)
(***************************************************************************)
EmptyCrawlCompletes ==
    \A t \in Tasks :
        (tasks[t].pc = "done" /\ tasks[t].got = "empty" /\ faults = 0
         /\ TasksOf(tasks[t].src) = {t}) => rows[tasks[t].src].status # "error"

=============================================================================
