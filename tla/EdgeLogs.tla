------------------------------ MODULE EdgeLogs ------------------------------
(***************************************************************************)
(* The way of a logged query from a store to the centre's database: a      *)
(* thread of the edge server appends its line to queries.jsonl, the sync   *)
(* program renames the file and puts it at the store's pre-signed URL,     *)
(* which names one object, and collect requests at the centre read the     *)
(* object, delete it and save its lines.  Server, sync program and         *)
(* requests run beside each other and share only the files and the object. *)
(* Uploads do not overlap (a oneshot unit of a timer).                     *)
(***************************************************************************)
EXTENDS Naturals, Sequences, FiniteSets

CONSTANTS
    Queries,      \* the queries a store answers
    Collectors,   \* collect requests that may overlap
    MaxFaults     \* bound: calls that fail, programs that stop

ASSUME LogsAssumption == MaxFaults \in Nat /\ IsFiniteSet(Collectors)

VARIABLES
    writer,     \* writer[q]: the file that the thread of q has opened, or how it ended
    log,        \* queries.jsonl, line by line
    upload,     \* the renamed file of the upload under way
    left,       \* the queries in renamed files that uploads left behind
    sync,       \* the upload: where it is, and the body it has read
    object,     \* the store's object in S3; none when empty
    collector,  \* the collect requests: where each is, the queries it holds
    rows,       \* rows[q]: the rows of q in distill_edge_logs
    sent,       \* history: the queries in the bodies that S3 took
    late,       \* history: those written after the upload had read their file
    causes,     \* history: causes[q]: the bodies with q that S3 took, the reads of q
                \* before an earlier reader had deleted it, the deletes of q that failed
    faults      \* history: calls that failed, programs that stopped

files == <<log, upload, left>>
centre == <<object, collector, rows>>
vars == <<writer, files, sync, centre, sent, late, causes, faults>>

\* A line cut short has no newline: the next one is joined to it, and neither
\* can be parsed.
Lines == [of : Queries, state : {"whole", "cut", "joined"}]
Of(file) == {file[i].of : i \in DOMAIN file}
EndsCut(file) == file # <<>> /\ file[Len(file)].state = "cut"

Line(q, state) == <<[of |-> q, state |-> state]>>

\* lines appended to a file
Join(file, lines) ==
    IF EndsCut(file) /\ lines # <<>> /\ Head(lines).state = "whole"
    THEN file \o Line(Head(lines).of, "joined") \o Tail(lines)
    ELSE file \o lines

\* the queries before the first line that is no JSON
Parsed(file) ==
    {file[i].of : i \in {j \in DOMAIN file : \A k \in 1..j : file[k].state = "whole"}}

Open == {"log", "upload", "left", "gone"}
Stages == {"off", "read", "put", "unlink", "back", "drop"}
Uploads == [pc : Stages, body : Seq(Lines)]
NoUpload == [pc |-> "off", body |-> <<>>]
Collects == [pc : {"idle", "get", "delete", "save"}, got : SUBSET Queries]
Idle == [pc |-> "idle", got |-> {}]

Init ==
    /\ writer = [q \in Queries |-> "none"]
    /\ log = <<>> /\ upload = <<>> /\ left = {}
    /\ sync = NoUpload
    /\ object = <<>>
    /\ collector = [c \in Collectors |-> Idle]
    /\ rows = [q \in Queries |-> 0]
    /\ sent = {} /\ late = {}
    /\ causes = [q \in Queries |-> 0]
    /\ faults = 0

Fault == faults < MaxFaults /\ faults' = faults + 1

OneMore(counts, qs) == [q \in Queries |-> counts[q] + (IF q \in qs THEN 1 ELSE 0)]
Counted(qs) == causes' = OneMore(causes, qs)

---------------------------------------------------------------------------
(* The edge server: _sync_log_query in a thread of its own for every query *)

OnlyServer == UNCHANGED <<sync, centre, sent, causes>>

OpenLog(q) ==
    /\ writer[q] = "none"
    /\ writer' = [writer EXCEPT ![q] = "log"]
    /\ OnlyServer /\ UNCHANGED <<files, late, faults>>

\* A file that was renamed or removed since is written all the same.
Put(q, line) ==
    /\ log' = IF writer[q] = "log" THEN Join(log, line) ELSE log
    /\ upload' = IF writer[q] = "upload" THEN Join(upload, line) ELSE upload
    /\ left' = IF writer[q] = "left" THEN left \cup {q} ELSE left

IsRead == sync.pc \in {"put", "unlink", "drop"}   \* the upload has its body

WriteLine(q) ==
    /\ writer[q] \in Open
    /\ Put(q, Line(q, "whole"))
    /\ writer' = [writer EXCEPT ![q] = "done"]
    /\ late' = IF writer[q] = "gone" \/ (writer[q] = "upload" /\ IsRead)
               THEN late \cup {q} ELSE late
    /\ OnlyServer /\ UNCHANGED faults

\* A full disk: the OSError is logged, what was written stays.
WriteFails(q) ==
    /\ writer[q] \in Open
    /\ Fault
    /\ Put(q, Line(q, "cut")) \/ UNCHANGED files
    /\ writer' = [writer EXCEPT ![q] = "failed"]
    /\ OnlyServer /\ UNCHANGED late

---------------------------------------------------------------------------
(* The sync program: upload_logs                                           *)

At(stage) == sync.pc = stage
GoTo(stage) == sync' = [sync EXCEPT !.pc = stage]
\* The threads that had the file open have it under its new name.
Moved(from, to) ==
    writer' = [q \in Queries |-> IF writer[q] = from THEN to ELSE writer[q]]
OnlySync == UNCHANGED <<centre, late>>

Rename ==
    /\ At("off") /\ log # <<>>
    /\ upload' = log /\ log' = <<>>
    /\ Moved("log", "upload")
    /\ GoTo("read")
    /\ OnlySync /\ UNCHANGED <<left, sent, causes, faults>>

ReadBody ==
    /\ At("read")
    /\ sync' = [pc |-> "put", body |-> upload]
    /\ OnlySync /\ UNCHANGED <<writer, files, sent, causes, faults>>

\* An OSError is caught, unlike an error of the network or a 5xx.
ReadFails ==
    /\ At("read")
    /\ Fault
    /\ GoTo("back")
    /\ OnlySync /\ UNCHANGED <<writer, files, sent, causes>>

\* S3 has the body, in place of what the object held.
Taken ==
    /\ object' = sync.body
    /\ sent' = sent \cup Of(sync.body)
    /\ Counted(Of(sync.body))

PutBody ==
    /\ At("put")
    /\ Taken
    /\ GoTo("unlink")
    /\ UNCHANGED <<writer, files, collector, rows, late, faults>>

Unlink ==
    /\ sync.pc \in {"unlink", "drop"}
    /\ upload' = <<>>
    /\ Moved("upload", "gone")
    /\ sync' = NoUpload
    /\ OnlySync /\ UNCHANGED <<log, left, sent, causes, faults>>

\* The handler for a failed upload takes a failed unlink for one.
UnlinkFails ==
    /\ At("unlink")
    /\ Fault
    /\ GoTo("back")
    /\ OnlySync /\ UNCHANGED <<writer, files, sent, causes>>

AppendBackForgets ==                                         \* mutant
    /\ At("back")
    /\ GoTo("drop")
    /\ OnlySync /\ UNCHANGED <<writer, files, sent, causes, faults>>

AppendBack ==
    /\ At("back")
    /\ log' = Join(log, upload)
    /\ GoTo("drop")
    /\ OnlySync /\ UNCHANGED <<writer, upload, left, sent, causes, faults>>

\* The renamed file stays, and no later run looks for it.
Leave ==
    /\ left' = left \cup Of(upload)
    /\ upload' = <<>>
    /\ Moved("upload", "left")
    /\ sync' = NoUpload

\* The answer is an error or none at all, whether S3 has the body or not.
PutFails ==
    /\ At("put")
    /\ Fault
    /\ Leave
    /\ Taken \/ UNCHANGED <<object, sent, causes>>
    /\ UNCHANGED <<log, collector, rows, late>>

\* killed, or failing where nothing is caught
RunEnds ==
    /\ ~At("off")
    /\ Fault
    /\ Leave
    /\ OnlySync /\ UNCHANGED <<log, sent, causes>>

---------------------------------------------------------------------------
(* The centre: EdgeLogCollector.collect for each collect request           *)

OnlyCollector == UNCHANGED <<writer, files, sync, sent, late>>
Collecting(c, stage) == collector[c].pc = stage

ListObjects(c) ==
    /\ Collecting(c, "idle") /\ object # <<>>
    /\ collector' = [collector EXCEPT ![c].pc = "get"]
    /\ OnlyCollector /\ UNCHANGED <<object, rows, causes, faults>>

\* a reader of the object that has not got to its delete
Deleting(c) == collector[c].pc = "delete"
Shared(c, qs) ==
    {q \in qs : \E d \in Collectors \ {c} : Deleting(d) /\ q \in collector[d].got}

\* An object that is gone is a ClientError, which ends the request.  The lines
\* after one that cannot be parsed are skipped.
GetObject(c) ==
    /\ Collecting(c, "get")
    /\ IF object = <<>>
       THEN collector' = [collector EXCEPT ![c] = Idle] /\ UNCHANGED causes
       ELSE /\ collector' = [collector EXCEPT ![c] =
                                [pc |-> "delete", got |-> Parsed(object)]]
            /\ Counted(Shared(c, Parsed(object)))
    /\ OnlyCollector /\ UNCHANGED <<object, rows, faults>>

\* The read breaks off: the error is caught, nothing was parsed, and the object
\* is deleted all the same.
GetFails(c) ==
    /\ Collecting(c, "get")
    /\ Fault
    /\ collector' = [collector EXCEPT ![c].pc = "delete"]
    /\ OnlyCollector /\ UNCHANGED <<object, rows, causes>>

Saved(qs) == rows' = OneMore(rows, qs)

SaveFirst(c) ==                                              \* mutant
    /\ Deleting(c)
    /\ Saved(collector[c].got)
    /\ \/ object' = <<>> /\ UNCHANGED faults
       \/ UNCHANGED object /\ Fault
    /\ collector' = [collector EXCEPT ![c] = Idle]
    /\ OnlyCollector /\ UNCHANGED causes

\* whatever the object holds by now
DeleteObject(c) ==
    /\ Deleting(c)
    /\ object' = <<>>
    /\ collector' = [collector EXCEPT ![c].pc = "save"]
    /\ OnlyCollector /\ UNCHANGED <<rows, causes, faults>>

\* The error is swallowed and the object stays; the rows are saved all the same.
DeleteFails(c) ==
    /\ Deleting(c)
    /\ Fault
    /\ collector' = [collector EXCEPT ![c].pc = "save"]
    /\ Counted(collector[c].got \cap Of(object))
    /\ OnlyCollector /\ UNCHANGED <<object, rows>>

SaveRows(c) ==
    /\ Collecting(c, "save")
    /\ Saved(collector[c].got)
    /\ collector' = [collector EXCEPT ![c] = Idle]
    /\ OnlyCollector /\ UNCHANGED <<object, causes, faults>>

\* The API stops, or S3 or the database answers with an error that nobody
\* catches: the request has saved some batches of its rows or none.
CollectEnds(c) ==
    /\ ~Collecting(c, "idle")
    /\ Fault
    /\ collector' = [collector EXCEPT ![c] = Idle]
    /\ object' \in IF Deleting(c) THEN {object, <<>>} ELSE {object}
    /\ \E part \in SUBSET collector[c].got :
           (Collecting(c, "save") \/ part = {}) /\ Saved(part)
    /\ OnlyCollector /\ UNCHANGED causes

Next ==
    \/ \E q \in Queries : OpenLog(q) \/ WriteLine(q) \/ WriteFails(q)
    \/ Rename \/ ReadBody \/ PutBody \/ Unlink \/ AppendBack
    \/ ReadFails \/ PutFails \/ UnlinkFails \/ RunEnds
    \/ \E c \in Collectors :
           \/ ListObjects(c) \/ GetObject(c) \/ GetFails(c)
           \/ DeleteObject(c) \/ DeleteFails(c) \/ SaveRows(c) \/ CollectEnds(c)

Spec == Init /\ [][Next]_vars

---------------------------------------------------------------------------
(* Properties                                                              *)

\* Every variable stays in its set.
TypeOK ==
    /\ writer \in [Queries -> Open \cup {"none", "done", "failed"}]
    /\ log \in Seq(Lines) /\ upload \in Seq(Lines) /\ left \subseteq Queries
    /\ sync \in Uploads
    /\ object \in Seq(Lines)
    /\ collector \in [Collectors -> Collects]
    /\ rows \in [Queries -> Nat]
    /\ sent \subseteq Queries /\ late \subseteq Queries
    /\ causes \in [Queries -> Nat]
    /\ faults \in 0..MaxFaults

\* A line that was written is in a file of the store or in a body that S3 took,
\* whatever failed in an upload and in whichever order the server's threads
\* wrote; only a line that came after the upload had read its file may be
\* removed with it (upload_logs 188-213, _sync_log_query).
KeptOrSent ==
    \A q \in Queries : writer[q] = "done" =>
        q \in Of(log) \cup Of(upload) \cup left \cup sent \cup late

\* The centre saves a query once for each of these at most: a body with it that
\* S3 took, a collect request that read it before an earlier reader had deleted
\* the object, and a delete of it that failed and was swallowed (collect 45-96).
EveryRowHasItsCause == \A q \in Queries : rows[q] <= causes[q]

\* Claim of the docstring of upload_logs: the rename prevents the race with the
\* server's threads.  A thread that opened the file before the rename may write
\* after the upload has read it.
RenamePreventsRace ==
    faults = 0 => \A q \in Queries : writer[q] = "done" =>
        q \in Of(log) \cup Of(upload) \cup left \cup sent
=============================================================================
