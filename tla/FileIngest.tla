----------------------------- MODULE FileIngest -----------------------------
(***************************************************************************)
(* Jobs that ingest uploaded files into one knowledge base.  The first stage *)
(* parses a file and appends a record to the base's JSONL checkpoint, which  *)
(* the jobs share and which outlives the process; the second stage reads the *)
(* whole checkpoint and hands every record to the ingestion pipeline.  A     *)
(* re-ingest job has the second stage only.  The status of a job is in Redis,*)
(* where a request may cancel it.                                          *)
(*                                                                         *)
(* A process that dies inside a write leaves a torn record: cut between two  *)
(* characters, cut inside one (broken), or whole but without its newline     *)
(* (bare).  The next record is appended to it and is on the same line.  So   *)
(* does a write that raises, of which the job makes an error of the file: it *)
(* leaves a part or nothing in the checkpoint, and what is missing stays in  *)
(* the buffer of the job's writer, to be written with its next record or     *)
(* when it is closed, unless it was too long for the buffer.                 *)
(*                                                                         *)
(* Left out: a writer that holds back more than one record, a write cut for  *)
(* a second time, a full disk that takes all of a record but its newline,    *)
(* and the counts of the base, which are in no property.                     *)
(***************************************************************************)
EXTENDS Naturals, Sequences, FiniteSets, SequencesExt

CONSTANTS
    Docs,        \* contents of files, which their hashes stand for
    Jobs,
    FilesOf,     \* FilesOf[j]: the files of job j; none: a re-ingest
    MaxRunning,     \* bound on the jobs at one time
    MaxWriteFaults, \* bound on deaths of the process and failed writes
    MaxRedisFaults, \* bound on exceptions of Redis
    MaxCancels,     \* bound on requests to cancel
    Cancellable     \* bound on the jobs they name

ASSUME FileAssumption ==
    /\ FilesOf \in [Jobs -> Seq(Docs)]
    /\ MaxRunning \in Nat /\ MaxCancels \in Nat /\ Cancellable \subseteq Jobs
    /\ MaxWriteFaults \in Nat /\ MaxRedisFaults \in Nat

VARIABLES
    jsonl,     \* the checkpoint: its records, and how each is on the disk
    task,      \* task[j]: what the job's task does next and what it holds
    status,    \* status[j]: the job's status in Redis
    request,   \* request[j]: a request to cancel the job
    extra,     \* history: documents job j handed on after its cancellation
    writeFaults, redisFaults

fileVars == <<jsonl, task, status, request, extra, writeFaults, redisFaults>>

-----------------------------------------------------------------------------
(* The checkpoint                                                          *)

Torn == {"cut", "broken", "bare"}
Records == [doc : Docs, is : {"whole", "joined", "spoilt"} \cup Torn]

Readable(r) == r.is \in {"whole", "bare"}
ReadableIn(s) == {r.doc : r \in {q \in Range(s) : Readable(q)}}

\* Every reader skips a line that is not JSON; a broken character, whatever is
\* written after it, raises an exception that no reader names.
Undecodable(r) == r.is \in {"broken", "spoilt"}
CannotRead(s) == \E r \in Range(s) : Undecodable(r)

EndsTorn(s) == s # <<>> /\ Last(s).is \in Torn
\* More is written on the line of a torn record.
Continued(s) ==
    IF EndsTorn(s)
    THEN [s EXCEPT ![Len(s)].is = IF @ = "broken" THEN "spoilt" ELSE "joined"]
    ELSE s
Added(s, d, is) == Append(Continued(s), [doc |-> d, is |-> is])

AppendedBare(s, d) == Added(s, d, IF EndsTorn(s) THEN "joined" ELSE "bare")  \* mutant
\* What a record is once all of it is written.
Completed(s) == IF EndsTorn(s) THEN "joined" ELSE "whole"
Appended(s, d) == Added(s, d, Completed(s))
AppendedInPart(s, d) ==
    {Added(s, d, how) : how \in IF EndsTorn(s) THEN Torn \ {"bare"} ELSE Torn}

\* What a writer holds back: a document's record (at = 0), or the end of the record
\* at, which is what it says when that end follows it.
Pieces == [doc : Docs, at : Nat, is : {"whole", "joined"}]
Flushed(s, h) ==
    CASE h = <<>> -> s
      [] h # <<>> /\ Head(h).at = 0 -> Appended(s, Head(h).doc)
      [] h # <<>> /\ Head(h).at = Len(s) /\ EndsTorn(s) ->
             [s EXCEPT ![Len(s)].is = Head(h).is]
      [] OTHER -> Continued(s)

-----------------------------------------------------------------------------
(* The jobs                                                                *)

Stages == {"new", "file", "parse", "stage 1 done", "read", "ingest",
           "stage 2 done", "finish", "ended", "dead", "refused"}
Results == {"completed", "failed", "cancelled"}
NewTask == [pc |-> "new", file |-> 1, known |-> {}, line |-> 1, handed |-> {},
            errors |-> {}, held |-> <<>>, result |-> "failed"]

FileInit ==
    /\ jsonl = <<>>
    /\ task = [j \in Jobs |-> NewTask]
    /\ status = [j \in Jobs |-> "none"]
    /\ request = [j \in Jobs |-> "none"]
    /\ extra = [j \in Jobs |-> 0]
    /\ writeFaults = 0 /\ redisFaults = 0

TaskAt(j, pc) == task[j].pc = pc
TaskGoes(j, pc) == task' = [task EXCEPT ![j].pc = pc]
Running(j) == task[j].pc \notin {"new", "ended", "dead", "refused"}
RunsOneMore == Cardinality({j \in Jobs : Running(j)}) < MaxRunning
IsUpload(j) == FilesOf[j] # <<>>
File(j) == FilesOf[j][task[j].file]
\* A task that has ended holds nothing; what it did is kept to be looked at.
Gone == [NewTask EXCEPT !.pc = "dead"]
EndedTask(t) == [NewTask EXCEPT !.pc = "ended", !.handed = t.handed, !.errors = t.errors]
Dies(j) == task' = [task EXCEPT ![j] = Gone]
Ends(j) == task' = [task EXCEPT ![j] = EndedTask(@)]
FileDone(j) ==
    [task EXCEPT ![j].file = @ + 1,
                 ![j].pc = IF task[j].file = Len(FilesOf[j]) THEN "stage 1 done" ELSE "file"]

\* The job is created; its task takes the set of the documents already parsed.
StartUpload(j) ==
    /\ TaskAt(j, "new") /\ IsUpload(j) /\ RunsOneMore
    /\ status' = [status EXCEPT ![j] = "processing"]
    /\ task' = IF CannotRead(jsonl) THEN [task EXCEPT ![j] = Gone]
               ELSE [task EXCEPT ![j].pc = "file", ![j].known = ReadableIn(jsonl)]
    /\ UNCHANGED <<jsonl, request, extra, writeFaults, redisFaults>>

\* The route counts lines, those it could not read as well; without one there
\* is no job.
StartReingest(j) ==
    /\ TaskAt(j, "new") /\ ~IsUpload(j) /\ RunsOneMore
    /\ IF jsonl = <<>> \/ CannotRead(jsonl)
       THEN TaskGoes(j, "refused") /\ UNCHANGED status
       ELSE TaskGoes(j, "read") /\ status' = [status EXCEPT ![j] = "processing"]
    /\ UNCHANGED <<jsonl, request, extra, writeFaults, redisFaults>>

TakeFile(j) ==
    /\ TaskAt(j, "file")
    /\ task' = IF status[j] = "cancelled" THEN [task EXCEPT ![j].pc = "stage 1 done"]
               ELSE IF File(j) \in task[j].known THEN FileDone(j)
               ELSE [task EXCEPT ![j].pc = "parse"]
    /\ UNCHANGED <<jsonl, status, request, extra, writeFaults, redisFaults>>

\* A file whose text is empty, that makes the parser raise or of whose record
\* nothing can be written is an error; the record of another one is appended to
\* the checkpoint, after what the writer held back.
Parse(j) ==
    /\ TaskAt(j, "parse")
    /\ \/ /\ jsonl' = Appended(Flushed(jsonl, task[j].held), File(j))
          /\ task' = [FileDone(j) EXCEPT ![j].held = <<>>]
       \/ /\ task' = [FileDone(j) EXCEPT ![j].errors = @ \cup {File(j)}]
          /\ UNCHANGED jsonl
    /\ UNCHANGED <<status, request, extra, writeFaults, redisFaults>>

\* The write raises: before the first character, after some of them, or after the
\* last (fsync).
WriteFails(j) ==
    LET d == File(j)
        piece(at) == [doc |-> d, at |-> at, is |-> Completed(jsonl)]
    IN  /\ TaskAt(j, "parse") /\ task[j].held = <<>>
        /\ writeFaults < MaxWriteFaults
        /\ writeFaults' = writeFaults + 1
        /\ \E held \in {<<>>, <<piece(0)>>, <<piece(Len(jsonl) + 1)>>} :
               /\ task' = [FileDone(j) EXCEPT ![j].errors = @ \cup {d}, ![j].held = held]
               /\ \/ held = <<piece(0)>> /\ UNCHANGED jsonl
                  \/ held # <<piece(0)>> /\ \E how \in {"cut", "broken"} :
                                                jsonl' = Added(jsonl, d, how)
                  \/ held = <<>> /\ jsonl' = Appended(jsonl, d)
        /\ UNCHANGED <<status, request, extra, redisFaults>>

\* Closing the writer writes what it held back, or raises: then the task ends.
CloseWriter(j) ==
    /\ TaskAt(j, "stage 1 done") /\ task[j].held # <<>>
    /\ \/ /\ jsonl' = Flushed(jsonl, task[j].held)
          /\ task' = [task EXCEPT ![j].held = <<>>]
       \/ Dies(j) /\ UNCHANGED jsonl
    /\ UNCHANGED <<status, request, extra, writeFaults, redisFaults>>

BeginStage2AtEnd(j) ==                                                 \* mutant
    /\ TaskAt(j, "stage 1 done") /\ task[j].held = <<>>
    /\ IF status[j] = "cancelled" THEN Ends(j)
       ELSE task' = [task EXCEPT ![j].pc = "read", ![j].file = 1, ![j].known = {},
                                 ![j].line = IF @ < Len(jsonl) THEN Len(jsonl) ELSE @]
    /\ UNCHANGED <<jsonl, status, request, extra, writeFaults, redisFaults>>

BeginStage2(j) ==
    /\ TaskAt(j, "stage 1 done") /\ task[j].held = <<>>
    /\ IF status[j] = "cancelled" THEN Ends(j)
       ELSE task' = [task EXCEPT ![j].pc = "read", ![j].file = 1, ![j].known = {}]
    /\ UNCHANGED <<jsonl, status, request, extra, writeFaults, redisFaults>>

ResultOf(t) == IF t.handed # {} THEN "completed" ELSE "failed"

ReadLineUnasked(j) ==                                                  \* mutant
    LET k == task[j].line
        more == k <= Len(jsonl)
    IN  /\ TaskAt(j, "read")
        /\ more => ~Undecodable(jsonl[k])
        /\ task' = IF more /\ ~Readable(jsonl[k])
                   THEN [task EXCEPT ![j].line = @ + 1]
                   ELSE [task EXCEPT ![j].pc = IF more
                                               THEN "ingest" ELSE "stage 2 done"]
        /\ UNCHANGED <<jsonl, status, request, extra, writeFaults, redisFaults>>

\* The second stage reads on: records that other jobs have appended meanwhile too.
ReadLine(j) ==
    LET k == task[j].line
        more == k <= Len(jsonl)
    IN  /\ TaskAt(j, "read")
        /\ more => ~Undecodable(jsonl[k])
        /\ task' = IF more /\ ~Readable(jsonl[k])
                   THEN [task EXCEPT ![j].line = @ + 1]
                   ELSE [task EXCEPT ![j].pc = IF more /\ status[j] # "cancelled"
                                               THEN "ingest" ELSE "stage 2 done"]
        /\ UNCHANGED <<jsonl, status, request, extra, writeFaults, redisFaults>>

\* The reader decodes ahead of the line it is at.
ReadFails(j) ==
    /\ TaskAt(j, "read")
    /\ \E n \in task[j].line .. Len(jsonl) : Undecodable(jsonl[n])
    /\ Dies(j)
    /\ UNCHANGED <<jsonl, status, request, extra, writeFaults, redisFaults>>

\* The pipeline answers, whatever its verdict on the document, or it raises.
IngestLine(j, ok) ==
    LET d == jsonl[task[j].line].doc
        on == [task EXCEPT ![j].pc = "read", ![j].line = @ + 1]
    IN  /\ TaskAt(j, "ingest")
        /\ task' = IF ok THEN [on EXCEPT ![j].handed = @ \cup {d}]
                   ELSE [on EXCEPT ![j].errors = @ \cup {d}]
        /\ extra' = [extra EXCEPT ![j] = IF status[j] = "cancelled" THEN @ + 1 ELSE @]
        /\ UNCHANGED <<jsonl, status, request, writeFaults, redisFaults>>

\* Only an upload asks once more whether it is cancelled.
Conclude(j) ==
    /\ TaskAt(j, "stage 2 done")
    /\ task' = [task EXCEPT ![j].pc = "finish",
                   ![j].result = IF IsUpload(j) /\ status[j] = "cancelled"
                                 THEN "cancelled" ELSE ResultOf(task[j])]
    /\ UNCHANGED <<jsonl, status, request, extra, writeFaults, redisFaults>>

Finish(j) ==
    /\ TaskAt(j, "finish")
    /\ status' = [status EXCEPT ![j] = task[j].result]
    /\ Ends(j)
    /\ UNCHANGED <<jsonl, request, extra, writeFaults, redisFaults>>

\* An exception of the Redis client is in none of the except clauses: the task
\* ends, its writer is closed, and the job keeps its status.
RedisFails(j) ==
    /\ task[j].pc \in {"file", "stage 1 done", "read", "stage 2 done", "finish"}
    /\ redisFaults < MaxRedisFaults
    /\ redisFaults' = redisFaults + 1
    /\ Dies(j)
    /\ jsonl' \in {jsonl, Flushed(jsonl, task[j].held)}
    /\ UNCHANGED <<status, request, extra, writeFaults>>

\* The process dies, and with it every task: one of them may be in the middle
\* of its write.
Crash ==
    /\ \E j \in Jobs : Running(j)
    /\ writeFaults < MaxWriteFaults
    /\ writeFaults' = writeFaults + 1
    /\ task' = [j \in Jobs |-> IF Running(j) THEN Gone ELSE task[j]]
    /\ \/ UNCHANGED jsonl
       \/ \E j \in Jobs : TaskAt(j, "parse") /\
              jsonl' \in AppendedInPart(Flushed(jsonl, task[j].held), File(j))
    /\ UNCHANGED <<status, request, extra, redisFaults>>

-----------------------------------------------------------------------------
(* Requests to cancel                                                      *)

CancelReads(j) ==
    /\ j \in Cancellable /\ request[j] = "none" /\ status[j] = "processing"
    /\ Cardinality({k \in Jobs : request[k] # "none"}) < MaxCancels
    /\ request' = [request EXCEPT ![j] = "read"]
    /\ UNCHANGED <<jsonl, task, status, extra, writeFaults, redisFaults>>

CancelWrites(j) ==
    /\ request[j] = "read"
    /\ status' = [status EXCEPT ![j] = "cancelled"]
    /\ request' = [request EXCEPT ![j] = "answered"]
    /\ UNCHANGED <<jsonl, task, extra, writeFaults, redisFaults>>

TaskStep(j) ==
    \/ TakeFile(j) \/ Parse(j) \/ WriteFails(j) \/ CloseWriter(j) \/ BeginStage2(j)
    \/ ReadLine(j) \/ ReadFails(j) \/ (\E ok \in BOOLEAN : IngestLine(j, ok))
    \/ Conclude(j) \/ Finish(j)

FileNext ==
    \/ \E j \in Jobs : \/ StartUpload(j) \/ StartReingest(j)
                       \/ TaskStep(j) \/ RedisFails(j)
                       \/ CancelReads(j) \/ CancelWrites(j)
    \/ Crash

FileSpec == FileInit /\ [][FileNext]_fileVars

-----------------------------------------------------------------------------
(* Properties                                                              *)

\* Every variable stays in its set.
FileTypeOK ==
    /\ jsonl \in Seq(Records)
    /\ task \in [Jobs -> [pc : Stages, file : Nat, known : SUBSET Docs, line : Nat,
                          handed : SUBSET Docs, errors : SUBSET Docs, held : Seq(Pieces),
                          result : Results]]
    /\ status \in [Jobs -> {"none", "processing"} \cup Results]
    /\ request \in [Jobs -> {"none", "read", "answered"}]
    /\ extra \in [Jobs -> Nat]
    /\ writeFaults \in 0 .. MaxWriteFaults /\ redisFaults \in 0 .. MaxRedisFaults

\* An upload that is completed has handed every one of its files to the pipeline
\* or listed it among its errors, also a file it did not parse since an earlier
\* job had; except one whose record a death or a failed write has made
\* unreadable
\* (_stage1_parse_to_jsonl 142-146, _stage2_ingest_from_jsonl 208-232).
FilesAccounted ==
    \A j \in Jobs : IsUpload(j) /\ status[j] = "completed" =>
        \A d \in Range(FilesOf[j]) :
            \/ d \in task[j].handed \cup task[j].errors
            \/ \E r \in Range(jsonl) : r.doc = d /\ ~Readable(r)

\* A death of the process or a failed write makes at most two records unreadable,
\* its own and the one that is appended to it, however many jobs write, fail and
\* die in turn (JsonlCheckpointWriter 204-216).
LossPerFault ==
    Cardinality({n \in DOMAIN jsonl : ~Readable(jsonl[n])}) <= 2 * writeFaults

\* After a cancellation is written, a job hands on no other document than the one
\* it was at (is_cancelled 105-109, _stage2_ingest_from_jsonl 209-211).
CancelStopsSoon == \A j \in Jobs : extra[j] <= 1

\* Claim of the module's head (jsonl_checkpoint.py:5) and of its reader (:223):
\* what is parsed survives a crash, and malformed lines are skipped.
ReadableNow == IF CannotRead(jsonl) THEN {} ELSE ReadableIn(jsonl)
ParsedSurvives == [][ReadableNow \subseteq ReadableNow']_jsonl

\* Claim of the interface (docs/API.md:723): a job that is cancelled is so for good.
CancelSticks ==
    [][\A j \in Jobs : status[j] = "cancelled" => status'[j] = "cancelled"]_status
=============================================================================
