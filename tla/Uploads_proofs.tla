--------------------------- MODULE Uploads_proofs ---------------------------
(***************************************************************************)
(* Proofs about the way of a file into a knowledge base, for every value    *)
(* of the constants: the upload session that collects files (BulkUpload),   *)
(* the jobs that ingest them over one shared checkpoint (FileIngest), and   *)
(* the caches of answers that such an ingestion invalidates (AnswerCache).  *)
(* The three share no variable; each part ends with its theorems.           *)
(***************************************************************************)
EXTENDS BulkUpload, FileIngest, AnswerCache, FiniteSetTheorems, TLAPS

---------------------------------------------------------------------------
(* PART ONE: the upload session                                            *)
(* The records                                                             *)

LEMMA NewRecords == NewRow \in Row /\ NoCall \in CallStates
  <1>1. NewRow \in Row
    BY DEF NewRow, Row
  <1>2. 0 \in 0..MaxTries /\ 1 \in Files
    BY BoundsAssumption DEF Files
  <1> QED
    BY <1>1, <1>2 DEF NoCall, CallStates, CallPcs

\* A call that goes to a state of its type.
LEMMA CallMoves ==
    ASSUME TypeOK, NEW c \in Calls, NEW d \in CallStates,
           calls' = [calls EXCEPT ![c] = d]
    PROVE  calls' \in [Calls -> CallStates]
  BY DEF TypeOK

LEMMA PcMoves ==
    ASSUME TypeOK, NEW c \in Calls, NEW pc \in CallPcs, GoTo(c, pc)
    PROVE  calls' \in [Calls -> CallStates]
  BY DEF TypeOK, GoTo, CallStates

LEMMA NextFileType ==
    ASSUME TypeOK, NEW c \in Calls
    PROVE  NextFile(c) \in CallStates
  <1>1. calls[c] \in CallStates
    BY DEF TypeOK
  <1> DEFINE done == [calls[c] EXCEPT !.fetched = FALSE, !.ok = FALSE, !.seen = NewRow]
  <1>2. done \in CallStates
    BY <1>1, NewRecords DEF CallStates
  <1>3. CASE IsLast(done.file)
    <2>1. [done EXCEPT !.pc = "returned", !.skip = {}] \in CallStates
      BY <1>2 DEF CallStates, CallPcs
    <2> QED  BY <1>3, <2>1 DEF NextFile
  <1>4. CASE ~IsLast(done.file)
    <2>1. done.file \in 1..MaxFiles /\ done.file # MaxFiles
      BY <1>2, <1>4 DEF CallStates, Files, IsLast
    <2>2. done.file + 1 \in Files
      BY <2>1, BoundsAssumption DEF Files
    <2>3. [done EXCEPT !.pc = "file", !.file = done.file + 1] \in CallStates
      BY <1>2, <2>2 DEF CallStates, CallPcs, JobPcs
    <2> QED  BY <1>4, <2>3 DEF NextFile
  <1> QED  BY <1>3, <1>4

\* What increment_processed makes of the row it has read, and what it writes.
LEMMA CountedType ==
    ASSUME NEW r \in Row, NEW ok \in BOOLEAN
    PROVE  /\ WithStatus(Counted(r, ok)) \in Row
           /\ WithStatus(Counted(r, ok)).failed = IF ok THEN r.failed ELSE r.failed + 1
  <1> DEFINE p == IF ok THEN r.processed + 1 ELSE r.processed
             n == IF ok THEN r.failed ELSE r.failed + 1
  <1>0. p \in Nat /\ n \in Nat
    BY DEF Row
  <1>1. /\ Counted(r, ok) \in Row
        /\ Counted(r, ok).failed = n
    <2>1. Counted(r, ok) = [r EXCEPT !.processed = p, !.failed = n]
      BY DEF Counted
    <2> HIDE DEF p, n
    <2> QED  BY <1>0, <2>1 DEF Row
  <1> QED
    BY <1>1 DEF WithStatus, Row, Ended

LEMMA WrittenType ==
    ASSUME NEW S, NEW was \in S, NEW new \in S, NEW now \in S
    PROVE  Written(was, new, now) \in S
  BY DEF Written

---------------------------------------------------------------------------
(* Type correctness                                                        *)

LEMMA TypeInit == Init => TypeOK
  <1> SUFFICES ASSUME Init PROVE TypeOK
    OBVIOUS
  <1>1. calls \in [Calls -> CallStates] /\ row \in Row
    BY NewRecords DEF Init
  <1>2. faults \in 0..MaxFaults
    BY BoundsAssumption DEF Init
  <1> QED
    BY <1>1, <1>2 DEF Init, TypeOK

LEMMA TypeBrowser == TypeOK /\ BrowserNext => TypeOK'
  <1> SUFFICES ASSUME TypeOK, BrowserNext PROVE TypeOK'
    OBVIOUS
  <1>1. CASE DayPasses
    BY <1>1 DEF TypeOK, DayPasses, storage
  <1>2. ASSUME NEW f \in Files, Put(f) PROVE TypeOK'
    BY <1>2 DEF TypeOK, Put
  <1> QED  BY <1>1, <1>2 DEF BrowserNext

LEMMA FaultType == ASSUME TypeOK, Fault PROVE faults' \in 0..MaxFaults
  BY BoundsAssumption DEF TypeOK, Fault

LEMMA TypeFinalize == TypeOK /\ FinalizeNext => TypeOK'
  <1> SUFFICES ASSUME TypeOK, FinalizeNext PROVE TypeOK'
    OBVIOUS
  <1> PICK c \in Calls : \/ \E skip \in SUBSET Files : FinalizeReads(c, skip)
                         \/ CompleteMultiparts(c) \/ SetProcessing(c)
                         \/ EnqueueIngest(c) \/ EnqueueFails(c) \/ ApiDies(c)
    BY DEF FinalizeNext
  <1>0. calls[c] \in CallStates
    BY DEF TypeOK
  <1>1. ASSUME NEW skip \in SUBSET Files, FinalizeReads(c, skip) PROVE TypeOK'
    <2>1. [NoCall EXCEPT !.pc = "complete", !.skip = skip] \in CallStates
      BY NewRecords DEF CallStates, CallPcs, RoutePcs
    <2>2. calls' \in [Calls -> CallStates]
      BY <1>1, <2>1, CallMoves DEF FinalizeReads
    <2> QED  BY <1>1, <2>2 DEF TypeOK, FinalizeReads, storage
  <1>2. CASE CompleteMultiparts(c)
    <2> DEFINE todo == Multi \ calls[c].skip
               open == {f \in todo : parts[f] = "open"}
    <2> PICK done \in SUBSET todo, gone \in SUBSET open :
              /\ parts' = [f \in Multi |-> IF f \in done THEN "completed"
                                           ELSE IF f \in gone THEN "aborted" ELSE parts[f]]
              /\ objects' = objects \cup (done \cap open)
              /\ calls' = [calls EXCEPT ![c] =
                           [calls[c] EXCEPT !.pc = "set", !.skip = calls[c].skip \cup (todo \ done)]]
      BY <1>2 DEF CompleteMultiparts
    <2>1. todo \subseteq Files
      BY MultiAssumption
    <2> DEFINE d == [calls[c] EXCEPT !.pc = "set", !.skip = calls[c].skip \cup (todo \ done)]
    <2>2a. d \in CallStates
      BY <1>0, <2>1 DEF CallStates, CallPcs, RoutePcs
    <2>2. calls' \in [Calls -> CallStates]
      <3>1. calls' = [calls EXCEPT ![c] = d]
        OBVIOUS
      <3> HIDE DEF d
      <3> QED  BY <2>2a, <3>1, CallMoves
    <2>3. parts' \in [Multi -> {"open", "completed", "aborted"}]
      BY DEF TypeOK
    <2>4. objects' \subseteq Files
      BY <2>1 DEF TypeOK
    <2> QED  BY <1>2, <2>2, <2>3, <2>4 DEF TypeOK, CompleteMultiparts
  <1>3. CASE SetProcessing(c)
    <2>1. calls' \in [Calls -> CallStates]
      BY <1>3, PcMoves DEF SetProcessing, CallPcs, RoutePcs
    <2>2. row' \in Row
      BY <1>3 DEF SetProcessing, TypeOK, Row
    <2> QED  BY <1>3, <2>1, <2>2 DEF TypeOK, SetProcessing, storage
  <1>4. CASE EnqueueIngest(c)
    <2>1. 1 \in 0..MaxTries
      BY BoundsAssumption
    <2>2. calls' \in [Calls -> CallStates]
      <3>1. [calls[c] EXCEPT !.pc = "queued", !.tries = 1] \in CallStates
        BY <1>0, <2>1 DEF CallStates, CallPcs
      <3> QED  BY <1>4, <3>1, CallMoves DEF EnqueueIngest
    <2> QED  BY <1>4, <2>2 DEF TypeOK, EnqueueIngest, storage
  <1>5. CASE EnqueueFails(c)
    <2>1. calls' \in [Calls -> CallStates]
      BY <1>5, PcMoves DEF EnqueueFails, CallPcs
    <2>2. row' \in Row
      BY <1>5 DEF EnqueueFails, TypeOK, Row, Ended
    <2>3. faults' \in 0..MaxFaults
      BY <1>5, FaultType DEF EnqueueFails
    <2> QED  BY <1>5, <2>1, <2>2, <2>3 DEF TypeOK, EnqueueFails, storage
  <1>6. CASE ApiDies(c)
    <2>1. calls' \in [Calls -> CallStates]
      BY <1>6, PcMoves DEF ApiDies, CallPcs
    <2>2. faults' \in 0..MaxFaults
      BY <1>6, FaultType DEF ApiDies
    <2> QED  BY <1>6, <2>1, <2>2 DEF TypeOK, ApiDies, storage
  <1> QED  BY <1>1, <1>2, <1>3, <1>4, <1>5, <1>6

\* What CountCommits writes, by the lemmas on its helpers.
LEMMA CommitType ==
    ASSUME TypeOK, NEW c \in Calls, CountCommits(c)
    PROVE  row' \in Row
  <1> DEFINE seen == calls[c].seen
             new  == WithStatus(Counted(seen, calls[c].ok))
  <1>1. seen \in Row /\ new \in Row
    BY CountedType DEF TypeOK, CallStates
  <1>2. row' = [status    |-> Written(seen.status, new.status, row.status),
                processed |-> Written(seen.processed, new.processed, row.processed),
                failed    |-> Written(seen.failed, new.failed, row.failed)]
    BY DEF CountCommits
  <1>3. row \in Row
    BY DEF TypeOK
  <1> QED
    BY <1>1, <1>2, <1>3, WrittenType DEF Row

LEMMA TypeJob == TypeOK /\ JobNext => TypeOK'
  <1> SUFFICES ASSUME TypeOK, JobNext PROVE TypeOK'
    OBVIOUS
  <1> PICK c \in Calls : JobStep(c) \/ WorkerStops(c) \/ JobAborts(c)
    BY DEF JobNext
  <1>0. calls[c] \in CallStates /\ calls[c].file \in Files
    BY DEF TypeOK, CallStates
  <1> USE DEF storage
  <1>1. CASE JobStarts(c)
    <2>1. 1 \in Files
      BY BoundsAssumption DEF Files
    <2>2. calls' \in [Calls -> CallStates]
      <3>1. [calls[c] EXCEPT !.pc = "file", !.file = 1, !.fetched = FALSE] \in CallStates
        BY <1>0, <2>1 DEF CallStates, CallPcs, JobPcs
      <3> QED  BY <1>1, <3>1, CallMoves DEF JobStarts
    <2> QED  BY <1>1, <2>2 DEF TypeOK, JobStarts
  <1>2. ASSUME Unread(c) PROVE calls' \in [Calls -> CallStates]
    <2>1. [calls[c] EXCEPT !.pc = "count", !.ok = FALSE, !.fetched = FALSE] \in CallStates
      BY <1>0 DEF CallStates, CallPcs, JobPcs, FilePcs
    <2> QED  BY <1>2, <2>1, CallMoves DEF Unread
  <1>3. CASE SkipFile(c)
    BY <1>2, <1>3 DEF TypeOK, SkipFile, Unread
  <1>4. CASE DownloadFails(c)
    <2>1. faults' \in 0..MaxFaults
      BY <1>4, FaultType DEF DownloadFails, TypeOK
    <2>2. fate' \in [Files -> {"none", "good", "bad"}]
      BY <1>4 DEF DownloadFails, TypeOK
    <2> QED  BY <1>2, <1>4, <2>1, <2>2 DEF TypeOK, DownloadFails, Unread
  <1>5. CASE Download(c)
    <2>1. calls' \in [Calls -> CallStates]
      <3>1. [calls[c] EXCEPT !.pc = "ingest", !.fetched = TRUE] \in CallStates
        BY <1>0 DEF CallStates, CallPcs, JobPcs, FilePcs
      <3> QED  BY <1>5, <3>1, CallMoves DEF Download
    <2> QED  BY <1>5, <2>1 DEF TypeOK, Download
  <1>6. ASSUME NEW ok \in BOOLEAN, Ingest(c, ok) PROVE TypeOK'
    <2>1. calls' \in [Calls -> CallStates]
      <3>1. [calls[c] EXCEPT !.pc = "count", !.ok = ok] \in CallStates
        BY <1>0 DEF CallStates, CallPcs, JobPcs, FilePcs
      <3> QED  BY <1>6, <3>1, CallMoves DEF Ingest
    <2>2. fate' \in [Files -> {"none", "good", "bad"}]
      BY <1>6 DEF Ingest, TypeOK
    <2> QED  BY <1>6, <2>1, <2>2 DEF TypeOK, Ingest
  <1>7. CASE CountReads(c)
    <2>1. calls' \in [Calls -> CallStates]
      <3>1. [calls[c] EXCEPT !.pc = "commit", !.seen = row] \in CallStates
        BY <1>0 DEF TypeOK, CallStates, CallPcs, JobPcs, FilePcs
      <3> QED  BY <1>7, <3>1, CallMoves DEF CountReads
    <2> QED  BY <1>7, <2>1 DEF TypeOK, CountReads
  <1>8. CASE CountCommits(c)
    <2>1. [calls[c] EXCEPT !.pc = "delete", !.seen = NewRow] \in CallStates
      BY <1>0, NewRecords DEF CallStates, CallPcs, JobPcs, FilePcs
    <2>2. calls' \in [Calls -> CallStates]
      BY <1>8, <2>1, NextFileType DEF CountCommits, TypeOK
    <2>3. row' \in Row
      BY <1>8, CommitType
    <2> QED  BY <1>8, <2>2, <2>3 DEF TypeOK, CountCommits
  <1>9. CASE DeleteObject(c)
    <2>1. calls' \in [Calls -> CallStates]
      BY <1>9, NextFileType, CallMoves DEF DeleteObject
    <2>2. objects' \subseteq Files
      BY <1>9 DEF DeleteObject, TypeOK
    <2> QED  BY <1>9, <2>1, <2>2 DEF TypeOK, DeleteObject
  <1>10. Finally(c) \subseteq Files
    BY DEF Finally, TypeOK
  <1>11. CASE WorkerStops(c)
    <2>1. calls[c].tries < MaxTries => calls[c].tries + 1 \in 0..MaxTries
      BY <1>0, BoundsAssumption DEF CallStates
    <2> DEFINE d == IF calls[c].tries < MaxTries
                    THEN [calls[c] EXCEPT !.pc = "queued", !.tries = calls[c].tries + 1,
                                          !.seen = NewRow]
                    ELSE [calls[c] EXCEPT !.pc = "lost"]
    <2>2. d \in CallStates
      BY <1>0, <2>1, NewRecords DEF CallStates, CallPcs
    <2>3. calls' \in [Calls -> CallStates]
      <3>1. calls' = [calls EXCEPT ![c] = d]
        BY <1>11 DEF WorkerStops
      <3> HIDE DEF d
      <3> QED  BY <2>2, <3>1, CallMoves
    <2>4. faults' \in 0..MaxFaults /\ objects' \subseteq Files
      BY <1>10, <1>11, FaultType DEF WorkerStops, TypeOK
    <2> QED  BY <1>11, <2>3, <2>4 DEF TypeOK, WorkerStops
  <1>12. CASE JobAborts(c)
    <2>1. calls' \in [Calls -> CallStates]
      BY <1>12, PcMoves DEF JobAborts, CallPcs
    <2>2. faults' \in 0..MaxFaults /\ objects' \subseteq Files
      BY <1>10, <1>12, FaultType DEF JobAborts, TypeOK
    <2> QED  BY <1>12, <2>1, <2>2 DEF TypeOK, JobAborts
  <1> QED
    BY <1>1, <1>3, <1>4, <1>5, <1>6, <1>7, <1>8, <1>9, <1>11, <1>12 DEF JobStep

LEMMA TypeCleanup == TypeOK /\ CleanupNext => TypeOK'
  <1> SUFFICES ASSUME TypeOK, CleanupNext PROVE TypeOK'
    OBVIOUS
  <1> USE DEF storage
  <1>1. CASE ListOrphan
    BY <1>1 DEF TypeOK, ListOrphan
  <1>2. CASE CleanObjects
    BY <1>2 DEF TypeOK, CleanObjects
  <1>3. CASE AbortMultiparts
    <2>1. parts' \in [Multi -> {"open", "completed", "aborted"}]
      BY <1>3 DEF TypeOK, AbortMultiparts
    <2> QED  BY <1>3, <2>1 DEF TypeOK, AbortMultiparts
  <1>4. CASE FailOrphan
    <2>1. row' \in Row
      BY <1>4 DEF FailOrphan, TypeOK, Row, Ended
    <2> QED  BY <1>4, <2>1 DEF TypeOK, FailOrphan
  <1>5. CASE CleanupFails
    <2>1. faults' \in 0..MaxFaults
      BY <1>5, FaultType DEF CleanupFails
    <2> QED  BY <1>5, <2>1 DEF TypeOK, CleanupFails
  <1> QED  BY <1>1, <1>2, <1>3, <1>4, <1>5 DEF CleanupNext

\* Every step keeps the types of the row, the calls with what they have read
\* of it, the objects and the counters.
THEOREM TypeCorrect == Spec => []TypeOK
  <1>1. TypeOK /\ [Next]_vars => TypeOK'
    <2>1. TypeOK /\ UNCHANGED vars => TypeOK'
      BY DEF TypeOK, vars, storage
    <2> QED
      BY <2>1, TypeBrowser, TypeFinalize, TypeJob, TypeCleanup DEF Next
  <1> QED  BY <1>1, TypeInit, PTL DEF Spec

---------------------------------------------------------------------------
(* A recorded failure is not lost                                          *)

\* The one step that writes the counter: a success leaves the column alone, a
\* failure writes one more than some earlier value of it.
LEMMA CommitKeepsFailure ==
    ASSUME TypeOK, NEW c \in Calls, CountCommits(c), row.failed > 0
    PROVE  row'.failed > 0
  <1> DEFINE seen == calls[c].seen
             new  == WithStatus(Counted(seen, calls[c].ok))
  <1>1. seen \in Row /\ calls[c].ok \in BOOLEAN
    BY DEF TypeOK, CallStates
  <1>2. new.failed = IF calls[c].ok THEN seen.failed ELSE seen.failed + 1
    BY <1>1, CountedType
  <1>3. row'.failed = Written(seen.failed, new.failed, row.failed)
    BY DEF CountCommits
  <1>4. seen.failed \in Nat
    BY <1>1 DEF Row
  <1> QED
    BY <1>2, <1>3, <1>4 DEF Written

\* Whatever two finalize calls, their jobs and the cleanup do to the row at
\* once, the count of failed files never falls back to zero.
THEOREM FailuresStick == Spec => FailureSticks
  <1>1. TypeOK /\ [Next]_vars => [row.failed > 0 => row'.failed > 0]_vars
    <2> SUFFICES ASSUME TypeOK, Next, row.failed > 0 PROVE row'.failed > 0
      OBVIOUS
    <2>0. row \in Row
      BY DEF TypeOK
    <2>1. row'.failed = row.failed \/ \E c \in Calls : CountCommits(c)
      <3>1. CASE BrowserNext
        BY <3>1 DEF BrowserNext, DayPasses, Put
      <3>2. CASE FinalizeNext
        BY <2>0, <3>2 DEF FinalizeNext, FinalizeReads, CompleteMultiparts, SetProcessing,
                          EnqueueIngest, EnqueueFails, ApiDies, Row
      <3>3. CASE JobNext
        BY <3>3 DEF JobNext, JobStep, JobStarts, Unread, SkipFile, DownloadFails, Download,
                    Ingest, CountReads, DeleteObject, WorkerStops, JobAborts
      <3>4. CASE CleanupNext
        BY <2>0, <3>4 DEF CleanupNext, ListOrphan, CleanObjects, AbortMultiparts, FailOrphan,
                          CleanupFails, Row
      <3> QED  BY <3>1, <3>2, <3>3, <3>4 DEF Next
    <2> QED  BY <2>1, CommitKeepsFailure
  <1> QED  BY <1>1, TypeCorrect, PTL DEF Spec, FailureSticks

---------------------------------------------------------------------------
(* The verdict of a session finalized once, with no fault and no cleanup   *)

Alone == ~old /\ faults = 0 /\ \A c \in Calls \ {1} : At(c, "free")

Good(n) == {f \in 1..n : fate[f] = "good"}

\* The row counts the first n files, as many of them done as were read.
Counts(n) ==
    /\ row.processed = Cardinality(Good(n)) /\ row.failed = n - row.processed
    /\ row.status = IF n < MaxFiles THEN "processing"
                    ELSE IF row.failed = 0 THEN "completed" ELSE "failed"
UntriedFrom(n) == \A f \in Files : f >= n => fate[f] = "none"

\* Where the one job is and what its row says.
Progress(d) ==
    /\ d.pc \in {"free", "complete", "set"} => row = NewRow /\ UntriedFrom(1)
    /\ d.pc \in {"enqueue", "queued"} => Counts(0) /\ UntriedFrom(1)
    /\ d.pc \in {"file", "ingest"} => Counts(d.file - 1) /\ UntriedFrom(d.file)
    /\ d.pc \in {"count", "commit"} =>
         /\ Counts(d.file - 1) /\ UntriedFrom(d.file + 1)
         /\ (fate[d.file] = "good") = d.ok
    /\ d.pc = "commit" => d.seen = row
    /\ d.pc = "delete" => Counts(d.file) /\ UntriedFrom(d.file + 1)
    /\ d.pc = "returned" => Counts(MaxFiles)
    /\ d.pc # "lost"

VerdictInv == Alone => clean = "idle" /\ (1 \in Calls => Progress(calls[1]))

LEMMA GoodIsFinite ==
    ASSUME NEW n \in Nat
    PROVE  IsFiniteSet(Good(n)) /\ Cardinality(Good(n)) \in Nat
  <1>1. IsFiniteSet(1..n)
    BY FS_Interval
  <1>2. Good(n) \subseteq 1..n
    BY DEF Good
  <1> QED
    BY <1>1, <1>2, FS_Subset, FS_CardinalityType

\* One file more is one good file more, if it is good.
LEMMA GoodGrows ==
    ASSUME NEW n \in Nat
    PROVE  Cardinality(Good(n + 1)) = Cardinality(Good(n)) + IF fate[n + 1] = "good" THEN 1 ELSE 0
  <1>1. IsFiniteSet(Good(n)) /\ Cardinality(Good(n)) \in Nat
    BY GoodIsFinite
  <1>2. n + 1 \notin Good(n)
    BY DEF Good
  <1>3. CASE fate[n + 1] = "good"
    <2>1. Good(n + 1) = Good(n) \cup {n + 1}
      BY <1>3 DEF Good
    <2>2. Cardinality(Good(n + 1)) = Cardinality(Good(n)) + 1
      BY <1>1, <1>2, <2>1, FS_AddElement
    <2> QED  BY <1>3, <2>2
  <1>4. CASE fate[n + 1] # "good"
    <2>1. Good(n + 1) = Good(n)
      BY <1>4 DEF Good
    <2> QED  BY <1>1, <1>4, <2>1
  <1> QED  BY <1>3, <1>4

\* What happens to a file says nothing of those before it.
LEMMA CountsKept ==
    ASSUME NEW n \in Nat, Counts(n), UNCHANGED row, \A f \in 1..n : fate'[f] = fate[f]
    PROVE  Counts(n)'
  <1>1. Good(n)' = Good(n)
    BY DEF Good
  <1> QED
    BY <1>1 DEF Counts

LEMMA OneFileMoves ==
    ASSUME TypeOK, NEW c \in Calls, NEW d, calls' = [calls EXCEPT ![c] = d]
    PROVE  calls'[c] = d /\ \A e \in Calls \ {c} : calls'[e] = calls[e]
  BY DEF TypeOK

\* A step of a call takes it on and leaves the other calls alone.
LEMMA CallAdvances ==
    ASSUME TypeOK, NEW c \in Calls,
           \/ \E skip \in SUBSET Files : FinalizeReads(c, skip)
           \/ CompleteMultiparts(c) \/ SetProcessing(c)
           \/ EnqueueIngest(c) \/ EnqueueFails(c) \/ ApiDies(c)
           \/ JobStep(c) \/ WorkerStops(c) \/ JobAborts(c)
    PROVE  /\ calls'[c].pc # "free"
           /\ \A d \in Calls \ {c} : calls'[d] = calls[d]
  <1>1. calls \in [Calls -> CallStates] /\ calls[c] \in CallStates
    BY DEF TypeOK
  <1>2. NextFile(c).pc \in {"returned", "file"}
    <2>1. calls[c].file = [calls[c] EXCEPT !.fetched = FALSE, !.ok = FALSE, !.seen = NewRow].file
      BY <1>1 DEF CallStates
    <2> QED
      BY <1>1 DEF NextFile, CallStates
  <1>3. CASE \/ \E skip \in SUBSET Files : FinalizeReads(c, skip)
             \/ CompleteMultiparts(c) \/ SetProcessing(c)
             \/ EnqueueIngest(c) \/ EnqueueFails(c) \/ ApiDies(c)
    <2>1. ASSUME NEW skip \in SUBSET Files, FinalizeReads(c, skip)
          PROVE  calls'[c].pc # "free" /\ \A d \in Calls \ {c} : calls'[d] = calls[d]
      <3> DEFINE d == [NoCall EXCEPT !.pc = "complete", !.skip = skip]
      <3>1. calls' = [calls EXCEPT ![c] = d] /\ d.pc = "complete"
        BY <2>1 DEF FinalizeReads, NoCall
      <3> HIDE DEF d
      <3> QED  BY <3>1, OneFileMoves
    <2>2. CASE CompleteMultiparts(c)
      <3>1. PICK skip : calls' = [calls EXCEPT ![c] = [calls[c] EXCEPT !.pc = "set", !.skip = skip]]
        BY <2>2 DEF CompleteMultiparts
      <3>2. [calls[c] EXCEPT !.pc = "set", !.skip = skip].pc = "set"
        BY <1>1 DEF CallStates
      <3> QED  BY <3>1, <3>2, OneFileMoves
    <2>3. CASE SetProcessing(c) \/ EnqueueIngest(c) \/ EnqueueFails(c) \/ ApiDies(c)
      <3>1. \/ calls' = [calls EXCEPT ![c] = [calls[c] EXCEPT !.pc = "queued", !.tries = 1]]
            \/ calls' = [calls EXCEPT ![c] = [calls[c] EXCEPT !.pc = "enqueue"]]
            \/ calls' = [calls EXCEPT ![c] = [calls[c] EXCEPT !.pc = "lost"]]
        BY <2>3 DEF SetProcessing, EnqueueIngest, EnqueueFails, ApiDies, GoTo
      <3>2. /\ [calls[c] EXCEPT !.pc = "queued", !.tries = 1].pc = "queued"
            /\ [calls[c] EXCEPT !.pc = "enqueue"].pc = "enqueue"
            /\ [calls[c] EXCEPT !.pc = "lost"].pc = "lost"
        BY <1>1 DEF CallStates
      <3> QED  BY <3>1, <3>2, OneFileMoves
    <2> QED  BY <1>3, <2>1, <2>2, <2>3
  <1>4. CASE JobStep(c)
    <2>1. CASE CountCommits(c) \/ DeleteObject(c)
      <3>1. [calls[c] EXCEPT !.pc = "delete", !.seen = NewRow].pc = "delete"
        BY <1>1 DEF CallStates
      <3>2. \/ calls' = [calls EXCEPT ![c] = NextFile(c)]
            \/ calls' = [calls EXCEPT ![c] = [calls[c] EXCEPT !.pc = "delete", !.seen = NewRow]]
        BY <2>1 DEF CountCommits, DeleteObject
      <3> QED  BY <1>2, <3>1, <3>2, OneFileMoves
    <2>2. CASE JobStarts(c) \/ SkipFile(c) \/ DownloadFails(c) \/ Download(c) \/ CountReads(c)
               \/ \E ok \in BOOLEAN : Ingest(c, ok)
      <3>1. \/ calls' = [calls EXCEPT ![c] = [calls[c] EXCEPT !.pc = "file", !.file = 1,
                                                              !.fetched = FALSE]]
            \/ calls' = [calls EXCEPT ![c] = [calls[c] EXCEPT !.pc = "count", !.ok = FALSE,
                                                              !.fetched = FALSE]]
            \/ calls' = [calls EXCEPT ![c] = [calls[c] EXCEPT !.pc = "ingest", !.fetched = TRUE]]
            \/ calls' = [calls EXCEPT ![c] = [calls[c] EXCEPT !.pc = "commit", !.seen = row]]
            \/ \E ok \in BOOLEAN :
                 calls' = [calls EXCEPT ![c] = [calls[c] EXCEPT !.pc = "count", !.ok = ok]]
        BY <2>2 DEF JobStarts, SkipFile, DownloadFails, Download, CountReads, Ingest, Unread
      <3>2. /\ [calls[c] EXCEPT !.pc = "file", !.file = 1, !.fetched = FALSE].pc = "file"
            /\ [calls[c] EXCEPT !.pc = "count", !.ok = FALSE, !.fetched = FALSE].pc = "count"
            /\ [calls[c] EXCEPT !.pc = "ingest", !.fetched = TRUE].pc = "ingest"
            /\ [calls[c] EXCEPT !.pc = "commit", !.seen = row].pc = "commit"
            /\ \A ok \in BOOLEAN : [calls[c] EXCEPT !.pc = "count", !.ok = ok].pc = "count"
        BY <1>1 DEF CallStates
      <3> QED  BY <3>1, <3>2, OneFileMoves
    <2> QED  BY <1>4, <2>1, <2>2 DEF JobStep
  <1>5. CASE WorkerStops(c) \/ JobAborts(c)
    BY <1>1, <1>5 DEF WorkerStops, JobAborts, GoTo, CallStates
  <1> QED  BY <1>3, <1>4, <1>5

\* As long as one call is alone and nothing failed, it is the one that acts.
LEMMA AloneBefore ==
    ASSUME TypeOK, Next, Alone'
    PROVE  /\ Alone /\ UNCHANGED faults
           /\ \/ BrowserNext /\ UNCHANGED <<calls, row, clean, fate>>
              \/ CleanupNext /\ ~ListOrphan /\ UNCHANGED <<calls, fate>>
              \/ /\ 1 \in Calls
                 /\ \/ \E skip \in SUBSET Files : FinalizeReads(1, skip)
                    \/ CompleteMultiparts(1) \/ SetProcessing(1) \/ EnqueueIngest(1)
                    \/ JobStep(1)
  <1>1. ~Fault /\ faults = 0 /\ UNCHANGED faults /\ ~old
    <2>1. faults \in Nat
      BY BoundsAssumption DEF TypeOK
    <2>2. ~Fault
      BY <2>1 DEF Fault, Alone
    <2>3. UNCHANGED faults
      BY <2>2 DEF Next, BrowserNext, DayPasses, Put, FinalizeNext, FinalizeReads,
         CompleteMultiparts, SetProcessing, EnqueueIngest, EnqueueFails, ApiDies, JobNext, JobStep,
         JobStarts, SkipFile, DownloadFails, Download, Ingest, CountReads, CountCommits,
         DeleteObject, WorkerStops, JobAborts, CleanupNext, ListOrphan, CleanObjects,
         AbortMultiparts, FailOrphan, CleanupFails
    <2>4. old' = old \/ old' = TRUE
      BY DEF Next, BrowserNext, DayPasses, Put, FinalizeNext, FinalizeReads,
         CompleteMultiparts, SetProcessing, EnqueueIngest, EnqueueFails, ApiDies, JobNext, JobStep,
         JobStarts, SkipFile, DownloadFails, Download, Ingest, CountReads, CountCommits,
         DeleteObject, WorkerStops, JobAborts, CleanupNext, ListOrphan, CleanObjects,
         AbortMultiparts, FailOrphan, CleanupFails, Unread
    <2>5. ~old
      BY <2>4 DEF Alone
    <2>6. faults = 0
      BY <2>3 DEF Alone
    <2> QED  BY <2>2, <2>3, <2>5, <2>6
  <1>2. CASE BrowserNext
    <2>1. UNCHANGED <<calls, row, clean, fate>>
      BY <1>2 DEF BrowserNext, DayPasses, Put, storage
    <2> QED  BY <1>1, <1>2, <2>1 DEF Alone, At
  <1>3. CASE CleanupNext
    <2>1. UNCHANGED <<calls, fate>>
      BY <1>3 DEF CleanupNext, ListOrphan, CleanObjects, AbortMultiparts, FailOrphan, CleanupFails
    <2>2. ~ListOrphan
      BY <1>1 DEF ListOrphan
    <2> QED  BY <1>1, <1>3, <2>1, <2>2 DEF Alone, At
  <1>4. CASE FinalizeNext \/ JobNext
    <2>1. PICK c \in Calls :
            \/ \E skip \in SUBSET Files : FinalizeReads(c, skip)
            \/ CompleteMultiparts(c) \/ SetProcessing(c)
            \/ EnqueueIngest(c) \/ EnqueueFails(c) \/ ApiDies(c)
            \/ JobStep(c) \/ WorkerStops(c) \/ JobAborts(c)
      BY <1>4 DEF FinalizeNext, JobNext
    <2>2. calls'[c].pc # "free" /\ \A d \in Calls \ {c} : calls'[d] = calls[d]
      BY <2>1, CallAdvances
    <2>3. c = 1
      BY <2>2 DEF Alone, At
    <2>4. Alone
      BY <1>1, <2>2, <2>3 DEF Alone, At
    <2> QED
      BY <1>1, <2>1, <2>3, <2>4 DEF EnqueueFails, ApiDies, WorkerStops, JobAborts
  <1> QED  BY <1>2, <1>3, <1>4 DEF Next

LEMMA VerdictInit == Init => VerdictInv
  <1> SUFFICES ASSUME Init PROVE VerdictInv
    OBVIOUS
  <1> QED
    BY DEF Init, VerdictInv, Progress, NoCall, UntriedFrom

\* The loop is at a file, or past the last one.
LEMMA FileDoneStep ==
    ASSUME TypeOK, NEW c \in Calls, NEW f, f = calls[c].file, Counts(f)', UntriedFrom(f + 1)',
           calls' = [calls EXCEPT ![c] = NextFile(c)]
    PROVE  Progress(calls[c])'
  <1> DEFINE done == [calls[c] EXCEPT !.fetched = FALSE, !.ok = FALSE, !.seen = NewRow]
  <1>0. calls[c] \in CallStates
    BY DEF TypeOK
  <1>1. done \in CallStates /\ done.file = f /\ f \in 1..MaxFiles
    BY <1>0, NewRecords DEF CallStates, Files
  <1>2. NextFile(c) = IF f = MaxFiles THEN [done EXCEPT !.pc = "returned", !.skip = {}]
                      ELSE [done EXCEPT !.pc = "file", !.file = f + 1]
    BY <1>1 DEF NextFile, IsLast
  <1>3. calls'[c] = NextFile(c)
    BY OneFileMoves
  <1>4. CASE f = MaxFiles
    <2>1. calls'[c].pc = "returned"
      BY <1>1, <1>2, <1>3, <1>4 DEF CallStates
    <2> QED
      BY <1>4, <2>1 DEF Progress
  <1>5. CASE f # MaxFiles
    <2>1. calls'[c].pc = "file" /\ calls'[c].file = f + 1
      BY <1>1, <1>2, <1>3, <1>5 DEF CallStates
    <2>2. (f + 1) - 1 = f
      BY <1>1, BoundsAssumption
    <2> QED
      BY <2>1, <2>2 DEF Progress
  <1> QED  BY <1>4, <1>5

LEMMA CountedFields ==
    ASSUME NEW r \in Row, NEW ok \in BOOLEAN
    PROVE  LET n == Counted(r, ok)
           IN  /\ n \in Row /\ n.status = r.status
               /\ n.processed = IF ok THEN r.processed + 1 ELSE r.processed
               /\ n.failed = IF ok THEN r.failed ELSE r.failed + 1
               /\ WithStatus(n).processed = n.processed /\ WithStatus(n).failed = n.failed
               /\ WithStatus(n).status =
                    IF n.processed + n.failed < MaxFiles THEN n.status
                    ELSE IF n.failed = 0 THEN "completed" ELSE "failed"
  <1> DEFINE p == IF ok THEN r.processed + 1 ELSE r.processed
             q == IF ok THEN r.failed ELSE r.failed + 1
  <1>1. p \in Nat /\ q \in Nat
    BY DEF Row
  <1>2. Counted(r, ok) = [r EXCEPT !.processed = p, !.failed = q]
    BY DEF Counted
  <1> HIDE DEF p, q
  <1>3. /\ Counted(r, ok) \in Row /\ Counted(r, ok).status = r.status
        /\ Counted(r, ok).processed = p /\ Counted(r, ok).failed = q
    BY <1>1, <1>2 DEF Row
  <1>4. ASSUME NEW n \in Row
        PROVE  /\ WithStatus(n).processed = n.processed /\ WithStatus(n).failed = n.failed
               /\ WithStatus(n).status =
                    IF n.processed + n.failed < MaxFiles THEN n.status
                    ELSE IF n.failed = 0 THEN "completed" ELSE "failed"
    <2>1. n.processed \in Nat /\ n.failed \in Nat /\ MaxFiles \in Nat
      BY BoundsAssumption DEF Row
    <2>2. AllCounted(n) = ~(n.processed + n.failed < MaxFiles)
      BY <2>1 DEF AllCounted
    <2> QED
      BY <2>2 DEF WithStatus, Row
  <1> QED
    BY <1>3, <1>4 DEF p, q

\* The one job counts its file: nobody else has written the row since it read it.
LEMMA CommitCounts ==
    ASSUME TypeOK, 1 \in Calls, Progress(calls[1]), CountCommits(1)
    PROVE  Progress(calls[1])'
  <1>0. calls[1] \in CallStates /\ row \in Row
    BY DEF TypeOK
  <1>f. PICK f \in 1..MaxFiles, ok \in BOOLEAN : f = calls[1].file /\ ok = calls[1].ok
    BY <1>0 DEF CallStates, Files
  <1>1. f \in 1..MaxFiles /\ MaxFiles \in Nat /\ ok \in BOOLEAN
    BY BoundsAssumption
  <1>2. /\ Counts(f - 1) /\ UntriedFrom(f + 1) /\ (fate[f] = "good") = ok
        /\ calls[1].seen = row
    BY <1>f DEF CountCommits, At, Progress
  <1>3. row' = WithStatus(Counted(row, ok)) /\ UNCHANGED fate
    <2>1. \A was, new : Written(was, new, was) = new
      BY DEF Written
    <2>2. WithStatus(Counted(row, ok)) \in Row
      BY <1>0, <1>1, CountedType
    <2>3. row' = [status    |-> WithStatus(Counted(row, ok)).status,
                  processed |-> WithStatus(Counted(row, ok)).processed,
                  failed    |-> WithStatus(Counted(row, ok)).failed]
      BY <1>f, <1>2, <2>1 DEF CountCommits
    <2> QED  BY <2>2, <2>3 DEF CountCommits, Row
  <1>4. /\ Good(f)' = Good(f)
        /\ Cardinality(Good(f)) = Cardinality(Good(f - 1)) + IF ok THEN 1 ELSE 0
        /\ Cardinality(Good(f - 1)) \in Nat
    <2>1. f - 1 \in Nat /\ (f - 1) + 1 = f
      BY <1>1
    <2>2. Good(f)' = Good(f)
      BY <1>3 DEF Good
    <2> QED  BY <1>2, <2>1, <2>2, GoodGrows, GoodIsFinite
  <1>5. Counts(f)'
    <2> DEFINE p == Cardinality(Good(f - 1))
    <2>1. row.processed = p /\ row.failed = (f - 1) - p /\ row.status = "processing"
      BY <1>1, <1>2 DEF Counts
    <2>3. Cardinality(Good(f)') = IF ok THEN p + 1 ELSE p
      BY <1>4
    <2>4. p \in Nat
      BY <1>4
    <2> HIDE DEF p
    <2>5. /\ row'.processed = IF ok THEN p + 1 ELSE p
          /\ row'.failed = IF ok THEN (f - 1) - p ELSE ((f - 1) - p) + 1
          /\ row'.status = IF row'.processed + row'.failed < MaxFiles THEN "processing"
                           ELSE IF row'.failed = 0 THEN "completed" ELSE "failed"
      BY <1>0, <1>3, <2>1, CountedFields
    <2>6. row'.processed + row'.failed = f /\ row'.failed = f - row'.processed
      BY <1>1, <2>4, <2>5
    <2> QED
      BY <1>1, <2>3, <2>5, <2>6 DEF Counts
  <1>6. UntriedFrom(f + 1)'
    BY <1>2, <1>3 DEF UntriedFrom
  <1>7. CASE calls' = [calls EXCEPT ![1] = NextFile(1)]
    BY <1>f, <1>5, <1>6, <1>7, FileDoneStep
  <1>8. CASE calls' = [calls EXCEPT ![1] = [calls[1] EXCEPT !.pc = "delete", !.seen = NewRow]]
    <2>1. calls'[1].pc = "delete" /\ calls'[1].file = f
      <3>1. /\ [calls[1] EXCEPT !.pc = "delete", !.seen = NewRow].pc = "delete"
            /\ [calls[1] EXCEPT !.pc = "delete", !.seen = NewRow].file = f
        BY <1>f, <1>0 DEF CallStates
      <3> QED  BY <1>8, <3>1, OneFileMoves
    <2> QED
      BY <1>5, <1>6, <2>1 DEF Progress
  <1> QED
    BY <1>7, <1>8 DEF CountCommits

LEMMA ProgressStep ==
    ASSUME TypeOK, 1 \in Calls, Progress(calls[1]),
           \/ \E skip \in SUBSET Files : FinalizeReads(1, skip)
           \/ CompleteMultiparts(1) \/ SetProcessing(1) \/ EnqueueIngest(1)
           \/ JobStep(1)
    PROVE  Progress(calls[1])'
  <1>0. calls[1] \in CallStates /\ row \in Row
    BY DEF TypeOK
  <1>1. ASSUME NEW skip \in SUBSET Files, FinalizeReads(1, skip) PROVE Progress(calls[1])'
    <2> DEFINE d == [NoCall EXCEPT !.pc = "complete", !.skip = skip]
    <2>1. calls' = [calls EXCEPT ![1] = d] /\ d.pc = "complete"
      BY <1>1 DEF FinalizeReads, NoCall
    <2> HIDE DEF d
    <2>2. calls'[1].pc = "complete"
      BY <2>1, OneFileMoves
    <2>3. row = NewRow /\ UntriedFrom(1) /\ UNCHANGED <<row, fate>>
      BY <1>1 DEF FinalizeReads, At, Progress
    <2> QED  BY <2>2, <2>3 DEF Progress, UntriedFrom
  <1>2. CASE CompleteMultiparts(1)
    <2>1. PICK skip : calls' = [calls EXCEPT ![1] = [calls[1] EXCEPT !.pc = "set", !.skip = skip]]
      BY <1>2 DEF CompleteMultiparts
    <2> DEFINE d == [calls[1] EXCEPT !.pc = "set", !.skip = skip]
    <2>2. d.pc = "set" /\ calls' = [calls EXCEPT ![1] = d]
      BY <1>0, <2>1 DEF CallStates
    <2> HIDE DEF d
    <2>3. calls'[1].pc = "set"
      BY <2>2, OneFileMoves
    <2>4. row = NewRow /\ UntriedFrom(1) /\ UNCHANGED <<row, fate>>
      BY <1>2 DEF CompleteMultiparts, At, Progress
    <2> QED  BY <2>3, <2>4 DEF Progress, UntriedFrom
  <1>3. CASE SetProcessing(1)
    <2> DEFINE d == [calls[1] EXCEPT !.pc = "enqueue"]
    <2>0. d.pc = "enqueue" /\ calls' = [calls EXCEPT ![1] = d]
      BY <1>0, <1>3 DEF CallStates, SetProcessing, GoTo
    <2> HIDE DEF d
    <2>1. calls'[1].pc = "enqueue"
      BY <2>0, OneFileMoves
    <2>2. row = NewRow /\ UntriedFrom(1) /\ UNCHANGED fate
      BY <1>3 DEF SetProcessing, At, Progress
    <2>3. row'.processed = 0 /\ row'.failed = 0 /\ row'.status = "processing"
      BY <1>0, <1>3, <2>2 DEF SetProcessing, NewRow
    <2>4. Cardinality(Good(0)') = 0 /\ 0 < MaxFiles
      <3>1. Good(0)' = {}
        BY DEF Good
      <3> QED  BY <3>1, FS_EmptySet, BoundsAssumption
    <2>5. Counts(0)'
      BY <2>3, <2>4 DEF Counts
    <2> QED  BY <2>1, <2>2, <2>5 DEF Progress, UntriedFrom
  <1>4. CASE EnqueueIngest(1)
    <2> DEFINE d == [calls[1] EXCEPT !.pc = "queued", !.tries = 1]
    <2>1. d.pc = "queued" /\ calls' = [calls EXCEPT ![1] = d]
      BY <1>0, <1>4 DEF CallStates, EnqueueIngest
    <2> HIDE DEF d
    <2>2. calls'[1].pc = "queued"
      BY <2>1, OneFileMoves
    <2>3. Counts(0) /\ UntriedFrom(1) /\ UNCHANGED <<row, fate>>
      BY <1>4 DEF EnqueueIngest, At, Progress
    <2>4. Counts(0)'
      BY <2>3, CountsKept
    <2> QED  BY <2>2, <2>3, <2>4 DEF Progress, UntriedFrom
  <1>5. CASE JobStarts(1)
    <2> DEFINE d == [calls[1] EXCEPT !.pc = "file", !.file = 1, !.fetched = FALSE]
    <2>1. d.pc = "file" /\ d.file = 1 /\ calls' = [calls EXCEPT ![1] = d]
      BY <1>0, <1>5 DEF CallStates, JobStarts
    <2> HIDE DEF d
    <2>2. calls'[1].pc = "file" /\ calls'[1].file = 1
      BY <2>1, OneFileMoves
    <2>3. Counts(0) /\ UntriedFrom(1) /\ UNCHANGED <<row, fate>>
      BY <1>5 DEF JobStarts, At, Progress
    <2>4. Counts(0)'
      BY <2>3, CountsKept
    <2> QED  BY <2>2, <2>3, <2>4 DEF Progress, UntriedFrom
  <1>6. CASE SkipFile(1) \/ DownloadFails(1) \/ Download(1) \/ CountReads(1)
             \/ \E ok \in BOOLEAN : Ingest(1, ok)
    <2>1. PICK f \in 1..MaxFiles : f = calls[1].file
      BY <1>0 DEF CallStates, Files
    <2>2. f - 1 \in Nat /\ f \in Nat /\ MaxFiles \in Nat
      BY BoundsAssumption
    <2>3. Counts(f - 1) /\ UntriedFrom(f + 1) /\ UNCHANGED row
      <3>1. calls[1].pc \in {"file", "ingest", "count"} /\ UNCHANGED row
        BY <1>6 DEF SkipFile, DownloadFails, Download, CountReads, Ingest, At, Unread
      <3>2. Counts(f - 1) /\ (UntriedFrom(f) \/ UntriedFrom(f + 1))
        BY <2>1, <3>1 DEF Progress
      <3> QED  BY <2>2, <3>1, <3>2 DEF UntriedFrom, Files
    <2>4. fate' = fate \/ \E x \in {"good", "bad"} : fate' = [fate EXCEPT ![f] = x]
      BY <1>6, <2>1 DEF SkipFile, DownloadFails, Download, CountReads, Ingest, Unread
    <2>5. \A g \in Files : g # f => fate'[g] = fate[g]
      BY <2>4 DEF TypeOK
    <2>6. Counts(f - 1)' /\ UntriedFrom(f + 1)'
      <3>1. \A g \in 1..(f - 1) : g \in Files /\ g # f
        BY <2>2 DEF Files
      <3>2. Counts(f - 1)'
        BY <2>2, <2>3, <2>5, <3>1, CountsKept
      <3>3. UntriedFrom(f + 1)'
        BY <2>2, <2>3, <2>5 DEF UntriedFrom, Files
      <3> QED  BY <3>2, <3>3
    <2>7. CASE SkipFile(1) \/ DownloadFails(1)
      <3> DEFINE d == [calls[1] EXCEPT !.pc = "count", !.ok = FALSE, !.fetched = FALSE]
      <3>1. d.pc = "count" /\ d.ok = FALSE /\ d.file = f
        BY <1>0, <2>1 DEF CallStates
      <3>2. calls' = [calls EXCEPT ![1] = d]
        BY <2>7 DEF SkipFile, DownloadFails, Unread
      <3> HIDE DEF d
      <3>3. calls'[1].pc = "count" /\ calls'[1].ok = FALSE /\ calls'[1].file = f
        BY <3>1, <3>2, OneFileMoves
      <3>4. fate'[f] # "good"
        <4>1. fate[f] = "none"
          BY <2>1, <2>7 DEF SkipFile, DownloadFails, At, Progress, UntriedFrom, Files
        <4> QED  BY <2>1, <2>7, <4>1 DEF SkipFile, DownloadFails, TypeOK, Files
      <3> QED  BY <2>6, <3>3, <3>4 DEF Progress
    <2>8. ASSUME NEW ok \in BOOLEAN, Ingest(1, ok) PROVE Progress(calls[1])'
      <3> DEFINE d == [calls[1] EXCEPT !.pc = "count", !.ok = ok]
      <3>1. d.pc = "count" /\ d.ok = ok /\ d.file = f
        BY <1>0, <2>1 DEF CallStates
      <3>2. calls' = [calls EXCEPT ![1] = d]
        BY <2>8 DEF Ingest
      <3> HIDE DEF d
      <3>3. calls'[1].pc = "count" /\ calls'[1].ok = ok /\ calls'[1].file = f
        BY <3>1, <3>2, OneFileMoves
      <3>4. (fate'[f] = "good") = ok
        <4>1. fate'[f] = IF ok THEN "good" ELSE "bad"
          BY <2>1, <2>8 DEF Ingest, TypeOK, Files
        <4> QED  BY <4>1
      <3> QED  BY <2>6, <3>3, <3>4 DEF Progress
    <2>9. CASE Download(1)
      <3> DEFINE d == [calls[1] EXCEPT !.pc = "ingest", !.fetched = TRUE]
      <3>1. d.pc = "ingest" /\ d.file = f
        BY <1>0, <2>1 DEF CallStates
      <3>2. calls' = [calls EXCEPT ![1] = d]
        BY <2>9 DEF Download
      <3> HIDE DEF d
      <3>3. calls'[1].pc = "ingest" /\ calls'[1].file = f
        BY <3>1, <3>2, OneFileMoves
      <3>4. UntriedFrom(f)'
        BY <2>1, <2>9 DEF Download, At, Progress, UntriedFrom
      <3> QED  BY <2>6, <3>3, <3>4 DEF Progress
    <2>10. CASE CountReads(1)
      <3> DEFINE d == [calls[1] EXCEPT !.pc = "commit", !.seen = row]
      <3>1. d.pc = "commit" /\ d.file = f /\ d.seen = row /\ d.ok = calls[1].ok
        BY <1>0, <2>1 DEF CallStates
      <3>2. calls' = [calls EXCEPT ![1] = d]
        BY <2>10 DEF CountReads
      <3> HIDE DEF d
      <3>3. /\ calls'[1].pc = "commit" /\ calls'[1].file = f /\ calls'[1].seen = row
            /\ calls'[1].ok = calls[1].ok
        BY <3>1, <3>2, OneFileMoves
      <3>4. (fate'[f] = "good") = calls[1].ok
        BY <2>1, <2>10 DEF CountReads, At, Progress
      <3> QED  BY <2>3, <2>6, <3>3, <3>4 DEF Progress
    <2> QED  BY <1>6, <2>7, <2>8, <2>9, <2>10
  <1>7. CASE CountCommits(1)
    BY <1>7, CommitCounts
  <1>8. CASE DeleteObject(1)
    <2>1. PICK f \in 1..MaxFiles : f = calls[1].file
      BY <1>0 DEF CallStates, Files
    <2>2. Counts(f) /\ UntriedFrom(f + 1) /\ UNCHANGED <<row, fate>>
      BY <1>8, <2>1 DEF DeleteObject, At, Progress
    <2>3. Counts(f)' /\ UntriedFrom(f + 1)'
      BY <2>2, CountsKept DEF UntriedFrom
    <2> QED
      BY <1>8, <2>1, <2>3, FileDoneStep DEF DeleteObject
  <1> QED
    BY <1>1, <1>2, <1>3, <1>4, <1>5, <1>6, <1>7, <1>8 DEF JobStep

LEMMA VerdictStep == TypeOK /\ VerdictInv /\ [Next]_vars => VerdictInv'
  <1>1. CASE UNCHANGED vars
    BY <1>1 DEF VerdictInv, Alone, At, Progress, Counts, Good, UntriedFrom, vars, storage
  <1>2. ASSUME TypeOK, VerdictInv, Next, Alone'
        PROVE  clean' = "idle" /\ (1 \in Calls => Progress(calls[1])')
    <2>1. Alone /\ clean = "idle" /\ (1 \in Calls => Progress(calls[1]))
      BY <1>2, AloneBefore DEF VerdictInv
    <2>2. CASE BrowserNext /\ UNCHANGED <<calls, row, clean, fate>>
      BY <2>1, <2>2 DEF Progress, Counts, Good, UntriedFrom
    <2>3. CASE CleanupNext /\ ~ListOrphan
      BY <2>1, <2>3 DEF CleanupNext, CleanObjects, AbortMultiparts, FailOrphan, CleanupFails
    <2>4. CASE /\ 1 \in Calls
               /\ \/ \E skip \in SUBSET Files : FinalizeReads(1, skip)
                  \/ CompleteMultiparts(1) \/ SetProcessing(1) \/ EnqueueIngest(1)
                  \/ JobStep(1)
      <3>1. Progress(calls[1])'
        BY <1>2, <2>1, <2>4, ProgressStep
      <3>2. UNCHANGED clean
        BY <2>4 DEF FinalizeReads, CompleteMultiparts, SetProcessing, EnqueueIngest, JobStep,
           JobStarts, SkipFile, DownloadFails, Download, Ingest, CountReads, CountCommits,
           DeleteObject, Unread
      <3> QED  BY <2>1, <3>1, <3>2
    <2> QED
      BY <1>2, <2>2, <2>3, <2>4, AloneBefore
  <1> QED
    BY <1>1, <1>2 DEF VerdictInv

\* A session finalized once, with no fault and no cleanup, ends with the counts
\* and the status its files deserve, for any number of files.
THEOREM VerdictHolds == Spec => []VerdictIsRight
  <1>1. TypeOK /\ VerdictInv => VerdictIsRight
    <2> SUFFICES ASSUME TypeOK, VerdictInv, Settled, ~old, faults = 0,
                        \A c \in Calls \ {1} : At(c, "free")
                 PROVE  /\ row.processed = Cardinality({f \in Files : fate[f] = "good"})
                        /\ row.failed = MaxFiles - row.processed
                        /\ row.status = IF row.failed = 0 THEN "completed" ELSE "failed"
      BY DEF VerdictIsRight
    <2>1. PICK c \in Calls : At(c, "returned")
      BY DEF Settled
    <2>2. c = 1
      BY <2>1 DEF At
    <2>3. Counts(MaxFiles)
      BY <2>1, <2>2 DEF VerdictInv, Alone, Progress, At
    <2>4. Good(MaxFiles) = {f \in Files : fate[f] = "good"}
      BY DEF Good, Files
    <2> QED
      BY <2>3, <2>4, BoundsAssumption DEF Counts
  <1> QED
    BY <1>1, TypeCorrect, VerdictInit, VerdictStep, PTL DEF Spec

---------------------------------------------------------------------------
(* PART TWO: the jobs that ingest files                                    *)
(* The invariant of the file jobs                                          *)

Unreadable(s) == {n \in DOMAIN s : ~Readable(s[n])}

\* The records that cannot be read, and the two that the next append to a torn
\* end leaves on one line.
Exposed(s) ==
    Unreadable(s) \cup (IF EndsTorn(s) THEN {Len(s), Len(s) + 1} ELSE {})

ExposedInv == IsFiniteSet(Exposed(jsonl)) /\ Cardinality(Exposed(jsonl)) <= 2 * writeFaults

\* What each stage of a task says of its place among the files and the records.
StageOf(j) ==
    /\ task[j].pc = "new" => task[j] = NewTask
    /\ task[j].pc \in {"file", "parse"} =>
           IsUpload(j) /\ task[j].file \in 1 .. Len(FilesOf[j])
    /\ task[j].pc \in {"file", "parse", "stage 1 done"} => task[j].line = 1
    /\ task[j].pc \in {"read", "ingest"} => task[j].line \in 1 .. Len(jsonl) + 1
    /\ task[j].pc = "ingest" => task[j].line \in 1 .. Len(jsonl)

\* A job that has handed on a document after its cancellation is past its last one.
StopOf(j) ==
    extra[j] # 0 =>
        /\ extra[j] = 1
        /\ task[j].pc \in {"read", "stage 2 done", "finish", "ended", "dead"}
        /\ task[j].pc = "read" => status[j] = "cancelled"

\* A record that is lost shares its line; one that is sure is lost or can be read.
Lost(r) == r.is \in {"joined", "spoilt"}
Sure(r) == Readable(r) \/ Lost(r)

Recorded(d) == \E n \in 1 .. Len(jsonl) : jsonl[n].doc = d /\ Sure(jsonl[n])
\* A record of d that j has yet to read, or that it did not read in vain.
Shown(j, d, n) ==
    /\ jsonl[n].doc = d /\ Sure(jsonl[n])
    /\ n < task[j].line => d \in task[j].handed \cup task[j].errors \/ Lost(jsonl[n])
Taken(j, d) == d \in task[j].errors \/ \E n \in 1 .. Len(jsonl) : Shown(j, d, n)
TakenBefore(j, k) == \A i \in 1 .. k : Taken(j, FilesOf[j][i])
Accounted(j) ==
    \A d \in Range(FilesOf[j]) :
        \/ d \in task[j].handed \cup task[j].errors
        \/ \E n \in 1 .. Len(jsonl) : jsonl[n].doc = d /\ Lost(jsonl[n])

\* What an upload knows of its files at each stage.
FilesKnown(j) ==
    task[j].pc \in {"file", "parse"} =>
        (\A d \in task[j].known : Recorded(d)) /\ TakenBefore(j, task[j].file - 1)
Gathered(j) ==
    \/ task[j].pc = "stage 1 done" /\ status[j] # "cancelled"
    \/ task[j].pc \in {"read", "ingest"}
AllTaken(j) == Gathered(j) => TakenBefore(j, Len(FilesOf[j]))
Through(j) ==
    \/ task[j].pc = "stage 2 done" /\ status[j] # "cancelled"
    \/ task[j].pc = "finish" /\ task[j].result = "completed"
    \/ status[j] = "completed"
EndAccounted(j) == Through(j) => Accounted(j)
AccountOf(j) ==
    /\ IsUpload(j) => FilesKnown(j) /\ AllTaken(j) /\ EndAccounted(j)
    /\ status[j] = "completed" => task[j].pc = "ended"

JobOK(j) == StageOf(j) /\ StopOf(j) /\ AccountOf(j)

FileInv == FileTypeOK /\ ExposedInv /\ \A j \in Jobs : JobOK(j)

---------------------------------------------------------------------------
(* The checkpoint                                                          *)

Hows == {"whole", "joined", "spoilt"} \cup Torn

\* From s to t every record keeps its place and its document, a whole one stays so,
\* and one that shares its line is lost for good.
GrownTo(s, t) ==
    /\ t \in Seq(Records) /\ Len(s) <= Len(t)
    /\ \A n \in 1 .. Len(s) :
           /\ t[n].doc = s[n].doc
           /\ s[n].is = "whole" => t[n].is = "whole"
           /\ Sure(s[n]) => Sure(t[n])
           /\ Lost(s[n]) => Lost(t[n])
Grown == GrownTo(jsonl, jsonl')

LEMMA GrownTwice ==
    ASSUME NEW s \in Seq(Records), NEW t, NEW u, GrownTo(s, t), GrownTo(t, u)
    PROVE  GrownTo(s, u)
<1>1. Len(s) \in Nat /\ Len(t) \in Nat /\ Len(u) \in Nat
  BY DEF GrownTo
<1>2. \A n \in 1 .. Len(s) : n \in 1 .. Len(t)
  BY <1>1 DEF GrownTo
<1>3. Len(s) <= Len(u)
  BY <1>1 DEF GrownTo
<1> QED  BY <1>2, <1>3 DEF GrownTo

LEMMA RecordsTyped ==
    ASSUME NEW s \in Seq(Records)
    PROVE  /\ Len(s) \in Nat /\ DOMAIN s = 1 .. Len(s)
           /\ \A n \in 1 .. Len(s) : /\ s[n] \in Records /\ s[n].doc \in Docs
                                     /\ s[n].is \in Hows
           /\ EndsTorn(s) <=> Len(s) # 0 /\ s[Len(s)].is \in Torn
<1>1. /\ Len(s) \in Nat /\ DOMAIN s = 1 .. Len(s)
      /\ \A n \in 1 .. Len(s) : s[n] \in Records
      /\ s = <<>> <=> Len(s) = 0
  OBVIOUS
<1> QED  BY <1>1 DEF Records, Hows, EndsTorn, Last

\* A record of s with another state: nothing else changes.
LEMMA OneRestated ==
    ASSUME NEW s \in Seq(Records), NEW l \in 1 .. Len(s), NEW is \in Hows,
           NEW t, t = [s EXCEPT ![l].is = is]
    PROVE  /\ t \in Seq(Records) /\ Len(t) = Len(s)
           /\ \A n \in 1 .. Len(s) : /\ t[n].doc = s[n].doc
                                     /\ t[n].is = IF n = l THEN is ELSE s[n].is
<1> DEFINE q == [s[l] EXCEPT !.is = is]
<1>1. s[l] \in Records
  BY RecordsTyped
<1>2. q \in Records /\ q.doc = s[l].doc /\ q.is = is
  BY <1>1 DEF Records, Hows
<1>3. t = [s EXCEPT ![l] = q]
  OBVIOUS
<1> HIDE DEF q
<1>4. /\ t \in Seq(Records) /\ Len(t) = Len(s)
      /\ \A n \in 1 .. Len(s) : t[n] = IF n = l THEN q ELSE s[n]
  BY <1>2, <1>3
<1> QED  BY <1>2, <1>4

\* More is written on the line of a torn record, which is lost then.
LEMMA ContinuedShape ==
    ASSUME NEW s \in Seq(Records), NEW t, t = Continued(s)
    PROVE  /\ GrownTo(s, t) /\ Len(t) = Len(s) /\ ~EndsTorn(t)
           /\ Unreadable(t) \subseteq Exposed(s)
<1> DEFINE l == Len(s)
<1>1. CASE ~EndsTorn(s)
  <2>1. t = s
    BY <1>1 DEF Continued
  <2> QED  BY <1>1, <2>1, RecordsTyped DEF GrownTo, Exposed
<1>2. CASE EndsTorn(s)
  <2>1. l \in 1 .. l /\ s[l].is \in Torn /\ l \in Nat
    BY <1>2, RecordsTyped
  <2>2. PICK is \in {"spoilt", "joined"} : t = [s EXCEPT ![l].is = is]
    BY <1>2 DEF Continued
  <2>3. is \in Hows
    BY DEF Hows
  <2>4. /\ t \in Seq(Records) /\ Len(t) = l
        /\ \A n \in 1 .. l : t[n].doc = s[n].doc /\ t[n].is = IF n = l THEN is ELSE s[n].is
    BY <2>1, <2>2, <2>3, OneRestated
  <2>5. GrownTo(s, t)
    <3>1. ASSUME NEW n \in 1 .. l, n = l
          PROVE  /\ s[n].is = "whole" => t[n].is = "whole"
                 /\ Sure(t[n]) /\ Lost(t[n])
      BY <2>1, <2>4, <3>1 DEF Torn, Sure, Lost
    <3>2. ASSUME NEW n \in 1 .. l, n # l
          PROVE  /\ s[n].is = "whole" => t[n].is = "whole"
                 /\ Sure(s[n]) => Sure(t[n])
                 /\ Lost(s[n]) => Lost(t[n])
      BY <2>4, <3>2 DEF Sure, Lost, Readable
    <3> QED  BY <2>1, <2>4, <3>1, <3>2 DEF GrownTo
  <2>6. ~EndsTorn(t)
    BY <2>1, <2>4, RecordsTyped DEF Torn
  <2>7. ASSUME NEW n \in Unreadable(t)  PROVE n \in Exposed(s)
    <3>1. n \in 1 .. l /\ ~Readable(t[n])
      BY <2>4, <2>7, RecordsTyped DEF Unreadable
    <3>2. CASE n = l
      BY <1>2, <3>2 DEF Exposed
    <3>3. CASE n # l
      BY <2>4, <3>1, <3>3, RecordsTyped DEF Exposed, Unreadable, Readable
    <3> QED  BY <3>2, <3>3
  <2> QED  BY <2>4, <2>5, <2>6, <2>7
<1> QED  BY <1>1, <1>2

LEMMA AddedShape ==
    ASSUME NEW s \in Seq(Records), NEW d \in Docs, NEW is \in Hows, NEW t, t = Added(s, d, is)
    PROVE  /\ GrownTo(s, t) /\ Len(t) = Len(s) + 1 /\ Len(s) \in Nat
           /\ t[Len(s) + 1] = [doc |-> d, is |-> is]
           /\ Unreadable(t) \subseteq Exposed(s) \cup {Len(s) + 1}
           /\ Readable(t[Len(s) + 1]) => Unreadable(t) \subseteq Exposed(s)
<1> DEFINE r == [doc |-> d, is |-> is]
           l == Len(s)
<1>1. PICK u : u = Continued(s)
  OBVIOUS
<1>2. /\ GrownTo(s, u) /\ Len(u) = l /\ l \in Nat /\ Unreadable(u) \subseteq Exposed(s)
      /\ u \in Seq(Records)
  BY <1>1, ContinuedShape, RecordsTyped DEF GrownTo
<1>3. r \in Records /\ t = Append(u, r)
  BY <1>1 DEF Added, Records, Hows
<1> HIDE DEF r
<1>4. /\ t \in Seq(Records) /\ Len(t) = l + 1 /\ t[l + 1] = r
      /\ \A n \in 1 .. l : t[n] = u[n]
  BY <1>2, <1>3
<1>5. GrownTo(u, t)
  BY <1>2, <1>4 DEF GrownTo
<1>6. GrownTo(s, t)
  BY <1>2, <1>5, GrownTwice
<1>7. ASSUME NEW n \in Unreadable(t)
      PROVE  n \in Exposed(s) \/ (n = l + 1 /\ ~Readable(t[l + 1]))
  <2>1. n \in 1 .. l + 1 /\ ~Readable(t[n])
    BY <1>4, <1>7, RecordsTyped DEF Unreadable
  <2>2. CASE n \in 1 .. l
    BY <1>2, <1>4, <2>1, <2>2, RecordsTyped DEF Unreadable
  <2>3. CASE n = l + 1
    BY <2>1, <2>3
  <2> QED  BY <1>2, <2>1, <2>2, <2>3
<1> QED  BY <1>2, <1>4, <1>6, <1>7 DEF r

\* An append by a program that goes on: nothing more is exposed.
LEMMA AppendedShape ==
    ASSUME NEW s \in Seq(Records), NEW d \in Docs, NEW t, t = Appended(s, d)
    PROVE  /\ GrownTo(s, t) /\ Len(t) = Len(s) + 1 /\ Len(s) \in Nat
           /\ t[Len(s) + 1].doc = d /\ Sure(t[Len(s) + 1])
           /\ Exposed(t) \subseteq Exposed(s)
<1> DEFINE l == Len(s)
<1>1. PICK is : is = Completed(s)
  OBVIOUS
<1>2. is \in {"joined", "whole"} /\ is \in Hows /\ (is = "joined" => EndsTorn(s))
  BY <1>1 DEF Completed, Hows
<1>3. /\ GrownTo(s, t) /\ Len(t) = l + 1 /\ l \in Nat /\ t[l + 1] = [doc |-> d, is |-> is]
      /\ Unreadable(t) \subseteq Exposed(s) \cup {l + 1}
      /\ Readable(t[l + 1]) => Unreadable(t) \subseteq Exposed(s)
  BY <1>1, <1>2, AddedShape DEF Appended
<1>4. t[l + 1].doc = d /\ t[l + 1].is = is /\ Sure(t[l + 1])
  BY <1>2, <1>3 DEF Sure, Readable, Lost
<1>5. ~EndsTorn(t)
  BY <1>2, <1>3, <1>4, RecordsTyped DEF GrownTo, Torn
<1>6. CASE is = "joined"
  <2>1. l + 1 \in Exposed(s)
    BY <1>2, <1>6 DEF Exposed
  <2> QED  BY <1>3, <1>4, <1>5, <2>1 DEF Exposed
<1>7. CASE is = "whole"
  <2>1. Readable(t[l + 1])
    BY <1>4, <1>7 DEF Readable
  <2> QED  BY <1>3, <1>4, <1>5, <2>1 DEF Exposed
<1> QED  BY <1>2, <1>6, <1>7

\* A write cut short exposes itself and the record that comes after it.
LEMMA TornShape ==
    ASSUME NEW s \in Seq(Records), NEW d \in Docs, NEW how \in Torn, NEW t,
           t = Added(s, d, how)
    PROVE  /\ GrownTo(s, t) /\ Len(s) \in Nat
           /\ Exposed(t) \subseteq Exposed(s) \cup {Len(s) + 1, Len(s) + 2}
<1>1. how \in Hows
  BY DEF Hows
<1>2. /\ GrownTo(s, t) /\ Len(t) = Len(s) + 1 /\ Len(s) \in Nat
      /\ Unreadable(t) \subseteq Exposed(s) \cup {Len(s) + 1}
  BY <1>1, AddedShape
<1>3. Exposed(t) \subseteq Unreadable(t) \cup {Len(s) + 1, Len(s) + 2}
  <2>1. (Len(s) + 1) + 1 = Len(s) + 2
    BY <1>2
  <2> QED  BY <1>2, <2>1 DEF Exposed
<1> QED  BY <1>2, <1>3

\* Nor does a writer expose more that writes what it held back.
LEMMA FlushedShape ==
    ASSUME NEW s \in Seq(Records), NEW h \in Seq(Pieces), NEW t, t = Flushed(s, h)
    PROVE  GrownTo(s, t) /\ t \in Seq(Records) /\ Exposed(t) \subseteq Exposed(s)
<1> SUFFICES GrownTo(s, t) /\ Exposed(t) \subseteq Exposed(s)
  BY DEF GrownTo
<1> DEFINE l == Len(s)
<1>1. PICK p : p = Head(h)
  OBVIOUS
<1>2. CASE h = <<>>
  <2>1. t = s
    BY <1>2 DEF Flushed
  <2> QED  BY <2>1, RecordsTyped DEF GrownTo
<1>3. CASE h # <<>> /\ Head(h).at = 0
  <2>1. p \in Pieces
    BY <1>1, <1>3
  <2>2. p.doc \in Docs
    BY <2>1 DEF Pieces
  <2>3. EndsTorn(s) => Len(s) # 0
    BY RecordsTyped
  <2>4. t = Appended(s, p.doc)
    BY <1>1, <1>3, <2>3 DEF Flushed
  <2> QED  BY <2>2, <2>4, AppendedShape
<1>4. CASE h # <<>> /\ Head(h).at # 0 /\ Head(h).at = l /\ EndsTorn(s)
  <2>0. p \in Pieces
    BY <1>1, <1>4
  <2>1. PICK is \in Hows : is = p.is /\ is \in {"whole", "joined"}
    BY <2>0 DEF Pieces, Hows
  <2>2. t = [s EXCEPT ![l].is = is]
    BY <1>1, <1>4, <2>1 DEF Flushed
  <2>3. l \in 1 .. l /\ s[l].is \in Torn /\ l \in Nat
    BY <1>4, RecordsTyped
  <2>4. /\ t \in Seq(Records) /\ Len(t) = l
        /\ \A n \in 1 .. l : t[n].doc = s[n].doc /\ t[n].is = IF n = l THEN is ELSE s[n].is
    <3>1. l \in 1 .. Len(s) /\ is \in Hows
      BY <2>1, <2>3
    <3> QED  BY <2>2, <3>1, OneRestated
  <2>5. GrownTo(s, t)
    <3>1. ASSUME NEW n \in 1 .. l, n = l
          PROVE  s[n].is # "whole" /\ ~Lost(s[n]) /\ Sure(t[n])
      BY <2>1, <2>3, <2>4, <3>1 DEF Torn, Sure, Lost, Readable
    <3>2. ASSUME NEW n \in 1 .. l, n # l
          PROVE  /\ s[n].is = "whole" => t[n].is = "whole"
                 /\ Sure(s[n]) => Sure(t[n])
                 /\ Lost(s[n]) => Lost(t[n])
      BY <2>4, <3>2 DEF Sure, Lost, Readable
    <3> QED  BY <2>3, <2>4, <3>1, <3>2 DEF GrownTo
  <2>6. ~EndsTorn(t)
    BY <2>1, <2>3, <2>4, RecordsTyped DEF Torn
  <2>7. ASSUME NEW n \in Unreadable(t)  PROVE n \in Exposed(s)
    <3>1. n \in 1 .. l /\ ~Readable(t[n])
      BY <2>4, <2>7, RecordsTyped DEF Unreadable
    <3>2. CASE n = l
      BY <1>4, <3>2 DEF Exposed
    <3>3. CASE n # l
      BY <2>4, <3>1, <3>3, RecordsTyped DEF Exposed, Unreadable, Readable
    <3> QED  BY <3>2, <3>3
  <2> QED  BY <2>5, <2>6, <2>7 DEF Exposed
<1>5. CASE h # <<>> /\ Head(h).at # 0 /\ ~(Head(h).at = l /\ EndsTorn(s))
  <2>1. t = Continued(s)
    BY <1>5 DEF Flushed
  <2> QED  BY <2>1, ContinuedShape DEF Exposed
<1> QED  BY <1>2, <1>3, <1>4, <1>5

---------------------------------------------------------------------------
(* The tasks                                                               *)

Tasks == [pc : Stages, file : Nat, known : SUBSET Docs, line : Nat,
          handed : SUBSET Docs, errors : SUBSET Docs, held : Seq(Pieces), result : Results]

LEMMA FileTypes ==
    ASSUME FileTypeOK
    PROVE  /\ task \in [Jobs -> Tasks]
           /\ jsonl \in Seq(Records) /\ Len(jsonl) \in Nat
           /\ DOMAIN jsonl = 1 .. Len(jsonl)
           /\ \A n \in 1 .. Len(jsonl) : jsonl[n] \in Records /\ jsonl[n].doc \in Docs
<1>1. task \in [Jobs -> Tasks] /\ jsonl \in Seq(Records)
  BY DEF FileTypeOK, Tasks
<1>2. /\ Len(jsonl) \in Nat /\ DOMAIN jsonl = 1 .. Len(jsonl)
      /\ \A n \in 1 .. Len(jsonl) : jsonl[n] \in Records
  BY <1>1
<1> QED  BY <1>1, <1>2 DEF Records

LEMMA FilesTyped ==
    ASSUME NEW j \in Jobs
    PROVE  /\ FilesOf[j] \in Seq(Docs) /\ Len(FilesOf[j]) \in Nat
           /\ \A i \in 1 .. Len(FilesOf[j]) : FilesOf[j][i] \in Docs
           /\ DOMAIN FilesOf[j] = 1 .. Len(FilesOf[j])
           /\ IsUpload(j) => Len(FilesOf[j]) > 0
BY FileAssumption DEF IsUpload

LEMMA FixedTasks ==
    /\ NewTask \in Tasks /\ Gone \in Tasks
    /\ NewTask.pc = "new" /\ NewTask.line = 1 /\ NewTask.file = 1
    /\ NewTask.errors = {} /\ NewTask.known = {} /\ Gone.pc = "dead"
    /\ \A t \in Tasks : /\ EndedTask(t) \in Tasks /\ EndedTask(t).pc = "ended"
                        /\ EndedTask(t).handed = t.handed
                        /\ EndedTask(t).errors = t.errors
<1>1. <<>> \in Seq(Pieces)
  OBVIOUS
<1> QED  BY <1>1 DEF NewTask, Gone, EndedTask, Tasks, Stages, Results

\* Only the task of j moves, to t.
Moves(j, t) == task' = [task EXCEPT ![j] = t]

LEMMA OneMoves ==
    ASSUME task \in [Jobs -> Tasks], NEW j \in Jobs, NEW t \in Tasks, Moves(j, t)
    PROVE  /\ task' \in [Jobs -> Tasks] /\ task'[j] = t
           /\ \A i \in Jobs : i # j => task'[i] = task[i]
BY DEF Moves

\* What holds of the files and the records goes on holding as the checkpoint grows.
LEMMA RecordedStays ==
    ASSUME jsonl \in Seq(Records), Grown
    PROVE  \A d : Recorded(d) => Recorded(d)'
<1>1. Len(jsonl) \in Nat /\ Len(jsonl') \in Nat /\ Len(jsonl) <= Len(jsonl')
  BY DEF Grown, GrownTo
<1>2. \A n \in 1 .. Len(jsonl) : n \in 1 .. Len(jsonl')
  BY <1>1
<1> QED  BY <1>2 DEF Grown, GrownTo, Recorded

\* The task of j forgets no document, and the lines it leaves behind have no
\* document that it did not read in vain.
Forward(j) ==
    /\ task[j].errors \subseteq task'[j].errors
    /\ task[j].handed \cup task[j].errors \subseteq task'[j].handed \cup task'[j].errors
    /\ \A n \in 1 .. Len(jsonl) :
           n < task'[j].line =>
               \/ n < task[j].line
               \/ ~Sure(jsonl[n]) \/ Lost(jsonl[n])
               \/ jsonl[n].doc \in task'[j].handed \cup task'[j].errors

LEMMA TakenStays ==
    ASSUME jsonl \in Seq(Records), Grown, NEW j \in Jobs, Forward(j)
    PROVE  \A k : TakenBefore(j, k) => TakenBefore(j, k)'
<1>1. Len(jsonl) \in Nat /\ Len(jsonl') \in Nat /\ Len(jsonl) <= Len(jsonl')
  BY DEF Grown, GrownTo
<1>2. ASSUME NEW d, NEW n \in 1 .. Len(jsonl), Shown(j, d, n)  PROVE Shown(j, d, n)'
  <2>1. /\ jsonl[n].doc = d /\ Sure(jsonl[n])
        /\ n < task[j].line => d \in task[j].handed \cup task[j].errors \/ Lost(jsonl[n])
    BY <1>2 DEF Shown
  <2>2. /\ jsonl'[n].doc = d /\ Sure(jsonl'[n])
        /\ Lost(jsonl[n]) => Lost(jsonl'[n])
    BY <2>1 DEF Grown, GrownTo
  <2>3. n < task'[j].line =>
            d \in task'[j].handed \cup task'[j].errors \/ Lost(jsonl'[n])
    BY <2>1, <2>2 DEF Forward
  <2> QED  BY <2>2, <2>3 DEF Shown
<1>3. ASSUME NEW d, Taken(j, d)  PROVE Taken(j, d)'
  <2>1. CASE d \in task[j].errors
    BY <2>1 DEF Forward, Taken
  <2>2. CASE \E n \in 1 .. Len(jsonl) : Shown(j, d, n)
    <3>1. PICK n \in 1 .. Len(jsonl) : Shown(j, d, n)
      BY <2>2
    <3>2. n \in 1 .. Len(jsonl') /\ Shown(j, d, n)'
      BY <1>1, <1>2, <3>1
    <3> QED  BY <3>2 DEF Taken
  <2> QED  BY <1>3, <2>1, <2>2 DEF Taken
<1> QED  BY <1>3 DEF TakenBefore

LEMMA AccountedStays ==
    ASSUME jsonl \in Seq(Records), Grown, NEW j \in Jobs,
           task[j].handed \cup task[j].errors \subseteq
               task'[j].handed \cup task'[j].errors
    PROVE  Accounted(j) => Accounted(j)'
<1>1. Len(jsonl) \in Nat /\ Len(jsonl') \in Nat /\ Len(jsonl) <= Len(jsonl')
  BY DEF Grown, GrownTo
<1>2. ASSUME NEW d, NEW n \in 1 .. Len(jsonl), jsonl[n].doc = d, Lost(jsonl[n])
      PROVE  \E m \in 1 .. Len(jsonl') : jsonl'[m].doc = d /\ Lost(jsonl'[m])
  <2>1. jsonl'[n].doc = d /\ Lost(jsonl'[n]) /\ n \in 1 .. Len(jsonl')
    BY <1>1, <1>2 DEF Grown, GrownTo
  <2> QED  BY <2>1
<1> QED  BY <1>2 DEF Accounted

\* The task of j is what it was, but for what its writer holds back.
Unmoved(j) ==
    /\ task'[j].pc = task[j].pc /\ task'[j].file = task[j].file
    /\ task'[j].line = task[j].line /\ task'[j].known = task[j].known
    /\ task'[j].handed = task[j].handed /\ task'[j].errors = task[j].errors
    /\ task'[j].result = task[j].result
    /\ task[j].pc = "new" => task'[j] = task[j]

\* A job that does not move keeps what is known of it.
LEMMA OtherJobs ==
    ASSUME FileTypeOK, Grown, NEW j \in Jobs, JobOK(j), Unmoved(j),
           status'[j] = status[j], extra'[j] = extra[j]
    PROVE  JobOK(j)'
<1>1. jsonl \in Seq(Records) /\ task[j] \in Tasks /\ Len(jsonl) \in Nat
  BY FileTypes
<1> DEFINE line == task[j].line
           file == task[j].file
<1>2. line \in Nat /\ file \in Nat
  BY <1>1 DEF Tasks
<1>3. Len(jsonl') \in Nat /\ Len(jsonl) <= Len(jsonl')
  BY DEF Grown, GrownTo
<1>4. StageOf(j)'
  <2>1. line \in 1 .. Len(jsonl) => line \in 1 .. Len(jsonl')
    BY <1>1, <1>2, <1>3
  <2>2. line \in 1 .. Len(jsonl) + 1 => line \in 1 .. Len(jsonl') + 1
    BY <1>1, <1>2, <1>3
  <2> QED  BY <2>1, <2>2 DEF JobOK, StageOf, IsUpload, Unmoved
<1>5. StopOf(j)'
  BY DEF JobOK, StopOf, Unmoved
<1>6. ASSUME IsUpload(j)
      PROVE  FilesKnown(j)' /\ AllTaken(j)' /\ EndAccounted(j)'
  <2>1. FilesKnown(j) /\ AllTaken(j) /\ EndAccounted(j)
    BY <1>6 DEF JobOK, AccountOf
  <2>2. Forward(j)
    BY DEF Forward, Unmoved
  <2>3. FilesKnown(j)'
    BY <1>1, <2>1, <2>2, RecordedStays, TakenStays DEF FilesKnown, Unmoved
  <2>4. AllTaken(j)'
    BY <1>1, <2>1, <2>2, TakenStays DEF AllTaken, Gathered, Unmoved
  <2>5. EndAccounted(j)'
    BY <1>1, <2>1, AccountedStays DEF EndAccounted, Through, Unmoved
  <2> QED  BY <2>3, <2>4, <2>5
<1>7. AccountOf(j)'
  BY <1>6 DEF JobOK, AccountOf, IsUpload, Unmoved
<1> QED  BY <1>4, <1>5, <1>7 DEF JobOK

LEMMA SameTasks ==
    ASSUME NEW j \in Jobs, task'[j] = task[j]
    PROVE  Unmoved(j)
BY DEF Unmoved

---------------------------------------------------------------------------
(* One lemma for each step of a job                                        *)

\* A step of job j: the others stay as they are, and j is in order after it.
JobInOrder(j) ==
    /\ FileTypeOK' /\ Grown
    /\ \A i \in Jobs : i # j => /\ task'[i] = task[i] /\ status'[i] = status[i]
                                /\ extra'[i] = extra[i]
    /\ JobOK(j)'

LEMMA SameGrown ==
    ASSUME FileTypeOK, UNCHANGED jsonl
    PROVE  Grown
BY FileTypes DEF Grown, GrownTo

\* The task of j after its file, with the errors e of it; h is held back.
DoneWith(j, e, h) ==
    [task[j] EXCEPT !.file = @ + 1, !.errors = @ \cup e, !.held = h,
        !.pc = IF task[j].file = Len(FilesOf[j]) THEN "stage 1 done" ELSE "file"]

LEMMA DoneTyped ==
    ASSUME NEW j \in Jobs, task[j] \in Tasks, NEW e \in SUBSET Docs, NEW h \in Seq(Pieces)
    PROVE  /\ DoneWith(j, e, h) \in Tasks
           /\ DoneWith(j, e, h).pc = IF task[j].file = Len(FilesOf[j])
                                     THEN "stage 1 done" ELSE "file"
           /\ DoneWith(j, e, h).file = task[j].file + 1
           /\ DoneWith(j, e, h).errors = task[j].errors \cup e
           /\ DoneWith(j, e, h).line = task[j].line
           /\ DoneWith(j, e, h).known = task[j].known
           /\ DoneWith(j, e, h).handed = task[j].handed
<1> DEFINE pc == IF task[j].file = Len(FilesOf[j]) THEN "stage 1 done" ELSE "file"
<1>1. pc \in Stages
  BY DEF Stages
<1> HIDE DEF pc
<1> DEFINE d == [task[j] EXCEPT !.file = @ + 1, !.errors = @ \cup e, !.held = h, !.pc = pc]
<1>2. /\ d.pc = pc /\ d.file = task[j].file + 1 /\ d.errors = task[j].errors \cup e
      /\ d.line = task[j].line /\ d.known = task[j].known /\ d.held = h
      /\ d.handed = task[j].handed /\ d.result = task[j].result
  BY DEF Tasks
<1>3. d \in Tasks
  <2>1. task[j].file + 1 \in Nat /\ task[j].errors \cup e \in SUBSET Docs
    BY DEF Tasks
  <2> QED  BY <1>1, <2>1 DEF Tasks
<1> QED  BY <1>2, <1>3 DEF DoneWith, pc

\* A file that is recorded or an error once the step is done counts as taken.
LEMMA FileIsDone ==
    ASSUME FileTypeOK, NEW j \in Jobs, JobOK(j), task[j].pc \in {"file", "parse"},
           NEW e \in SUBSET Docs, NEW h \in Seq(Pieces), Moves(j, DoneWith(j, e, h)), Grown,
           UNCHANGED <<status, extra>>, NEW d, d = File(j), d \in e \/ Recorded(d)'
    PROVE  /\ task' \in [Jobs -> Tasks] /\ JobOK(j)'
           /\ \A i \in Jobs : i # j => task'[i] = task[i]
<1> DEFINE next == DoneWith(j, e, h)
<1>1. task[j] \in Tasks /\ task \in [Jobs -> Tasks] /\ jsonl \in Seq(Records)
  BY FileTypes
<1>2. PICK file : file = task[j].file
  OBVIOUS
<1>3. /\ IsUpload(j) /\ file \in 1 .. Len(FilesOf[j]) /\ task[j].line = 1
      /\ Len(FilesOf[j]) \in Nat /\ FilesKnown(j) /\ extra[j] = 0 /\ status[j] # "completed"
  BY <1>2, FilesTyped DEF JobOK, StageOf, StopOf, AccountOf
<1>4. /\ next \in Tasks /\ next.pc = IF file = Len(FilesOf[j]) THEN "stage 1 done" ELSE "file"
      /\ next.line = 1 /\ next.file = file + 1 /\ next.handed = task[j].handed
      /\ next.known = task[j].known /\ next.errors = task[j].errors \cup e
  BY <1>1, <1>2, <1>3, DoneTyped
<1> HIDE DEF next
<1>5. /\ task' \in [Jobs -> Tasks] /\ task'[j] = next
      /\ \A i \in Jobs : i # j => task'[i] = task[i]
  BY <1>1, <1>4, OneMoves DEF next
<1>6. d = FilesOf[j][file]
  BY <1>2 DEF File
<1>7. TakenBefore(j, file)'
  <2>1. Forward(j)
    BY <1>3, <1>4, <1>5 DEF Forward
  <2>2. TakenBefore(j, file - 1)'
    BY <1>1, <1>2, <1>3, <2>1, TakenStays DEF FilesKnown
  <2>3. Taken(j, FilesOf[j][file])'
    <3>1. CASE d \in e
      BY <1>4, <1>5, <1>6, <3>1 DEF Taken
    <3>2. CASE Recorded(d)'
      <4>1. PICK n \in 1 .. Len(jsonl') : jsonl'[n].doc = d /\ Sure(jsonl'[n])
        BY <3>2 DEF Recorded
      <4>2. ~(n < task'[j].line)
        <5>1. task'[j].line = 1
          BY <1>4, <1>5
        <5>2. Len(jsonl') \in Nat
          BY DEF Grown, GrownTo
        <5> QED  BY <4>1, <5>1, <5>2
      <4> QED  BY <1>6, <4>1, <4>2 DEF Taken, Shown
    <3> QED  BY <3>1, <3>2
  <2>4. \A i \in 1 .. file : i \in 1 .. file - 1 \/ i = file
    BY <1>3
  <2> QED  BY <2>2, <2>3, <2>4 DEF TakenBefore
<1>8. FilesKnown(j)'
  <2>1. \A c \in task'[j].known : Recorded(c)'
    BY <1>1, <1>3, <1>4, <1>5, RecordedStays DEF FilesKnown
  <2>2. task'[j].file - 1 = file
    <3>1. file \in Nat
      BY <1>3
    <3>2. task'[j].file = file + 1
      BY <1>4, <1>5
    <3> QED  BY <3>1, <3>2
  <2> QED  BY <1>7, <2>1, <2>2 DEF FilesKnown
<1>9. AllTaken(j)'
  BY <1>4, <1>5, <1>7 DEF AllTaken, Gathered
<1>10. StageOf(j)'
  <2>1. next.pc = "file" => next.file \in 1 .. Len(FilesOf[j])
    <3>1. file # Len(FilesOf[j]) => file + 1 \in 1 .. Len(FilesOf[j])
      BY <1>3
    <3> QED  BY <1>4, <3>1
  <2>2. next.pc \in {"file", "stage 1 done"}
    BY <1>4
  <2> QED  BY <1>3, <1>4, <1>5, <2>1, <2>2 DEF StageOf, IsUpload
<1>11. JobOK(j)'
  BY <1>3, <1>4, <1>5, <1>8, <1>9, <1>10
     DEF JobOK, StopOf, AccountOf, EndAccounted, Through, IsUpload
<1> QED  BY <1>5, <1>11

LEMMA TakeFileStep ==
    ASSUME FileTypeOK, NEW j \in Jobs, JobOK(j), TakeFile(j)
    PROVE  JobInOrder(j)
<1> DEFINE done == [task[j] EXCEPT !.pc = "stage 1 done"]
           parse == [task[j] EXCEPT !.pc = "parse"]
<1>1. task[j] \in Tasks /\ task \in [Jobs -> Tasks] /\ jsonl \in Seq(Records)
  BY FileTypes
<1>2. task[j].pc = "file" /\ UNCHANGED <<jsonl, status, request, extra, writeFaults, redisFaults>>
  BY DEF TakeFile, TaskAt
<1>3. /\ IsUpload(j) /\ task[j].file \in 1 .. Len(FilesOf[j]) /\ task[j].line = 1
      /\ FilesKnown(j) /\ extra[j] = 0 /\ status[j] # "completed"
  BY <1>2 DEF JobOK, StageOf, AccountOf, StopOf
<1>4. Grown
  BY <1>2, SameGrown
<1>5. \/ status[j] = "cancelled" /\ Moves(j, done)
      \/ File(j) \in task[j].known /\ task' = FileDone(j)
      \/ Moves(j, parse)
  BY <1>1 DEF TakeFile, Moves
<1>6. CASE status[j] = "cancelled" /\ Moves(j, done)
  <2>1. done \in Tasks /\ done.pc = "stage 1 done" /\ done.line = 1
    BY <1>1, <1>3 DEF Tasks, Stages
  <2> HIDE DEF done
  <2>2. /\ task' \in [Jobs -> Tasks] /\ task'[j] = done
        /\ \A i \in Jobs : i # j => task'[i] = task[i]
    BY <1>1, <1>6, <2>1, OneMoves
  <2>3. FileTypeOK'
    BY <1>2, <2>2 DEF FileTypeOK, Tasks
  <2>4. JobOK(j)'
    BY <1>2, <1>3, <1>6, <2>1, <2>2
       DEF JobOK, StageOf, StopOf, AccountOf, FilesKnown, AllTaken, Gathered,
           EndAccounted, Through, IsUpload
  <2> QED  BY <1>2, <1>4, <2>2, <2>3, <2>4 DEF JobInOrder
<1>7. CASE File(j) \in task[j].known /\ task' = FileDone(j)
  <2>0. task[j].held \in Seq(Pieces) /\ task[j].errors \cup {} = task[j].errors
    BY <1>1 DEF Tasks
  <2>1. Moves(j, DoneWith(j, {}, task[j].held))
    BY <1>1, <1>7, <2>0 DEF Moves, DoneWith, FileDone, Tasks
  <2> PICK d : d = File(j)
    OBVIOUS
  <2>2. Recorded(d)'
    BY <1>1, <1>2, <1>3, <1>4, <1>7, RecordedStays DEF FilesKnown
  <2>3. /\ task' \in [Jobs -> Tasks] /\ JobOK(j)'
        /\ \A i \in Jobs : i # j => task'[i] = task[i]
    BY <1>2, <1>4, <2>0, <2>1, <2>2, FileIsDone
  <2>4. FileTypeOK'
    BY <1>2, <2>3 DEF FileTypeOK, Tasks
  <2> QED  BY <1>2, <1>4, <2>3, <2>4 DEF JobInOrder
<1>8. CASE Moves(j, parse)
  <2>1. /\ parse \in Tasks /\ parse.pc = "parse" /\ parse.line = 1
        /\ parse.file = task[j].file /\ parse.errors = task[j].errors
        /\ parse.known = task[j].known /\ parse.handed = task[j].handed
    BY <1>1, <1>3 DEF Tasks, Stages
  <2> HIDE DEF parse
  <2>2. /\ task' \in [Jobs -> Tasks] /\ task'[j] = parse
        /\ \A i \in Jobs : i # j => task'[i] = task[i]
    BY <1>1, <1>8, <2>1, OneMoves
  <2>3. FileTypeOK'
    BY <1>2, <2>2 DEF FileTypeOK, Tasks
  <2>4. FilesKnown(j)'
    <3>1. Forward(j)
      BY <1>3, <2>1, <2>2 DEF Forward
    <3> QED  BY <1>1, <1>2, <1>3, <1>4, <2>1, <2>2, <3>1, RecordedStays, TakenStays
                DEF FilesKnown
  <2>5. StageOf(j)'
    BY <1>3, <2>1, <2>2 DEF StageOf, IsUpload
  <2>6. JobOK(j)'
    BY <1>2, <1>3, <2>1, <2>2, <2>4, <2>5
       DEF JobOK, StopOf, AccountOf, AllTaken, Gathered, EndAccounted,
           Through, IsUpload
  <2> QED  BY <1>2, <1>4, <2>2, <2>3, <2>6 DEF JobInOrder
<1> QED  BY <1>5, <1>6, <1>7, <1>8

LEMMA ParseStep ==
    ASSUME FileTypeOK, NEW j \in Jobs, JobOK(j), Parse(j)
    PROVE  JobInOrder(j)
<1>1. /\ task[j] \in Tasks /\ task \in [Jobs -> Tasks] /\ jsonl \in Seq(Records)
      /\ task[j].held \in Seq(Pieces)
  BY FileTypes DEF Tasks
<1>2. /\ task[j].pc = "parse"
      /\ UNCHANGED <<status, request, extra, writeFaults, redisFaults>>
  BY DEF Parse, TaskAt
<1>3. File(j) \in Docs
  BY <1>2, FilesTyped DEF JobOK, StageOf, File
<1>4. PICK d \in Docs : d = File(j)
  BY <1>3
<1>5. PICK e \in SUBSET Docs, h \in Seq(Pieces) :
          /\ Moves(j, DoneWith(j, e, h)) /\ Grown
          /\ d \in e \/ Recorded(d)'
  <2>1. CASE /\ jsonl' = Appended(Flushed(jsonl, task[j].held), d)
             /\ task' = [FileDone(j) EXCEPT ![j].held = <<>>]
    <3>1. Moves(j, DoneWith(j, {}, <<>>))
      BY <1>1, <2>1 DEF Moves, DoneWith, FileDone, Tasks
    <3>2. PICK t : t = Flushed(jsonl, task[j].held)
      OBVIOUS
    <3>3. t \in Seq(Records) /\ GrownTo(jsonl, t)
      BY <1>1, <3>2, FlushedShape
    <3>4. /\ GrownTo(t, jsonl') /\ Len(jsonl') = Len(t) + 1 /\ Len(t) \in Nat
          /\ jsonl'[Len(t) + 1].doc = d /\ Sure(jsonl'[Len(t) + 1])
      BY <2>1, <3>2, <3>3, AppendedShape
    <3>5. Grown
      BY <1>1, <3>3, <3>4, GrownTwice DEF Grown
    <3>6. PICK n : n = Len(jsonl')
      OBVIOUS
    <3>7. n \in 1 .. Len(jsonl') /\ jsonl'[n].doc = d /\ Sure(jsonl'[n])
      BY <3>4, <3>6
    <3>8. Recorded(d)'
      BY <3>7 DEF Recorded
    <3>9. {} \in SUBSET Docs /\ <<>> \in Seq(Pieces)
      OBVIOUS
    <3> QED  BY <3>1, <3>5, <3>8, <3>9
  <2>2. CASE /\ task' = [FileDone(j) EXCEPT ![j].errors = @ \cup {d}]
             /\ UNCHANGED jsonl
    <3>1. Moves(j, DoneWith(j, {d}, task[j].held))
      BY <1>1, <2>2 DEF Moves, DoneWith, FileDone, Tasks
    <3>2. Grown /\ {d} \in SUBSET Docs /\ d \in {d}
      BY <2>2, SameGrown
    <3> QED  BY <1>1, <3>1, <3>2
  <2> QED  BY <1>4, <2>1, <2>2 DEF Parse
<1>6. /\ task' \in [Jobs -> Tasks] /\ JobOK(j)'
      /\ \A i \in Jobs : i # j => task'[i] = task[i]
  BY <1>2, <1>4, <1>5, FileIsDone
<1>7. FileTypeOK'
  BY <1>2, <1>5, <1>6 DEF FileTypeOK, Tasks, Grown, GrownTo
<1> QED  BY <1>2, <1>5, <1>6, <1>7 DEF JobInOrder

\* What a failed write does to the checkpoint; h is what the writer holds back then.
FailedWrite(d, h) ==
    /\ h \in Seq(Pieces)
    /\ \/ UNCHANGED jsonl
       \/ \E how \in Torn : jsonl' = Added(jsonl, d, how)
       \/ jsonl' = Appended(jsonl, d)

LEMMA WriteFailsShape ==
    ASSUME FileTypeOK, NEW j \in Jobs, WriteFails(j), NEW d \in Docs, d = File(j)
    PROVE  \E h : /\ FailedWrite(d, h)
                  /\ task' = [FileDone(j) EXCEPT ![j].errors = @ \cup {d}, ![j].held = h]
<1> DEFINE piece(at) == [doc |-> d, at |-> at, is |-> Completed(jsonl)]
<1>1. Len(jsonl) + 1 \in Nat /\ 0 \in Nat
  BY FileTypes
<1>2. Completed(jsonl) \in {"whole", "joined"}
  BY DEF Completed
<1>3. /\ <<>> \in Seq(Pieces) /\ <<piece(0)>> \in Seq(Pieces)
      /\ <<piece(Len(jsonl) + 1)>> \in Seq(Pieces)
  BY <1>1, <1>2 DEF Pieces
<1>4. PICK h \in {<<>>, <<piece(0)>>, <<piece(Len(jsonl) + 1)>>} :
          /\ task' = [FileDone(j) EXCEPT ![j].errors = @ \cup {d}, ![j].held = h]
          /\ \/ UNCHANGED jsonl
             \/ \E how \in {"cut", "broken"} : jsonl' = Added(jsonl, d, how)
             \/ jsonl' = Appended(jsonl, d)
  BY DEF WriteFails
<1>5. h \in Seq(Pieces)
  BY <1>3, <1>4
<1> QED  BY <1>4, <1>5 DEF FailedWrite, Torn

LEMMA WriteFailsStep ==
    ASSUME FileTypeOK, NEW j \in Jobs, JobOK(j), WriteFails(j)
    PROVE  JobInOrder(j)
<1>1. task[j] \in Tasks /\ task \in [Jobs -> Tasks] /\ jsonl \in Seq(Records)
  BY FileTypes
<1>2. /\ task[j].pc = "parse" /\ UNCHANGED <<status, request, extra, redisFaults>>
  BY DEF WriteFails, TaskAt
<1>3. writeFaults' \in 0 .. MaxWriteFaults
  <2>1. /\ writeFaults \in 0 .. MaxWriteFaults /\ writeFaults < MaxWriteFaults
        /\ writeFaults' = writeFaults + 1
    BY DEF WriteFails, FileTypeOK
  <2> QED  BY <2>1, FileAssumption
<1>4. PICK d \in Docs : d = File(j)
  BY <1>2, FilesTyped DEF JobOK, StageOf, File
<1>5. PICK h \in Seq(Pieces) :
          /\ FailedWrite(d, h)
          /\ task' = [FileDone(j) EXCEPT ![j].errors = @ \cup {d}, ![j].held = h]
  BY <1>4, WriteFailsShape DEF FailedWrite
<1>6. Moves(j, DoneWith(j, {d}, h))
  BY <1>1, <1>5 DEF Moves, DoneWith, FileDone, Tasks
<1>7. Grown
  <2>1. CASE UNCHANGED jsonl
    BY <2>1, SameGrown
  <2>2. CASE \E how \in Torn : jsonl' = Added(jsonl, d, how)
    BY <1>1, <2>2, TornShape DEF Grown
  <2>3. CASE jsonl' = Appended(jsonl, d)
    BY <1>1, <2>3, AppendedShape DEF Grown
  <2> QED  BY <1>5, <2>1, <2>2, <2>3 DEF FailedWrite
<1>8. PICK e \in SUBSET Docs : e = {d}
  OBVIOUS
<1>9. /\ task' \in [Jobs -> Tasks] /\ JobOK(j)'
      /\ \A i \in Jobs : i # j => task'[i] = task[i]
  BY <1>2, <1>4, <1>6, <1>7, <1>8, FileIsDone
<1>10. FileTypeOK'
  BY <1>2, <1>3, <1>7, <1>9 DEF FileTypeOK, Tasks, Grown, GrownTo
<1> QED  BY <1>2, <1>7, <1>9, <1>10 DEF JobInOrder

LEMMA GoneIsFine ==
    ASSUME NEW j \in Jobs, StopOf(j), task'[j] = Gone, status'[j] # "completed",
           extra'[j] = extra[j]
    PROVE  JobOK(j)'
BY FixedTasks
   DEF JobOK, StageOf, StopOf, AccountOf, FilesKnown, AllTaken, Gathered,
       EndAccounted, Through, IsUpload

\* A task that ends by an exception, whose writer wrote what it held back or not.
LEMMA DeathStep ==
    ASSUME FileTypeOK, NEW j \in Jobs, JobOK(j), Dies(j),
           task[j].pc \in {"file", "stage 1 done", "read", "stage 2 done", "finish"},
           jsonl' \in {jsonl, Flushed(jsonl, task[j].held)},
           UNCHANGED <<status, request, extra, writeFaults>>,
           redisFaults' \in 0 .. MaxRedisFaults
    PROVE  JobInOrder(j)
<1>1. /\ task \in [Jobs -> Tasks] /\ jsonl \in Seq(Records)
      /\ task[j].held \in Seq(Pieces)
  BY FileTypes DEF Tasks
<1>2. Grown
  <2>1. CASE UNCHANGED jsonl
    BY <2>1, SameGrown
  <2>2. CASE jsonl' = Flushed(jsonl, task[j].held)
    BY <1>1, <2>2, FlushedShape DEF Grown
  <2> QED  BY <2>1, <2>2
<1>3. StopOf(j) /\ status[j] # "completed"
  BY DEF JobOK, AccountOf
<1>4. /\ task' \in [Jobs -> Tasks] /\ task'[j] = Gone
      /\ \A i \in Jobs : i # j => task'[i] = task[i]
  <2>1. Moves(j, Gone)
    BY DEF Dies, Moves
  <2> QED  BY <1>1, <2>1, FixedTasks, OneMoves
<1>5. FileTypeOK'
  BY <1>2, <1>4 DEF FileTypeOK, Tasks, Grown, GrownTo
<1> QED  BY <1>2, <1>3, <1>4, <1>5, GoneIsFine DEF JobInOrder

LEMMA CloseWriterStep ==
    ASSUME FileTypeOK, NEW j \in Jobs, JobOK(j), CloseWriter(j)
    PROVE  JobInOrder(j)
<1> DEFINE next == [task[j] EXCEPT !.held = <<>>]
<1>1. /\ task[j] \in Tasks /\ task \in [Jobs -> Tasks] /\ jsonl \in Seq(Records)
      /\ task[j].held \in Seq(Pieces)
  BY FileTypes DEF Tasks
<1>2. /\ task[j].pc = "stage 1 done"
      /\ UNCHANGED <<status, request, extra, writeFaults, redisFaults>>
  BY DEF CloseWriter, TaskAt
<1>3. CASE jsonl' = Flushed(jsonl, task[j].held) /\ Moves(j, next)
  <2>1. Grown
    BY <1>1, <1>3, FlushedShape DEF Grown
  <2>2. /\ next \in Tasks /\ next.pc = task[j].pc /\ next.file = task[j].file
        /\ next.line = task[j].line /\ next.known = task[j].known
        /\ next.handed = task[j].handed /\ next.errors = task[j].errors
        /\ next.result = task[j].result
    <3>1. <<>> \in Seq(Pieces)
      OBVIOUS
    <3> QED  BY <1>1, <3>1 DEF Tasks
  <2> HIDE DEF next
  <2>3. /\ task' \in [Jobs -> Tasks] /\ task'[j] = next
        /\ \A i \in Jobs : i # j => task'[i] = task[i]
    BY <1>1, <1>3, <2>2, OneMoves
  <2>4. Unmoved(j)
    BY <1>2, <2>2, <2>3 DEF Unmoved
  <2>5. JobOK(j)'
    BY <1>2, <2>1, <2>4, OtherJobs
  <2>6. FileTypeOK'
    BY <1>2, <2>1, <2>3 DEF FileTypeOK, Tasks, Grown, GrownTo
  <2> QED  BY <1>2, <2>1, <2>3, <2>5, <2>6 DEF JobInOrder
<1>4. CASE Dies(j) /\ UNCHANGED jsonl
  BY <1>2, <1>4, DeathStep DEF FileTypeOK
<1>5. \/ jsonl' = Flushed(jsonl, task[j].held) /\ Moves(j, next)
      \/ Dies(j) /\ UNCHANGED jsonl
  BY <1>1 DEF CloseWriter, Moves, Tasks
<1> QED  BY <1>3, <1>4, <1>5

LEMMA ReadFailsStep ==
    ASSUME FileTypeOK, NEW j \in Jobs, JobOK(j), ReadFails(j)
    PROVE  JobInOrder(j)
BY DeathStep DEF ReadFails, TaskAt, FileTypeOK

LEMMA RedisFailsStep ==
    ASSUME FileTypeOK, NEW j \in Jobs, JobOK(j), RedisFails(j)
    PROVE  JobInOrder(j)
<1>1. redisFaults' \in 0 .. MaxRedisFaults
  <2>1. redisFaults \in 0 .. MaxRedisFaults /\ redisFaults < MaxRedisFaults
        /\ redisFaults' = redisFaults + 1
    BY DEF RedisFails, FileTypeOK
  <2> QED  BY <2>1, FileAssumption
<1> QED  BY <1>1, DeathStep DEF RedisFails

LEMMA StartUploadStep ==
    ASSUME FileTypeOK, NEW j \in Jobs, JobOK(j), StartUpload(j)
    PROVE  JobInOrder(j)
<1> DEFINE start == [task[j] EXCEPT !.pc = "file", !.known = ReadableIn(jsonl)]
<1>1. task[j] \in Tasks /\ task \in [Jobs -> Tasks] /\ jsonl \in Seq(Records)
  BY FileTypes
<1>2. /\ task[j].pc = "new" /\ IsUpload(j)
      /\ UNCHANGED <<jsonl, request, extra, writeFaults, redisFaults>>
      /\ status' = [status EXCEPT ![j] = "processing"]
  BY DEF StartUpload, TaskAt
<1>3. task[j] = NewTask /\ extra[j] = 0 /\ StopOf(j)
  BY <1>2 DEF JobOK, StageOf, StopOf
<1>4. Grown
  BY <1>2, SameGrown
<1>5. Moves(j, Gone) \/ Moves(j, start)
  BY <1>1 DEF StartUpload, Moves
<1>6. /\ status' \in [Jobs -> {"none", "processing"} \cup Results]
      /\ status'[j] = "processing" /\ \A i \in Jobs : i # j => status'[i] = status[i]
  BY <1>2 DEF FileTypeOK
<1>7. CASE Moves(j, Gone)
  <2>1. /\ task' \in [Jobs -> Tasks] /\ task'[j] = Gone
        /\ \A i \in Jobs : i # j => task'[i] = task[i]
    BY <1>1, <1>7, FixedTasks, OneMoves
  <2>2. FileTypeOK'
    BY <1>2, <1>6, <2>1 DEF FileTypeOK, Tasks
  <2> QED  BY <1>2, <1>3, <1>4, <1>6, <2>1, <2>2, GoneIsFine DEF JobInOrder
<1>8. CASE Moves(j, start)
  <2>1. \A d \in ReadableIn(jsonl) : d \in Docs /\ Recorded(d)
    BY <1>1, FileTypes DEF ReadableIn, Range, Recorded, Sure
  <2>2. /\ start \in Tasks /\ start.pc = "file" /\ start.line = 1 /\ start.file = 1
        /\ start.known = ReadableIn(jsonl)
    BY <1>1, <1>3, <2>1, FixedTasks DEF Tasks, Stages
  <2> HIDE DEF start
  <2>3. /\ task' \in [Jobs -> Tasks] /\ task'[j] = start
        /\ \A i \in Jobs : i # j => task'[i] = task[i]
    BY <1>1, <1>8, <2>2, OneMoves
  <2>4. FileTypeOK'
    BY <1>2, <1>6, <2>3 DEF FileTypeOK, Tasks
  <2>5. FilesKnown(j)'
    <3>1. \A d \in task'[j].known : Recorded(d)'
      BY <1>2, <2>1, <2>2, <2>3 DEF Recorded
    <3>2. 1 .. (task'[j].file - 1) = {}
      BY <2>2, <2>3
    <3> QED  BY <3>1, <3>2 DEF FilesKnown, TakenBefore
  <2>6. StageOf(j)'
    <3>1. 1 \in 1 .. Len(FilesOf[j])
      BY <1>2, FilesTyped
    <3> QED  BY <1>2, <2>2, <2>3, <3>1 DEF StageOf, IsUpload
  <2>7. JobOK(j)'
    BY <1>2, <1>3, <1>6, <2>2, <2>3, <2>5, <2>6
       DEF JobOK, StopOf, AccountOf, AllTaken, Gathered, EndAccounted,
           Through, IsUpload
  <2> QED  BY <1>2, <1>4, <1>6, <2>3, <2>4, <2>7 DEF JobInOrder
<1> QED  BY <1>5, <1>7, <1>8

LEMMA StartReingestStep ==
    ASSUME FileTypeOK, NEW j \in Jobs, JobOK(j), StartReingest(j)
    PROVE  JobInOrder(j)
<1> DEFINE refused == [task[j] EXCEPT !.pc = "refused"]
           read == [task[j] EXCEPT !.pc = "read"]
<1>1. /\ task[j] \in Tasks /\ task \in [Jobs -> Tasks] /\ jsonl \in Seq(Records)
      /\ Len(jsonl) \in Nat
  BY FileTypes
<1>2. /\ task[j].pc = "new" /\ ~IsUpload(j)
      /\ UNCHANGED <<jsonl, request, extra, writeFaults, redisFaults>>
  BY DEF StartReingest, TaskAt
<1>3. task[j] = NewTask /\ extra[j] = 0 /\ status[j] # "completed"
  BY <1>2 DEF JobOK, StageOf, StopOf, AccountOf
<1>4. Grown
  BY <1>2, SameGrown
<1>5. \/ Moves(j, refused) /\ UNCHANGED status
      \/ Moves(j, read) /\ status' = [status EXCEPT ![j] = "processing"]
  BY <1>1 DEF StartReingest, Moves, TaskGoes
<1>6. /\ status' \in [Jobs -> {"none", "processing"} \cup Results]
      /\ status'[j] # "completed" /\ \A i \in Jobs : i # j => status'[i] = status[i]
  BY <1>3, <1>5 DEF FileTypeOK
<1>7. PICK next \in Tasks : /\ Moves(j, next) /\ next.pc \in {"refused", "read"}
                            /\ next.line = 1
  <2>1. refused \in Tasks /\ refused.pc = "refused" /\ refused.line = 1
    BY <1>1, <1>3, FixedTasks DEF Tasks, Stages
  <2>2. read \in Tasks /\ read.pc = "read" /\ read.line = 1
    BY <1>1, <1>3, FixedTasks DEF Tasks, Stages
  <2> QED  BY <1>5, <2>1, <2>2
<1>8. /\ task' \in [Jobs -> Tasks] /\ task'[j] = next
      /\ \A i \in Jobs : i # j => task'[i] = task[i]
  BY <1>1, <1>7, OneMoves
<1>9. FileTypeOK'
  BY <1>2, <1>6, <1>8 DEF FileTypeOK, Tasks
<1>10. JobOK(j)'
  <2>1. 1 \in 1 .. Len(jsonl') + 1
    BY <1>1, <1>2
  <2> QED  BY <1>2, <1>3, <1>6, <1>7, <1>8, <2>1
              DEF JobOK, StageOf, StopOf, AccountOf, IsUpload
<1> QED  BY <1>2, <1>4, <1>6, <1>8, <1>9, <1>10 DEF JobInOrder

LEMMA BeginStage2Step ==
    ASSUME FileTypeOK, NEW j \in Jobs, JobOK(j), BeginStage2(j)
    PROVE  JobInOrder(j)
<1> DEFINE read == [task[j] EXCEPT !.pc = "read", !.file = 1, !.known = {}]
           end == EndedTask(task[j])
<1>1. /\ task[j] \in Tasks /\ task \in [Jobs -> Tasks] /\ jsonl \in Seq(Records)
      /\ Len(jsonl) \in Nat
  BY FileTypes
<1>2. /\ task[j].pc = "stage 1 done"
      /\ UNCHANGED <<jsonl, status, request, extra, writeFaults, redisFaults>>
  BY DEF BeginStage2, TaskAt
<1>3. /\ task[j].line = 1 /\ extra[j] = 0 /\ status[j] # "completed"
      /\ (IsUpload(j) /\ status[j] # "cancelled") => TakenBefore(j, Len(FilesOf[j]))
  BY <1>2 DEF JobOK, StageOf, StopOf, AccountOf, AllTaken, Gathered
<1>4. Grown
  BY <1>2, SameGrown
<1>5. \/ Moves(j, end)
      \/ status[j] # "cancelled" /\ Moves(j, read)
  BY <1>1 DEF BeginStage2, Moves, Ends
<1>6. CASE Moves(j, end)
  <2>1. end \in Tasks /\ end.pc = "ended"
    BY <1>1, FixedTasks
  <2> HIDE DEF end
  <2>2. /\ task' \in [Jobs -> Tasks] /\ task'[j] = end
        /\ \A i \in Jobs : i # j => task'[i] = task[i]
    BY <1>1, <1>6, <2>1, OneMoves
  <2>3. FileTypeOK'
    BY <1>2, <2>2 DEF FileTypeOK, Tasks
  <2>4. JobOK(j)'
    BY <1>2, <1>3, <2>1, <2>2
       DEF JobOK, StageOf, StopOf, AccountOf, FilesKnown, AllTaken, Gathered,
           EndAccounted, Through, IsUpload
  <2> QED  BY <1>2, <1>4, <2>2, <2>3, <2>4 DEF JobInOrder
<1>7. CASE status[j] # "cancelled" /\ Moves(j, read)
  <2>1. /\ read \in Tasks /\ read.pc = "read" /\ read.line = 1
        /\ read.errors = task[j].errors /\ read.handed = task[j].handed
    BY <1>1, <1>3 DEF Tasks, Stages
  <2> HIDE DEF read
  <2>2. /\ task' \in [Jobs -> Tasks] /\ task'[j] = read
        /\ \A i \in Jobs : i # j => task'[i] = task[i]
    BY <1>1, <1>7, <2>1, OneMoves
  <2>3. FileTypeOK'
    BY <1>2, <2>2 DEF FileTypeOK, Tasks
  <2>4. AllTaken(j)'
    <3>0. Forward(j)
      BY <1>3, <2>1, <2>2 DEF Forward
    <3>1. IsUpload(j) => TakenBefore(j, Len(FilesOf[j]))'
      BY <1>1, <1>3, <1>4, <1>7, <3>0, TakenStays
    <3>2. ~IsUpload(j) => 1 .. Len(FilesOf[j]) = {}
      BY FilesTyped DEF IsUpload
    <3> QED  BY <3>1, <3>2 DEF AllTaken, TakenBefore
  <2>6. JobOK(j)'
    <3>1. 1 \in 1 .. Len(jsonl') + 1
      BY <1>4 DEF Grown, GrownTo
    <3>2. StageOf(j)'
      BY <2>1, <2>2, <3>1 DEF StageOf
    <3>3. EndAccounted(j)'
      BY <1>2, <1>3, <2>1, <2>2 DEF EndAccounted, Through
    <3> QED  BY <1>2, <1>3, <2>1, <2>2, <2>4, <3>2, <3>3
                DEF JobOK, StopOf, AccountOf, FilesKnown, IsUpload
  <2> QED  BY <1>2, <1>4, <2>2, <2>3, <2>6 DEF JobInOrder
<1> QED  BY <1>5, <1>6, <1>7

LEMMA ReadLineStep ==
    ASSUME FileTypeOK, NEW j \in Jobs, JobOK(j), ReadLine(j)
    PROVE  JobInOrder(j)
<1> DEFINE skip == [task[j] EXCEPT !.line = @ + 1]
           takes == [task[j] EXCEPT !.pc = "ingest"]
           out == [task[j] EXCEPT !.pc = "stage 2 done"]
<1>1. /\ task[j] \in Tasks /\ task \in [Jobs -> Tasks] /\ jsonl \in Seq(Records)
      /\ Len(jsonl) \in Nat
  BY FileTypes
<1>2. /\ task[j].pc = "read"
      /\ UNCHANGED <<jsonl, status, request, extra, writeFaults, redisFaults>>
  BY DEF ReadLine, TaskAt
<1>3. PICK k \in 1 .. Len(jsonl) + 1 : k = task[j].line
  BY <1>2 DEF JobOK, StageOf
<1>4. /\ StopOf(j) /\ status[j] # "completed"
      /\ IsUpload(j) => TakenBefore(j, Len(FilesOf[j]))
  BY <1>2, <1>3 DEF JobOK, StopOf, AccountOf, AllTaken, Gathered
<1>5. Grown
  BY <1>2, SameGrown
<1>6. \/ k <= Len(jsonl) /\ ~Readable(jsonl[k]) /\ Moves(j, skip)
      \/ k <= Len(jsonl) /\ status[j] # "cancelled" /\ Moves(j, takes)
      \/ (k > Len(jsonl) \/ status[j] = "cancelled") /\ Moves(j, out)
  <2>1. CASE k <= Len(jsonl) /\ ~Readable(jsonl[k])
    BY <1>1, <1>3, <2>1 DEF ReadLine, Moves
  <2>2. CASE k <= Len(jsonl) /\ Readable(jsonl[k]) /\ status[j] # "cancelled"
    BY <1>1, <1>3, <2>2 DEF ReadLine, Moves
  <2>3. CASE ~(k <= Len(jsonl)) \/ (Readable(jsonl[k]) /\ status[j] = "cancelled")
    <3>1. Moves(j, out)
      BY <1>1, <1>3, <2>3 DEF ReadLine, Moves
    <3>2. k > Len(jsonl) \/ status[j] = "cancelled"
      BY <1>1, <2>3
    <3> QED  BY <3>1, <3>2
  <2> QED  BY <2>1, <2>2, <2>3
<1>7. CASE k <= Len(jsonl) /\ ~Readable(jsonl[k]) /\ Moves(j, skip)
  <2>1. /\ skip \in Tasks /\ skip.pc = "read" /\ skip.line = k + 1
        /\ skip.errors = task[j].errors /\ skip.handed = task[j].handed
    <3>1. task[j].line + 1 \in Nat
      BY <1>1 DEF Tasks
    <3> QED  BY <1>1, <1>2, <1>3, <3>1 DEF Tasks
  <2> HIDE DEF skip
  <2>2. /\ task' \in [Jobs -> Tasks] /\ task'[j] = skip
        /\ \A i \in Jobs : i # j => task'[i] = task[i]
    BY <1>1, <1>7, <2>1, OneMoves
  <2>3. FileTypeOK'
    BY <1>2, <2>2 DEF FileTypeOK, Tasks
  <2>4. IsUpload(j) => AllTaken(j)'
    <3>1. ASSUME NEW n \in 1 .. Len(jsonl), n < k + 1
          PROVE  n < k \/ ~Sure(jsonl[n]) \/ Lost(jsonl[n])
      <4>1. n < k \/ n = k
        BY <1>3, <3>1
      <4> QED  BY <1>7, <4>1 DEF Sure
    <3>2. Forward(j)
      BY <1>3, <2>1, <2>2, <3>1 DEF Forward
    <3> QED  BY <1>1, <1>4, <1>5, <3>2, TakenStays DEF AllTaken
  <2>5. StageOf(j)'
    <3>1. k + 1 \in 1 .. Len(jsonl) + 1
      BY <1>1, <1>3, <1>7
    <3> QED  BY <1>2, <2>1, <2>2, <3>1 DEF StageOf
  <2>6. JobOK(j)'
    BY <1>2, <1>4, <2>1, <2>2, <2>4, <2>5
       DEF JobOK, StopOf, AccountOf, FilesKnown, EndAccounted, Through, IsUpload
  <2> QED  BY <1>2, <1>5, <2>2, <2>3, <2>6 DEF JobInOrder
<1>8. CASE k <= Len(jsonl) /\ status[j] # "cancelled" /\ Moves(j, takes)
  <2>1. /\ takes \in Tasks /\ takes.pc = "ingest" /\ takes.line = k
        /\ takes.errors = task[j].errors /\ takes.handed = task[j].handed
    BY <1>1, <1>2, <1>3 DEF Tasks, Stages
  <2> HIDE DEF takes
  <2>2. /\ task' \in [Jobs -> Tasks] /\ task'[j] = takes
        /\ \A i \in Jobs : i # j => task'[i] = task[i]
    BY <1>1, <1>8, <2>1, OneMoves
  <2>3. FileTypeOK'
    BY <1>2, <2>2 DEF FileTypeOK, Tasks
  <2>4. IsUpload(j) => AllTaken(j)'
    <3>1. Forward(j)
      BY <1>3, <2>1, <2>2 DEF Forward
    <3> QED  BY <1>1, <1>4, <1>5, <3>1, TakenStays DEF AllTaken
  <2>5. StageOf(j)'
    <3>1. k \in 1 .. Len(jsonl)
      BY <1>1, <1>3, <1>8
    <3> QED  BY <1>2, <1>3, <2>1, <2>2, <3>1 DEF StageOf
  <2>6. extra[j] = 0
    BY <1>2, <1>4, <1>8 DEF StopOf
  <2>7. JobOK(j)'
    BY <1>2, <1>4, <2>1, <2>2, <2>4, <2>5, <2>6
       DEF JobOK, StopOf, AccountOf, FilesKnown, EndAccounted, Through, IsUpload
  <2> QED  BY <1>2, <1>5, <2>2, <2>3, <2>7 DEF JobInOrder
<1>9. CASE (k > Len(jsonl) \/ status[j] = "cancelled") /\ Moves(j, out)
  <2>1. /\ out \in Tasks /\ out.pc = "stage 2 done"
        /\ out.errors = task[j].errors /\ out.handed = task[j].handed
    BY <1>1 DEF Tasks, Stages
  <2> HIDE DEF out
  <2>2. /\ task' \in [Jobs -> Tasks] /\ task'[j] = out
        /\ \A i \in Jobs : i # j => task'[i] = task[i]
    BY <1>1, <1>9, <2>1, OneMoves
  <2>3. FileTypeOK'
    BY <1>2, <2>2 DEF FileTypeOK, Tasks
  <2>4. IsUpload(j) /\ status[j] # "cancelled" => Accounted(j)
    <3> SUFFICES ASSUME IsUpload(j), status[j] # "cancelled", NEW d \in Range(FilesOf[j])
                 PROVE  \/ d \in task[j].handed \cup task[j].errors
                        \/ \E n \in 1 .. Len(jsonl) : jsonl[n].doc = d /\ Lost(jsonl[n])
      BY DEF Accounted
    <3>1. PICK i \in 1 .. Len(FilesOf[j]) : d = FilesOf[j][i]
      BY FilesTyped DEF Range
    <3>2. d \in task[j].errors \/ \E n \in 1 .. Len(jsonl) : Shown(j, d, n)
      BY <1>4, <3>1 DEF TakenBefore, Taken
    <3>3. \A n \in 1 .. Len(jsonl) : n < task[j].line
      BY <1>1, <1>3, <1>9
    <3> QED  BY <3>2, <3>3 DEF Shown
  <2>5. IsUpload(j) => EndAccounted(j)'
    <3>1. IsUpload(j) /\ status[j] # "cancelled" => Accounted(j)'
      BY <1>1, <1>5, <2>1, <2>2, <2>4, AccountedStays
    <3> QED  BY <1>2, <1>4, <2>1, <2>2, <3>1 DEF EndAccounted, Through
  <2>6. JobOK(j)'
    BY <1>2, <1>4, <2>1, <2>2, <2>5
       DEF JobOK, StageOf, StopOf, AccountOf, FilesKnown, AllTaken, Gathered,
           IsUpload
  <2> QED  BY <1>2, <1>5, <2>2, <2>3, <2>6 DEF JobInOrder
<1> QED  BY <1>6, <1>7, <1>8, <1>9

LEMMA IngestLineStep ==
    ASSUME FileTypeOK, NEW j \in Jobs, JobOK(j), NEW ok \in BOOLEAN, IngestLine(j, ok)
    PROVE  JobInOrder(j)
<1> DEFINE handed == [task[j] EXCEPT !.pc = "read", !.line = @ + 1,
                          !.handed = @ \cup {jsonl[task[j].line].doc}]
           failed == [task[j] EXCEPT !.pc = "read", !.line = @ + 1,
                          !.errors = @ \cup {jsonl[task[j].line].doc}]
<1>1. /\ task[j] \in Tasks /\ task \in [Jobs -> Tasks] /\ jsonl \in Seq(Records)
      /\ Len(jsonl) \in Nat
  BY FileTypes
<1>2. /\ task[j].pc = "ingest"
      /\ UNCHANGED <<jsonl, status, request, writeFaults, redisFaults>>
      /\ extra' = [extra EXCEPT ![j] = IF status[j] = "cancelled" THEN @ + 1 ELSE @]
  BY DEF IngestLine, TaskAt
<1>3. PICK k \in 1 .. Len(jsonl) : k = task[j].line
  BY <1>2 DEF JobOK, StageOf
<1>4. PICK d \in Docs : d = jsonl[k].doc
  BY <1>3, FileTypes
<1>5. /\ extra[j] = 0 /\ status[j] # "completed"
      /\ IsUpload(j) => TakenBefore(j, Len(FilesOf[j]))
  BY <1>2, <1>3 DEF JobOK, StopOf, AccountOf, AllTaken, Gathered
<1>6. Grown
  BY <1>2, SameGrown
<1>7. Moves(j, handed) \/ Moves(j, failed)
  <2>1. CASE ok
    BY <1>1, <2>1 DEF IngestLine, Moves
  <2>2. CASE ~ok
    BY <1>1, <2>2 DEF IngestLine, Moves
  <2> QED  BY <2>1, <2>2
<1>8. PICK next \in Tasks :
          /\ Moves(j, next) /\ next.pc = "read" /\ next.line = k + 1
          /\ task[j].errors \subseteq next.errors
          /\ task[j].handed \cup task[j].errors \cup {d} \subseteq
                 next.handed \cup next.errors
  <2>1. /\ handed \in Tasks /\ handed.pc = "read" /\ handed.line = k + 1
        /\ handed.errors = task[j].errors /\ handed.handed = task[j].handed \cup {d}
    <3>1. /\ task[j].line + 1 \in Nat /\ task[j].line + 1 = k + 1
          /\ task[j].handed \cup {d} \in SUBSET Docs /\ jsonl[task[j].line].doc = d
      BY <1>1, <1>3, <1>4 DEF Tasks
    <3>2. handed = [task[j] EXCEPT !.pc = "read", !.line = k + 1,
                       !.handed = task[j].handed \cup {d}]
      BY <1>1, <3>1 DEF Tasks
    <3> QED  BY <1>1, <3>1, <3>2 DEF Tasks, Stages
  <2>2. /\ failed \in Tasks /\ failed.pc = "read" /\ failed.line = k + 1
        /\ failed.errors = task[j].errors \cup {d} /\ failed.handed = task[j].handed
    <3>1. /\ task[j].line + 1 \in Nat /\ task[j].line + 1 = k + 1
          /\ task[j].errors \cup {d} \in SUBSET Docs /\ jsonl[task[j].line].doc = d
      BY <1>1, <1>3, <1>4 DEF Tasks
    <3>2. failed = [task[j] EXCEPT !.pc = "read", !.line = k + 1,
                       !.errors = task[j].errors \cup {d}]
      BY <1>1, <3>1 DEF Tasks
    <3> QED  BY <1>1, <3>1, <3>2 DEF Tasks, Stages
  <2> HIDE DEF handed, failed
  <2>3. CASE Moves(j, handed)
    BY <2>1, <2>3
  <2>4. CASE Moves(j, failed)
    BY <2>2, <2>4
  <2> QED  BY <1>7, <2>3, <2>4
<1>9. /\ task' \in [Jobs -> Tasks] /\ task'[j] = next
      /\ \A i \in Jobs : i # j => task'[i] = task[i]
  BY <1>1, <1>8, OneMoves
<1>10. /\ extra' \in [Jobs -> Nat] /\ \A i \in Jobs : i # j => extra'[i] = extra[i]
       /\ extra'[j] = IF status[j] = "cancelled" THEN 1 ELSE 0
  BY <1>2, <1>5 DEF FileTypeOK
<1>11. FileTypeOK'
  BY <1>2, <1>9, <1>10 DEF FileTypeOK, Tasks
<1>12. IsUpload(j) => AllTaken(j)'
  <2>1. ASSUME NEW n \in 1 .. Len(jsonl), n < k + 1
        PROVE  n < k \/ jsonl[n].doc \in task'[j].handed \cup task'[j].errors
    <3>1. n < k \/ n = k
      BY <1>3, <2>1
    <3> QED  BY <1>4, <1>8, <1>9, <3>1
  <2>2. Forward(j)
    BY <1>3, <1>8, <1>9, <2>1 DEF Forward
  <2> QED  BY <1>1, <1>5, <1>6, <2>2, TakenStays DEF AllTaken
<1>13. StageOf(j)'
  <2>1. k + 1 \in 1 .. Len(jsonl) + 1
    BY <1>1, <1>3
  <2> QED  BY <1>2, <1>8, <1>9, <2>1 DEF StageOf
<1>14. StopOf(j)'
  BY <1>2, <1>8, <1>9, <1>10 DEF StopOf
<1>15. JobOK(j)'
  BY <1>2, <1>5, <1>8, <1>9, <1>12, <1>13, <1>14
     DEF JobOK, AccountOf, FilesKnown, EndAccounted, Through, IsUpload
<1> QED  BY <1>2, <1>6, <1>9, <1>10, <1>11, <1>15 DEF JobInOrder

LEMMA ConcludeStep ==
    ASSUME FileTypeOK, NEW j \in Jobs, JobOK(j), Conclude(j)
    PROVE  JobInOrder(j)
<1>1. /\ task[j] \in Tasks /\ task \in [Jobs -> Tasks] /\ jsonl \in Seq(Records)
  BY FileTypes
<1>2. /\ task[j].pc = "stage 2 done"
      /\ UNCHANGED <<jsonl, status, request, extra, writeFaults, redisFaults>>
  BY DEF Conclude, TaskAt
<1>3. /\ StopOf(j) /\ status[j] # "completed"
      /\ (IsUpload(j) /\ status[j] # "cancelled") => Accounted(j)
  BY <1>2 DEF JobOK, AccountOf, EndAccounted, Through
<1>4. Grown
  BY <1>2, SameGrown
<1>5. PICK result \in Results :
          /\ task' = [task EXCEPT ![j].pc = "finish", ![j].result = result]
          /\ (IsUpload(j) /\ result = "completed") => status[j] # "cancelled"
  BY DEF Conclude, Results, ResultOf
<1> DEFINE next == [task[j] EXCEPT !.pc = "finish", !.result = result]
<1>6. /\ next \in Tasks /\ next.pc = "finish" /\ next.result = result
      /\ next.errors = task[j].errors /\ next.handed = task[j].handed
  BY <1>1 DEF Tasks, Stages
<1>7. Moves(j, next)
  BY <1>1, <1>5 DEF Moves
<1> HIDE DEF next
<1>8. /\ task' \in [Jobs -> Tasks] /\ task'[j] = next
      /\ \A i \in Jobs : i # j => task'[i] = task[i]
  BY <1>1, <1>6, <1>7, OneMoves
<1>9. FileTypeOK'
  BY <1>2, <1>8 DEF FileTypeOK, Tasks
<1>10. IsUpload(j) => EndAccounted(j)'
  <2>1. Accounted(j) => Accounted(j)'
    BY <1>1, <1>4, <1>6, <1>8, AccountedStays
  <2> QED  BY <1>2, <1>3, <1>5, <1>6, <1>8, <2>1 DEF EndAccounted, Through
<1>11. JobOK(j)'
  BY <1>2, <1>3, <1>6, <1>8, <1>10
     DEF JobOK, StageOf, StopOf, AccountOf, FilesKnown, AllTaken, Gathered,
         IsUpload
<1> QED  BY <1>2, <1>4, <1>8, <1>9, <1>11 DEF JobInOrder

LEMMA FinishStep ==
    ASSUME FileTypeOK, NEW j \in Jobs, JobOK(j), Finish(j)
    PROVE  JobInOrder(j)
<1> DEFINE end == EndedTask(task[j])
<1>1. /\ task[j] \in Tasks /\ task \in [Jobs -> Tasks] /\ jsonl \in Seq(Records)
  BY FileTypes
<1>2. /\ task[j].pc = "finish" /\ status' = [status EXCEPT ![j] = task[j].result]
      /\ Moves(j, end) /\ UNCHANGED <<jsonl, request, extra, writeFaults, redisFaults>>
  BY DEF Finish, TaskAt, Ends, Moves
<1>3. StopOf(j) /\ ((IsUpload(j) /\ task[j].result = "completed") => Accounted(j))
  BY <1>2 DEF JobOK, AccountOf, EndAccounted, Through
<1>4. Grown
  BY <1>2, SameGrown
<1>5. /\ end \in Tasks /\ end.pc = "ended" /\ end.handed = task[j].handed
      /\ end.errors = task[j].errors
  BY <1>1, FixedTasks
<1> HIDE DEF end
<1>6. /\ task' \in [Jobs -> Tasks] /\ task'[j] = end
      /\ \A i \in Jobs : i # j => task'[i] = task[i]
  BY <1>1, <1>2, <1>5, OneMoves
<1>7. /\ status' \in [Jobs -> {"none", "processing"} \cup Results]
      /\ status'[j] = task[j].result /\ \A i \in Jobs : i # j => status'[i] = status[i]
  BY <1>1, <1>2 DEF FileTypeOK, Tasks
<1>8. FileTypeOK'
  BY <1>2, <1>6, <1>7 DEF FileTypeOK, Tasks
<1>9. IsUpload(j) => EndAccounted(j)'
  <2>1. Accounted(j) => Accounted(j)'
    BY <1>1, <1>4, <1>5, <1>6, AccountedStays
  <2> QED  BY <1>2, <1>3, <1>5, <1>6, <1>7, <2>1 DEF EndAccounted, Through
<1>10. JobOK(j)'
  BY <1>2, <1>3, <1>5, <1>6, <1>9
     DEF JobOK, StageOf, StopOf, AccountOf, FilesKnown, AllTaken, Gathered,
         IsUpload
<1> QED  BY <1>2, <1>4, <1>6, <1>7, <1>8, <1>10 DEF JobInOrder

LEMMA CancelReadsStep ==
    ASSUME FileTypeOK, NEW j \in Jobs, JobOK(j), CancelReads(j)
    PROVE  JobInOrder(j)
<1>1. /\ UNCHANGED <<jsonl, task, status, extra, writeFaults, redisFaults>>
      /\ request' = [request EXCEPT ![j] = "read"]
  BY DEF CancelReads
<1>2. FileTypeOK' /\ Grown
  BY <1>1, SameGrown DEF FileTypeOK
<1>3. JobOK(j)'
  BY <1>1, <1>2, SameTasks, OtherJobs
<1> QED  BY <1>1, <1>2, <1>3 DEF JobInOrder

LEMMA CancelWritesStep ==
    ASSUME FileTypeOK, NEW j \in Jobs, JobOK(j), CancelWrites(j)
    PROVE  JobInOrder(j)
<1>1. /\ UNCHANGED <<jsonl, task, extra, writeFaults, redisFaults>>
      /\ request' = [request EXCEPT ![j] = "answered"]
      /\ status' = [status EXCEPT ![j] = "cancelled"]
  BY DEF CancelWrites
<1>2. /\ FileTypeOK' /\ Grown /\ status'[j] = "cancelled"
      /\ \A i \in Jobs : i # j => status'[i] = status[i]
  BY <1>1, SameGrown DEF FileTypeOK, Results
<1>3. ASSUME IsUpload(j)
      PROVE  FilesKnown(j)' /\ AllTaken(j)' /\ EndAccounted(j)'
  <2>1. FilesKnown(j) /\ AllTaken(j) /\ EndAccounted(j)
    BY <1>3 DEF JobOK, AccountOf
  <2>2. FilesKnown(j)'
    BY <1>1, <2>1 DEF FilesKnown, TakenBefore, Taken, Shown, Recorded
  <2>3. AllTaken(j)'
    BY <1>1, <1>2, <2>1 DEF AllTaken, Gathered, TakenBefore, Taken, Shown
  <2>4. EndAccounted(j)'
    BY <1>1, <1>2, <2>1 DEF EndAccounted, Through, Accounted
  <2> QED  BY <2>2, <2>3, <2>4
<1>4. StageOf(j)' /\ StopOf(j)'
  BY <1>1, <1>2 DEF JobOK, StageOf, StopOf, IsUpload
<1>5. JobOK(j)'
  BY <1>2, <1>3, <1>4 DEF JobOK, AccountOf, IsUpload
<1> QED  BY <1>1, <1>2, <1>5 DEF JobInOrder

\* The process dies: every task that ran is gone, and the end of the checkpoint
\* may be torn.
LEMMA CrashStep ==
    ASSUME FileTypeOK, \A j \in Jobs : JobOK(j), Crash
    PROVE  FileTypeOK' /\ Grown /\ \A j \in Jobs : JobOK(j)'
<1>1. task \in [Jobs -> Tasks] /\ jsonl \in Seq(Records)
  BY FileTypes
<1>2. /\ task' = [j \in Jobs |-> IF Running(j) THEN Gone ELSE task[j]]
      /\ UNCHANGED <<status, request, extra, redisFaults>>
  BY DEF Crash
<1>3. writeFaults' \in 0 .. MaxWriteFaults
  <2>1. /\ writeFaults \in 0 .. MaxWriteFaults /\ writeFaults < MaxWriteFaults
        /\ writeFaults' = writeFaults + 1
    BY DEF Crash, FileTypeOK
  <2> QED  BY <2>1, FileAssumption
<1>4. Grown
  <2>1. CASE UNCHANGED jsonl
    BY <2>1, SameGrown
  <2>2. CASE ~UNCHANGED jsonl
    <3>1. PICK j \in Jobs :
              /\ task[j].pc = "parse"
              /\ jsonl' \in AppendedInPart(Flushed(jsonl, task[j].held), File(j))
      BY <2>2 DEF Crash, TaskAt
    <3>2. PICK d \in Docs : d = File(j)
      BY <3>1, FilesTyped DEF JobOK, StageOf, File
    <3>3. PICK t : t = Flushed(jsonl, task[j].held)
      OBVIOUS
    <3>4. task[j].held \in Seq(Pieces)
      BY <1>1 DEF Tasks
    <3>5. t \in Seq(Records) /\ GrownTo(jsonl, t)
      BY <1>1, <3>3, <3>4, FlushedShape
    <3>6. PICK how \in Torn : jsonl' = Added(t, d, how)
      BY <3>1, <3>2, <3>3 DEF AppendedInPart
    <3>7. GrownTo(t, jsonl')
      BY <3>5, <3>6, TornShape
    <3> QED  BY <1>1, <3>5, <3>7, GrownTwice DEF Grown
  <2> QED  BY <2>1, <2>2
<1>5. /\ task' \in [Jobs -> Tasks]
      /\ \A j \in Jobs : task'[j] = IF Running(j) THEN Gone ELSE task[j]
  BY <1>1, <1>2, FixedTasks
<1>6. FileTypeOK'
  BY <1>2, <1>3, <1>4, <1>5 DEF FileTypeOK, Tasks, Grown, GrownTo
<1>7. ASSUME NEW j \in Jobs  PROVE JobOK(j)'
  <2>1. CASE Running(j)
    <3>1. StopOf(j) /\ status[j] # "completed"
      BY <2>1 DEF JobOK, AccountOf, Running
    <3> QED  BY <1>2, <1>5, <2>1, <3>1, GoneIsFine
  <2>2. CASE ~Running(j)
    BY <1>2, <1>4, <1>5, <2>2, SameTasks, OtherJobs
  <2> QED  BY <2>1, <2>2
<1> QED  BY <1>4, <1>6, <1>7

---------------------------------------------------------------------------
(* The invariant and what follows from it                                  *)

\* A step exposes no more records; or it is a fault, and exposes two.
ExposesNone == /\ Exposed(jsonl') \subseteq Exposed(jsonl)
               /\ writeFaults' \in {writeFaults, writeFaults + 1}
ExposesTwo == /\ \E l \in Nat : Exposed(jsonl') \subseteq Exposed(jsonl) \cup {l + 1, l + 2}
              /\ writeFaults' = writeFaults + 1

LEMMA CheckpointMoves ==
    ASSUME FileTypeOK, \A j \in Jobs : JobOK(j), [FileNext]_fileVars
    PROVE  ExposesNone \/ ExposesTwo
<1>1. ASSUME NEW j \in Jobs
      PROVE  /\ task[j].pc = "parse" => File(j) \in Docs
             /\ task[j].held \in Seq(Pieces)
  BY FileTypes, FilesTyped DEF JobOK, StageOf, File, Tasks
<1>2. jsonl \in Seq(Records)
  BY FileTypes
<1>3. ASSUME UNCHANGED <<jsonl, writeFaults>>  PROVE ExposesNone
  BY <1>3 DEF ExposesNone
<1>4. ASSUME NEW j \in Jobs, Parse(j)  PROVE ExposesNone
  <2>1. writeFaults' = writeFaults /\ task[j].pc = "parse"
    BY <1>4 DEF Parse, TaskAt
  <2>2. CASE UNCHANGED jsonl
    BY <1>3, <2>1, <2>2
  <2>3. CASE jsonl' = Appended(Flushed(jsonl, task[j].held), File(j))
    <3>1. PICK t : t = Flushed(jsonl, task[j].held)
      OBVIOUS
    <3>2. t \in Seq(Records) /\ Exposed(t) \subseteq Exposed(jsonl)
      BY <1>1, <1>2, <3>1, FlushedShape
    <3>3. PICK d \in Docs : d = File(j)
      BY <1>1, <2>1
    <3>4. Exposed(jsonl') \subseteq Exposed(t)
      BY <2>3, <3>1, <3>2, <3>3, AppendedShape
    <3> QED  BY <2>1, <3>2, <3>4 DEF ExposesNone
  <2> QED  BY <1>4, <2>2, <2>3 DEF Parse
<1>5. ASSUME NEW j \in Jobs, WriteFails(j)  PROVE ExposesNone \/ ExposesTwo
  <2>1. writeFaults' = writeFaults + 1 /\ task[j].pc = "parse"
    BY <1>5 DEF WriteFails, TaskAt
  <2>2. PICK d \in Docs : d = File(j)
    BY <1>1, <2>1
  <2>3. \E h : FailedWrite(d, h)
    BY <1>5, <2>2, WriteFailsShape
  <2>4. CASE UNCHANGED jsonl
    BY <2>1, <2>4 DEF ExposesNone
  <2>5. CASE \E how \in Torn : jsonl' = Added(jsonl, d, how)
    BY <1>2, <2>1, <2>5, TornShape DEF ExposesTwo
  <2>6. CASE jsonl' = Appended(jsonl, d)
    BY <1>2, <2>1, <2>6, AppendedShape DEF ExposesNone
  <2> QED  BY <2>3, <2>4, <2>5, <2>6 DEF FailedWrite
<1>6. ASSUME NEW j \in Jobs, CloseWriter(j) \/ RedisFails(j)  PROVE ExposesNone
  <2>1. writeFaults' = writeFaults /\ jsonl' \in {jsonl, Flushed(jsonl, task[j].held)}
    BY <1>6 DEF CloseWriter, RedisFails
  <2> QED  BY <1>1, <1>2, <2>1, FlushedShape DEF ExposesNone
<1>7. ASSUME Crash  PROVE ExposesNone \/ ExposesTwo
  <2>1. writeFaults' = writeFaults + 1
    BY <1>7 DEF Crash
  <2>2. CASE UNCHANGED jsonl
    BY <2>1, <2>2 DEF ExposesNone
  <2>3. CASE ~UNCHANGED jsonl
    <3>1. PICK j \in Jobs :
              /\ task[j].pc = "parse"
              /\ jsonl' \in AppendedInPart(Flushed(jsonl, task[j].held), File(j))
      BY <1>7, <2>3 DEF Crash, TaskAt
    <3>2. PICK t : t = Flushed(jsonl, task[j].held)
      OBVIOUS
    <3>3. t \in Seq(Records) /\ Exposed(t) \subseteq Exposed(jsonl)
      BY <1>1, <1>2, <3>2, FlushedShape
    <3>4. PICK d \in Docs : d = File(j)
      BY <1>1, <3>1
    <3>5. PICK how \in Torn : jsonl' = Added(t, d, how)
      BY <3>1, <3>2, <3>4 DEF AppendedInPart
    <3>6. Len(t) \in Nat /\ Exposed(jsonl') \subseteq Exposed(t) \cup {Len(t) + 1, Len(t) + 2}
      BY <3>3, <3>5, TornShape
    <3> QED  BY <2>1, <3>3, <3>6 DEF ExposesTwo
  <2> QED  BY <2>2, <2>3
<1>8. ASSUME NEW j \in Jobs,
             StartUpload(j) \/ StartReingest(j) \/ CancelReads(j) \/ CancelWrites(j)
      PROVE  UNCHANGED <<jsonl, writeFaults>>
  BY <1>8 DEF StartUpload, StartReingest, CancelReads, CancelWrites
<1>9. ASSUME NEW j \in Jobs,
             \/ TakeFile(j) \/ BeginStage2(j) \/ ReadLine(j) \/ ReadFails(j)
             \/ (\E ok \in BOOLEAN : IngestLine(j, ok)) \/ Conclude(j) \/ Finish(j)
      PROVE  UNCHANGED <<jsonl, writeFaults>>
  BY <1>9 DEF TakeFile, BeginStage2, ReadLine, ReadFails, IngestLine, Conclude, Finish
<1>10. CASE UNCHANGED fileVars
  BY <1>3, <1>10 DEF fileVars
<1> QED  BY <1>3, <1>4, <1>5, <1>6, <1>7, <1>8, <1>9, <1>10 DEF FileNext, TaskStep

LEMMA ExposedStep ==
    ASSUME FileTypeOK, \A j \in Jobs : JobOK(j), ExposedInv, [FileNext]_fileVars
    PROVE  ExposedInv'
<1> DEFINE was == Exposed(jsonl)
           now == Exposed(jsonl')
<1>1. /\ writeFaults \in Nat /\ IsFiniteSet(was) /\ Cardinality(was) \in Nat
      /\ Cardinality(was) <= 2 * writeFaults
  BY FS_CardinalityType, FileAssumption DEF FileTypeOK, ExposedInv
<1>2. SUFFICES IsFiniteSet(now) /\ Cardinality(now) <= 2 * writeFaults'
  BY DEF ExposedInv
<1> HIDE DEF was, now
<1>3. CASE ExposesNone
  <2>1. now \subseteq was /\ writeFaults' \in {writeFaults, writeFaults + 1}
    BY <1>3 DEF ExposesNone, was, now
  <2>2. IsFiniteSet(now) /\ Cardinality(now) <= Cardinality(was)
    BY <1>1, <2>1, FS_Subset
  <2>3. Cardinality(now) \in Nat
    BY <2>2, FS_CardinalityType
  <2> QED  BY <1>1, <2>1, <2>2, <2>3
<1>4. CASE ExposesTwo
  <2>1. PICK l \in Nat : now \subseteq was \cup {l + 1, l + 2}
    BY <1>4 DEF ExposesTwo, was, now
  <2> DEFINE one == was \cup {l + 1}
             two == one \cup {l + 2}
  <2>2. /\ IsFiniteSet(one) /\ Cardinality(one) \in Nat
        /\ Cardinality(one) <= Cardinality(was) + 1
    <3>1. /\ IsFiniteSet(one)
          /\ Cardinality(one) = IF l + 1 \in was THEN Cardinality(was) ELSE Cardinality(was) + 1
      BY <1>1, FS_AddElement
    <3> QED  BY <1>1, <3>1, FS_CardinalityType
  <2>3. now \subseteq two
    BY <2>1
  <2> HIDE DEF one
  <2>4. /\ IsFiniteSet(two) /\ Cardinality(two) \in Nat
        /\ Cardinality(two) <= Cardinality(one) + 1
    <3>1. /\ IsFiniteSet(two)
          /\ Cardinality(two) = IF l + 2 \in one THEN Cardinality(one) ELSE Cardinality(one) + 1
      BY <2>2, FS_AddElement
    <3> QED  BY <2>2, <3>1, FS_CardinalityType
  <2> HIDE DEF two
  <2>5. IsFiniteSet(now) /\ Cardinality(now) <= Cardinality(two)
    BY <2>3, <2>4, FS_Subset
  <2>6. Cardinality(now) \in Nat
    BY <2>5, FS_CardinalityType
  <2>7. writeFaults' = writeFaults + 1
    BY <1>4 DEF ExposesTwo
  <2> QED  BY <1>1, <2>2, <2>4, <2>5, <2>6, <2>7
<1> QED  BY <1>3, <1>4, CheckpointMoves

LEMMA FileInvInit == FileInit => FileInv
<1> SUFFICES ASSUME FileInit  PROVE FileInv
  OBVIOUS
<1>1. jsonl = <<>> /\ \A j \in Jobs : /\ task[j] = NewTask /\ status[j] = "none"
                                      /\ extra[j] = 0
  BY DEF FileInit
<1>2. FileTypeOK
  <2>1. task \in [Jobs -> Tasks]
    BY FixedTasks DEF FileInit
  <2>2. /\ jsonl \in Seq(Records) /\ status \in [Jobs -> {"none", "processing"} \cup Results]
        /\ request \in [Jobs -> {"none", "read", "answered"}]
        /\ extra \in [Jobs -> Nat] /\ writeFaults \in 0 .. MaxWriteFaults
        /\ redisFaults \in 0 .. MaxRedisFaults
    BY FileAssumption DEF FileInit
  <2> QED  BY <2>1, <2>2 DEF FileTypeOK, Tasks
<1>3. ExposedInv
  <2>1. Exposed(jsonl) = {}
    BY <1>1 DEF Exposed, Unreadable, EndsTorn
  <2>2. writeFaults = 0
    BY DEF FileInit
  <2> QED  BY <2>1, <2>2, FS_EmptySet DEF ExposedInv
<1>4. \A j \in Jobs : JobOK(j)
  BY <1>1, FixedTasks
     DEF JobOK, StageOf, StopOf, AccountOf, FilesKnown, AllTaken, Gathered,
         EndAccounted, Through
<1> QED  BY <1>2, <1>3, <1>4 DEF FileInv

LEMMA FileInvStep ==
    ASSUME FileInv, [FileNext]_fileVars
    PROVE  FileInv' /\ Grown
<1>1. FileTypeOK /\ ExposedInv /\ \A j \in Jobs : JobOK(j)
  BY DEF FileInv
<1>2. ExposedInv'
  BY <1>1, ExposedStep
<1>3. ASSUME NEW j \in Jobs, JobInOrder(j)
      PROVE  FileTypeOK' /\ Grown /\ \A i \in Jobs : JobOK(i)'
  <2>1. ASSUME NEW i \in Jobs, i # j  PROVE JobOK(i)'
    BY <1>1, <1>3, <2>1, SameTasks, OtherJobs DEF JobInOrder
  <2> QED  BY <1>3, <2>1 DEF JobInOrder
<1>4. CASE UNCHANGED fileVars
  <2>1. FileTypeOK' /\ Grown
    BY <1>1, <1>4, SameGrown DEF FileTypeOK, fileVars
  <2>2. \A j \in Jobs : JobOK(j)'
    BY <1>1, <1>4, <2>1, SameTasks, OtherJobs DEF fileVars
  <2> QED  BY <1>2, <2>1, <2>2 DEF FileInv
<1>5. CASE Crash
  BY <1>1, <1>2, <1>5, CrashStep DEF FileInv
<1>6. ASSUME NEW j \in Jobs,
             \/ StartUpload(j) \/ StartReingest(j) \/ TaskStep(j) \/ RedisFails(j)
             \/ CancelReads(j) \/ CancelWrites(j)
      PROVE  JobInOrder(j)
  <2>1. CASE TaskStep(j)
    BY <1>1, <2>1, TakeFileStep, ParseStep, WriteFailsStep, CloseWriterStep,
       BeginStage2Step, ReadLineStep, ReadFailsStep, IngestLineStep, ConcludeStep, FinishStep
       DEF TaskStep
  <2> QED  BY <1>1, <1>6, <2>1, StartUploadStep, StartReingestStep, RedisFailsStep,
              CancelReadsStep, CancelWritesStep
<1> QED  BY <1>2, <1>3, <1>4, <1>5, <1>6 DEF FileNext, FileInv

\* The inductive invariant of the file jobs (_process_files,
\* reingest_from_jsonl, JsonlCheckpointWriter, cancel_job).
THEOREM FileInvariant == FileSpec => []FileInv
<1>1. FileInv /\ [FileNext]_fileVars => FileInv'
  BY FileInvStep
<1> QED  BY FileInvInit, <1>1, PTL DEF FileSpec

\* Every reachable state of the file jobs is type correct.
THEOREM FileTypeCorrect == FileSpec => []FileTypeOK
<1>1. FileInv => FileTypeOK
  BY DEF FileInv
<1> QED  BY FileInvariant, <1>1, PTL

\* A completed upload has handed on every file of it or listed it among its
\* errors, except where a death or a failed write made its record unreadable
\* (_stage1_parse_to_jsonl 138-188, _stage2_ingest_from_jsonl 208-232).
THEOREM UploadsAccounted == FileSpec => []FilesAccounted
<1>1. FileInv => FilesAccounted
  <2> SUFFICES ASSUME FileInv, NEW j \in Jobs, IsUpload(j), status[j] = "completed",
                      NEW d \in Range(FilesOf[j])
               PROVE  \/ d \in task[j].handed \cup task[j].errors
                      \/ \E r \in Range(jsonl) : r.doc = d /\ ~Readable(r)
    BY DEF FilesAccounted
  <2>1. Accounted(j) /\ DOMAIN jsonl = 1 .. Len(jsonl)
    BY FileTypes DEF FileInv, JobOK, AccountOf, EndAccounted, Through
  <2> QED  BY <2>1 DEF Accounted, Lost, Readable, Range
<1> QED  BY FileInvariant, <1>1, PTL

\* At most two records cannot be read for each death of the process and each failed
\* write, however many jobs write, fail and die in turn (JsonlCheckpointWriter 204-216).
THEOREM FaultLosesTwo == FileSpec => []LossPerFault
<1>1. FileInv => LossPerFault
  <2> SUFFICES ASSUME FileInv  PROVE LossPerFault
    OBVIOUS
  <2>1. /\ IsFiniteSet(Exposed(jsonl)) /\ Cardinality(Exposed(jsonl)) <= 2 * writeFaults
        /\ writeFaults \in Nat
    BY FileAssumption DEF FileInv, ExposedInv, FileTypeOK
  <2>2. Unreadable(jsonl) \subseteq Exposed(jsonl)
    BY DEF Exposed
  <2>3. /\ IsFiniteSet(Unreadable(jsonl))
        /\ Cardinality(Unreadable(jsonl)) <= Cardinality(Exposed(jsonl))
    BY <2>1, <2>2, FS_Subset
  <2>4. Cardinality(Unreadable(jsonl)) \in Nat /\ Cardinality(Exposed(jsonl)) \in Nat
    BY <2>1, <2>3, FS_CardinalityType
  <2> QED  BY <2>1, <2>3, <2>4 DEF LossPerFault, Unreadable
<1> QED  BY FileInvariant, <1>1, PTL

\* After its cancellation a job hands on no other document than the one it was
\* at (is_cancelled 105-109, _stage2_ingest_from_jsonl 209-211).
THEOREM CancellationStops == FileSpec => []CancelStopsSoon
<1>1. FileInv => CancelStopsSoon
  <2>1. ASSUME FileInv, NEW j \in Jobs  PROVE extra[j] \in Nat /\ extra[j] <= 1
    <3>1. extra[j] \in Nat
      BY <2>1 DEF FileInv, FileTypeOK
    <3>2. extra[j] # 0 => extra[j] = 1
      BY <2>1 DEF FileInv, JobOK, StopOf
    <3> QED  BY <3>1, <3>2
  <2> QED  BY <2>1 DEF CancelStopsSoon
<1> QED  BY FileInvariant, <1>1, PTL

\* A record keeps its place and its document, a whole one stays so, and one that
\* shares its line with another is lost for good: only the writer that was cut
\* completes a torn record, nothing repairs a line (JsonlCheckpointWriter 199-216).
THEOREM RecordsStay == FileSpec => [][Grown]_fileVars
<1>1. FileInv /\ [FileNext]_fileVars => [Grown]_fileVars
  BY FileInvStep
<1> QED  BY FileInvariant, <1>1, PTL DEF FileSpec

---------------------------------------------------------------------------
(* PART THREE: the caches of answers                                       *)
(* The invariant of the answer caches                                      *)

\* The search has made its answer: what it was asked and had seen is fixed.
HasMade(s) == search[s].pc \in {"set l2", "set legacy", "ended"}
UnderWay(s) == search[s].pc \in {"generate", "set l2", "set legacy"}

FitsUnder(by, key) == by # None => HasMade(by) /\ StoredKey(by) = key
FitsLegacy(by, key) == by # None => HasMade(by) /\ LegacyKey(StoredKey(by)) = key
FitsAsked(by, key) ==
    /\ by # None /\ HasMade(by) /\ StoredKey(by) \in Keys
    /\ Kbs(StoredKey(by)) = Kbs(key)
    /\ <<key.query, StoredKey(by).query>> \in Similar

\* Every entry lies where its search stored it, a search has a hit only when it was
\* answered or is about to be, and one under way has bases that were worked out.
FitInv ==
    /\ \A w \in Workers, key \in Keys : FitsUnder(l1[w][key].by, key)
    /\ \A key \in Keys : FitsUnder(l2[key].by, key)
    /\ \A key \in LegacyKeys : FitsLegacy(legacy[key].by, key)
    /\ \A s \in Ids :
           /\ search[s].pc = "promote" => FitsAsked(search[s].hit, Key(s))
           /\ search[s].pc \notin {"promote", "ended"} => search[s].hit = None
           /\ UnderWay(s) => search[s].cols \in Resolutions(search[s].req)

Covers(s, revs) == s \in overlapped \/ \A kb \in KBs : revs[kb] <= search[s].seen[kb]

\* Between its scan and its deletion an ingestion has everything that is older than
\* it among the keys it found or the searches it overlapped.
StaleInv ==
    /\ \A kb \in KBs : cleared[kb] <= rev[kb]
    /\ \A s \in Ids : UnderWay(s) => Covers(s, cleared)
    /\ \A key \in LegacyKeys : legacy[key].by # None => Covers(legacy[key].by, cleared)
    /\ ingest.pc = "delete" =>
           /\ \A s \in Ids : UnderWay(s) => Covers(s, rev)
           /\ \A key \in LegacyKeys \ ingest.found :
                  legacy[key].by # None => Covers(legacy[key].by, rev)

CacheInv == CacheTypeOK /\ FitInv /\ StaleInv

---------------------------------------------------------------------------
(* Keys and types                                                          *)

Cols == {<<>>} \cup UNION {Resolutions(r) : r \in Requests}
Searches == [pc : Steps, req : Requests, on : Workers, seen : Seen, cols : Cols,
             hit : Ids \cup {None}]

LEMMA KeyFacts ==
    /\ \A r \in Requests : /\ Looked(r) \in Keys
                           /\ \A cols \in Resolutions(r) :
                                  cols \in Cols /\ Worked(r, cols) \in Keys
    /\ \A key \in Keys : /\ LegacyKey(key) \in LegacyKeys
                         /\ <<key.query, key.query>> \in Similar
    /\ \A key \in LegacyKeys : key.kbs \subseteq KBs
<1>1. \A r \in Requests : /\ Looked(r) \in Keys
                          /\ \A cols \in Resolutions(r) :
                                 cols \in Cols /\ Worked(r, cols) \in Keys
  BY DEF Keys, Cols
<1>2. \A key \in Keys : LegacyKey(key) \in LegacyKeys /\ LegacyKey(key).kbs \subseteq KBs
  BY CacheAssumption DEF LegacyKeys, LegacyKey
<1>3. \A key \in LegacyKeys : key.kbs \subseteq KBs
  BY <1>2 DEF LegacyKeys
<1> QED  BY <1>1, <1>2, <1>3, CacheAssumption

\* What a request is looked up under.
LEMMA LookedFacts ==
    ASSUME NEW r
    PROVE  /\ Looked(r).query = r.query
           /\ Kbs(Looked(r)) = IF r.kbs # <<>> THEN Range(r.kbs) ELSE {General}
<1>1. Range(<<General>>) = {General}
  BY DEF Range
<1>2. /\ Looked(r).query = r.query
      /\ Looked(r).kbs = IF r.kbs # <<>> THEN r.kbs ELSE <<General>>
  BY DEF Looked
<1> QED  BY <1>1, <1>2 DEF Kbs

\* Two requests of one key in the legacy cache ask the same.
LEMMA SameLegacyKey ==
    ASSUME NEW k, NEW m, LegacyKey(k) = LegacyKey(m)
    PROVE  k.query = m.query /\ Kbs(k) = Kbs(m)
<1>1. /\ LegacyKey(k).query = k.query /\ LegacyKey(k).kbs = Kbs(k)
      /\ LegacyKey(m).query = m.query /\ LegacyKey(m).kbs = Kbs(m)
  BY DEF LegacyKey
<1> QED  BY <1>1

LEMMA CacheTypes ==
    ASSUME CacheTypeOK
    PROVE  /\ search \in [Ids -> Searches]
           /\ \A s \in Ids : search[s].req \in Requests
           /\ \A s \in Ids : s # None /\ s \in Nat
           /\ None \notin Ids
           /\ \A w \in Workers, key \in Keys : l1[w][key].by \in Ids \cup {None}
           /\ \A key \in Keys : l2[key].by \in Ids \cup {None}
           /\ \A key \in LegacyKeys : legacy[key].by \in Ids \cup {None}
           /\ \A kb \in KBs : rev[kb] \in Nat /\ cleared[kb] \in Nat
           /\ \A s \in Ids, kb \in KBs : search[s].seen[kb] \in Nat
<1>1. search \in [Ids -> Searches]
  BY DEF CacheTypeOK, Searches, Cols
<1>2. \A s \in Ids : search[s].req \in Requests /\ search[s].seen \in Seen
  BY <1>1 DEF Searches
<1>3. \A s \in Ids : search[s].req \in Requests
  BY <1>2
<1>4. None \notin Ids /\ \A s \in Ids : s # None /\ s \in Nat
  BY CacheAssumption DEF Ids, None
<1>5. \A e \in Entries : e.by \in Ids \cup {None}
  BY DEF Entries
<1>6. /\ \A w \in Workers, key \in Keys : l1[w][key] \in Entries
      /\ \A key \in Keys : l2[key] \in Entries
      /\ \A key \in LegacyKeys : legacy[key] \in Entries
  BY DEF CacheTypeOK
<1>7. \A f \in Seen, kb \in KBs : f[kb] \in Nat
  BY CacheAssumption DEF Seen
<1>8. rev \in Seen /\ cleared \in Seen
  BY DEF CacheTypeOK
<1> QED  BY <1>1, <1>2, <1>3, <1>4, <1>5, <1>6, <1>7, <1>8

LEMMA EntryFacts ==
    /\ Empty \in Entries /\ Empty.by = None
    /\ \A s \in Ids : /\ [by |-> s, left |-> L1Ttl] \in Entries
                      /\ [by |-> s, left |-> L2Ttl] \in Entries
                      /\ [by |-> s, left |-> L1Ttl].by = s
                      /\ [by |-> s, left |-> L2Ttl].by = s
    /\ \A e \in Entries : Older(e) \in Entries /\ Older(e).by \in {None, e.by}
<1>1. /\ L1Ttl \in Nat /\ L2Ttl \in Nat /\ 0 \in 0 .. L1Ttl + L2Ttl
      /\ L1Ttl \in 0 .. L1Ttl + L2Ttl /\ L2Ttl \in 0 .. L1Ttl + L2Ttl
  BY CacheAssumption
<1>2. Empty \in Entries /\ Empty.by = None
  BY <1>1 DEF Empty, Entries
<1>3. \A s \in Ids : /\ [by |-> s, left |-> L1Ttl] \in Entries
                     /\ [by |-> s, left |-> L2Ttl] \in Entries
  BY <1>1 DEF Entries
<1>4. ASSUME NEW e \in Entries  PROVE Older(e) \in Entries /\ Older(e).by \in {None, e.by}
  <2>1. CASE e.left <= 1
    BY <1>2, <2>1 DEF Older
  <2>2. CASE ~(e.left <= 1)
    <3>1. e.left - 1 \in 0 .. L1Ttl + L2Ttl
      BY <1>1, <2>2 DEF Entries
    <3>2. [e EXCEPT !.left = @ - 1] \in Entries /\ [e EXCEPT !.left = @ - 1].by = e.by
      BY <3>1 DEF Entries
    <3> QED  BY <2>2, <3>2 DEF Older
  <2> QED  BY <2>1, <2>2
<1> QED  BY <1>2, <1>3, <1>4

---------------------------------------------------------------------------
(* What a step keeps                                                       *)

\* An answer that is in a cache, or is about to be served, is not forgotten.
LEMMA InUse ==
    /\ \A w \in Workers, key \in Keys : ~Forgotten(l1[w][key].by)
    /\ \A key \in Keys : ~Forgotten(l2[key].by)
    /\ \A key \in LegacyKeys : ~Forgotten(legacy[key].by)
    /\ \A t \in Ids : search[t].pc = "promote" => ~Forgotten(search[t].hit)
    /\ \A s : UnderWay(s) => ~Forgotten(s)
BY DEF Forgotten, SearchAt, UnderWay

\* What a search has made its answer of does not change while that is in use.
Stays ==
    \A s \in Ids : HasMade(s) /\ ~Forgotten(s) =>
        /\ HasMade(s)' /\ StoredKey(s)' = StoredKey(s)
        /\ search'[s].seen = search[s].seen

L1Kept ==
    \A w \in Workers, key \in Keys :
        \/ l1'[w][key].by \in {None, l1[w][key].by}
        \/ \E s \in Ids : l1'[w][key].by = s /\ FitsUnder(s, key)'
L2Kept ==
    \A key \in Keys :
        \/ l2'[key].by \in {None, l2[key].by}
        \/ \E s \in Ids : l2'[key].by = s /\ FitsUnder(s, key)'
LegacyKept ==
    \A key \in LegacyKeys :
        \/ legacy'[key].by \in {None, legacy[key].by}
        \/ \E s \in Ids : legacy'[key].by = s /\ FitsLegacy(s, key)'
HitFits(s) ==
    /\ search'[s].pc = "promote" =>
           \E by \in Ids : /\ search'[s].hit = by
                           /\ \E r \in Requests : /\ search'[s].req = r
                                                  /\ FitsAsked(by, Looked(r))'
    /\ search'[s].pc \notin {"promote", "ended"} => search'[s].hit = None
    /\ UnderWay(s)' => search'[s].cols \in Resolutions(search'[s].req)
HitsFit == \A s \in Ids : HitFits(s)

LEMMA FitStays ==
    ASSUME CacheTypeOK, FitInv, Stays, L1Kept, L2Kept, LegacyKept, HitsFit
    PROVE  FitInv'
<1>1. ASSUME NEW w \in Workers, NEW key \in Keys, l1'[w][key].by # None
      PROVE  \E s \in Ids : l1'[w][key].by = s /\ HasMade(s)' /\ StoredKey(s)' = key
  <2>1. CASE l1'[w][key].by = l1[w][key].by
    <3>1. PICK s \in Ids : s = l1[w][key].by
      BY <1>1, <2>1, CacheTypes
    <3>2. FitsUnder(s, key) /\ ~Forgotten(s)
      BY <3>1, InUse DEF FitInv
    <3> QED  BY <1>1, <2>1, <3>1, <3>2, CacheTypes DEF FitsUnder, Stays
  <2>2. CASE \E s \in Ids : l1'[w][key].by = s /\ FitsUnder(s, key)'
    BY <1>1, <2>2, CacheTypes DEF FitsUnder
  <2> QED  BY <1>1, <2>1, <2>2 DEF L1Kept
<1>2. ASSUME NEW key \in Keys, l2'[key].by # None
      PROVE  \E s \in Ids : l2'[key].by = s /\ HasMade(s)' /\ StoredKey(s)' = key
  <2>1. CASE l2'[key].by = l2[key].by
    <3>1. PICK s \in Ids : s = l2[key].by
      BY <1>2, <2>1, CacheTypes
    <3>2. FitsUnder(s, key) /\ ~Forgotten(s)
      BY <3>1, InUse DEF FitInv
    <3> QED  BY <1>2, <2>1, <3>1, <3>2, CacheTypes DEF FitsUnder, Stays
  <2>2. CASE \E s \in Ids : l2'[key].by = s /\ FitsUnder(s, key)'
    BY <1>2, <2>2, CacheTypes DEF FitsUnder
  <2> QED  BY <1>2, <2>1, <2>2 DEF L2Kept
<1>3. ASSUME NEW key \in LegacyKeys, legacy'[key].by # None
      PROVE  \E s \in Ids : /\ legacy'[key].by = s /\ HasMade(s)'
                            /\ LegacyKey(StoredKey(s)') = key
  <2>1. CASE legacy'[key].by = legacy[key].by
    <3>1. PICK s \in Ids : s = legacy[key].by
      BY <1>3, <2>1, CacheTypes
    <3>2. FitsLegacy(s, key) /\ ~Forgotten(s)
      BY <3>1, InUse DEF FitInv
    <3> QED  BY <1>3, <2>1, <3>1, <3>2, CacheTypes DEF FitsLegacy, Stays
  <2>2. CASE \E s \in Ids : legacy'[key].by = s /\ FitsLegacy(s, key)'
    BY <1>3, <2>2, CacheTypes DEF FitsLegacy, LegacyKey
  <2> QED  BY <1>3, <2>1, <2>2 DEF LegacyKept
<1>4. ASSUME NEW s \in Ids
      PROVE  /\ search'[s].pc = "promote" => FitsAsked(search[s].hit, Key(s))'
             /\ search'[s].pc \notin {"promote", "ended"} => search'[s].hit = None
             /\ UnderWay(s)' => search'[s].cols \in Resolutions(search'[s].req)
  BY DEF HitsFit, HitFits, FitsAsked, Key, HasMade, StoredKey
<1>5. ASSUME NEW w \in Workers, NEW key \in Keys  PROVE FitsUnder(l1[w][key].by, key)'
  <2>1. PICK by : by = l1'[w][key].by
    OBVIOUS
  <2>2. by # None => HasMade(by)' /\ StoredKey(by)' = key
    BY <1>1, <2>1
  <2> QED  BY <2>1, <2>2 DEF FitsUnder, HasMade, StoredKey
<1>6. \A key \in Keys : FitsUnder(l2[key].by, key)'
  BY <1>2 DEF FitsUnder, HasMade, StoredKey
<1>7. \A key \in LegacyKeys : FitsLegacy(legacy[key].by, key)'
  BY <1>3 DEF FitsLegacy, LegacyKey, HasMade, StoredKey
<1> QED  BY <1>4, <1>5, <1>6, <1>7 DEF FitInv

\* The searches under way have seen what they had, or what there is now.
SeenKeeps(s) ==
    UnderWay(s)' => \/ UnderWay(s) /\ search'[s].seen = search[s].seen
                    \/ search'[s].seen = rev
SeenKept == \A s \in Ids : SeenKeeps(s)
LegacyFrom ==
    \A key \in LegacyKeys :
        \/ legacy'[key].by \in {None, legacy[key].by}
        \/ \E s \in Ids : /\ legacy'[key].by = s /\ UnderWay(s)
                          /\ search'[s].seen = search[s].seen

\* What the ingestion has is kept, but for an overlap of a search that is forgotten.
IngestionKept ==
    /\ UNCHANGED <<rev, ingest, cleared>> /\ overlapped' \subseteq overlapped
    /\ \A t \in overlapped : Forgotten(t) \/ t \in overlapped'

LEMMA StaleStays ==
    ASSUME CacheTypeOK, FitInv, StaleInv, Stays, SeenKept, LegacyFrom, IngestionKept
    PROVE  StaleInv'
<1>1. /\ UNCHANGED <<rev, cleared, ingest>>
      /\ \A t \in overlapped : Forgotten(t) \/ t \in overlapped'
      /\ \A kb \in KBs : cleared[kb] <= rev[kb] /\ rev[kb] \in Nat
  BY CacheTypes DEF IngestionKept, StaleInv
<1>2. ASSUME NEW s \in Ids, UnderWay(s)'
      PROVE  Covers(s, cleared)' /\ (ingest.pc = "delete" => Covers(s, rev)')
  <2>1. CASE UnderWay(s) /\ search'[s].seen = search[s].seen
    BY <1>1, <2>1, InUse DEF StaleInv, Covers
  <2>2. CASE search'[s].seen = rev
    BY <1>1, <2>2 DEF Covers
  <2> QED  BY <1>2, <2>1, <2>2 DEF SeenKept, SeenKeeps
<1>3. ASSUME NEW key \in LegacyKeys, legacy'[key].by # None
      PROVE  \E s \in Ids :
                 /\ legacy'[key].by = s /\ Covers(s, cleared)'
                 /\ (ingest.pc = "delete" /\ key \notin ingest.found) => Covers(s, rev)'
  <2>1. CASE legacy'[key].by = legacy[key].by
    <3>1. PICK s \in Ids : s = legacy[key].by
      BY <1>3, <2>1, CacheTypes
    <3>2. HasMade(s) /\ s # None /\ ~Forgotten(s)
      BY <3>1, CacheTypes, InUse DEF FitInv, FitsLegacy
    <3>3. search'[s].seen = search[s].seen
      BY <3>2 DEF Stays
    <3> QED  BY <1>1, <2>1, <3>1, <3>2, <3>3 DEF StaleInv, Covers
  <2>2. CASE \E s \in Ids : /\ legacy'[key].by = s /\ UnderWay(s)
                            /\ search'[s].seen = search[s].seen
    BY <1>1, <2>2, InUse DEF StaleInv, Covers
  <2> QED  BY <1>3, <2>1, <2>2 DEF LegacyFrom
<1>4. \A key \in LegacyKeys : legacy'[key].by # None =>
          /\ Covers(legacy[key].by, cleared)'
          /\ (ingest.pc = "delete" /\ key \notin ingest.found)
                 => Covers(legacy[key].by, rev)'
  BY <1>3 DEF Covers
<1> QED  BY <1>1, <1>2, <1>4 DEF StaleInv

---------------------------------------------------------------------------
(* One search moves                                                        *)

\* What AnswerFits says of one search.
AnsweredFits(s) ==
    Answered(s) =>
        LET key == Looked(search'[s].req)
            made == StoredKey(search'[s].hit)
        IN  /\ Kbs(made) = Kbs(key)
            /\ <<key.query, made.query>> \in Similar

OnlyMoves(s) ==
    /\ search' \in [Ids -> Searches]
    /\ \A t \in Ids \ {s} : search'[t] = search[t]
    /\ HasMade(s) /\ ~Forgotten(s) =>
           /\ HasMade(s)' /\ search'[s].req = search[s].req
           /\ search'[s].cols = search[s].cols /\ search'[s].seen = search[s].seen

LEMMA OneSearchMoves ==
    ASSUME CacheTypeOK, NEW s \in Ids, NEW d \in Searches,
           search' = [search EXCEPT ![s] = d]
    PROVE  /\ search' \in [Ids -> Searches] /\ search'[s] = d
           /\ \A t \in Ids \ {s} : search'[t] = search[t]
BY CacheTypes

LEMMA SearchGoesOn ==
    ASSUME CacheTypeOK, NEW s \in Ids, NEW step \in Steps, SearchGoes(s, step)
    PROVE  /\ search' \in [Ids -> Searches]
           /\ \A t \in Ids \ {s} : search'[t] = search[t]
           /\ search'[s].pc = step /\ search'[s].req = search[s].req
           /\ search'[s].seen = search[s].seen /\ search'[s].hit = search[s].hit
           /\ search'[s].cols = search[s].cols
<1> DEFINE d == [search[s] EXCEPT !.pc = step]
<1>1. search[s] \in Searches /\ search \in [Ids -> Searches]
  BY CacheTypes
<1>2. /\ d \in Searches /\ d.pc = step /\ d.req = search[s].req
      /\ d.seen = search[s].seen /\ d.hit = search[s].hit /\ d.cols = search[s].cols
  BY <1>1 DEF Searches
<1>3. search' = [search EXCEPT ![s] = d]
  BY <1>1 DEF SearchGoes
<1> HIDE DEF d
<1> QED  BY <1>2, <1>3, OneSearchMoves

LEMMA SearchServed ==
    ASSUME CacheTypeOK, NEW s \in Ids, NEW by \in Ids, Serve(s, by)
    PROVE  /\ search' \in [Ids -> Searches]
           /\ \A t \in Ids \ {s} : search'[t] = search[t]
           /\ search'[s].pc = "ended" /\ search'[s].req = search[s].req
           /\ search'[s].seen = search[s].seen /\ search'[s].hit = by
<1> DEFINE d == [search[s] EXCEPT !.pc = "ended", !.hit = by]
<1>1. search[s] \in Searches /\ search \in [Ids -> Searches] /\ "ended" \in Steps
  BY CacheTypes DEF Steps
<1>2. /\ d \in Searches /\ d.pc = "ended" /\ d.req = search[s].req
      /\ d.seen = search[s].seen /\ d.hit = by
  BY <1>1 DEF Searches
<1>3. search' = [search EXCEPT ![s] = d]
  BY <1>1 DEF Serve
<1> HIDE DEF d
<1> QED  BY <1>2, <1>3, OneSearchMoves

LEMMA OthersKeep ==
    ASSUME CacheTypeOK, FitInv, NEW s \in Ids, OnlyMoves(s),
           HitFits(s), SeenKeeps(s), AnsweredFits(s)
    PROVE  Stays /\ HitsFit /\ SeenKept /\ \A t \in Ids : AnsweredFits(t)
<1>1. Stays
  BY DEF Stays, OnlyMoves, HasMade, StoredKey
<1>2. ASSUME NEW t \in Ids \ {s}  PROVE HitFits(t)
  <2>1. search'[t] = search[t]
    BY DEF OnlyMoves
  <2>2. CASE search[t].pc = "promote"
    <3>1. /\ FitsAsked(search[t].hit, Key(t)) /\ search[t].hit \in Ids \cup {None}
          /\ ~Forgotten(search[t].hit)
      BY <2>2, CacheTypes, InUse DEF FitInv, Searches
    <3>2. PICK by \in Ids : search[t].hit = by
      BY <3>1 DEF FitsAsked
    <3>3. PICK r \in Requests : search[t].req = r
      BY CacheTypes
    <3>4. FitsAsked(by, Looked(r)) /\ ~Forgotten(by)
      BY <3>1, <3>2, <3>3 DEF Key
    <3>5. FitsAsked(by, Looked(r))'
      BY <1>1, <3>2, <3>4 DEF FitsAsked, Stays
    <3> QED  BY <2>1, <2>2, <3>2, <3>3, <3>5 DEF HitFits, UnderWay
  <2>3. CASE search[t].pc # "promote"
    BY <2>1, <2>3 DEF HitFits, FitInv, UnderWay
  <2> QED  BY <2>2, <2>3
<1>3. ASSUME NEW t \in Ids \ {s}  PROVE SeenKeeps(t) /\ AnsweredFits(t)
  <2>1. search'[t] = search[t]
    BY DEF OnlyMoves
  <2> QED  BY <2>1 DEF SeenKeeps, UnderWay, AnsweredFits, Answered
<1> QED  BY <1>1, <1>2, <1>3 DEF HitsFit, SeenKept

---------------------------------------------------------------------------
(* One entry is stored                                                     *)

LEMMA StoredInL1 ==
    ASSUME CacheTypeOK, NEW w \in Workers, NEW key \in Keys, NEW by \in Ids,
           l1' = [l1 EXCEPT ![w] = Store(@, key, by, L1Ttl)], FitsUnder(by, key)'
    PROVE  l1' \in [Workers -> [Keys -> Entries]] /\ L1Kept
<1> DEFINE e == [by |-> by, left |-> L1Ttl]
           c == [l1[w] EXCEPT ![key] = e]
<1>1. l1 \in [Workers -> [Keys -> Entries]] /\ l1[w] \in [Keys -> Entries]
  BY DEF CacheTypeOK
<1>2. e \in Entries /\ e.by = by
  BY EntryFacts
<1>3. l1' = [l1 EXCEPT ![w] = c]
  BY <1>1 DEF Store
<1> HIDE DEF e
<1>4. c \in [Keys -> Entries] /\ c[key] = e /\ \A k \in Keys \ {key} : c[k] = l1[w][k]
  BY <1>1, <1>2
<1> HIDE DEF c
<1>5. /\ l1' \in [Workers -> [Keys -> Entries]] /\ l1'[w] = c
      /\ \A v \in Workers \ {w} : l1'[v] = l1[v]
  BY <1>1, <1>3, <1>4
<1>6. ASSUME NEW v \in Workers, NEW k \in Keys
      PROVE  \/ l1'[v][k].by = l1[v][k].by
             \/ l1'[v][k].by = by /\ k = key
  <2>1. CASE v = w /\ k = key
    BY <1>2, <1>4, <1>5, <2>1
  <2>2. CASE ~(v = w /\ k = key)
    BY <1>4, <1>5, <2>2
  <2> QED  BY <2>1, <2>2
<1> QED  BY <1>5, <1>6 DEF L1Kept

LEMMA StoredInL2 ==
    ASSUME CacheTypeOK, NEW key \in Keys, NEW by \in Ids,
           l2' = Store(l2, key, by, L2Ttl), FitsUnder(by, key)'
    PROVE  l2' \in [Keys -> Entries] /\ L2Kept
<1> DEFINE e == [by |-> by, left |-> L2Ttl]
<1>1. l2 \in [Keys -> Entries]
  BY DEF CacheTypeOK
<1>2. e \in Entries /\ e.by = by
  BY EntryFacts
<1>3. l2' = [l2 EXCEPT ![key] = e]
  BY DEF Store
<1> HIDE DEF e
<1>4. /\ l2' \in [Keys -> Entries] /\ l2'[key] = e
      /\ \A k \in Keys \ {key} : l2'[k] = l2[k]
  BY <1>1, <1>2, <1>3
<1> QED  BY <1>2, <1>4 DEF L2Kept

LEMMA StoredInLegacy ==
    ASSUME CacheTypeOK, NEW key \in LegacyKeys, NEW by \in Ids, UnderWay(by),
           legacy' = Store(legacy, key, by, L2Ttl), FitsLegacy(by, key)',
           search'[by].seen = search[by].seen
    PROVE  legacy' \in [LegacyKeys -> Entries] /\ LegacyKept /\ LegacyFrom
<1> DEFINE e == [by |-> by, left |-> L2Ttl]
<1>1. legacy \in [LegacyKeys -> Entries]
  BY DEF CacheTypeOK
<1>2. e \in Entries /\ e.by = by
  BY EntryFacts
<1>3. legacy' = [legacy EXCEPT ![key] = e]
  BY DEF Store
<1> HIDE DEF e
<1>4. /\ legacy' \in [LegacyKeys -> Entries] /\ legacy'[key] = e
      /\ \A k \in LegacyKeys \ {key} : legacy'[k] = legacy[k]
  BY <1>1, <1>2, <1>3
<1> QED  BY <1>2, <1>4 DEF LegacyKept, LegacyFrom

LEMMA CachesSame ==
    /\ UNCHANGED l1 => L1Kept
    /\ UNCHANGED l2 => L2Kept
    /\ UNCHANGED legacy => LegacyKept /\ LegacyFrom
    /\ UNCHANGED ingestion => IngestionKept
BY DEF L1Kept, L2Kept, LegacyKept, LegacyFrom, IngestionKept, ingestion

---------------------------------------------------------------------------
(* The steps of a search                                                   *)

\* What every step of a search does.
SearchStep(s) ==
    /\ CacheTypeOK' /\ IngestionKept
    /\ OnlyMoves(s) /\ HitFits(s) /\ SeenKeeps(s) /\ AnsweredFits(s)
    /\ L1Kept /\ L2Kept /\ LegacyKept /\ LegacyFrom

LEMMA SearchStepFits ==
    ASSUME CacheInv, NEW s \in Ids, SearchStep(s)
    PROVE  CacheInv' /\ \A t \in Ids : AnsweredFits(t)
<1>1. Stays /\ HitsFit /\ SeenKept /\ \A t \in Ids : AnsweredFits(t)
  BY OthersKeep DEF CacheInv, SearchStep
<1>2. FitInv'
  BY <1>1, FitStays DEF CacheInv, SearchStep
<1>3. StaleInv'
  BY <1>1, StaleStays DEF CacheInv, SearchStep
<1> QED  BY <1>1, <1>2, <1>3 DEF CacheInv, SearchStep

\* The types, when the ingestion is not concerned.
LEMMA SearchTyped ==
    ASSUME CacheTypeOK, IngestionKept, search' \in [Ids -> Searches],
           l1' \in [Workers -> [Keys -> Entries]], l2' \in [Keys -> Entries],
           legacy' \in [LegacyKeys -> Entries], redisErrors' \in 0 .. MaxRedisErrors
    PROVE  CacheTypeOK'
<1>1. UNCHANGED <<rev, cleared, ingest>> /\ overlapped' \subseteq Ids
  BY DEF IngestionKept, CacheTypeOK
<1> QED  BY <1>1 DEF CacheTypeOK, Searches, Cols, Seen, Ids, Steps, Keys, LegacyKeys, Entries

LEMMA LookInL1Step ==
    ASSUME CacheInv, NEW s \in Ids, LookInL1(s)
    PROVE  SearchStep(s)
<1>1. CacheTypeOK /\ FitInv
  BY DEF CacheInv
<1>2. /\ UNCHANGED <<l1, l2, legacy, rev, ingest, cleared, redisErrors>>
      /\ overlapped' = overlapped \ {s} /\ Forgotten(s)
  BY DEF LookInL1, caches
<1>3. PICK r \in Requests, w \in Workers :
          LET by == l1[w][Looked(r)].by
          IN  search' = [search EXCEPT ![s] =
                  [pc |-> IF by # None THEN "ended" ELSE "l2", req |-> r, on |-> w,
                   cols |-> <<>>, seen |-> NoRev, hit |-> by]]
  BY DEF LookInL1
<1>4. PICK by : by = l1[w][Looked(r)].by
  OBVIOUS
<1> DEFINE d == [pc |-> IF by # None THEN "ended" ELSE "l2", req |-> r, on |-> w,
                 cols |-> <<>>, seen |-> NoRev, hit |-> by]
<1>5. by \in Ids \cup {None} /\ Looked(r) \in Keys /\ FitsUnder(by, Looked(r))
  BY <1>1, <1>4, KeyFacts, CacheTypes DEF FitInv
<1>6. NoRev \in Seen
  BY CacheAssumption DEF NoRev, Seen
<1>7. /\ d \in Searches /\ d.req = r /\ d.hit = by
      /\ d.pc = IF by # None THEN "ended" ELSE "l2"
  BY <1>5, <1>6 DEF Searches, Steps, Cols
<1>8. search' = [search EXCEPT ![s] = d]
  BY <1>3, <1>4
<1> HIDE DEF d
<1>9. /\ search' \in [Ids -> Searches] /\ search'[s] = d
      /\ \A t \in Ids \ {s} : search'[t] = search[t]
  BY <1>1, <1>7, <1>8, OneSearchMoves
<1>10. OnlyMoves(s) /\ HitFits(s) /\ SeenKeeps(s)
  BY <1>2, <1>7, <1>9 DEF OnlyMoves, HitFits, SeenKeeps, UnderWay
<1>11. AnsweredFits(s)
  BY <1>5, <1>7, <1>9, KeyFacts DEF AnsweredFits, Answered, FitsUnder
<1>12. IngestionKept
  BY <1>2 DEF IngestionKept
<1>13. CacheTypeOK'
  BY <1>1, <1>2, <1>9, <1>12, SearchTyped DEF CacheTypeOK
<1> QED  BY <1>2, <1>10, <1>11, <1>12, <1>13, CachesSame DEF SearchStep

LEMMA LookInL2Step ==
    ASSUME CacheInv, NEW s \in Ids, LookInL2(s)
    PROVE  SearchStep(s)
<1>1. CacheTypeOK /\ FitInv /\ search[s].pc = "l2" /\ search[s].hit = None
  BY DEF CacheInv, LookInL2, SearchAt, FitInv
<1>2. UNCHANGED <<l1, l2, legacy, ingestion, redisErrors>>
  BY DEF LookInL2, caches
<1>3. CASE \E key \in Matches(s) :
               search' = [search EXCEPT ![s].pc = "promote", ![s].hit = l2[key].by]
  <2>1. PICK key \in Matches(s) :
                 search' = [search EXCEPT ![s].pc = "promote", ![s].hit = l2[key].by]
    BY <1>3
  <2>2. PICK by : by = l2[key].by
    OBVIOUS
  <2>3. PICK r \in Requests : r = search[s].req
    BY <1>1, CacheTypes
  <2>4. /\ key \in Keys /\ by # None /\ Kbs(key) = Kbs(Looked(r))
        /\ <<Looked(r).query, key.query>> \in Similar
    BY <2>2, <2>3 DEF Matches, Key
  <2>5. by \in Ids /\ FitsUnder(by, key)
    BY <1>1, <2>2, <2>4, CacheTypes DEF FitInv
  <2>6. FitsAsked(by, Looked(r))
    BY <2>4, <2>5 DEF FitsAsked, FitsUnder
  <2> DEFINE d == [search[s] EXCEPT !.pc = "promote", !.hit = by]
  <2>7. /\ d \in Searches /\ d.pc = "promote" /\ d.hit = by /\ d.req = r
    BY <1>1, <2>3, <2>5, CacheTypes DEF Searches, Steps
  <2>8. search' = [search EXCEPT ![s] = d]
    BY <1>1, <2>1, <2>2, CacheTypes
  <2> HIDE DEF d
  <2>9. /\ search' \in [Ids -> Searches] /\ search'[s] = d
        /\ \A t \in Ids \ {s} : search'[t] = search[t]
    BY <1>1, <2>7, <2>8, OneSearchMoves
  <2>10. FitsAsked(by, Looked(r))'
    <3>1. by # s
      BY <1>1, <2>6 DEF FitsAsked, HasMade
    <3> QED  BY <2>5, <2>6, <2>9, <3>1 DEF FitsAsked, HasMade, StoredKey
  <2>11. HitFits(s)
    BY <2>5, <2>7, <2>9, <2>10 DEF HitFits, UnderWay
  <2>12. OnlyMoves(s) /\ SeenKeeps(s) /\ AnsweredFits(s)
    BY <1>1, <2>7, <2>9 DEF OnlyMoves, SeenKeeps, HasMade, UnderWay, AnsweredFits, Answered
  <2>13. CacheTypeOK'
    BY <1>1, <1>2, <2>9, SearchTyped, CachesSame DEF CacheTypeOK
  <2> QED  BY <1>2, <2>11, <2>12, <2>13, CachesSame DEF SearchStep
<1>4. CASE SearchGoes(s, "legacy")
  <2>1. /\ search' \in [Ids -> Searches]
        /\ \A t \in Ids \ {s} : search'[t] = search[t]
        /\ search'[s].pc = "legacy" /\ search'[s].hit = search[s].hit
    BY <1>1, <1>4, SearchGoesOn DEF Steps
  <2>2. OnlyMoves(s) /\ HitFits(s) /\ SeenKeeps(s) /\ AnsweredFits(s)
    BY <1>1, <2>1
       DEF OnlyMoves, HitFits, SeenKeeps, HasMade, UnderWay, AnsweredFits, Answered
  <2>3. CacheTypeOK'
    BY <1>1, <1>2, <2>1, SearchTyped, CachesSame DEF CacheTypeOK
  <2> QED  BY <1>2, <2>2, <2>3, CachesSame DEF SearchStep
<1> QED  BY <1>3, <1>4 DEF LookInL2

LEMMA PromoteStep ==
    ASSUME CacheInv, NEW s \in Ids, Promote(s)
    PROVE  SearchStep(s)
<1>1. CacheTypeOK /\ FitInv /\ search[s].pc = "promote"
  BY DEF CacheInv, Promote, SearchAt
<1>2. UNCHANGED <<l2, legacy, ingestion, redisErrors>>
  BY DEF Promote
<1>3. /\ FitsAsked(search[s].hit, Key(s)) /\ search[s].hit \in Ids \cup {None}
      /\ ~Forgotten(search[s].hit)
      /\ search[s].on \in Workers /\ search[s].req \in Requests
  BY <1>1, CacheTypes, InUse DEF FitInv, Searches
<1>4. PICK by \in Ids : by = search[s].hit
  BY <1>3 DEF FitsAsked
<1>5. PICK w \in Workers, r \in Requests : w = search[s].on /\ r = search[s].req
  BY <1>3
<1>6. PICK key \in Keys : key = StoredKey(by)
  BY <1>3, <1>4 DEF FitsAsked
<1>7. l1' = [l1 EXCEPT ![w] = Store(@, key, by, L1Ttl)] /\ Serve(s, by)
  BY <1>4, <1>5, <1>6 DEF Promote
<1>8. FitsAsked(by, Looked(r)) /\ by # s
  BY <1>1, <1>3, <1>4, <1>5 DEF Key, FitsAsked, HasMade
<1>9. /\ search' \in [Ids -> Searches]
      /\ \A t \in Ids \ {s} : search'[t] = search[t]
      /\ search'[s].pc = "ended" /\ search'[s].req = r /\ search'[s].hit = by
  BY <1>1, <1>5, <1>7, SearchServed
<1>10. FitsUnder(by, key)'
  BY <1>6, <1>8, <1>9 DEF FitsUnder, FitsAsked, HasMade, StoredKey
<1>11. l1' \in [Workers -> [Keys -> Entries]] /\ L1Kept
  BY <1>1, <1>7, <1>10, StoredInL1
<1>12. OnlyMoves(s) /\ HitFits(s) /\ SeenKeeps(s)
  BY <1>1, <1>9 DEF OnlyMoves, HitFits, SeenKeeps, HasMade, UnderWay
<1>13. AnsweredFits(s)
  BY <1>8, <1>9 DEF AnsweredFits, FitsAsked
<1>14. CacheTypeOK'
  BY <1>1, <1>2, <1>9, <1>11, SearchTyped, CachesSame DEF CacheTypeOK
<1> QED  BY <1>2, <1>11, <1>12, <1>13, <1>14, CachesSame DEF SearchStep

LEMMA LookInLegacyStep ==
    ASSUME CacheInv, NEW s \in Ids, LookInLegacy(s)
    PROVE  SearchStep(s)
<1>1. CacheTypeOK /\ FitInv /\ search[s].pc = "legacy" /\ search[s].hit = None
  BY DEF CacheInv, LookInLegacy, SearchAt, FitInv
<1>2. UNCHANGED <<l1, l2, legacy, ingestion, redisErrors>>
  BY DEF LookInLegacy, caches
<1>3. PICK r \in Requests : r = search[s].req
  BY <1>1, CacheTypes
<1>4. PICK by : by = legacy[LegacyKey(Looked(r))].by
  OBVIOUS
<1>5. IF by # None THEN Serve(s, by) ELSE SearchGoes(s, "retrieve")
  BY <1>3, <1>4 DEF LookInLegacy, Key
<1>6. LegacyKey(Looked(r)) \in LegacyKeys
  BY KeyFacts
<1>7. by \in Ids \cup {None} /\ FitsLegacy(by, LegacyKey(Looked(r)))
  BY <1>1, <1>4, <1>6, CacheTypes DEF FitInv
<1>8. CASE by # None
  <2>1. by \in Ids /\ LegacyKey(StoredKey(by)) = LegacyKey(Looked(r))
    BY <1>7, <1>8 DEF FitsLegacy
  <2>2. PICK made : made = StoredKey(by)
    OBVIOUS
  <2>3. /\ made.query = Looked(r).query /\ Kbs(made) = Kbs(Looked(r))
        /\ <<Looked(r).query, made.query>> \in Similar
    BY <2>1, <2>2, SameLegacyKey, KeyFacts
  <2>4. /\ search' \in [Ids -> Searches]
        /\ \A t \in Ids \ {s} : search'[t] = search[t]
        /\ search'[s].pc = "ended" /\ search'[s].req = r /\ search'[s].hit = by
    BY <1>1, <1>3, <1>5, <1>8, <2>1, SearchServed
  <2>5. OnlyMoves(s) /\ HitFits(s) /\ SeenKeeps(s)
    BY <1>1, <2>4 DEF OnlyMoves, HitFits, SeenKeeps, HasMade, UnderWay
  <2>6. AnsweredFits(s)
    BY <2>2, <2>3, <2>4 DEF AnsweredFits
  <2>7. CacheTypeOK'
    BY <1>1, <1>2, <2>4, SearchTyped, CachesSame DEF CacheTypeOK
  <2> QED  BY <1>2, <2>5, <2>6, <2>7, CachesSame DEF SearchStep
<1>9. CASE by = None
  <2>1. /\ search' \in [Ids -> Searches]
        /\ \A t \in Ids \ {s} : search'[t] = search[t]
        /\ search'[s].pc = "retrieve" /\ search'[s].hit = search[s].hit
    BY <1>1, <1>5, <1>9, SearchGoesOn DEF Steps
  <2>2. OnlyMoves(s) /\ HitFits(s) /\ SeenKeeps(s) /\ AnsweredFits(s)
    BY <1>1, <2>1
       DEF OnlyMoves, HitFits, SeenKeeps, HasMade, UnderWay, AnsweredFits, Answered
  <2>3. CacheTypeOK'
    BY <1>1, <1>2, <2>1, SearchTyped, CachesSame DEF CacheTypeOK
  <2> QED  BY <1>2, <2>2, <2>3, CachesSame DEF SearchStep
<1> QED  BY <1>8, <1>9

LEMMA RetrieveStep ==
    ASSUME CacheInv, NEW s \in Ids, Retrieve(s)
    PROVE  SearchStep(s)
<1>1. CacheTypeOK /\ FitInv /\ search[s].pc = "retrieve" /\ search[s].hit = None
  BY DEF CacheInv, Retrieve, SearchAt, FitInv
<1>2. UNCHANGED <<l1, l2, legacy, ingestion, redisErrors>>
  BY DEF Retrieve, caches
<1>3. rev \in Seen
  BY <1>1 DEF CacheTypeOK
<1>9. PICK cols \in Resolutions(search[s].req) :
          search' = [search EXCEPT ![s].pc = "generate", ![s].cols = cols, ![s].seen = rev]
  BY DEF Retrieve
<1> DEFINE d == [search[s] EXCEPT !.pc = "generate", !.cols = cols, !.seen = rev]
<1>10. cols \in Cols
  BY <1>1, <1>9, KeyFacts, CacheTypes
<1>4. /\ d \in Searches /\ d.pc = "generate" /\ d.seen = rev /\ d.hit = search[s].hit
      /\ d.cols = cols /\ d.req = search[s].req
  BY <1>1, <1>3, <1>10, CacheTypes DEF Searches, Steps
<1>5. search' = [search EXCEPT ![s] = d]
  BY <1>1, <1>9, CacheTypes
<1> HIDE DEF d
<1>6. /\ search' \in [Ids -> Searches] /\ search'[s] = d
      /\ \A t \in Ids \ {s} : search'[t] = search[t]
  BY <1>1, <1>4, <1>5, OneSearchMoves
<1>7. OnlyMoves(s) /\ HitFits(s) /\ SeenKeeps(s) /\ AnsweredFits(s)
  BY <1>1, <1>4, <1>6, <1>9
     DEF OnlyMoves, HitFits, SeenKeeps, HasMade, UnderWay, AnsweredFits, Answered
<1>8. CacheTypeOK'
  BY <1>1, <1>2, <1>6, SearchTyped, CachesSame DEF CacheTypeOK
<1> QED  BY <1>2, <1>7, <1>8, CachesSame DEF SearchStep

\* A search without a hit that goes on, or ends, after it has retrieved.
LEMMA UnansweredGoesOn ==
    ASSUME CacheTypeOK, NEW s \in Ids, NEW step \in {"set l2", "set legacy", "ended"},
           SearchGoes(s, step), search[s].hit = None,
           UnderWay(s) \/ step = "ended", search[s].pc # "ended", FitInv
    PROVE  /\ OnlyMoves(s) /\ HitFits(s) /\ SeenKeeps(s) /\ AnsweredFits(s)
           /\ HasMade(s)' /\ StoredKey(s)' = StoredKey(s)
           /\ search'[s].seen = search[s].seen
<1>1. /\ search' \in [Ids -> Searches]
      /\ \A t \in Ids \ {s} : search'[t] = search[t]
      /\ search'[s].pc = step /\ search'[s].req = search[s].req
      /\ search'[s].seen = search[s].seen /\ search'[s].hit = search[s].hit
      /\ search'[s].cols = search[s].cols
  BY SearchGoesOn DEF Steps
<1>2. OnlyMoves(s) /\ HasMade(s)' /\ StoredKey(s)' = StoredKey(s)
  BY <1>1 DEF OnlyMoves, HasMade, StoredKey
<1>3. HitFits(s) /\ SeenKeeps(s) /\ AnsweredFits(s)
  BY <1>1 DEF HitFits, SeenKeeps, AnsweredFits, Answered, UnderWay, FitInv
<1> QED  BY <1>1, <1>2, <1>3

\* An answer goes under one of the keys.
LEMMA StoredTyped ==
    ASSUME CacheTypeOK, FitInv, NEW s \in Ids, UnderWay(s)
    PROVE  StoredKey(s) \in Keys
BY CacheTypes, KeyFacts DEF FitInv, StoredKey

LEMMA GenerateStep ==
    ASSUME CacheInv, NEW s \in Ids, Generate(s)
    PROVE  SearchStep(s)
<1>1. /\ CacheTypeOK /\ FitInv /\ search[s].pc = "generate" /\ search[s].hit = None
      /\ UnderWay(s)
  BY DEF CacheInv, Generate, SearchAt, FitInv, UnderWay
<1>2. UNCHANGED <<l2, legacy, ingestion, redisErrors>>
  BY DEF Generate
<1>3. CASE /\ l1' = [l1 EXCEPT ![search[s].on] = Store(@, StoredKey(s), s, L1Ttl)]
           /\ SearchGoes(s, "set l2")
  <2>1. /\ OnlyMoves(s) /\ HitFits(s) /\ SeenKeeps(s) /\ AnsweredFits(s)
        /\ HasMade(s)' /\ StoredKey(s)' = StoredKey(s)
    BY <1>1, <1>3, UnansweredGoesOn
  <2>2. PICK w \in Workers, key \in Keys : w = search[s].on /\ key = StoredKey(s)
    BY <1>1, CacheTypes, StoredTyped DEF Searches
  <2>3. FitsUnder(s, key)'
    BY <2>1, <2>2 DEF FitsUnder
  <2>4. l1' = [l1 EXCEPT ![w] = Store(@, key, s, L1Ttl)]
    BY <1>3, <2>2
  <2>5. l1' \in [Workers -> [Keys -> Entries]] /\ L1Kept
    BY <1>1, <2>3, <2>4, StoredInL1
  <2>6. CacheTypeOK'
    BY <1>1, <1>2, <2>1, <2>5, SearchTyped, CachesSame DEF CacheTypeOK, OnlyMoves
  <2> QED  BY <1>2, <2>1, <2>5, <2>6, CachesSame DEF SearchStep
<1>4. CASE SearchGoes(s, "ended") /\ UNCHANGED l1
  <2>1. OnlyMoves(s) /\ HitFits(s) /\ SeenKeeps(s) /\ AnsweredFits(s)
    BY <1>1, <1>4, UnansweredGoesOn
  <2>2. CacheTypeOK'
    BY <1>1, <1>2, <1>4, <2>1, SearchTyped, CachesSame DEF CacheTypeOK, OnlyMoves
  <2> QED  BY <1>2, <1>4, <2>1, <2>2, CachesSame DEF SearchStep
<1> QED  BY <1>3, <1>4 DEF Generate

LEMMA SetL2Step ==
    ASSUME CacheInv, NEW s \in Ids, search[s].pc = "set l2",
           NEW step \in {"set legacy", "ended"}, SearchGoes(s, step),
           l2' = Store(l2, StoredKey(s), s, L2Ttl), UNCHANGED <<l1, legacy, ingestion>>,
           redisErrors' \in 0 .. MaxRedisErrors
    PROVE  SearchStep(s)
<1>1. CacheTypeOK /\ FitInv /\ search[s].hit = None /\ UnderWay(s)
  BY DEF CacheInv, FitInv, UnderWay
<1>2. /\ OnlyMoves(s) /\ HitFits(s) /\ SeenKeeps(s) /\ AnsweredFits(s)
      /\ HasMade(s)' /\ StoredKey(s)' = StoredKey(s)
  BY <1>1, UnansweredGoesOn
<1>3. PICK key \in Keys : key = StoredKey(s)
  BY <1>1, StoredTyped
<1>4. FitsUnder(s, key)'
  BY <1>2, <1>3 DEF FitsUnder
<1>5. l2' \in [Keys -> Entries] /\ L2Kept
  BY <1>1, <1>3, <1>4, StoredInL2
<1>6. CacheTypeOK'
  BY <1>1, <1>2, <1>5, SearchTyped, CachesSame DEF CacheTypeOK, OnlyMoves
<1> QED  BY <1>2, <1>5, <1>6, CachesSame DEF SearchStep

LEMMA SetLegacyStep ==
    ASSUME CacheInv, NEW s \in Ids, search[s].pc = "set legacy", SearchGoes(s, "ended"),
           legacy' = Store(legacy, LegacyKey(StoredKey(s)), s, L2Ttl),
           UNCHANGED <<l1, l2, ingestion>>, redisErrors' \in 0 .. MaxRedisErrors
    PROVE  SearchStep(s)
<1>1. CacheTypeOK /\ FitInv /\ search[s].hit = None /\ UnderWay(s)
  BY DEF CacheInv, FitInv, UnderWay
<1>2. /\ OnlyMoves(s) /\ HitFits(s) /\ SeenKeeps(s) /\ AnsweredFits(s)
      /\ HasMade(s)' /\ StoredKey(s)' = StoredKey(s) /\ search'[s].seen = search[s].seen
  BY <1>1, UnansweredGoesOn
<1>3. PICK key \in LegacyKeys : key = LegacyKey(StoredKey(s))
  BY <1>1, StoredTyped, KeyFacts
<1>4. FitsLegacy(s, key)'
  BY <1>2, <1>3 DEF FitsLegacy, LegacyKey
<1>5. legacy' \in [LegacyKeys -> Entries] /\ LegacyKept /\ LegacyFrom
  BY <1>1, <1>2, <1>3, <1>4, StoredInLegacy
<1>6. CacheTypeOK'
  BY <1>1, <1>2, <1>5, SearchTyped, CachesSame DEF CacheTypeOK, OnlyMoves
<1> QED  BY <1>2, <1>5, <1>6, CachesSame DEF SearchStep

LEMMA SearchFailsStep ==
    ASSUME CacheInv, NEW s \in Ids, SearchFails(s)
    PROVE  SearchStep(s)
<1>1. CacheTypeOK /\ FitInv /\ search[s].hit = None /\ search[s].pc # "ended"
  BY DEF CacheInv, SearchFails, FitInv
<1>2. UNCHANGED <<l1, ingestion>> /\ SearchGoes(s, "ended")
  BY DEF SearchFails
<1>3. redisErrors' \in 0 .. MaxRedisErrors
  <2>1. redisErrors < MaxRedisErrors /\ redisErrors' = redisErrors + 1
    BY Zenon DEF SearchFails
  <2>2. redisErrors \in 0 .. MaxRedisErrors /\ MaxRedisErrors \in Nat
    BY <1>1, CacheAssumption DEF CacheTypeOK
  <2> QED  BY <2>1, <2>2
<1>4. CASE UNCHANGED <<l2, legacy>>
  <2>1. OnlyMoves(s) /\ HitFits(s) /\ SeenKeeps(s) /\ AnsweredFits(s)
    BY <1>1, <1>2, UnansweredGoesOn
  <2>2. CacheTypeOK'
    BY <1>1, <1>2, <1>3, <1>4, <2>1, SearchTyped, CachesSame DEF CacheTypeOK, OnlyMoves
  <2> QED  BY <1>2, <1>4, <2>1, <2>2, CachesSame DEF SearchStep
<1>5. CASE SearchAt(s, "set l2") /\ l2' = Store(l2, StoredKey(s), s, L2Ttl)
           /\ UNCHANGED legacy
  BY <1>2, <1>3, <1>5, SetL2Step DEF SearchAt
<1>6. CASE SearchAt(s, "set legacy") /\ UNCHANGED l2
           /\ legacy' = Store(legacy, LegacyKey(StoredKey(s)), s, L2Ttl)
  BY <1>2, <1>3, <1>6, SetLegacyStep DEF SearchAt
<1> QED  BY <1>4, <1>5, <1>6 DEF SearchFails

---------------------------------------------------------------------------
(* Time and the ingestion                                                  *)

\* Nothing is answered where no search moves.
LEMMA NoSearchMoves ==
    ASSUME CacheTypeOK, FitInv, UNCHANGED search
    PROVE  Stays /\ HitsFit /\ SeenKept /\ \A t \in Ids : AnsweredFits(t)
<1>1. Stays /\ \A t \in Ids : AnsweredFits(t)
  BY DEF Stays, HasMade, StoredKey, AnsweredFits, Answered
<1>2. ASSUME NEW t \in Ids  PROVE HitFits(t) /\ SeenKeeps(t)
  <2>1. SeenKeeps(t)
    BY DEF SeenKeeps, UnderWay
  <2>2. search[t].pc = "promote" =>
            \E by \in Ids : /\ search[t].hit = by
                            /\ \E r \in Requests : /\ search[t].req = r
                                                   /\ FitsAsked(by, Looked(r))
    BY <1>2, CacheTypes DEF FitInv, FitsAsked, Searches, Key
  <2>3. ASSUME NEW by \in Ids, NEW r \in Requests, FitsAsked(by, Looked(r))
        PROVE  FitsAsked(by, Looked(r))'
    BY <2>3 DEF FitsAsked, HasMade, StoredKey
  <2> QED  BY <2>1, <2>2, <2>3 DEF HitFits, FitInv, UnderWay
<1> QED  BY <1>1, <1>2 DEF HitsFit, SeenKept

LEMMA TickStep ==
    ASSUME CacheInv, Tick
    PROVE  CacheInv' /\ \A t \in Ids : AnsweredFits(t)
<1>1. CacheTypeOK /\ FitInv /\ StaleInv
  BY DEF CacheInv
<1>2. /\ UNCHANGED <<search, ingestion, redisErrors>>
      /\ l1' = [w \in Workers |-> AllOlder(l1[w])]
      /\ l2' = AllOlder(l2) /\ legacy' = AllOlder(legacy)
  BY DEF Tick
<1>3. /\ \A w \in Workers : l1[w] \in [Keys -> Entries]
      /\ l2 \in [Keys -> Entries] /\ legacy \in [LegacyKeys -> Entries]
  BY <1>1 DEF CacheTypeOK
<1>4. ASSUME NEW D, NEW c \in [D -> Entries]
      PROVE  /\ AllOlder(c) \in [D -> Entries]
             /\ \A k \in D : AllOlder(c)[k].by \in {None, c[k].by}
  BY EntryFacts DEF AllOlder
<1>5. /\ l1' \in [Workers -> [Keys -> Entries]]
      /\ \A w \in Workers, k \in Keys : l1'[w][k].by \in {None, l1[w][k].by}
  BY <1>2, <1>3, <1>4
<1>6. /\ l2' \in [Keys -> Entries] /\ legacy' \in [LegacyKeys -> Entries]
      /\ \A k \in Keys : l2'[k].by \in {None, l2[k].by}
      /\ \A k \in LegacyKeys : legacy'[k].by \in {None, legacy[k].by}
  BY <1>2, <1>3, <1>4
<1>7. L1Kept /\ L2Kept /\ LegacyKept /\ LegacyFrom
  BY <1>5, <1>6 DEF L1Kept, L2Kept, LegacyKept, LegacyFrom
<1>8. Stays /\ HitsFit /\ SeenKept /\ \A t \in Ids : AnsweredFits(t)
  BY <1>1, <1>2, NoSearchMoves
<1>9. FitInv' /\ StaleInv'
  BY <1>1, <1>2, <1>7, <1>8, FitStays, StaleStays, CachesSame
<1>10. CacheTypeOK'
  BY <1>1, <1>2, <1>5, <1>6, CacheTypes, SearchTyped, CachesSame DEF CacheTypeOK
<1> QED  BY <1>8, <1>9, <1>10 DEF CacheInv

\* What the steps of an ingestion have in common.
LEMMA IngestionFits ==
    ASSUME CacheTypeOK, FitInv, UNCHANGED <<search, l1, l2>>, LegacyKept
    PROVE  FitInv' /\ \A t \in Ids : AnsweredFits(t)
<1>1. Stays /\ HitsFit /\ \A t \in Ids : AnsweredFits(t)
  BY NoSearchMoves
<1> QED  BY <1>1, FitStays, CachesSame

LEMMA StoreDocumentsStep ==
    ASSUME CacheInv, StoreDocuments
    PROVE  CacheInv' /\ \A t \in Ids : AnsweredFits(t)
<1>1. CacheTypeOK /\ FitInv /\ StaleInv
  BY DEF CacheInv
<1>2. UNCHANGED <<l1, l2, legacy, search, cleared, overlapped, redisErrors>>
  BY DEF StoreDocuments, caches
<1>3. PICK kb \in KBs : /\ rev[kb] < MaxIngests
                        /\ rev' = [rev EXCEPT ![kb] = @ + 1]
                        /\ ingest' = [pc |-> "scan", kb |-> kb, found |-> {}]
  BY CacheAssumption DEF StoreDocuments
<1>4. FitInv' /\ \A t \in Ids : AnsweredFits(t)
  BY <1>1, <1>2, IngestionFits, CachesSame
<1>5. rev \in Seen /\ rev[kb] \in 0 .. MaxIngests /\ MaxIngests \in Nat
  BY <1>1, CacheAssumption DEF CacheTypeOK, Seen
<1>6. rev[kb] + 1 \in 0 .. MaxIngests
  BY <1>3, <1>5
<1>7. rev' \in Seen
  BY <1>3, <1>5, <1>6 DEF Seen
<1>8. ingest' \in [pc : {"none", "scan", "delete"}, kb : KBs, found : SUBSET LegacyKeys]
  BY <1>3
<1>9. CacheTypeOK'
  BY <1>1, <1>2, <1>7, <1>8
     DEF CacheTypeOK, Seen, Ids, Steps, Keys, LegacyKeys, Entries
<1>10. \A k \in KBs : cleared[k] <= rev'[k]
  <2> TAKE k \in KBs
  <2>1. cleared[k] <= rev[k] /\ cleared[k] \in Nat /\ rev[k] \in Nat
    BY <1>1, CacheTypes DEF StaleInv
  <2>2. rev'[k] = rev[k] \/ rev'[k] = rev[k] + 1
    BY <1>3, <1>5 DEF Seen
  <2> QED  BY <2>1, <2>2
<1>11. ingest'.pc = "scan"
  BY <1>3
<1>12. StaleInv'
  BY <1>1, <1>2, <1>10, <1>11 DEF StaleInv, UnderWay, Covers
<1> QED  BY <1>4, <1>9, <1>12 DEF CacheInv

LEMMA ScanLegacyStep ==
    ASSUME CacheInv, ScanLegacy
    PROVE  CacheInv' /\ \A t \in Ids : AnsweredFits(t)
<1>1. CacheTypeOK /\ FitInv /\ StaleInv
  BY DEF CacheInv
<1>2. UNCHANGED <<l1, l2, legacy, search, cleared, rev, redisErrors>>
  BY DEF ScanLegacy, caches
<1>3. FitInv' /\ \A t \in Ids : AnsweredFits(t)
  BY <1>1, <1>2, IngestionFits, CachesSame
<1>4. /\ ingest'.pc = "delete"
      /\ ingest'.found = {key \in LegacyKeys : legacy[key] # Empty}
      /\ ingest' \in [pc : {"none", "scan", "delete"}, kb : KBs, found : SUBSET LegacyKeys]
  BY <1>1 DEF ScanLegacy, CacheTypeOK
<1>5. /\ overlapped \subseteq overlapped' /\ overlapped' \subseteq Ids
      /\ \A s \in Ids : UnderWay(s) => s \in overlapped'
  BY <1>1 DEF ScanLegacy, UnderWay, CacheTypeOK
<1>6. CacheTypeOK'
  BY <1>1, <1>2, <1>4, <1>5 DEF CacheTypeOK, Seen, Ids, Steps, Keys, LegacyKeys, Entries
<1>7. \A s : Covers(s, cleared) => Covers(s, cleared)'
  BY <1>2, <1>5 DEF Covers
<1>8. \A s \in Ids : UnderWay(s)' => Covers(s, cleared)' /\ Covers(s, rev)'
  BY <1>2, <1>5 DEF UnderWay, Covers
<1>9. \A key \in LegacyKeys : legacy[key].by # None => Covers(legacy[key].by, cleared)'
  BY <1>1, <1>2, <1>5 DEF StaleInv, Covers
<1>10. \A key \in LegacyKeys \ ingest'.found : legacy'[key].by = None
  BY <1>2, <1>4, EntryFacts
<1>11. \A kb \in KBs : cleared'[kb] <= rev'[kb]
  BY <1>1, <1>2 DEF StaleInv
<1>12. \A key \in LegacyKeys : legacy'[key].by # None => Covers(legacy[key].by, cleared)'
  BY <1>2, <1>9 DEF Covers
<1>13. StaleInv'
  BY <1>8, <1>10, <1>11, <1>12 DEF StaleInv
<1> QED  BY <1>3, <1>6, <1>13 DEF CacheInv

LEMMA NoIngestTyped ==
    /\ NoIngest \in [pc : {"none", "scan", "delete"}, kb : KBs, found : SUBSET LegacyKeys]
    /\ NoIngest.pc = "none"
<1>1. (CHOOSE kb \in KBs : TRUE) \in KBs
  BY CacheAssumption
<1> QED  BY <1>1 DEF NoIngest

LEMMA DeleteLegacyStep ==
    ASSUME CacheInv, DeleteLegacy
    PROVE  CacheInv' /\ \A t \in Ids : AnsweredFits(t)
<1>1. CacheTypeOK /\ FitInv /\ StaleInv /\ ingest.pc = "delete" /\ ingest.kb \in KBs
  BY DEF CacheInv, DeleteLegacy, CacheTypeOK
<1>2. UNCHANGED <<l1, l2, search, overlapped, rev, redisErrors>> /\ ingest' = NoIngest
  BY DEF DeleteLegacy
<1>3. legacy' = [key \in LegacyKeys |-> IF key \in ingest.found THEN Empty ELSE legacy[key]]
  BY DEF DeleteLegacy
<1>4. /\ legacy \in [LegacyKeys -> Entries] /\ rev \in Seen /\ cleared \in Seen
      /\ Empty \in Entries /\ Empty.by = None
  BY <1>1, EntryFacts DEF CacheTypeOK
<1>5. /\ legacy' \in [LegacyKeys -> Entries]
      /\ \A key \in LegacyKeys :
             legacy'[key].by = None \/ (key \notin ingest.found /\ legacy'[key] = legacy[key])
  BY <1>3, <1>4
<1>6. LegacyKept
  BY <1>5 DEF LegacyKept
<1>7. FitInv' /\ \A t \in Ids : AnsweredFits(t)
  BY <1>1, <1>2, <1>6, IngestionFits
<1>8. /\ cleared' \in Seen
      /\ \A kb \in KBs : cleared'[kb] \in {cleared[kb], rev[kb]}
  <2>1. cleared' = [cleared EXCEPT ![ingest.kb] = rev[ingest.kb]]
    BY DEF DeleteLegacy
  <2>2. rev[ingest.kb] \in 0 .. MaxIngests
    BY <1>1, <1>4 DEF Seen
  <2> QED  BY <1>1, <1>4, <2>1, <2>2 DEF Seen
<1>9. CacheTypeOK'
  BY <1>1, <1>2, <1>4, <1>5, <1>8, NoIngestTyped
     DEF CacheTypeOK, Seen, Ids, Steps, Keys, LegacyKeys, Entries
<1>10. \A kb \in KBs : cleared'[kb] <= rev[kb] /\ cleared'[kb] \in Nat /\ rev[kb] \in Nat
  BY <1>1, <1>8, CacheTypes DEF StaleInv
<1>11. ASSUME NEW s \in Ids, Covers(s, rev)  PROVE Covers(s, cleared)'
  <2>1. CASE s \in overlapped
    BY <1>2, <2>1 DEF Covers
  <2>2. CASE \A kb \in KBs : rev[kb] <= search[s].seen[kb]
    <3>1. ASSUME NEW kb \in KBs  PROVE cleared'[kb] <= search'[s].seen[kb]
      <4>1. search[s].seen[kb] \in Nat /\ rev[kb] <= search[s].seen[kb]
        BY <1>1, <2>2, CacheTypes
      <4> QED  BY <1>2, <1>10, <4>1
    <3> QED  BY <3>1 DEF Covers
  <2> QED  BY <1>11, <2>1, <2>2 DEF Covers
<1>12. \A s \in Ids : UnderWay(s)' => Covers(s, cleared)'
  BY <1>1, <1>2, <1>11 DEF UnderWay, StaleInv
<1>13. ASSUME NEW key \in LegacyKeys, legacy'[key].by # None
       PROVE  \E s \in Ids : legacy'[key].by = s /\ Covers(s, cleared)'
  <2>1. key \notin ingest.found /\ legacy'[key] = legacy[key]
    BY <1>5, <1>13
  <2>2. PICK s \in Ids : s = legacy[key].by
    BY <1>1, <1>13, <2>1, CacheTypes
  <2>3. Covers(s, rev)
    BY <1>1, <1>13, <2>1, <2>2 DEF StaleInv
  <2> QED  BY <1>11, <2>1, <2>2, <2>3
<1>14. \A key \in LegacyKeys : legacy'[key].by # None => Covers(legacy[key].by, cleared)'
  BY <1>13 DEF Covers
<1>15. ingest'.pc = "none" /\ \A kb \in KBs : cleared'[kb] <= rev'[kb]
  BY <1>2, <1>10, NoIngestTyped
<1>16. StaleInv'
  BY <1>12, <1>14, <1>15 DEF StaleInv
<1> QED  BY <1>7, <1>9, <1>16 DEF CacheInv

LEMMA ClearFailsStep ==
    ASSUME CacheInv, ClearFails
    PROVE  CacheInv' /\ \A t \in Ids : AnsweredFits(t)
<1>1. CacheTypeOK /\ FitInv /\ StaleInv
  BY DEF CacheInv
<1>2. UNCHANGED <<l1, l2, legacy, search, cleared, overlapped, rev>> /\ ingest' = NoIngest
  BY DEF ClearFails, caches
<1>3. redisErrors' \in 0 .. MaxRedisErrors
  <2>1. redisErrors \in Nat /\ redisErrors < MaxRedisErrors /\ MaxRedisErrors \in Nat
    BY <1>1, CacheAssumption DEF ClearFails, CacheTypeOK
  <2> QED  BY <2>1 DEF ClearFails
<1>4. FitInv' /\ \A t \in Ids : AnsweredFits(t)
  BY <1>1, <1>2, IngestionFits, CachesSame
<1>5. CacheTypeOK'
  BY <1>1, <1>2, <1>3, NoIngestTyped
     DEF CacheTypeOK, Seen, Ids, Steps, Keys, LegacyKeys, Entries
<1>6. StaleInv'
  BY <1>1, <1>2, NoIngestTyped DEF StaleInv, UnderWay, Covers
<1> QED  BY <1>4, <1>5, <1>6 DEF CacheInv

---------------------------------------------------------------------------
(* The invariant, and the theorems                                         *)

LEMMA CacheInvInit ==
    ASSUME CacheInit
    PROVE  CacheInv
<1>1. (CHOOSE r \in Requests : TRUE) \in Requests
  BY CacheAssumption
<1>2. NoRev \in Seen /\ \A kb \in KBs : NoRev[kb] = 0
  BY CacheAssumption DEF NoRev, Seen
<1>3. search \in [Ids -> Searches] /\ \A s \in Ids : search[s].pc = "idle" /\ search[s].hit = None
  BY <1>1, <1>2 DEF CacheInit, Searches, Steps, Cols
<1>4. /\ l1 \in [Workers -> [Keys -> Entries]] /\ l2 \in [Keys -> Entries]
      /\ legacy \in [LegacyKeys -> Entries]
  BY EntryFacts DEF CacheInit
<1>5. /\ rev = NoRev /\ cleared = NoRev /\ overlapped = {} /\ redisErrors = 0
      /\ ingest = NoIngest /\ 0 \in 0 .. MaxRedisErrors
  BY CacheAssumption DEF CacheInit
<1>6. CacheTypeOK
  BY <1>2, <1>3, <1>4, <1>5, NoIngestTyped DEF CacheTypeOK, Searches, Cols
<1>7. FitInv
  BY <1>3, EntryFacts DEF CacheInit, FitInv, FitsUnder, FitsLegacy, UnderWay
<1>8. \A s \in Ids : ~UnderWay(s)
  BY <1>3 DEF UnderWay
<1>9. \A key \in LegacyKeys : legacy[key].by = None
  BY EntryFacts DEF CacheInit
<1>10. ingest.pc = "none" /\ \A kb \in KBs : cleared[kb] <= rev[kb]
  BY <1>2, <1>5, NoIngestTyped
<1>11. StaleInv
  BY <1>8, <1>9, <1>10 DEF StaleInv
<1> QED  BY <1>6, <1>7, <1>11 DEF CacheInv

LEMMA CacheInvStep ==
    ASSUME CacheInv, [CacheNext]_cacheVars
    PROVE  CacheInv' /\ \A t \in Ids : AnsweredFits(t)
<1>1. ASSUME NEW s \in Ids,
             \/ LookInL1(s) \/ LookInL2(s) \/ Promote(s) \/ LookInLegacy(s)
             \/ Retrieve(s) \/ Generate(s) \/ SetL2(s) \/ SetLegacy(s)
             \/ SearchFails(s)
      PROVE  SearchStep(s)
  <2>1. CASE LookInL1(s)
    BY <2>1, LookInL1Step
  <2>2. CASE LookInL2(s)
    BY <2>2, LookInL2Step
  <2>3. CASE Promote(s)
    BY <2>3, PromoteStep
  <2>4. CASE LookInLegacy(s)
    BY <2>4, LookInLegacyStep
  <2>5. CASE Retrieve(s)
    BY <2>5, RetrieveStep
  <2>6. CASE Generate(s)
    BY <2>6, GenerateStep
  <2>7. CASE SetL2(s)
    BY <2>7, SetL2Step DEF SetL2, SearchAt, CacheInv, CacheTypeOK
  <2>8. CASE SetLegacy(s)
    BY <2>8, SetLegacyStep DEF SetLegacy, SearchAt, CacheInv, CacheTypeOK
  <2>9. CASE SearchFails(s)
    BY <2>9, SearchFailsStep
  <2> QED  BY <1>1, <2>1, <2>2, <2>3, <2>4, <2>5, <2>6, <2>7, <2>8, <2>9
<1>2. CASE Tick
  BY <1>2, TickStep
<1>3. CASE StoreDocuments
  BY <1>3, StoreDocumentsStep
<1>4. CASE ScanLegacy
  BY <1>4, ScanLegacyStep
<1>5. CASE DeleteLegacy
  BY <1>5, DeleteLegacyStep
<1>6. CASE ClearFails
  BY <1>6, ClearFailsStep
<1>7. CASE UNCHANGED cacheVars
  <2>1. UNCHANGED <<l1, l2, legacy, search, rev, ingest, cleared, overlapped, redisErrors>>
    BY <1>7 DEF cacheVars, caches, ingestion
  <2>2. FitInv' /\ \A t \in Ids : AnsweredFits(t)
    BY <2>1, IngestionFits, CachesSame DEF CacheInv
  <2>3. CacheTypeOK'
    BY <2>1 DEF CacheInv, CacheTypeOK, Seen, Ids, Steps, Keys, LegacyKeys, Entries
  <2>4. StaleInv'
    BY <2>1 DEF CacheInv, StaleInv, UnderWay, Covers
  <2> QED  BY <2>2, <2>3, <2>4 DEF CacheInv
<1>8. (\E s \in Ids : SearchStep(s)) => CacheInv' /\ \A t \in Ids : AnsweredFits(t)
  BY SearchStepFits
<1> QED  BY <1>1, <1>2, <1>3, <1>4, <1>5, <1>6, <1>7, <1>8 DEF CacheNext

\* The invariant of the caches: every entry lies under the key its search stored
\* it under, and what an invalidation missed belongs to a search it overlapped
\* (_step_cache_check, _step_cache_store, SearchCache.clear).
THEOREM CacheInvariant == CacheSpec => []CacheInv
<1>1. CacheInit => CacheInv
  BY CacheInvInit
<1>2. CacheInv /\ [CacheNext]_cacheVars => CacheInv'
  BY CacheInvStep
<1> QED  BY <1>1, <1>2, PTL DEF CacheSpec

\* Every variable of the caches stays in its set.
THEOREM CacheTypeCorrect == CacheSpec => []CacheTypeOK
<1>1. CacheInv => CacheTypeOK
  BY DEF CacheInv
<1> QED  BY <1>1, CacheInvariant, PTL

\* Whatever layer an answer comes from, and through however many promotions: a
\* request that names bases gets one that was made from exactly those, one that
\* names none gets one that was made from the general base alone, and it was made
\* for a similar query (hub_search 144-154, MultiLayerCache.get, _should_skip_entry).
THEOREM AnswersFit == CacheSpec => AnswerFits
<1>1. CacheInv /\ [CacheNext]_cacheVars => \A s \in Ids : AnsweredFits(s)
  BY CacheInvStep
<1>2. ASSUME NEW s \in Ids, AnsweredFits(s), Answered(s)
      PROVE  LET r == search'[s].req
                 made == StoredKey(search'[s].hit)
             IN  /\ Kbs(made) = IF r.kbs # <<>> THEN Range(r.kbs) ELSE {General}
                 /\ <<r.query, made.query>> \in Similar
  <2>1. PICK r : r = search'[s].req
    OBVIOUS
  <2> QED  BY <1>2, <2>1, LookedFacts DEF AnsweredFits
<1>3. CacheInv /\ [CacheNext]_cacheVars =>
          [\A s \in Ids : Answered(s) =>
               LET r == search'[s].req
                   made == StoredKey(search'[s].hit)
               IN  /\ Kbs(made) = IF r.kbs # <<>> THEN Range(r.kbs) ELSE {General}
                   /\ <<r.query, made.query>> \in Similar]_cacheVars
  BY <1>1, <1>2
<1> QED  BY <1>3, CacheInvariant, PTL DEF CacheSpec, AnswerFits

\* After the invalidation of an ingestion, the legacy cache has an older answer only
\* if its search had retrieved and not yet ended when the keys were collected
\* (_update_kb_and_invalidate_cache 241-264, SearchCache.clear).
THEOREM StaleOverlapped == CacheSpec => []StaleInLegacyOverlapped
<1>1. ASSUME CacheInv  PROVE StaleInLegacyOverlapped
  <2>1. CacheTypeOK /\ StaleInv
    BY <1>1 DEF CacheInv
  <2>2. ASSUME NEW key \in LegacyKeys, NEW kb \in key.kbs, legacy[key].by # None,
               search[legacy[key].by].seen[kb] < cleared[kb]
        PROVE  legacy[key].by \in overlapped
    <3>1. kb \in KBs
      BY KeyFacts
    <3>2. legacy[key].by \in Ids /\ Covers(legacy[key].by, cleared)
      BY <2>1, <2>2, CacheTypes DEF StaleInv
    <3>3. search[legacy[key].by].seen[kb] \in Nat /\ cleared[kb] \in Nat
      BY <2>1, <3>1, <3>2, CacheTypes
    <3> QED  BY <2>2, <3>1, <3>2, <3>3 DEF Covers
  <2> QED  BY <2>2 DEF StaleInLegacyOverlapped
<1> QED  BY <1>1, CacheInvariant, PTL
=============================================================================
