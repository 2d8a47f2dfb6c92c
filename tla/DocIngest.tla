----------------------------- MODULE DocIngest -----------------------------
(***************************************************************************)
(* IngestionPipeline.ingest: what happens to one document of a knowledge    *)
(* base, from the gate to the registration of its hash, with several calls   *)
(* of several runs at once.                                                  *)
(*                                                                         *)
(* Three indexes decide that a document is a duplicate: the gate's, which    *)
(* lives as long as a run's pipeline object, the dedup pipeline's, which     *)
(* lives as long as the API process and knows no knowledge base, and the     *)
(* Redis set of the knowledge base.  The second is filled before anything    *)
(* is stored, the third after everything is.  The vector points and the      *)
(* graph node are written side by side, and a call that fails because one    *)
(* of the two failed leaves the other one writing.                           *)
(*                                                                         *)
(* Quality, the gate's other checks and the outcome of an external call are  *)
(* nondeterministic; contents are told apart after the normalisation that    *)
(* all three hashes agree on, and every document has a title.                *)
(***************************************************************************)
EXTENDS Integers, FiniteSets

CONSTANTS
    KBs,            \* knowledge bases (Qdrant collections)
    Docs,           \* document ids
    Contents,       \* normalised contents
    ChunkCount,     \* how many chunks a content is split into
    BatchSize,      \* points per Qdrant request
    MaxChunks,      \* bound on the chunks of a content
    MaxRuns,        \* bound on the runs started
    MaxCalls,       \* bound on the ingest calls made
    MaxBoots,       \* bound on the starts of the API process
    None

ASSUME ChunkAssumption ==
    /\ MaxChunks \in Nat
    /\ ChunkCount \in [Contents -> 1 .. MaxChunks]
    /\ BatchSize \in Nat \ {0}

ASSUME NoneAssumption == None \notin Contents \cup KBs \cup Docs

ASSUME BoundAssumption ==
    /\ MaxRuns \in Nat
    /\ MaxCalls \in Nat
    /\ MaxBoots \in Nat \ {0}

VARIABLES
    boot,       \* which start of the API process is running
    hasIndex,   \* whether this start set up the dedup pipeline
    hashOf,     \* the document the dedup pipeline's hash index names for a content
    known,      \* documents in the dedup pipeline's document store
    cache,      \* contents in the Redis set of each knowledge base
    points,     \* content of each vector point of a document in a knowledge base
    runs,       \* ingestion runs: a pipeline object each
    calls       \* ingest calls, in the order they were made

vars == <<boot, hasIndex, hashOf, known, cache, points, runs, calls>>

RunIds == 1 .. MaxRuns
CallIds == 1 .. MaxCalls

(***************************************************************************)
(* The points of a document: its chunks in order, then its title.  A point's *)
(* id depends on the knowledge base, the document and the position, not on   *)
(* the content; the title's position is 0.                                   *)
(***************************************************************************)
Positions == 0 .. MaxChunks
Keys(x) == 0 .. ChunkCount[x]
Place(x, n) == IF n = ChunkCount[x] + 1 THEN 0 ELSE n

Modes == {"index", "cache", "none"}
Results == {"none", "ok", "duplicate", "refused", "failed", "lost"}
Writers == {"off", "run", "done", "error", "cut"}
Steps == {"idle", "check", "enroll", "index", "prepare", "store", "register",
          "done"}

NoRun == [mode |-> "none", force |-> FALSE, kb |-> None, boot |-> 0,
          live |-> FALSE, seen |-> {}]

IdleCall == [pc |-> "idle", run |-> 0, kb |-> None, doc |-> None,
             content |-> None, alone |-> FALSE, entered |-> FALSE,
             next |-> 1, vec |-> "off", graph |-> "off", result |-> "none"]

RunType == [mode : Modes, force : BOOLEAN, kb : KBs \cup {None},
            boot : 0 .. MaxBoots, live : BOOLEAN, seen : SUBSET Contents]

CallType == [pc : Steps, run : 0 .. MaxRuns, kb : KBs \cup {None},
             doc : Docs \cup {None}, content : Contents \cup {None},
             alone : BOOLEAN, entered : BOOLEAN, next : Nat,
             vec : Writers, graph : Writers, result : Results]

TypeOK ==
    /\ boot \in 1 .. MaxBoots
    /\ hasIndex \in BOOLEAN
    /\ hashOf \in [Contents -> Docs \cup {None}]
    /\ known \subseteq Docs
    /\ cache \in [KBs -> SUBSET Contents]
    /\ points \in [KBs -> [Docs -> [Positions -> Contents \cup {None}]]]
    /\ runs \in [RunIds -> RunType]
    /\ calls \in [CallIds -> CallType]

Init ==
    /\ boot = 1
    /\ hasIndex \in BOOLEAN
    /\ hashOf = [x \in Contents |-> None]
    /\ known = {}
    /\ cache = [k \in KBs |-> {}]
    /\ points = [k \in KBs |-> [d \in Docs |-> [i \in Positions |-> None]]]
    /\ runs = [r \in RunIds |-> NoRun]
    /\ calls = [c \in CallIds |-> IdleCall]

-----------------------------------------------------------------------------
(* Calls and runs *)

Writing(c) == "run" \in {calls[c].vec, calls[c].graph}
Busy(c) == calls[c].pc \notin {"idle", "done"} \/ Writing(c)

\* Calls of one document of one knowledge base that are still at work.
Beside(k, d) == {c \in CallIds : Busy(c) /\ calls[c].kb = k /\ calls[c].doc = d}

-----------------------------------------------------------------------------
(* The gate and the duplicate checks *)

\* Stage 1 of the dedup pipeline: the hash is indexed and names a document that
\* has been added.
Indexed(x) == hashOf[x] # None /\ hashOf[x] \in known

\* Where a call goes from the gate and what it is answered there; the dedup
\* pipeline looks in the same step and enters the hash in it too, unless its
\* semantic stage is awaited first.
AfterGate(run, x) ==
    IF run.mode # "none" /\ x \in run.seen
    THEN {[pc |-> "done", result |-> "refused"]}
    ELSE (IF run.mode = "none" THEN {} ELSE {[pc |-> "done", result |-> "refused"]})
         \cup
         IF run.force \/ run.mode = "none"
         THEN {[pc |-> "prepare", result |-> "none"]}
         ELSE IF run.mode = "cache"
         THEN {[pc |-> "check", result |-> "none"]}
         ELSE IF Indexed(x)
         THEN {[pc |-> "done", result |-> "duplicate"]}
         ELSE {[pc |-> "enroll", result |-> "none"], [pc |-> "index", result |-> "none"]}

\* ingest is called on the pipeline object of run.
Ingest(c, r, run, d, x) ==
    /\ calls[c].pc = "idle"
    /\ \A e \in CallIds : e < c => calls[e].pc # "idle"
    /\ \E after \in AfterGate(run, x) :
          LET others == Beside(run.kb, d)
              call == [IdleCall EXCEPT !.pc = after.pc, !.result = after.result,
                                       !.run = r, !.kb = run.kb, !.doc = d,
                                       !.content = x, !.alone = (others = {}),
                                       !.entered = (after.pc = "index")]
          IN  /\ calls' = [e \in CallIds |->
                              IF e = c THEN call
                              ELSE IF e \in others THEN [calls[e] EXCEPT !.alone = FALSE]
                              ELSE calls[e]]
              /\ hashOf' = IF after.pc = "index" THEN [hashOf EXCEPT ![x] = d] ELSE hashOf
    /\ runs' = [runs EXCEPT ![r] = IF run.mode = "none" THEN run
                                   ELSE [run EXCEPT !.seen = @ \cup {x}]]
    /\ UNCHANGED <<boot, hasIndex, known, cache, points>>

\* An API handler or the command line makes a pipeline object.  The API's has a
\* gate and, as duplicate check, the dedup pipeline or else the Redis set; the
\* command line's has none of them, and a process of its own.
FirstDocument(c, r, k, d, x) ==
    /\ runs[r] = NoRun
    /\ \A q \in RunIds : q < r => runs[q] # NoRun
    /\ \E mode \in {"none", IF hasIndex THEN "index" ELSE "cache"}, force \in BOOLEAN :
          /\ force => mode # "none"
          /\ Ingest(c, r, [mode |-> mode, force |-> force, kb |-> k, boot |-> boot,
                           live |-> TRUE, seen |-> {}], d, x)

\* A further document of a run, beside the earlier ones or after them.
NextDocument(c, r, d, x) ==
    /\ runs[r].live
    /\ Ingest(c, r, runs[r], d, x)

Goto(c, pc) == calls' = [calls EXCEPT ![c].pc = pc]

End(c, result) == calls' = [calls EXCEPT ![c] = [@ EXCEPT !.pc = "done", !.result = result]]

\* The semantic stage has answered: the hash index is written.
Enroll(c) ==
    /\ calls[c].pc = "enroll"
    /\ hashOf' = [hashOf EXCEPT ![calls[c].content] = calls[c].doc]
    /\ calls' = [calls EXCEPT ![c] = [@ EXCEPT !.pc = "index", !.entered = TRUE]]
    /\ UNCHANGED <<boot, hasIndex, known, cache, points, runs>>

IndexDoc_Unlisted(c) ==  \* mutant
    /\ calls[c].pc = "index"
    /\ Goto(c, "prepare")
    /\ UNCHANGED <<boot, hasIndex, hashOf, known, cache, points, runs>>

\* The semantic index has the document too: the document store is written.
IndexDoc(c) ==
    /\ calls[c].pc = "index"
    /\ known' = known \cup {calls[c].doc}
    /\ Goto(c, "prepare")
    /\ UNCHANGED <<boot, hasIndex, hashOf, cache, points, runs>>

\* The Redis set is asked.  An error it catches counts as a miss; redis' own
\* exceptions are none of those and end the call.
CheckCache(c) ==
    /\ calls[c].pc = "check"
    /\ \/ calls[c].content \in cache[calls[c].kb] /\ End(c, "duplicate")
       \/ calls[c].content \notin cache[calls[c].kb] /\ Goto(c, "prepare")
    /\ UNCHANGED <<boot, hasIndex, hashOf, known, cache, points, runs>>

CacheFault(c) ==
    /\ calls[c].pc = "check"
    /\ Goto(c, "prepare") \/ End(c, "failed")
    /\ UNCHANGED <<boot, hasIndex, hashOf, known, cache, points, runs>>

-----------------------------------------------------------------------------
(* The stores *)

\* Quality, chunking and embedding touch no shared state: the document is
\* refused, the embedder fails for good, or both writers start.
Prepare(c) ==
    /\ calls[c].pc = "prepare"
    /\ \/ End(c, "refused")
       \/ End(c, "failed")
       \/ calls' = [calls EXCEPT ![c] = [@ EXCEPT !.pc = "store", !.vec = "run",
                                                   !.graph = "run"]]
    /\ UNCHANGED <<boot, hasIndex, hashOf, known, cache, points, runs>>

Batch_DropsLast(c) == {n \in calls[c].next .. (calls[c].next + BatchSize - 1) :
                          n < ChunkCount[calls[c].content] + 1}  \* mutant
\* The places of the next request's points among those of the call's document.
Batch(c) == {n \in calls[c].next .. (calls[c].next + BatchSize - 1) :
                n <= ChunkCount[calls[c].content] + 1}

Upserted(c) ==
    LET new == {Place(calls[c].content, n) : n \in Batch(c)}
    IN  [points EXCEPT ![calls[c].kb][calls[c].doc] =
            [i \in Positions |-> IF i \in new THEN calls[c].content
                                 ELSE points[calls[c].kb][calls[c].doc][i]]]

\* One request of upsert_batch.
VecWrite(c) ==
    LET next == calls[c].next + BatchSize
    IN  /\ calls[c].vec = "run"
        /\ points' = Upserted(c)
        /\ calls' = [calls EXCEPT ![c] =
                        [@ EXCEPT !.next = next,
                                  !.vec = IF next > ChunkCount[calls[c].content] + 1
                                          THEN "done" ELSE "run"]]
        /\ UNCHANGED <<boot, hasIndex, hashOf, known, cache, runs>>

\* A request fails, whether or not the server applied it.
VecFail(c) ==
    /\ calls[c].vec = "run"
    /\ points' \in {points, Upserted(c)}
    /\ calls' = [calls EXCEPT ![c].vec = "error"]
    /\ UNCHANGED <<boot, hasIndex, hashOf, known, cache, runs>>

\* The document's node is merged into the graph, or that fails.
GraphWrite(c) ==
    /\ calls[c].graph = "run"
    /\ calls' = [calls EXCEPT ![c].graph = "done"]
    /\ UNCHANGED <<boot, hasIndex, hashOf, known, cache, points, runs>>

GraphFail(c) ==
    /\ calls[c].graph = "run"
    /\ calls' = [calls EXCEPT ![c].graph = "error"]
    /\ UNCHANGED <<boot, hasIndex, hashOf, known, cache, points, runs>>

\* gather returns when both writers have, and raises at the first error.  After
\* it come edges, trees, terms and graph extraction, any of which may raise.
Stored_Early(c) ==  \* mutant
    /\ calls[c].pc = "store"
    /\ calls[c].vec = "done"
    /\ Goto(c, "register") \/ End(c, "failed")
    /\ UNCHANGED <<boot, hasIndex, hashOf, known, cache, points, runs>>

Stored(c) ==
    /\ calls[c].pc = "store"
    /\ calls[c].vec = "done" /\ calls[c].graph = "done"
    /\ Goto(c, "register") \/ End(c, "failed")
    /\ UNCHANGED <<boot, hasIndex, hashOf, known, cache, points, runs>>

StoreFails_Collected(c) ==  \* mutant
    /\ calls[c].pc = "store"
    /\ "error" \in {calls[c].vec, calls[c].graph}
    /\ Goto(c, "register")
    /\ UNCHANGED <<boot, hasIndex, hashOf, known, cache, points, runs>>

StoreFails(c) ==
    /\ calls[c].pc = "store"
    /\ "error" \in {calls[c].vec, calls[c].graph}
    /\ End(c, "failed")
    /\ UNCHANGED <<boot, hasIndex, hashOf, known, cache, points, runs>>

-----------------------------------------------------------------------------
(* The registration of the hash *)

\* Only the API's runs have a duplicate cache.
Registered(c) ==
    IF runs[calls[c].run].mode = "none" THEN cache
    ELSE [cache EXCEPT ![calls[c].kb] = @ \cup {calls[c].content}]

\* The hash is registered, or not with an error that is caught.
Register(c) ==
    /\ calls[c].pc = "register"
    /\ End(c, "ok")
    /\ cache' \in {cache, Registered(c)}
    /\ UNCHANGED <<boot, hasIndex, hashOf, known, points, runs>>

\* redis' own exceptions pass both except clauses: a call whose document is
\* stored is answered as failed, whether or not the server added the hash.
RegisterFault(c) ==
    /\ calls[c].pc = "register"
    /\ runs[calls[c].run].mode # "none"
    /\ End(c, "failed")
    /\ cache' \in {cache, Registered(c)}
    /\ UNCHANGED <<boot, hasIndex, hashOf, known, points, runs>>

-----------------------------------------------------------------------------
(* Processes *)

\* A process dies with the calls of the runs in it.
CutOff(dead) ==
    /\ runs' = [r \in RunIds |-> IF r \in dead THEN [runs[r] EXCEPT !.live = FALSE]
                                 ELSE runs[r]]
    /\ calls' = [c \in CallIds |->
                    IF calls[c].run \notin dead THEN calls[c]
                    ELSE [calls[c] EXCEPT
                            !.pc = "done",
                            !.result = IF calls[c].pc = "done" THEN @ ELSE "lost",
                            !.vec = IF @ = "run" THEN "cut" ELSE @,
                            !.graph = IF @ = "run" THEN "cut" ELSE @]]

RestartApi_IndexKept ==  \* mutant
    /\ boot < MaxBoots
    /\ boot' = boot + 1
    /\ hasIndex' \in BOOLEAN
    /\ CutOff({r \in RunIds : runs[r].live /\ runs[r].mode # "none"})
    /\ UNCHANGED <<hashOf, known, cache, points>>

\* The API restarts: its dedup pipeline starts empty, if it comes up at all.
RestartApi ==
    /\ boot < MaxBoots
    /\ boot' = boot + 1
    /\ hasIndex' \in BOOLEAN
    /\ hashOf' = [x \in Contents |-> None]
    /\ known' = {}
    /\ CutOff({r \in RunIds : runs[r].live /\ runs[r].mode # "none"})
    /\ UNCHANGED <<cache, points>>

\* The command line is interrupted at work.
CliDies(r) ==
    /\ runs[r].live /\ runs[r].mode = "none"
    /\ \E c \in CallIds : calls[c].run = r /\ Busy(c)
    /\ CutOff({r})
    /\ UNCHANGED <<boot, hasIndex, hashOf, known, cache, points>>

Step(c) ==
    \/ Enroll(c) \/ IndexDoc(c) \/ CheckCache(c) \/ Prepare(c)
    \/ VecWrite(c) \/ GraphWrite(c) \/ Stored(c) \/ StoreFails(c)
    \/ Register(c)

Fault(c) == CacheFault(c) \/ VecFail(c) \/ GraphFail(c) \/ RegisterFault(c)

Next ==
    \/ \E c \in CallIds, r \in RunIds, k \in KBs, d \in Docs, x \in Contents :
          FirstDocument(c, r, k, d, x)
    \/ \E c \in CallIds, r \in RunIds, d \in Docs, x \in Contents :
          NextDocument(c, r, d, x)
    \/ \E c \in CallIds : Step(c) \/ Fault(c)
    \/ RestartApi
    \/ \E r \in RunIds : CliDies(r)

Spec == Init /\ [][Next]_vars

-----------------------------------------------------------------------------
(* What is checked *)

\* A call as the caller and the stores see it.
What == [c \in CallIds |->
            [kb |-> calls[c].kb, doc |-> calls[c].doc, content |-> calls[c].content]]

Verdict == [c \in CallIds |->
               IF calls[c].pc = "idle" THEN "none"
               ELSE IF calls[c].result = "none" THEN "open"
               ELSE IF calls[c].result = "duplicate" THEN "refused"
               ELSE calls[c].result]

Whole == {c \in CallIds : calls[c].vec = "done" /\ calls[c].graph = "done"}

Contract == INSTANCE IngestContract
               WITH what <- What, verdict <- Verdict, stored <- Whole, registered <- cache

(***************************************************************************)
(* The pipeline keeps the contract of IngestContract: whatever the two       *)
(* writers, the three indexes and the crashes do, success and a registered   *)
(* hash come after both stores have the whole document, and a refused call    *)
(* has written nothing (ingest, the gather and the dedup_cache.add after it). *)
(***************************************************************************)
KeepsContract == Contract!Spec

(***************************************************************************)
(* A content in the Redis set of a knowledge base was whole in both stores   *)
(* for that knowledge base: dedup_cache.add comes last.                       *)
(***************************************************************************)
CacheMeansStored == Contract!RegisteredIsStored

(***************************************************************************)
(* A call turned away as a duplicate has another call to thank for it: by    *)
(* the dedup pipeline, one of the same content whose hash this start of the   *)
(* API has entered (for any knowledge base, and whatever became of it); by    *)
(* the Redis set, one that stored the content in this knowledge base.        *)
(***************************************************************************)
DuplicateHasWitness ==
    \A c \in CallIds : calls[c].result = "duplicate" =>
        \E e \in CallIds \ {c} :
            /\ calls[e].content = calls[c].content
            /\ IF runs[calls[c].run].mode = "index"
               THEN /\ calls[e].entered
                    /\ runs[calls[e].run].boot = runs[calls[c].run].boot
               ELSE e \in Whole /\ calls[e].kb = calls[c].kb

(***************************************************************************)
(* The dedup pipeline takes a content in twice during one start of the API    *)
(* only while a call of that content is between the look-up and the entry     *)
(* into the document store (DedupPipeline.add awaits the semantic index       *)
(* there): apart from that window every copy is seen.                        *)
(***************************************************************************)
Entering(x) == \E e \in CallIds : calls[e].pc \in {"enroll", "index"} /\ calls[e].content = x

TakenIn(x) == \E e \in CallIds : /\ calls[e].entered /\ calls[e].content = x
                                 /\ runs[calls[e].run].boot = boot

SecondCopyIsSeen ==
    [][\A c \in CallIds :
          (calls[c].pc = "idle" /\ calls'[c].pc \in {"enroll", "index"})
          => (TakenIn(calls'[c].content) => Entering(calls'[c].content))]_vars

(***************************************************************************)
(* When the calls of a document never overlapped, the last one that reached   *)
(* the stores and finished its points left the document whole: every chunk    *)
(* and the title are of its content, however many requests it took and        *)
(* whatever earlier calls left half written (point ids are positions).        *)
(***************************************************************************)
WholeDocument ==
    \A k \in KBs, d \in Docs :
        LET mine == {c \in CallIds : calls[c].kb = k /\ calls[c].doc = d}
            wrote == {c \in mine : calls[c].vec # "off"}
        IN  (\A c \in mine : calls[c].alone) =>
            \A c \in wrote :
                (calls[c].vec = "done" /\ \A e \in wrote : e <= c)
                => \A i \in Keys(calls[c].content) : points[k][d][i] = calls[c].content

(***************************************************************************)
(* The newest version of a document is the one kept, as dedup_pipeline.py    *)
(* says of exact duplicates ("Exact dup: KEEP_NEWEST"): when calls for one    *)
(* document come one after another and none fails, its first chunk is of the  *)
(* content that was last submitted.                                          *)
(***************************************************************************)
NewestKept ==
    \A k \in KBs, d \in Docs :
        LET mine == {c \in CallIds : calls[c].kb = k /\ calls[c].doc = d}
        IN  (\A c \in mine : calls[c].alone /\ calls[c].result \in {"ok", "duplicate"}) =>
            \A c \in mine :
                (\A e \in mine : e <= c) => points[k][d][1] = calls[c].content

=============================================================================
