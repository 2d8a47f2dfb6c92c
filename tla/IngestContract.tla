--------------------------- MODULE IngestContract ---------------------------
(***************************************************************************)
(* What IngestionPipeline.ingest promises its callers and its duplicate     *)
(* cache, without indexes, batches or writers: every call gets at most one   *)
(* answer, "ok" and a registered hash stand for a document that is whole in  *)
(* the vector store and in the graph, and a refused document was never       *)
(* stored.  A failed call may still store its document: the writer that did  *)
(* not fail goes on.                                                         *)
(***************************************************************************)
CONSTANTS
    KBs,        \* knowledge bases
    Docs,       \* document ids
    Contents,   \* normalised contents
    CallIds,    \* ingest calls
    None

VARIABLES
    what,       \* knowledge base, document and content of each call
    verdict,    \* what each call was answered
    stored,     \* calls whose document is whole in both stores
    registered  \* contents registered as ingested, by knowledge base

cvars == <<what, verdict, stored, registered>>

Items == [kb : KBs, doc : Docs, content : Contents]
Nothing == [kb |-> None, doc |-> None, content |-> None]
Verdicts == {"none", "open", "ok", "refused", "failed", "lost"}

TypeOK ==
    /\ what \in [CallIds -> Items \cup {Nothing}]
    /\ verdict \in [CallIds -> Verdicts]
    /\ stored \subseteq CallIds
    /\ registered \in [KBs -> SUBSET Contents]

Init ==
    /\ what = [c \in CallIds |-> Nothing]
    /\ verdict = [c \in CallIds |-> "none"]
    /\ stored = {}
    /\ registered = [k \in KBs |-> {}]

\* A call is made; it may be turned away at once.
Open(c) ==
    /\ verdict[c] = "none"
    /\ \E v \in {"open", "refused"} : verdict' = [verdict EXCEPT ![c] = v]
    /\ \E item \in Items : what' = [what EXCEPT ![c] = item]
    /\ UNCHANGED <<stored, registered>>

\* The document of a call is whole in both stores.
Store(c) ==
    /\ verdict[c] \in {"open", "failed"}
    /\ stored' = stored \cup {c}
    /\ UNCHANGED <<what, verdict, registered>>

\* A call ends without having stored anything it answers for.
Refuse(c) ==
    /\ verdict[c] = "open"
    /\ c \notin stored
    /\ verdict' = [verdict EXCEPT ![c] = "refused"]
    /\ UNCHANGED <<what, stored, registered>>

\* The hash of a stored document may be registered when its call ends.
MayRegister(c) ==
    \/ registered' = registered
    \/ /\ c \in stored
       /\ registered' = [registered EXCEPT ![what[c].kb] = @ \cup {what[c].content}]

Fail(c) ==
    /\ verdict[c] = "open"
    /\ verdict' = [verdict EXCEPT ![c] = "failed"]
    /\ MayRegister(c)
    /\ UNCHANGED <<what, stored>>

Accept(c) ==
    /\ verdict[c] = "open"
    /\ c \in stored
    /\ verdict' = [verdict EXCEPT ![c] = "ok"]
    /\ MayRegister(c)
    /\ UNCHANGED <<what, stored>>

\* The process of some calls dies: nobody is answered.
Lose ==
    /\ \E S \in SUBSET {c \in CallIds : verdict[c] = "open"} :
          verdict' = [c \in CallIds |-> IF c \in S THEN "lost" ELSE verdict[c]]
    /\ UNCHANGED <<what, stored, registered>>

Next ==
    \/ Lose
    \/ \E c \in CallIds : \/ Open(c)
                          \/ Store(c)
                          \/ Refuse(c)
                          \/ Fail(c)
                          \/ Accept(c)

Spec == Init /\ [][Next]_cvars

-----------------------------------------------------------------------------

(***************************************************************************)
(* A content registered for a knowledge base was whole in both stores for   *)
(* some call of that knowledge base: the duplicate check of a later call     *)
(* (dedup_cache.exists) never turns away a content that was never stored.    *)
(***************************************************************************)
RegisteredIsStored ==
    \A k \in KBs : \A x \in registered[k] :
        \E c \in stored : what[c].kb = k /\ what[c].content = x

(***************************************************************************)
(* An answer of success stands for a stored document, a refusal for one     *)
(* that this call never stored.                                              *)
(***************************************************************************)
AnswersAreTrue ==
    \A c \in CallIds : /\ verdict[c] = "ok" => c \in stored
                       /\ verdict[c] \in {"none", "refused"} => c \notin stored

-----------------------------------------------------------------------------

\* The two promises with what keeps them: a call that was made has a document.
CInv ==
    /\ TypeOK
    /\ \A c \in CallIds : verdict[c] # "none" => what[c] \in Items
    /\ RegisteredIsStored
    /\ AnswersAreTrue

=============================================================================
