----------------------------- MODULE AnswerCache -----------------------------
(***************************************************************************)
(* Answers of the hub search in three caches: the memory of each API       *)
(* worker (L1), the semantic cache in Redis (L2), which answers a request   *)
(* with the answer of a similar one, and the older exact cache in Redis     *)
(* (legacy).  A search asks them in this order, under the bases that its    *)
(* request names, or under the general one when it names none; when no      *)
(* cache has an answer it works out the bases, retrieves, generates, and    *)
(* stores in all three, under the bases and the size it worked with.        *)
(* Ingestion changes a knowledge base and then invalidates.                 *)
(*                                                                         *)
(* A tick is the greatest common divisor of the lifetimes, minutes long: no  *)
(* lookup is interrupted by one.  All entries are of one cache version, and  *)
(* the memory's capacity, ten thousand entries, is not reached.             *)
(***************************************************************************)
EXTENDS Naturals, Sequences, Functions

CONSTANTS
    KBs,          \* knowledge bases
    General,      \* the base "knowledge"
    Requests,     \* [query, kbs, group, sees, k]: the bases that are named, those of
                  \* the group that is named, those of its caller, the number of results
    Listings,     \* the bases that Qdrant has, in the orders it may list them in
    Least,        \* Least[query]: the number of results that its class needs
    Similar,      \* pairs of queries above the threshold, each with itself
    Workers,      \* API processes
    MaxSearches,  \* bound on the searches that run or whose answers are cached
    Ingested,     \* the bases that an ingestion changes
    MaxIngests,   \* bound on the ingestions of each of them
    L1Ttl, L2Ttl, \* lifetimes in ticks; the legacy cache has that of L2
    MaxRedisErrors \* bound on Redis errors

\* What a request is looked up under, before its bases are worked out.
Looked(r) ==
    [query |-> r.query, kbs |-> IF r.kbs # <<>> THEN r.kbs ELSE <<General>>, k |-> r.k]

\* The bases asked for: named, of a group, or all; a listing may fail.
Wanted(r) ==
    IF r.kbs # <<>> THEN {r.kbs}
    ELSE IF r.group # <<>> THEN {r.group} ELSE Listings \cup {<<General>>}

\* The caller sees its tenant's bases and no personal ones of others, but all of
\* them when nothing would be left, and more when the registry fails.
Admitted(cols, sees) ==
    LET Kept(open) == SelectSeq(cols, LAMBDA kb : kb \in open)
    IN  IF cols = <<General>> THEN {cols}
        ELSE {IF Kept(open) = <<>> THEN cols ELSE Kept(open) :
                 open \in {o \in SUBSET KBs : sees \subseteq o}}

Resolutions(r) == UNION {Admitted(cols, r.sees) : cols \in Wanted(r)}

\* What an answer is stored under.
Size(r) == IF r.k < Least[r.query] THEN Least[r.query] ELSE r.k
Worked(r, cols) == [query |-> r.query, kbs |-> cols, k |-> Size(r)]

Keys == {Looked(r) : r \in Requests}
            \cup UNION {{Worked(r, cols) : cols \in Resolutions(r)} : r \in Requests}
Kbs(key) == Range(key.kbs)
\* The legacy cache sorts the collections of its key.
LegacyKey(key) == [query |-> key.query, kbs |-> Kbs(key), k |-> key.k]
LegacyKeys == {LegacyKey(key) : key \in Keys}

ASSUME CacheAssumption ==
    /\ KBs # {} /\ Requests # {} /\ Workers # {} /\ Ingested \subseteq KBs
    /\ \A key \in Keys : Kbs(key) \subseteq KBs /\ <<key.query, key.query>> \in Similar
    /\ MaxSearches \in Nat /\ MaxIngests \in Nat /\ MaxRedisErrors \in Nat
    /\ L1Ttl \in Nat \ {0} /\ L2Ttl \in Nat \ {0}

VARIABLES
    rev,       \* rev[kb]: ingestions stored so far
    l1,        \* l1[w]: the entries in the memory of worker w, by key
    l2,        \* the semantic cache's entries, by key
    legacy,    \* the legacy cache's entries, by its keys
    search,    \* the searches
    ingest,    \* an ingestion that has stored and now invalidates
    cleared,   \* history: cleared[kb]: the last ingestion whose invalidation ended
    overlapped,\* history: searches that had retrieved, and not ended, when one began
    redisErrors \* Redis errors so far

caches == <<l1, l2, legacy>>
ingestion == <<rev, ingest, cleared, overlapped>>
cacheVars == <<caches, search, ingestion, redisErrors>>

Ids == 1 .. MaxSearches
None == 0

Empty == [by |-> None, left |-> 0]   \* by: the search whose answer it is
Entries == [by : Ids \cup {None}, left : 0 .. L1Ttl + L2Ttl]
Steps == {"idle", "l2", "promote", "legacy", "retrieve", "generate", "set l2",
          "set legacy", "ended"}

Seen == [KBs -> 0 .. MaxIngests]
NoRev == [kb \in KBs |-> 0]
NoIngest == [pc |-> "none", kb |-> CHOOSE kb \in KBs : TRUE, found |-> {}]

CacheInit ==
    /\ rev = NoRev
    /\ l1 = [w \in Workers |-> [key \in Keys |-> Empty]]
    /\ l2 = [key \in Keys |-> Empty]
    /\ legacy = [key \in LegacyKeys |-> Empty]
    /\ \E w \in Workers :
           search = [s \in Ids |->
               [pc |-> "idle", req |-> CHOOSE r \in Requests : TRUE, on |-> w,
                cols |-> <<>>, seen |-> NoRev, hit |-> None]]
    /\ ingest = NoIngest
    /\ cleared = NoRev
    /\ overlapped = {}
    /\ redisErrors = 0

---------------------------------------------------------------------------
(* Searches                                                                *)

SearchAt(s, step) == search[s].pc = step
SearchGoes(s, step) == search' = [search EXCEPT ![s].pc = step]
Serve(s, by) == search' = [search EXCEPT ![s].pc = "ended", ![s].hit = by]
Store(cache, key, by, ttl) == [cache EXCEPT ![key] = [by |-> by, left |-> ttl]]
Key(s) == Looked(search[s].req)
StoredKey(by) == Worked(search[by].req, search[by].cols)

\* No search is told apart from another when it has ended, no cache has its
\* answer and none is about to be served with it: the record is used again.
Forgotten(s) ==
    /\ search[s].pc \in {"idle", "ended"}
    /\ \A w \in Workers, key \in Keys : l1[w][key].by # s
    /\ \A key \in Keys : l2[key].by # s
    /\ \A key \in LegacyKeys : legacy[key].by # s
    /\ \A t \in Ids : SearchAt(t, "promote") => search[t].hit # s

\* A request arrives and is looked up in the memory of the worker it reaches.
LookInL1(s) ==
    /\ Forgotten(s)
    /\ \A t \in 1 .. s - 1 : ~Forgotten(t)
    /\ \E r \in Requests, w \in Workers :
           LET by == l1[w][Looked(r)].by
           IN  search' = [search EXCEPT ![s] =
                   [pc |-> IF by # None THEN "ended" ELSE "l2", req |-> r, on |-> w,
                    cols |-> <<>>, seen |-> NoRev, hit |-> by]]
    /\ overlapped' = overlapped \ {s}
    /\ UNCHANGED <<caches, rev, ingest, cleared, redisErrors>>

MatchesAnyKb(s) ==                                           \* mutant
    {key \in Keys : /\ l2[key].by # None
                    /\ <<Key(s).query, key.query>> \in Similar}

\* The entries that may answer for a similar request: those whose collections
\* are, in any order, the ones asked for.  Their number of results is not looked at.
Matches(s) ==
    {key \in Keys : /\ l2[key].by # None
                    /\ <<Key(s).query, key.query>> \in Similar
                    /\ Kbs(key) = Kbs(Key(s))}

\* A scan that is cut short, or a query that cannot be embedded, finds less.
LookInL2(s) ==
    /\ SearchAt(s, "l2")
    /\ \/ \E key \in Matches(s) :
              search' = [search EXCEPT ![s].pc = "promote", ![s].hit = l2[key].by]
       \/ SearchGoes(s, "legacy")
    /\ UNCHANGED <<caches, ingestion, redisErrors>>

\* Into the memory of the worker that asked, under the key that was found.
Promote(s) ==
    /\ SearchAt(s, "promote")
    /\ LET by == search[s].hit
       IN  /\ l1' = [l1 EXCEPT ![search[s].on] = Store(@, StoredKey(by), by, L1Ttl)]
           /\ Serve(s, by)
    /\ UNCHANGED <<l2, legacy, ingestion, redisErrors>>

LookInLegacy(s) ==
    /\ SearchAt(s, "legacy")
    /\ LET by == legacy[LegacyKey(Key(s))].by
       IN  IF by # None THEN Serve(s, by) ELSE SearchGoes(s, "retrieve")
    /\ UNCHANGED <<caches, ingestion, redisErrors>>

\* The bases are worked out for this caller and searched.
Retrieve(s) ==
    /\ SearchAt(s, "retrieve")
    /\ \E cols \in Resolutions(search[s].req) :
           search' = [search EXCEPT ![s].pc = "generate", ![s].cols = cols, ![s].seen = rev]
    /\ UNCHANGED <<caches, ingestion, redisErrors>>

\* The answer is made and put into the worker's memory; one that is empty or an
\* error text is not stored.
Generate(s) ==
    /\ SearchAt(s, "generate")
    /\ \/ /\ l1' = [l1 EXCEPT ![search[s].on] = Store(@, StoredKey(s), s, L1Ttl)]
          /\ SearchGoes(s, "set l2")
       \/ SearchGoes(s, "ended") /\ UNCHANGED l1
    /\ UNCHANGED <<l2, legacy, ingestion, redisErrors>>

\* Without an embedding a similar request does not find the entry.
SetL2(s) ==
    /\ SearchAt(s, "set l2")
    /\ l2' = Store(l2, StoredKey(s), s, L2Ttl)
    /\ SearchGoes(s, "set legacy")
    /\ UNCHANGED <<l1, legacy, ingestion, redisErrors>>

SetLegacy(s) ==
    /\ SearchAt(s, "set legacy")
    /\ legacy' = Store(legacy, LegacyKey(StoredKey(s)), s, L2Ttl)
    /\ SearchGoes(s, "ended")
    /\ UNCHANGED <<l1, l2, ingestion, redisErrors>>

\* The handlers do not name the errors of the Redis client: the search ends
\* with a 500, whether the command was carried out or not.
SearchFails(s) ==
    /\ search[s].pc \in {"l2", "legacy", "set l2", "set legacy"}
    /\ redisErrors < MaxRedisErrors
    /\ redisErrors' = redisErrors + 1
    /\ SearchGoes(s, "ended")
    /\ \/ UNCHANGED <<l2, legacy>>
       \/ SearchAt(s, "set l2") /\ l2' = Store(l2, StoredKey(s), s, L2Ttl) /\ UNCHANGED legacy
       \/ /\ SearchAt(s, "set legacy")
          /\ legacy' = Store(legacy, LegacyKey(StoredKey(s)), s, L2Ttl)
          /\ UNCHANGED l2
    /\ UNCHANGED <<l1, ingestion>>

---------------------------------------------------------------------------
(* Time                                                                    *)

Older(entry) == IF entry.left <= 1 THEN Empty ELSE [entry EXCEPT !.left = @ - 1]
AllOlder(cache) == [key \in DOMAIN cache |-> Older(cache[key])]

Tick ==
    /\ \A s \in Ids : search[s].pc \notin {"l2", "promote", "legacy"}
    /\ l1' = [w \in Workers |-> AllOlder(l1[w])]
    /\ l2' = AllOlder(l2)
    /\ legacy' = AllOlder(legacy)
    /\ UNCHANGED <<search, ingestion, redisErrors>>

---------------------------------------------------------------------------
(* Ingestion: _update_kb_and_invalidate_cache                              *)

StoreDocuments ==
    /\ ingest.pc = "none"
    /\ \E kb \in Ingested :
           /\ rev[kb] < MaxIngests
           /\ rev' = [rev EXCEPT ![kb] = @ + 1]
           /\ ingest' = [pc |-> "scan", kb |-> kb, found |-> {}]
    /\ UNCHANGED <<caches, search, cleared, overlapped, redisErrors>>

ScanLegacyOnePage ==                                         \* mutant
    /\ ingest.pc = "scan"
    /\ \E key \in LegacyKeys :
           ingest' = [ingest EXCEPT !.pc = "delete", !.found = {key}]
    /\ overlapped' = overlapped \cup
           {s \in Ids : search[s].pc \in {"generate", "set l2", "set legacy"}}
    /\ UNCHANGED <<rev, cleared, caches, search, redisErrors>>

\* The multi-layer cache has no invalidate_by_kb; what is left is the clear of
\* the legacy cache: it collects the keys, then deletes them.
ScanLegacy ==
    /\ ingest.pc = "scan"
    /\ ingest' = [ingest EXCEPT !.pc = "delete",
                               !.found = {key \in LegacyKeys : legacy[key] # Empty}]
    /\ overlapped' = overlapped \cup
           {s \in Ids : search[s].pc \in {"generate", "set l2", "set legacy"}}
    /\ UNCHANGED <<rev, cleared, caches, search, redisErrors>>

DeleteLegacy ==
    /\ ingest.pc = "delete"
    /\ legacy' = [key \in LegacyKeys |-> IF key \in ingest.found THEN Empty ELSE legacy[key]]
    /\ cleared' = [cleared EXCEPT ![ingest.kb] = rev[ingest.kb]]
    /\ ingest' = NoIngest
    /\ UNCHANGED <<rev, overlapped, l1, l2, search, redisErrors>>

\* An error of Redis ends the ingestion's task.
ClearFails ==
    /\ ingest.pc # "none"
    /\ redisErrors < MaxRedisErrors
    /\ redisErrors' = redisErrors + 1
    /\ ingest' = NoIngest
    /\ UNCHANGED <<rev, cleared, overlapped, caches, search>>

CacheNext ==
    \/ \E s \in Ids :
           \/ LookInL1(s) \/ LookInL2(s) \/ Promote(s) \/ LookInLegacy(s)
           \/ Retrieve(s) \/ Generate(s) \/ SetL2(s) \/ SetLegacy(s)
           \/ SearchFails(s)
    \/ Tick
    \/ StoreDocuments \/ ScanLegacy \/ DeleteLegacy \/ ClearFails

CacheSpec == CacheInit /\ [][CacheNext]_cacheVars

---------------------------------------------------------------------------
(* Properties                                                              *)

\* Every variable stays in its set.
CacheTypeOK ==
    /\ rev \in Seen /\ cleared \in Seen
    /\ l1 \in [Workers -> [Keys -> Entries]]
    /\ l2 \in [Keys -> Entries]
    /\ legacy \in [LegacyKeys -> Entries]
    /\ search \in [Ids -> [pc : Steps, req : Requests, on : Workers, seen : Seen,
                          cols : {<<>>} \cup UNION {Resolutions(r) : r \in Requests},
                          hit : Ids \cup {None}]]
    /\ ingest \in [pc : {"none", "scan", "delete"}, kb : KBs, found : SUBSET LegacyKeys]
    /\ overlapped \subseteq Ids
    /\ redisErrors \in 0 .. MaxRedisErrors

\* The search s is answered from a cache in this step.
Answered(s) == /\ search'[s].hit # None /\ search'[s].pc = "ended"
               /\ search'[s] # search[s]

\* Whatever layer an answer comes from, and through however many promotions: a
\* request that names bases gets one that was made from exactly those, one that
\* names none gets one that was made from the general base alone, and it was made
\* for a similar query (hub_search 144-154, _should_skip_entry, _make_key).
AnswerFits ==
    [][\A s \in Ids : Answered(s) =>
           LET r == search'[s].req
               made == StoredKey(search'[s].hit)
           IN  /\ Kbs(made) = IF r.kbs # <<>> THEN Range(r.kbs) ELSE {General}
               /\ <<r.query, made.query>> \in Similar]_cacheVars

\* Claim of the request's model, that a group is the scope of the search.  The
\* caches are asked before the group is resolved, under the general base.
GroupIsScope ==
    [][\A s \in Ids : Answered(s) =>
           LET r == search'[s].req
           IN  r.kbs = <<>> /\ r.group # <<>> =>
                   Kbs(StoredKey(search'[s].hit)) \subseteq Range(r.group)]_cacheVars

\* After the invalidation of an ingestion, the legacy cache has an older answer
\* only if its search had retrieved and not yet ended when the keys were
\* collected (_update_kb_and_invalidate_cache 241-264, SearchCache.clear).
StaleInLegacyOverlapped ==
    \A key \in LegacyKeys :
        LET by == legacy[key].by
        IN  by # None /\ (\E kb \in key.kbs : search[by].seen[kb] < cleared[kb])
                => by \in overlapped

\* Claim of the guide to the pipeline: an ingestion that is complete invalidates
\* what is cached of its knowledge base.
IngestInvalidates ==
    [][\A s \in Ids : Answered(s) =>
           LET by == search'[s].hit
           IN  by \in overlapped \/
               \A kb \in Kbs(StoredKey(by)) : search[by].seen[kb] >= cleared[kb]]_cacheVars
=============================================================================
