------------------------------- MODULE RagCache -------------------------------
(***************************************************************************)
(* The semantic cache of chat-api under concurrent requests and ingests.   *)
(*                                                                         *)
(* Every chat request runs rag_pipeline.answer or answer_stream in a       *)
(* thread of some chat-api pod: look the question up in Redis, otherwise   *)
(* retrieve from Weaviate, generate, and store the answer back in Redis.   *)
(* The ingestion worker changes the Weaviate collection and then flushes   *)
(* the Redis keys one by one.  Nothing but Redis and Weaviate is shared,   *)
(* and every call to them is a step of its own.                            *)
(*                                                                         *)
(* A set() call writes one hash under a fresh uuid and a request calls     *)
(* set() at most once, so a cache key is named by the request that wrote   *)
(* it: key r has the embedding of ask[r] as its vector and answer[r] as    *)
(* its response.  A document collection is the set of the ingest runs      *)
(* whose copy of each file it holds.                                       *)
(***************************************************************************)
EXTENDS Integers, FiniteSets

CONSTANTS
    Requests,   \* chat requests, over all pods
    Queries,    \* distinct question embeddings
    Dist,       \* cosine distance between two embeddings, scaled to Nat
    MaxDist,    \* 1 - CACHE_SIMILARITY_THRESHOLD on the same scale
    Files,      \* the PDF files an ingest run loads
    Threads,    \* threads of one pod's executor
    MaxRuns,    \* bound: ingest runs
    MaxFaults   \* bound: failing calls and pod crashes

ASSUME DistAssumption ==
    /\ Dist \in [Queries -> [Queries -> Nat]]
    /\ MaxDist \in Nat
    /\ \A q \in Queries : Dist[q][q] = 0

ASSUME BoundAssumption ==
    /\ MaxRuns \in Nat
    /\ MaxFaults \in Nat
    /\ Threads \in Nat \ {0}
    /\ IsFiniteSet(Requests)

VARIABLES
    corpus,     \* corpus[f]: the runs whose chunks of file f are in Weaviate
    collection, \* does the Weaviate collection exist?
    index,      \* does the RediSearch index rag_cache_idx exist?
    keys,       \* the rag_cache:* keys in Redis
    ttl,        \* those of them that have an expiry
    pc,         \* where each request's thread is
    ask,        \* the question of each request
    answer,     \* the answer each request holds, and the documents it rests on
    wpc,        \* where the ingestion worker is
    run,        \* number of the last ingest run started
    todo,       \* files this run has still to load
    owed,       \* keys the flush's SCAN guarantees to return
    late,       \* history: requests holding an unstored answer as the flush began
    flushed,    \* history: the last run whose flush went through
    faults      \* calls that failed and pods that crashed so far

redis  == <<index, keys, ttl>>
weaviate == <<corpus, collection>>
chat   == <<pc, ask, answer>>
worker == <<wpc, run, todo, owed, late, flushed>>
vars   == <<corpus, collection, index, keys, ttl, pc, ask, answer,
            wpc, run, todo, owed, late, flushed, faults>>

Runs   == 0..MaxRuns
Corpus == [Files -> SUBSET Runs]
Answer == [query : Queries, docs : Corpus]

\* The calls inside SemanticCache.get and SemanticCache.set, whose exceptions
\* are swallowed, and the two pipeline calls whose exceptions are not.
GetCalls == {"getEmbed", "getInfo", "getCreate", "getSearch"}
SetCalls == {"setEmbed", "setInfo", "setCreate", "setHset", "setExpire"}
Pipeline == {"retrieve", "generate"}
InFlight == GetCalls \cup SetCalls \cup Pipeline
Ended    == {"done", "failed"}

\* The request has read Weaviate and may still store what it made of it.
Holding  == {"generate", "setEmbed", "setInfo", "setCreate", "setHset"}

Empty == [f \in Files |-> {}]

Init ==
    /\ corpus = [f \in Files |-> {0}]
    /\ collection = TRUE
    /\ index \in BOOLEAN
    /\ keys = {}
    /\ ttl = {}
    /\ pc = [r \in Requests |-> "idle"]
    /\ ask \in [Requests -> Queries]
    /\ answer = [r \in Requests |-> [query |-> ask[r], docs |-> Empty]]
    /\ wpc = "idle"
    /\ run = 0
    /\ todo = {}
    /\ owed = {}
    /\ late = {}
    /\ flushed = 0
    /\ faults = 0

Goto(r, where) == pc' = [pc EXCEPT ![r] = where]

Fault == faults < MaxFaults /\ faults' = faults + 1

-----------------------------------------------------------------------------
(* A chat request *)

Arrive(r) ==
    /\ pc[r] = "idle"
    /\ Goto(r, "getEmbed")
    /\ UNCHANGED <<redis, weaviate, ask, answer, worker, faults>>

\* get_query_embedding: pure, but it can fail (CacheCallFails).
Embed(r) ==
    /\ \/ pc[r] = "getEmbed" /\ Goto(r, "getInfo")
       \/ pc[r] = "setEmbed" /\ Goto(r, "setInfo")
    /\ UNCHANGED <<redis, weaviate, ask, answer, worker, faults>>

\* _ensure_index: FT.INFO, and FT.CREATE when it raises.
IndexInfo(r) ==
    /\ \/ pc[r] = "getInfo" /\ index  /\ Goto(r, "getSearch")
       \/ pc[r] = "getInfo" /\ ~index /\ Goto(r, "getCreate")
       \/ pc[r] = "setInfo" /\ index  /\ Goto(r, "setHset")
       \/ pc[r] = "setInfo" /\ ~index /\ Goto(r, "setCreate")
    /\ UNCHANGED <<redis, weaviate, ask, answer, worker, faults>>

\* FT.CREATE raises when another request has created the index meanwhile; the
\* lookup then counts as a miss and the store is skipped.
IndexCreate(r) ==
    /\ \/ pc[r] = "getCreate" /\ Goto(r, IF index THEN "retrieve" ELSE "getSearch")
       \/ pc[r] = "setCreate" /\ Goto(r, IF index THEN "done" ELSE "setHset")
    /\ index' = TRUE
    /\ UNCHANGED <<keys, ttl, weaviate, ask, answer, worker, faults>>

\* The keys KNN 1 may return for the question of r.
Nearest(r) ==
    {k \in keys : \A j \in keys : Dist[ask[r]][ask[k]] <= Dist[ask[r]][ask[j]]}

\* Mutant: a hit is stored again under the new question's embedding.
SearchHitStoresAgain(r) ==
    /\ pc[r] = "getSearch"
    /\ index
    /\ \E k \in Nearest(r) :
          /\ Dist[ask[r]][ask[k]] <= MaxDist
          /\ answer' = [answer EXCEPT ![r] = answer[k]]
    /\ Goto(r, "setEmbed")
    /\ UNCHANGED <<redis, weaviate, ask, worker, faults>>

SearchHit(r) ==
    /\ pc[r] = "getSearch"
    /\ index
    /\ \E k \in Nearest(r) :
          /\ Dist[ask[r]][ask[k]] <= MaxDist
          /\ answer' = [answer EXCEPT ![r] = answer[k]]
    /\ Goto(r, "done")
    /\ UNCHANGED <<redis, weaviate, ask, worker, faults>>

\* Mutant: FT.SEARCH on an index dropped since FT.INFO is not caught.
SearchMissNeedsIndex(r) ==
    /\ pc[r] = "getSearch"
    /\ index /\ \A k \in Nearest(r) : Dist[ask[r]][ask[k]] > MaxDist
    /\ Goto(r, "retrieve")
    /\ UNCHANGED <<redis, weaviate, ask, answer, worker, faults>>

\* No entry, none near enough, or the index was dropped since FT.INFO.
SearchMiss(r) ==
    /\ pc[r] = "getSearch"
    /\ index => \A k \in Nearest(r) : Dist[ask[r]][ask[k]] > MaxDist
    /\ Goto(r, "retrieve")
    /\ UNCHANGED <<redis, weaviate, ask, answer, worker, faults>>

\* near_vector on the collection as it is now; it raises when the collection
\* is missing.  The answer that will be generated is fixed by these documents.
Retrieve(r) ==
    /\ pc[r] = "retrieve"
    /\ \/ /\ collection
          /\ answer' = [answer EXCEPT ![r] = [query |-> ask[r], docs |-> corpus]]
          /\ Goto(r, "generate")
       \/ /\ ~collection
          /\ Goto(r, "failed")
          /\ UNCHANGED answer
    /\ UNCHANGED <<redis, weaviate, ask, worker, faults>>

Generate(r) ==
    /\ pc[r] = "generate"
    /\ Goto(r, "setEmbed")
    /\ UNCHANGED <<redis, weaviate, ask, answer, worker, faults>>

\* Mutant: EXPIRE is forgotten.
HsetOnly(r) ==
    /\ pc[r] = "setHset"
    /\ keys' = keys \cup {r}
    /\ Goto(r, "done")
    /\ UNCHANGED <<index, ttl, weaviate, ask, answer, worker, faults>>

\* HSET under a fresh uuid, without an expiry yet.
Hset(r) ==
    /\ pc[r] = "setHset"
    /\ keys' = keys \cup {r}
    /\ Goto(r, "setExpire")
    /\ UNCHANGED <<index, ttl, weaviate, ask, answer, worker, faults>>

\* EXPIRE; it does nothing to a key that a flush has deleted meanwhile.
SetExpire(r) ==
    /\ pc[r] = "setExpire"
    /\ ttl' = ttl \cup ({r} \cap keys)
    /\ Goto(r, "done")
    /\ UNCHANGED <<index, keys, weaviate, ask, answer, worker, faults>>

\* Any call of get or set raises: get returns None, set gives up.
CacheCallFails(r) ==
    /\ Fault
    /\ \/ pc[r] \in GetCalls /\ Goto(r, "retrieve")
       \/ pc[r] \in SetCalls /\ Goto(r, "done")
    /\ UNCHANGED <<redis, weaviate, ask, answer, worker>>

\* Retrieval, reranking or the LLM raises: the request fails.
PipelineFails(r) ==
    /\ Fault
    /\ pc[r] \in Pipeline
    /\ Goto(r, "failed")
    /\ UNCHANGED <<redis, weaviate, ask, answer, worker>>

\* A pod dies with all its threads.  Its requests may be any of those in flight, for
\* requests come to any pod.
PodCrash ==
    /\ Fault
    /\ \E down \in SUBSET {r \in Requests : pc[r] \in InFlight} :
          /\ down # {} /\ Cardinality(down) <= Threads
          /\ pc' = [r \in Requests |-> IF r \in down THEN "failed" ELSE pc[r]]
    /\ UNCHANGED <<redis, weaviate, ask, answer, worker>>

\* Redis evicts a key whose time is up.
TtlExpires(r) ==
    /\ r \in keys \cap ttl
    /\ keys' = keys \ {r}
    /\ ttl' = ttl \ {r}
    /\ UNCHANGED <<index, weaviate, chat, worker, faults>>

-----------------------------------------------------------------------------
(* The ingestion worker *)

StartRun ==
    /\ wpc = "idle"
    /\ run < MaxRuns
    /\ run' = run + 1
    /\ todo' = Files
    /\ wpc' \in {"delete", "load"}          \* with and without --recreate
    /\ UNCHANGED <<owed, late, flushed, redis, weaviate, chat, faults>>

DeleteCollection ==
    /\ wpc = "delete"
    /\ corpus' = Empty
    /\ collection' = FALSE
    /\ wpc' = "create"
    /\ UNCHANGED <<run, todo, owed, late, flushed, redis, chat, faults>>

CreateCollection ==
    /\ wpc = "create"
    /\ collection' = TRUE
    /\ wpc' = "load"
    /\ UNCHANGED <<run, todo, owed, late, flushed, corpus, redis, chat, faults>>

\* batch_load of one file; without --recreate the earlier copies stay.  A
\* missing collection is created by the first object (Weaviate's auto-schema).
LoadFile(f) ==
    /\ wpc = "load"
    /\ f \in todo
    /\ corpus' = [corpus EXCEPT ![f] = @ \cup {run}]
    /\ collection' = TRUE
    /\ todo' = todo \ {f}
    /\ UNCHANGED <<wpc, run, owed, late, flushed, redis, chat, faults>>

\* All files are in: flush starts its scan.
BeginFlush ==
    /\ wpc = "load"
    /\ todo = {}
    /\ owed' = keys
    /\ late' = {r \in Requests : pc[r] \in Holding}
    /\ wpc' = "flush"
    /\ UNCHANGED <<run, todo, flushed, redis, weaviate, chat, faults>>

\* SCAN may also return keys that were added after it began.
FlushKey(r) ==
    /\ wpc = "flush"
    /\ r \in keys
    /\ keys' = keys \ {r}
    /\ ttl' = ttl \ {r}
    /\ UNCHANGED <<index, weaviate, chat, worker, faults>>

\* Mutant: one page of SCAN is taken for the whole keyspace.
EndScanFirstPage ==
    /\ wpc = "flush"
    /\ wpc' = "drop"
    /\ UNCHANGED <<run, todo, owed, late, flushed, redis, weaviate, chat, faults>>

\* SCAN has returned every key that was there throughout.
EndScan ==
    /\ wpc = "flush"
    /\ owed \cap keys = {}
    /\ wpc' = "drop"
    /\ UNCHANGED <<run, todo, owed, late, flushed, redis, weaviate, chat, faults>>

DropIndex ==
    /\ wpc = "drop"
    /\ index' = FALSE
    /\ flushed' = run
    /\ wpc' = "idle"
    /\ UNCHANGED <<run, todo, owed, late, keys, ttl, weaviate, chat, faults>>

\* main() catches whatever connect, the schema calls or batch_load raise; some
\* chunks of the file being loaded may already be in.
RunFails ==
    /\ Fault
    /\ wpc \in {"delete", "create", "load"}
    /\ \/ UNCHANGED weaviate
       \/ \E f \in todo :
             /\ wpc = "load"
             /\ corpus' = [corpus EXCEPT ![f] = @ \cup {run}]
             /\ collection' = TRUE
    /\ wpc' = "idle"
    /\ UNCHANGED <<run, todo, owed, late, flushed, redis, chat>>

\* flush() catches what Redis raises; main() goes on as after a full flush.
FlushFails ==
    /\ Fault
    /\ wpc \in {"flush", "drop"}
    /\ wpc' = "idle"
    /\ UNCHANGED <<run, todo, owed, late, flushed, redis, weaviate, chat>>

-----------------------------------------------------------------------------
RequestStep(r) ==
    \/ Embed(r) \/ IndexInfo(r) \/ IndexCreate(r)
    \/ SearchHit(r) \/ SearchMiss(r)
    \/ Retrieve(r) \/ Generate(r)
    \/ Hset(r) \/ SetExpire(r)

RequestFault(r) == CacheCallFails(r) \/ PipelineFails(r)

WorkerStep ==
    \/ DeleteCollection \/ CreateCollection
    \/ \E f \in Files : LoadFile(f)
    \/ BeginFlush
    \/ \E r \in Requests : FlushKey(r)
    \/ EndScan \/ DropIndex

Next ==
    \/ \E r \in Requests :
          Arrive(r) \/ RequestStep(r) \/ RequestFault(r) \/ TtlExpires(r)
    \/ PodCrash
    \/ StartRun \/ WorkerStep \/ RunFails \/ FlushFails

\* Threads and the worker run on; Redis evicts what has expired.  Requests need
\* not come, nobody need start an ingest, nothing need fail.
Fairness ==
    /\ \A r \in Requests : WF_vars(RequestStep(r)) /\ WF_vars(TtlExpires(r))
    /\ WF_vars(WorkerStep)

Spec     == Init /\ [][Next]_vars
FairSpec == Spec /\ Fairness

-----------------------------------------------------------------------------
TypeOK ==
    /\ corpus \in Corpus
    /\ collection \in BOOLEAN
    /\ index \in BOOLEAN
    /\ keys \subseteq Requests
    /\ ttl \subseteq keys
    /\ pc \in [Requests -> {"idle"} \cup InFlight \cup Ended]
    /\ ask \in [Requests -> Queries]
    /\ answer \in [Requests -> Answer]
    /\ wpc \in {"idle", "delete", "create", "load", "flush", "drop"}
    /\ run \in Runs
    /\ todo \subseteq Files
    /\ owed \subseteq Requests
    /\ late \subseteq Requests
    /\ flushed \in 0..run
    /\ faults \in 0..MaxFaults

-----------------------------------------------------------------------------
(* Properties *)

Outdated(r) == answer[r].docs # corpus

\* The last ingest has run to its end, flush included.
FlushComplete == wpc = "idle" /\ run > 0 /\ flushed = run

\* After an ingest that flushed, an entry resting on other documents than the
\* collection now holds can only come from a request that held its answer,
\* unstored, when the flush began: the scan-and-delete loop lets nothing older
\* survive, however stores, evictions and the scan interleave.
OnlyLateStoresAreOutdated ==
    FlushComplete => \A k \in keys : Outdated(k) => k \in late

\* An answer is only ever served to a question within the threshold of the
\* question it was generated for: since a hit is not stored again, similarity
\* never chains from one cached question to the next.
NoSimilarityDrift ==
    \A r \in Requests :
        pc[r] = "done" => Dist[ask[r]][answer[r].query] <= MaxDist

PermanentKeys == {k \in keys \ ttl : pc[k] # "setExpire"}

\* Keys that have no expiry and will get none were left behind by failures between
\* HSET and EXPIRE: a call that raises leaves one at most, a pod that goes down one
\* for each of its threads at most (set in semantic_cache.py).
PermanentKeysNeedFaults == Cardinality(PermanentKeys) <= Threads * faults

\* A request that has entered the pipeline gets its answer or its error, no
\* matter how the index comes and goes under it.
RequestsEnd == \A r \in Requests : pc[r] \in InFlight ~> pc[r] \in Ended

\* The ingestion worker comes to its end although requests keep storing keys
\* while it scans.
RunsEnd == wpc # "idle" ~> wpc = "idle"

\* Every entry goes away in the end (redis-semantic-cache.md: the TTL auto-evicts
\* old entries), unless something has failed; what failures cost is
\* PermanentKeysNeedFaults.
EntriesAreEvicted ==
    \A r \in Requests : r \in keys ~> r \notin keys \/ faults > 0

\* Requests, runs and entries all come to an end, in whatever order they meet.
EverythingEnds == RequestsEnd /\ RunsEnd /\ EntriesAreEvicted

\* No request is answered from an entry that predates the documents of the
\* last flushed ingest (redis-semantic-cache.md: subsequent queries do not
\* return answers based on old data).
NoOutdatedHit ==
    [][\A r \in Requests :
          SearchHit(r) /\ FlushComplete => answer'[r].docs = corpus]_vars
===============================================================================
