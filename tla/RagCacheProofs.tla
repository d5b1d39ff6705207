---------------------------- MODULE RagCacheProofs ----------------------------
(***************************************************************************)
(* Proofs about RagCache, for any number of requests, questions, files and *)
(* ingest runs.                                                            *)
(***************************************************************************)
EXTENDS RagCache, FiniteSetTheorems, TLAPS

\* The initial states are typed.
LEMMA InitTypeOK == Init => TypeOK
<1> SUFFICES ASSUME Init PROVE TypeOK
  OBVIOUS
<1>1. 0 \in Runs
  BY BoundAssumption DEF Runs
<1>2. corpus \in Corpus /\ Empty \in Corpus
  BY <1>1 DEF Init, Corpus, Empty
<1>3. answer \in [Requests -> Answer]
  BY <1>2 DEF Init, Answer
<1>4. QED
  BY <1>1, <1>2, <1>3, BoundAssumption DEF Init, TypeOK

\* Type correctness is inductive: every step of a request, of Redis and of the
\* worker leaves each variable in its range, and ttl within keys.
LEMMA StepTypeOK == TypeOK /\ [Next]_vars => TypeOK'
<1> SUFFICES ASSUME TypeOK, [Next]_vars PROVE TypeOK'
  OBVIOUS
<1> USE BoundAssumption DEF TypeOK, InFlight, GetCalls, SetCalls, Pipeline, Ended
<1>1. ASSUME NEW r \in Requests, Arrive(r) PROVE TypeOK'
  BY <1>1 DEF Arrive, Goto, redis, weaviate, worker
<1>2. ASSUME NEW r \in Requests, Embed(r) PROVE TypeOK'
  BY <1>2 DEF Embed, Goto, redis, weaviate, worker
<1>3. ASSUME NEW r \in Requests, IndexInfo(r) PROVE TypeOK'
  BY <1>3 DEF IndexInfo, Goto, redis, weaviate, worker
<1>4. ASSUME NEW r \in Requests, IndexCreate(r) PROVE TypeOK'
  BY <1>4 DEF IndexCreate, Goto, weaviate, worker
<1>5. ASSUME NEW r \in Requests, SearchHit(r) PROVE TypeOK'
  <2>1. answer' \in [Requests -> Answer]
    BY <1>5 DEF SearchHit, Nearest
  <2>2. QED
    BY <1>5, <2>1 DEF SearchHit, Goto, redis, weaviate, worker
<1>6. ASSUME NEW r \in Requests, SearchMiss(r) PROVE TypeOK'
  BY <1>6 DEF SearchMiss, Goto, redis, weaviate, worker
<1>7. ASSUME NEW r \in Requests, Retrieve(r) PROVE TypeOK'
  <2>1. answer' \in [Requests -> Answer]
    BY <1>7 DEF Retrieve, Answer
  <2>2. QED
    BY <1>7, <2>1 DEF Retrieve, Goto, redis, weaviate, worker
<1>8. ASSUME NEW r \in Requests, Generate(r) PROVE TypeOK'
  BY <1>8 DEF Generate, Goto, redis, weaviate, worker
<1>9. ASSUME NEW r \in Requests, Hset(r) PROVE TypeOK'
  BY <1>9 DEF Hset, Goto, weaviate, worker
<1>10. ASSUME NEW r \in Requests, SetExpire(r) PROVE TypeOK'
  BY <1>10 DEF SetExpire, Goto, weaviate, worker
<1>11. ASSUME NEW r \in Requests, RequestFault(r) PROVE TypeOK'
  BY <1>11 DEF RequestFault, CacheCallFails, PipelineFails, Fault, Goto,
     redis, weaviate, worker
<1>0. CASE PodCrash
  BY <1>0 DEF PodCrash, Fault, redis, weaviate, worker
<1>12. ASSUME NEW r \in Requests, TtlExpires(r) PROVE TypeOK'
  BY <1>12 DEF TtlExpires, weaviate, chat, worker
<1>13. CASE StartRun
  BY <1>13 DEF StartRun, Runs, redis, weaviate, chat
<1>14. CASE DeleteCollection
  BY <1>14 DEF DeleteCollection, Corpus, Empty, redis, chat
<1>15. CASE CreateCollection
  BY <1>15 DEF CreateCollection, redis, chat
<1>16. ASSUME NEW f \in Files, LoadFile(f) PROVE TypeOK'
  BY <1>16 DEF LoadFile, Corpus, redis, chat
<1>17. CASE BeginFlush
  BY <1>17 DEF BeginFlush, redis, weaviate, chat
<1>18. ASSUME NEW r \in Requests, FlushKey(r) PROVE TypeOK'
  BY <1>18 DEF FlushKey, weaviate, chat, worker
<1>19. CASE EndScan
  BY <1>19 DEF EndScan, redis, weaviate, chat
<1>20. CASE DropIndex
  <2>1. flushed' \in 0..run'
    BY <1>20 DEF DropIndex, Runs
  <2>2. QED
    BY <1>20, <2>1 DEF DropIndex, weaviate, chat
<1>21. CASE RunFails
  <2>1. corpus' \in Corpus /\ collection' \in BOOLEAN
    BY <1>21 DEF RunFails, Corpus, weaviate
  <2>2. QED
    BY <1>21, <2>1 DEF RunFails, Fault, redis, chat
<1>22. CASE FlushFails
  BY <1>22 DEF FlushFails, Fault, redis, weaviate, chat
<1>23. CASE UNCHANGED vars
  BY <1>23 DEF vars
<1>24. QED
  BY <1>0, <1>1, <1>2, <1>3, <1>4, <1>5, <1>6, <1>7, <1>8, <1>9, <1>10, <1>11, <1>12,
     <1>13, <1>14, <1>15, <1>16, <1>17, <1>18, <1>19, <1>20, <1>21, <1>22, <1>23
     DEF Next, RequestStep, WorkerStep

\* Every variable stays in its range, whatever requests, failures and ingests do.
THEOREM TypeCorrect == Spec => []TypeOK
  BY InitTypeOK, StepTypeOK, PTL DEF Spec

-----------------------------------------------------------------------------
(* Cached answers and their questions *)

\* A key is written when its request is done with its answer.
StoredAnswersFinal == \A k \in keys : pc[k] \in {"setExpire"} \cup Ended

\* What a request stores, or is about to store, it made for its own question.
StoredAnswersOwn ==
    \A r \in Requests :
        pc[r] \in Holding \cup {"setExpire"} \/ r \in keys
            => answer[r].query = ask[r]

LookupInv == StoredAnswersFinal /\ StoredAnswersOwn /\ NoSimilarityDrift

\* The lookup invariant reads nothing but these, so the worker, which at most
\* deletes keys, cannot break it.
LEMMA LookupInvKeysShrink ==
  ASSUME LookupInv, UNCHANGED chat, keys' \subseteq keys
  PROVE  LookupInv'
BY DEF LookupInv, StoredAnswersFinal, StoredAnswersOwn, NoSimilarityDrift, chat

\* The ingestion worker touches no request, and only removes keys.
LEMMA WorkerLeavesChat ==
  ASSUME StartRun \/ WorkerStep \/ RunFails \/ FlushFails
  PROVE  UNCHANGED chat /\ keys' \subseteq keys
BY DEF StartRun, WorkerStep, RunFails, FlushFails, DeleteCollection,
       CreateCollection, LoadFile, BeginFlush, FlushKey, EndScan, DropIndex,
       redis, chat

\* A question is within the threshold of itself.
LEMMA OwnQuestionIsNear == \A q \in Queries : Dist[q][q] <= MaxDist
BY DistAssumption

\* Every step keeps stored and served answers within the threshold.
LEMMA StepLookupInv == TypeOK /\ LookupInv /\ [Next]_vars => LookupInv'
<1> SUFFICES ASSUME TypeOK, LookupInv, [Next]_vars PROVE LookupInv'
  OBVIOUS
<1> USE OwnQuestionIsNear DEF LookupInv, StoredAnswersFinal, StoredAnswersOwn,
        NoSimilarityDrift, TypeOK, Holding, InFlight, GetCalls, SetCalls,
        Pipeline, Ended
<1>1. ASSUME NEW r \in Requests, Arrive(r) PROVE LookupInv'
  BY <1>1 DEF Arrive, Goto, redis
<1>2. ASSUME NEW r \in Requests, Embed(r) PROVE LookupInv'
  BY <1>2 DEF Embed, Goto, redis
<1>3. ASSUME NEW r \in Requests, IndexInfo(r) PROVE LookupInv'
  BY <1>3 DEF IndexInfo, Goto, redis
<1>4. ASSUME NEW r \in Requests, IndexCreate(r) PROVE LookupInv'
  <2>1. CASE pc[r] = "getCreate"
    BY <1>4, <2>1 DEF IndexCreate, Goto
  <2>2. CASE pc[r] = "setCreate"
    BY <1>4, <2>2 DEF IndexCreate, Goto
  <2>3. QED
    BY <1>4, <2>1, <2>2 DEF IndexCreate
<1>5. ASSUME NEW r \in Requests, SearchHit(r) PROVE LookupInv'
  <2>1. PICK k \in keys : /\ Dist[ask[r]][ask[k]] <= MaxDist
                          /\ answer' = [answer EXCEPT ![r] = answer[k]]
    BY <1>5 DEF SearchHit, Nearest
  <2>2. answer'[r].query = ask[k]
    BY <2>1
  <2>3. r \notin keys
    BY <1>5 DEF SearchHit
  <2>4. QED
    BY <1>5, <2>1, <2>2, <2>3 DEF SearchHit, Goto, redis
<1>6. ASSUME NEW r \in Requests, SearchMiss(r) PROVE LookupInv'
  BY <1>6 DEF SearchMiss, Goto, redis
<1>7. ASSUME NEW r \in Requests, Retrieve(r) PROVE LookupInv'
  BY <1>7 DEF Retrieve, Goto, redis
<1>8. ASSUME NEW r \in Requests, Generate(r) PROVE LookupInv'
  BY <1>8 DEF Generate, Goto, redis
<1>9. ASSUME NEW r \in Requests, Hset(r) PROVE LookupInv'
  BY <1>9 DEF Hset, Goto
<1>10. ASSUME NEW r \in Requests, SetExpire(r) PROVE LookupInv'
  <2>1. Dist[ask[r]][answer[r].query] <= MaxDist
    BY <1>10 DEF SetExpire
  <2>2. QED
    BY <1>10, <2>1 DEF SetExpire, Goto
<1>11. ASSUME NEW r \in Requests, RequestFault(r) PROVE LookupInv'
  BY <1>11 DEF RequestFault, CacheCallFails, PipelineFails, Goto, redis
<1>0. CASE PodCrash
  BY <1>0 DEF PodCrash, redis
<1>12. ASSUME NEW r \in Requests, TtlExpires(r) PROVE LookupInv'
  BY <1>12, LookupInvKeysShrink DEF TtlExpires
<1>13. CASE StartRun \/ WorkerStep \/ RunFails \/ FlushFails
  BY <1>13, WorkerLeavesChat, LookupInvKeysShrink
<1>14. CASE UNCHANGED vars
  BY <1>14, LookupInvKeysShrink DEF vars, chat
<1>15. QED
  BY <1>0, <1>1, <1>2, <1>3, <1>4, <1>5, <1>6, <1>7, <1>8, <1>9, <1>10, <1>11, <1>12,
     <1>13, <1>14 DEF Next, RequestStep

\* No request is ever served an answer made for a question further away than
\* the threshold: cached answers do not drift along chains of similar questions.
THEOREM SimilarityDoesNotDrift == Spec => []NoSimilarityDrift
<1>1. Init => LookupInv
  BY DistAssumption DEF Init, LookupInv, StoredAnswersFinal, StoredAnswersOwn,
     NoSimilarityDrift, Holding
<1>2. LookupInv => NoSimilarityDrift
  BY DEF LookupInv
<1>3. QED
  BY <1>1, <1>2, StepLookupInv, TypeCorrect, PTL DEF Spec

-----------------------------------------------------------------------------
(* Flushes *)

\* A run is not counted as flushed before its flush is through.
RunBusy == wpc # "idle" => flushed < run

\* From the moment the files are loaded until the next run starts, the
\* documents stay put and every request holding an older answer is known.
HoldersKnown ==
    wpc \in {"flush", "drop"} \/ FlushComplete
        => \A r \in Requests : pc[r] \in Holding /\ Outdated(r) => r \in late

\* While SCAN runs, an outdated entry is one it still owes or a late one.
ScanCovers ==
    wpc = "flush" => \A k \in keys : Outdated(k) => k \in late \cup owed

ScanCovered ==
    wpc = "drop" \/ FlushComplete => \A k \in keys : Outdated(k) => k \in late

FlushInv == RunBusy /\ HoldersKnown /\ ScanCovers /\ ScanCovered

\* FlushInv survives any step that leaves the worker and the documents alone,
\* gives no request an outdated answer to hold and adds no key.
LEMMA FlushInvHolders ==
  ASSUME FlushInv, UNCHANGED <<corpus, worker>>,
         \A r \in Requests : pc'[r] \in Holding =>
            \/ pc[r] \in Holding /\ answer'[r] = answer[r]
            \/ answer'[r].docs = corpus,
         \A k \in keys' : k \in keys /\ answer'[k] = answer[k],
         keys \subseteq Requests
  PROVE  FlushInv'
BY DEF FlushInv, RunBusy, HoldersKnown, ScanCovers, ScanCovered, FlushComplete,
       Outdated, worker

\* Every step keeps what is known of a flush in progress.
LEMMA StepFlushInv ==
  TypeOK /\ StoredAnswersFinal /\ FlushInv /\ [Next]_vars => FlushInv'
<1> SUFFICES ASSUME TypeOK, StoredAnswersFinal, FlushInv, [Next]_vars PROVE FlushInv'
  OBVIOUS
<1>1. ASSUME NEW r \in Requests, Arrive(r) \/ RequestFault(r) PROVE FlushInv'
  BY <1>1, FlushInvHolders DEF Arrive, RequestFault, CacheCallFails,
     PipelineFails, Goto, redis, weaviate, TypeOK, Holding
<1>0. CASE PodCrash
  BY <1>0, FlushInvHolders DEF PodCrash, redis, weaviate, TypeOK, Holding
<1>2. ASSUME NEW r \in Requests, Embed(r) \/ IndexInfo(r) PROVE FlushInv'
  BY <1>2, FlushInvHolders DEF Embed, IndexInfo, Goto, redis, weaviate, TypeOK, Holding
<1>3. ASSUME NEW r \in Requests, IndexCreate(r) PROVE FlushInv'
  BY <1>3, FlushInvHolders DEF IndexCreate, Goto, redis, weaviate, TypeOK, Holding
<1>4. ASSUME NEW r \in Requests, SearchHit(r) \/ SearchMiss(r) PROVE FlushInv'
  <2>1. r \notin keys
    BY <1>4 DEF SearchHit, SearchMiss, StoredAnswersFinal, Ended
  <2>2. QED
    BY <1>4, <2>1, FlushInvHolders DEF SearchHit, SearchMiss, Goto, redis, weaviate,
       TypeOK, Holding
<1>5. ASSUME NEW r \in Requests, Retrieve(r) PROVE FlushInv'
  <2>1. r \notin keys
    BY <1>5 DEF Retrieve, StoredAnswersFinal, Ended
  <2>2. QED
    BY <1>5, <2>1, FlushInvHolders DEF Retrieve, Goto, redis, weaviate, TypeOK, Holding
<1>6. ASSUME NEW r \in Requests, Generate(r) \/ SetExpire(r) PROVE FlushInv'
  BY <1>6, FlushInvHolders DEF Generate, SetExpire, Goto, redis, weaviate, TypeOK, Holding
<1>7. ASSUME NEW r \in Requests, Hset(r) PROVE FlushInv'
  BY <1>7 DEF Hset, Goto, weaviate, worker, TypeOK, Holding, FlushInv, RunBusy,
     HoldersKnown, ScanCovers, ScanCovered, FlushComplete, Outdated
<1>8. ASSUME NEW r \in Requests, TtlExpires(r) \/ FlushKey(r) PROVE FlushInv'
  BY <1>8, FlushInvHolders DEF TtlExpires, FlushKey, weaviate, chat, TypeOK
<1>9. CASE StartRun
  BY <1>9 DEF StartRun, TypeOK, Runs, FlushInv, RunBusy, HoldersKnown, ScanCovers,
     ScanCovered, FlushComplete
<1>10. CASE DeleteCollection \/ CreateCollection \/ \E f \in Files : LoadFile(f)
  BY <1>10 DEF DeleteCollection, CreateCollection, LoadFile, FlushInv, RunBusy,
     HoldersKnown, ScanCovers, ScanCovered, FlushComplete
<1>11. CASE BeginFlush
  BY <1>11 DEF BeginFlush, redis, weaviate, chat, TypeOK, FlushInv, RunBusy,
     HoldersKnown, ScanCovers, ScanCovered, FlushComplete, Outdated
<1>12. CASE EndScan
  BY <1>12 DEF EndScan, redis, weaviate, chat, FlushInv, RunBusy,
     HoldersKnown, ScanCovers, ScanCovered, FlushComplete, Outdated
<1>13. CASE DropIndex
  BY <1>13 DEF DropIndex, weaviate, chat, FlushInv, RunBusy,
     HoldersKnown, ScanCovers, ScanCovered, FlushComplete, Outdated
<1>14. CASE RunFails \/ FlushFails
  <2>1. wpc' = "idle" /\ run' = run /\ flushed' = flushed /\ wpc # "idle"
    BY <1>14 DEF RunFails, FlushFails
  <2>2. run' # flushed'
    BY <2>1, BoundAssumption DEF FlushInv, RunBusy, TypeOK, Runs
  <2>3. QED
    BY <2>1, <2>2 DEF FlushInv, RunBusy, HoldersKnown, ScanCovers, ScanCovered,
       FlushComplete
<1>15. CASE UNCHANGED vars
  BY <1>15, FlushInvHolders DEF vars, worker, TypeOK
<1>16. QED
  BY <1>0, <1>1, <1>2, <1>3, <1>4, <1>5, <1>6, <1>7, <1>8, <1>9, <1>10, <1>11, <1>12,
     <1>13, <1>14, <1>15 DEF Next, RequestStep, WorkerStep

\* However requests, evictions and failures interleave with the worker's loads
\* and its key-by-key flush, the only outdated entries after a completed ingest
\* come from the requests that held them, unstored, as the flush began.
THEOREM FlushLeavesOnlyLateStores == Spec => []OnlyLateStoresAreOutdated
<1>1. Init => LookupInv /\ FlushInv
  BY DistAssumption DEF Init, LookupInv, StoredAnswersFinal, StoredAnswersOwn,
     NoSimilarityDrift, Holding, FlushInv, RunBusy, HoldersKnown, ScanCovers,
     ScanCovered, FlushComplete
<1>2. TypeOK /\ LookupInv /\ FlushInv /\ [Next]_vars => LookupInv' /\ FlushInv'
  BY StepLookupInv, StepFlushInv DEF LookupInv
<1>3. FlushInv => OnlyLateStoresAreOutdated
  BY DEF FlushInv, ScanCovered, OnlyLateStoresAreOutdated
<1>4. QED
  BY <1>1, <1>2, <1>3, TypeCorrect, PTL DEF Spec

-----------------------------------------------------------------------------
(* Keys without an expiry *)

\* A step after which a pod's keys more may lack their expiry, paid for by a fault,
\* keeps their number within what the faults allow.
LEMMA MorePermanentKeys ==
  ASSUME TypeOK, TypeOK', PermanentKeysNeedFaults,
         \/ PermanentKeys' \subseteq PermanentKeys /\ faults' \in {faults, faults + 1}
         \/ /\ faults' = faults + 1
            /\ \E down \in SUBSET Requests : /\ Cardinality(down) <= Threads
                                            /\ PermanentKeys' \subseteq PermanentKeys \cup down
  PROVE  PermanentKeysNeedFaults'
<1>1. IsFiniteSet(PermanentKeys)
  BY BoundAssumption, FS_Subset DEF PermanentKeys, TypeOK
<1>2. Cardinality(PermanentKeys) \in Nat
  BY <1>1, FS_CardinalityType
<1>3. faults \in Nat /\ faults' \in Nat /\ Threads \in Nat
  BY BoundAssumption DEF TypeOK
<1>4. Threads * (faults + 1) = Threads * faults + Threads /\ Threads * faults \in Nat
  <2>1. \A n, m \in Nat : n * (m + 1) = n * m + n /\ n * m \in Nat
    OBVIOUS
  <2>2. QED
    BY <1>3, <2>1
<1>5. CASE PermanentKeys' \subseteq PermanentKeys /\ faults' \in {faults, faults + 1}
  <2>1. /\ IsFiniteSet(PermanentKeys')
        /\ Cardinality(PermanentKeys') <= Cardinality(PermanentKeys)
    BY <1>1, <1>5, FS_Subset
  <2>2. Cardinality(PermanentKeys') \in Nat
    BY <2>1, FS_CardinalityType
  <2>3. Threads * faults' \in {Threads * faults, Threads * faults + Threads}
    BY <1>4, <1>5
  <2>4. Cardinality(PermanentKeys) <= Threads * faults
    BY DEF PermanentKeysNeedFaults
  <2>5. QED
    BY <1>2, <1>3, <1>4, <2>1, <2>2, <2>3, <2>4 DEF PermanentKeysNeedFaults
<1>6. ASSUME faults' = faults + 1, NEW down \in SUBSET Requests, Cardinality(down) <= Threads,
             PermanentKeys' \subseteq PermanentKeys \cup down
      PROVE  PermanentKeysNeedFaults'
  <2>1. IsFiniteSet(down) /\ Cardinality(down) \in Nat
    BY BoundAssumption, FS_Subset, FS_CardinalityType
  <2>2. /\ IsFiniteSet(PermanentKeys \cup down)
        /\ Cardinality(PermanentKeys \cup down) <= Cardinality(PermanentKeys) + Cardinality(down)
    <3>1. PermanentKeys \cap down \subseteq down
      OBVIOUS
    <3>2. Cardinality(PermanentKeys \cap down) \in Nat
      BY <2>1, <3>1, FS_Subset, FS_CardinalityType
    <3>3. /\ IsFiniteSet(PermanentKeys \cup down)
          /\ Cardinality(PermanentKeys \cup down) =
                Cardinality(PermanentKeys) + Cardinality(down) - Cardinality(PermanentKeys \cap down)
      BY <1>1, <2>1, FS_Union
    <3>4. QED
      BY <1>2, <2>1, <3>2, <3>3
  <2>3. /\ IsFiniteSet(PermanentKeys')
        /\ Cardinality(PermanentKeys') <= Cardinality(PermanentKeys \cup down)
    BY <1>6, <2>2, FS_Subset
  <2>4. /\ Cardinality(PermanentKeys') \in Nat
        /\ Cardinality(PermanentKeys \cup down) \in Nat
    BY <2>2, <2>3, FS_CardinalityType
  <2>5. Cardinality(PermanentKeys') <= Threads * faults + Threads
    BY <1>2, <1>3, <1>4, <1>6, <2>1, <2>2, <2>3, <2>4 DEF PermanentKeysNeedFaults
  <2>6. QED
    BY <1>4, <1>6, <2>5 DEF PermanentKeysNeedFaults
<1>7. QED
  BY <1>5, <1>6

\* Keys without expiry are on their way to one, or failures between HSET and EXPIRE
\* are to blame, each for as many keys at most as a pod has threads.
THEOREM PermanentKeysBounded == Spec => []PermanentKeysNeedFaults
<1>1. Init => PermanentKeysNeedFaults
  <2>1. Init => PermanentKeys = {} /\ faults = 0
    BY DEF Init, PermanentKeys
  <2>2. Threads * 0 = 0 /\ Cardinality({}) = 0
    BY BoundAssumption, FS_EmptySet
  <2>3. QED
    BY <2>1, <2>2 DEF PermanentKeysNeedFaults
<1>2. ASSUME TypeOK, TypeOK', LookupInv, PermanentKeysNeedFaults, [Next]_vars
      PROVE  PermanentKeysNeedFaults'
  <2>0. faults \in Int
    BY <1>2, BoundAssumption DEF TypeOK
  <2>1. ASSUME NEW r \in Requests, RequestFault(r) PROVE PermanentKeysNeedFaults'
    <3>1. PermanentKeys' \subseteq PermanentKeys \cup {r} /\ faults' = faults + 1
      BY <1>2, <2>1 DEF RequestFault, CacheCallFails, PipelineFails, Fault,
         Goto, redis, PermanentKeys, TypeOK
    <3>2. Cardinality({r}) <= Threads
      <4>1. Cardinality({r}) = 1
        BY FS_Singleton, Zenon
      <4>2. QED
        BY <4>1, BoundAssumption
    <3>3. QED
      BY <1>2, <3>1, <3>2, MorePermanentKeys
  <2>6. CASE PodCrash
    <3>1. PICK down \in SUBSET Requests :
              /\ Cardinality(down) <= Threads
              /\ pc' = [r \in Requests |-> IF r \in down THEN "failed" ELSE pc[r]]
      BY <2>6 DEF PodCrash
    <3>2. PermanentKeys' \subseteq PermanentKeys \cup down /\ faults' = faults + 1
      BY <1>2, <2>6, <3>1 DEF PodCrash, Fault, redis, PermanentKeys, TypeOK
    <3>3. QED
      BY <1>2, <3>1, <3>2, MorePermanentKeys
  <2>2. ASSUME NEW r \in Requests, Arrive(r) \/ RequestStep(r) \/ TtlExpires(r)
        PROVE  PermanentKeys' \subseteq PermanentKeys /\ faults' = faults
    <3>1. CASE Arrive(r) \/ Embed(r) \/ IndexInfo(r) \/ IndexCreate(r)
               \/ SearchHit(r) \/ SearchMiss(r) \/ Retrieve(r) \/ Generate(r)
      BY <1>2, <3>1 DEF Arrive, Embed, IndexInfo, IndexCreate, SearchHit, SearchMiss,
         Retrieve, Generate, Goto, redis, PermanentKeys, TypeOK, LookupInv,
         StoredAnswersFinal, Ended
    <3>2. CASE Hset(r) \/ SetExpire(r)
      BY <1>2, <3>2 DEF Hset, SetExpire, Goto, PermanentKeys, TypeOK
    <3>3. CASE TtlExpires(r)
      BY <1>2, <3>3 DEF TtlExpires, chat, PermanentKeys, TypeOK
    <3>4. QED
      BY <2>2, <3>1, <3>2, <3>3 DEF RequestStep
  <2>3. CASE StartRun \/ WorkerStep \/ RunFails \/ FlushFails
    <3>1. UNCHANGED pc /\ keys' \ ttl' \subseteq keys \ ttl
      BY <1>2, <2>3 DEF StartRun, WorkerStep, RunFails, FlushFails, DeleteCollection,
         CreateCollection, LoadFile, BeginFlush, FlushKey, EndScan, DropIndex,
         redis, chat
    <3>2. faults' \in {faults, faults + 1}
      BY <2>0, <2>3 DEF StartRun, WorkerStep, RunFails, FlushFails, DeleteCollection,
         CreateCollection, LoadFile, BeginFlush, FlushKey, EndScan, DropIndex,
         Fault
    <3>3. QED
      BY <1>2, <3>1, <3>2, MorePermanentKeys DEF PermanentKeys
  <2>4. CASE UNCHANGED vars
    BY <1>2, <2>4 DEF vars, PermanentKeysNeedFaults, PermanentKeys
  <2>5. QED
    BY <1>2, <2>0, <2>1, <2>2, <2>3, <2>4, <2>6, MorePermanentKeys DEF Next
<1>3. Init => LookupInv
  BY DistAssumption DEF Init, LookupInv, StoredAnswersFinal, StoredAnswersOwn,
     NoSimilarityDrift, Holding
<1>4. QED
  BY <1>1, <1>2, <1>3, StepLookupInv, StepTypeOK, TypeCorrect, PTL DEF Spec
===============================================================================
