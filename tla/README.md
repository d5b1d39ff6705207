# Verification of the US-law RAG platform

TLA+ models of the services under `app/`, model-checked with TLC, with theorems
checked by TLAPS. Source paths below are relative to the repository root.

## 1. Inventory

### Components, their state and their operations

| Component | State it keeps | Operations |
| --- | --- | --- |
| **chat-api, pipeline and semantic cache** (`app/chat-api/src/api/services/rag_pipeline.py`, `semantic_cache.py`, `vector_store/`) | none of its own; Redis holds `rag_cache:*` hashes, their TTL and the index `rag_cache_idx`; Weaviate holds the chunks | `answer`, `answer_stream`; `SemanticCache.get`, `set`, `_ensure_index`; `WeaviateClient.retrieve` |
| **ingestion-worker, PDF ingest** (`app/ingestion-worker/src/main.py`, `ingest.py`, `semantic_cache.py`, `vector_store/`) | none; writes Weaviate, deletes from Redis | `main` (with or without `--recreate`), `batch_load` per file, `flush` |
| **chat-api, handlers** (`api/routers/chat_router.py`) | per connection: the loop's position; per message: a `Queue`; per process: the default executor's FIFO and threads | `chat_websocket`, `chat_post`, `_run_stream_into_queue`, `get_from_thread` |
| **chat-api, chat memory** (`chat_memory/`, `api/main.py`) | Cassandra tables `messages` and `sessions`, or dictionaries in the process | `append_exchange`, `get_context`, `list_sessions`, the two GET routes; choice of the store at start |
| **auth-api** (`app/auth-api/src`) | PostgreSQL tables `users`, `federated`, `refresh_tokens`, or dictionaries in the process; the list of published events | `register`, `login`, `login_or_register_oidc`, `get_current_user_from_token`; choice of the store at start |
| **api-gateway** (`app/api-gateway/src`) | per WebSocket: two pumps, two connections; for HTTP: the pool of one `httpx` client; counters of the rate limiter | rate limit, JWT check, HTTP proxies, WebSocket proxy |
| **frontend, chat page** (`app/frontend/src/hooks`, `services`, `pages/ChatPage.tsx`) | React state: sidebar, active session, messages, streaming text; the socket in `wsRef` | session list, switch, history load, send, socket events, logout |
| **ingestion-worker, graph** (`xml_processor.py`, `neo4j_ingestor.py`, `embedding_worker.py`) | two CSV files; Neo4j's sections, references and chunks with vectors | XML to CSV, CSV to nodes and edges, `run_sync` with batches and rate-limit retry; each a script that an operator runs |
| **chat-api, graph RAG** (`app/chat-api/src/services`) | none; reads Neo4j | `rag_pipeline.answer` with intent router and retriever; `context_engine.py`; not reachable from the served routes |
| **user-api** | none | profile stubs |
| **libs/code-shared**, rerankers | none | wrappers of LLM, Neo4j, Cohere, BM25 |

### Interaction

Browser → gateway → chat-api / auth-api / user-api over HTTP and WebSocket.
`k8s/base` runs two replicas of each API, so pods of one service interact only
through Redis, Weaviate, Cassandra and PostgreSQL. In chat-api one event loop
serves all handlers, and the synchronous pipeline runs in the loop's default
executor, to which also every wait for the next chunk is submitted. The
ingestion worker shares nothing with chat-api but Weaviate, Redis and Neo4j; its three
graph scripts share nothing with each other but the CSV files and Neo4j.

### Hard behaviours, and what makes each component correct

- *Cache.* A request reads documents, generates for seconds, and stores the
  result; an ingest changes the documents and scans keys away in between. The
  index comes and goes under `FT.SEARCH` and `HSET`. `HSET` and `EXPIRE` are two
  calls. Correct: a finished ingest leaves no outdated entry behind except those
  of requests that were already past retrieval; hits stay within the similarity
  threshold of the question they answer; entries expire; nobody gets stuck.
- *Streaming.* Producers and blocking getters share a bounded pool; a wait may
  time out while its getter sits in the FIFO or in a thread; clients leave.
  Correct: a getter never starves its own producer, threads come back, the
  client sees a prefix of the chunks and at most one final item, and what it saw
  completed is remembered.
- *Chat memory.* Four INSERTs per exchange, from several pods, with equal
  timestamps, may break off at any point; a pod may have fallen back to memory.
  Correct: exchanges are remembered whole and in order, sessions are listed.
- *Accounts.* Existence checks and INSERTs are separate transactions; several
  pods race. Correct: one account per name and per identity, acknowledged
  registrations persist, tables agree with each other and with the events.
- *Gateway.* Two pumps under one `gather`, either of which may end, raise or wait for
  ever while the other goes on. Correct: each direction is a pipe in order and
  without gaps, the end of one connection ends the other, no pump is left behind. Over
  HTTP, requests of all routes share connections, which are used again; a request
  that times out goes on in its service. Correct: a reply reaches the request it
  belongs to, what the client is told agrees with what was done, an answer comes.
- *Chat page.* Replies of `fetch` and events of sockets arrive in any order, and the
  handlers do not ask which session or socket they belong to. Correct: a question is
  filed under the session it was asked in, the page shows the active session, answers
  stand under their questions, the page unlocks.
- *Graph.* Three scripts run in any order and any number of times, break off
  anywhere, and overlap with each other, with themselves and with requests: nothing
  locks them out. The sync starts over, skips batches or stops halfway. Correct: texts
  and chunks only move forward, a section's chunks fit together and are those of its
  text once the worker got past it, and a request fails for missing text only where
  none was loaded, or a row without one. The first two fail for sections of which two
  loads or two runs had different editions under way; nothing in the code prevents that.

`PROJECT.json` lists each hazard with its line.

## 2. Modules

| Module | Models |
| --- | --- |
| `RagCache`, `MCRagCache` | pipeline + semantic cache + PDF ingest + flush |
| `RagCacheProofs` | its theorems |
| `ChatStream`, `MCChatStream` | WebSocket/POST handlers and the executor |
| `ChatStreamProofs` | its theorems |
| `ChatLog` | abstract: a log per session, exchanges appended whole |
| `ChatMemory`, `MCChatMemory` | both chat memory stores; the in-memory one implements `ChatLog` |
| `ChatMemoryProofs` | its theorems |
| `AccountDirectory` | abstract: names belong to one owner, an identity's account appears together with its link |
| `AuthAccounts`, `MCAuthAccounts` | auth-api over PostgreSQL or memory; implements `AccountDirectory` |
| `AuthAccountsProofs` | its theorems |
| `FramePipe` | abstract: what is delivered is a prefix of what was sent, and grows |
| `GatewayWs`, `MCGatewayWs` | WebSocket route and proxy; each direction implements `FramePipe` |
| `GatewayWsProofs` | its theorems |
| `GatewayHttp`, `MCGatewayHttp` | rate limit, token check, HTTP proxies and their connection pool |
| `GatewayHttpProofs` | its theorems |
| `LaggingCopy` | abstract: a copy that only moves forward and never past its source |
| `GraphSync` | XML and load scripts, embedding worker; texts and chunks implement `LaggingCopy` |
| `GraphAnswer` | a request to the graph RAG pipeline |
| `GraphRag`, `MCGraphRag` | both together on one graph |
| `GraphRagProofs` | theorems about `GraphSync` and `GraphRag` |
| `FrontendChat`, `MCFrontendChat` | the chat page, with the server as its sockets show it |
| `FrontendChatProofs` | its theorems |

### RagCache

One action per call to Redis or Weaviate. `pc[r]` is the next call of request
`r`: `getEmbed`, `getInfo`, `getCreate`, `getSearch` are `SemanticCache.get`,
`retrieve` and `generate` the pipeline, `setEmbed` … `setExpire` are
`SemanticCache.set`. `answer` and `answer_stream` make the same calls in the same
order, so one model serves both. A cache key is named by the request that wrote
it (`set` runs at most once per request and uses a fresh uuid). A collection is,
per file, the set of ingest runs whose chunks it holds: without `--recreate` old
chunks stay, with it everything goes first. `owed` is what Redis guarantees of
`SCAN`: keys present throughout the scan are returned, others may be.

`late` and `flushed` are history variables for the property about flushes; no
guard reads them. `PodCrash` is one failure that ends up to `Threads` requests at once,
wherever each of them is.

Abstractions: the cache is taken as enabled; KNN is exact where HNSW is
approximate; an index covers all keys as soon as it exists where RediSearch fills
it in the background; a missing collection is created by the first object
loaded (Weaviate's default auto-schema); `batch_load` of one file is one step,
or a part of one when it fails. Reranking and formatting are pure and do not
appear.

### ChatStream

An action is what a handler does from one `await` to the next. `jobs` is the
executor's FIFO, `running` what its threads execute. A message `m` is its
connection and its number there; `queue[m]` is its `Queue()`. `Timeout` is
`asyncio.wait_for` giving up: `Future.cancel` removes a getter that no thread has
picked up and leaves one that blocks. `SendFails` is `send_text` noticing that
the peer has left; a send may also go unnoticed (`Deliver`). The final item
carries the number of chunks it joins. `StreamsIntact` compares each item a client has
with the one before it, from which the whole stream follows.

### ChatMemory

`table` holds the rows of `messages`; an INSERT is an upsert on the key
`(session_id, timestamp)`. `append_exchange` reads the clock once for both
records and, with Cassandra, makes four INSERTs in order; with the in-memory store
it is one step, since it runs on the event loop. `StartPod` is the fallback in
`lifespan`, `CrashPod` loses the dictionaries. Time is a logical clock that never
goes back; several appends may see the same reading, on one pod or on two.
`store.py:64` takes `cassandra:9042` for the name of a host and `main.py:63` does not override
it, so it may be that no deployed pod ever reaches Cassandra; both backends are modelled.

The reads are operators: `SessionMessages` and `ListSessions` are the two GET routes
with what each store returns. `RecentLocal` is a stable sort, in which an item's place is
the number of items that do not come after it. `keys` is the order of the keys in a pod's
dictionary, which `list_sessions` cuts to its last n before the router filters by user;
after the router it is a set here: the page makes the first of it active, for which `FrontendChat`
takes any, and the one property about the order (`MostRecentlyUpdatedFirst`) is about the
store's own list.
`ListSessions` is empty with Cassandra: it rejects `ORDER BY` without a partition, and
the router turns the exception into an empty list.

### AuthAccounts

An account row is named by the request that inserted it, its username is
`cur[r]`. One action per database transaction, or per statement where a
transaction reads before it writes: `CreateRead`/`CreateCommit` and
`TokenRead`/`TokenCommit`/`Respond`, at PostgreSQL's default isolation, where the INSERT
finds what was committed after the SELECT. Handlers call the database
synchronously, so a pod serves one request at a time (`Begin`); races are
between pods. A transaction may raise and be rolled back (`TransactionFails`), or be committed
while the acknowledgement is lost (`CommitUnacknowledged`): the row stays and the request
ends in 500. The answer is a step of its own (`Respond`), before which the pod may go
down. Passwords, e-mail addresses and subjects are opaque; login keys are
taken as already stripped and lower-cased, and no address is also a username.
The search for a free name has no bound of its own (`PickUsername`): that it ends is
`SearchIsBounded`, which also says what names the directory must know of (`Names`).
`passlib` raises on the empty hash of a Google account (`Verified`).

### GatewayWs

One relayed connection, from the token check to the end of the handler. A pump's
iteration is one action: between its `receive` and its `send` there is no await
at which it could be cancelled or overtaken. A frame sent to a peer that has ended
is lost or makes `send` raise. `gather` without `return_exceptions` raises with the
first pump and leaves the other one running. On the way out the `async with` closes
the connection to chat-api (`Leave`), then the handler of the exception closes the
client (`CloseClient`). A client is accepted, and may send, before chat-api is
reached. `Refuse` is the close with 1008 of a client without a valid token.

When the client leaves and chat-api says nothing more, the down pump stays in
`recv()`, since `ping_interval=None` switches off the keep-alive, and `gather` waits
for it. `SpeechFreesRelay` therefore claims no more than the code gives: the next
frame of chat-api, or its end, frees the relay. That `recv()` still delivers what arrived before
the end of a connection is how `websockets` works; the gateway does not pin its version
(`requirements.txt:7` says `>=12.0`).

### GatewayHttp

A request goes through `state`: `new`, `body` (its body is awaited), `pool` (a
connection is awaited), `wait` (sent), and then an answer. A connection `conn[c]` has
two ends: `user` is the request of ours that holds it, `serves` the one that the
service is at work on for it, `reply` a reply under way, `open` the service's end.
`running` and `effects` are the services' side, which a timeout does not stop: `ReadTimeout`
and `ReadError` end as an uncaught exception, hence 500, while the request stays in
`running`. The pool is `httpx`'s: a connection is used again for the same service, an idle
one gives way to another service, a request waits when all are in use, and one that
failed is closed. `Finish` gives a reply to whatever connection still serves the
request. The services, their deaths and the pool itself are external; what is the
gateway's is that there is one client for all routes, one timeout for everything, no
retry and no handler around `client.request`. `NewWindow` ends the limiter's windows of all
routes together, where each has its own; no property depends on it.

### GraphSync

A text is the number of its edition. A row, and the content set from it, is the edition it is
of, negated when it has no text: an empty field of a CSV file is NULL to `LOAD CSV`. Sections
without text (`Pieces[s][v] = 0`) write such rows, and a script that is killed may cut one short.
`ParseXml` writes the rows of any set of published files, because files that raise are
passed over and the script may be killed or be halfway through; going on is another such
step. A load goes through `stage`, and there may be several: `StartLoad` takes the file, `ReadNodesOn` and
`ReadEdgesOn` see what the XML script has done to it since, `MergeNode` and `MergeEdge` are the
effect of one row, and `LoadDies` may come after any. `MergeEdge` without a source does nothing,
and creates a target that is not there, without content. Any number of `run_sync` may go at a
time. Each fetches the text of `Limit` sections at most (`Fetch`), then goes through them in
batches (`Loop`, `Tick`): a batch is inserted, inserted after one rate limit, or skipped. Any
other exception, and any in the second try, is `SyncDies`. A chunk is section and number,
which is its id in Neo4j, so `Insert` replaces the chunks that the new text has and leaves
the rest.

`missed` and `mixed` are history variables. `missed` are the sections that no run has embedded
since a row of theirs was loaded. `mixed` are those of which two loads, or two runs, had
different editions under way: run A fetches the first edition, a load brings the second, run B
fetches and inserts it, and A then inserts the first. Nothing prevents this. `CopiesLag` says that it
is the only way in which an older edition comes back: `LaggingCopy` promises nothing of keys that
are `mixed`. `SyncedAreCurrent` takes a section out only until one run has it for itself again.

Left out: two XML scripts at a time, which write one file in each other's midst; rows cut within a
text or an identifier; and inserts of more than a thousand chunks, which the library makes in
several steps.

### GraphAnswer and GraphRag

A request reads the graph in steps, one per call. `DirectFetch` and `Expand` make a
`TextNode` of what they read, which takes no null, so that a section without content ends
the request (`unreadable`), by the `except` in `answer`. The identifier of a chunk is no
section's, so that only the section fetched directly has its references followed.
`GraphRag` interleaves one request with the scripts.

### FrontendChat

A callback of the browser, with the renders and effects it causes, is one action;
the calls of `fetchMessages` (`loads`) and the sockets (`sockets`) are what runs
between them. `loads[i].from` is the length of the history when the call was made:
the server reads it some time before the reply. `Send` takes the socket in `wsRef` if
that is open and opens one for the active session otherwise; the session is told to the
server only then (`sockets[k].of`). What a socket's server end does is external:
chunk, answer or error, and the end of the connection at any time.

The page shows what chat memory returns (`Reply`), and that depends on the backend, which
is chosen once: from memory both rows of each of the last `Page` exchanges (`Rows`), from Cassandra the
answers only, of the first 2 × `Page` exchanges (`Answers`; finding 2 and `store.py:109`). `Page` is half the
limit of the route, so 10 in the code. Two abstractions: an exchange whose append to
Cassandra broke off after the question counts as not saved, and with memory there is one
pod (with more, each has histories of its own, and a page sees those of the pod it meets).

`slips` is a history variable that no guard reads. It records four races: a history
reply that came when another session was active, an answer was awaited or a newer
message was shown (`lateLoad`); a load that failed after the switch (`lostLoad`); an
empty list of sessions that came during an answer (`lateList`); the close event of an
old socket when another was in use (`lateClose`). The properties say what holds
without them. Each of them does happen in the model.

A switch of session keeps an open socket, so that the next question is filed under
the session for which the socket was opened. `FiledWhereAsked` says that this is the
only way in which an exchange gets into another session.

## 3. Runs

| Run | Shows |
| --- | --- |
| `rag_flush` | 2 requests, one question, 1 file, 1 ingest, 1 fault: `OnlyLateStoresAreOutdated`, `EverythingEnds` (requests, runs, entries) |
| `rag_lookup` | 3 requests, questions 1–2–3 on a line of which only neighbours are similar, no ingest, pods of 2 threads, 1 fault, symmetric requests: `NoSimilarityDrift`, `PermanentKeysNeedFaults` |
| `rag_stale_hit` | violates `NoOutdatedHit` (finding 1) |
| `stream` | 1 connection with 2 messages of up to 3 chunks each, 2 POST requests, 2 threads: `GettersHaveProducers`, `StreamsIntact`, `CompletedIsRemembered`, `HandlersProceed`, `ThreadsComeBack` |
| `memory` | 2 pods, 2 sessions, 3 exchanges, both backends, 2 clock readings, 1 crash: `AnswersSurvive`, `SessionsMatchMessages`, `LocalReadsInOrder`, `ListedUnlessCrowdedOut`, refinement of `ChatLog` |
| `memory_rows` | violates `TwoRowsPerExchange` (finding 2) |
| `memory_order` | violates `MostRecentlyUpdatedFirst` (finding 3) |
| `auth` | 3 requests out of 4 kinds that all want the same name, 2 pods, with or without database, 1 fault: `RegistrationsKept`, `OneAccountPerIdentity`, `EventsMatchAccounts`, `TokensFit`, `RequestsEnd`, refinement of `AccountDirectory` |
| `gateway` | 1 relayed connection, up to 3 frames each way, either peer leaves at any time: `RelayIsTwoPipes`, `CutOffOnlyByLateSend`, `HangsUpForCause`, `EndSpreads`, `SpeechFreesRelay` |
| `http` | 4 requests of one client: 2 to chat-api, 1 public one to auth-api, 1 answered by the gateway; 2 connections, 1 request per route and window: `OwnAnswer`, `EffectsMatchAnswers`, `RequestsAreAnswered` |
| `graph` | 2 sections that refer to each other, of which one is published twice, the second time with one chunk instead of two; 2 loads, 2 runs, batches of 1, limit 2, 1 neighbour: `SyncedAreCurrent`, `OnlyTailsAreOld`, `CopiesLag`, `SyncEnds`, `ErrorsHaveCause` |
| `frontend` | 3 sessions of which one has a history, 2 questions, 2 history loads, 2 sockets, either backend, `Page` 1: `OneSocket`, `FiledWhereAsked`, `ViewFollowsSession`, `AnswersInPlace`, `StreamingEnds` |

Why the bounds are enough. Two requests and one ingest already give every order
of a store against a flush, and a hit on what another request stored; a third
request is needed only for chains of similar questions, which is `rag_lookup`.
A POST request is a producer of which nobody waits for items, so that two of them fill both threads: the
jobs of a message wait behind foreign ones, and a getter that has timed out meets those of
the next message. While one of them is at work, the jobs of a message share one thread, the smallest pool; what
holds of a pool that never has more is `NoGetterStarvesItsProducer` and `PoolNeverStuck`, for any
number of threads. A crash in `rag_lookup` takes one or two of three requests; two threads are enough
for a failure to leave more than one key. Three exchanges on two pods give two appends with equal keys and a third
on another session. Three requests to auth-api give two that race and one that
finds the outcome. Three frames tell a gap from a swap and from a frame lost at the
end. Two questions, loads and sockets make every pair of an old and a new one; the
third session lets a late empty list replace the active one by one that is neither
old nor selected. Its safety properties are
proved for any number of them. One fault can strike at any step; what several do together is
covered by the proofs of section 5 where there is one.
For `httpx`'s 100 connections there are 2 in `http`, fewer than its forwarded
requests, so that a request waits for one, takes over an idle one of the other service,
and uses one again after another request; a limit of 1 makes the limiter refuse
one of two. In `graph`, batches of 1 make two batches of what one fetch brings; one shrinking
text is what leaves a tail, and the two references make each section the stub of the other.
Three state constraints of `MCGraphRag` keep the product of the scripts small. `BothPublished`: once
both sections are published, one run works at a time, on the newest rows. `LoadsOverlap`: a second
load overlaps only with the first and with the XML script, and before there are edges or
chunks. `RequestsOverlap`: a request overlaps with no run, as all it sees of the worker is whether
there are chunks, and with one load. So two loads with different editions, two runs with
different editions, and a load in the middle of a run all happen, but not all at once. The theorems
of `GraphRagProofs` have no such constraints, and any number of loads and runs. `Pieces` has no edition
without text in this instance; rows without text come from the XML script that is killed, and are
the same to what follows.

Deadlock is checked in `graph` only: scripts and requests can always start again. In
the other systems requests are finite in number, so each may stop when all are served.

### Findings

1. *An outdated answer can be served after a flush.* `rag_pipeline.py:71` stores an
   answer whenever it is ready; `docs/db/redis-semantic-cache.md:134` says the flush
   keeps later queries from old data. A request that retrieved before the load and
   stores after the flush breaks that. `OnlyLateStoresAreOutdated` says that this is
   the only way.
2. *One row per exchange.* Question and answer share one timestamp
   (`chat_memory/service.py:27`), which is the clustering key (`store.py:87`); the
   answer overwrites the question. `docs/db/cassandra-chat-memory.md:14` says two rows.
3. *Sessions in memory are not listed by their last update.* `store.py:33` returns the keys of a
   dictionary, hence the order in which sessions began, where the interface says "most recently
   updated first" (`store.py:15`, `docs/services/chat_memory_architecture.md:40`). So a session that is in
   daily use drops out of the list once 50 others have begun, whatever users they are of
   (`ListedUnlessCrowdedOut`).

Met on the way, without a run of their own:

- A limited read with Cassandra orders ascending (`store.py:109`) and so returns the oldest
  rows, where `docs/db/cassandra-chat-memory.md:15` says the most recent.
- `GET /chat/sessions` is always empty with Cassandra, which rejects the query in `store.py:102`;
  `docs/api/chat-api.md` describes a list of the user's sessions.
- `save_refresh_token` reads, then inserts (`postgres_auth_repo.py:170`), where
  `docs/api/auth-api.md:307` says upserted: two first logins of one user on two pods may
  both insert, and one of them ends in 500. `TokensFit` says that the table survives it.
- `auth_service.py:17` binds the in-memory publisher at import, so that the Kafka publisher
  installed at start is never used.
- The Google login paths are not among `PUBLIC_PREFIXES` (`main.py:33`), so the gateway asks
  for a token where `docs/api/auth-api.md:184` says "None".
- `docs/services/authentication_architecture.md:13` says 20 requests per minute for auth; every
  route has `RATE_LIMIT_DEFAULT`. Counters are per gateway pod.
- The timeout of 60 s is per read: a service that sends a byte now and then holds a
  connection for as long as it likes (`RequestsAreAnswered` takes it that a reply is
  short). `request.body()` has no timeout at all.
- `s.embedding` is never set (`embedding_worker.py:59`): each run of the worker fetches any
  `limit` sections, embedded or not, so sections may wait for ever. Chunks beyond the
  end of a shorter text stay, as do sections and references that a new edition drops.
- Two overlapping runs of the worker, or two loads, may bring an older edition back (`mixed`).
- A row without text sets the content of a loaded section to NULL (`neo4j_ingestor.py:53`), and a
  request that fetches it ends in "System Error" (`ErrorsHaveCause`).
- An empty input directory leaves the CSV files of an earlier run for the next load.

## 4. Fairness

- `RagCache`: weak fairness of each request's steps (a pipeline thread runs on; its
  calls return or raise, which for Redis is an assumption: the client has no timeout, so a
  Redis that accepts a connection and never answers would hold the thread), of each key's expiry (Redis evicts) and of the worker. None
  for arrivals, starts of an ingest, or failures.
- `ChatStream`: weak fairness of each handler whose await is over (the event loop
  runs what is ready), of `StartJob` (a free thread takes the head of the FIFO), of
  producers (the generator yields or raises: the clients of OpenAI, Cohere and
  Weaviate have timeouts by default, the one of Redis has none, and of it this is an assumption) and of a getter whose queue is not empty. None for clients,
  and none for the 300 s clock: liveness does not rest on the timeout.
- `AuthAccounts`: weak fairness of each request's steps. None for arrivals, pod
  starts or failures.
- `GatewayWs`: weak fairness of the gateway's own steps: the event loop runs a
  coroutine whose await is over. None for either peer, who may be silent for ever.
- `FrontendChat`: weak fairness of each socket's events, which the browser fires when
  they are due, and of the server's answer to a question or the end of its connection
  (chat-api's 300 s timeout ends a stream that hangs). None for the user or the
  replies of history loads.
- `GatewayHttp`: weak fairness of `client.request`, request by request: it returns, raises or
  times out. None for clients, whose bodies may never arrive, or for services.
- `GraphSync`: weak fairness of the loop of `run_sync`, whose calls return or raise. None
  for the operator, the other scripts or the requests.
- `ChatMemory` has no liveness property: an append is a sequence of calls that
  return or raise.

## 5. Proofs

Checked by `tlapm`, for every number of requests, files, connections, threads,
pods and faults.

`RagCacheProofs`
- `TypeCorrect`: `TypeOK` is inductive as it stands.
- `SimilarityDoesNotDrift`: needs `LookupInv`: every stored key's answer is to
  the question of the request that stored it, because only a miss stores. From this
  and `Dist[q][q] = 0`, a hit is within `MaxDist` of the question its answer was
  generated for.
- `FlushLeavesOnlyLateStores`: needs `FlushInv`, the state of a flush in progress:
  while it scans, a key that is neither owed nor late, or an answer held by a
  request that began later, rests on the present documents. It is needed because the
  property speaks only of idle workers, and says nothing about the steps that lead
  there.
- `PermanentKeysBounded`: a call that raises leaves one permanent key at most, a pod that goes
  down one for each of its threads, whichever of its requests those were.

`ChatStreamProofs`
- `TypeCorrect`: needs in addition that a waiting handler has received a message.
- `NoGetterStarvesItsProducer`: needs `PoolInv`, which `PoolInvariant` shows to be
  inductive. Producer and getter of a message are queued or running at most once
  (`EachOnce`); a getter comes behind its producer in the FIFO as long as that has
  not ended (`ProducerFirst`); an item of an unfinished answer comes from a running
  producer (`ProducerRuns`); and after the end the final item is still in the queue
  for whoever is going to call `get()` (`FinalAwaits`). The property alone says nothing
  of jobs in the FIFO, from which every getter comes. That all jobs then run, however
  small the pool, is the liveness that `stream` checks for two threads.
- `PoolNeverStuck` is the safety half of that liveness: some thread at work can go on, and
  whoever waits for the pool has a job in it. It needs `WaitInv`, of which `CancelledAreClosed`
  says that a getter is cancelled only when its handler will never want it.
- `StreamsStayIntact`, `CompletedAnswersAreRemembered`: need `StreamInv`: a queue holds what has
  been put and not taken (`QueueHolds`), and a handler has dealt with all that was taken but
  the item in its hand (`HandlerAt`). From this and `PoolInv`, which excludes a second
  getter, what a client that stays has received ends with the chunk before (`SentInv`), and what is
  remembered is whole and of earlier messages (`MemoryInv`).

`AuthAccountsProofs`
- `TypeCorrect`: needs `Phases`, which steps a request of each kind goes through.
- `RegistrationsAreKept`, `IdentitiesHaveOneAccount`: need `AccountInv`: rows were
  inserted by requests that have committed and whose `cur` no longer changes
  (`Placed`), the primary keys hold (`NamesUnique`, `SubjectsUnique`), and Google
  accounts and federated rows agree (`LinksFit`).
- `EventsAreOfAccounts`, `TokensAlwaysFit`: need `HistoryInv`: in addition, a login
  on its way to a token has the username of a row (`LoginsFit`), and the database
  never drops or renames one (`RowsStay`). A row without an event is of a request that is about to
  publish, has gone down with its pod, or was told of a failure by a lost acknowledgement;
  a login waits for its answer with its row in the table.
- `SearchIsBounded`: needs `SuffixesTaken`: each smaller suffix was the name of a row when the
  search passed it, and a store keeps its rows until its pod goes down, which ends the
  search as well. As the rows are of different requests, there are no more suffixes than
  requests.
- `DirectoryImplemented`: each transaction adds an account whose name is free, with its link if
  it has one, a pod that goes down loses its own, and any other step leaves the tables. It
  needs `AccountInv`, and `SuffixesTaken` for the name to be one of the directory's.

`GatewayWsProofs`
- `TypeCorrect`, by `RelayInv`, of which `Stages` says which stages of the handler and of
  the two connections go together.
- `OnlyLateSendsCutOff`, `NoHangUpWithoutCause`: need `RelayInv`: in addition, what
  either side has seen is a prefix of what the other has sent (`UpFlow`, `DownFlow`), and a
  pump that has ended, or a handler on its way out, has a cause (`Causes`). The
  properties speak of closed connections only, the causes arise while both are open.
- `RelayImplementsPipes`: each step of the relay appends the next frame to what is
  delivered, in each direction, or leaves it.

`GatewayHttpProofs`
- `TypeCorrect`, `AnswersAreOwn`, `EffectsFit`: need `HttpInv`: a connection serves, and has a
  reply of, only the request that holds it, which waits (`Carried`); no request holds two
  (`HeldOnce`); what a service has done for a request fits where that is (`Counted`), and
  a request of a protected path that has got past the check has a subject (`Checked`).
  The properties alone say nothing of a connection that is going to be used again.
- `NoConnectionIsLost`: the safety half of `RequestsAreAnswered`. It needs `HoldInv`: whoever waits for
  a service holds a connection, to that service, so that a slot without one is free.

`GraphRagProofs`
- `TypeCorrect`, `SyncedStayCurrent`, `TailsOnly`, `TextsNeverGoBack`: need `GraphInv`, which orders
  the editions of a section along the way of its text: XML, CSV, the rows that loads have
  yet to merge, Neo4j, the records that runs hold, chunks (`Ordered`). The loads that are at work on
  a section agree on its edition, and so do the runs (`Agree`); both only of sections that are not
  `mixed`. With this, what is about to be written is no older than what it replaces. A record
  of a section that is not `missed` is its text (`Fetched`), whatever is mixed. The properties
  relate two neighbours on that way at most, and the steps that could break them copy from a
  third, or at the same time as another script.
- `RagImplementsSync`: a request leaves all that the scripts write alone, so that what holds
  of `GraphSync` holds of `GraphRag`.
- `OnlyTextlessBreakAnswers`: needs that a node of which no row was loaded is the target of a
  reference (`Stubs`).

`ChatMemoryProofs`
- `TypeCorrect`, `TablesMatch`, `AnswersStay`: need `MemoryInv`: each row bears the key of the
  exchange it is of, and is a question only until that exchange inserts its answer
  (`RowsOfExchanges`); past its first INSERT an exchange has a row at its key, its own or that of
  another exchange (`KeysTaken`); past the second its session is listed (`Listed`). The properties speak of
  finished appends, or of none, and an upsert may replace the row on which they rest.
- `LogImplemented`: needs `LinesBegun`, that what is in a dictionary comes from exchanges that
  have begun, which is why none is appended twice.
- `ReadsInOrder`: needs `RowsInOrder`, that the rows of a session never get younger and none
  is of the future, so that sorting by rank is the identity. This rests on the clock, which does not
  go back in the model; `datetime.now` may.
- `NewestAreListed`, a statement about what the code does, not about the order that the interface
  documents (finding 3): needs `KeysInOrder`, that a dictionary lists its sessions once, in the order of
  their first messages: a session that the limit cuts off has n sessions behind it. Both hold
  for every limit, where the runs have the smallest ones.

`FrontendChatProofs`
- `TypeCorrect`: `TypeOK` is inductive as it stands.
- `OneSocketAtATime`: needs that while a socket is connecting, an answer is awaited
  (`OneInUse`): otherwise a second question would open a second socket.
- `ExchangesFiled`: needs `SocketOrigins`: a socket was opened for a question of its session,
  and what it is asked for besides are later ones.
- `ViewIsOfSession`, `AnswersStandInPlace`: need `PageInv`. `StreamHolds`: a socket that the page still
  listens to carries only frames of the last question (`Carries`), and nothing when no
  answer is awaited (`Quiet`), and `streamContent` is of that question; this breaks only when an old
  socket's close event or a late list of sessions has ended an answer in the page's eyes.
  `ViewHolds`: the messages are of the session or as saved, unless a load of it is pending, answers
  follow their questions, or are alone if the backend is Cassandra and they are saved, and the
  question being answered comes last. `FiledInv` says that the number of a question that is being asked
  is not among those saved (`SavedAsked`), so that its answer is not one of those alone. The properties
  speak of the messages only, and not of the frames that will become messages.
- `NeverStranded`: while an answer is awaited, the socket in use is connecting, closing, or has frames,
  questions or its end to come. It is the safety half of `StreamingEnds`, and needs that a server
  with nothing left to answer has said so (`Speaks`).

The assumptions are those named in `RagCache`, `ChatStream`, `ChatMemory`, `AuthAccounts`,
`GatewayWs`, `GatewayHttp`, `GraphSync` and `FrontendChat`: natural bounds, finite sets of requests and connections, a distance that is 0 from
a question to itself, inputs of the three kinds, usernames that are no e-mail addresses.

Only model-checked: liveness (fairness and ENABLED are out of TLAPS' reach), which is
`EverythingEnds`, `HandlersProceed`, `ThreadsComeBack`, `RequestsEnd`, `EndSpreads`, `SpeechFreesRelay`,
`RequestsAreAnswered`, `SyncEnds` and `StreamingEnds`. Each safety property of a passing run, and each
refinement, is stated by a theorem. `NobodyWaitsInVain`, `ConnectionsInUse` and `AwaitsEvent`, the
safety halves of liveness properties, are properties of theorems only, of no run.

## 6. Not modelled

Left out: the gateway's CORS and copying of headers, the frontend's
login and registration forms, error text and input field, user-api, code-shared, rerankers (no state), cleaning and chunking of texts and
the matching of citations (pure), `context_engine.py` (it imports `code_shared.core.formatter`, which does
not exist, and nothing imports it), Kubernetes, CI, Terraform and monitoring (not
program logic). `GET /auth/me` only reads. The Kafka publisher is never reached:
`auth_service.py:17` binds the in-memory one at import. The state cookie of the Google login
is written and checked by authlib.

## 7. Plan

1. *(done)* `RagCache` with proofs; `ChatStream`; `ChatMemory` refining `ChatLog`;
   `AuthAccounts` refining `AccountDirectory`; proofs about `ChatStream` and `AuthAccounts`.
2. *(done)* `GatewayWs` implementing `FramePipe`, with proofs; `FrontendChat`.
3. *(done)* `GraphSync` implementing `LaggingCopy`, `GraphAnswer`, both composed in
   `GraphRag`, with proofs; `GatewayHttp` with proofs; session lists in `ChatMemory`.
4. An abstract answer service above `RagCache`, and `ChatStream` composed with it.
5. *(done)* Proofs about `ChatMemory`, with the refinement of `ChatLog`, and about `FrontendChat`.
6. *(done)* Proofs: the refinement of `AccountDirectory`, the contents of streams, what
   `ChatMemory` reads and what `FrontendChat` shows; safety halves of liveness for
   `ChatStream`, `GatewayHttp` and `FrontendChat`.
7. Proofs: the same for `RagCache`, `GatewayWs` and `GraphSync`.

Each further run should replace or absorb one of the present ones, so that the
whole set stays quick to run.
