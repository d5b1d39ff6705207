------------------------------ MODULE ChatStream ------------------------------
(***************************************************************************)
(* Streaming answers in one chat-api process.                              *)
(*                                                                         *)
(* The WebSocket handlers and the POST handlers run on one event loop; the *)
(* RAG pipeline is synchronous and runs in the loop's default executor, a  *)
(* bounded pool of threads fed from a FIFO.  For every message a handler   *)
(* submits a producer, which puts the answer's chunks into a fresh queue,  *)
(* and then, one at a time, getters that block in queue.get() for the      *)
(* handler.  Producers, getters and POST pipelines all compete for the     *)
(* same threads.  A handler runs undisturbed from one await to the next:   *)
(* such a stretch is one action.                                           *)
(***************************************************************************)
EXTENDS Integers, Sequences, FiniteSets

CONSTANTS
    Conns,      \* WebSocket connections
    Posts,      \* POST /chat/ requests
    Workers,    \* threads of the default executor
    MaxMsgs,    \* bound: messages on each connection
    MaxChunks   \* bound: chunks of one answer

ASSUME PoolAssumption ==
    /\ Workers \in Nat \ {0}
    /\ MaxMsgs \in [Conns -> Nat]
    /\ MaxChunks \in Nat
    /\ IsFiniteSet(Conns) /\ IsFiniteSet(Posts)

VARIABLES
    client,     \* the peer: "open" or "gone"
    handler,    \* the connection's handler: "recv", "wait" or "closed"
    turn,       \* how many messages it has received
    inbox,      \* result of the getter it awaits, if any
    sent,       \* what the client has received
    memory,     \* exchanges appended to chat memory
    unsaved,    \* history: messages whose append_exchange raised
    post,       \* each POST request: "idle", "pending", "done" or "failed"
    jobs,       \* the executor's FIFO
    running,    \* jobs that a thread is executing
    cancelled,  \* getters cancelled before a thread picked them up
    queue,      \* the Queue() of each message
    streamed,   \* chunks a producer has put so far
    outcome     \* how a producer ended: "none", "done" or "error"

loop     == <<client, handler, turn, inbox, sent, memory, unsaved, post>>
executor == <<jobs, running, cancelled>>
streams  == <<queue, streamed, outcome>>
vars     == <<client, handler, turn, inbox, sent, memory, unsaved, post,
              jobs, running, cancelled, queue, streamed, outcome>>

\* A message is its connection and its number there.
Msgs == UNION {{c} \X (1..MaxMsgs[c]) : c \in Conns}

Producer(m) == [kind |-> "produce", of |-> m]
Getter(m)   == [kind |-> "get", of |-> m]
Pipeline(p) == [kind |-> "post", of |-> p]
Jobs == [kind : {"produce", "get"}, of : Msgs] \cup [kind : {"post"}, of : Posts]

\* The i-th chunk; the final item carries the number of chunks it joins.
Chunk(i) == [t |-> "chunk", val |-> i]
Done(k)  == [t |-> "done", val |-> k]
Error    == [t |-> "error", val |-> 0]
Items == [t : {"chunk", "done", "error"}, val : 0..MaxChunks]

Nothing == <<>>

Current(c) == <<c, turn[c]>>

Init ==
    /\ client = [c \in Conns |-> "open"]
    /\ handler = [c \in Conns |-> "recv"]
    /\ turn = [c \in Conns |-> 0]
    /\ inbox = [c \in Conns |-> Nothing]
    /\ sent = [c \in Conns |-> <<>>]
    /\ memory = [c \in Conns |-> <<>>]
    /\ unsaved = {}
    /\ post = [p \in Posts |-> "idle"]
    /\ jobs = <<>>
    /\ running = {}
    /\ cancelled = {}
    /\ queue = [m \in Msgs |-> <<>>]
    /\ streamed = [m \in Msgs |-> 0]
    /\ outcome = [m \in Msgs |-> "none"]

-----------------------------------------------------------------------------
(* The event loop *)

\* Mutant: the getter is submitted ahead of its producer.
ReceiveGetterFirst(c) ==
    /\ handler[c] = "recv"
    /\ client[c] = "open"
    /\ turn[c] < MaxMsgs[c]
    /\ turn' = [turn EXCEPT ![c] = @ + 1]
    /\ LET m == <<c, turn[c] + 1>>
       IN  jobs' = jobs \o <<Getter(m), Producer(m)>>
    /\ handler' = [handler EXCEPT ![c] = "wait"]
    /\ UNCHANGED <<client, inbox, sent, memory, unsaved, post,
                   running, cancelled, streams>>

\* The client's text arrives and parses: producer and first getter are
\* submitted before the handler awaits again.
Receive(c) ==
    /\ handler[c] = "recv"
    /\ client[c] = "open"
    /\ turn[c] < MaxMsgs[c]
    /\ turn' = [turn EXCEPT ![c] = @ + 1]
    /\ LET m == <<c, turn[c] + 1>>
       IN  jobs' = jobs \o <<Producer(m), Getter(m)>>
    /\ handler' = [handler EXCEPT ![c] = "wait"]
    /\ UNCHANGED <<client, inbox, sent, memory, unsaved, post,
                   running, cancelled, streams>>

\* Bad JSON, or a DTO that does not validate: report it and close.
ReceiveBadMessage(c) ==
    /\ handler[c] = "recv"
    /\ client[c] = "open"
    /\ turn[c] < MaxMsgs[c]
    /\ turn' = [turn EXCEPT ![c] = @ + 1]
    /\ sent' = [sent EXCEPT ![c] = Append(@, [n |-> turn[c] + 1, item |-> Error])]
    /\ handler' = [handler EXCEPT ![c] = "closed"]
    /\ UNCHANGED <<client, inbox, memory, unsaved, post, executor, streams>>

\* WebSocketDisconnect while waiting for the next message.
ReceiveDisconnect(c) ==
    /\ handler[c] = "recv"
    /\ client[c] = "gone"
    /\ handler' = [handler EXCEPT ![c] = "closed"]
    /\ UNCHANGED <<client, turn, inbox, sent, memory, unsaved, post,
                   executor, streams>>

\* send_text to the client: it arrives, or is lost on a peer that has left.
Deliver(c, item) ==
    IF client[c] = "open"
    THEN sent' = [sent EXCEPT ![c] = Append(@, [n |-> turn[c], item |-> item])]
    ELSE UNCHANGED sent

\* A chunk is passed on and the next getter submitted.
ForwardChunk(c) ==
    /\ handler[c] = "wait"
    /\ inbox[c] # Nothing
    /\ inbox[c][1].t = "chunk"
    /\ Deliver(c, inbox[c][1])
    /\ jobs' = Append(jobs, Getter(Current(c)))
    /\ inbox' = [inbox EXCEPT ![c] = Nothing]
    /\ UNCHANGED <<client, handler, turn, memory, unsaved, post,
                   running, cancelled, streams>>

\* Mutant: the exchange is saved by a task that nobody awaits.
SaveUnawaited(c) == UNCHANGED <<memory, unsaved>>

\* The final item of a good answer: remember the exchange (an exception is
\* swallowed), then tell the client.
SaveExchange(c) ==
    \/ /\ memory' = [memory EXCEPT
                        ![c] = Append(@, [n |-> turn[c], text |-> inbox[c][1].val])]
       /\ UNCHANGED unsaved
    \/ /\ unsaved' = unsaved \cup {Current(c)}
       /\ UNCHANGED memory

FinishAnswer(c) ==
    /\ handler[c] = "wait"
    /\ inbox[c] # Nothing
    /\ inbox[c][1].t = "done"
    /\ SaveExchange(c)
    /\ Deliver(c, inbox[c][1])
    /\ handler' = [handler EXCEPT ![c] = "recv"]
    /\ inbox' = [inbox EXCEPT ![c] = Nothing]
    /\ UNCHANGED <<client, turn, post, executor, streams>>

\* Mutant: no break after an error item.
ReportErrorGoOn(c) ==
    /\ handler[c] = "wait"
    /\ inbox[c] # Nothing
    /\ inbox[c][1].t = "error"
    /\ Deliver(c, inbox[c][1])
    /\ jobs' = Append(jobs, Getter(Current(c)))
    /\ inbox' = [inbox EXCEPT ![c] = Nothing]
    /\ UNCHANGED <<client, handler, turn, memory, unsaved, post,
                   running, cancelled, streams>>

\* The pipeline raised: report it and wait for the next message.
ReportError(c) ==
    /\ handler[c] = "wait"
    /\ inbox[c] # Nothing
    /\ inbox[c][1].t = "error"
    /\ Deliver(c, inbox[c][1])
    /\ handler' = [handler EXCEPT ![c] = "recv"]
    /\ inbox' = [inbox EXCEPT ![c] = Nothing]
    /\ UNCHANGED <<client, turn, memory, unsaved, post, executor, streams>>

\* send_text notices that the peer has left: whatever came before it in the
\* same stretch stays done, the handler ends.
SendFails(c) ==
    /\ handler[c] = "wait"
    /\ inbox[c] # Nothing
    /\ client[c] = "gone"
    /\ IF inbox[c][1].t = "done" THEN SaveExchange(c) ELSE UNCHANGED <<memory, unsaved>>
    /\ handler' = [handler EXCEPT ![c] = "closed"]
    /\ inbox' = [inbox EXCEPT ![c] = Nothing]
    /\ UNCHANGED <<client, turn, sent, post, executor, streams>>

\* wait_for gives up after 300 s.  It cancels the getter, which only works if no
\* thread has picked it up; the handler reports the timeout and closes.
Timeout(c) ==
    /\ handler[c] = "wait"
    /\ inbox[c] = Nothing
    /\ IF Getter(Current(c)) \in running
       THEN UNCHANGED cancelled
       ELSE cancelled' = cancelled \cup {Current(c)}
    /\ Deliver(c, Error)
    /\ handler' = [handler EXCEPT ![c] = "closed"]
    /\ UNCHANGED <<client, turn, inbox, memory, unsaved, post,
                   jobs, running, streams>>

ClientLeaves(c) ==
    /\ client[c] = "open"
    /\ client' = [client EXCEPT ![c] = "gone"]
    /\ UNCHANGED <<handler, turn, inbox, sent, memory, unsaved, post,
                   executor, streams>>

PostArrives(p) ==
    /\ post[p] = "idle"
    /\ post' = [post EXCEPT ![p] = "pending"]
    /\ jobs' = Append(jobs, Pipeline(p))
    /\ UNCHANGED <<client, handler, turn, inbox, sent, memory, unsaved,
                   running, cancelled, streams>>

-----------------------------------------------------------------------------
(* The executor *)

\* A free thread takes the oldest job; a cancelled one is skipped.
StartJob ==
    /\ jobs # <<>>
    /\ Cardinality(running) < Workers
    /\ jobs' = Tail(jobs)
    /\ LET j == Head(jobs)
       IN  running' = IF j.kind = "get" /\ j.of \in cancelled
                      THEN running ELSE running \cup {j}
    /\ UNCHANGED <<loop, cancelled, streams>>

\* answer_stream yields: one more chunk.
ProduceChunk(m) ==
    /\ Producer(m) \in running
    /\ streamed[m] < MaxChunks
    /\ streamed' = [streamed EXCEPT ![m] = @ + 1]
    /\ queue' = [queue EXCEPT ![m] = Append(@, Chunk(streamed[m] + 1))]
    /\ UNCHANGED <<loop, executor, outcome>>

\* Mutant: a producer that raises puts nothing.
ProduceEndSilently(m) ==
    /\ Producer(m) \in running
    /\ \/ /\ queue' = [queue EXCEPT ![m] = Append(@, Done(streamed[m]))]
          /\ outcome' = [outcome EXCEPT ![m] = "done"]
       \/ /\ outcome' = [outcome EXCEPT ![m] = "error"]
          /\ UNCHANGED queue
    /\ running' = running \ {Producer(m)}
    /\ UNCHANGED <<loop, jobs, cancelled, streamed>>

\* answer_stream is exhausted or raises: the last item, and the thread is free.
ProduceEnd(m) ==
    /\ Producer(m) \in running
    /\ \/ /\ queue' = [queue EXCEPT ![m] = Append(@, Done(streamed[m]))]
          /\ outcome' = [outcome EXCEPT ![m] = "done"]
       \/ /\ queue' = [queue EXCEPT ![m] = Append(@, Error)]
          /\ outcome' = [outcome EXCEPT ![m] = "error"]
    /\ running' = running \ {Producer(m)}
    /\ UNCHANGED <<loop, jobs, cancelled, streamed>>

\* Mutant: a LifoQueue.
GetNewestItem(m) ==
    /\ Getter(m) \in running
    /\ queue[m] # <<>>
    /\ queue' = [queue EXCEPT ![m] = SubSeq(@, 1, Len(@) - 1)]
    /\ running' = running \ {Getter(m)}
    /\ inbox' = IF handler[m[1]] = "wait" /\ m = Current(m[1])
                THEN [inbox EXCEPT ![m[1]] = <<queue[m][Len(queue[m])]>>]
                ELSE inbox
    /\ UNCHANGED <<client, handler, turn, sent, memory, unsaved, post,
                   jobs, cancelled, streamed, outcome>>

\* queue.get() returns; nobody looks at the result of an abandoned getter.
GetItem(m) ==
    /\ Getter(m) \in running
    /\ queue[m] # <<>>
    /\ queue' = [queue EXCEPT ![m] = Tail(@)]
    /\ running' = running \ {Getter(m)}
    /\ inbox' = IF handler[m[1]] = "wait" /\ m = Current(m[1])
                THEN [inbox EXCEPT ![m[1]] = <<Head(queue[m])>>]
                ELSE inbox
    /\ UNCHANGED <<client, handler, turn, sent, memory, unsaved, post,
                   jobs, cancelled, streamed, outcome>>

\* The POST pipeline returns and the exchange is remembered, or it raises.
PostEnds(p) ==
    /\ Pipeline(p) \in running
    /\ running' = running \ {Pipeline(p)}
    /\ \E result \in {"done", "failed"} : post' = [post EXCEPT ![p] = result]
    /\ UNCHANGED <<client, handler, turn, inbox, sent, memory, unsaved,
                   jobs, cancelled, streams>>

-----------------------------------------------------------------------------
Handle(c) == ForwardChunk(c) \/ FinishAnswer(c) \/ ReportError(c) \/ SendFails(c)
Produce(m) == ProduceChunk(m) \/ ProduceEnd(m)

Next ==
    \/ \E c \in Conns :
          \/ Receive(c) \/ ReceiveBadMessage(c) \/ ReceiveDisconnect(c)
          \/ Handle(c) \/ Timeout(c) \/ ClientLeaves(c)
    \/ \E p \in Posts : PostArrives(p) \/ PostEnds(p)
    \/ StartJob
    \/ \E m \in Msgs : Produce(m) \/ GetItem(m)

\* The loop runs handlers whose awaits are over, threads run, and the pipeline's
\* network calls return or raise.  Clients and the 300 s clock owe nothing.
Fairness ==
    /\ \A c \in Conns : WF_vars(Handle(c))
    /\ \A p \in Posts : WF_vars(PostEnds(p))
    /\ WF_vars(StartJob)
    /\ \A m \in Msgs : WF_vars(Produce(m)) /\ WF_vars(GetItem(m))

Spec     == Init /\ [][Next]_vars
FairSpec == Spec /\ Fairness

-----------------------------------------------------------------------------
TypeOK ==
    /\ client \in [Conns -> {"open", "gone"}]
    /\ handler \in [Conns -> {"recv", "wait", "closed"}]
    /\ turn \in [Conns -> Nat] /\ \A c \in Conns : turn[c] <= MaxMsgs[c]
    /\ inbox \in [Conns -> {Nothing} \cup {<<i>> : i \in Items}]
    /\ sent \in [Conns -> Seq([n : Nat \ {0}, item : Items])]
    /\ memory \in [Conns -> Seq([n : Nat \ {0}, text : 0..MaxChunks])]
    /\ unsaved \subseteq Msgs
    /\ post \in [Posts -> {"idle", "pending", "done", "failed"}]
    /\ jobs \in Seq(Jobs)
    /\ running \subseteq Jobs
    /\ cancelled \subseteq Msgs
    /\ queue \in [Msgs -> Seq(Items)]
    /\ streamed \in [Msgs -> 0..MaxChunks]
    /\ outcome \in [Msgs -> {"none", "done", "error"}]

-----------------------------------------------------------------------------
(* Properties *)

\* No thread is ever parked in queue.get() for an item nobody will put: while
\* the queue is empty its producer is on a thread already.  A getter can never
\* hold the thread its own producer waits for, however small the pool.
GettersHaveProducers ==
    \A m \in Msgs :
        Getter(m) \in running /\ queue[m] = <<>> => Producer(m) \in running

\* What the client has of one message is chunk 1, 2, ... and then, if at all,
\* one final item that joins exactly those chunks; nothing of another message
\* comes in between.  Every item has k chunks of its message right before it:
\* with k = 0 it begins a message, a later one than that of the item before.
StreamsIntact ==
    \A c \in Conns : \A i \in 1..Len(sent[c]) : \E k \in 0..MaxChunks :
        /\ sent[c][i].item \in {Chunk(k + 1), Done(k), Error}
        /\ \/ k = 0 /\ (i = 1 \/ sent[c][i - 1].n < sent[c][i].n)
           \/ k > 0 /\ i > 1 /\ sent[c][i - 1] = [n |-> sent[c][i].n, item |-> Chunk(k)]

\* Every exchange the client saw completed is in chat memory, unless the store
\* raised; memory holds whole answers only, in the order of the questions.
CompletedIsRemembered ==
    \A c \in Conns :
        /\ \A i \in 1..Len(sent[c]) :
              sent[c][i].item.t = "done" =>
                 \/ <<c, sent[c][i].n>> \in unsaved
                 \/ \E k \in 1..Len(memory[c]) :
                       memory[c][k] = [n |-> sent[c][i].n, text |-> sent[c][i].item.val]
        /\ \A k \in 1..Len(memory[c]) :
              LET m == <<c, memory[c][k].n>>
              IN  /\ outcome[m] = "done"
                  /\ memory[c][k].text = streamed[m]
                  /\ k > 1 => memory[c][k - 1].n < memory[c][k].n

\* A handler that awaits an item gets on, without any help from the 300 s
\* timeout and however many connections share the pool.
HandlersProceed == \A c \in Conns : handler[c] = "wait" ~> handler[c] # "wait"

\* Threads come back: no job, not even a getter whose handler has timed out or
\* whose client has left, keeps its thread for good, and every queued job runs.
ThreadsComeBack ==
    /\ \A m \in Msgs : \A j \in {Producer(m), Getter(m)} : j \in running ~> j \notin running
    /\ jobs # <<>> ~> jobs = <<>>
===============================================================================
