--------------------------- MODULE ChatStreamProofs ---------------------------
(***************************************************************************)
(* Proofs about ChatStream, for any number of connections, POST requests,  *)
(* threads, messages and chunks.                                           *)
(***************************************************************************)
EXTENDS ChatStream, SequenceTheorems, TLAPS

(* The inductive invariant *)

\* A handler that awaits an item has received a message.
WaitsForMessage == \A c \in Conns : handler[c] = "wait" => turn[c] >= 1

Queued(j) == \E i \in 1..Len(jobs) : jobs[i] = j
Held(j)   == Queued(j) \/ j \in running

\* A message's producer, and its getter, are queued or running only once.
Once(j) ==
    /\ \A i, k \in 1..Len(jobs) : jobs[i] = j /\ jobs[k] = j => i = k
    /\ j \in running => ~Queued(j)
EachOnce == \A m \in Msgs : Once(Producer(m)) /\ Once(Getter(m))

\* Nothing has been submitted for a message that has not been received.
Untouched ==
    \A m \in Msgs : m[2] > turn[m[1]] =>
        ~Held(Producer(m)) /\ ~Held(Getter(m)) /\ outcome[m] = "none"

\* A handler that has an item to look at has no getter under way.
InboxIdle ==
    \A c \in Conns : inbox[c] # Nothing =>
        handler[c] = "wait" /\ ~Held(Getter(Current(c)))

\* The handler of message m has an item to look at.
InInbox(m) == inbox[m[1]] # Nothing /\ m = Current(m[1])

\* A producer that is still submitted has not ended.
HeldIsUnfinished == \A m \in Msgs : Held(Producer(m)) => outcome[m] = "none"

\* A getter comes after its producer, as long as that has not ended.
ProducerFirst ==
    \A m \in Msgs : outcome[m] = "none" =>
        /\ Getter(m) \in running => Producer(m) \in running
        /\ \A i \in 1..Len(jobs) : jobs[i] = Getter(m) =>
              Producer(m) \in running \/ \E k \in 1..(i - 1) : jobs[k] = Producer(m)

\* An item of an answer that has not ended comes from a running producer.
ProducerRuns ==
    \A m \in Msgs : outcome[m] = "none" /\ (queue[m] # <<>> \/ InInbox(m)) =>
        Producer(m) \in running

\* A final item is the last one, and only an ended producer has put it.
FinalIsLast ==
    \A m \in Msgs : \A i \in 1..Len(queue[m]) : queue[m][i].t # "chunk" =>
        i = Len(queue[m]) /\ outcome[m] # "none"

\* When the producer has ended, the final item is still there for whoever is
\* going to get one more item.
FinalAwaits ==
    \A m \in Msgs :
        outcome[m] # "none"
          /\ (Held(Getter(m)) \/ (InInbox(m) /\ inbox[m[1]][1].t = "chunk")) =>
        queue[m] # <<>> /\ queue[m][Len(queue[m])].t # "chunk"

Types == TypeOK /\ WaitsForMessage

PoolInv ==
    /\ EachOnce /\ Untouched /\ InboxIdle /\ HeldIsUnfinished
    /\ ProducerFirst /\ ProducerRuns /\ FinalIsLast /\ FinalAwaits

-----------------------------------------------------------------------------
(* Messages, jobs, items *)

\* A message is a connection and a number.
LEMMA MsgIsPair ==
    /\ \A m \in Msgs : /\ m = <<m[1], m[2]>>
                       /\ m[1] \in Conns
                       /\ m[2] \in 1..MaxMsgs[m[1]]
    /\ \A c \in Conns : \A n \in 1..MaxMsgs[c] : <<c, n>> \in Msgs
  BY PoolAssumption DEF Msgs

\* What a handler waits for is a message.
LEMMA CurrentIsMsg ==
    Types => \A c \in Conns : handler[c] = "wait" =>
                /\ Current(c) \in Msgs
                /\ Current(c)[1] = c
                /\ Current(c)[2] = turn[c]
  BY MsgIsPair, PoolAssumption DEF Types, TypeOK, WaitsForMessage, Current

\* While a connection is below its bound, it can have one more message.
LEMMA NextIsMsg ==
    ASSUME Types, NEW c \in Conns, turn[c] < MaxMsgs[c]
    PROVE  /\ turn[c] \in Nat
           /\ turn[c] + 1 <= MaxMsgs[c]
           /\ <<c, turn[c] + 1>> \in Msgs
<1>1. turn[c] \in Nat /\ MaxMsgs[c] \in Nat
  BY PoolAssumption DEF Types, TypeOK
<1>2. turn[c] + 1 \in 1..MaxMsgs[c]
  BY <1>1
<1>3. QED
  BY <1>1, <1>2, MsgIsPair

\* Different submissions are different jobs.
LEMMA JobsDiffer ==
    /\ \A m, n \in Msgs : /\ Producer(m) # Getter(n)
                          /\ Producer(m) = Producer(n) => m = n
                          /\ Getter(m) = Getter(n) => m = n
    /\ \A m \in Msgs : \A p \in Posts : Producer(m) # Pipeline(p) /\ Getter(m) # Pipeline(p)
    /\ \A m \in Msgs : /\ Producer(m) \in Jobs /\ Producer(m).kind # "get"
                       /\ Getter(m) \in Jobs
    /\ \A p \in Posts : Pipeline(p) \in Jobs
  BY DEF Producer, Getter, Pipeline, Jobs

\* The items of an answer.
LEMMA ItemFacts ==
    /\ \A i \in 0..MaxChunks : Chunk(i) \in Items /\ Done(i) \in Items
    /\ Error \in Items
    /\ \A i : Chunk(i).t = "chunk" /\ Done(i).t # "chunk"
    /\ Error.t # "chunk"
  BY PoolAssumption DEF Chunk, Done, Error, Items

\* Putting one element at the end of a sequence.
LEMMA AtTheEnd ==
    ASSUME NEW S, NEW s \in Seq(S), NEW x \in S
    PROVE  /\ Append(s, x) \in Seq(S)
           /\ Append(s, x) # <<>>
           /\ Len(Append(s, x)) = Len(s) + 1
           /\ \A i \in 1..Len(s) : Append(s, x)[i] = s[i]
           /\ Append(s, x)[Len(s) + 1] = x
  OBVIOUS

\* Taking the first element off a sequence.
LEMMA FirstOff ==
    ASSUME NEW S, NEW s \in Seq(S), s # <<>>
    PROVE  /\ Head(s) \in S
           /\ Head(s) = s[1]
           /\ Len(s) \in Nat \ {0}
           /\ Tail(s) \in Seq(S)
           /\ Len(Tail(s)) = Len(s) - 1
           /\ \A i \in 1..(Len(s) - 1) : Tail(s)[i] = s[i + 1]
  BY HeadTailProperties

-----------------------------------------------------------------------------
(* Type correctness *)

\* The initial states are typed and nobody waits.
LEMMA InitTypes == Init => Types
  BY PoolAssumption DEF Init, Types, TypeOK, WaitsForMessage, Nothing

\* A handler that looks at an item has one of the answer to a message.
LEMMA InboxHasItem ==
    ASSUME Types, NEW c \in Conns, inbox[c] # Nothing
    PROVE  inbox[c][1] \in Items
<1>1. inbox[c] \in {Nothing} \cup {<<i>> : i \in Items}
  BY DEF Types, TypeOK
<1>2. PICK i \in Items : inbox[c] = <<i>>
  BY <1>1
<1>3. QED
  BY <1>2

\* The deliveries of a handler have the type of sent.
LEMMA DeliverTypes ==
    ASSUME Types, NEW c \in Conns, handler[c] = "wait", NEW item \in Items, Deliver(c, item)
    PROVE  sent' \in [Conns -> Seq([n : Nat \ {0}, item : Items])]
<1>1. [n |-> turn[c], item |-> item] \in [n : Nat \ {0}, item : Items]
  BY DEF Types, TypeOK, WaitsForMessage
<1>2. sent[c] \in Seq([n : Nat \ {0}, item : Items])
  BY DEF Types, TypeOK
<1>3. Append(sent[c], [n |-> turn[c], item |-> item]) \in Seq([n : Nat \ {0}, item : Items])
  BY <1>1, <1>2, AtTheEnd
<1>4. QED
  BY <1>3 DEF Deliver, Types, TypeOK

\* A handler that saves an exchange leaves memory and unsaved in their types.
LEMMA SaveTypes ==
    ASSUME Types, NEW c \in Conns, handler[c] = "wait", inbox[c] # Nothing, SaveExchange(c)
    PROVE  /\ memory' \in [Conns -> Seq([n : Nat \ {0}, text : 0..MaxChunks])]
           /\ unsaved' \subseteq Msgs
<1>1. Current(c) \in Msgs
  BY CurrentIsMsg
<1>2. [n |-> turn[c], text |-> inbox[c][1].val] \in [n : Nat \ {0}, text : 0..MaxChunks]
  BY DEF Types, TypeOK, WaitsForMessage, Items
<1>3. memory[c] \in Seq([n : Nat \ {0}, text : 0..MaxChunks])
  BY DEF Types, TypeOK
<1>4. Append(memory[c], [n |-> turn[c], text |-> inbox[c][1].val])
        \in Seq([n : Nat \ {0}, text : 0..MaxChunks])
  BY <1>2, <1>3, AtTheEnd
<1>5. QED
  BY <1>1, <1>4 DEF Types, TypeOK, SaveExchange

\* Every step of the handlers and of the executor keeps the types.
LEMMA StepTypes == Types /\ [Next]_vars => Types'
<1> SUFFICES ASSUME Types, [Next]_vars PROVE Types'
  OBVIOUS
<1> USE PoolAssumption DEF Types, TypeOK, WaitsForMessage
<1>1. ASSUME NEW c \in Conns, Receive(c) PROVE Types'
  <2>1. <<c, turn[c] + 1>> \in Msgs
    BY <1>1, NextIsMsg DEF Receive
  <2>2. jobs' \in Seq(Jobs)
    BY <1>1, <2>1, JobsDiffer DEF Receive
  <2>3. /\ turn' \in [Conns -> Nat]
        /\ \A d \in Conns : turn'[d] <= MaxMsgs[d]
        /\ turn'[c] >= 1
    BY <1>1, NextIsMsg DEF Receive
  <2>4. QED
    BY <1>1, <2>2, <2>3 DEF Receive, streams
<1>2. ASSUME NEW c \in Conns, ReceiveBadMessage(c) PROVE Types'
  <2>1. [n |-> turn[c] + 1, item |-> Error] \in [n : Nat \ {0}, item : Items]
    BY <1>2, ItemFacts DEF ReceiveBadMessage
  <2>2. sent[c] \in Seq([n : Nat \ {0}, item : Items])
    OBVIOUS
  <2>3. Append(sent[c], [n |-> turn[c] + 1, item |-> Error]) \in Seq([n : Nat \ {0}, item : Items])
    BY <2>1, <2>2, AtTheEnd
  <2>4. /\ turn' \in [Conns -> Nat]
        /\ \A d \in Conns : turn'[d] <= MaxMsgs[d]
    BY <1>2, NextIsMsg DEF ReceiveBadMessage
  <2>5. QED
    BY <1>2, <2>3, <2>4 DEF ReceiveBadMessage, executor, streams
<1>3. ASSUME NEW c \in Conns, ReceiveDisconnect(c) PROVE Types'
  BY <1>3 DEF ReceiveDisconnect, executor, streams
<1>4. ASSUME NEW c \in Conns, ForwardChunk(c) PROVE Types'
  <2>1. Current(c) \in Msgs
    BY <1>4, CurrentIsMsg DEF ForwardChunk
  <2>2. jobs' \in Seq(Jobs)
    BY <1>4, <2>1, JobsDiffer, AtTheEnd DEF ForwardChunk
  <2>3. sent' \in [Conns -> Seq([n : Nat \ {0}, item : Items])]
    BY <1>4, InboxHasItem, DeliverTypes DEF ForwardChunk
  <2>4. QED
    BY <1>4, <2>2, <2>3 DEF ForwardChunk, streams, Nothing
<1>5. ASSUME NEW c \in Conns, FinishAnswer(c) PROVE Types'
  <2>1. sent' \in [Conns -> Seq([n : Nat \ {0}, item : Items])]
    BY <1>5, InboxHasItem, DeliverTypes DEF FinishAnswer
  <2>2. QED
    BY <1>5, <2>1, SaveTypes DEF FinishAnswer, executor, streams
<1>6. ASSUME NEW c \in Conns, ReportError(c) PROVE Types'
  <2>1. sent' \in [Conns -> Seq([n : Nat \ {0}, item : Items])]
    BY <1>6, InboxHasItem, DeliverTypes DEF ReportError
  <2>2. QED
    BY <1>6, <2>1 DEF ReportError, executor, streams
<1>7. ASSUME NEW c \in Conns, SendFails(c) PROVE Types'
  <2>1. CASE inbox[c][1].t = "done"
    BY <1>7, <2>1, SaveTypes DEF SendFails, executor, streams
  <2>2. CASE inbox[c][1].t # "done"
    BY <1>7, <2>2 DEF SendFails, executor, streams
  <2>3. QED
    BY <2>1, <2>2
<1>8. ASSUME NEW c \in Conns, Timeout(c) PROVE Types'
  <2>1. Current(c) \in Msgs
    BY <1>8, CurrentIsMsg DEF Timeout
  <2>2. sent' \in [Conns -> Seq([n : Nat \ {0}, item : Items])]
    BY <1>8, DeliverTypes, ItemFacts DEF Timeout
  <2>3. QED
    BY <1>8, <2>1, <2>2 DEF Timeout, streams
<1>9. ASSUME NEW c \in Conns, ClientLeaves(c) PROVE Types'
  BY <1>9 DEF ClientLeaves, executor, streams
<1>10. ASSUME NEW p \in Posts, PostArrives(p) PROVE Types'
  <2>1. jobs' \in Seq(Jobs)
    BY <1>10, JobsDiffer, AtTheEnd DEF PostArrives
  <2>2. QED
    BY <1>10, <2>1 DEF PostArrives, streams
<1>11. ASSUME NEW p \in Posts, PostEnds(p) PROVE Types'
  BY <1>11 DEF PostEnds, streams
<1>12. CASE StartJob
  <2>1. Head(jobs) \in Jobs /\ jobs' \in Seq(Jobs)
    BY <1>12, FirstOff DEF StartJob
  <2>2. QED
    BY <1>12, <2>1 DEF StartJob, loop, streams
<1>13. ASSUME NEW m \in Msgs, ProduceChunk(m) PROVE Types'
  <2>1. Chunk(streamed[m] + 1) \in Items
    BY <1>13, ItemFacts DEF ProduceChunk
  <2>2. queue' \in [Msgs -> Seq(Items)]
    BY <1>13, <2>1, AtTheEnd DEF ProduceChunk
  <2>3. streamed' \in [Msgs -> 0..MaxChunks]
    BY <1>13 DEF ProduceChunk
  <2>4. QED
    BY <1>13, <2>2, <2>3 DEF ProduceChunk, loop, executor
<1>14. ASSUME NEW m \in Msgs, ProduceEnd(m) PROVE Types'
  <2>1. /\ Append(queue[m], Done(streamed[m])) \in Seq(Items)
        /\ Append(queue[m], Error) \in Seq(Items)
    <3>1. queue[m] \in Seq(Items) /\ streamed[m] \in 0..MaxChunks
      OBVIOUS
    <3>2. QED
      BY <3>1, ItemFacts, AtTheEnd
  <2>2. queue' \in [Msgs -> Seq(Items)]
    BY <1>14, <2>1 DEF ProduceEnd
  <2>3. QED
    BY <1>14, <2>2 DEF ProduceEnd, loop
<1>15. ASSUME NEW m \in Msgs, GetItem(m) PROVE Types'
  <2>1. Head(queue[m]) \in Items /\ Tail(queue[m]) \in Seq(Items)
    BY <1>15, FirstOff DEF GetItem
  <2>2. queue' \in [Msgs -> Seq(Items)]
    BY <1>15, <2>1 DEF GetItem
  <2>3. inbox' \in [Conns -> {Nothing} \cup {<<i>> : i \in Items}]
    BY <1>15, <2>1 DEF GetItem
  <2>4. QED
    BY <1>15, <2>2, <2>3 DEF GetItem
<1>16. CASE UNCHANGED vars
  BY <1>16 DEF vars
<1>17. QED
  BY <1>1, <1>2, <1>3, <1>4, <1>5, <1>6, <1>7, <1>8, <1>9, <1>10, <1>11, <1>12,
     <1>13, <1>14, <1>15, <1>16 DEF Next, Handle, Produce

-----------------------------------------------------------------------------
(* How the FIFO changes *)

\* A job is submitted.
LEMMA Submitted ==
    ASSUME Types, NEW x \in Jobs, jobs' = Append(jobs, x)
    PROVE  /\ Len(jobs) \in Nat
           /\ Len(jobs') = Len(jobs) + 1
           /\ \A i \in 1..Len(jobs) : jobs'[i] = jobs[i]
           /\ jobs'[Len(jobs) + 1] = x
           /\ \A j : Queued(j)' <=> Queued(j) \/ j = x
           /\ \A j : j # x /\ running' \subseteq running /\ Once(j) => Once(j)'
           /\ ~Held(x) /\ running' = running => Once(x)'
<1>1. jobs \in Seq(Jobs)
  BY DEF Types, TypeOK
<1>2. /\ Len(jobs) \in Nat
      /\ Len(jobs') = Len(jobs) + 1
      /\ \A i \in 1..Len(jobs) : jobs'[i] = jobs[i]
      /\ jobs'[Len(jobs) + 1] = x
  BY <1>1, AtTheEnd
<1>3. \A j : Queued(j)' <=> Queued(j) \/ j = x
  BY <1>2 DEF Queued
<1>4. ASSUME NEW j, j # x, running' \subseteq running, Once(j) PROVE Once(j)'
  BY <1>2, <1>3, <1>4 DEF Once
<1>5. ASSUME ~Held(x), running' = running PROVE Once(x)'
  <2>1. \A i \in 1..Len(jobs) : jobs[i] # x
    BY <1>5 DEF Held, Queued
  <2>2. \A i \in 1..Len(jobs') : jobs'[i] = x => i = Len(jobs) + 1
    BY <1>2, <2>1
  <2>3. QED
    BY <1>5, <2>2 DEF Once, Held
<1>6. QED
  BY <1>2, <1>3, <1>4, <1>5

\* The oldest job leaves the FIFO, for a thread or, cancelled, for good.
LEMMA Dispatched ==
    ASSUME Types, StartJob
    PROVE  /\ Len(jobs) \in Nat \ {0}
           /\ Len(jobs') = Len(jobs) - 1
           /\ \A i \in 1..(Len(jobs) - 1) : jobs'[i] = jobs[i + 1]
           /\ \A j : Queued(j) <=> Queued(j)' \/ j = jobs[1]
           /\ running' \in {running, running \cup {jobs[1]}}
           /\ jobs[1].kind # "get" => running' = running \cup {jobs[1]}
           /\ \A j : Held(j)' => Held(j)
           /\ \A j : Once(j) => Once(j)'
<1>1. jobs \in Seq(Jobs) /\ jobs # <<>> /\ jobs' = Tail(jobs)
  BY DEF Types, TypeOK, StartJob
<1>2. /\ Head(jobs) = jobs[1]
      /\ Len(jobs) \in Nat \ {0}
      /\ Len(jobs') = Len(jobs) - 1
      /\ \A i \in 1..(Len(jobs) - 1) : jobs'[i] = jobs[i + 1]
  BY <1>1, FirstOff
<1>3. /\ running' \in {running, running \cup {jobs[1]}}
      /\ jobs[1].kind # "get" => running' = running \cup {jobs[1]}
  BY <1>2 DEF StartJob
<1>4. ASSUME NEW j PROVE Queued(j) <=> Queued(j)' \/ j = jobs[1]
  <2>1. ASSUME Queued(j)' PROVE Queued(j)
    <3>1. PICK i \in 1..(Len(jobs) - 1) : jobs[i + 1] = j
      BY <1>2, <2>1 DEF Queued
    <3>2. i + 1 \in 1..Len(jobs)
      BY <1>2
    <3>3. QED
      BY <3>1, <3>2 DEF Queued
  <2>2. ASSUME Queued(j), j # jobs[1] PROVE Queued(j)'
    <3>1. PICK i \in 1..Len(jobs) : jobs[i] = j
      BY <2>2 DEF Queued
    <3>2. i - 1 \in 1..Len(jobs') /\ jobs'[i - 1] = jobs[i]
      BY <1>2, <2>2, <3>1
    <3>3. QED
      BY <3>1, <3>2 DEF Queued
  <2>3. 1 \in 1..Len(jobs)
    BY <1>2
  <2>4. QED
    BY <2>1, <2>2, <2>3 DEF Queued
<1>5. ASSUME NEW j, Once(j) PROVE Once(j)'
  <2>1. ASSUME NEW i \in 1..Len(jobs'), NEW k \in 1..Len(jobs'), jobs'[i] = j, jobs'[k] = j
        PROVE  i = k
    <3>1. i + 1 \in 1..Len(jobs) /\ k + 1 \in 1..Len(jobs)
      BY <1>2
    <3>2. jobs[i + 1] = j /\ jobs[k + 1] = j
      BY <1>2, <2>1
    <3>3. i + 1 = k + 1
      BY <1>5, <3>1, <3>2 DEF Once
    <3>4. QED
      BY <3>3, <1>2
  <2>2. ASSUME j \in running', Queued(j)' PROVE FALSE
    <3>1. Queued(j)
      BY <1>4, <2>2
    <3>2. j = jobs[1]
      BY <1>3, <1>5, <2>2, <3>1 DEF Once
    <3>3. PICK i \in 1..(Len(jobs) - 1) : jobs[i + 1] = j
      BY <1>2, <2>2 DEF Queued
    <3>4. 1 \in 1..Len(jobs) /\ i + 1 \in 1..Len(jobs) /\ i + 1 # 1
      BY <1>2
    <3>5. QED
      BY <1>5, <3>2, <3>3, <3>4 DEF Once
  <2>3. QED
    BY <2>1, <2>2 DEF Once
<1>6. \A j : Held(j)' => Held(j)
  BY <1>3, <1>4 DEF Held
<1>7. QED
  BY <1>2, <1>3, <1>4, <1>5, <1>6

-----------------------------------------------------------------------------
(* The invariant is inductive *)

\* Nothing has been submitted.
LEMMA InitPool == Init => PoolInv
<1> SUFFICES ASSUME Init PROVE PoolInv
  OBVIOUS
<1>1. \A j : ~Queued(j) /\ ~Held(j) /\ Once(j)
  BY DEF Init, Queued, Held, Once
<1>2. \A m \in Msgs : queue[m] = <<>> /\ outcome[m] = "none" /\ ~InInbox(m)
  BY MsgIsPair DEF Init, InInbox
<1>3. \A c \in Conns : inbox[c] = Nothing
  BY DEF Init
<1>4. Len(jobs) = 0 /\ running = {} /\ \A m \in Msgs : Len(queue[m]) = 0
  BY <1>2 DEF Init
<1>5. QED
  BY <1>1, <1>2, <1>3, <1>4 DEF PoolInv, EachOnce, Untouched, InboxIdle, HeldIsUnfinished,
     ProducerFirst, ProducerRuns, FinalIsLast, FinalAwaits

\* Steps that leave producers, getters, queues and inboxes alone.
LEMMA PoolUntouched ==
    ASSUME Types, PoolInv,
           jobs' = jobs, queue' = queue, outcome' = outcome, inbox' = inbox, turn' = turn,
           \A m \in Msgs : /\ Producer(m) \in running' <=> Producer(m) \in running
                           /\ Getter(m) \in running' <=> Getter(m) \in running,
           \A c \in Conns : inbox[c] # Nothing => handler'[c] = handler[c]
    PROVE  PoolInv'
<1>1. \A j : Queued(j)' <=> Queued(j)
  BY DEF Queued
<1>2. \A m \in Msgs : /\ Held(Producer(m))' <=> Held(Producer(m))
                      /\ Held(Getter(m))' <=> Held(Getter(m))
                      /\ InInbox(m)' <=> InInbox(m)
  BY <1>1 DEF Held, InInbox, Current
<1>3. EachOnce'
  BY <1>1 DEF PoolInv, EachOnce, Once
<1>4. Untouched'
  BY <1>2 DEF PoolInv, Untouched
<1>5. InboxIdle'
  BY <1>2, CurrentIsMsg DEF PoolInv, InboxIdle, Current
<1>6. HeldIsUnfinished'
  BY <1>2 DEF PoolInv, HeldIsUnfinished
<1>7. ProducerFirst'
  BY DEF PoolInv, ProducerFirst
<1>8. ProducerRuns'
  BY <1>2 DEF PoolInv, ProducerRuns
<1>9. FinalIsLast'
  BY DEF PoolInv, FinalIsLast
<1>10. FinalAwaits'
  BY <1>2 DEF PoolInv, FinalAwaits
<1>11. QED
  BY <1>3, <1>4, <1>5, <1>6, <1>7, <1>8, <1>9, <1>10 DEF PoolInv

\* A handler that is done with an item and submits nothing.
LEMMA PoolItemTaken ==
    ASSUME Types, PoolInv, NEW c \in Conns,
           inbox' = [inbox EXCEPT ![c] = Nothing],
           \A d \in Conns \ {c} : handler'[d] = handler[d],
           turn' = turn, jobs' = jobs, running' = running, queue' = queue, outcome' = outcome
    PROVE  PoolInv'
<1>1. \A j : (Queued(j)' <=> Queued(j)) /\ (Held(j)' <=> Held(j)) /\ (Once(j)' <=> Once(j))
  BY DEF Queued, Held, Once
<1>2. \A d \in Conns : inbox'[d] = IF d = c THEN Nothing ELSE inbox[d]
  BY DEF Types, TypeOK
<1>3. \A m \in Msgs : InInbox(m)' => InInbox(m) /\ inbox'[m[1]] = inbox[m[1]]
  BY <1>2, MsgIsPair DEF InInbox, Current
<1>4. EachOnce' /\ Untouched' /\ HeldIsUnfinished'
  BY <1>1 DEF PoolInv, EachOnce, Untouched, HeldIsUnfinished
<1>5. InboxIdle'
  BY <1>1, <1>2 DEF PoolInv, InboxIdle, Current
<1>6. ProducerFirst' /\ FinalIsLast'
  BY DEF PoolInv, ProducerFirst, FinalIsLast
<1>7. ProducerRuns'
  BY <1>3 DEF PoolInv, ProducerRuns
<1>8. FinalAwaits'
  BY <1>1, <1>3 DEF PoolInv, FinalAwaits
<1>9. QED
  BY <1>4, <1>5, <1>6, <1>7, <1>8 DEF PoolInv

\* A POST request adds a job that is no message's.
LEMMA PoolPostArrives ==
    ASSUME Types, PoolInv, NEW p \in Posts, PostArrives(p)
    PROVE  PoolInv'
<1> DEFINE x == Pipeline(p)
<1>1. /\ x \in Jobs /\ jobs' = Append(jobs, x) /\ running' = running
      /\ queue' = queue /\ outcome' = outcome /\ inbox' = inbox
      /\ turn' = turn /\ handler' = handler
  BY JobsDiffer DEF PostArrives, streams
<1>2. /\ Len(jobs) \in Nat /\ Len(jobs') = Len(jobs) + 1
      /\ \A i \in 1..Len(jobs) : jobs'[i] = jobs[i]
      /\ jobs'[Len(jobs) + 1] = x
      /\ \A j : Queued(j)' <=> Queued(j) \/ j = x
      /\ \A j : j # x /\ Once(j) => Once(j)'
  BY <1>1, Submitted
<1>3. \A m \in Msgs : Producer(m) # x /\ Getter(m) # x
  BY JobsDiffer
<1>4. \A m \in Msgs : /\ Held(Producer(m))' <=> Held(Producer(m))
                      /\ Held(Getter(m))' <=> Held(Getter(m))
                      /\ InInbox(m)' <=> InInbox(m)
  BY <1>1, <1>2, <1>3 DEF Held, InInbox, Current
<1>5. EachOnce'
  BY <1>2, <1>3 DEF PoolInv, EachOnce
<1>6. Untouched' /\ HeldIsUnfinished' /\ ProducerRuns' /\ FinalIsLast' /\ FinalAwaits'
  BY <1>1, <1>4 DEF PoolInv, Untouched, HeldIsUnfinished, ProducerRuns, FinalIsLast, FinalAwaits
<1>7. InboxIdle'
  BY <1>1, <1>4, CurrentIsMsg DEF PoolInv, InboxIdle, Current
<1>8. ProducerFirst'
  BY <1>1, <1>2, <1>3 DEF PoolInv, ProducerFirst
<1>9. QED
  BY <1>5, <1>6, <1>7, <1>8 DEF PoolInv

\* A message arrives: nothing was submitted for it, and now its producer and,
\* behind it, its first getter are.
LEMMA PoolReceive ==
    ASSUME Types, PoolInv, NEW c \in Conns, Receive(c)
    PROVE  PoolInv'
<1>0. PICK n \in Msgs : n = <<c, turn[c] + 1>>
  BY NextIsMsg DEF Receive
<1>1. /\ n \in Msgs /\ n[1] = c /\ n[2] = turn[c] + 1 /\ turn[c] \in Nat
  BY <1>0, NextIsMsg DEF Receive
<1>2. /\ running' = running /\ queue' = queue /\ outcome' = outcome /\ inbox' = inbox
      /\ \A d \in Conns : turn'[d] = IF d = c THEN turn[c] + 1 ELSE turn[d]
      /\ \A d \in Conns : d # c => handler'[d] = handler[d]
      /\ jobs' = jobs \o <<Producer(n), Getter(n)>>
  BY <1>0 DEF Receive, streams, Types, TypeOK
<1>3. /\ ~Held(Producer(n)) /\ ~Held(Getter(n)) /\ outcome[n] = "none"
  BY <1>1 DEF PoolInv, Untouched
<1>4. /\ jobs \in Seq(Jobs) /\ Len(jobs) \in Nat
      /\ Producer(n) \in Jobs /\ Getter(n) \in Jobs /\ Producer(n) # Getter(n)
  BY <1>1, JobsDiffer DEF Types, TypeOK
<1>5. /\ Len(jobs') = Len(jobs) + 2
      /\ \A i \in 1..Len(jobs) : jobs'[i] = jobs[i]
      /\ jobs'[Len(jobs) + 1] = Producer(n)
      /\ jobs'[Len(jobs) + 2] = Getter(n)
  BY <1>2, <1>4
<1>6. \A j : Queued(j)' <=> Queued(j) \/ j = Producer(n) \/ j = Getter(n)
  BY <1>4, <1>5 DEF Queued
<1>7. \A m \in Msgs : m # n => /\ Held(Producer(m))' <=> Held(Producer(m))
                               /\ Held(Getter(m))' <=> Held(Getter(m))
  BY <1>1, <1>2, <1>6, JobsDiffer DEF Held
<1>8. inbox[c] = Nothing
  BY DEF PoolInv, InboxIdle, Receive
<1>9. \A m \in Msgs : InInbox(m)' => InInbox(m) /\ m # n
  BY <1>1, <1>2, <1>8, MsgIsPair DEF InInbox, Current
<1>10. EachOnce'
  <2>1. ASSUME NEW j, Once(j), j # Producer(n), j # Getter(n) PROVE Once(j)'
    <3>1. \A i \in 1..Len(jobs') : jobs'[i] = j => i \in 1..Len(jobs) /\ jobs[i] = j
      BY <1>4, <1>5, <2>1
    <3>2. QED
      BY <1>2, <1>6, <2>1, <3>1 DEF Once
  <2>2. \A i \in 1..Len(jobs) : jobs'[i] # Producer(n) /\ jobs'[i] # Getter(n)
    BY <1>3, <1>5 DEF Held, Queued
  <2>3. \A i \in 1..Len(jobs') : /\ jobs'[i] = Producer(n) => i = Len(jobs) + 1
                                 /\ jobs'[i] = Getter(n) => i = Len(jobs) + 2
    BY <1>4, <1>5, <2>2
  <2>4. Once(Producer(n))' /\ Once(Getter(n))'
    BY <1>2, <1>3, <2>3 DEF Once, Held
  <2>5. QED
    BY <1>1, <2>1, <2>4, JobsDiffer DEF PoolInv, EachOnce
<1>11. Untouched'
  <2>1. ASSUME NEW m \in Msgs, m[2] > turn'[m[1]] PROVE m[2] > turn[m[1]] /\ m # n
    <3>1. m[1] \in Conns /\ m[2] \in Nat /\ turn[m[1]] \in Nat
      BY MsgIsPair DEF Types, TypeOK
    <3>2. QED
      BY <1>1, <1>2, <2>1, <3>1
  <2>2. QED
    BY <1>2, <1>7, <2>1 DEF PoolInv, Untouched
<1>12. InboxIdle'
  <2>1. ASSUME NEW d \in Conns, inbox'[d] # Nothing
        PROVE  handler'[d] = "wait" /\ ~Held(Getter(Current(d)))'
    <3>1. d # c /\ inbox[d] # Nothing
      BY <1>2, <1>8, <2>1
    <3>2. handler[d] = "wait" /\ ~Held(Getter(Current(d)))
      BY <3>1 DEF PoolInv, InboxIdle
    <3>3. Current(d)' = Current(d) /\ Current(d) \in Msgs /\ Current(d) # n
      BY <1>1, <1>2, <3>1, <3>2, CurrentIsMsg DEF Current
    <3>4. QED
      BY <1>2, <1>7, <3>1, <3>2, <3>3
  <2>2. QED
    BY <2>1 DEF InboxIdle
<1>13. HeldIsUnfinished'
  BY <1>2, <1>3, <1>7 DEF PoolInv, HeldIsUnfinished
<1>14. ProducerFirst'
  <2>1. ASSUME NEW m \in Msgs, outcome[m] = "none", NEW i \in 1..Len(jobs'),
               jobs'[i] = Getter(m)
        PROVE  Producer(m) \in running \/ \E k \in 1..(i - 1) : jobs'[k] = Producer(m)
    <3>1. CASE i \in 1..Len(jobs)
      <4>1. \/ Producer(m) \in running
            \/ \E k \in 1..(i - 1) : jobs[k] = Producer(m)
        BY <1>5, <2>1, <3>1 DEF PoolInv, ProducerFirst
      <4>2. QED
        BY <1>5, <3>1, <4>1
    <3>2. CASE i = Len(jobs) + 1
      BY <1>1, <1>5, <2>1, <3>2, JobsDiffer
    <3>3. CASE i = Len(jobs) + 2
      <4>1. m = n
        BY <1>1, <1>5, <2>1, <3>3, JobsDiffer
      <4>2. Len(jobs) + 1 \in 1..(i - 1)
        BY <1>4, <3>3
      <4>3. QED
        BY <1>5, <4>1, <4>2
    <3>4. QED
      BY <1>4, <1>5, <3>1, <3>2, <3>3
  <2>2. QED
    BY <1>2, <2>1 DEF PoolInv, ProducerFirst
<1>15. ProducerRuns' /\ FinalIsLast'
  BY <1>2, <1>9 DEF PoolInv, ProducerRuns, FinalIsLast
<1>16. FinalAwaits'
  BY <1>2, <1>3, <1>7, <1>9 DEF PoolInv, FinalAwaits
<1>17. QED
  BY <1>10, <1>11, <1>12, <1>13, <1>14, <1>15, <1>16 DEF PoolInv

\* A bad message uses up a number for which nothing is ever submitted.
LEMMA PoolReceiveBadMessage ==
    ASSUME Types, PoolInv, NEW c \in Conns, ReceiveBadMessage(c)
    PROVE  PoolInv'
<1>1. /\ jobs' = jobs /\ running' = running /\ queue' = queue
      /\ outcome' = outcome /\ inbox' = inbox /\ turn[c] \in Nat
      /\ \A d \in Conns : turn'[d] = IF d = c THEN turn[c] + 1 ELSE turn[d]
      /\ \A d \in Conns : d # c => handler'[d] = handler[d]
  BY NextIsMsg DEF ReceiveBadMessage, executor, streams, Types, TypeOK
<1>2. \A j : (Queued(j)' <=> Queued(j)) /\ (Held(j)' <=> Held(j)) /\ (Once(j)' <=> Once(j))
  BY <1>1 DEF Queued, Held, Once
<1>3. inbox[c] = Nothing
  BY DEF PoolInv, InboxIdle, ReceiveBadMessage
<1>4. \A m \in Msgs : InInbox(m)' => InInbox(m)
  BY <1>1, <1>3, MsgIsPair DEF InInbox, Current
<1>5. EachOnce' /\ HeldIsUnfinished'
  BY <1>1, <1>2 DEF PoolInv, EachOnce, HeldIsUnfinished
<1>6. Untouched'
  <2>1. ASSUME NEW m \in Msgs, m[2] > turn'[m[1]] PROVE m[2] > turn[m[1]]
    <3>1. m[1] \in Conns /\ m[2] \in Nat /\ turn[m[1]] \in Nat
      BY MsgIsPair DEF Types, TypeOK
    <3>2. QED
      BY <1>1, <2>1, <3>1
  <2>2. QED
    BY <1>1, <1>2, <2>1 DEF PoolInv, Untouched
<1>7. InboxIdle'
  BY <1>1, <1>2, <1>3 DEF PoolInv, InboxIdle, Current
<1>8. ProducerFirst' /\ FinalIsLast'
  BY <1>1 DEF PoolInv, ProducerFirst, FinalIsLast
<1>9. ProducerRuns' /\ FinalAwaits'
  BY <1>1, <1>2, <1>4 DEF PoolInv, ProducerRuns, FinalAwaits
<1>10. QED
  BY <1>5, <1>6, <1>7, <1>8, <1>9 DEF PoolInv

\* A chunk is forwarded: the next getter is the only one, its producer is on a
\* thread or has left a final item behind.
LEMMA PoolForwardChunk ==
    ASSUME Types, PoolInv, NEW c \in Conns, ForwardChunk(c)
    PROVE  PoolInv'
<1>0. PICK n \in Msgs : n = Current(c)
  BY CurrentIsMsg DEF ForwardChunk
<1>1. n[1] = c /\ n[2] = turn[c] /\ InInbox(n) /\ inbox[n[1]][1].t = "chunk"
  BY <1>0, CurrentIsMsg DEF ForwardChunk, InInbox
<1>2. /\ running' = running /\ queue' = queue /\ outcome' = outcome
      /\ turn' = turn /\ handler' = handler
      /\ \A d \in Conns : inbox'[d] = IF d = c THEN Nothing ELSE inbox[d]
      /\ Getter(n) \in Jobs /\ jobs' = Append(jobs, Getter(n))
  BY <1>0, JobsDiffer DEF ForwardChunk, streams, Types, TypeOK
<1>3. /\ Len(jobs) \in Nat /\ Len(jobs') = Len(jobs) + 1
      /\ \A i \in 1..Len(jobs) : jobs'[i] = jobs[i]
      /\ jobs'[Len(jobs) + 1] = Getter(n)
      /\ \A j : Queued(j)' <=> Queued(j) \/ j = Getter(n)
      /\ \A j : j # Getter(n) /\ Once(j) => Once(j)'
      /\ ~Held(Getter(n)) => Once(Getter(n))'
  BY <1>2, Submitted
<1>4. ~Held(Getter(n))
  BY <1>0 DEF PoolInv, InboxIdle, ForwardChunk
<1>5. \A m \in Msgs : /\ Held(Producer(m))' <=> Held(Producer(m))
                      /\ m # n => (Held(Getter(m))' <=> Held(Getter(m)))
  BY <1>2, <1>3, JobsDiffer DEF Held
<1>6. \A m \in Msgs : InInbox(m)' => InInbox(m) /\ m # n /\ inbox'[m[1]] = inbox[m[1]]
  BY <1>1, <1>2, MsgIsPair DEF InInbox, Current
<1>7. EachOnce'
  BY <1>3, <1>4, JobsDiffer DEF PoolInv, EachOnce
<1>8. Untouched' /\ HeldIsUnfinished'
  <2>1. ~(n[2] > turn[n[1]])
    BY <1>1 DEF Types, TypeOK
  <2>2. QED
    BY <1>2, <1>5, <2>1 DEF PoolInv, Untouched, HeldIsUnfinished
<1>9. InboxIdle'
  <2>1. ASSUME NEW d \in Conns, inbox'[d] # Nothing
        PROVE  handler'[d] = "wait" /\ ~Held(Getter(Current(d)))'
    <3>1. d # c /\ handler[d] = "wait" /\ ~Held(Getter(Current(d)))
      BY <1>2, <2>1 DEF PoolInv, InboxIdle
    <3>2. Current(d)' = Current(d) /\ Current(d) \in Msgs /\ Current(d) # n
      BY <1>1, <1>2, <3>1, CurrentIsMsg DEF Current
    <3>3. QED
      BY <1>2, <1>5, <3>1, <3>2
  <2>2. QED
    BY <2>1 DEF InboxIdle
<1>10. ProducerFirst'
  <2>1. ASSUME NEW m \in Msgs, outcome[m] = "none", NEW i \in 1..Len(jobs'),
               jobs'[i] = Getter(m)
        PROVE  Producer(m) \in running \/ \E k \in 1..(i - 1) : jobs'[k] = Producer(m)
    <3>1. CASE i \in 1..Len(jobs)
      <4>1. \/ Producer(m) \in running
            \/ \E k \in 1..(i - 1) : jobs[k] = Producer(m)
        BY <1>3, <2>1, <3>1 DEF PoolInv, ProducerFirst
      <4>2. QED
        BY <1>3, <3>1, <4>1
    <3>2. CASE i = Len(jobs) + 1
      <4>1. m = n
        BY <1>3, <2>1, <3>2, JobsDiffer
      <4>2. QED
        BY <1>1, <2>1, <4>1 DEF PoolInv, ProducerRuns
    <3>3. QED
      BY <1>3, <3>1, <3>2
  <2>2. QED
    BY <1>2, <2>1 DEF PoolInv, ProducerFirst
<1>11. ProducerRuns' /\ FinalIsLast'
  BY <1>2, <1>6 DEF PoolInv, ProducerRuns, FinalIsLast
<1>12. FinalAwaits'
  BY <1>1, <1>2, <1>5, <1>6 DEF PoolInv, FinalAwaits
<1>13. QED
  BY <1>7, <1>8, <1>9, <1>10, <1>11, <1>12 DEF PoolInv

\* A thread takes the oldest job: a getter that gets there finds its producer
\* on a thread already, since nothing is left ahead of it.
LEMMA PoolStartJob ==
    ASSUME Types, PoolInv, StartJob
    PROVE  PoolInv'
<1>1. /\ queue' = queue /\ outcome' = outcome /\ inbox' = inbox
      /\ turn' = turn /\ handler' = handler
  BY DEF StartJob, loop, streams
<1>2. /\ Len(jobs) \in Nat \ {0}
      /\ Len(jobs') = Len(jobs) - 1
      /\ \A i \in 1..(Len(jobs) - 1) : jobs'[i] = jobs[i + 1]
      /\ running' \in {running, running \cup {jobs[1]}}
      /\ jobs[1].kind # "get" => running' = running \cup {jobs[1]}
      /\ \A j : Held(j)' => Held(j)
      /\ \A j : Once(j) => Once(j)'
  BY Dispatched
<1>3. \A m \in Msgs : InInbox(m)' <=> InInbox(m)
  BY <1>1 DEF InInbox, Current
<1>4. EachOnce'
  BY <1>2 DEF PoolInv, EachOnce
<1>5. Untouched' /\ HeldIsUnfinished'
  BY <1>1, <1>2 DEF PoolInv, Untouched, HeldIsUnfinished
<1>6. InboxIdle'
  <2>1. ASSUME NEW d \in Conns, inbox'[d] # Nothing
        PROVE  handler'[d] = "wait" /\ ~Held(Getter(Current(d)))'
    <3>1. handler[d] = "wait" /\ ~Held(Getter(Current(d)))
      BY <1>1, <2>1 DEF PoolInv, InboxIdle
    <3>2. PICK m \in Msgs : m = Current(d) /\ Current(d)' = m
      BY <1>1, <3>1, CurrentIsMsg DEF Current
    <3>3. QED
      BY <1>1, <1>2, <3>1, <3>2
  <2>2. QED
    BY <2>1 DEF InboxIdle
<1>7. ProducerFirst'
  <2>1. ASSUME NEW m \in Msgs, outcome[m] = "none", Getter(m) \in running'
        PROVE  Producer(m) \in running'
    <3>1. CASE Getter(m) \in running
      BY <1>2, <2>1, <3>1 DEF PoolInv, ProducerFirst
    <3>2. CASE Getter(m) = jobs[1]
      <4>1. 1 \in 1..Len(jobs)
        BY <1>2
      <4>2. \/ Producer(m) \in running
            \/ \E k \in 1..(1 - 1) : jobs[k] = Producer(m)
        BY <2>1, <3>2, <4>1 DEF PoolInv, ProducerFirst
      <4>3. QED
        BY <1>2, <4>2
    <3>3. QED
      BY <1>2, <2>1, <3>1, <3>2
  <2>2. ASSUME NEW m \in Msgs, outcome[m] = "none", NEW i \in 1..Len(jobs'),
               jobs'[i] = Getter(m)
        PROVE  Producer(m) \in running' \/ \E k \in 1..(i - 1) : jobs'[k] = Producer(m)
    <3>1. i \in Nat \ {0} /\ i + 1 \in 1..Len(jobs) /\ jobs[i + 1] = Getter(m)
      BY <1>2, <2>2
    <3>2. \/ Producer(m) \in running
          \/ \E k \in 1..i : jobs[k] = Producer(m)
      BY <2>2, <3>1 DEF PoolInv, ProducerFirst
    <3>3. ASSUME NEW k \in 1..i, jobs[k] = Producer(m), k = 1
          PROVE  Producer(m) \in running'
      BY <1>2, <3>3, JobsDiffer
    <3>4. ASSUME NEW k \in 1..i, jobs[k] = Producer(m), k # 1
          PROVE  k - 1 \in 1..(i - 1) /\ jobs'[k - 1] = Producer(m)
      BY <1>2, <3>1, <3>4
    <3>5. QED
      BY <1>2, <3>2, <3>3, <3>4
  <2>3. QED
    BY <1>1, <2>1, <2>2 DEF ProducerFirst
<1>8. ProducerRuns' /\ FinalIsLast'
  BY <1>1, <1>2, <1>3 DEF PoolInv, ProducerRuns, FinalIsLast
<1>9. FinalAwaits'
  BY <1>1, <1>2, <1>3 DEF PoolInv, FinalAwaits
<1>10. QED
  BY <1>4, <1>5, <1>6, <1>7, <1>8, <1>9 DEF PoolInv

\* A producer that runs puts a chunk behind chunks.
LEMMA PoolProduceChunk ==
    ASSUME Types, PoolInv, NEW n \in Msgs, ProduceChunk(n)
    PROVE  PoolInv'
<1>1. /\ jobs' = jobs /\ running' = running /\ outcome' = outcome /\ inbox' = inbox
      /\ turn' = turn /\ handler' = handler
      /\ \A m \in Msgs : m # n => queue'[m] = queue[m]
      /\ queue'[n] = Append(queue[n], Chunk(streamed[n] + 1))
      /\ Producer(n) \in running
  BY DEF ProduceChunk, loop, executor, Types, TypeOK
<1>2. queue[n] \in Seq(Items) /\ Chunk(streamed[n] + 1) \in Items
  <2>1. streamed[n] \in 0..MaxChunks /\ queue[n] \in Seq(Items)
    BY DEF Types, TypeOK
  <2>2. streamed[n] + 1 \in 0..MaxChunks
    BY <2>1, PoolAssumption DEF ProduceChunk
  <2>3. QED
    BY <2>1, <2>2, ItemFacts
<1>3. /\ Len(queue[n]) \in Nat /\ Len(queue'[n]) = Len(queue[n]) + 1
      /\ \A i \in 1..Len(queue[n]) : queue'[n][i] = queue[n][i]
      /\ queue'[n][Len(queue[n]) + 1].t = "chunk"
  BY <1>1, <1>2, AtTheEnd DEF Chunk
<1>4. outcome[n] = "none"
  BY <1>1 DEF PoolInv, HeldIsUnfinished, Held
<1>5. \A j : (Queued(j)' <=> Queued(j)) /\ (Held(j)' <=> Held(j)) /\ (Once(j)' <=> Once(j))
  BY <1>1 DEF Queued, Held, Once
<1>6. \A m \in Msgs : InInbox(m)' <=> InInbox(m)
  BY <1>1 DEF InInbox, Current
<1>7. EachOnce' /\ Untouched' /\ HeldIsUnfinished' /\ ProducerFirst'
  BY <1>1, <1>5 DEF PoolInv, EachOnce, Untouched, HeldIsUnfinished, ProducerFirst
<1>8. InboxIdle'
  BY <1>1, <1>5 DEF PoolInv, InboxIdle, Current
<1>9. ProducerRuns'
  BY <1>1, <1>6 DEF PoolInv, ProducerRuns
<1>10. FinalIsLast'
  <2>1. \A i \in 1..Len(queue[n]) : queue[n][i].t = "chunk"
    BY <1>4 DEF PoolInv, FinalIsLast
  <2>2. \A i \in 1..Len(queue'[n]) : queue'[n][i].t = "chunk"
    BY <1>3, <2>1
  <2>3. QED
    BY <1>1, <2>2 DEF PoolInv, FinalIsLast
<1>11. FinalAwaits'
  BY <1>1, <1>4, <1>5, <1>6 DEF PoolInv, FinalAwaits
<1>12. QED
  BY <1>7, <1>8, <1>9, <1>10, <1>11 DEF PoolInv

\* A producer ends: its final item is behind all chunks.
LEMMA PoolProduceEnd ==
    ASSUME Types, PoolInv, NEW n \in Msgs, ProduceEnd(n)
    PROVE  PoolInv'
<1>1. /\ jobs' = jobs /\ running' = running \ {Producer(n)} /\ inbox' = inbox
      /\ turn' = turn /\ handler' = handler
      /\ \A m \in Msgs : m # n => queue'[m] = queue[m] /\ outcome'[m] = outcome[m]
      /\ outcome'[n] # "none"
      /\ Producer(n) \in running
  BY DEF ProduceEnd, loop, Types, TypeOK
<1>2. PICK x \in Items : x.t # "chunk" /\ queue'[n] = Append(queue[n], x)
  <2>1. streamed[n] \in 0..MaxChunks /\ queue \in [Msgs -> Seq(Items)]
    BY DEF Types, TypeOK
  <2>2. \/ queue'[n] = Append(queue[n], Done(streamed[n]))
        \/ queue'[n] = Append(queue[n], Error)
    BY <2>1 DEF ProduceEnd
  <2>3. /\ Done(streamed[n]) \in Items /\ Done(streamed[n]).t # "chunk"
        /\ Error \in Items /\ Error.t # "chunk"
    BY <2>1, ItemFacts
  <2>4. QED
    BY <2>2, <2>3
<1>3. queue[n] \in Seq(Items)
  BY DEF Types, TypeOK
<1>4. /\ Len(queue[n]) \in Nat /\ Len(queue'[n]) = Len(queue[n]) + 1
      /\ \A i \in 1..Len(queue[n]) : queue'[n][i] = queue[n][i]
      /\ queue'[n][Len(queue[n]) + 1].t # "chunk"
      /\ queue'[n] # <<>>
  BY <1>2, <1>3, AtTheEnd
<1>5. outcome[n] = "none"
  BY <1>1 DEF PoolInv, HeldIsUnfinished, Held
<1>6. /\ \A j : Queued(j)' <=> Queued(j)
      /\ \A j : Held(j)' => Held(j)
      /\ \A j : Once(j) => Once(j)'
  BY <1>1 DEF Queued, Held, Once
<1>7. \A m \in Msgs : InInbox(m)' <=> InInbox(m)
  BY <1>1 DEF InInbox, Current
<1>8. EachOnce'
  BY <1>6 DEF PoolInv, EachOnce
<1>9. ~Held(Producer(n))'
  BY <1>1, <1>6 DEF PoolInv, EachOnce, Once, Held
<1>10. Untouched'
  <2>1. ~(n[2] > turn[n[1]])
    BY <1>1 DEF PoolInv, Untouched, Held
  <2>2. QED
    BY <1>1, <1>6, <2>1 DEF PoolInv, Untouched
<1>11. InboxIdle'
  BY <1>1, <1>6 DEF PoolInv, InboxIdle, Current
<1>12. HeldIsUnfinished'
  BY <1>1, <1>6, <1>9 DEF PoolInv, HeldIsUnfinished
<1>13. \A m \in Msgs : m # n => (Producer(m) \in running' <=> Producer(m) \in running)
  BY <1>1, JobsDiffer
<1>14. ProducerFirst'
  BY <1>1, <1>13 DEF PoolInv, ProducerFirst
<1>15. ProducerRuns'
  BY <1>1, <1>7, <1>13 DEF PoolInv, ProducerRuns
<1>16. FinalIsLast'
  <2>1. \A i \in 1..Len(queue[n]) : queue[n][i].t = "chunk"
    BY <1>5 DEF PoolInv, FinalIsLast
  <2>2. \A i \in 1..Len(queue'[n]) : queue'[n][i].t # "chunk" => i = Len(queue'[n])
    BY <1>4, <2>1
  <2>3. QED
    BY <1>1, <2>2 DEF PoolInv, FinalIsLast
<1>17. FinalAwaits'
  BY <1>1, <1>4, <1>6, <1>7 DEF PoolInv, FinalAwaits
<1>18. QED
  BY <1>8, <1>10, <1>11, <1>12, <1>14, <1>15, <1>16, <1>17 DEF PoolInv

\* A getter returns the first item; after a chunk of an ended answer the final
\* item is still in the queue.
LEMMA PoolGetItem ==
    ASSUME Types, PoolInv, NEW n \in Msgs, GetItem(n)
    PROVE  PoolInv'
<1>1. /\ jobs' = jobs /\ running' = running \ {Getter(n)} /\ outcome' = outcome
      /\ turn' = turn /\ handler' = handler
      /\ \A m \in Msgs : m # n => queue'[m] = queue[m]
      /\ queue'[n] = Tail(queue[n]) /\ queue[n] # <<>>
      /\ Getter(n) \in running
  BY DEF GetItem, Types, TypeOK
<1>2. /\ n[1] \in Conns
      /\ \A d \in Conns : d # n[1] => inbox'[d] = inbox[d]
      /\ inbox'[n[1]] = IF handler[n[1]] = "wait" /\ n = Current(n[1])
                        THEN <<Head(queue[n])>> ELSE inbox[n[1]]
  BY MsgIsPair DEF GetItem, Types, TypeOK
<1>3. queue[n] \in Seq(Items)
  BY DEF Types, TypeOK
<1>4. /\ Head(queue[n]) = queue[n][1]
      /\ Len(queue[n]) \in Nat \ {0}
      /\ Len(queue'[n]) = Len(queue[n]) - 1
      /\ \A i \in 1..(Len(queue[n]) - 1) : queue'[n][i] = queue[n][i + 1]
      /\ queue'[n] \in Seq(Items)
  BY <1>1, <1>3, FirstOff
<1>5. /\ \A j : Queued(j)' <=> Queued(j)
      /\ \A j : Held(j)' => Held(j)
      /\ \A j : Once(j) => Once(j)'
  BY <1>1 DEF Queued, Held, Once
<1>6. ~Held(Getter(n))' /\ Held(Getter(n))
  BY <1>1, <1>5 DEF PoolInv, EachOnce, Once, Held
<1>7. \A m \in Msgs : m # n => /\ InInbox(m)' => InInbox(m)
                               /\ InInbox(m)' => inbox'[m[1]] = inbox[m[1]]
  BY <1>1, <1>2, MsgIsPair DEF InInbox, Current
<1>8. ~InInbox(n)
  BY <1>2, <1>6 DEF PoolInv, InboxIdle, InInbox
<1>9. InInbox(n)' => inbox'[n[1]] = <<queue[n][1]>>
  BY <1>1, <1>2, <1>4, <1>8 DEF InInbox, Current
<1>10. EachOnce' /\ Untouched' /\ HeldIsUnfinished'
  BY <1>1, <1>5 DEF PoolInv, EachOnce, Untouched, HeldIsUnfinished
<1>11. InboxIdle'
  <2>1. ASSUME NEW d \in Conns, inbox'[d] # Nothing
        PROVE  handler'[d] = "wait" /\ ~Held(Getter(Current(d)))'
    <3>1. CASE d = n[1] /\ handler[d] = "wait" /\ n = Current(d)
      <4>1. Getter(Current(d))' = Getter(n)
        BY <1>1, <3>1 DEF Current, Getter
      <4>2. QED
        BY <1>1, <1>6, <3>1, <4>1 DEF Held, Queued
    <3>2. CASE ~(d = n[1] /\ handler[d] = "wait" /\ n = Current(d))
      <4>1. inbox[d] # Nothing
        BY <1>2, <2>1, <3>2
      <4>2. handler[d] = "wait" /\ ~Held(Getter(Current(d)))
        BY <4>1 DEF PoolInv, InboxIdle
      <4>3. PICK m \in Msgs : m = Current(d) /\ Current(d)' = m
        BY <1>1, <4>2, CurrentIsMsg DEF Current
      <4>4. QED
        BY <1>1, <1>5, <4>2, <4>3
    <3>3. QED
      BY <3>1, <3>2
  <2>2. QED
    BY <2>1 DEF InboxIdle
<1>12. \A m \in Msgs : Producer(m) \in running' <=> Producer(m) \in running
  BY <1>1, JobsDiffer
<1>13. ProducerFirst'
  BY <1>1, <1>12 DEF PoolInv, ProducerFirst
<1>14. ProducerRuns'
  BY <1>1, <1>7, <1>12 DEF PoolInv, ProducerRuns
<1>15. FinalIsLast'
  <2>1. ASSUME NEW i \in 1..Len(queue'[n]), queue'[n][i].t # "chunk"
        PROVE  i = Len(queue'[n]) /\ outcome[n] # "none"
    <3>1. i + 1 \in 1..Len(queue[n]) /\ queue[n][i + 1].t # "chunk"
      BY <1>4, <2>1
    <3>2. i + 1 = Len(queue[n]) /\ outcome[n] # "none"
      BY <3>1 DEF PoolInv, FinalIsLast
    <3>3. QED
      BY <1>4, <3>2
  <2>2. QED
    BY <1>1, <2>1 DEF PoolInv, FinalIsLast
<1>16. FinalAwaits'
  <2>1. ASSUME outcome[n] # "none", InInbox(n)', inbox'[n[1]][1].t = "chunk"
        PROVE  queue'[n] # <<>> /\ queue'[n][Len(queue'[n])].t # "chunk"
    <3>1. queue[n][Len(queue[n])].t # "chunk" /\ queue[n][1].t = "chunk"
      BY <1>6, <1>9, <2>1 DEF PoolInv, FinalAwaits
    <3>2. Len(queue[n]) # 1
      BY <3>1
    <3>3. Len(queue'[n]) \in 1..(Len(queue[n]) - 1) /\ Len(queue'[n]) + 1 = Len(queue[n])
      <4> DEFINE L == Len(queue[n])
      <4>1. L \in Nat \ {0} /\ L # 1 /\ Len(queue'[n]) = L - 1
        BY <1>4, <3>2
      <4> HIDE DEF L
      <4>2. Len(queue'[n]) \in 1..(L - 1) /\ Len(queue'[n]) + 1 = L
        BY <4>1
      <4>3. QED
        BY <4>2 DEF L
    <3>4. queue'[n][Len(queue'[n])] = queue[n][Len(queue[n])]
      BY <1>4, <3>3
    <3>5. QED
      BY <1>4, <3>1, <3>3, <3>4
  <2>2. QED
    BY <1>1, <1>5, <1>6, <1>7, <2>1 DEF PoolInv, FinalAwaits
<1>17. QED
  BY <1>10, <1>11, <1>13, <1>14, <1>15, <1>16 DEF PoolInv

\* Every step keeps the invariant.
LEMMA StepPool == Types /\ PoolInv /\ [Next]_vars => PoolInv'
<1> SUFFICES ASSUME Types, PoolInv, [Next]_vars PROVE PoolInv'
  OBVIOUS
<1>1. ASSUME NEW c \in Conns, Receive(c) PROVE PoolInv'
  BY <1>1, PoolReceive
<1>2. ASSUME NEW c \in Conns, ReceiveBadMessage(c) PROVE PoolInv'
  BY <1>2, PoolReceiveBadMessage
<1>3. ASSUME NEW c \in Conns, ReceiveDisconnect(c) PROVE PoolInv'
  <2>1. \A d \in Conns : inbox[d] # Nothing => handler'[d] = handler[d]
    BY <1>3 DEF ReceiveDisconnect, PoolInv, InboxIdle, Types, TypeOK
  <2>2. QED
    BY <1>3, <2>1, PoolUntouched DEF ReceiveDisconnect, executor, streams
<1>4. ASSUME NEW c \in Conns, ForwardChunk(c) PROVE PoolInv'
  BY <1>4, PoolForwardChunk
<1>5. ASSUME NEW c \in Conns, FinishAnswer(c) \/ ReportError(c) \/ SendFails(c) PROVE PoolInv'
  <2>1. \A d \in Conns \ {c} : handler'[d] = handler[d]
    BY <1>5 DEF FinishAnswer, ReportError, SendFails, Types, TypeOK
  <2>2. QED
    BY <1>5, <2>1, PoolItemTaken
       DEF FinishAnswer, ReportError, SendFails, executor, streams
<1>6. ASSUME NEW c \in Conns, Timeout(c) PROVE PoolInv'
  <2>1. \A d \in Conns : inbox[d] # Nothing => handler'[d] = handler[d]
    BY <1>6 DEF Timeout, Types, TypeOK
  <2>2. QED
    BY <1>6, <2>1, PoolUntouched DEF Timeout, streams
<1>7. ASSUME NEW c \in Conns, ClientLeaves(c) PROVE PoolInv'
  BY <1>7, PoolUntouched DEF ClientLeaves, executor, streams
<1>8. ASSUME NEW p \in Posts, PostArrives(p) PROVE PoolInv'
  BY <1>8, PoolPostArrives
<1>9. ASSUME NEW p \in Posts, PostEnds(p) PROVE PoolInv'
  <2>1. \A m \in Msgs : /\ Producer(m) \in running' <=> Producer(m) \in running
                        /\ Getter(m) \in running' <=> Getter(m) \in running
    BY <1>9, JobsDiffer DEF PostEnds
  <2>2. QED
    BY <1>9, <2>1, PoolUntouched DEF PostEnds, streams
<1>10. CASE StartJob
  BY <1>10, PoolStartJob
<1>11. ASSUME NEW m \in Msgs, ProduceChunk(m) PROVE PoolInv'
  BY <1>11, PoolProduceChunk
<1>12. ASSUME NEW m \in Msgs, ProduceEnd(m) PROVE PoolInv'
  BY <1>12, PoolProduceEnd
<1>13. ASSUME NEW m \in Msgs, GetItem(m) PROVE PoolInv'
  BY <1>13, PoolGetItem
<1>14. CASE UNCHANGED vars
  BY <1>14, PoolUntouched DEF vars
<1>15. QED
  BY <1>1, <1>2, <1>3, <1>4, <1>5, <1>6, <1>7, <1>8, <1>9, <1>10, <1>11, <1>12,
     <1>13, <1>14 DEF Next, Handle, Produce

-----------------------------------------------------------------------------
(* What the streams carry *)

\* The items that a producer puts: how many so far, the i-th of them, and how
\* many getters have taken off the queue.
Put(m) == IF outcome[m] = "none" THEN streamed[m] ELSE streamed[m] + 1
PutItem(m, i) == IF i <= streamed[m] THEN Chunk(i)
                 ELSE IF outcome[m] = "done" THEN Done(streamed[m]) ELSE Error
Taken(m) == Put(m) - Len(queue[m])

\* A queue holds, in order, what was put and has not been taken.
QueueHolds ==
    \A m \in Msgs :
        /\ Taken(m) >= 0
        /\ \A i \in 1..Len(queue[m]) : queue[m][i] = PutItem(m, Taken(m) + i)

\* Nothing has been put for a message that has not been received.
NothingYet == \A m \in Msgs : m[2] > turn[m[1]] => streamed[m] = 0 /\ queue[m] = <<>>

\* How many items of its message a handler has dealt with: all that were taken,
\* but for the one in its hand.
Passed(c) == IF inbox[c] = Nothing THEN Taken(Current(c)) ELSE Taken(Current(c)) - 1

\* While it goes on, those were chunks.
HandlerAt ==
    \A c \in Conns : handler[c] = "wait" =>
        /\ Passed(c) \in 0..streamed[Current(c)]
        /\ inbox[c] # Nothing => inbox[c][1] = PutItem(Current(c), Taken(Current(c)))

StreamInv == QueueHolds /\ NothingYet /\ HandlerAt

\* What has been put stays as it was put, and what was taken is taken.
LEMMA PutStays ==
    ASSUME Types, StreamInv, NEW m \in Msgs,
           \/ /\ outcome'[m] = outcome[m] /\ streamed'[m] = streamed[m]
              /\ queue'[m] = queue[m]
           \/ /\ outcome[m] = "none"
              /\ \/ outcome'[m] = "none" /\ streamed'[m] = streamed[m] + 1
                 \/ outcome'[m] # "none" /\ streamed'[m] = streamed[m]
              /\ \E x \in Items : queue'[m] = Append(queue[m], x)
    PROVE  /\ Taken(m)' = Taken(m) /\ Taken(m) \in Nat /\ Taken(m) <= Put(m)
           /\ \A i \in 1..Put(m) : PutItem(m, i)' = PutItem(m, i)
<1>1. streamed[m] \in Nat /\ queue[m] \in Seq(Items) /\ Len(queue[m]) \in Nat
  BY PoolAssumption DEF Types, TypeOK
<1>2. Put(m) \in Nat /\ Taken(m) \in Nat /\ Taken(m) <= Put(m)
  BY <1>1 DEF StreamInv, QueueHolds, Put, Taken
<1>3. CASE /\ outcome'[m] = outcome[m] /\ streamed'[m] = streamed[m]
           /\ queue'[m] = queue[m]
  BY <1>2, <1>3 DEF Put, Taken, PutItem
<1>4. CASE /\ outcome[m] = "none"
           /\ \/ outcome'[m] = "none" /\ streamed'[m] = streamed[m] + 1
              \/ outcome'[m] # "none" /\ streamed'[m] = streamed[m]
           /\ \E x \in Items : queue'[m] = Append(queue[m], x)
  <2>1. Len(queue'[m]) = Len(queue[m]) + 1
    BY <1>1, <1>4, AtTheEnd
  <2>2. Put(m)' = Put(m) + 1
    BY <1>1, <1>4 DEF Put
  <2>3. Taken(m)' = Taken(m)
    BY <1>1, <1>2, <2>1, <2>2 DEF Taken
  <2>4. \A i \in 1..Put(m) : PutItem(m, i)' = PutItem(m, i)
    BY <1>1, <1>4 DEF Put, PutItem
  <2> QED
    BY <1>2, <2>3, <2>4
<1> QED
  BY <1>3, <1>4

\* A handler that goes on as it was is where it was.
LEMMA HandlerStays ==
    ASSUME Types, StreamInv, NEW c \in Conns, handler[c] = "wait",
           turn'[c] = turn[c], inbox'[c] = inbox[c],
           Taken(Current(c))' = Taken(Current(c)),
           \A i \in 1..Put(Current(c)) : PutItem(Current(c), i)' = PutItem(Current(c), i),
           streamed'[Current(c)] \in Nat, streamed'[Current(c)] >= streamed[Current(c)]
    PROVE  /\ Passed(c)' = Passed(c)
           /\ Passed(c)' \in 0..streamed'[Current(c)]
           /\ inbox'[c] # Nothing => inbox'[c][1] = PutItem(Current(c), Taken(Current(c)))'
<1> DEFINE m == Current(c)
<1>1. m \in Msgs /\ Current(c)' = m
  BY CurrentIsMsg DEF Current
<1>2. /\ streamed[m] \in Nat /\ Len(queue[m]) \in Nat
      /\ Put(m) \in Nat /\ Taken(m) \in Nat /\ Taken(m) <= Put(m)
  <2>1. streamed[m] \in Nat /\ queue[m] \in Seq(Items)
    BY <1>1, PoolAssumption DEF Types, TypeOK
  <2> QED
    BY <1>1, <2>1 DEF StreamInv, QueueHolds, Put, Taken
<1>3. /\ Passed(c) \in 0..streamed[m]
      /\ inbox[c] # Nothing => inbox[c][1] = PutItem(m, Taken(m))
  BY DEF StreamInv, HandlerAt
<1>4. Passed(c)' = Passed(c)
  BY <1>1 DEF Passed
<1>5. inbox[c] # Nothing => Taken(m) \in 1..Put(m)
  BY <1>2, <1>3 DEF Passed
<1>6. inbox'[c] # Nothing => inbox'[c][1] = PutItem(m, Taken(m))'
  BY <1>1, <1>3, <1>5
<1> QED
  BY <1>1, <1>2, <1>3, <1>4, <1>6

\* A step that puts nothing and takes nothing.
LEMMA StreamStays ==
    ASSUME Types, PoolInv, StreamInv, UNCHANGED streams,
           \A c \in Conns : turn'[c] >= turn[c] /\ turn'[c] \in Nat,
           \A c \in Conns : handler'[c] = "wait" =>
               \/ handler[c] = "wait" /\ turn'[c] = turn[c] /\ inbox'[c] = inbox[c]
               \/ /\ handler[c] = "wait" /\ turn'[c] = turn[c] /\ inbox'[c] = Nothing
                  /\ inbox[c] # Nothing /\ inbox[c][1].t = "chunk"
               \/ /\ turn'[c] = turn[c] + 1 /\ <<c, turn'[c]>> \in Msgs
                  /\ inbox'[c] = Nothing
    PROVE  StreamInv'
<1>1. \A m \in Msgs : /\ outcome'[m] = outcome[m] /\ streamed'[m] = streamed[m]
                      /\ queue'[m] = queue[m]
  BY DEF streams
<1>2. \A m \in Msgs : /\ Taken(m)' = Taken(m) /\ Taken(m) \in Nat /\ Taken(m) <= Put(m)
                      /\ \A i : PutItem(m, i)' = PutItem(m, i)
  BY <1>1, PutStays DEF PutItem
<1>3. QueueHolds'
  BY <1>1, <1>2 DEF StreamInv, QueueHolds
<1>4. NothingYet'
  <2>1. \A m \in Msgs : m[2] > turn'[m[1]] => m[2] > turn[m[1]]
    BY MsgIsPair, PoolAssumption DEF Types, TypeOK
  <2> QED
    BY <1>1, <2>1 DEF StreamInv, NothingYet
<1>5. ASSUME NEW c \in Conns, handler'[c] = "wait"
      PROVE  /\ Passed(c)' \in 0..streamed'[Current(c)']
             /\ inbox'[c] # Nothing => inbox'[c][1] = PutItem(Current(c), Taken(Current(c)))'
  <2>1. CASE handler[c] = "wait" /\ turn'[c] = turn[c] /\ inbox'[c] = inbox[c]
    <3>1. Current(c) \in Msgs /\ Current(c)' = Current(c)
      BY <2>1, CurrentIsMsg DEF Current
    <3>2. streamed[Current(c)] \in Nat /\ streamed'[Current(c)] = streamed[Current(c)]
      BY <1>1, <3>1, PoolAssumption DEF Types, TypeOK
    <3> QED
      BY <1>2, <2>1, <3>1, <3>2, HandlerStays
  <2>2. CASE /\ handler[c] = "wait" /\ turn'[c] = turn[c] /\ inbox'[c] = Nothing
             /\ inbox[c] # Nothing /\ inbox[c][1].t = "chunk"
    <3>1. PICK m \in Msgs : m = Current(c) /\ Current(c)' = m
      BY <2>2, CurrentIsMsg DEF Current
    <3>2. PutItem(m, Taken(m)).t = "chunk"
      BY <2>2, <3>1 DEF StreamInv, HandlerAt
    <3>3. streamed[m] \in Nat /\ Taken(m) \in Nat
      BY <1>2, PoolAssumption DEF Types, TypeOK
    <3>4. Taken(m) <= streamed[m]
      BY <3>2, <3>3, ItemFacts DEF PutItem
    <3>5. Passed(c)' = Taken(m)
      BY <1>2, <2>2, <3>1 DEF Passed
    <3> QED
      BY <1>1, <2>2, <3>1, <3>3, <3>4, <3>5
  <2>3. CASE /\ turn'[c] = turn[c] + 1 /\ <<c, turn'[c]>> \in Msgs
             /\ inbox'[c] = Nothing
    <3>1. PICK m \in Msgs : m = <<c, turn'[c]>> /\ Current(c)' = m /\ m[1] = c /\ m[2] = turn'[c]
      BY <2>3 DEF Current
    <3>2. m[2] > turn[m[1]]
      BY <2>3, <3>1 DEF Types, TypeOK
    <3>3. streamed[m] = 0 /\ queue[m] = <<>> /\ outcome[m] = "none"
      BY <3>2 DEF StreamInv, NothingYet, PoolInv, Untouched
    <3>4. Taken(m) = 0
      <4>1. Put(m) = 0
        BY <3>3 DEF Put
      <4>2. Len(queue[m]) = 0
        BY <3>3
      <4> QED
        BY <4>1, <4>2 DEF Taken
    <3> QED
      BY <1>1, <1>2, <2>3, <3>1, <3>3, <3>4 DEF Passed
  <2> QED
    BY <1>5, <2>1, <2>2, <2>3
<1>6. HandlerAt'
  BY <1>5 DEF HandlerAt
<1> QED
  BY <1>3, <1>4, <1>6 DEF StreamInv

\* Nothing has been put in the initial states.
LEMMA InitStream == Init => StreamInv
  BY PoolAssumption DEF Init, StreamInv, QueueHolds, NothingYet, HandlerAt, Put, Taken

\* A producer puts one more item.
LEMMA StreamProduce ==
    ASSUME Types, PoolInv, StreamInv, NEW n \in Msgs, Produce(n)
    PROVE  StreamInv' /\ \A c \in Conns : handler[c] = "wait" => Passed(c)' = Passed(c)
<1>1. /\ inbox' = inbox /\ turn' = turn /\ handler' = handler
      /\ \A m \in Msgs : m # n =>
            queue'[m] = queue[m] /\ outcome'[m] = outcome[m] /\ streamed'[m] = streamed[m]
      /\ Producer(n) \in running
  BY DEF Produce, ProduceChunk, ProduceEnd, loop, Types, TypeOK
<1>2. outcome[n] = "none" /\ ~(n[2] > turn[n[1]])
  BY <1>1 DEF PoolInv, HeldIsUnfinished, Untouched, Held
<1>3. streamed[n] \in 0..MaxChunks /\ queue[n] \in Seq(Items)
  BY DEF Types, TypeOK
<1>4. PICK x \in Items :
         /\ queue'[n] = Append(queue[n], x)
         /\ \/ /\ outcome'[n] = "none" /\ streamed'[n] = streamed[n] + 1
               /\ x = Chunk(streamed[n] + 1)
            \/ /\ outcome'[n] = "done" /\ streamed'[n] = streamed[n]
               /\ x = Done(streamed[n])
            \/ /\ outcome'[n] = "error" /\ streamed'[n] = streamed[n] /\ x = Error
  <2>1. CASE ProduceChunk(n)
    <3>1. Chunk(streamed[n] + 1) \in Items
      BY <1>3, <2>1, ItemFacts, PoolAssumption DEF ProduceChunk
    <3>2. queue'[n] = Append(queue[n], Chunk(streamed[n] + 1))
      BY <2>1 DEF ProduceChunk, Types, TypeOK
    <3>3. streamed'[n] = streamed[n] + 1 /\ outcome'[n] = "none"
      BY <1>2, <2>1 DEF ProduceChunk, Types, TypeOK
    <3> QED
      BY <3>1, <3>2, <3>3
  <2>2. CASE ProduceEnd(n)
    <3>1. Done(streamed[n]) \in Items /\ Error \in Items
      BY <1>3, ItemFacts
    <3>2. \/ queue'[n] = Append(queue[n], Done(streamed[n])) /\ outcome'[n] = "done"
          \/ queue'[n] = Append(queue[n], Error) /\ outcome'[n] = "error"
      BY <2>2 DEF ProduceEnd, Types, TypeOK
    <3>3. streamed'[n] = streamed[n]
      BY <2>2 DEF ProduceEnd
    <3> QED
      BY <3>1, <3>2, <3>3
  <2> QED
    BY <2>1, <2>2 DEF Produce
<1>5. \A m \in Msgs : /\ Taken(m)' = Taken(m) /\ Taken(m) \in Nat /\ Taken(m) <= Put(m)
                      /\ \A i \in 1..Put(m) : PutItem(m, i)' = PutItem(m, i)
  <2>1. \/ outcome'[n] = "none" /\ streamed'[n] = streamed[n] + 1
        \/ outcome'[n] # "none" /\ streamed'[n] = streamed[n]
    BY <1>4
  <2>2. \E z \in Items : queue'[n] = Append(queue[n], z)
    BY <1>4
  <2>3. ASSUME NEW m \in Msgs
        PROVE  /\ Taken(m)' = Taken(m) /\ Taken(m) \in Nat /\ Taken(m) <= Put(m)
               /\ \A i \in 1..Put(m) : PutItem(m, i)' = PutItem(m, i)
    <3>1. CASE m # n
      BY <1>1, <3>1, PutStays
    <3>2. CASE m = n
      BY <1>2, <2>1, <2>2, <3>2, PutStays
    <3> QED
      BY <3>1, <3>2
  <2> QED
    BY <2>3
<1>6. ASSUME NEW m \in Msgs, NEW i \in 1..Len(queue'[m])
      PROVE  queue'[m][i] = PutItem(m, Taken(m) + i)'
  <2>1. CASE m # n
    <3>1. queue'[m] = queue[m] /\ outcome'[m] = outcome[m] /\ streamed'[m] = streamed[m]
      BY <1>1, <2>1
    <3>2. Taken(m)' = Taken(m)
      BY <1>5
    <3> QED
      BY <1>6, <3>1, <3>2 DEF StreamInv, QueueHolds, PutItem
  <2>2. CASE m = n
    <3>1. /\ Len(queue[n]) \in Nat
          /\ Len(queue'[n]) = Len(queue[n]) + 1
          /\ \A j \in 1..Len(queue[n]) : queue'[n][j] = queue[n][j]
          /\ queue'[n][Len(queue[n]) + 1] = x
      BY <1>3, <1>4, AtTheEnd
    <3>2. Put(n) = streamed[n] /\ streamed[n] \in Nat /\ Taken(n) + Len(queue[n]) = streamed[n]
      BY <1>2, <1>3, <3>1, PoolAssumption DEF Put, Taken
    <3>3. Taken(n)' = Taken(n) /\ Taken(n) \in Nat
      BY <1>5
    <3>4. CASE i \in 1..Len(queue[n])
      <4>1. queue[n][i] = PutItem(n, Taken(n) + i)
        BY <3>4 DEF StreamInv, QueueHolds
      <4>2. Taken(n) + i \in 1..Put(n)
        BY <3>1, <3>2, <3>3, <3>4
      <4>3. PutItem(n, Taken(n) + i)' = PutItem(n, Taken(n) + i)
        <5>1. PICK j \in 1..Put(n) : j = Taken(n) + i
          BY <4>2
        <5>2. PutItem(n, j)' = PutItem(n, j)
          BY <1>5
        <5> QED
          BY <3>3, <5>1, <5>2
      <4> QED
        BY <2>2, <3>1, <3>4, <4>1, <4>3
    <3>5. CASE i = Len(queue[n]) + 1
      <4>1. Taken(n)' + i = streamed[n] + 1
        BY <3>1, <3>2, <3>3, <3>5
      <4>2. PutItem(n, Taken(n) + i)' = x
        <5>1. PICK j \in Nat : j = streamed[n] + 1
          BY <3>2
        <5>2. PutItem(n, j)' = x
          BY <1>4, <3>2, <5>1 DEF PutItem
        <5> QED
          BY <4>1, <5>1, <5>2
      <4> QED
        BY <2>2, <3>1, <3>5, <4>2
    <3> QED
      BY <1>6, <2>2, <3>1, <3>4, <3>5
  <2> QED
    BY <2>1, <2>2
<1>7. QueueHolds'
  <2>1. \A m \in Msgs : Taken(m)' >= 0
    BY <1>5
  <2> QED
    BY <1>6, <2>1 DEF QueueHolds
<1>8. NothingYet'
  BY <1>1, <1>2 DEF StreamInv, NothingYet
<1>9. ASSUME NEW c \in Conns, handler'[c] = "wait"
      PROVE  /\ Passed(c)' = Passed(c)
             /\ Passed(c)' \in 0..streamed'[Current(c)']
             /\ inbox'[c] # Nothing => inbox'[c][1] = PutItem(Current(c), Taken(Current(c)))'
  <2>1. PICK m \in Msgs : m = Current(c) /\ Current(c)' = m
    BY <1>1, <1>9, CurrentIsMsg DEF Current
  <2>2. streamed'[m] \in Nat /\ streamed'[m] >= streamed[m]
    <3>1. streamed[m] \in Nat
      BY PoolAssumption DEF Types, TypeOK
    <3> QED
      BY <1>1, <1>4, <3>1
  <2> QED
    BY <1>1, <1>5, <1>9, <2>1, <2>2, HandlerStays
<1>10. HandlerAt'
  BY <1>9 DEF HandlerAt
<1> QED
  BY <1>1, <1>7, <1>8, <1>9, <1>10 DEF StreamInv

\* A getter takes the next item, into the hand of its handler if that waits.
LEMMA StreamGetItem ==
    ASSUME Types, PoolInv, StreamInv, NEW n \in Msgs, GetItem(n)
    PROVE  StreamInv' /\ \A c \in Conns : handler[c] = "wait" => Passed(c)' = Passed(c)
<1>1. /\ outcome' = outcome /\ streamed' = streamed /\ turn' = turn /\ handler' = handler
      /\ \A m \in Msgs : m # n => queue'[m] = queue[m]
      /\ queue'[n] = Tail(queue[n]) /\ queue[n] # <<>>
      /\ Getter(n) \in running
  BY DEF GetItem, Types, TypeOK
<1>2. \A d \in Conns : inbox'[d] = IF d = n[1] /\ handler[d] = "wait" /\ n = Current(d)
                                   THEN <<Head(queue[n])>> ELSE inbox[d]
  BY MsgIsPair DEF GetItem, Types, TypeOK
<1>3. /\ Head(queue[n]) = queue[n][1]
      /\ Len(queue[n]) \in Nat \ {0}
      /\ Len(queue'[n]) = Len(queue[n]) - 1
      /\ \A i \in 1..(Len(queue[n]) - 1) : queue'[n][i] = queue[n][i + 1]
  <2>1. queue[n] \in Seq(Items)
    BY DEF Types, TypeOK
  <2> QED
    BY <1>1, <2>1, FirstOff
<1>4. \A m \in Msgs : /\ Put(m) \in Nat /\ Put(m)' = Put(m)
                      /\ \A i : PutItem(m, i)' = PutItem(m, i)
                      /\ Taken(m) \in Nat
  <2>1. \A m \in Msgs : streamed[m] \in Nat /\ Len(queue[m]) \in Nat
    BY PoolAssumption DEF Types, TypeOK
  <2> QED
    BY <1>1, <2>1 DEF Put, PutItem, Taken, StreamInv, QueueHolds
<1>5. Taken(n)' = Taken(n) + 1 /\ \A m \in Msgs : m # n => Taken(m)' = Taken(m)
  BY <1>1, <1>3, <1>4 DEF Taken
<1>6. ASSUME NEW m \in Msgs, NEW i \in 1..Len(queue'[m])
      PROVE  queue'[m][i] = PutItem(m, Taken(m) + i)'
  <2>1. CASE m # n
    <3>1. queue'[m] = queue[m] /\ Taken(m)' = Taken(m)
      BY <1>1, <1>5, <2>1
    <3>2. queue[m][i] = PutItem(m, Taken(m) + i)
      BY <1>6, <3>1 DEF StreamInv, QueueHolds
    <3> QED
      BY <1>1, <3>1, <3>2 DEF PutItem
  <2>2. CASE m = n
    <3>1. i + 1 \in 1..Len(queue[n]) /\ i \in 1..(Len(queue[n]) - 1) /\ i \in Nat
      BY <1>3, <1>6, <2>2
    <3>2. queue[n][i + 1] = PutItem(n, Taken(n) + (i + 1))
      BY <3>1 DEF StreamInv, QueueHolds
    <3>3. Taken(n)' + i = Taken(n) + (i + 1)
      BY <1>4, <1>5, <3>1
    <3>4. queue'[n][i] = queue[n][i + 1]
      BY <1>3, <3>1
    <3> QED
      BY <1>1, <2>2, <3>2, <3>3, <3>4 DEF PutItem
  <2> QED
    BY <2>1, <2>2
<1>7. QueueHolds'
  <2>1. \A m \in Msgs : Taken(m)' >= 0
    BY <1>4, <1>5
  <2> QED
    BY <1>6, <2>1 DEF QueueHolds
<1>8. NothingYet'
  BY <1>1 DEF StreamInv, NothingYet
<1>9. ASSUME NEW c \in Conns, handler'[c] = "wait"
      PROVE  /\ Passed(c)' = Passed(c)
             /\ Passed(c)' \in 0..streamed'[Current(c)']
             /\ inbox'[c] # Nothing => inbox'[c][1] = PutItem(Current(c), Taken(Current(c)))'
  <2>1. PICK m \in Msgs : m = Current(c) /\ Current(c)' = m /\ m[1] = c
    BY <1>1, <1>9, CurrentIsMsg DEF Current
  <2>2. handler[c] = "wait" /\ Passed(c) \in 0..streamed[m]
    BY <1>1, <1>9, <2>1 DEF StreamInv, HandlerAt
  <2>3. CASE m # n
    <3>1. inbox'[c] = inbox[c] /\ Taken(m)' = Taken(m)
      BY <1>2, <1>5, <2>1, <2>3
    <3>2. Passed(c)' = Passed(c)
      BY <2>1, <3>1 DEF Passed
    <3>3. inbox[c] # Nothing => inbox[c][1] = PutItem(m, Taken(m))
      BY <2>1, <2>2 DEF StreamInv, HandlerAt
    <3>4. PutItem(Current(c), Taken(Current(c)))' = PutItem(m, Taken(m))
      BY <1>1, <2>1, <3>1 DEF PutItem
    <3> QED
      BY <1>1, <2>1, <2>2, <3>1, <3>2, <3>3, <3>4
  <2>4. CASE m = n
    <3>1. inbox[c] = Nothing
      BY <1>1, <2>1, <2>4 DEF PoolInv, InboxIdle, Held
    <3>2. inbox'[c] = <<queue[m][1]>> /\ inbox'[c] # Nothing
      <4>1. inbox'[c] = <<queue[m][1]>>
        BY <1>2, <1>3, <2>1, <2>2, <2>4
      <4>2. <<queue[m][1]>> # Nothing
        BY DEF Nothing
      <4> QED
        BY <4>1, <4>2
    <3>3. Passed(c)' = Passed(c)
      BY <1>4, <1>5, <2>1, <2>4, <3>1, <3>2 DEF Passed
    <3>4. queue[m][1] = PutItem(m, Taken(m) + 1)
      BY <1>3, <2>4 DEF StreamInv, QueueHolds
    <3>5. PutItem(Current(c), Taken(Current(c)))' = PutItem(m, Taken(m) + 1)
      BY <1>1, <1>5, <2>1, <2>4 DEF PutItem
    <3> QED
      BY <1>1, <2>1, <2>2, <3>2, <3>3, <3>4, <3>5
  <2> QED
    BY <2>3, <2>4
<1>10. HandlerAt'
  BY <1>9 DEF HandlerAt
<1> QED
  BY <1>1, <1>7, <1>8, <1>9, <1>10 DEF StreamInv

\* Every step keeps the order of what the streams carry.
LEMMA StepStream == Types /\ PoolInv /\ StreamInv /\ [Next]_vars => StreamInv'
<1> SUFFICES ASSUME Types, PoolInv, StreamInv, [Next]_vars PROVE StreamInv'
  OBVIOUS
<1>1. ASSUME NEW c \in Conns, Receive(c) \/ ReceiveBadMessage(c) PROVE StreamInv'
  <2>1. turn[c] + 1 \in Nat /\ <<c, turn[c] + 1>> \in Msgs
    BY <1>1, NextIsMsg DEF Receive, ReceiveBadMessage
  <2>2. \A d \in Conns : turn[d] \in Nat /\ turn'[d] = IF d = c THEN turn[d] + 1 ELSE turn[d]
    BY <1>1 DEF Receive, ReceiveBadMessage, Types, TypeOK
  <2>3. inbox[c] = Nothing /\ UNCHANGED streams /\ inbox' = inbox
    BY <1>1 DEF Receive, ReceiveBadMessage, PoolInv, InboxIdle
  <2>4. \A d \in Conns : d # c => handler'[d] = handler[d]
    BY <1>1 DEF Receive, ReceiveBadMessage, Types, TypeOK
  <2> QED
    BY <2>1, <2>2, <2>3, <2>4, StreamStays
<1>2. ASSUME NEW c \in Conns, ForwardChunk(c) PROVE StreamInv'
  <2>1. /\ turn' = turn /\ handler' = handler /\ UNCHANGED streams
        /\ inbox[c] # Nothing /\ inbox[c][1].t = "chunk" /\ inbox'[c] = Nothing
        /\ \A d \in Conns : d # c => inbox'[d] = inbox[d]
    BY <1>2 DEF ForwardChunk, Types, TypeOK
  <2>2. \A d \in Conns : turn[d] \in Nat
    BY DEF Types, TypeOK
  <2> QED
    BY <2>1, <2>2, StreamStays
<1>3. ASSUME NEW c \in Conns,
             \/ ReceiveDisconnect(c) \/ FinishAnswer(c) \/ ReportError(c) \/ SendFails(c)
             \/ Timeout(c)
      PROVE  StreamInv'
  <2>1. /\ turn' = turn /\ UNCHANGED streams /\ handler'[c] # "wait"
        /\ \A d \in Conns : d # c => inbox'[d] = inbox[d] /\ handler'[d] = handler[d]
    BY <1>3 DEF ReceiveDisconnect, FinishAnswer, ReportError, SendFails, Timeout, Types, TypeOK
  <2>2. \A d \in Conns : turn[d] \in Nat
    BY DEF Types, TypeOK
  <2> QED
    BY <2>1, <2>2, StreamStays
<1>4. ASSUME \/ \E c \in Conns : ClientLeaves(c)
             \/ \E p \in Posts : PostArrives(p) \/ PostEnds(p)
             \/ StartJob \/ UNCHANGED vars
      PROVE  StreamInv'
  <2>1. turn' = turn /\ UNCHANGED streams /\ handler' = handler /\ inbox' = inbox
    BY <1>4 DEF ClientLeaves, PostArrives, PostEnds, StartJob, vars, loop, streams
  <2>2. \A d \in Conns : turn[d] \in Nat
    BY DEF Types, TypeOK
  <2> QED
    BY <2>1, <2>2, StreamStays
<1>5. ASSUME NEW m \in Msgs, Produce(m) PROVE StreamInv'
  BY <1>5, StreamProduce
<1>6. ASSUME NEW m \in Msgs, GetItem(m) PROVE StreamInv'
  BY <1>6, StreamGetItem
<1> QED
  BY <1>1, <1>2, <1>3, <1>4, <1>5, <1>6 DEF Next, Handle

-----------------------------------------------------------------------------
(* What clients receive *)

\* A sequence of items for a client is made up of streams, as far as they go.
Intact(s) ==
    \A i \in 1..Len(s) : \E k \in 0..MaxChunks :
        /\ s[i].item \in {Chunk(k + 1), Done(k), Error}
        /\ \/ k = 0 /\ (i = 1 \/ s[i - 1].n < s[i].n)
           \/ k > 0 /\ i > 1 /\ s[i - 1] = [n |-> s[i].n, item |-> Chunk(k)]

\* It ends with the first k chunks of message t, which come after earlier messages.
Fits(s, t, k) == IF k = 0 THEN s = <<>> \/ s[Len(s)].n < t
                 ELSE s # <<>> /\ s[Len(s)] = [n |-> t, item |-> Chunk(k)]

\* A client that stays has received the chunks its handler has dealt with.
SentAt(c) ==
    /\ \A i \in 1..Len(sent[c]) : sent[c][i].n <= turn[c]
    /\ client[c] = "open" /\ handler[c] = "wait" => Fits(sent[c], turn[c], Passed(c))

SentInv == StreamsIntact /\ \A c \in Conns : SentAt(c)

Deliveries == [n : Nat \ {0}, item : Items]

\* The next item of a stream, or the first of a later one, keeps streams intact.
LEMMA IntactGrows ==
    ASSUME NEW s \in Seq(Deliveries), Intact(s), NEW t \in Nat \ {0}, NEW x \in Items,
           NEW k \in 0..MaxChunks, x \in {Chunk(k + 1), Done(k), Error}, Fits(s, t, k)
    PROVE  Intact(Append(s, [n |-> t, item |-> x]))
<1> DEFINE d == [n |-> t, item |-> x]
           u == Append(s, d)
<1>1. d \in Deliveries /\ d.n = t /\ d.item = x
  BY DEF Deliveries
<1> HIDE DEF d
<1>2. /\ Len(s) \in Nat /\ Len(u) = Len(s) + 1 /\ u[Len(s) + 1] = d
      /\ \A i \in 1..Len(s) : u[i] = s[i]
  BY <1>1, AtTheEnd
<1> HIDE DEF u
<1> SUFFICES ASSUME NEW i \in 1..Len(u)
             PROVE  \E j \in 0..MaxChunks :
                       /\ u[i].item \in {Chunk(j + 1), Done(j), Error}
                       /\ \/ j = 0 /\ (i = 1 \/ u[i - 1].n < u[i].n)
                          \/ j > 0 /\ i > 1 /\ u[i - 1] = [n |-> u[i].n, item |-> Chunk(j)]
  BY DEF Intact, u, d
<1>3. CASE i \in 1..Len(s)
  <2>1. PICK j \in 0..MaxChunks :
           /\ s[i].item \in {Chunk(j + 1), Done(j), Error}
           /\ \/ j = 0 /\ (i = 1 \/ s[i - 1].n < s[i].n)
              \/ j > 0 /\ i > 1 /\ s[i - 1] = [n |-> s[i].n, item |-> Chunk(j)]
    BY <1>3 DEF Intact
  <2>2. u[i] = s[i] /\ (i # 1 => u[i - 1] = s[i - 1])
    BY <1>2, <1>3
  <2> QED
    BY <2>1, <2>2
<1>4. CASE i = Len(s) + 1
  <2>1. u[i] = d
    BY <1>2, <1>4
  <2>2. Len(s) # 0 => i - 1 = Len(s) /\ u[i - 1] = s[Len(s)]
    BY <1>2, <1>4
  <2>3. CASE k = 0
    <3>1. i = 1 \/ u[i - 1].n < u[i].n
      <4>1. CASE s = <<>>
        BY <1>4, <4>1
      <4>2. CASE s # <<>>
        <5>1. Len(s) # 0
          BY <4>2
        <5>2. s[Len(s)].n < t
          BY <2>3, <4>2 DEF Fits
        <5> QED
          BY <1>1, <2>1, <2>2, <5>1, <5>2
      <4> QED
        BY <4>1, <4>2
    <3> QED
      BY <1>1, <2>1, <2>3, <3>1
  <2>4. CASE k # 0
    <3>1. s # <<>> /\ s[Len(s)] = [n |-> t, item |-> Chunk(k)]
      BY <2>4 DEF Fits
    <3>2. Len(s) # 0
      BY <3>1
    <3>3. i > 1 /\ k > 0
      BY <1>2, <1>4, <2>4, <3>2
    <3>4. u[i - 1] = [n |-> u[i].n, item |-> Chunk(k)]
      BY <1>1, <2>1, <2>2, <3>1, <3>2
    <3> QED
      BY <1>1, <2>1, <3>3, <3>4
  <2> QED
    BY <2>3, <2>4
<1>5. i \in 1..Len(s) \/ i = Len(s) + 1
  <2> DEFINE m == Len(s)
             n == Len(u)
  <2>1. m \in Nat /\ n = m + 1 /\ i \in 1..n
    BY <1>2
  <2> HIDE DEF m, n
  <2>2. i \in 1..m \/ i = m + 1
    BY <2>1
  <2> QED
    BY <2>2 DEF m
<1> QED
  BY <1>3, <1>4, <1>5, Zenon

\* The item in a handler's hand follows the chunks it has dealt with.
LEMMA InHand ==
    ASSUME Types, StreamInv, NEW c \in Conns, handler[c] = "wait"
    PROVE  /\ Passed(c) \in 0..MaxChunks
           /\ inbox[c] = Nothing => Passed(c) = Taken(Current(c))
           /\ inbox[c] # Nothing =>
                 /\ Taken(Current(c)) = Passed(c) + 1
                 /\ \/ inbox[c][1] = Chunk(Passed(c) + 1)
                    \/ /\ inbox[c][1] = Done(Passed(c)) /\ Passed(c) = streamed[Current(c)]
                       /\ outcome[Current(c)] = "done"
                    \/ inbox[c][1] = Error
<1>1. PICK m \in Msgs : m = Current(c)
  BY CurrentIsMsg
<1>2. streamed[m] \in 0..MaxChunks /\ streamed[m] \in Nat /\ Len(queue[m]) \in Nat
  BY PoolAssumption DEF Types, TypeOK
<1>3. Put(m) \in Nat /\ Taken(m) \in Nat /\ Taken(m) <= Put(m)
  BY <1>2 DEF StreamInv, QueueHolds, Put, Taken
<1>4. /\ Passed(c) \in 0..streamed[m]
      /\ inbox[c] # Nothing => inbox[c][1] = PutItem(m, Taken(m))
  BY <1>1 DEF StreamInv, HandlerAt
<1>5. Passed(c) \in 0..MaxChunks
  BY <1>2, <1>4, PoolAssumption
<1>6. inbox[c] = Nothing => Passed(c) = Taken(m)
  BY <1>1 DEF Passed
<1>7. ASSUME inbox[c] # Nothing
      PROVE  /\ Taken(m) = Passed(c) + 1
             /\ \/ inbox[c][1] = Chunk(Passed(c) + 1)
                \/ /\ inbox[c][1] = Done(Passed(c)) /\ Passed(c) = streamed[m]
                   /\ outcome[m] = "done"
                \/ inbox[c][1] = Error
  <2>1. Taken(m) = Passed(c) + 1 /\ Passed(c) \in Nat
    BY <1>1, <1>2, <1>3, <1>4, <1>7 DEF Passed
  <2>2. CASE Passed(c) + 1 <= streamed[m]
    BY <1>4, <1>7, <2>1, <2>2 DEF PutItem
  <2>3. CASE ~(Passed(c) + 1 <= streamed[m])
    <3>1. Passed(c) = streamed[m]
      BY <1>2, <1>4, <2>1, <2>3
    <3> QED
      BY <1>4, <1>7, <2>1, <2>3, <3>1 DEF PutItem
  <2> QED
    BY <2>1, <2>2, <2>3
<1> QED
  BY <1>1, <1>5, <1>6, <1>7

\* Messages are numbered.
LEMMA SentNumbers ==
    ASSUME Types, NEW c \in Conns
    PROVE  /\ turn[c] \in Nat
           /\ sent[c] \in Seq(Deliveries)
           /\ \A i \in 1..Len(sent[c]) :
                 sent[c][i] \in Deliveries /\ sent[c][i].n \in Nat \ {0}
<1>1. turn[c] \in Nat /\ sent[c] \in Seq(Deliveries)
  BY DEF Types, TypeOK, Deliveries
<1>2. \A i \in 1..Len(sent[c]) : sent[c][i] \in Deliveries
  BY <1>1
<1>3. \A d \in Deliveries : d.n \in Nat \ {0}
  BY DEF Deliveries
<1> QED
  BY <1>1, <1>2, <1>3

\* A connection to which nothing is sent.
LEMMA NothingSent ==
    ASSUME Types, SentInv, NEW c \in Conns, sent'[c] = sent[c],
           turn'[c] \in Nat, turn'[c] >= turn[c],
           \/ handler'[c] # "wait" \/ client'[c] # "open"
           \/ /\ handler[c] = "wait" /\ client[c] = "open" /\ turn'[c] = turn[c]
              /\ Passed(c)' = Passed(c)
    PROVE  Intact(sent[c])' /\ SentAt(c)'
<1>1. Intact(sent[c])
  BY DEF SentInv, StreamsIntact, Intact
<1>2. Intact(sent[c])'
  BY <1>1 DEF Intact
<1>3. ASSUME NEW i \in 1..Len(sent'[c]) PROVE sent'[c][i].n <= turn'[c]
  <2>1. sent[c][i].n <= turn[c] /\ sent[c][i].n \in Nat /\ turn[c] \in Nat
    BY <1>3, SentNumbers DEF SentInv, SentAt
  <2> QED
    BY <2>1
<1>4. client'[c] = "open" /\ handler'[c] = "wait" => Fits(sent[c], turn[c], Passed(c))'
  BY DEF SentInv, SentAt, Fits
<1> QED
  BY <1>2, <1>3, <1>4 DEF SentAt

\* A connection to which an item is sent that follows the chunks before it.
LEMMA ItemSent ==
    ASSUME Types, SentInv, NEW c \in Conns, NEW x \in Items, NEW k \in 0..MaxChunks,
           x \in {Chunk(k + 1), Done(k), Error}, turn'[c] \in Nat \ {0}, turn'[c] >= turn[c],
           Fits(sent[c], turn'[c], k),
           sent'[c] = Append(sent[c], [n |-> turn'[c], item |-> x]),
           handler'[c] = "wait" => Passed(c)' = k + 1 /\ x = Chunk(k + 1)
    PROVE  Intact(sent[c])' /\ SentAt(c)'
<1> DEFINE d == [n |-> turn'[c], item |-> x]
<1>1. sent[c] \in Seq(Deliveries) /\ d \in Deliveries /\ d.n = turn'[c]
  BY SentNumbers DEF Deliveries
<1>2. Intact(sent[c])
  BY DEF SentInv, StreamsIntact, Intact
<1>3. Intact(sent'[c])
  BY <1>1, <1>2, IntactGrows
<1>4. Intact(sent[c])'
  BY <1>3 DEF Intact
<1>5. /\ Len(sent[c]) \in Nat /\ Len(sent'[c]) = Len(sent[c]) + 1 /\ sent'[c] # <<>>
      /\ sent'[c][Len(sent[c]) + 1] = d
      /\ \A i \in 1..Len(sent[c]) : sent'[c][i] = sent[c][i]
  BY <1>1, AtTheEnd
<1>6. ASSUME NEW i \in 1..Len(sent'[c]) PROVE sent'[c][i].n <= turn'[c]
  <2>1. CASE i \in 1..Len(sent[c])
    <3>1. sent[c][i].n <= turn[c] /\ sent[c][i].n \in Nat /\ turn[c] \in Nat
      BY <2>1, SentNumbers DEF SentInv, SentAt
    <3> QED
      BY <1>5, <2>1, <3>1
  <2>2. CASE i = Len(sent[c]) + 1
    BY <1>1, <1>5, <2>2
  <2> QED
    BY <1>5, <1>6, <2>1, <2>2
<1>7. ASSUME handler'[c] = "wait" PROVE Fits(sent[c], turn[c], Passed(c))'
  <2>1. Passed(c)' = k + 1 /\ k + 1 # 0 /\ d = [n |-> turn'[c], item |-> Chunk(k + 1)]
    BY <1>7
  <2>2. sent'[c][Len(sent'[c])] = d
    BY <1>5
  <2> HIDE DEF d
  <2> QED
    BY <1>5, <2>1, <2>2 DEF Fits
<1> QED
  BY <1>4, <1>6, <1>7 DEF SentAt

\* The initial states have nothing sent.
LEMMA InitSent == Init => SentInv
  BY DEF Init, SentInv, SentAt, StreamsIntact

\* A handler that takes an item up, for the client if that has not left.
LEMMA TakesUp ==
    ASSUME Types, StreamInv, SentInv, NEW c \in Conns, handler[c] = "wait", inbox[c] # Nothing,
           Deliver(c, inbox[c][1]), turn' = turn, client' = client,
           handler'[c] = "wait" => Passed(c)' = Passed(c) + 1 /\ inbox[c][1].t = "chunk"
    PROVE  Intact(sent[c])' /\ SentAt(c)'
<1>1. turn[c] \in Nat \ {0}
  BY DEF Types, TypeOK, WaitsForMessage
<1>2. CASE client[c] = "open"
  <2>1. sent'[c] = Append(sent[c], [n |-> turn'[c], item |-> inbox[c][1]])
    BY <1>2 DEF Deliver, Types, TypeOK
  <2>2. PICK k \in 0..MaxChunks :
           k = Passed(c) /\ inbox[c][1] \in {Chunk(k + 1), Done(k), Error}
    BY InHand
  <2>3. inbox[c][1] \in Items
    BY InboxHasItem
  <2>4. Fits(sent[c], turn'[c], k)
    BY <1>2, <2>2 DEF SentInv, SentAt
  <2>5. inbox[c][1].t = "chunk" => inbox[c][1] = Chunk(k + 1)
    BY <2>2, ItemFacts, PoolAssumption
  <2>6. PICK x \in Items : x = inbox[c][1]
    BY <2>3
  <2>7. handler'[c] = "wait" => Passed(c)' = k + 1 /\ x = Chunk(k + 1)
    BY <2>2, <2>5, <2>6
  <2>8. turn'[c] \in Nat \ {0} /\ turn'[c] >= turn[c]
    BY <1>1
  <2> QED
    BY <2>1, <2>2, <2>4, <2>6, <2>7, <2>8, ItemSent
<1>3. CASE client[c] # "open"
  <2>1. sent'[c] = sent[c]
    BY <1>3 DEF Deliver
  <2> QED
    BY <1>1, <1>3, <2>1, NothingSent
<1> QED
  BY <1>2, <1>3

\* Every step keeps what clients have received intact.
LEMMA StepSent == Types /\ PoolInv /\ StreamInv /\ SentInv /\ [Next]_vars => SentInv'
<1> SUFFICES ASSUME Types, PoolInv, StreamInv, SentInv, [Next]_vars, NEW c \in Conns
             PROVE  Intact(sent[c])' /\ SentAt(c)'
  BY DEF SentInv, StreamsIntact, Intact
<1> DEFINE Good == Intact(sent[c])' /\ SentAt(c)'
<1>1. turn[c] \in Nat
  BY SentNumbers
<1>2. ASSUME turn'[c] = turn[c], handler'[c] = handler[c], client'[c] = client[c],
             sent'[c] = sent[c], handler[c] = "wait" => Passed(c)' = Passed(c)
      PROVE  Good
  BY <1>1, <1>2, NothingSent
<1>3. ASSUME turn'[c] = turn[c], handler'[c] = handler[c], client'[c] = client[c],
             sent'[c] = sent[c], inbox'[c] = inbox[c], UNCHANGED streams
      PROVE  Good
  <2>1. handler[c] = "wait" => Passed(c)' = Passed(c)
    BY <1>3 DEF Passed, Taken, Put, Current, streams
  <2> QED
    BY <1>2, <1>3, <2>1
<1>4. ASSUME Receive(c) PROVE Good
  <2>1. sent'[c] = sent[c] /\ turn'[c] = turn[c] + 1 /\ UNCHANGED streams /\ inbox' = inbox
    BY <1>4 DEF Receive, Types, TypeOK
  <2>2. PICK m \in Msgs : m = <<c, turn[c] + 1>> /\ Current(c)' = m /\ m[2] > turn[m[1]]
    BY <1>1, <1>4, <2>1, NextIsMsg DEF Receive, Current
  <2>3. Passed(c)' = 0
    <3>1. streamed[m] = 0 /\ queue[m] = <<>> /\ outcome[m] = "none"
      BY <2>2 DEF StreamInv, NothingYet, PoolInv, Untouched
    <3>2. Put(m)' = 0 /\ Len(queue[m])' = 0
      BY <2>1, <3>1 DEF Put, streams
    <3>3. inbox'[c] = Nothing
      BY <1>4, <2>1 DEF Receive, PoolInv, InboxIdle
    <3> QED
      BY <2>2, <3>2, <3>3 DEF Passed, Taken
  <2>4. \A i \in 1..Len(sent[c]) : sent[c][i].n <= turn[c] /\ sent[c][i].n \in Nat
    BY SentNumbers DEF SentInv, SentAt
  <2>5. Fits(sent[c], turn[c], Passed(c))'
    <3>1. sent[c] = <<>> \/ Len(sent[c]) \in 1..Len(sent[c])
      BY SentNumbers
    <3>2. sent[c] = <<>> \/ sent[c][Len(sent[c])].n < turn[c] + 1
      BY <1>1, <2>4, <3>1
    <3> QED
      BY <2>1, <2>3, <3>2 DEF Fits
  <2>6. \A i \in 1..Len(sent'[c]) : sent'[c][i].n <= turn'[c]
    BY <1>1, <2>1, <2>4
  <2>7. Intact(sent[c])'
    <3>1. Intact(sent[c])
      BY DEF SentInv, StreamsIntact, Intact
    <3> QED
      BY <2>1, <3>1 DEF Intact
  <2> QED
    BY <2>5, <2>6, <2>7 DEF SentAt
<1>5. ASSUME ReceiveBadMessage(c) PROVE Good
  <2>1. /\ turn'[c] = turn[c] + 1 /\ handler'[c] # "wait"
        /\ sent'[c] = Append(sent[c], [n |-> turn'[c], item |-> Error])
    BY <1>5 DEF ReceiveBadMessage, Types, TypeOK
  <2>2. sent[c] = <<>> \/ Len(sent[c]) \in 1..Len(sent[c])
    BY SentNumbers
  <2>3. Fits(sent[c], turn'[c], 0)
    <3>1. ASSUME NEW i \in 1..Len(sent[c]) PROVE sent[c][i].n < turn[c] + 1
      <4>1. sent[c][i].n <= turn[c] /\ sent[c][i].n \in Nat
        BY <3>1, SentNumbers DEF SentInv, SentAt
      <4> QED
        BY <1>1, <4>1
    <3> QED
      BY <2>1, <2>2, <3>1 DEF Fits
  <2>4. Error \in Items /\ 0 \in 0..MaxChunks /\ turn'[c] \in Nat \ {0} /\ turn'[c] >= turn[c]
    BY <1>1, <2>1, ItemFacts, PoolAssumption
  <2> QED
    BY <2>1, <2>3, <2>4, ItemSent
<1>6. ASSUME ForwardChunk(c) PROVE Good
  <2>1. /\ handler[c] = "wait" /\ inbox[c] # Nothing /\ inbox[c][1].t = "chunk"
        /\ Deliver(c, inbox[c][1]) /\ turn' = turn /\ client' = client
        /\ inbox'[c] = Nothing /\ UNCHANGED streams
    BY <1>6 DEF ForwardChunk, Types, TypeOK
  <2>2. Passed(c)' = Taken(Current(c))
    BY <2>1 DEF Passed, Taken, Put, Current, streams
  <2> QED
    BY <2>1, <2>2, InHand, TakesUp
<1>7. ASSUME FinishAnswer(c) \/ ReportError(c) PROVE Good
  <2>1. /\ handler[c] = "wait" /\ inbox[c] # Nothing /\ handler'[c] # "wait"
        /\ Deliver(c, inbox[c][1]) /\ turn' = turn /\ client' = client
    BY <1>7 DEF FinishAnswer, ReportError, Types, TypeOK
  <2> QED
    BY <2>1, TakesUp
<1>8. ASSUME Timeout(c) PROVE Good
  <2>1. /\ handler[c] = "wait" /\ turn' = turn /\ client' = client
        /\ handler'[c] # "wait" /\ Deliver(c, Error)
    BY <1>8 DEF Timeout, Types, TypeOK
  <2>2. CASE client[c] = "open"
    <3>1. sent'[c] = Append(sent[c], [n |-> turn'[c], item |-> Error])
      BY <2>1, <2>2 DEF Deliver, Types, TypeOK
    <3>2. Fits(sent[c], turn'[c], Passed(c)) /\ Passed(c) \in 0..MaxChunks
      BY <2>1, <2>2, InHand DEF SentInv, SentAt
    <3>3. turn'[c] \in Nat \ {0} /\ turn'[c] >= turn[c]
      BY <1>1, <2>1 DEF Types, WaitsForMessage
    <3> QED
      BY <2>1, <3>1, <3>2, <3>3, ItemFacts, ItemSent
  <2>3. CASE client[c] # "open"
    <3>1. sent'[c] = sent[c]
      BY <2>1, <2>3 DEF Deliver
    <3> QED
      BY <1>1, <2>1, <3>1, NothingSent
  <2> QED
    BY <2>2, <2>3
<1>9. ASSUME ReceiveDisconnect(c) \/ SendFails(c) PROVE Good
  <2>1. sent'[c] = sent[c] /\ turn'[c] = turn[c] /\ handler'[c] # "wait"
    BY <1>9 DEF ReceiveDisconnect, SendFails, Types, TypeOK
  <2> QED
    BY <1>1, <2>1, NothingSent
<1>10. ASSUME ClientLeaves(c) PROVE Good
  <2>1. sent'[c] = sent[c] /\ turn'[c] = turn[c] /\ client'[c] # "open"
    BY <1>10 DEF ClientLeaves, Types, TypeOK
  <2> QED
    BY <1>1, <2>1, NothingSent
<1>11. ASSUME NEW d \in Conns, d # c,
              \/ Receive(d) \/ ReceiveBadMessage(d) \/ ReceiveDisconnect(d) \/ Handle(d)
              \/ Timeout(d) \/ ClientLeaves(d)
       PROVE  Good
  <2>1. /\ turn'[c] = turn[c] /\ handler'[c] = handler[c] /\ client'[c] = client[c]
        /\ inbox'[c] = inbox[c] /\ UNCHANGED streams
    BY <1>11 DEF Receive, ReceiveBadMessage, ReceiveDisconnect, Handle, ForwardChunk,
       FinishAnswer, ReportError, SendFails, Timeout, ClientLeaves, Types, TypeOK
  <2>2. sent'[c] = sent[c]
    BY <1>11 DEF Receive, ReceiveBadMessage, ReceiveDisconnect, Handle, ForwardChunk,
       FinishAnswer, ReportError, SendFails, Timeout, ClientLeaves, Deliver, Types, TypeOK
  <2> QED
    BY <1>3, <2>1, <2>2
<1>12. ASSUME \/ \E p \in Posts : PostArrives(p) \/ PostEnds(p)
              \/ StartJob \/ UNCHANGED vars
       PROVE  Good
  <2>1. /\ turn' = turn /\ handler' = handler /\ client' = client /\ sent' = sent
        /\ inbox' = inbox /\ UNCHANGED streams
    BY <1>12 DEF PostArrives, PostEnds, StartJob, vars, loop, streams
  <2> QED
    BY <1>3, <2>1
<1>13. ASSUME NEW m \in Msgs, Produce(m) \/ GetItem(m) PROVE Good
  <2>1. turn' = turn /\ handler' = handler /\ client' = client /\ sent' = sent
    BY <1>13 DEF Produce, ProduceChunk, ProduceEnd, GetItem, loop
  <2>2. handler[c] = "wait" => Passed(c)' = Passed(c)
    BY <1>13, StreamProduce, StreamGetItem
  <2> QED
    BY <1>2, <2>1, <2>2
<1> QED
  BY <1>4, <1>5, <1>6, <1>7, <1>8, <1>9, <1>10, <1>11, <1>12, <1>13 DEF Next, Handle

-----------------------------------------------------------------------------
(* What is remembered *)

Exchanges == [n : Nat \ {0}, text : 0..MaxChunks]

\* Memory is about messages received, and not yet about the one under way.
MemoryAt(c) ==
    \A k \in 1..Len(memory[c]) :
        /\ memory[c][k].n <= turn[c]
        /\ handler[c] = "wait" => memory[c][k].n < turn[c]

\* The two halves of CompletedIsRemembered, for one connection.
Remembered(c) ==
    \A i \in 1..Len(sent[c]) :
        sent[c][i].item.t = "done" =>
            \/ <<c, sent[c][i].n>> \in unsaved
            \/ \E k \in 1..Len(memory[c]) :
                  memory[c][k] = [n |-> sent[c][i].n, text |-> sent[c][i].item.val]
Whole(c) ==
    \A k \in 1..Len(memory[c]) :
        /\ outcome[<<c, memory[c][k].n>>] = "done"
        /\ memory[c][k].text = streamed[<<c, memory[c][k].n>>]
        /\ k > 1 => memory[c][k - 1].n < memory[c][k].n

MemoryInv == \A c \in Conns : MemoryAt(c) /\ Remembered(c) /\ Whole(c)

\* What memory is about are messages.
LEMMA MemoryNumbers ==
    ASSUME Types, MemoryInv, NEW c \in Conns
    PROVE  /\ memory[c] \in Seq(Exchanges)
           /\ \A k \in 1..Len(memory[c]) :
                 memory[c][k].n \in Nat \ {0} /\ <<c, memory[c][k].n>> \in Msgs
<1>1. memory[c] \in Seq(Exchanges)
  BY DEF Types, TypeOK, Exchanges
<1>2. ASSUME NEW k \in 1..Len(memory[c])
      PROVE  memory[c][k].n \in Nat \ {0} /\ <<c, memory[c][k].n>> \in Msgs
  <2>1. memory[c][k] \in Exchanges
    BY <1>1, <1>2
  <2>2. memory[c][k].n \in Nat \ {0}
    BY <2>1 DEF Exchanges
  <2>3. memory[c][k].n <= turn[c]
    BY <1>2 DEF MemoryInv, MemoryAt
  <2>4. turn[c] \in Nat /\ turn[c] <= MaxMsgs[c] /\ MaxMsgs[c] \in Nat
    BY PoolAssumption DEF Types, TypeOK
  <2>5. memory[c][k].n \in 1..MaxMsgs[c]
    BY <2>2, <2>3, <2>4
  <2> QED
    BY <2>2, <2>5, MsgIsPair
<1> QED
  BY <1>1, <1>2

\* An answer that has ended stays as it is.
LEMMA EndedStays ==
    ASSUME Types, PoolInv, [Next]_vars, NEW m \in Msgs, outcome[m] # "none"
    PROVE  outcome'[m] = outcome[m] /\ streamed'[m] = streamed[m]
<1>1. ASSUME NEW n \in Msgs, Produce(n)
      PROVE  outcome'[m] = outcome[m] /\ streamed'[m] = streamed[m]
  <2>1. Producer(n) \in running
    BY <1>1 DEF Produce, ProduceChunk, ProduceEnd
  <2>2. n # m
    BY <2>1 DEF PoolInv, HeldIsUnfinished, Held
  <2> QED
    BY <1>1, <2>2 DEF Produce, ProduceChunk, ProduceEnd, Types, TypeOK
<1>2. ASSUME \A n \in Msgs : ~Produce(n) PROVE outcome' = outcome /\ streamed' = streamed
  BY <1>2 DEF Next, Receive, ReceiveBadMessage, ReceiveDisconnect, Handle, ForwardChunk,
     FinishAnswer, ReportError, SendFails, Timeout, ClientLeaves, PostArrives, PostEnds,
     StartJob, GetItem, vars, streams
<1> QED
  BY <1>1, <1>2

\* A connection of which nothing is saved, and to which no final item of a good
\* answer is sent.
LEMMA MemoryKept ==
    ASSUME Types, PoolInv, MemoryInv, [Next]_vars, NEW c \in Conns,
           memory'[c] = memory[c], unsaved \subseteq unsaved',
           turn'[c] \in Nat, turn'[c] >= turn[c],
           handler'[c] = "wait" =>
               (handler[c] = "wait" /\ turn'[c] = turn[c]) \/ turn'[c] > turn[c],
           \/ sent'[c] = sent[c]
           \/ \E d \in Deliveries : d.item.t # "done" /\ sent'[c] = Append(sent[c], d)
    PROVE  MemoryAt(c)' /\ Remembered(c)' /\ Whole(c)'
<1>1. turn[c] \in Nat /\ sent[c] \in Seq(Deliveries)
  BY SentNumbers
<1>2. MemoryAt(c)'
  <2>1. ASSUME NEW k \in 1..Len(memory'[c])
        PROVE  /\ memory'[c][k].n <= turn'[c]
               /\ handler'[c] = "wait" => memory'[c][k].n < turn'[c]
    <3>1. /\ memory[c][k].n \in Nat /\ memory[c][k].n <= turn[c]
          /\ handler[c] = "wait" => memory[c][k].n < turn[c]
      BY <2>1, MemoryNumbers DEF MemoryInv, MemoryAt
    <3> QED
      BY <1>1, <3>1
  <2> QED
    BY <2>1 DEF MemoryAt
<1>3. Whole(c)'
  <2>1. ASSUME NEW k \in 1..Len(memory'[c])
        PROVE  /\ outcome'[<<c, memory'[c][k].n>>] = "done"
               /\ memory'[c][k].text = streamed'[<<c, memory'[c][k].n>>]
               /\ k > 1 => memory'[c][k - 1].n < memory'[c][k].n
    <3>1. PICK m \in Msgs : m = <<c, memory[c][k].n>>
      BY <2>1, MemoryNumbers
    <3>2. /\ outcome[m] = "done" /\ memory[c][k].text = streamed[m]
          /\ k > 1 => memory[c][k - 1].n < memory[c][k].n
      BY <2>1, <3>1 DEF MemoryInv, Whole
    <3>3. outcome'[m] = outcome[m] /\ streamed'[m] = streamed[m]
      BY <3>2, EndedStays
    <3> QED
      BY <3>1, <3>2, <3>3
  <2> QED
    BY <2>1 DEF Whole
<1>4. Remembered(c)'
  <2>1. ASSUME NEW i \in 1..Len(sent'[c]), sent'[c][i].item.t = "done"
        PROVE  i \in 1..Len(sent[c]) /\ sent'[c][i] = sent[c][i]
    <3>1. CASE sent'[c] = sent[c]
      BY <2>1, <3>1
    <3>2. ASSUME NEW d \in Deliveries, d.item.t # "done", sent'[c] = Append(sent[c], d)
          PROVE  i \in 1..Len(sent[c]) /\ sent'[c][i] = sent[c][i]
      <4>1. /\ Len(sent[c]) \in Nat /\ Len(sent'[c]) = Len(sent[c]) + 1
            /\ sent'[c][Len(sent[c]) + 1] = d
            /\ \A j \in 1..Len(sent[c]) : sent'[c][j] = sent[c][j]
        BY <1>1, <3>2, AtTheEnd
      <4>2. i # Len(sent[c]) + 1
        BY <2>1, <3>2, <4>1
      <4> QED
        BY <2>1, <4>1, <4>2
    <3> QED
      BY <3>1, <3>2
  <2> QED
    BY <2>1 DEF Remembered, MemoryInv
<1> QED
  BY <1>2, <1>3, <1>4

\* A handler that saves an exchange, and then tells the client or fails to.
LEMMA ExchangeSaved ==
    ASSUME Types, PoolInv, StreamInv, MemoryInv, [Next]_vars, NEW c \in Conns,
           handler[c] = "wait", inbox[c] # Nothing, inbox[c][1].t = "done", SaveExchange(c),
           turn' = turn, handler'[c] # "wait",
           \/ sent'[c] = sent[c]
           \/ sent'[c] = Append(sent[c], [n |-> turn[c], item |-> inbox[c][1]])
    PROVE  MemoryAt(c)' /\ Remembered(c)' /\ Whole(c)'
<1>1. PICK m \in Msgs : m = Current(c) /\ m = <<c, turn[c]>>
  BY CurrentIsMsg DEF Current
<1>2. turn[c] \in Nat \ {0} /\ sent[c] \in Seq(Deliveries) /\ memory[c] \in Seq(Exchanges)
  BY SentNumbers, MemoryNumbers DEF Types, WaitsForMessage
<1>3. PICK p \in 0..MaxChunks : /\ inbox[c][1] = Done(p) /\ p = streamed[m]
                                /\ outcome[m] = "done"
  <2>1. inbox[c][1] # Error /\ inbox[c][1] # Chunk(Passed(c) + 1)
    BY DEF Chunk, Error
  <2> QED
    BY <1>1, <2>1, InHand
<1>4. inbox[c][1].val = p /\ inbox[c][1].t = "done" /\ inbox[c][1] \in Items
  BY <1>3, ItemFacts, InboxHasItem DEF Done
<1> DEFINE e == [n |-> turn[c], text |-> p]
           d == [n |-> turn[c], item |-> inbox[c][1]]
<1>5. e \in Exchanges /\ e.n = turn[c] /\ e.text = p
  BY <1>2 DEF Exchanges
<1>6. d \in Deliveries /\ d.n = turn[c] /\ d.item.val = p
  BY <1>2, <1>4 DEF Deliveries
<1>7. \/ /\ memory'[c] = Append(memory[c], e) /\ unsaved' = unsaved
      \/ /\ memory'[c] = memory[c] /\ unsaved' = unsaved \cup {m}
  BY <1>1, <1>4 DEF SaveExchange, Types, TypeOK
<1>8. sent'[c] = sent[c] \/ sent'[c] = Append(sent[c], d)
  OBVIOUS
<1> HIDE DEF e, d
<1>9. /\ Len(memory[c]) \in Nat
      /\ \/ memory'[c] = memory[c] /\ m \in unsaved'
         \/ /\ Len(memory'[c]) = Len(memory[c]) + 1
            /\ memory'[c][Len(memory[c]) + 1] = e
            /\ \A k \in 1..Len(memory[c]) : memory'[c][k] = memory[c][k]
  <2>1. Len(memory[c]) \in Nat
    BY <1>2
  <2>2. CASE memory'[c] = Append(memory[c], e)
    BY <1>2, <1>5, <2>1, <2>2, AtTheEnd
  <2> QED
    BY <1>7, <2>1, <2>2
<1>10. \A k \in 1..Len(memory[c]) :
          /\ memory[c][k].n \in Nat /\ memory[c][k].n < turn[c]
          /\ outcome[<<c, memory[c][k].n>>] = "done"
          /\ memory[c][k].text = streamed[<<c, memory[c][k].n>>]
          /\ k > 1 => memory[c][k - 1].n < memory[c][k].n
  BY MemoryNumbers DEF MemoryInv, MemoryAt, Whole
<1>11. \A q \in Msgs : outcome[q] = "done" => outcome'[q] = "done" /\ streamed'[q] = streamed[q]
  BY EndedStays
<1>12. ASSUME NEW k \in 1..Len(memory'[c])
       PROVE  /\ memory'[c][k].n <= turn[c]
              /\ outcome'[<<c, memory'[c][k].n>>] = "done"
              /\ memory'[c][k].text = streamed'[<<c, memory'[c][k].n>>]
              /\ k > 1 => memory'[c][k - 1].n < memory'[c][k].n
  <2>1. CASE k \in 1..Len(memory[c])
    <3>1. /\ memory'[c][k] = memory[c][k]
          /\ k > 1 => memory'[c][k - 1] = memory[c][k - 1]
      BY <1>9, <2>1
    <3>2. PICK q \in Msgs : q = <<c, memory[c][k].n>>
      BY <2>1, MemoryNumbers
    <3>3. outcome'[q] = "done" /\ memory[c][k].text = streamed'[q]
      BY <1>10, <1>11, <2>1, <3>2
    <3>4. memory[c][k].n <= turn[c]
      <4>1. memory[c][k].n \in Nat /\ memory[c][k].n < turn[c]
        BY <1>10, <2>1
      <4> QED
        BY <1>2, <4>1
    <3> QED
      BY <1>10, <2>1, <3>1, <3>2, <3>3, <3>4
  <2>2. CASE k \notin 1..Len(memory[c])
    <3>1. k = Len(memory[c]) + 1 /\ memory'[c][k] = e
      BY <1>9, <1>12, <2>2
    <3>2. k > 1 => memory'[c][k - 1].n < turn[c]
      <4>1. k > 1 => k - 1 \in 1..Len(memory[c])
        BY <1>9, <3>1
      <4> QED
        BY <1>9, <1>10, <2>2, <4>1
    <3>3. outcome'[m] = "done" /\ streamed'[m] = p
      BY <1>3, <1>11
    <3>4. memory'[c][k].n = turn[c] /\ memory'[c][k].text = p
      BY <1>5, <3>1
    <3>5. <<c, memory'[c][k].n>> = m
      BY <1>1, <3>4
    <3>6. memory'[c][k].n <= turn[c]
      BY <1>2, <3>4
    <3>7. k > 1 => memory'[c][k - 1].n < memory'[c][k].n
      BY <3>2, <3>4
    <3> QED
      BY <3>3, <3>4, <3>5, <3>6, <3>7
  <2> QED
    BY <2>1, <2>2
<1>13. MemoryAt(c)' /\ Whole(c)'
  BY <1>12 DEF MemoryAt, Whole
<1>14. ASSUME NEW i \in 1..Len(sent'[c]), sent'[c][i].item.t = "done"
       PROVE  \/ <<c, sent'[c][i].n>> \in unsaved'
              \/ \E k \in 1..Len(memory'[c]) :
                    memory'[c][k] = [n |-> sent'[c][i].n, text |-> sent'[c][i].item.val]
  <2>1. CASE i \in 1..Len(sent[c]) /\ sent'[c][i] = sent[c][i]
    <3>1. \/ <<c, sent[c][i].n>> \in unsaved
          \/ \E k \in 1..Len(memory[c]) :
                memory[c][k] = [n |-> sent[c][i].n, text |-> sent[c][i].item.val]
      BY <1>14, <2>1 DEF MemoryInv, Remembered
    <3>2. unsaved \subseteq unsaved'
      BY <1>7
    <3>3. \A k \in 1..Len(memory[c]) : k \in 1..Len(memory'[c]) /\ memory'[c][k] = memory[c][k]
      BY <1>9
    <3> QED
      BY <2>1, <3>1, <3>2, <3>3
  <2>2. CASE sent'[c][i] = d
    <3>1. CASE m \in unsaved'
      BY <1>1, <1>6, <2>2, <3>1
    <3>2. CASE /\ Len(memory'[c]) = Len(memory[c]) + 1
               /\ memory'[c][Len(memory[c]) + 1] = e
      <4>1. Len(memory[c]) + 1 \in 1..Len(memory'[c])
        BY <1>9, <3>2
      <4>2. e = [n |-> sent'[c][i].n, text |-> sent'[c][i].item.val]
        BY <1>6, <2>2 DEF e
      <4> QED
        BY <3>2, <4>1, <4>2
    <3> QED
      BY <1>9, <3>1, <3>2
  <2>3. \/ i \in 1..Len(sent[c]) /\ sent'[c][i] = sent[c][i]
        \/ sent'[c][i] = d
    <3>1. CASE sent'[c] = sent[c]
      BY <1>14, <3>1
    <3>2. CASE sent'[c] = Append(sent[c], d)
      <4>1. /\ Len(sent[c]) \in Nat /\ Len(sent'[c]) = Len(sent[c]) + 1
            /\ sent'[c][Len(sent[c]) + 1] = d
            /\ \A j \in 1..Len(sent[c]) : sent'[c][j] = sent[c][j]
        BY <1>2, <1>6, <3>2, AtTheEnd
      <4> QED
        BY <1>14, <4>1
    <3> QED
      BY <1>8, <3>1, <3>2
  <2> QED
    BY <2>1, <2>2, <2>3
<1>15. Remembered(c)'
  BY <1>14 DEF Remembered
<1> QED
  BY <1>13, <1>15

\* Nothing was sent and nothing saved in the initial states.
LEMMA InitMemory == Init => MemoryInv
  BY DEF Init, MemoryInv, MemoryAt, Remembered, Whole

\* Every step keeps memory whole, and what clients saw completed in it.
LEMMA StepMemory == Types /\ PoolInv /\ StreamInv /\ MemoryInv /\ [Next]_vars => MemoryInv'
<1> SUFFICES ASSUME Types, PoolInv, StreamInv, MemoryInv, [Next]_vars, NEW c \in Conns
             PROVE  MemoryAt(c)' /\ Remembered(c)' /\ Whole(c)'
  BY DEF MemoryInv
<1> DEFINE Good == MemoryAt(c)' /\ Remembered(c)' /\ Whole(c)'
<1>1. turn[c] \in Nat
  BY SentNumbers
<1>2. ASSUME Receive(c) PROVE Good
  <2>1. memory' = memory /\ unsaved' = unsaved /\ turn'[c] = turn[c] + 1 /\ sent' = sent
    BY <1>2 DEF Receive, Types, TypeOK
  <2> QED
    BY <1>1, <2>1, MemoryKept
<1>3. ASSUME ReceiveBadMessage(c) PROVE Good
  <2>1. [n |-> turn[c] + 1, item |-> Error] \in Deliveries
    BY <1>1, ItemFacts DEF Deliveries
  <2>2. [n |-> turn[c] + 1, item |-> Error].item.t # "done"
    BY DEF Error
  <2>3. /\ memory' = memory /\ unsaved' = unsaved /\ turn'[c] = turn[c] + 1
        /\ handler'[c] # "wait"
        /\ sent'[c] = Append(sent[c], [n |-> turn[c] + 1, item |-> Error])
    BY <1>3 DEF ReceiveBadMessage, Types, TypeOK
  <2> QED
    BY <1>1, <2>1, <2>2, <2>3, MemoryKept
<1>4. ASSUME handler[c] = "wait", turn' = turn, memory' = memory, unsaved' = unsaved,
             NEW x \in Items, x.t # "done", Deliver(c, x)
      PROVE  Good
  <2>1. [n |-> turn[c], item |-> x] \in Deliveries /\ [n |-> turn[c], item |-> x].item.t # "done"
    BY <1>4 DEF Deliveries, Types, TypeOK, WaitsForMessage
  <2>2. sent'[c] = sent[c] \/ sent'[c] = Append(sent[c], [n |-> turn[c], item |-> x])
    BY <1>4 DEF Deliver, Types, TypeOK
  <2> QED
    BY <1>1, <1>4, <2>1, <2>2, MemoryKept
<1>5. ASSUME ForwardChunk(c) \/ ReportError(c) PROVE Good
  <2>1. inbox[c][1] \in Items /\ inbox[c][1].t # "done"
    BY <1>5, InboxHasItem DEF ForwardChunk, ReportError
  <2> QED
    BY <1>4, <1>5, <2>1 DEF ForwardChunk, ReportError
<1>6. ASSUME Timeout(c) PROVE Good
  <2>1. Error \in Items /\ Error.t # "done"
    BY ItemFacts DEF Error
  <2> QED
    BY <1>4, <1>6, <2>1 DEF Timeout
<1>7. ASSUME FinishAnswer(c) PROVE Good
  <2>1. sent'[c] = sent[c] \/ sent'[c] = Append(sent[c], [n |-> turn[c], item |-> inbox[c][1]])
    BY <1>7 DEF FinishAnswer, Deliver, Types, TypeOK
  <2>2. handler'[c] # "wait"
    BY <1>7 DEF FinishAnswer, Types, TypeOK
  <2> QED
    BY <1>7, <2>1, <2>2, ExchangeSaved DEF FinishAnswer
<1>8. ASSUME SendFails(c) PROVE Good
  <2>1. handler'[c] # "wait" /\ sent' = sent
    BY <1>8 DEF SendFails, Types, TypeOK
  <2>2. CASE inbox[c][1].t = "done"
    BY <1>8, <2>1, <2>2, ExchangeSaved DEF SendFails
  <2>3. CASE inbox[c][1].t # "done"
    BY <1>1, <1>8, <2>1, <2>3, MemoryKept DEF SendFails
  <2> QED
    BY <2>2, <2>3
<1>9. ASSUME memory'[c] = memory[c], unsaved \subseteq unsaved', turn'[c] = turn[c],
             handler'[c] = "wait" => handler[c] = "wait", sent'[c] = sent[c]
      PROVE  Good
  BY <1>1, <1>9, MemoryKept
<1>10. ASSUME NEW d \in Conns, d # c,
              \/ Receive(d) \/ ReceiveBadMessage(d) \/ ReceiveDisconnect(d) \/ Handle(d)
              \/ Timeout(d) \/ ClientLeaves(d)
       PROVE  Good
  <2>1. turn'[c] = turn[c] /\ handler'[c] = handler[c]
    BY <1>10 DEF Receive, ReceiveBadMessage, ReceiveDisconnect, Handle, ForwardChunk,
       FinishAnswer, ReportError, SendFails, Timeout, ClientLeaves, Types, TypeOK
  <2>2. sent'[c] = sent[c]
    BY <1>10 DEF Receive, ReceiveBadMessage, ReceiveDisconnect, Handle, ForwardChunk,
       FinishAnswer, ReportError, SendFails, Timeout, ClientLeaves, Deliver, Types, TypeOK
  <2>3. memory'[c] = memory[c] /\ unsaved \subseteq unsaved'
    BY <1>10 DEF Receive, ReceiveBadMessage, ReceiveDisconnect, Handle, ForwardChunk,
       FinishAnswer, ReportError, SendFails, Timeout, ClientLeaves, SaveExchange, Types, TypeOK
  <2> QED
    BY <1>9, <2>1, <2>2, <2>3
<1>11. ASSUME ReceiveDisconnect(c) \/ ClientLeaves(c) PROVE Good
  BY <1>9, <1>11 DEF ReceiveDisconnect, ClientLeaves, Types, TypeOK
<1>12. ASSUME \/ \E p \in Posts : PostArrives(p) \/ PostEnds(p)
              \/ \E m \in Msgs : Produce(m) \/ GetItem(m)
              \/ StartJob \/ UNCHANGED vars
       PROVE  Good
  <2>1. /\ turn' = turn /\ handler' = handler /\ sent' = sent /\ memory' = memory
        /\ unsaved' = unsaved
    BY <1>12 DEF PostArrives, PostEnds, Produce, ProduceChunk, ProduceEnd, GetItem, StartJob,
       vars, loop
  <2> QED
    BY <1>9, <2>1
<1> QED
  BY <1>2, <1>3, <1>5, <1>6, <1>7, <1>8, <1>10, <1>11, <1>12 DEF Next, Handle

-----------------------------------------------------------------------------
(* Theorems *)

\* Every variable of the handlers, the executor and the streams stays in its
\* range, whatever the size of the pool.
THEOREM TypeCorrect == Spec => []TypeOK
<1>1. Types => TypeOK
  BY DEF Types
<1>2. QED
  BY <1>1, InitTypes, StepTypes, PTL DEF Spec

\* The inductive invariant holds throughout.
THEOREM PoolInvariant == Spec => [](Types /\ PoolInv)
<1>1. Init => Types /\ PoolInv
  BY InitTypes, InitPool
<1>2. Types /\ PoolInv /\ [Next]_vars => (Types /\ PoolInv)'
  BY StepTypes, StepPool
<1>3. QED
  BY <1>1, <1>2, PTL DEF Spec

\* _wait_for_item blocks in queue.get() on a pool thread.  Whatever the number
\* of connections, POST requests and threads, no thread is parked there for an
\* item whose producer still waits for a thread, or has ended without it.
THEOREM NoGetterStarvesItsProducer == Spec => []GettersHaveProducers
<1>1. ASSUME PoolInv PROVE GettersHaveProducers
  <2> SUFFICES ASSUME NEW m \in Msgs, Getter(m) \in running, queue[m] = <<>>
               PROVE  Producer(m) \in running
    BY DEF GettersHaveProducers
  <2>1. CASE outcome[m] = "none"
    BY <1>1, <2>1 DEF PoolInv, ProducerFirst
  <2>2. CASE outcome[m] # "none"
    BY <1>1, <2>2 DEF PoolInv, FinalAwaits, Held
  <2>3. QED
    BY <2>1, <2>2
<1>2. QED
  BY <1>1, PoolInvariant, PTL

\* What streams carry, what clients have of it and what is remembered, throughout.
THEOREM ContentInvariant == Spec => [](StreamInv /\ SentInv /\ MemoryInv)
<1>1. Init => StreamInv /\ SentInv /\ MemoryInv
  BY InitStream, InitSent, InitMemory
<1>2. Types /\ PoolInv /\ StreamInv /\ SentInv /\ MemoryInv /\ [Next]_vars
         => (StreamInv /\ SentInv /\ MemoryInv)'
  BY StepStream, StepSent, StepMemory
<1>3. QED
  BY <1>1, <1>2, PoolInvariant, PTL DEF Spec

\* Whatever the threads, the timeouts and the other connections do, a client
\* gets the chunks of an answer in order and without gaps, then at most one final
\* item, which joins the chunks that came before it.
THEOREM StreamsStayIntact == Spec => []StreamsIntact
<1>1. SentInv => StreamsIntact
  BY DEF SentInv
<1>2. QED
  BY <1>1, ContentInvariant, PTL

\* A client never sees the end of a good answer that chat memory has not got,
\* unless append_exchange raised; and memory only ever gets whole answers.
THEOREM CompletedAnswersAreRemembered == Spec => []CompletedIsRemembered
<1>1. MemoryInv => CompletedIsRemembered
  BY DEF MemoryInv, Remembered, Whole, CompletedIsRemembered
<1>2. QED
  BY <1>1, ContentInvariant, PTL

-----------------------------------------------------------------------------
(* Nobody waits in vain *)

\* Only getters of handlers that have closed are cancelled.
CancelledAreClosed == \A m \in cancelled : handler[m[1]] = "closed"

\* A handler that awaits an item has it, or a getter that the pool still has.
HandlerServed ==
    \A c \in Conns : handler[c] = "wait" => inbox[c] # Nothing \/ Held(Getter(Current(c)))

\* A POST request is pending as long as the pool has its pipeline.
PostServed == \A p \in Posts : post[p] = "pending" => Held(Pipeline(p))

WaitInv == CancelledAreClosed /\ HandlerServed /\ PostServed

\* Handlers that have closed remain so, and no others have getters cancelled.
LEMMA CancelledKept ==
    ASSUME Types, WaitInv, [Next]_vars
    PROVE  CancelledAreClosed'
<1>1. \A m \in cancelled : m \in Msgs /\ m[1] \in Conns
  BY MsgIsPair DEF Types, TypeOK
<1>2. ASSUME NEW c \in Conns, Timeout(c) PROVE CancelledAreClosed'
  <2>1. cancelled' \subseteq cancelled \cup {Current(c)} /\ handler' = [handler EXCEPT ![c] = "closed"]
    BY <1>2 DEF Timeout
  <2>2. Current(c)[1] = c
    BY DEF Current
  <2> QED
    BY <1>1, <2>1, <2>2 DEF WaitInv, CancelledAreClosed, Types, TypeOK
<1>3. ASSUME NEW c \in Conns, Receive(c) \/ ReceiveBadMessage(c) \/ ReceiveDisconnect(c) \/ Handle(c)
      PROVE  CancelledAreClosed'
  <2>1. /\ cancelled' = cancelled /\ handler[c] # "closed"
        /\ \A d \in Conns \ {c} : handler'[d] = handler[d]
    BY <1>3 DEF Receive, ReceiveBadMessage, ReceiveDisconnect, Handle, ForwardChunk,
                FinishAnswer, ReportError, SendFails, executor, Types, TypeOK
  <2> QED
    BY <1>1, <2>1 DEF WaitInv, CancelledAreClosed
<1>4. CASE UNCHANGED <<handler, cancelled>>
  BY <1>4 DEF WaitInv, CancelledAreClosed
<1> QED
  BY <1>2, <1>3, <1>4 DEF Next, ClientLeaves, PostArrives, PostEnds, StartJob, Produce,
     ProduceChunk, ProduceEnd, GetItem, loop, executor, vars

\* What the pool has it keeps, when no job leaves the FIFO or a thread.
LEMMA PoolGrows ==
    ASSUME Types, jobs' = jobs \/ \E x \in Jobs : jobs' = Append(jobs, x), running' = running
    PROVE  /\ \A j : Held(j) => Held(j)'
           /\ \A x \in Jobs : jobs' = Append(jobs, x) => Held(x)'
<1>1. CASE jobs' = jobs
  <2>1. jobs \in Seq(Jobs)
    BY DEF Types, TypeOK
  <2>2. \A x \in Jobs : jobs' # Append(jobs, x)
    BY <1>1, <2>1, AtTheEnd
  <2> QED
    BY <1>1, <2>2 DEF Held, Queued
<1>2. ASSUME NEW x \in Jobs, jobs' = Append(jobs, x)
      PROVE  Held(x)' /\ \A j : Held(j) => Held(j)'
  BY <1>2, Submitted DEF Held
<1> QED
  BY <1>1, <1>2

\* The handlers and the requests that are served when the pool keeps its jobs.
LEMMA ServedKept ==
    ASSUME Types, WaitInv, \A j : Held(j) => Held(j)', turn' = turn, post' = post,
           NEW c \in Conns,
           \A d \in Conns \ {c} : handler'[d] = handler[d] /\ inbox'[d] = inbox[d],
           \/ handler'[c] # "wait"
           \/ handler'[c] = handler[c] /\ inbox'[c] = inbox[c]
           \/ \E m \in Msgs : m = Current(c) /\ Held(Getter(m))'
    PROVE  HandlerServed' /\ PostServed'
<1>1. PostServed'
  BY DEF WaitInv, PostServed
<1>2. ASSUME NEW d \in Conns, handler'[d] = "wait", inbox'[d] = Nothing
      PROVE  Held(Getter(Current(d)))'
  <2>1. Current(d)' = Current(d)
    BY DEF Current
  <2>2. CASE handler'[d] = handler[d] /\ inbox'[d] = inbox[d]
    <3>1. Held(Getter(Current(d)))
      BY <1>2, <2>2 DEF WaitInv, HandlerServed
    <3>2. PICK m \in Msgs : m = Current(d) /\ Current(d)' = m
      BY <1>2, <2>1, <2>2, CurrentIsMsg
    <3> QED
      BY <3>1, <3>2
  <2>3. CASE d = c /\ \E m \in Msgs : m = Current(c) /\ Held(Getter(m))'
    <3>1. PICK m \in Msgs : m = Current(d) /\ Held(Getter(m))'
      BY <2>3
    <3> QED
      BY <2>1, <3>1
  <2> QED
    BY <1>2, <2>2, <2>3
<1> QED
  BY <1>1, <1>2 DEF HandlerServed

LEMMA ServedReceive ==
    ASSUME Types, WaitInv, NEW c \in Conns, Receive(c)
    PROVE  HandlerServed' /\ PostServed'
<1>0. PICK n \in Msgs : n = <<c, turn[c] + 1>>
  BY NextIsMsg DEF Receive
<1>1. /\ running' = running /\ inbox' = inbox /\ post' = post
      /\ \A d \in Conns : turn'[d] = IF d = c THEN turn[c] + 1 ELSE turn[d]
      /\ \A d \in Conns : d # c => handler'[d] = handler[d]
      /\ jobs' = jobs \o <<Producer(n), Getter(n)>>
  BY <1>0 DEF Receive, Types, TypeOK
<1>2. /\ jobs \in Seq(Jobs) /\ Len(jobs) \in Nat
      /\ Producer(n) \in Jobs /\ Getter(n) \in Jobs
  BY JobsDiffer DEF Types, TypeOK
<1>3. /\ Len(jobs') = Len(jobs) + 2
      /\ \A i \in 1..Len(jobs) : jobs'[i] = jobs[i]
      /\ jobs'[Len(jobs) + 2] = Getter(n)
  BY <1>1, <1>2
<1>4. \A j : Held(j) => Held(j)'
  BY <1>1, <1>2, <1>3 DEF Held, Queued
<1>5. Held(Getter(n))'
  BY <1>2, <1>3 DEF Held, Queued
<1>6. Current(c)' = n
  BY <1>0, <1>1 DEF Current
<1>7. ASSUME NEW d \in Conns, handler'[d] = "wait", inbox'[d] = Nothing
      PROVE  Held(Getter(Current(d)))'
  <2>1. CASE d = c
    BY <1>5, <1>6, <2>1
  <2>2. CASE d # c
    <3>1. handler[d] = "wait" /\ Held(Getter(Current(d))) /\ Current(d)' = Current(d)
      BY <1>1, <1>7, <2>2 DEF WaitInv, HandlerServed, Current
    <3>2. PICK m \in Msgs : m = Current(d) /\ Current(d)' = m
      BY <3>1, CurrentIsMsg
    <3> QED
      BY <1>4, <3>1, <3>2
  <2> QED
    BY <2>1, <2>2
<1>8. PostServed'
  BY <1>1, <1>4 DEF WaitInv, PostServed
<1> QED
  BY <1>7, <1>8 DEF HandlerServed

\* A job goes to a thread, or is a cancelled getter.
LEMMA ServedStartJob ==
    ASSUME Types, WaitInv, StartJob
    PROVE  HandlerServed' /\ PostServed'
<1>1. /\ handler' = handler /\ inbox' = inbox /\ turn' = turn /\ post' = post
      /\ jobs \in Seq(Jobs) /\ jobs # <<>>
  BY DEF StartJob, loop, Types, TypeOK
<1>2. /\ \A j : Queued(j) <=> Queued(j)' \/ j = jobs[1]
      /\ running' \in {running, running \cup {jobs[1]}}
  BY Dispatched
<1>3. Head(jobs) = jobs[1]
  BY <1>1, FirstOff
<1>4. ~(jobs[1].kind = "get" /\ jobs[1].of \in cancelled) => running' = running \cup {jobs[1]}
  BY <1>3 DEF StartJob
<1>5. \A j : Held(j) /\ ~(j.kind = "get" /\ j.of \in cancelled) => Held(j)'
  BY <1>2, <1>4 DEF Held
<1>6. ASSUME NEW d \in Conns, handler'[d] = "wait", inbox'[d] = Nothing
      PROVE  Held(Getter(Current(d)))'
  <2>1. handler[d] = "wait" /\ Held(Getter(Current(d))) /\ Current(d)' = Current(d)
    BY <1>1, <1>6 DEF WaitInv, HandlerServed, Current
  <2>2. PICK m \in Msgs : m = Current(d) /\ Current(d)' = m /\ m[1] = d
    BY <2>1, CurrentIsMsg
  <2>3. m \notin cancelled
    BY <2>1, <2>2 DEF WaitInv, CancelledAreClosed
  <2>4. Getter(m).of = m
    BY DEF Getter
  <2> QED
    BY <1>5, <2>1, <2>2, <2>3, <2>4
<1>7. PostServed'
  <2> SUFFICES ASSUME NEW p \in Posts, post[p] = "pending" PROVE Held(Pipeline(p))'
    BY <1>1 DEF PostServed
  <2>1. Held(Pipeline(p)) /\ Pipeline(p).kind # "get"
    BY DEF WaitInv, PostServed, Pipeline
  <2> QED
    BY <1>5, <2>1
<1> QED
  BY <1>6, <1>7 DEF HandlerServed

\* A job ends and leaves its thread.
LEMMA ServedJobEnds ==
    ASSUME Types, WaitInv, NEW x, jobs' = jobs, running' = running \ {x},
           handler' = handler, turn' = turn,
           \A c \in Conns : inbox'[c] = Nothing /\ handler[c] = "wait" =>
               inbox[c] = Nothing /\ x # Getter(Current(c)),
           \A p \in Posts : post'[p] = "pending" => post[p] = "pending" /\ x # Pipeline(p)
    PROVE  HandlerServed' /\ PostServed'
<1>1. \A j : Held(j) /\ j # x => Held(j)'
  BY DEF Held, Queued
<1>2. ASSUME NEW d \in Conns, handler'[d] = "wait", inbox'[d] = Nothing
      PROVE  Held(Getter(Current(d)))'
  <2>1. /\ handler[d] = "wait" /\ Held(Getter(Current(d))) /\ x # Getter(Current(d))
        /\ Current(d)' = Current(d)
    BY <1>2 DEF WaitInv, HandlerServed, Current
  <2>2. PICK m \in Msgs : m = Current(d) /\ Current(d)' = m
    BY <2>1, CurrentIsMsg
  <2> QED
    BY <1>1, <2>1, <2>2
<1>3. PostServed'
  BY <1>1 DEF WaitInv, PostServed
<1> QED
  BY <1>2, <1>3 DEF HandlerServed

LEMMA WaitStep == Types /\ WaitInv /\ [Next]_vars => WaitInv'
<1> SUFFICES ASSUME Types, WaitInv, [Next]_vars PROVE HandlerServed' /\ PostServed'
  BY CancelledKept DEF WaitInv
<1>1. ASSUME NEW c \in Conns, Receive(c) PROVE HandlerServed' /\ PostServed'
  BY <1>1, ServedReceive
<1>2. ASSUME NEW c \in Conns, ReceiveBadMessage(c) PROVE HandlerServed' /\ PostServed'
  <2>1. /\ UNCHANGED <<inbox, post, jobs, running>> /\ handler'[c] = "closed"
        /\ \A d \in Conns \ {c} : handler'[d] = handler[d] /\ turn'[d] = turn[d]
    BY <1>2 DEF ReceiveBadMessage, executor, Types, TypeOK
  <2>2. \A j : Held(j) => Held(j)'
    BY <2>1, PoolGrows
  <2>3. ASSUME NEW d \in Conns, handler'[d] = "wait", inbox'[d] = Nothing
        PROVE  Held(Getter(Current(d)))'
    <3>1. /\ handler[d] = "wait" /\ Held(Getter(Current(d))) /\ Current(d)' = Current(d)
      BY <2>1, <2>3 DEF WaitInv, HandlerServed, Current
    <3>2. PICK m \in Msgs : m = Current(d) /\ Current(d)' = m
      BY <3>1, CurrentIsMsg
    <3> QED
      BY <2>2, <3>1, <3>2
  <2>4. PostServed'
    BY <2>1, <2>2 DEF WaitInv, PostServed
  <2> QED
    BY <2>3, <2>4 DEF HandlerServed
<1>3. ASSUME NEW c \in Conns, ReceiveDisconnect(c) \/ FinishAnswer(c) \/ ReportError(c)
                                \/ SendFails(c) \/ Timeout(c)
      PROVE  HandlerServed' /\ PostServed'
  <2>1. /\ UNCHANGED <<turn, post, jobs, running>> /\ handler'[c] # "wait"
        /\ \A d \in Conns \ {c} : handler'[d] = handler[d] /\ inbox'[d] = inbox[d]
    BY <1>3 DEF ReceiveDisconnect, FinishAnswer, ReportError, SendFails, Timeout, executor,
                Types, TypeOK
  <2> QED
    BY <2>1, PoolGrows, ServedKept
<1>4. ASSUME NEW c \in Conns, ForwardChunk(c) PROVE HandlerServed' /\ PostServed'
  <2>1. /\ UNCHANGED <<turn, post, running>> /\ handler[c] = "wait"
        /\ jobs' = Append(jobs, Getter(Current(c)))
        /\ \A d \in Conns \ {c} : handler'[d] = handler[d] /\ inbox'[d] = inbox[d]
    BY <1>4 DEF ForwardChunk, Types, TypeOK
  <2>2. PICK m \in Msgs : m = Current(c)
    BY <2>1, CurrentIsMsg
  <2>3. Getter(m) \in Jobs /\ jobs' = Append(jobs, Getter(m))
    BY <2>1, <2>2, JobsDiffer
  <2>4. Held(Getter(m))' /\ \A j : Held(j) => Held(j)'
    BY <2>1, <2>3, PoolGrows
  <2> QED
    BY <2>1, <2>2, <2>4, ServedKept
<1>5. ASSUME NEW p \in Posts, PostArrives(p) PROVE HandlerServed' /\ PostServed'
  <2>1. /\ UNCHANGED <<handler, inbox, turn, running>> /\ post' = [post EXCEPT ![p] = "pending"]
        /\ jobs' = Append(jobs, Pipeline(p)) /\ Pipeline(p) \in Jobs
    BY <1>5, JobsDiffer DEF PostArrives
  <2>2. Held(Pipeline(p))' /\ \A j : Held(j) => Held(j)'
    BY <2>1, PoolGrows
  <2>3. ASSUME NEW d \in Conns, handler'[d] = "wait", inbox'[d] = Nothing
        PROVE  Held(Getter(Current(d)))'
    <3>1. /\ handler[d] = "wait" /\ Held(Getter(Current(d))) /\ Current(d)' = Current(d)
      BY <2>1, <2>3 DEF WaitInv, HandlerServed, Current
    <3>2. PICK m \in Msgs : m = Current(d) /\ Current(d)' = m
      BY <3>1, CurrentIsMsg
    <3> QED
      BY <2>2, <3>1, <3>2
  <2>4. PostServed'
    <3> SUFFICES ASSUME NEW q \in Posts, post'[q] = "pending", q # p PROVE Held(Pipeline(q))'
      BY <2>2 DEF PostServed
    <3>1. Held(Pipeline(q))
      BY <2>1 DEF WaitInv, PostServed, Types, TypeOK
    <3> QED
      BY <2>2, <3>1
  <2> QED
    BY <2>3, <2>4 DEF HandlerServed
<1>6. CASE StartJob
  BY <1>6, ServedStartJob
<1>7. ASSUME NEW p \in Posts, PostEnds(p) PROVE HandlerServed' /\ PostServed'
  <2>1. /\ UNCHANGED <<handler, inbox, turn, jobs>> /\ running' = running \ {Pipeline(p)}
        /\ post'[p] # "pending" /\ \A q \in Posts \ {p} : post'[q] = post[q]
    BY <1>7 DEF PostEnds, Types, TypeOK
  <2>2. \A q \in Posts : Pipeline(q) = Pipeline(p) => q = p
    BY DEF Pipeline
  <2>3. \A d \in Conns : handler[d] = "wait" => Pipeline(p) # Getter(Current(d))
    BY CurrentIsMsg, JobsDiffer
  <2> QED
    BY <2>1, <2>2, <2>3, ServedJobEnds
<1>8. ASSUME NEW m \in Msgs, ProduceEnd(m) PROVE HandlerServed' /\ PostServed'
  <2>1. /\ UNCHANGED <<handler, inbox, turn, post, jobs>> /\ running' = running \ {Producer(m)}
    BY <1>8 DEF ProduceEnd, loop
  <2>2. \A d \in Conns : handler[d] = "wait" => Producer(m) # Getter(Current(d))
    BY CurrentIsMsg, JobsDiffer
  <2>3. \A p \in Posts : Producer(m) # Pipeline(p)
    BY JobsDiffer
  <2> QED
    BY <2>1, <2>2, <2>3, ServedJobEnds
<1>9. ASSUME NEW m \in Msgs, GetItem(m) PROVE HandlerServed' /\ PostServed'
  <2>1. /\ UNCHANGED <<handler, turn, post, jobs>> /\ running' = running \ {Getter(m)}
        /\ queue[m] # <<>> /\ Nothing # <<Head(queue[m])>>
    BY <1>9 DEF GetItem, Nothing
  <2>2. ASSUME NEW d \in Conns, inbox'[d] = Nothing, handler[d] = "wait"
        PROVE  inbox[d] = Nothing /\ Getter(m) # Getter(Current(d))
    <3>1. CASE handler[m[1]] = "wait" /\ m = Current(m[1])
      <4>1. inbox' = [inbox EXCEPT ![m[1]] = <<Head(queue[m])>>]
        BY <1>9, <3>1 DEF GetItem
      <4>2. d # m[1] /\ inbox'[d] = inbox[d]
        BY <2>1, <2>2, <4>1, MsgIsPair DEF Types, TypeOK
      <4>3. Current(d) # m /\ Current(d) \in Msgs
        BY <2>2, <4>2, CurrentIsMsg
      <4> QED
        BY <2>2, <4>2, <4>3, JobsDiffer
    <3>2. CASE ~(handler[m[1]] = "wait" /\ m = Current(m[1]))
      <4>1. inbox' = inbox
        BY <1>9, <3>2 DEF GetItem
      <4>2. Current(d) # m /\ Current(d) \in Msgs
        BY <2>2, <3>2, CurrentIsMsg
      <4> QED
        BY <2>2, <4>1, <4>2, JobsDiffer
    <3> QED
      BY <3>1, <3>2
  <2>3. \A p \in Posts : Getter(m) # Pipeline(p)
    BY JobsDiffer
  <2> QED
    BY <2>1, <2>2, <2>3, ServedJobEnds
<1>10. CASE UNCHANGED <<handler, inbox, turn, post, jobs, running>>
  <2>1. /\ \A c \in Conns : Current(c)' = Current(c)
        /\ \A j : Held(j)' <=> Held(j)
    BY <1>10 DEF Current, Held, Queued
  <2> QED
    BY <1>10 DEF WaitInv, HandlerServed, PostServed, Held, Queued, Current
<1> QED
  BY <1>1, <1>2, <1>3, <1>4, <1>5, <1>6, <1>7, <1>8, <1>9, <1>10
     DEF Next, Handle, Produce, ClientLeaves, ProduceChunk, loop, executor, vars

\* The pool is never stuck: some thread that is at work does not wait for another,
\* or can take its item, and whoever waits for the pool has something in it that is
\* not cancelled.
NobodyWaitsInVain ==
    /\ running # {} => \E j \in running : j.kind # "get" \/ queue[j.of] # <<>>
    /\ \A c \in Conns :
          handler[c] = "wait" =>
              \/ inbox[c] # Nothing
              \/ Held(Getter(Current(c))) /\ Current(c) \notin cancelled
    /\ \A p \in Posts : post[p] = "pending" => Held(Pipeline(p))

\* NobodyWaitsInVain holds for any number of threads, even one: the safety half of
\* HandlersProceed and ThreadsComeBack (chat_router.py, run_in_executor).
THEOREM PoolNeverStuck == Spec => []NobodyWaitsInVain
<1>1. Init => WaitInv
  BY DEF Init, WaitInv, CancelledAreClosed, HandlerServed, PostServed
<1>2. Types /\ WaitInv /\ GettersHaveProducers => NobodyWaitsInVain
  <2> SUFFICES ASSUME Types, WaitInv, GettersHaveProducers PROVE NobodyWaitsInVain
    OBVIOUS
  <2>1. ASSUME NEW j \in running PROVE \E i \in running : i.kind # "get" \/ queue[i.of] # <<>>
    <3>1. CASE j.kind = "get"
      <4>1. j \in Jobs
        BY DEF Types, TypeOK
      <4>2. j.of \in Msgs /\ j = Getter(j.of)
        BY <3>1, <4>1 DEF Jobs, Getter
      <4>3. CASE queue[j.of] = <<>>
        <5>1. Producer(j.of) \in running
          BY <4>2, <4>3 DEF GettersHaveProducers
        <5> QED
          BY <4>2, <5>1, JobsDiffer
      <4> QED
        BY <4>3
    <3> QED
      BY <3>1
  <2>2. ASSUME NEW c \in Conns, handler[c] = "wait"
        PROVE  inbox[c] # Nothing \/ (Held(Getter(Current(c))) /\ Current(c) \notin cancelled)
    <3>1. Current(c)[1] = c
      BY DEF Current
    <3> QED
      BY <2>2, <3>1 DEF WaitInv, CancelledAreClosed, HandlerServed
  <2> QED
    BY <2>1, <2>2 DEF NobodyWaitsInVain, WaitInv, PostServed
<1>3. QED
  BY <1>1, <1>2, WaitStep, NoGetterStarvesItsProducer, PoolInvariant, PTL DEF Spec
===============================================================================
