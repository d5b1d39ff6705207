------------------------------ MODULE ChatMemory ------------------------------
(***************************************************************************)
(* Chat memory: the exchanges that the chat routers of several pods hand   *)
(* to ChatMemoryService.append_exchange, and the store behind it.          *)
(*                                                                         *)
(* A pod that reaches Cassandra as it starts uses the tables all pods      *)
(* share; one that does not falls back to dictionaries of its own.  A pod  *)
(* appends on its event loop, so one exchange at a time, but against       *)
(* Cassandra every INSERT is a step of its own among those of other pods.  *)
(***************************************************************************)
EXTENDS Integers, Sequences, FiniteSets, SequencesExt

CONSTANTS
    Pods,       \* chat-api processes
    Sessions,   \* scoped session ids, '<user_id>:<session_id>'
    Exchanges,  \* question and answer pairs to remember
    Backends,   \* stores a starting pod may end up with
    MaxTime,    \* bound: the clock, in the resolution of a Cassandra timestamp
    MaxCrashes  \* bound: crashes of pods

ASSUME BackendsAssumption ==
    /\ Backends \subseteq {"cassandra", "memory"}
    /\ MaxTime \in Nat
    /\ MaxCrashes \in Nat

VARIABLES
    backend,    \* backend[p]: "down" or the store the pod uses
    local,      \* local[p][s]: rows in the pod's own dictionary
    keys,       \* keys[p]: its keys, in the order they were added
    table,      \* Cassandra: messages, keyed by session and timestamp
    updated,    \* Cassandra: sessions, with updated_at
    clock,
    crashes,
    at,         \* where the append of each exchange is
    pod,        \* the pod it is appended by
    ses,        \* its session
    stamp       \* its timestamp

cassandra == <<table, updated>>
append    == <<at, pod, ses, stamp>>
vars == <<backend, local, keys, table, updated, clock, crashes, at, pod, ses, stamp>>

Times == 0..MaxTime
Never == -1

Row(e, role) == [s |-> ses[e], ts |-> stamp[e], role |-> role, ex |-> e]
Rows == [s : Sessions, ts : Times, role : {"user", "assistant"}, ex : Exchanges]

\* The two records of one exchange share a single datetime.now().
Records(e, s) ==
    <<[s |-> s, ts |-> clock, role |-> "user", ex |-> e],
      [s |-> s, ts |-> clock, role |-> "assistant", ex |-> e]>>

Inserting == {"user", "userSession", "assistant", "assistantSession"}
Busy(p) == \E e \in Exchanges : at[e] \in Inserting /\ pod[e] = p

NoRows == [s \in Sessions |-> <<>>]

Init ==
    /\ backend = [p \in Pods |-> "down"]
    /\ local = [p \in Pods |-> NoRows]
    /\ keys = [p \in Pods |-> <<>>]
    /\ table = {}
    /\ updated = [s \in Sessions |-> Never]
    /\ clock = 0
    /\ crashes = 0
    /\ at = [e \in Exchanges |-> "new"]
    /\ pod \in [Exchanges -> Pods]
    /\ ses \in [Exchanges -> Sessions]
    /\ stamp = [e \in Exchanges |-> 0]

-----------------------------------------------------------------------------
\* lifespan: CassandraChatMemoryStore(), or the in-memory store if it raises.
StartPod(p) ==
    /\ backend[p] = "down"
    /\ \E b \in Backends : backend' = [backend EXCEPT ![p] = b]
    /\ UNCHANGED <<local, keys, cassandra, clock, crashes, append>>

\* A pod goes down, with its dictionaries and whatever it was appending.
CrashPod(p) ==
    /\ backend[p] # "down"
    /\ crashes < MaxCrashes
    /\ crashes' = crashes + 1
    /\ backend' = [backend EXCEPT ![p] = "down"]
    /\ local' = [local EXCEPT ![p] = NoRows]
    /\ keys' = [keys EXCEPT ![p] = <<>>]
    /\ at' = [e \in Exchanges |->
                IF at[e] \in Inserting /\ pod[e] = p THEN "failed" ELSE at[e]]
    /\ UNCHANGED <<cassandra, clock, pod, ses, stamp>>

\* self._data[session_id]: the dictionary gets the key if it is new.
AddKey(p, s) ==
    keys' = [keys EXCEPT ![p] = IF Contains(@, s) THEN @ ELSE Append(@, s)]

\* Mutant: a retry appends the same exchange again.
AppendLocallyAgain(e) ==
    /\ at[e] = "new"
    /\ backend[pod[e]] = "memory"
    /\ Len(local[pod[e]][ses[e]]) < 4
    /\ local' = [local EXCEPT ![pod[e]][ses[e]] = @ \o Records(e, ses[e])]
    /\ AddKey(pod[e], ses[e])
    /\ UNCHANGED <<backend, cassandra, clock, crashes, append>>

\* append_exchange takes the time and, in memory, appends both records.
AppendLocally(e) ==
    /\ at[e] = "new"
    /\ backend[pod[e]] = "memory"
    /\ stamp' = [stamp EXCEPT ![e] = clock]
    /\ local' = [local EXCEPT ![pod[e]][ses[e]] = @ \o Records(e, ses[e])]
    /\ AddKey(pod[e], ses[e])
    /\ at' = [at EXCEPT ![e] = "done"]
    /\ UNCHANGED <<backend, cassandra, clock, crashes, pod, ses>>

BeginAppend(e) ==
    /\ at[e] = "new"
    /\ backend[pod[e]] = "cassandra"
    /\ ~Busy(pod[e])
    /\ stamp' = [stamp EXCEPT ![e] = clock]
    /\ at' = [at EXCEPT ![e] = "user"]
    /\ UNCHANGED <<backend, local, keys, cassandra, clock, crashes, pod, ses>>

\* INSERT INTO messages: an upsert on the key (session_id, timestamp).
Upsert(row) ==
    table' = {r \in table : <<r.s, r.ts>> # <<row.s, row.ts>>} \cup {row}

\* Mutant: the role is read off after the append has moved on.
InsertMessageLate(e) ==
    /\ \/ at[e] = "user" /\ at' = [at EXCEPT ![e] = "userSession"]
       \/ at[e] = "assistant" /\ at' = [at EXCEPT ![e] = "assistantSession"]
    /\ Upsert(Row(e, at'[e]))
    /\ UNCHANGED <<backend, local, keys, updated, clock, crashes, pod, ses, stamp>>

\* Mutant: the assistant's record comes first.
InsertMessageReversed(e) ==
    /\ \/ at[e] = "user" /\ at' = [at EXCEPT ![e] = "userSession"]
       \/ at[e] = "assistant" /\ at' = [at EXCEPT ![e] = "assistantSession"]
    /\ Upsert(Row(e, IF at[e] = "user" THEN "assistant" ELSE "user"))
    /\ UNCHANGED <<backend, local, keys, updated, clock, crashes, pod, ses, stamp>>

InsertMessage(e) ==
    /\ \/ at[e] = "user" /\ at' = [at EXCEPT ![e] = "userSession"]
       \/ at[e] = "assistant" /\ at' = [at EXCEPT ![e] = "assistantSession"]
    /\ Upsert(Row(e, at[e]))
    /\ UNCHANGED <<backend, local, keys, updated, clock, crashes, pod, ses, stamp>>

\* Mutant: updated_at is the time of the INSERT.
InsertSessionNow(e) ==
    /\ \/ at[e] = "userSession" /\ at' = [at EXCEPT ![e] = "assistant"]
       \/ at[e] = "assistantSession" /\ at' = [at EXCEPT ![e] = "done"]
    /\ updated' = [updated EXCEPT ![ses[e]] = clock]
    /\ UNCHANGED <<backend, local, keys, table, clock, crashes, pod, ses, stamp>>

InsertSession(e) ==
    /\ \/ at[e] = "userSession" /\ at' = [at EXCEPT ![e] = "assistant"]
       \/ at[e] = "assistantSession" /\ at' = [at EXCEPT ![e] = "done"]
    /\ updated' = [updated EXCEPT ![ses[e]] = stamp[e]]
    /\ UNCHANGED <<backend, local, keys, table, clock, crashes, pod, ses, stamp>>

\* An INSERT raises: the remaining ones are not made, the router moves on.
InsertFails(e) ==
    /\ at[e] \in Inserting
    /\ at' = [at EXCEPT ![e] = "failed"]
    /\ UNCHANGED <<backend, local, keys, cassandra, clock, crashes, pod, ses, stamp>>

Tick ==
    /\ clock < MaxTime
    /\ clock' = clock + 1
    /\ UNCHANGED <<backend, local, keys, cassandra, crashes, append>>

Next ==
    \/ \E p \in Pods : StartPod(p) \/ CrashPod(p)
    \/ \E e \in Exchanges :
          \/ AppendLocally(e) \/ BeginAppend(e)
          \/ InsertMessage(e) \/ InsertSession(e) \/ InsertFails(e)
    \/ Tick

Spec == Init /\ [][Next]_vars

-----------------------------------------------------------------------------
(* What the stores return *)

Limit(q, n) == IF Len(q) <= n THEN q ELSE SubSeq(q, 1, n)
LastN(q, n) == IF Len(q) <= n THEN q ELSE SubSeq(q, Len(q) - n + 1, Len(q))

\* Mutant: a sort that turns equal timestamps around.
RecentLocalUnstable(p, s, n) ==
    LET items == local[p][s]
        UpTo(i) == {j \in DOMAIN items : \/ items[j].ts < items[i].ts
                                         \/ items[j].ts = items[i].ts /\ j >= i}
    IN  LastN([k \in DOMAIN items |->
                  items[CHOOSE i \in DOMAIN items : Cardinality(UpTo(i)) = k]], n)

\* sorted(items, key=timestamp)[-limit:], a stable sort: an item's place is the
\* number of items that do not come after it.
RecentLocal(p, s, n) ==
    LET items == local[p][s]
        UpTo(i) == {j \in DOMAIN items : \/ items[j].ts < items[i].ts
                                         \/ items[j].ts = items[i].ts /\ j <= i}
    IN  LastN([k \in DOMAIN items |->
                  items[CHOOSE i \in DOMAIN items : Cardinality(UpTo(i)) = k]], n)

\* ORDER BY timestamp ASC LIMIT n
RecentCassandra(s, n) ==
    Limit(SetToSortSeq({r \in table : r.s = s}, LAMBDA a, b : a.ts < b.ts), n)

\* GET /chat/sessions/{session_id}/messages
SessionMessages(p, s, n) ==
    IF backend[p] = "memory" THEN RecentLocal(p, s, n) ELSE RecentCassandra(s, n)

\* Mutant: [:limit] for [-limit:].
OldestKeys(p, n) == Limit(keys[p], n)

\* list(self._data.keys())[-limit:]
NewestKeys(p, n) == LastN(keys[p], n)

\* GET /chat/sessions of the user whose sessions are `mine': the store lists n
\* sessions of all users, then the router picks out the user's.  Cassandra rejects
\* the store's query, which orders rows of several partitions, and the router
\* takes that for an empty list.
ListSessions(p, mine, n) ==
    IF backend[p] = "memory" THEN Range(NewestKeys(p, n)) \cap mine ELSE {}

-----------------------------------------------------------------------------
TypeOK ==
    /\ backend \in [Pods -> {"down"} \cup Backends]
    /\ local \in [Pods -> [Sessions -> Seq(Rows)]]
    /\ keys \in [Pods -> Seq(Sessions)]
    /\ table \subseteq Rows
    /\ updated \in [Sessions -> Times \cup {Never}]
    /\ clock \in Times
    /\ crashes \in 0..MaxCrashes
    /\ at \in [Exchanges -> {"new", "done", "failed"} \cup Inserting]
    /\ pod \in [Exchanges -> Pods]
    /\ ses \in [Exchanges -> Sessions]
    /\ stamp \in [Exchanges -> Times]

(* Properties *)

SameKey(e, f) == ses[e] = ses[f] /\ stamp[e] = stamp[f]
Stored(e) == at[e] = "done" /\ backend[pod[e]] = "cassandra"

\* The two INSERTs of an exchange hit the same row; once every append with that
\* key is through, what is left there is an answer, never a bare question.
AnswersSurvive ==
    \A row \in table :
        (\A e \in Exchanges :
            at[e] # "new" /\ ses[e] = row.s /\ stamp[e] = row.ts => at[e] = "done")
        => row.role = "assistant"

\* updated_at never runs ahead of the messages: the session row is written
\* after a message row with the same timestamp, whatever fails in between.
UpdatedHasMessages ==
    \A s \in Sessions :
        updated[s] # Never => \E r \in table : r.s = s /\ r.ts = updated[s]

\* A session with messages is in the sessions table, unless the append that
\* wrote its first message is still under way or broke off between the INSERTs.
SessionsIndexed ==
    \A r \in table :
        updated[r.s] = Never =>
            \E e \in Exchanges : ses[e] = r.s /\ at[e] \in {"userSession", "failed"}

\* The sessions table agrees with the messages.
SessionsMatchMessages == UpdatedHasMessages /\ SessionsIndexed

\* In memory, sorting by timestamp never reorders what was appended: the
\* question stays before its answer although both bear the same timestamp.
LocalReadsInOrder ==
    \A p \in Pods, s \in Sessions, n \in 1..3 :
        backend[p] = "memory" => SessionMessages(p, s, n) = LastN(local[p][s], n)

\* The in-memory store does not list by updated_at, as ChatMemoryStore.list_sessions
\* is documented to (MostRecentlyUpdatedFirst, below), but by the time a session
\* began.  So a user finds a session in the list of n until n sessions, of whatever
\* users, have begun after it, and then no more, however often it is written to
\* (list_sessions of chat_router.py and of InMemoryChatMemoryStore).
ListedUnlessCrowdedOut ==
    \A p \in Pods, mine \in SUBSET Sessions, n \in 1..2 :
        backend[p] = "memory" =>
            \A s \in mine :
                local[p][s] # <<>> =>
                    \/ s \in ListSessions(p, mine, n)
                    \/ Cardinality({o \in Sessions \ {s} :
                          local[p][o] # <<>> /\ local[p][o][1].ts >= local[p][s][1].ts}) >= n

\* store.py: "Return session ids, most recently updated first"; whichever session
\* was updated after a listed one is listed before it.
MostRecentlyUpdatedFirst ==
    \A p \in Pods, n \in 1..2 :
        LET q == NewestKeys(p, n)
            UpdatedAt(s) == Last(local[p][s]).ts
        IN  backend[p] = "memory" =>
                \A i \in DOMAIN q : \A s \in Range(keys[p]) :
                    UpdatedAt(s) > UpdatedAt(q[i]) => \E j \in 1..(i - 1) : q[j] = s

\* What a log keeps of the rows q, and the logs of all pods.
LogOf(q) == [i \in 1..Len(q) |-> [ex |-> q[i].ex, role |-> q[i].role]]
Logs == [p \in Pods |-> [s \in Sessions |-> LogOf(local[p][s])]]

\* The in-memory stores of the pods are a ChatLog.
LocalLog == INSTANCE ChatLog WITH Stores <- Pods, log <- Logs
LocalRefinesLog == LocalLog!Spec

\* cassandra-chat-memory.md: every exchange appends 2 rows, user and assistant;
\* they are there to be read.
TwoRowsPerExchange ==
    \A e \in Exchanges : Stored(e) =>
        {r \in Range(SessionMessages(pod[e], ses[e], 20)) : r.ex = e}
            = {Row(e, "user"), Row(e, "assistant")}
===============================================================================
