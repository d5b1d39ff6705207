--------------------------- MODULE ChatMemoryProofs ---------------------------
(***************************************************************************)
(* Proofs about ChatMemory, for any number of pods, sessions, exchanges    *)
(* and crashes.                                                            *)
(*                                                                         *)
(* MemoryInv says what the tables hold of an exchange at each of its four  *)
(* INSERTs, whatever the other pods have written over it meanwhile.        *)
(***************************************************************************)
EXTENDS ChatMemory, SequenceTheorems, FiniteSetTheorems, TLAPS

\* A row bears the key of its exchange; the question's is there only until the
\* answer's takes its place.
RowsOfExchanges ==
    \A r \in table :
        /\ r.s = ses[r.ex] /\ r.ts = stamp[r.ex] /\ at[r.ex] # "new"
        /\ r.role = "user" => at[r.ex] \in {"userSession", "assistant", "failed"}

\* Past its first INSERT an exchange has a row with its key, not always its own.
KeysTaken ==
    \A e \in Exchanges :
        at[e] \in {"userSession", "assistant", "assistantSession"} =>
            \E r \in table : r.s = ses[e] /\ r.ts = stamp[e]

\* Past its second one its session is listed.
Listed ==
    \A e \in Exchanges :
        at[e] \in {"assistant", "assistantSession"} => updated[ses[e]] # Never

MemoryInv ==
    /\ TypeOK /\ RowsOfExchanges /\ KeysTaken /\ Listed
    /\ UpdatedHasMessages /\ SessionsIndexed

-----------------------------------------------------------------------------
LEMMA InitInv == Init => MemoryInv
<1> SUFFICES ASSUME Init PROVE MemoryInv
  OBVIOUS
<1>1. TypeOK
  BY BackendsAssumption DEF Init, TypeOK, NoRows, Times, Never
<1>2. RowsOfExchanges /\ KeysTaken /\ Listed
  BY DEF Init, RowsOfExchanges, KeysTaken, Listed
<1>3. UpdatedHasMessages /\ SessionsIndexed
  BY DEF Init, UpdatedHasMessages, SessionsIndexed
<1> QED
  BY <1>1, <1>2, <1>3 DEF MemoryInv

LEMMA RowTyped ==
    ASSUME TypeOK, NEW e \in Exchanges, NEW role \in {"user", "assistant"}
    PROVE  /\ Row(e, role) \in Rows
           /\ Row(e, role).s = ses[e] /\ Row(e, role).ts = stamp[e]
           /\ Row(e, role).role = role /\ Row(e, role).ex = e
  BY DEF TypeOK, Row, Rows

LEMMA RecordsTyped ==
    ASSUME TypeOK, NEW e \in Exchanges
    PROVE  Records(e, ses[e]) \in Seq(Rows)
<1>1. ses[e] \in Sessions /\ clock \in Times
  BY DEF TypeOK
<1>2. \A role \in {"user", "assistant"} :
          [s |-> ses[e], ts |-> clock, role |-> role, ex |-> e] \in Rows
  BY <1>1 DEF Rows
<1> QED
  BY <1>2 DEF Records

\* Steps that leave the tables and the appends in Cassandra alone.
LEMMA PodsKeep ==
    ASSUME MemoryInv,
           \/ \E p \in Pods : StartPod(p) \/ CrashPod(p)
           \/ \E e \in Exchanges : AppendLocally(e) \/ BeginAppend(e) \/ InsertFails(e)
           \/ Tick
    PROVE  MemoryInv'
<1> DEFINE Kept ==
             /\ UNCHANGED <<table, updated, pod, ses>>
             /\ \A e \in Exchanges :
                   \/ at'[e] = at[e] /\ stamp'[e] = stamp[e]
                   \/ at[e] = "new" /\ at'[e] \in {"done", "user"}
                   \/ at[e] \in Inserting /\ at'[e] = "failed" /\ stamp'[e] = stamp[e]
<1>1. Kept
  <2>1. ASSUME NEW p \in Pods, StartPod(p) \/ CrashPod(p) PROVE Kept
    BY <2>1 DEF StartPod, CrashPod, cassandra, append, MemoryInv, TypeOK
  <2>2. ASSUME NEW e \in Exchanges, AppendLocally(e) \/ BeginAppend(e) \/ InsertFails(e) PROVE Kept
    BY <2>2 DEF AppendLocally, BeginAppend, InsertFails, cassandra, MemoryInv, TypeOK
  <2>3. CASE Tick
    BY <2>3 DEF Tick, cassandra, append, MemoryInv, TypeOK
  <2> QED
    BY <2>1, <2>2, <2>3
<1>2. TypeOK'
  <2>1. ASSUME NEW p \in Pods, StartPod(p) PROVE TypeOK'
    BY <2>1 DEF StartPod, cassandra, append, MemoryInv, TypeOK
  <2>2. ASSUME NEW p \in Pods, CrashPod(p) PROVE TypeOK'
    <3>1. NoRows \in [Sessions -> Seq(Rows)] /\ <<>> \in Seq(Sessions)
      BY DEF NoRows
    <3> QED
      BY <2>2, <3>1, BackendsAssumption DEF CrashPod, cassandra, MemoryInv, TypeOK, Inserting
  <2>3. ASSUME NEW e \in Exchanges, AppendLocally(e) PROVE TypeOK'
    <3>1. local[pod[e]][ses[e]] \o Records(e, ses[e]) \in Seq(Rows)
      BY RecordsTyped DEF MemoryInv, TypeOK
    <3>2. local' \in [Pods -> [Sessions -> Seq(Rows)]]
      BY <2>3, <3>1 DEF AppendLocally, MemoryInv, TypeOK
    <3>3. keys' \in [Pods -> Seq(Sessions)]
      BY <2>3 DEF AppendLocally, AddKey, MemoryInv, TypeOK
    <3>4. stamp' \in [Exchanges -> Times]
      BY <2>3 DEF AppendLocally, MemoryInv, TypeOK
    <3> QED
      BY <2>3, <3>2, <3>3, <3>4 DEF AppendLocally, cassandra, MemoryInv, TypeOK
  <2>4. ASSUME NEW e \in Exchanges, BeginAppend(e) \/ InsertFails(e) PROVE TypeOK'
    BY <2>4 DEF BeginAppend, InsertFails, cassandra, MemoryInv, TypeOK, Inserting
  <2>5. CASE Tick
    BY <2>5, BackendsAssumption DEF Tick, cassandra, append, MemoryInv, TypeOK, Times
  <2> QED
    BY <2>1, <2>2, <2>3, <2>4, <2>5
<1>3. RowsOfExchanges'
  BY <1>1 DEF MemoryInv, TypeOK, RowsOfExchanges, Rows, Inserting
<1>4. KeysTaken' /\ Listed'
  BY <1>1 DEF MemoryInv, KeysTaken, Listed
<1>5. UpdatedHasMessages'
  BY <1>1 DEF MemoryInv, UpdatedHasMessages
<1>6. SessionsIndexed'
  BY <1>1 DEF MemoryInv, SessionsIndexed, Inserting
<1> QED
  BY <1>2, <1>3, <1>4, <1>5, <1>6 DEF MemoryInv

LEMMA InsertMessageKeeps ==
    ASSUME MemoryInv, NEW e \in Exchanges, InsertMessage(e)
    PROVE  MemoryInv'
<1> DEFINE row == Row(e, at[e])
           next == IF at[e] = "user" THEN "userSession" ELSE "assistantSession"
<1>1. /\ at[e] \in {"user", "assistant"} /\ at' = [at EXCEPT ![e] = next]
      /\ table' = {r \in table : <<r.s, r.ts>> # <<row.s, row.ts>>} \cup {row}
      /\ UNCHANGED <<backend, local, keys, updated, clock, crashes, pod, ses, stamp>>
  BY DEF InsertMessage, Upsert
<1>2. /\ row \in Rows /\ row.s = ses[e] /\ row.ts = stamp[e] /\ row.role = at[e] /\ row.ex = e
  BY <1>1, RowTyped DEF MemoryInv
<1> HIDE DEF row
<1>3. TypeOK'
  BY <1>1, <1>2 DEF MemoryInv, TypeOK, Inserting
<1>4. ASSUME NEW r \in table PROVE \E q \in table' : q.s = r.s /\ q.ts = r.ts
  BY <1>1, <1>2
<1>5. \A q \in Exchanges \ {e} : at'[q] = at[q]
  BY <1>1 DEF MemoryInv, TypeOK
<1>6. at'[e] = next
  BY <1>1 DEF MemoryInv, TypeOK
<1>7. RowsOfExchanges'
  <2> SUFFICES ASSUME NEW r \in table'
               PROVE  /\ r.s = ses[r.ex] /\ r.ts = stamp[r.ex] /\ at'[r.ex] # "new"
                      /\ r.role = "user" => at'[r.ex] \in {"userSession", "assistant", "failed"}
    BY <1>1 DEF RowsOfExchanges
  <2>1. CASE r = row
    BY <1>1, <1>2, <1>6, <2>1
  <2>2. CASE r # row
    <3>1. r \in table /\ <<r.s, r.ts>> # <<ses[e], stamp[e]>>
      BY <1>1, <1>2, <2>2
    <3>2. r.ex \in Exchanges /\ r.ex # e
      BY <3>1 DEF MemoryInv, TypeOK, Rows, RowsOfExchanges
    <3> QED
      BY <1>5, <3>1, <3>2 DEF MemoryInv, RowsOfExchanges
  <2> QED
    BY <2>1, <2>2
<1>8. KeysTaken'
  <2> SUFFICES ASSUME NEW q \in Exchanges, at'[q] \in {"userSession", "assistant", "assistantSession"}
               PROVE  \E r \in table' : r.s = ses[q] /\ r.ts = stamp[q]
    BY <1>1 DEF KeysTaken
  <2>1. CASE q = e
    BY <1>1, <1>2, <2>1
  <2>2. CASE q # e
    BY <1>4, <1>5, <2>2 DEF MemoryInv, KeysTaken
  <2> QED
    BY <2>1, <2>2
<1>9. Listed'
  BY <1>1, <1>5, <1>6 DEF MemoryInv, Listed
<1>10. UpdatedHasMessages'
  BY <1>1, <1>4 DEF MemoryInv, UpdatedHasMessages
<1>11. SessionsIndexed'
  <2> SUFFICES ASSUME NEW r \in table', updated[r.s] = Never
               PROVE  \E q \in Exchanges : ses[q] = r.s /\ at'[q] \in {"userSession", "failed"}
    BY <1>1 DEF SessionsIndexed
  <2>1. CASE r = row
    BY <1>1, <1>2, <1>6, <2>1 DEF MemoryInv, Listed
  <2>2. CASE r # row
    <3>1. r \in table
      BY <1>1, <2>2
    <3>2. PICK q \in Exchanges : ses[q] = r.s /\ at[q] \in {"userSession", "failed"}
      BY <3>1 DEF MemoryInv, SessionsIndexed
    <3> QED
      BY <1>1, <1>5, <3>2
  <2> QED
    BY <2>1, <2>2
<1> QED
  BY <1>3, <1>7, <1>8, <1>9, <1>10, <1>11 DEF MemoryInv

LEMMA InsertSessionKeeps ==
    ASSUME MemoryInv, NEW e \in Exchanges, InsertSession(e)
    PROVE  MemoryInv'
<1> DEFINE next == IF at[e] = "userSession" THEN "assistant" ELSE "done"
<1>1. /\ at[e] \in {"userSession", "assistantSession"} /\ at' = [at EXCEPT ![e] = next]
      /\ updated' = [updated EXCEPT ![ses[e]] = stamp[e]]
      /\ UNCHANGED <<backend, local, keys, table, clock, crashes, pod, ses, stamp>>
  BY DEF InsertSession
<1>2. /\ ses[e] \in Sessions /\ stamp[e] \in Times /\ stamp[e] # Never
      /\ at'[e] = next /\ \A q \in Exchanges \ {e} : at'[q] = at[q]
      /\ updated'[ses[e]] = stamp[e] /\ \A s \in Sessions \ {ses[e]} : updated'[s] = updated[s]
  BY <1>1, BackendsAssumption DEF MemoryInv, TypeOK, Times, Never
<1>3. TypeOK'
  BY <1>1, <1>2 DEF MemoryInv, TypeOK, Inserting
<1>4. RowsOfExchanges'
  <2> SUFFICES ASSUME NEW r \in table
               PROVE  /\ r.s = ses[r.ex] /\ r.ts = stamp[r.ex] /\ at'[r.ex] # "new"
                      /\ r.role = "user" => at'[r.ex] \in {"userSession", "assistant", "failed"}
    BY <1>1 DEF RowsOfExchanges
  <2>1. r.ex \in Exchanges
    BY DEF MemoryInv, TypeOK, Rows
  <2> QED
    BY <1>1, <1>2, <2>1 DEF MemoryInv, RowsOfExchanges
<1>5. KeysTaken'
  BY <1>1, <1>2 DEF MemoryInv, KeysTaken
<1>6. Listed'
  BY <1>1, <1>2 DEF MemoryInv, TypeOK, Listed
<1>7. UpdatedHasMessages'
  BY <1>1, <1>2 DEF MemoryInv, KeysTaken, UpdatedHasMessages
<1>8. SessionsIndexed'
  <2> SUFFICES ASSUME NEW r \in table, updated'[r.s] = Never
               PROVE  \E q \in Exchanges : ses[q] = r.s /\ at'[q] \in {"userSession", "failed"}
    BY <1>1 DEF SessionsIndexed
  <2>1. r.s \in Sessions \ {ses[e]}
    BY <1>2 DEF MemoryInv, TypeOK, Rows
  <2>2. PICK q \in Exchanges : ses[q] = r.s /\ at[q] \in {"userSession", "failed"}
    BY <1>2, <2>1 DEF MemoryInv, SessionsIndexed
  <2> QED
    BY <1>2, <2>1, <2>2
<1> QED
  BY <1>3, <1>4, <1>5, <1>6, <1>7, <1>8 DEF MemoryInv

LEMMA StepInv == MemoryInv /\ [Next]_vars => MemoryInv'
<1> SUFFICES ASSUME MemoryInv, [Next]_vars PROVE MemoryInv'
  OBVIOUS
<1>1. CASE \E e \in Exchanges : InsertMessage(e)
  BY <1>1, InsertMessageKeeps
<1>2. CASE \E e \in Exchanges : InsertSession(e)
  BY <1>2, InsertSessionKeeps
<1>3. CASE UNCHANGED vars
  BY <1>3 DEF vars, MemoryInv, TypeOK, RowsOfExchanges, KeysTaken, Listed,
              UpdatedHasMessages, SessionsIndexed
<1> QED
  BY <1>1, <1>2, <1>3, PodsKeep DEF Next

LEMMA MemoryInvariant == Spec => []MemoryInv
  BY InitInv, StepInv, PTL DEF Spec

-----------------------------------------------------------------------------
\* Stores, tables and appends keep their types (store.py, service.py).
THEOREM TypeCorrect == Spec => []TypeOK
  BY MemoryInvariant, PTL DEF MemoryInv

\* The sessions table agrees with the messages, whatever fails between the
\* INSERTs of an exchange (append_messages of CassandraChatMemoryStore).
THEOREM TablesMatch == Spec => []SessionsMatchMessages
<1>1. MemoryInv => SessionsMatchMessages
  BY DEF MemoryInv, SessionsMatchMessages
<1> QED
  BY <1>1, MemoryInvariant, PTL

\* Once all appends with one key are through, the row is an answer's (service.py,
\* one timestamp for both records).
THEOREM AnswersStay == Spec => []AnswersSurvive
<1>1. MemoryInv => AnswersSurvive
  <2> SUFFICES ASSUME MemoryInv, NEW row \in table, row.role # "assistant",
                      \A e \in Exchanges :
                         at[e] # "new" /\ ses[e] = row.s /\ stamp[e] = row.ts => at[e] = "done"
               PROVE  FALSE
    BY DEF AnswersSurvive
  <2>1. row.ex \in Exchanges /\ row.role = "user"
    BY DEF MemoryInv, TypeOK, Rows
  <2> QED
    BY <2>1 DEF MemoryInv, RowsOfExchanges
<1> QED
  BY <1>1, MemoryInvariant, PTL

-----------------------------------------------------------------------------
(* The in-memory stores are logs *)

\* What is in a dictionary comes from exchanges that have begun.
LinesBegun ==
    \A p \in Pods, s \in Sessions : \A i \in 1..Len(local[p][s]) :
        at[local[p][s][i].ex] # "new"

LEMMA LinesInit == Init => LinesBegun
  BY DEF Init, NoRows, LinesBegun

LEMMA LinesStep == TypeOK /\ LinesBegun /\ [Next]_vars => LinesBegun'
<1> SUFFICES ASSUME TypeOK, LinesBegun, [Next]_vars,
                    NEW p \in Pods, NEW s \in Sessions, NEW i \in 1..Len(local'[p][s])
             PROVE  at'[local'[p][s][i].ex] # "new"
  BY DEF LinesBegun
<1>1. \A e \in Exchanges : at[e] # "new" => at'[e] # "new"
  BY DEF Next, StartPod, CrashPod, AppendLocally, BeginAppend, InsertMessage, InsertSession,
         InsertFails, Tick, append, vars, TypeOK, Inserting
<1>2. ASSUME NEW q \in Pods, local[q][s] = local'[p][s] PROVE at'[local'[p][s][i].ex] # "new"
  <2>1. local[q][s][i] \in Rows
    BY <1>2 DEF TypeOK
  <2>2. local[q][s][i].ex \in Exchanges
    BY <2>1 DEF Rows
  <2> QED
    BY <1>1, <1>2, <2>2 DEF LinesBegun
<1>3. CASE local' = local
  BY <1>2, <1>3
<1>4. ASSUME NEW q \in Pods, CrashPod(q) PROVE at'[local'[p][s][i].ex] # "new"
  <2>1. CASE p = q
    <3>1. local'[p][s] = <<>>
      BY <1>4, <2>1 DEF CrashPod, NoRows, TypeOK
    <3> QED
      BY <3>1
  <2>2. CASE p # q
    BY <1>2, <1>4, <2>2 DEF CrashPod, TypeOK
  <2> QED
    BY <2>1, <2>2
<1>5. ASSUME NEW e \in Exchanges, AppendLocally(e) PROVE at'[local'[p][s][i].ex] # "new"
  <2>1. CASE p = pod[e] /\ s = ses[e]
    <3>1. local'[p][s] = local[p][s] \o Records(e, s)
      BY <1>5, <2>1 DEF AppendLocally, TypeOK
    <3>2. at'[e] = "done" /\ local[p][s] \in Seq(Rows)
      BY <1>5 DEF AppendLocally, TypeOK
    <3>3. CASE i <= Len(local[p][s])
      <4>1. local'[p][s][i] = local[p][s][i] /\ local[p][s][i] \in Rows
        BY <3>1, <3>2, <3>3 DEF Records
      <4>2. local[p][s][i].ex \in Exchanges
        BY <4>1 DEF Rows
      <4> QED
        BY <1>1, <3>3, <3>2, <4>1, <4>2 DEF LinesBegun
    <3>4. CASE i > Len(local[p][s])
      <4>1. local'[p][s][i].ex = e
        BY <3>1, <3>2, <3>4 DEF Records
      <4> QED
        BY <3>2, <4>1
    <3> QED
      BY <3>2, <3>3, <3>4
  <2>2. CASE ~(p = pod[e] /\ s = ses[e])
    BY <1>2, <1>5, <2>2 DEF AppendLocally, TypeOK
  <2> QED
    BY <2>1, <2>2
<1> QED
  BY <1>3, <1>4, <1>5 DEF Next, StartPod, BeginAppend, InsertMessage, InsertSession,
                          InsertFails, Tick, vars

LEMMA LogOfNone == LogOf(<<>>) = <<>>
  BY DEF LogOf

LEMMA LogOfTyped ==
    ASSUME NEW q \in Seq(Rows)
    PROVE  LogOf(q) \in Seq([ex : Exchanges, role : {"user", "assistant"}]) /\ Len(LogOf(q)) = Len(q)
<1>1. ASSUME NEW i \in 1..Len(q)
      PROVE  [ex |-> q[i].ex, role |-> q[i].role] \in [ex : Exchanges, role : {"user", "assistant"}]
  <2>1. q[i] \in Rows
    OBVIOUS
  <2> QED
    BY <2>1 DEF Rows
<1> QED
  BY <1>1 DEF LogOf

LEMMA LogOfAppend ==
    ASSUME NEW q \in Seq(Rows), NEW e \in Exchanges, NEW s \in Sessions, clock \in Times
    PROVE  LogOf(q \o Records(e, s)) =
              LogOf(q) \o <<LocalLog!Line(e, "user"), LocalLog!Line(e, "assistant")>>
<1> DEFINE Items == [ex : Exchanges, role : {"user", "assistant"}]
           user == [ex |-> e, role |-> "user"]
           assistant == [ex |-> e, role |-> "assistant"]
           new == <<user, assistant>>
           recs == Records(e, s)
           all == q \o recs
<1>0. new = <<LocalLog!Line(e, "user"), LocalLog!Line(e, "assistant")>>
  BY DEF LocalLog!Line
<1>1. user \in Items /\ assistant \in Items
  OBVIOUS
<1>2. new \in Seq(Items) /\ Len(new) = 2 /\ new[1] = user /\ new[2] = assistant
  <2> HIDE DEF user, assistant, Items
  <2> QED
    BY <1>1
<1>3. /\ recs \in Seq(Rows) /\ Len(recs) = 2
      /\ recs[1].ex = e /\ recs[1].role = "user"
      /\ recs[2].ex = e /\ recs[2].role = "assistant"
  <2>1. /\ [s |-> s, ts |-> clock, role |-> "user", ex |-> e] \in Rows
        /\ [s |-> s, ts |-> clock, role |-> "assistant", ex |-> e] \in Rows
    BY DEF Rows
  <2> QED
    BY <2>1 DEF Records
<1> HIDE DEF recs, new
<1>4. /\ all \in Seq(Rows) /\ Len(all) = Len(q) + 2 /\ Len(q) \in Nat
      /\ \A i \in 1..Len(q) : all[i] = q[i]
      /\ all[Len(q) + 1] = recs[1] /\ all[Len(q) + 2] = recs[2]
  <2>1. /\ all \in Seq(Rows) /\ Len(all) = Len(q) + Len(recs)
        /\ \A i \in 1..(Len(q) + Len(recs)) : all[i] = IF i <= Len(q) THEN q[i] ELSE recs[i - Len(q)]
    BY <1>3, ConcatProperties
  <2>2. Len(q) \in Nat
    OBVIOUS
  <2> HIDE DEF all
  <2> QED
    BY <1>3, <2>1, <2>2
<1> HIDE DEF all
<1>5. LogOf(all) \in Seq(Items) /\ Len(LogOf(all)) = Len(q) + 2
  BY <1>4, LogOfTyped
<1>6. LogOf(q) \in Seq(Items) /\ Len(LogOf(q)) = Len(q)
  BY LogOfTyped
<1> HIDE DEF Items
<1>7. /\ LogOf(q) \o new \in Seq(Items) /\ Len(LogOf(q) \o new) = Len(q) + 2
      /\ \A i \in 1..Len(q) : (LogOf(q) \o new)[i] = LogOf(q)[i]
      /\ (LogOf(q) \o new)[Len(q) + 1] = user /\ (LogOf(q) \o new)[Len(q) + 2] = assistant
  <2> HIDE DEF user, assistant
  <2> DEFINE both == LogOf(q) \o new
  <2>1. /\ both \in Seq(Items) /\ Len(both) = Len(q) + 2
        /\ \A i \in 1..(Len(q) + 2) :
              both[i] = IF i <= Len(q) THEN LogOf(q)[i] ELSE new[i - Len(q)]
    <3>1. /\ both \in Seq(Items) /\ Len(both) = Len(LogOf(q)) + Len(new)
          /\ \A i \in 1..(Len(LogOf(q)) + Len(new)) :
                both[i] = IF i <= Len(LogOf(q)) THEN LogOf(q)[i] ELSE new[i - Len(LogOf(q))]
      <4>1. LogOf(q) \in Seq(Items) /\ new \in Seq(Items)
        BY <1>2, <1>6
      <4> QED
        BY <4>1, ConcatProperties
    <3> HIDE DEF both
    <3> QED
      BY <1>2, <1>6, <3>1
  <2> HIDE DEF both
  <2>2. /\ \A i \in 1..Len(q) : both[i] = LogOf(q)[i]
        /\ both[Len(q) + 1] = user /\ both[Len(q) + 2] = assistant
    BY <1>2, <1>4, <2>1
  <2> QED
    BY <2>1, <2>2 DEF both
<1>8. ASSUME NEW i \in 1..(Len(q) + 2) PROVE LogOf(all)[i] = (LogOf(q) \o new)[i]
  <2>1. LogOf(all)[i] = [ex |-> all[i].ex, role |-> all[i].role]
    BY <1>4 DEF LogOf
  <2>2. CASE i \in 1..Len(q)
    <3>1. LogOf(q)[i] = [ex |-> q[i].ex, role |-> q[i].role]
      BY <2>2 DEF LogOf
    <3> QED
      BY <1>4, <1>7, <2>1, <2>2, <3>1
  <2>3. CASE i = Len(q) + 1
    BY <1>3, <1>4, <1>7, <2>1, <2>3
  <2>4. CASE i = Len(q) + 2
    BY <1>3, <1>4, <1>7, <2>1, <2>4
  <2> QED
    <3>1. Len(q) \in Nat
      BY <1>4
    <3>2. i \in 1..Len(q) \/ i = Len(q) + 1 \/ i = Len(q) + 2
      BY <3>1
    <3> QED
      BY <2>2, <2>3, <2>4, <3>2
<1>9. LogOf(all) = LogOf(q) \o new
  BY <1>4, <1>5, <1>7, <1>8, SeqEqual
<1> QED
  BY <1>0, <1>9 DEF all, recs

\* Every step of the stores is one of ChatLog's or leaves the logs alone.
LEMMA LogStep == TypeOK /\ LinesBegun /\ [Next]_vars => [LocalLog!Next]_Logs
<1> SUFFICES ASSUME TypeOK, LinesBegun, [Next]_vars PROVE LocalLog!Next \/ Logs' = Logs
  OBVIOUS
<1>1. CASE UNCHANGED local
  BY <1>1 DEF Logs
<1>2. ASSUME NEW p \in Pods, CrashPod(p) PROVE LocalLog!Lose(p)
  <2> DEFINE none == [s \in Sessions |-> <<>>]
  <2>1. /\ local'[p] = none
        /\ \A q \in Pods \ {p} : local'[q] = local[q]
    BY <1>2 DEF CrashPod, TypeOK, NoRows
  <2>2. [s \in Sessions |-> LogOf(none[s])] = none
    BY LogOfNone
  <2>3. \A q \in Pods : Logs'[q] = IF q = p THEN none ELSE Logs[q]
    BY <2>1, <2>2 DEF Logs
  <2>4. Logs' = [Logs EXCEPT ![p] = none]
    <3> HIDE DEF none
    <3> QED
      BY <2>3 DEF Logs
  <2> QED
    BY <2>4 DEF LocalLog!Lose, LocalLog!EmptyStore
<1>3. ASSUME NEW e \in Exchanges, AppendLocally(e) PROVE LocalLog!AppendExchange(pod[e], ses[e], e)
  <2> DEFINE new == <<LocalLog!Line(e, "user"), LocalLog!Line(e, "assistant")>>
             P == pod[e]
             S == ses[e]
  <2>1. /\ at[e] = "new" /\ P \in Pods /\ S \in Sessions /\ clock \in Times
        /\ local[P][S] \in Seq(Rows)
        /\ local' = [local EXCEPT ![P][S] = @ \o Records(e, S)]
    BY <1>3 DEF AppendLocally, TypeOK
  <2> HIDE DEF new, P, S
  <2>2. LogOf(local[P][S] \o Records(e, S)) = LogOf(local[P][S]) \o new
    BY <2>1, LogOfAppend DEF new
  <2>3. /\ local'[P][S] = local[P][S] \o Records(e, S)
        /\ \A q \in Pods, t \in Sessions : q # P \/ t # S => local'[q][t] = local[q][t]
    BY <2>1 DEF TypeOK
  <2>4. ASSUME NEW q \in Pods, NEW t \in Sessions
        PROVE  Logs'[q][t] = IF q = P /\ t = S THEN Logs[q][t] \o new ELSE Logs[q][t]
    <3>1. Logs'[q][t] = LogOf(local'[q][t]) /\ Logs[q][t] = LogOf(local[q][t])
      BY DEF Logs
    <3>2. CASE q = P /\ t = S
      <4>1. local'[q][t] = local[P][S] \o Records(e, S)
        BY <2>3, <3>2
      <4>2. Logs'[q][t] = LogOf(local[P][S]) \o new
        BY <2>2, <3>1, <4>1
      <4> QED
        BY <3>1, <3>2, <4>2
    <3>3. CASE ~(q = P /\ t = S)
      BY <2>3, <3>1, <3>3
    <3> QED
      BY <3>2, <3>3
  <2>5. Logs' = [Logs EXCEPT ![P][S] = @ \o new]
    <3> DEFINE other == [Logs EXCEPT ![P][S] = @ \o new]
    <3>1. \A q \in Pods, t \in Sessions :
             other[q][t] = IF q = P /\ t = S THEN Logs[q][t] \o new ELSE Logs[q][t]
      BY <2>1 DEF Logs
    <3>2. Logs' = [q \in Pods |-> [t \in Sessions |-> Logs'[q][t]]]
      BY DEF Logs
    <3>3. other = [q \in Pods |-> [t \in Sessions |-> other[q][t]]]
      BY <2>1 DEF Logs
    <3> HIDE DEF other
    <3>4. \A q \in Pods, t \in Sessions : Logs'[q][t] = other[q][t]
      BY <2>4, <3>1
    <3>5. [q \in Pods |-> [t \in Sessions |-> Logs'[q][t]]]
             = [q \in Pods |-> [t \in Sessions |-> other[q][t]]]
      BY <3>4
    <3> QED
      BY <3>2, <3>3, <3>5 DEF other
  <2>6. ASSUME NEW q \in Pods, NEW t \in Sessions, NEW l \in LocalLog!Lines(q, t)
        PROVE  l.ex # e
    <3>1. local[q][t] \in Seq(Rows) /\ Logs[q][t] = LogOf(local[q][t])
      BY DEF TypeOK, Logs
    <3>2. PICK i \in 1..Len(local[q][t]) : l = LogOf(local[q][t])[i]
      BY <3>1, LogOfTyped DEF LocalLog!Lines
    <3>3. l.ex = local[q][t][i].ex
      BY <3>2 DEF LogOf
    <3> QED
      BY <2>1, <3>3 DEF LinesBegun
  <2> QED
    BY <2>5, <2>6 DEF LocalLog!AppendExchange, new, P, S
<1>4. ASSUME NEW e \in Exchanges, AppendLocally(e) PROVE LocalLog!Next
  <2>1. pod[e] \in Pods /\ ses[e] \in Sessions
    BY DEF TypeOK
  <2> QED
    BY <1>3, <1>4, <2>1 DEF LocalLog!Next
<1>5. ASSUME NEW p \in Pods, CrashPod(p) PROVE LocalLog!Next
  BY <1>2, <1>5 DEF LocalLog!Next
<1> QED
  BY <1>1, <1>4, <1>5 DEF Next, StartPod, BeginAppend, InsertMessage, InsertSession,
                          InsertFails, Tick, vars

\* The dictionaries of the pods implement ChatLog: an exchange enters a session's
\* log once and whole, the question before its answer, and nothing leaves a log
\* but by the restart that empties the pod's store (in_memory_store.py).
THEOREM LogImplemented == Spec => LocalRefinesLog
<1>1. Init => LocalLog!Init
  <2> SUFFICES ASSUME Init PROVE Logs = [p \in Pods |-> LocalLog!EmptyStore]
    BY DEF LocalLog!Init
  <2>1. \A p \in Pods, s \in Sessions : LogOf(local[p][s]) = <<>>
    BY LogOfNone DEF Init, NoRows
  <2> QED
    BY <2>1 DEF Logs, LocalLog!EmptyStore
<1>2. MemoryInv /\ LinesBegun /\ [Next]_vars => LinesBegun'
  BY LinesStep DEF MemoryInv
<1>3. MemoryInv /\ LinesBegun /\ [Next]_vars => [LocalLog!Next]_Logs
  BY LogStep DEF MemoryInv
<1> QED
  BY <1>1, <1>2, <1>3, LinesInit, MemoryInvariant, PTL DEF Spec, LocalRefinesLog, LocalLog!Spec

-----------------------------------------------------------------------------
(* What is read back from the dictionaries *)

\* The rows of a session are as old as their place says, and none is of the future.
RowsInOrder ==
    \A p \in Pods, s \in Sessions : \A i \in 1..Len(local[p][s]) :
        /\ local[p][s][i].ts <= clock
        /\ \A j \in 1..Len(local[p][s]) : i <= j => local[p][s][i].ts <= local[p][s][j].ts

\* q lists the sessions that have rows in d, each once, in the order in which they
\* began.
KeysOf(q, d) ==
    /\ \A s \in Sessions : d[s] # <<>> => \E i \in 1..Len(q) : q[i] = s
    /\ \A i \in 1..Len(q) : d[q[i]] # <<>>
    /\ \A i, j \in 1..Len(q) : i < j => q[i] # q[j] /\ d[q[i]][1].ts <= d[q[j]][1].ts

KeysInOrder == \A p \in Pods : KeysOf(keys[p], local[p])

\* What a step does to the dictionaries.
LEMMA StoreSteps ==
    ASSUME TypeOK, [Next]_vars
    PROVE  \/ UNCHANGED <<local, keys>> /\ clock' \in {clock, clock + 1}
           \/ /\ clock' = clock
              /\ \E p \in Pods : /\ local' = [local EXCEPT ![p] = NoRows]
                                 /\ keys' = [keys EXCEPT ![p] = <<>>]
           \/ /\ clock' = clock
              /\ \E e \in Exchanges : AppendLocally(e)
<1>1. ASSUME NEW p \in Pods, CrashPod(p)
      PROVE  /\ clock' = clock
             /\ local' = [local EXCEPT ![p] = NoRows] /\ keys' = [keys EXCEPT ![p] = <<>>]
  BY <1>1 DEF CrashPod
<1>2. ASSUME NEW e \in Exchanges, AppendLocally(e) PROVE clock' = clock
  BY <1>2 DEF AppendLocally
<1>3. CASE \/ \E p \in Pods : StartPod(p)
           \/ \E e \in Exchanges :
                 BeginAppend(e) \/ InsertMessage(e) \/ InsertSession(e) \/ InsertFails(e)
           \/ Tick \/ UNCHANGED vars
  BY <1>3 DEF StartPod, BeginAppend, InsertMessage, InsertSession, InsertFails, Tick, vars
<1> QED
  BY <1>1, <1>2, <1>3 DEF Next

\* Where AppendLocally puts its two rows.
LEMMA TwoRowsMore ==
    ASSUME TypeOK, NEW e \in Exchanges, AppendLocally(e)
    PROVE  LET P == pod[e]  S == ses[e]  n == Len(local[P][S])
           IN  /\ P \in Pods /\ S \in Sessions /\ n \in Nat
               /\ Len(local'[P][S]) = n + 2
               /\ \A i \in 1..n : local'[P][S][i] = local[P][S][i]
               /\ local'[P][S][n + 1].ts = clock /\ local'[P][S][n + 2].ts = clock
               /\ \A p \in Pods, s \in Sessions : p # P \/ s # S => local'[p][s] = local[p][s]
<1> DEFINE P == pod[e]
           S == ses[e]
           q == local[P][S]
           recs == Records(e, S)
<1>1. P \in Pods /\ S \in Sessions /\ q \in Seq(Rows) /\ recs \in Seq(Rows)
  BY RecordsTyped DEF TypeOK
<1>2. Len(recs) = 2 /\ recs[1].ts = clock /\ recs[2].ts = clock
  BY DEF Records
<1>3. local' = [local EXCEPT ![P][S] = q \o recs]
  BY <1>1 DEF AppendLocally, TypeOK
<1> HIDE DEF P, S, recs
<1>4. /\ local'[P][S] = q \o recs
      /\ \A p \in Pods, s \in Sessions : p # P \/ s # S => local'[p][s] = local[p][s]
  BY <1>1, <1>3 DEF TypeOK
<1> HIDE DEF q
<1>5. /\ Len(q \o recs) = Len(q) + Len(recs) /\ Len(q) \in Nat
      /\ \A i \in 1..(Len(q) + Len(recs)) :
            (q \o recs)[i] = IF i <= Len(q) THEN q[i] ELSE recs[i - Len(q)]
  BY <1>1, ConcatProperties
<1>6. /\ Len(q \o recs) = Len(q) + 2
      /\ \A i \in 1..Len(q) : (q \o recs)[i] = q[i]
      /\ (q \o recs)[Len(q) + 1] = recs[1] /\ (q \o recs)[Len(q) + 2] = recs[2]
  <2> DEFINE all == q \o recs
  <2> HIDE DEF all
  <2> QED
    BY <1>2, <1>5 DEF all
<1> QED
  BY <1>1, <1>2, <1>4, <1>5, <1>6 DEF P, S, q

LEMMA TimesTyped ==
    ASSUME TypeOK, NEW p \in Pods, NEW s \in Sessions, NEW i \in 1..Len(local[p][s])
    PROVE  local[p][s][i].ts \in Int
<1>1. local[p][s][i] \in Rows
  BY DEF TypeOK
<1> QED
  BY <1>1, BackendsAssumption DEF Rows, Times

LEMMA OrderStep == TypeOK /\ RowsInOrder /\ [Next]_vars => RowsInOrder'
<1> SUFFICES ASSUME TypeOK, RowsInOrder, [Next]_vars,
                    NEW p \in Pods, NEW s \in Sessions, NEW i \in 1..Len(local'[p][s])
             PROVE  /\ local'[p][s][i].ts <= clock'
                    /\ \A j \in 1..Len(local'[p][s]) :
                          i <= j => local'[p][s][i].ts <= local'[p][s][j].ts
  BY DEF RowsInOrder
<1>1. clock \in Int /\ clock' \in {clock, clock + 1}
  BY StoreSteps, BackendsAssumption DEF TypeOK, Times
<1>2. CASE local'[p][s] = local[p][s]
  BY <1>1, <1>2, TimesTyped DEF RowsInOrder
<1>3. CASE local'[p][s] = <<>>
  BY <1>3
<1>4. ASSUME NEW e \in Exchanges, AppendLocally(e), p = pod[e], s = ses[e], clock' = clock
      PROVE  /\ local'[p][s][i].ts <= clock'
             /\ \A j \in 1..Len(local'[p][s]) :
                   i <= j => local'[p][s][i].ts <= local'[p][s][j].ts
  <2> DEFINE n == Len(local[p][s])
             T(j) == local'[p][s][j].ts
  <2>1. /\ n \in Nat /\ Len(local'[p][s]) = n + 2
        /\ \A j \in 1..n : T(j) = local[p][s][j].ts
        /\ T(n + 1) = clock /\ T(n + 2) = clock
    BY <1>4, TwoRowsMore
  <2>2. \A j \in 1..n : T(j) \in Int /\ T(j) <= clock /\ \A k \in 1..n : j <= k => T(j) <= T(k)
    BY <2>1, TimesTyped DEF RowsInOrder
  <2> HIDE DEF T, n
  <2>3. ASSUME NEW j \in 1..(n + 2) PROVE j \in 1..n \/ j = n + 1 \/ j = n + 2
    BY <2>1
  <2>4. T(i) <= clock /\ \A j \in 1..(n + 2) : i <= j => T(i) <= T(j)
    <3>1. i \in 1..(n + 2)
      BY <2>1
    <3> QED
      BY <1>1, <2>1, <2>2, <2>3, <3>1
  <2> QED
    BY <1>4, <2>1, <2>4 DEF T
<1>5. ASSUME NEW q \in Pods, local' = [local EXCEPT ![q] = NoRows]
      PROVE  local'[p][s] = <<>> \/ local'[p][s] = local[p][s]
  BY <1>5 DEF NoRows, TypeOK
<1>6. ASSUME NEW e \in Exchanges, AppendLocally(e)
      PROVE  (p = pod[e] /\ s = ses[e]) \/ local'[p][s] = local[p][s]
  BY <1>6, TwoRowsMore
<1> QED
  BY <1>2, <1>3, <1>4, <1>5, <1>6, StoreSteps

LEMMA KeysStep == TypeOK /\ RowsInOrder /\ KeysInOrder /\ [Next]_vars => KeysInOrder'
<1> SUFFICES ASSUME TypeOK, RowsInOrder, KeysInOrder, [Next]_vars, NEW p \in Pods
             PROVE  KeysOf(keys'[p], local'[p])
  BY DEF KeysInOrder
<1>1. KeysOf(keys[p], local[p]) /\ keys[p] \in Seq(Sessions)
  BY DEF KeysInOrder, TypeOK
<1>2. CASE UNCHANGED <<local, keys>>
  BY <1>1, <1>2
<1>3. ASSUME NEW q \in Pods, local' = [local EXCEPT ![q] = NoRows], keys' = [keys EXCEPT ![q] = <<>>]
      PROVE  KeysOf(keys'[p], local'[p])
  <2>1. CASE p = q
    <3>1. local'[p] = NoRows /\ keys'[p] = <<>>
      BY <1>3, <2>1 DEF TypeOK
    <3> QED
      BY <3>1 DEF KeysOf, NoRows
  <2>2. CASE p # q
    BY <1>1, <1>3, <2>2 DEF TypeOK
  <2> QED
    BY <2>1, <2>2
<1>4. ASSUME NEW e \in Exchanges, AppendLocally(e) PROVE KeysOf(keys'[p], local'[p])
  <2> DEFINE S == ses[e]
             n == Len(local[p][S])
             k == keys[p]
             d == local[p]
             c == local'[p]
  <2>1. CASE p # pod[e]
    <3>1. keys'[p] = keys[p] /\ local'[p] = local[p]
      BY <1>4, <2>1 DEF AppendLocally, AddKey, TypeOK
    <3> QED
      BY <1>1, <3>1
  <2>2. CASE p = pod[e]
    <3>1. /\ S \in Sessions /\ n \in Nat /\ Len(c[S]) = n + 2
          /\ \A i \in 1..n : c[S][i] = d[S][i]
          /\ c[S][n + 1].ts = clock
          /\ \A s \in Sessions : s # S => c[s] = d[s]
      BY <1>4, <2>2, TwoRowsMore
    <3>2. keys'[p] = IF Contains(k, S) THEN k ELSE Append(k, S)
      BY <1>4, <2>2 DEF AppendLocally, AddKey, TypeOK
    <3>3. d[S] = <<>> <=> n = 0
      <4>1. d[S] \in Seq(Rows)
        BY <3>1 DEF TypeOK
      <4> QED
        BY <4>1, EmptySeq
    <3>4. c[S] # <<>>
      BY <3>1
    <3>5. /\ \A s \in Sessions : d[s] # <<>> => \E i \in 1..Len(k) : k[i] = s
          /\ \A i \in 1..Len(k) : k[i] \in Sessions /\ d[k[i]] # <<>>
          /\ \A i, j \in 1..Len(k) : i < j => k[i] # k[j] /\ d[k[i]][1].ts <= d[k[j]][1].ts
      BY <1>1 DEF KeysOf
    <3>6. \A s \in Sessions : d[s] # <<>> => d[s][1].ts <= clock
      <4>1. ASSUME NEW s \in Sessions, d[s] # <<>> PROVE 1 \in 1..Len(d[s])
        BY <4>1 DEF TypeOK
      <4> QED
        BY <4>1 DEF RowsInOrder
    <3>7. k \in Seq(Sessions)
      BY <1>1
    <3> HIDE DEF S, n, k, d, c
    <3>8. CASE Contains(k, S)
      <4>1. d[S] # <<>>
        BY <3>5, <3>8 DEF Contains
      <4>2. c[S][1] = d[S][1]
        BY <3>1, <3>3, <4>1
      <4>3. /\ \A s \in Sessions : c[s] # <<>> => d[s] # <<>>
            /\ \A s \in Sessions : d[s] # <<>> => c[s] # <<>> /\ c[s][1] = d[s][1]
        BY <3>1, <3>4, <4>1, <4>2
      <4>4. KeysOf(k, c)
        BY <3>5, <4>3 DEF KeysOf
      <4> QED
        BY <3>2, <3>8, <4>4 DEF c
    <3>9. CASE ~Contains(k, S)
      <4> DEFINE a == Append(k, S)
      <4>1. n = 0
        BY <3>1, <3>3, <3>5, <3>9 DEF Contains
      <4>2. c[S][1].ts = clock
        BY <3>1, <4>1
      <4>3. /\ Len(a) = Len(k) + 1 /\ Len(k) \in Nat
            /\ \A i \in 1..Len(k) : a[i] = k[i]
            /\ a[Len(k) + 1] = S
        BY <3>1, <3>7
      <4> HIDE DEF a
      <4>4. \A i \in 1..Len(k) : a[i] # S /\ c[a[i]] = d[k[i]] /\ c[a[i]] # <<>>
                                 /\ c[a[i]][1].ts <= clock
        BY <3>1, <3>5, <3>6, <3>9, <4>3 DEF Contains
      <4>5. ASSUME NEW s \in Sessions, c[s] # <<>> PROVE \E i \in 1..Len(a) : a[i] = s
        <5>1. CASE s = S
          BY <4>3, <5>1
        <5>2. CASE s # S
          BY <3>1, <3>5, <4>3, <4>5, <5>2
        <5> QED
          BY <5>1, <5>2
      <4>6. \A i \in 1..Len(a) : i \in 1..Len(k) \/ i = Len(k) + 1
        BY <4>3
      <4>7. \A i \in 1..Len(a) : c[a[i]] # <<>>
        BY <3>4, <4>3, <4>4, <4>6
      <4>8. ASSUME NEW i \in 1..Len(a), NEW j \in 1..Len(a), i < j
            PROVE  a[i] # a[j] /\ c[a[i]][1].ts <= c[a[j]][1].ts
        <5>1. i \in 1..Len(k)
          BY <4>3, <4>8
        <5>2. CASE j \in 1..Len(k)
          BY <3>5, <4>3, <4>4, <4>8, <5>1, <5>2
        <5>3. CASE j = Len(k) + 1
          BY <4>2, <4>3, <4>4, <5>1, <5>3
        <5> QED
          BY <4>6, <5>2, <5>3
      <4>9. KeysOf(a, c)
        BY <4>5, <4>7, <4>8 DEF KeysOf
      <4> QED
        BY <3>2, <3>9, <4>9 DEF c, a
    <3> QED
      BY <3>8, <3>9
  <2> QED
    BY <2>1, <2>2
<1> QED
  BY <1>2, <1>3, <1>4, StoreSteps

StoreInv == TypeOK /\ RowsInOrder /\ KeysInOrder

LEMMA StoreInvariant == Spec => []StoreInv
<1>1. Init => RowsInOrder /\ KeysInOrder
  BY DEF Init, NoRows, RowsInOrder, KeysInOrder, KeysOf
<1>2. MemoryInv /\ RowsInOrder /\ KeysInOrder /\ [Next]_vars => RowsInOrder' /\ KeysInOrder'
  BY OrderStep, KeysStep DEF MemoryInv
<1>3. MemoryInv /\ RowsInOrder /\ KeysInOrder => StoreInv
  BY DEF MemoryInv, StoreInv
<1> QED
  BY <1>1, <1>2, <1>3, MemoryInvariant, PTL DEF Spec

\* In a list in order, an item's place is the number of items that do not come
\* after it.
LEMMA PlaceInOrder ==
    ASSUME StoreInv, NEW p \in Pods, NEW s \in Sessions, NEW i \in 1..Len(local[p][s])
    PROVE  LET items == local[p][s]
           IN  Cardinality({j \in DOMAIN items : \/ items[j].ts < items[i].ts
                                                 \/ items[j].ts = items[i].ts /\ j <= i}) = i
<1> DEFINE items == local[p][s]
           UpTo == {j \in DOMAIN items : \/ items[j].ts < items[i].ts
                                         \/ items[j].ts = items[i].ts /\ j <= i}
<1>1. DOMAIN items = 1..Len(items) /\ Len(items) \in Nat
  BY DEF StoreInv, TypeOK
<1>2. \A j \in 1..Len(items) : items[j].ts \in Int
  BY TimesTyped DEF StoreInv
<1>3. \A j, k \in 1..Len(items) : j <= k => items[j].ts <= items[k].ts
  BY DEF StoreInv, RowsInOrder
<1> HIDE DEF items
<1>4. ASSUME NEW j \in 1..Len(items)
      PROVE  (items[j].ts < items[i].ts \/ (items[j].ts = items[i].ts /\ j <= i)) <=> j <= i
  <2>1. i \in 1..Len(items)
    BY DEF items
  <2>2. CASE j <= i
    BY <1>2, <1>3, <2>1, <2>2
  <2>3. CASE i <= j /\ i # j
    BY <1>2, <1>3, <2>1, <2>3
  <2> QED
    BY <1>1, <2>1, <2>2, <2>3
<1>5. UpTo = 1..i
  <2>1. i \in 1..Len(items)
    BY DEF items
  <2>2. UpTo = {j \in 1..Len(items) : j <= i}
    BY <1>1, <1>4
  <2> QED
    BY <1>1, <2>1, <2>2
<1>6. Cardinality(1..i) = i
  BY <1>1, FS_Interval
<1> QED
  BY <1>5, <1>6 DEF items

\* LocalReadsInOrder for every limit.
ReadsOfAnyLength ==
    \A p \in Pods, s \in Sessions, n \in Nat \ {0} :
        backend[p] = "memory" => SessionMessages(p, s, n) = LastN(local[p][s], n)

\* A read from a dictionary returns the rows in the order in which they were
\* appended, the question before its answer (get_recent_messages of
\* InMemoryChatMemoryStore, a stable sort by the one timestamp of both).
THEOREM ReadsInOrder == Spec => [](LocalReadsInOrder /\ ReadsOfAnyLength)
<1>1. StoreInv => ReadsOfAnyLength
  <2> SUFFICES ASSUME StoreInv, NEW p \in Pods, NEW s \in Sessions, NEW n \in Nat \ {0}
               PROVE  RecentLocal(p, s, n) = LastN(local[p][s], n)
    BY DEF ReadsOfAnyLength, SessionMessages
  <2> DEFINE items == local[p][s]
             UpTo(i) == {j \in DOMAIN items : \/ items[j].ts < items[i].ts
                                              \/ items[j].ts = items[i].ts /\ j <= i}
             sorted == [k \in DOMAIN items |->
                           items[CHOOSE i \in DOMAIN items : Cardinality(UpTo(i)) = k]]
  <2>1. items \in Seq(Rows) /\ DOMAIN items = 1..Len(items)
    BY DEF StoreInv, TypeOK
  <2>2. \A i \in DOMAIN items : Cardinality(UpTo(i)) = i
    BY <2>1, PlaceInOrder
  <2> HIDE DEF UpTo
  <2>3. \A k \in DOMAIN items : (CHOOSE i \in DOMAIN items : Cardinality(UpTo(i)) = k) = k
    BY <2>2
  <2>4. sorted = items
    <3>1. items = [k \in DOMAIN items |-> items[k]]
      BY <2>1
    <3> QED
      BY <2>3, <3>1
  <2>5. RecentLocal(p, s, n) = LastN(sorted, n)
    BY DEF RecentLocal, UpTo
  <2> QED
    BY <2>4, <2>5
<1>2. ReadsOfAnyLength => LocalReadsInOrder
  BY DEF ReadsOfAnyLength, LocalReadsInOrder
<1> QED
  BY <1>1, <1>2, StoreInvariant, PTL

\* As many sessions as there are places in the list of keys.
LEMMA ImageSize ==
    ASSUME NEW q, NEW I, IsFiniteSet(I), \A i, j \in I : q[i] = q[j] => i = j
    PROVE  LET K == {q[i] : i \in I}
           IN  IsFiniteSet(K) /\ Cardinality(K) = Cardinality(I)
<1> DEFINE K == {q[i] : i \in I}
           f == [i \in I |-> q[i]]
<1>1. f \in Surjection(I, K)
  BY DEF Surjection
<1>2. f \in Injection(I, K)
  BY DEF Injection, IsInjective
<1> QED
  BY <1>1, <1>2, FS_Surjection

\* ListedUnlessCrowdedOut for every limit.
ListsOfAnyLength ==
    \A p \in Pods, mine \in SUBSET Sessions, n \in Nat \ {0} :
        backend[p] = "memory" =>
            \A s \in mine :
                local[p][s] # <<>> =>
                    \/ s \in ListSessions(p, mine, n)
                    \/ Cardinality({o \in Sessions \ {s} :
                          local[p][o] # <<>> /\ local[p][o][1].ts >= local[p][s][1].ts}) >= n

\* A user finds a session in the list of n until n sessions of whatever users have
\* begun after it, however often it or they are written to (list_sessions of
\* InMemoryChatMemoryStore, whose keys keep their places).  This is what the code
\* does; the order by updated_at that the interface documents is not kept.
THEOREM NewestAreListed == Spec => [](ListedUnlessCrowdedOut /\ ListsOfAnyLength)
<1>1. StoreInv => ListsOfAnyLength
  <2> SUFFICES ASSUME StoreInv, NEW p \in Pods, NEW mine \in SUBSET Sessions,
                      NEW n \in Nat \ {0},
                      backend[p] = "memory", NEW s \in mine, local[p][s] # <<>>,
                      s \notin ListSessions(p, mine, n)
               PROVE  Cardinality({o \in Sessions \ {s} :
                         local[p][o] # <<>> /\ local[p][o][1].ts >= local[p][s][1].ts}) >= n
    BY DEF ListsOfAnyLength
  <2> DEFINE k == keys[p]
             after == {o \in Sessions \ {s} :
                         local[p][o] # <<>> /\ local[p][o][1].ts >= local[p][s][1].ts}
  <2>1. k \in Seq(Sessions) /\ Len(k) \in Nat /\ KeysOf(k, local[p])
    BY DEF StoreInv, TypeOK, KeysInOrder
  <2>2. PICK i \in 1..Len(k) : k[i] = s
    BY <2>1 DEF KeysOf
  <2>2a. n \in Nat /\ n >= 1 /\ i \in Nat /\ 1 <= i /\ i <= Len(k)
    BY <2>1
  <2>3. s \notin Range(LastN(k, n))
    BY DEF ListSessions, NewestKeys
  <2> HIDE DEF k
  <2>4. Len(k) > n /\ i <= Len(k) - n
    <3>1. CASE Len(k) <= n
      BY <2>1, <2>2, <2>3, <3>1 DEF LastN, Range
    <3>2. CASE Len(k) > n /\ i > Len(k) - n
      <4> DEFINE q == SubSeq(k, Len(k) - n + 1, Len(k))
                 j == i - (Len(k) - n)
      <4>1. /\ q \in Seq(Sessions) /\ Len(q) = n /\ DOMAIN q = 1..n
            /\ \A m \in 1..n : q[m] = k[Len(k) - n + m]
        BY <2>2a, <2>1, <3>2, SubSeqProperties
      <4>2. j \in 1..n /\ Len(k) - n + j = i
        BY <2>2a, <2>1, <3>2
      <4>3. LastN(k, n) = q
        BY <2>1, <3>2 DEF LastN
      <4> HIDE DEF q, j
      <4>4. q[j] = s /\ j \in DOMAIN q
        BY <2>2, <4>1, <4>2
      <4> QED
        BY <2>3, <4>3, <4>4 DEF Range
    <3> QED
      BY <2>1, <3>1, <3>2
  <2> DEFINE All == {k[m] : m \in 1..Len(k)}
             Later == {k[m] : m \in (i + 1)..Len(k)}
  <2>5. \A m, l \in 1..Len(k) : k[m] = k[l] => m = l
    BY <2>1 DEF KeysOf
  <2>6. IsFiniteSet(All)
    <3>1. IsFiniteSet(1..Len(k))
      BY <2>1, FS_Interval
    <3> QED
      BY <2>5, <3>1, ImageSize
  <2>7. IsFiniteSet(Later) /\ Cardinality(Later) = Len(k) - i
    <3>1. IsFiniteSet((i + 1)..Len(k)) /\ Cardinality((i + 1)..Len(k)) = Len(k) - i
      <4>1. i + 1 \in Int /\ Len(k) \in Int /\ ~(i + 1 > Len(k))
        BY <2>2a, <2>1, <2>4
      <4> QED
        BY <2>2a, <2>1, <4>1, FS_Interval
    <3>2. \A m, l \in (i + 1)..Len(k) : k[m] = k[l] => m = l
      BY <2>1, <2>5
    <3> DEFINE I == (i + 1)..Len(k)
    <3> HIDE DEF I
    <3>3. IsFiniteSet({k[m] : m \in I}) /\ Cardinality({k[m] : m \in I}) = Cardinality(I)
      <4>1. IsFiniteSet(I) /\ \A m, l \in I : k[m] = k[l] => m = l
        BY <3>1, <3>2 DEF I
      <4> QED
        BY <4>1, ImageSize
    <3> QED
      BY <3>1, <3>3 DEF I
  <2>8. after \subseteq All
    BY <2>1 DEF KeysOf
  <2>9. Later \subseteq after
    <3> SUFFICES ASSUME NEW m \in (i + 1)..Len(k)
                 PROVE  /\ k[m] \in Sessions \ {s} /\ local[p][k[m]] # <<>>
                        /\ local[p][k[m]][1].ts >= local[p][s][1].ts
      OBVIOUS
    <3>1. m \in 1..Len(k) /\ i < m
      BY <2>1
    <3>2. k[m] \in Sessions /\ k[m] # s /\ local[p][k[m]] # <<>>
      BY <2>1, <2>2, <3>1 DEF KeysOf
    <3>3. local[p][s][1].ts <= local[p][k[m]][1].ts
      BY <2>1, <2>2, <3>1 DEF KeysOf
    <3>4. /\ 1 \in 1..Len(local[p][s]) /\ 1 \in 1..Len(local[p][k[m]])
      BY <3>2 DEF StoreInv, TypeOK
    <3>5. local[p][s][1].ts \in Int /\ local[p][k[m]][1].ts \in Int
      BY <3>2, <3>4, TimesTyped DEF StoreInv
    <3> QED
      BY <3>2, <3>3, <3>5
  <2>10. IsFiniteSet(after)
    BY <2>6, <2>8, FS_Subset
  <2>11. Cardinality(Later) <= Cardinality(after) /\ Cardinality(after) \in Nat
    BY <2>9, <2>10, FS_Subset, FS_CardinalityType
  <2> HIDE DEF after, Later
  <2> QED
    BY <2>1, <2>4, <2>7, <2>11 DEF after
<1>2. ListsOfAnyLength => ListedUnlessCrowdedOut
  BY DEF ListsOfAnyLength, ListedUnlessCrowdedOut
<1> QED
  BY <1>1, <1>2, StoreInvariant, PTL
===============================================================================
