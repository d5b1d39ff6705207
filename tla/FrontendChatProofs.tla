--------------------------- MODULE FrontendChatProofs ---------------------------
(***************************************************************************)
(* Theorems about the chat page, for any number of sessions, questions,    *)
(* history loads and sockets.                                              *)
(***************************************************************************)
EXTENDS FrontendChat, SequenceTheorems, TLAPS

(* Types *)

States == {"connecting", "open", "closing", "closed"}
Ends == {"none", "up", "ended"}

LEMMA QuestionTyped ==
    ASSUME TypeOK, activeId # NoSession, asked < MaxAsked
    PROVE  Question \in Exchanges /\ asked + 1 \in 0..MaxAsked
  BY PageAssumption DEF TypeOK, Question, Exchanges

LEMMA RowsTyped ==
    ASSUME NEW h \in Seq(Exchanges)
    PROVE  Rows(h) \in Seq(Messages)
<1>1. ASSUME NEW i \in 1..(2 * Len(h))
      PROVE  <<IF i % 2 = 1 THEN "user" ELSE "agent", h[(i + 1) \div 2]>> \in Messages
  <2>1. (i + 1) \div 2 \in 1..Len(h)
    OBVIOUS
  <2>2. h[(i + 1) \div 2] \in Exchanges
    BY <2>1
  <2> QED
    BY <2>2 DEF Messages
<1>2. 2 * Len(h) \in Nat
  OBVIOUS
<1> QED
  BY <1>1, <1>2 DEF Rows

LEMMA AnswersTyped ==
    ASSUME NEW h \in Seq(Exchanges)
    PROVE  Answers(h) \in Seq(Messages)
<1>1. ASSUME NEW i \in 1..Len(h) PROVE <<"agent", h[i]>> \in Messages
  <2>1. h[i] \in Exchanges
    OBVIOUS
  <2> QED
    BY <2>1 DEF Messages
<1>2. Len(h) \in Nat
  OBVIOUS
<1> QED
  BY <1>1, <1>2 DEF Answers

\* A reply is made of a part of the history, both rows of each exchange in it or
\* the answers only.
LEMMA ReplyParts ==
    ASSUME TypeOK, NEW h \in Seq(Exchanges)
    PROVE  \E g \in Seq(Exchanges) :
              /\ \A j \in DOMAIN g : \E n \in DOMAIN h : g[j] = h[n]
              /\ \/ Reply(h) = Rows(g)
                 \/ backend = "cassandra" /\ Reply(h) = Answers(g)
<1> DEFINE n == Len(h)
           a == IF n > Page THEN n - Page + 1 ELSE 1
           b == IF n > 2 * Page THEN 2 * Page ELSE n
<1>1. n \in Nat /\ a \in 1..(n + 1) /\ b \in 0..n
  BY PageAssumption
<1>2. Reply(h) = IF backend = "memory" THEN Rows(SubSeq(h, a, n)) ELSE Answers(SubSeq(h, 1, b))
  BY DEF Reply
<1> HIDE DEF a, b
<1>3. SubSeq(h, a, n) \in Seq(Exchanges) /\ SubSeq(h, 1, b) \in Seq(Exchanges)
  BY <1>1
<1>4. \A j \in DOMAIN SubSeq(h, a, n) : \E i \in DOMAIN h : SubSeq(h, a, n)[j] = h[i]
  <2> SUFFICES ASSUME NEW j \in DOMAIN SubSeq(h, a, n)
               PROVE  \E i \in DOMAIN h : SubSeq(h, a, n)[j] = h[i]
    OBVIOUS
  <2>1. a + j - 1 \in DOMAIN h /\ SubSeq(h, a, n)[j] = h[a + j - 1]
    BY <1>1
  <2> QED
    BY <2>1
<1>5. \A j \in DOMAIN SubSeq(h, 1, b) : \E i \in DOMAIN h : SubSeq(h, 1, b)[j] = h[i]
  <2> SUFFICES ASSUME NEW j \in DOMAIN SubSeq(h, 1, b)
               PROVE  \E i \in DOMAIN h : SubSeq(h, 1, b)[j] = h[i]
    OBVIOUS
  <2>1. j \in DOMAIN h /\ SubSeq(h, 1, b)[j] = h[j]
    BY <1>1
  <2> QED
    BY <2>1
<1>6. CASE backend = "memory"
  <2>1. Reply(h) = Rows(SubSeq(h, a, n))
    BY <1>2, <1>6
  <2> QED
    BY <1>3, <1>4, <2>1
<1>7. CASE backend = "cassandra"
  <2>1. Reply(h) = Answers(SubSeq(h, 1, b))
    BY <1>2, <1>7
  <2> QED
    BY <1>3, <1>5, <1>7, <2>1
<1> QED
  BY <1>6, <1>7 DEF TypeOK

LEMMA SocketFields ==
    ASSUME NEW c \in Sockets
    PROVE  /\ c.of \in Sessions /\ c.first \in Exchanges /\ c.state \in States
           /\ c.server \in Ends /\ c.asks \in Seq(Exchanges)
           /\ c.frames \in Seq(Frames) /\ c.said \in BOOLEAN
  BY DEF Sockets, States, Ends

LEMMA NewSocketTyped ==
    ASSUME NEW s \in Sessions, NEW x \in Exchanges
    PROVE  NewSocket(s, x) \in Sockets
  BY DEF NewSocket, Sockets

\* The sockets remain sockets when one is changed into one, or one is added.
LEMMA SocketsReplaced ==
    ASSUME NEW q \in Seq(Sockets), NEW k \in DOMAIN q, NEW c \in Sockets
    PROVE  [q EXCEPT ![k] = c] \in Seq(Sockets) /\ Len([q EXCEPT ![k] = c]) = Len(q)
  OBVIOUS

LEMMA SocketsTyped ==
    ASSUME TypeOK, NEW k \in DOMAIN sockets
    PROVE  sockets[k] \in Sockets
  BY DEF TypeOK

LEMMA TypeInit == Init => TypeOK
<1> SUFFICES ASSUME Init PROVE TypeOK
  OBVIOUS
<1>1. saved \in [Sessions -> Seq(Exchanges)]
  <2>1. ASSUME NEW s \in Sessions PROVE saved[s] \in Seq(Exchanges)
    <3>1. <<s, 0>> \in Exchanges
      BY PageAssumption DEF Exchanges
    <3>2. <<<<s, 0>>>> \in Seq(Exchanges) /\ <<>> \in Seq(Exchanges)
      <4> DEFINE x == <<s, 0>>
      <4> HIDE DEF x
      <4> QED
        BY <3>1 DEF x
    <3> QED
      BY <3>2 DEF Init
  <2>2. saved = [s \in Sessions |-> saved[s]]
    BY DEF Init
  <2> QED
    BY <2>1, <2>2
<1>2. /\ messages = <<>> /\ loads = <<>> /\ streamContent = <<>> /\ sockets = <<>> 
      /\ slips = {} /\ sessionIds = {} /\ asked = 0 /\ wsRef = 0
  BY DEF Init
<1>3. asked \in 0..MaxAsked /\ wsRef \in 0..Len(sockets)
  BY <1>2, PageAssumption
<1>4. /\ messages \in Seq(Messages) /\ loads \in Seq(Loads) /\ streamContent \in Seq(Exchanges)
      /\ sockets \in Seq(Sockets)
  BY <1>2
<1>5. /\ mounted \in BOOLEAN /\ listed \in BOOLEAN /\ streaming \in BOOLEAN
      /\ activeId \in Sessions \cup {NoSession} /\ (listed => activeId # NoSession)
      /\ backend \in {"cassandra", "memory"}
  BY DEF Init
<1> QED
  BY <1>1, <1>2, <1>3, <1>4, <1>5 DEF TypeOK

LEMMA LoadTyped ==
    ASSUME TypeOK, NEW s \in Sessions, Load(s)
    PROVE  loads' \in Seq(Loads)
<1>1. [of |-> s, from |-> Len(saved[s]), pending |-> TRUE] \in Loads
  BY DEF TypeOK, Loads
<1> QED
  BY <1>1 DEF TypeOK, Load

LEMMA ListArrivesTyped ==
    ASSUME TypeOK, NEW ids \in Lists, ListArrives(ids)
    PROVE  TypeOK'
<1>1. ids \subseteq Sessions
  BY DEF Lists
<1>2. /\ UNCHANGED <<mounted, asked, streaming, streamContent, wsRef, sockets, saved, backend>>
      /\ listed' = TRUE
  BY DEF ListArrives, stream
<1>3. CASE /\ ids # {}
           /\ sessionIds' = ids
           /\ IF activeId = NoSession
              THEN \E s \in ids : activeId' = s /\ Load(s)
              ELSE UNCHANGED <<activeId, loads>>
           /\ UNCHANGED <<messages, slips>>
  <2>1. loads' \in Seq(Loads) /\ activeId' \in Sessions
    BY <1>1, <1>3, LoadTyped DEF TypeOK
  <2> QED
    BY <1>1, <1>2, <1>3, <2>1, PageAssumption DEF TypeOK
<1>4. CASE \E s \in Sessions : Unused(s) /\ sessionIds' = {s} /\ activeId' = s /\ Load(s)
           /\ messages' = <<>>
           /\ slips' = IF streaming THEN slips \cup {"lateList"} ELSE slips
  <2>1. loads' \in Seq(Loads) /\ activeId' \in Sessions /\ sessionIds' \subseteq Sessions
    BY <1>4, LoadTyped
  <2>2. messages' \in Seq(Messages) /\ slips' \subseteq {"lateLoad", "lostLoad", "lateList", "lateClose"}
    BY <1>4 DEF TypeOK
  <2> QED
    BY <1>2, <2>1, <2>2, PageAssumption DEF TypeOK
<1> QED
  BY <1>3, <1>4 DEF ListArrives

LEMMA SessionChosenTyped ==
    ASSUME TypeOK, NEW s \in Sessions, CreateNewSession(s) \/ SelectSession(s)
    PROVE  TypeOK'
<1>1. loads' \in Seq(Loads)
  BY LoadTyped DEF CreateNewSession, SelectSession
<1>2. CASE CreateNewSession(s)
  <2>1. messages' \in Seq(Messages) /\ slips' \subseteq slips /\ sessionIds' \subseteq Sessions
    BY <1>2 DEF CreateNewSession, TypeOK
  <2> QED
    BY <1>1, <1>2, <2>1, PageAssumption DEF CreateNewSession, TypeOK, stream
<1>3. CASE SelectSession(s)
  BY <1>1, <1>3, PageAssumption DEF SelectSession, TypeOK, stream
<1> QED
  BY <1>2, <1>3

LEMMA HistoryTyped ==
    ASSUME TypeOK, NEW i \in DOMAIN loads, HistoryArrives(i) \/ HistoryFails(i)
    PROVE  TypeOK'
<1>1. loads[i] \in Loads
  BY DEF TypeOK
<1>2. loads' \in Seq(Loads)
  <2>1. [loads[i] EXCEPT !.pending = FALSE] \in Loads
    BY <1>1 DEF Loads
  <2>2. loads' = [loads EXCEPT ![i] = [loads[i] EXCEPT !.pending = FALSE]]
    BY DEF HistoryArrives, HistoryFails
  <2> QED
    BY <2>1, <2>2 DEF TypeOK
<1>3. CASE HistoryArrives(i)
  <2> DEFINE s == loads[i].of
  <2>1. s \in Sessions /\ loads[i].from \in Nat /\ saved[s] \in Seq(Exchanges)
    BY <1>1 DEF Loads, TypeOK
  <2>2. PICK k \in {0} \cup loads[i].from..Len(saved[s]) : messages' = Reply(SubSeq(saved[s], 1, k))
    BY <1>3 DEF HistoryArrives
  <2>3. SubSeq(saved[s], 1, k) \in Seq(Exchanges)
    BY <2>1, <2>2
  <2>4. messages' \in Seq(Messages)
    BY <2>2, <2>3, ReplyParts, RowsTyped, AnswersTyped
  <2>5. slips' = slips \cup {"lateLoad"} \/ slips' = slips \ {"lateLoad", "lostLoad"}
    BY <1>3 DEF HistoryArrives
  <2>6. slips' \subseteq {"lateLoad", "lostLoad", "lateList", "lateClose"}
    BY <2>5 DEF TypeOK
  <2> QED
    BY <1>2, <1>3, <2>4, <2>6 DEF HistoryArrives, TypeOK, stream
<1>4. CASE HistoryFails(i)
  BY <1>2, <1>4 DEF HistoryFails, TypeOK, stream
<1> QED
  BY <1>3, <1>4

LEMMA SendTyped ==
    ASSUME TypeOK, Send
    PROVE  TypeOK'
<1>1. Question \in Exchanges /\ asked' \in 0..MaxAsked /\ activeId \in Sessions
  BY QuestionTyped DEF Send, TypeOK
<1>2. messages' \in Seq(Messages) /\ streamContent' \in Seq(Exchanges)
  <2>1. <<"user", Question>> \in Messages
    BY <1>1 DEF Messages
  <2> QED
    BY <2>1 DEF Send, TypeOK
<1>3. sockets' \in Seq(Sockets) /\ wsRef' \in 0..Len(sockets')
  <2>1. CASE IsOpen(wsRef)
    <3> DEFINE c == sockets[wsRef]
               as == IF c.server = "up" THEN Append(c.asks, Question) ELSE c.asks
    <3>1. wsRef \in DOMAIN sockets /\ sockets \in Seq(Sockets) /\ wsRef \in 0..Len(sockets)
      BY <2>1 DEF IsOpen, TypeOK
    <3>2. c \in Sockets
      BY <3>1, SocketsTyped
    <3>3. as \in Seq(Exchanges)
      BY <1>1, <3>2, SocketFields
    <3> HIDE DEF as
    <3>4. [c EXCEPT !.asks = as] \in Sockets
      BY <3>2, <3>3 DEF Sockets
    <3>5. sockets' = [sockets EXCEPT ![wsRef] = [c EXCEPT !.asks = as]] /\ wsRef' = wsRef
      BY <2>1, <3>1 DEF Send, as
    <3> HIDE DEF c
    <3> QED
      BY <3>1, <3>4, <3>5
  <2>2. CASE ~IsOpen(wsRef)
    <3>1. NewSocket(activeId, Question) \in Sockets
      BY <1>1, NewSocketTyped
    <3>2. sockets' = Append(sockets, NewSocket(activeId, Question)) /\ wsRef' = Len(sockets) + 1
      BY <2>2 DEF Send
    <3> QED
      BY <3>1, <3>2 DEF TypeOK
  <2> QED
    BY <2>1, <2>2
<1> QED
  BY <1>1, <1>2, <1>3 DEF Send, TypeOK

LEMMA ConnectionTyped ==
    ASSUME TypeOK, NEW k \in DOMAIN sockets, Connection(k)
    PROVE  TypeOK'
<1> DEFINE c == sockets[k]
<1>1. /\ c \in Sockets /\ c.first \in Exchanges /\ c.asks \in Seq(Exchanges)
      /\ c.frames \in Seq(Frames)
  BY SocketsTyped, SocketFields
<1> HIDE DEF c
<1>2. ASSUME NEW d \in Sockets, sockets' = [sockets EXCEPT ![k] = d]
      PROVE  sockets' \in Seq(Sockets) /\ Len(sockets') = Len(sockets)
  BY <1>2 DEF TypeOK
<1>3. CASE Open(k)
  <2>1. <<c.first>> \in Seq(Exchanges)
    BY <1>1
  <2>2. [c EXCEPT !.state = "open", !.server = "up", !.asks = <<c.first>>] \in Sockets
    BY <1>1, <2>1 DEF Sockets
  <2>3. sockets' = [sockets EXCEPT
                       ![k] = [c EXCEPT !.state = "open", !.server = "up", !.asks = <<c.first>>]]
    BY <1>3 DEF Open, c
  <2> QED
    BY <1>2, <1>3, <2>2, <2>3 DEF Open, TypeOK, view
<1>4. CASE Receive(k)
  <2> DEFINE x == Head(c.frames)[2]
  <2>1. Tail(c.frames) \in Seq(Frames) /\ x \in Exchanges
    <3>1. Head(c.frames) \in Frames /\ Tail(c.frames) \in Seq(Frames)
      BY <1>1, <1>4 DEF Receive, c
    <3> QED
      BY <3>1 DEF Frames
  <2> HIDE DEF x
  <2>2. [c EXCEPT !.frames = Tail(c.frames)] \in Sockets
    BY <1>1, <2>1 DEF Sockets
  <2>3. sockets' = [sockets EXCEPT ![k] = [c EXCEPT !.frames = Tail(c.frames)]]
    BY <1>4 DEF Receive, c
  <2>4. <<"agent", x>> \in Messages
    BY <2>1 DEF Messages
  <2>5. /\ streamContent' = Append(streamContent, x) \/ streamContent' = <<>>
        /\ messages' = messages \/ messages' = Append(messages, <<"agent", x>>)
    BY <1>4 DEF Receive, c, x
  <2>6. streamContent' \in Seq(Exchanges)
    <3>1. streamContent \in Seq(Exchanges)
      BY DEF TypeOK
    <3>2. Append(streamContent, x) \in Seq(Exchanges)
      BY <2>1, <3>1
    <3>3. <<>> \in Seq(Exchanges)
      OBVIOUS
    <3> QED
      BY <2>5, <3>2, <3>3, Zenon
  <2>7. messages' \in Seq(Messages)
    <3>1. messages \in Seq(Messages)
      BY DEF TypeOK
    <3>2. Append(messages, <<"agent", x>>) \in Seq(Messages)
      BY <2>4, <3>1
    <3> QED
      BY <2>5, <3>1, <3>2
  <2>8. streaming' \in BOOLEAN
    BY <1>4, Zenon DEF Receive, TypeOK
  <2> QED
    BY <1>2, <1>4, <2>2, <2>3, <2>6, <2>7, <2>8 DEF Receive, TypeOK
<1>5. CASE NoticeEnd(k)
  <2>1. [c EXCEPT !.state = "closing"] \in Sockets
    BY <1>1 DEF Sockets
  <2>2. sockets' = [sockets EXCEPT ![k] = [c EXCEPT !.state = "closing"]]
    BY <1>5 DEF NoticeEnd, c
  <2> QED
    BY <1>2, <1>5, <2>1, <2>2 DEF NoticeEnd, TypeOK, view
<1>6. CASE Close(k)
  <2>1. [c EXCEPT !.state = "closed"] \in Sockets
    BY <1>1 DEF Sockets
  <2>2. sockets' = [sockets EXCEPT ![k] = [c EXCEPT !.state = "closed"]]
    BY <1>6 DEF Close, c
  <2>3. sockets' \in Seq(Sockets) /\ Len(sockets') = Len(sockets)
    BY <1>2, <2>1, <2>2
  <2>4. slips' \subseteq {"lateLoad", "lostLoad", "lateList", "lateClose"}
    BY <1>6 DEF Close, TypeOK
  <2>5. streamContent' = <<>> /\ streaming' \in BOOLEAN /\ wsRef' = 0
    BY <1>6, Zenon DEF Close
  <2>6. streamContent' \in Seq(Exchanges) /\ wsRef' \in 0..Len(sockets')
    BY <2>3, <2>5
  <2> QED
    BY <1>6, <2>3, <2>4, <2>5, <2>6 DEF Close, TypeOK, view
<1> QED
  BY <1>3, <1>4, <1>5, <1>6 DEF Connection

LEMMA LeaveTyped ==
    ASSUME TypeOK, Leave
    PROVE  TypeOK'
<1>1. sockets' \in Seq(Sockets) /\ Len(sockets') = Len(sockets)
  <2>1. CASE wsRef = 0
    BY <2>1 DEF Leave, TypeOK
  <2>2. CASE wsRef # 0
    <3> DEFINE c == sockets[wsRef]
               st == IF c.state \in {"connecting", "open"} THEN "closing" ELSE c.state
    <3>1. wsRef \in DOMAIN sockets
      BY <2>2 DEF TypeOK
    <3>2. c \in Sockets /\ st \in States
      BY <3>1, SocketsTyped, SocketFields DEF States
    <3>3. sockets' = [sockets EXCEPT ![wsRef] = [c EXCEPT !.state = st]]
      BY <2>2, <3>1 DEF Leave
    <3> HIDE DEF c, st
    <3>4. [c EXCEPT !.state = st] \in Sockets
      BY <3>2 DEF Sockets, States
    <3> QED
      BY <3>1, <3>3, <3>4 DEF TypeOK
  <2> QED
    BY <2>1, <2>2
<1>2. /\ messages' \in Seq(Messages) /\ loads' \in Seq(Loads) /\ streamContent' \in Seq(Exchanges)
      /\ sessionIds' \subseteq Sessions /\ activeId' \in Sessions \cup {NoSession}
  BY DEF Leave
<1>3. mounted' \in BOOLEAN /\ streaming' \in BOOLEAN /\ listed' = FALSE /\ wsRef' = 0
  BY Zenon DEF Leave
<1>4. wsRef' \in 0..Len(sockets')
  BY <1>1, <1>3
<1> QED
  BY <1>1, <1>2, <1>3, <1>4 DEF Leave, TypeOK

LEMMA ServerTyped ==
    ASSUME TypeOK, NEW k \in DOMAIN sockets, Server(k)
    PROVE  TypeOK'
<1> DEFINE c == sockets[k]
<1>1. /\ c \in Sockets /\ c.of \in Sessions /\ c.asks \in Seq(Exchanges)
      /\ c.frames \in Seq(Frames)
  BY SocketsTyped, SocketFields
<1>2. saved[c.of] \in Seq(Exchanges)
  BY <1>1 DEF TypeOK
<1> HIDE DEF c
<1>3. ASSUME NEW d \in Sockets, sockets' = [sockets EXCEPT ![k] = d]
      PROVE  sockets' \in Seq(Sockets) /\ Len(sockets') = Len(sockets)
  BY <1>3 DEF TypeOK
<1>4. ASSUME c.asks # <<>> PROVE Head(c.asks) \in Exchanges /\ Tail(c.asks) \in Seq(Exchanges)
  BY <1>1, <1>4
<1>5. ASSUME c.asks # <<>>, saved' = [saved EXCEPT ![c.of] = Append(@, Head(c.asks))]
      PROVE  saved' \in [Sessions -> Seq(Exchanges)]
  <2>1. Append(saved[c.of], Head(c.asks)) \in Seq(Exchanges)
    BY <1>2, <1>4, <1>5
  <2>2. saved' = [saved EXCEPT ![c.of] = Append(saved[c.of], Head(c.asks))]
    BY <1>1, <1>5 DEF TypeOK
  <2> QED
    BY <2>1, <2>2 DEF TypeOK
<1>6. CASE ServerSaysChunk(k)
  <2> DEFINE f == <<"chunk", Head(c.asks)>>
  <2>1. f \in Frames
    BY <1>4, <1>6 DEF ServerSaysChunk, Frames, c
  <2>2. sockets' = [sockets EXCEPT ![k] = [c EXCEPT !.frames = Append(c.frames, f), !.said = TRUE]]
    BY <1>6 DEF ServerSaysChunk, c
  <2> HIDE DEF f
  <2>3. [c EXCEPT !.frames = Append(c.frames, f), !.said = TRUE] \in Sockets
    <3>1. Append(c.frames, f) \in Seq(Frames)
      BY <1>1, <2>1
    <3> QED
      BY <1>1, <3>1 DEF Sockets
  <2> QED
    BY <1>3, <1>6, <2>2, <2>3 DEF ServerSaysChunk, TypeOK, view
<1>7. CASE ServerAnswers(k)
  <2>1. c.asks # <<>>
    BY <1>7 DEF ServerAnswers, c
  <2>2. PICK kind \in {"done", "error"} :
           sockets' = [sockets EXCEPT ![k] =
                         [c EXCEPT !.frames = Append(c.frames, <<kind, Head(c.asks)>>),
                                   !.asks = Tail(c.asks), !.said = FALSE]]
    BY <1>7 DEF ServerAnswers, c
  <2> DEFINE f == <<kind, Head(c.asks)>>
  <2>3. f \in Frames
    BY <1>4, <2>1 DEF Frames
  <2> HIDE DEF f
  <2>4. [c EXCEPT !.frames = Append(c.frames, f), !.asks = Tail(c.asks), !.said = FALSE] \in Sockets
    <3>1. Append(c.frames, f) \in Seq(Frames) /\ Tail(c.asks) \in Seq(Exchanges)
      BY <1>1, <1>4, <2>1, <2>3
    <3> QED
      BY <1>1, <3>1 DEF Sockets
  <2>5. sockets' \in Seq(Sockets) /\ Len(sockets') = Len(sockets)
    BY <1>3, <2>2, <2>4 DEF f
  <2>6. saved' = saved \/ saved' = [saved EXCEPT ![c.of] = Append(@, Head(c.asks))]
    BY <1>7 DEF ServerAnswers, c
  <2>7. saved' \in [Sessions -> Seq(Exchanges)]
    BY <1>5, <2>1, <2>6 DEF TypeOK
  <2> QED
    BY <1>7, <2>5, <2>7 DEF ServerAnswers, TypeOK, view
<1>8. CASE ServerEnds(k)
  <2>1. <<>> \in Seq(Exchanges)
    OBVIOUS
  <2>2. [c EXCEPT !.server = "ended", !.asks = <<>>] \in Sockets
    BY <1>1, <2>1 DEF Sockets
  <2>3. sockets' = [sockets EXCEPT ![k] = [c EXCEPT !.server = "ended", !.asks = <<>>]]
    BY <1>8 DEF ServerEnds, c
  <2>4. sockets' \in Seq(Sockets) /\ Len(sockets') = Len(sockets)
    BY <1>3, <2>2, <2>3
  <2>5. \/ saved' = saved
        \/ c.asks # <<>> /\ saved' = [saved EXCEPT ![c.of] = Append(@, Head(c.asks))]
    BY <1>8 DEF ServerEnds, c
  <2>6. saved' \in [Sessions -> Seq(Exchanges)]
    BY <1>5, <2>5 DEF TypeOK
  <2> QED
    BY <1>8, <2>4, <2>6 DEF ServerEnds, TypeOK, view
<1> QED
  BY <1>6, <1>7, <1>8 DEF Server

LEMMA TypeStep == TypeOK /\ [Next]_vars => TypeOK'
<1> SUFFICES ASSUME TypeOK, [Next]_vars PROVE TypeOK'
  OBVIOUS
<1>1. CASE UNCHANGED vars
  BY <1>1 DEF vars, TypeOK
<1>2. ASSUME NEW i \in 1..MaxLoads, History(i) PROVE TypeOK'
  BY <1>2, HistoryTyped DEF History
<1>3. ASSUME NEW k \in 1..MaxSockets, Connection(k) \/ Server(k) PROVE TypeOK'
  BY <1>3, ConnectionTyped, ServerTyped DEF Connection, Server
<1> QED
  BY <1>1, <1>2, <1>3, ListArrivesTyped, SessionChosenTyped, SendTyped, LeaveTyped DEF Next

\* The page keeps its type invariant.
THEOREM TypeCorrect == Spec => []TypeOK
  BY TypeInit, TypeStep, PTL DEF Spec

-----------------------------------------------------------------------------
(* Where exchanges are filed *)

\* A socket was opened for a question of its session, and what it is asked for
\* besides are later questions.
SocketOrigins ==
    \A k \in DOMAIN sockets :
        /\ sockets[k].first[1] = sockets[k].of
        /\ sockets[k].first[2] <= asked
        /\ \A i \in DOMAIN sockets[k].asks :
              /\ \/ sockets[k].asks[i] = sockets[k].first
                 \/ sockets[k].first[2] < sockets[k].asks[i][2]
              /\ sockets[k].asks[i][2] <= asked

\* Chat memory has no exchange that the user has not asked for.
SavedAsked == \A s \in Sessions : \A i \in DOMAIN saved[s] : saved[s][i][2] <= asked

FiledInv == TypeOK /\ SocketOrigins /\ FiledWhereAsked /\ SavedAsked

\* A socket keeps its session and its first question, whatever becomes of it.
KeepsOrigin(c, d) ==
    /\ d.of = c.of /\ d.first = c.first
    /\ \/ d.asks = c.asks \/ d.asks = <<c.first>> \/ d.asks = <<>>
       \/ c.asks # <<>> /\ d.asks = Tail(c.asks)
       \/ asked' = asked + 1 /\ d.asks = Append(c.asks, Question)

LEMMA SocketSteps ==
    ASSUME TypeOK, [Next]_vars
    PROVE  \/ sockets' = sockets
           \/ /\ activeId \in Sessions /\ asked' = asked + 1
              /\ sockets' = Append(sockets, NewSocket(activeId, Question))
           \/ \E k \in DOMAIN sockets :
                 /\ sockets' = [sockets EXCEPT ![k] = sockets'[k]]
                 /\ KeepsOrigin(sockets[k], sockets'[k])
<1> DEFINE Changes(k) == /\ sockets' = [sockets EXCEPT ![k] = sockets'[k]]
                        /\ KeepsOrigin(sockets[k], sockets'[k])
<1>1. CASE UNCHANGED sockets
  BY <1>1
<1>2. ASSUME NEW k \in DOMAIN sockets, Connection(k) PROVE Changes(k)
  <2>1. sockets[k] \in Sockets
    BY SocketsTyped
  <2>2. CASE Open(k)
    BY <2>1, <2>2 DEF Open, KeepsOrigin, Sockets, TypeOK
  <2>3. CASE Receive(k)
    <3>1. sockets' = [sockets EXCEPT ![k].frames = Tail(@)]
      BY <2>3 DEF Receive
    <3> QED
      BY <2>1, <3>1 DEF KeepsOrigin, Sockets, TypeOK
  <2>4. CASE NoticeEnd(k)
    BY <2>1, <2>4 DEF NoticeEnd, KeepsOrigin, Sockets, TypeOK
  <2>5. CASE Close(k)
    <3>1. sockets' = [sockets EXCEPT ![k].state = "closed"]
      BY <2>5 DEF Close
    <3> QED
      BY <2>1, <3>1 DEF KeepsOrigin, Sockets, TypeOK
  <2> QED
    BY <1>2, <2>2, <2>3, <2>4, <2>5 DEF Connection
<1>3. ASSUME NEW k \in DOMAIN sockets, Server(k) PROVE Changes(k)
  <2>1. sockets[k] \in Sockets
    BY SocketsTyped
  <2>2. CASE ServerSaysChunk(k)
    BY <2>1, <2>2 DEF ServerSaysChunk, KeepsOrigin, Sockets, TypeOK
  <2>3. CASE ServerAnswers(k)
    <3>1. sockets[k].asks # <<>>
      BY <2>3 DEF ServerAnswers
    <3>2. PICK f : sockets' = [sockets EXCEPT ![k].frames = Append(@, f), ![k].asks = Tail(@),
                                              ![k].said = FALSE]
      BY <2>3 DEF ServerAnswers
    <3> QED
      BY <2>1, <3>1, <3>2 DEF KeepsOrigin, Sockets, TypeOK
  <2>4. CASE ServerEnds(k)
    <3>1. sockets' = [sockets EXCEPT ![k].server = "ended", ![k].asks = <<>>]
      BY <2>4 DEF ServerEnds
    <3> QED
      BY <2>1, <3>1 DEF KeepsOrigin, Sockets, TypeOK
  <2> QED
    BY <1>3, <2>2, <2>3, <2>4 DEF Server
<1>4. ASSUME Leave, wsRef # 0 PROVE wsRef \in DOMAIN sockets /\ Changes(wsRef)
  <2>1. wsRef \in DOMAIN sockets
    BY <1>4 DEF TypeOK
  <2>2. sockets[wsRef] \in Sockets
    BY <2>1, SocketsTyped
  <2>3. PICK st : sockets' = [sockets EXCEPT ![wsRef].state = st]
    BY <1>4, <2>1 DEF Leave
  <2> QED
    BY <2>1, <2>2, <2>3 DEF KeepsOrigin, Sockets, TypeOK
<1>5. ASSUME Send, IsOpen(wsRef) PROVE wsRef \in DOMAIN sockets /\ Changes(wsRef)
  <2>1. wsRef \in DOMAIN sockets
    BY <1>5 DEF TypeOK, IsOpen
  <2>2. sockets[wsRef] \in Sockets
    BY <2>1, SocketsTyped
  <2>3. PICK as : /\ as = sockets[wsRef].asks \/ as = Append(sockets[wsRef].asks, Question)
                  /\ sockets' = [sockets EXCEPT ![wsRef].asks = as]
    BY <1>5, <2>1 DEF Send
  <2>4. asked' = asked + 1
    BY <1>5 DEF Send
  <2> QED
    BY <2>1, <2>2, <2>3, <2>4 DEF KeepsOrigin, Sockets, TypeOK
<1>6. ASSUME Send, ~IsOpen(wsRef)
      PROVE  /\ activeId \in Sessions /\ asked' = asked + 1
             /\ sockets' = Append(sockets, NewSocket(activeId, Question))
  BY <1>6 DEF Send, TypeOK
<1>7. ASSUME Leave, wsRef = 0 PROVE sockets' = sockets
  BY <1>7 DEF Leave
<1> HIDE DEF Changes
<1>8. CASE Next
  <2>1. CASE \E ids \in Lists : ListArrives(ids)
    BY <1>1, <2>1 DEF ListArrives, stream
  <2>2. CASE \E s \in Sessions : CreateNewSession(s) \/ SelectSession(s)
    BY <1>1, <2>2 DEF CreateNewSession, SelectSession, stream
  <2>3. CASE \E i \in 1..MaxLoads : History(i)
    BY <1>1, <2>3 DEF History, HistoryArrives, HistoryFails, stream
  <2>4. CASE Send \/ Leave
    BY <1>4, <1>5, <1>6, <1>7, <2>4 DEF Changes
  <2>5. CASE \E k \in 1..MaxSockets : Connection(k) \/ Server(k)
    BY <1>2, <1>3, <2>5 DEF Connection, Server, Changes
  <2> QED
    BY <1>8, <2>1, <2>2, <2>3, <2>4, <2>5 DEF Next
<1> QED
  BY <1>1, <1>8 DEF vars

LEMMA OriginsStay ==
    ASSUME TypeOK, [Next]_vars, NEW k \in DOMAIN sockets
    PROVE  /\ k \in DOMAIN sockets'
           /\ sockets'[k].of = sockets[k].of /\ sockets'[k].first = sockets[k].first
<1>1. CASE sockets' = Append(sockets, NewSocket(activeId, Question))
  BY <1>1 DEF TypeOK
<1>2. CASE \E j \in DOMAIN sockets :
              /\ sockets' = [sockets EXCEPT ![j] = sockets'[j]]
              /\ KeepsOrigin(sockets[j], sockets'[j])
  BY <1>2 DEF TypeOK, KeepsOrigin
<1> QED
  BY <1>1, <1>2, SocketSteps

LEMMA AskedSteps ==
    ASSUME [Next]_vars
    PROVE  asked' = asked \/ asked' = asked + 1
  BY DEF Next, ListArrives, CreateNewSession, SelectSession, History, HistoryArrives, HistoryFails,
         Send, Leave, Connection, Open, Receive, NoticeEnd, Close,
         Server, ServerSaysChunk, ServerAnswers, ServerEnds, stream, vars

LEMMA SavedSteps ==
    ASSUME TypeOK, [Next]_vars
    PROVE  \/ saved' = saved
           \/ \E k \in DOMAIN sockets :
                 /\ sockets[k].asks # <<>>
                 /\ saved' = [saved EXCEPT ![sockets[k].of] = Append(@, Head(sockets[k].asks))]
<1>1. ASSUME NEW k \in 1..MaxSockets, Server(k), saved' # saved
      PROVE  /\ k \in DOMAIN sockets /\ sockets[k].asks # <<>>
             /\ saved' = [saved EXCEPT ![sockets[k].of] = Append(@, Head(sockets[k].asks))]
  <2>1. CASE ServerSaysChunk(k)
    BY <1>1, <2>1 DEF ServerSaysChunk
  <2>2. CASE ServerAnswers(k)
    BY <1>1, <2>2 DEF ServerAnswers, Server
  <2>3. CASE ServerEnds(k)
    BY <1>1, <2>3 DEF ServerEnds, Server
  <2> QED
    BY <1>1, <2>1, <2>2, <2>3 DEF Server
<1>2. ASSUME ~ \E k \in 1..MaxSockets : Server(k) PROVE saved' = saved
  BY <1>2 DEF Next, ListArrives, CreateNewSession, SelectSession, History, HistoryArrives, HistoryFails,
         Send, Leave, Connection, Open, Receive, NoticeEnd, Close, vars
<1> QED
  BY <1>1, <1>2

LEMMA OriginsStep ==
    ASSUME TypeOK, SocketOrigins, [Next]_vars
    PROVE  SocketOrigins'
<1> DEFINE Fits(c, n) == /\ c.first[1] = c.of
                        /\ c.first[2] <= n
                        /\ \A i \in DOMAIN c.asks :
                              /\ c.asks[i] = c.first \/ c.first[2] < c.asks[i][2]
                              /\ c.asks[i][2] <= n
<1>1. \A k \in DOMAIN sockets : sockets[k] \in Sockets /\ Fits(sockets[k], asked)
  BY SocketsTyped DEF SocketOrigins
<1>2. asked \in Nat /\ (asked' = asked \/ asked' = asked + 1)
  BY AskedSteps, PageAssumption DEF TypeOK
<1>3. ASSUME NEW c \in Sockets, Fits(c, asked) PROVE Fits(c, asked')
  <2>1. c.first[2] \in Int /\ \A i \in DOMAIN c.asks : c.asks[i][2] \in Int
    <3>1. c.first \in Exchanges /\ \A i \in DOMAIN c.asks : c.asks[i] \in Exchanges
      BY SocketFields
    <3> QED
      BY <3>1, PageAssumption DEF Exchanges
  <2> QED
    BY <1>2, <1>3, <2>1
<1>4. ASSUME NEW c \in Sockets, NEW d, Fits(c, asked), KeepsOrigin(c, d) PROVE Fits(d, asked')
  <2>1. Fits(c, asked')
    BY <1>3, <1>4
  <2>2. c.asks \in Seq(Exchanges) /\ c.first \in Exchanges
    BY SocketFields
  <2>3. d.of = c.of /\ d.first = c.first
    BY <1>4 DEF KeepsOrigin
  <2>4. ASSUME NEW i \in DOMAIN d.asks
        PROVE  /\ d.asks[i] = d.first \/ d.first[2] < d.asks[i][2]
               /\ d.asks[i][2] <= asked'
    <3>1. CASE d.asks = c.asks
      BY <2>1, <2>3, <2>4, <3>1
    <3>2. CASE d.asks = <<c.first>>
      BY <2>1, <2>3, <2>4, <3>2
    <3>3. CASE d.asks = <<>>
      BY <2>4, <3>3
    <3>4. CASE c.asks # <<>> /\ d.asks = Tail(c.asks)
      <4>1. i + 1 \in DOMAIN c.asks /\ d.asks[i] = c.asks[i + 1]
        BY <2>2, <2>4, <3>4
      <4> QED
        BY <2>1, <2>3, <4>1
    <3>5. CASE asked' = asked + 1 /\ d.asks = Append(c.asks, Question)
      <4>1. \/ i \in DOMAIN c.asks /\ d.asks[i] = c.asks[i]
            \/ d.asks[i] = Question
        BY <2>2, <2>4, <3>5
      <4>2. Question[2] = asked' /\ c.first[2] < Question[2] /\ asked' <= asked'
        <5>1. c.first[2] <= asked /\ c.first[2] \in Int
          BY <1>4, <2>2, PageAssumption DEF Exchanges
        <5> QED
          BY <1>2, <3>5, <5>1 DEF Question
      <4> QED
        BY <2>1, <2>3, <4>1, <4>2
    <3> QED
      BY <1>4, <3>1, <3>2, <3>3, <3>4, <3>5 DEF KeepsOrigin
  <2> QED
    BY <2>1, <2>3, <2>4
<1>5. ASSUME activeId \in Sessions, asked' = asked + 1
      PROVE  Fits(NewSocket(activeId, Question), asked')
  BY <1>2, <1>5 DEF NewSocket, Question
<1> SUFFICES ASSUME NEW k \in DOMAIN sockets' PROVE Fits(sockets'[k], asked')
  BY DEF SocketOrigins
<1> HIDE DEF Fits
<1>6. CASE sockets' = sockets
  BY <1>1, <1>3, <1>6
<1>7. CASE /\ activeId \in Sessions /\ asked' = asked + 1
           /\ sockets' = Append(sockets, NewSocket(activeId, Question))
  <2>1. \/ k \in DOMAIN sockets /\ sockets'[k] = sockets[k]
        \/ sockets'[k] = NewSocket(activeId, Question)
    BY <1>7 DEF TypeOK
  <2> QED
    BY <1>1, <1>3, <1>5, <1>7, <2>1
<1>8. CASE \E j \in DOMAIN sockets :
              /\ sockets' = [sockets EXCEPT ![j] = sockets'[j]]
              /\ KeepsOrigin(sockets[j], sockets'[j])
  <2>1. PICK j \in DOMAIN sockets : /\ sockets' = [sockets EXCEPT ![j] = sockets'[j]]
                                    /\ KeepsOrigin(sockets[j], sockets'[j])
    BY <1>8
  <2>2. k \in DOMAIN sockets /\ (k # j => sockets'[k] = sockets[k])
    BY <2>1 DEF TypeOK
  <2> QED
    BY <1>1, <1>3, <1>4, <2>1, <2>2
<1> QED
  BY <1>6, <1>7, <1>8, SocketSteps

LEMMA FiledStep ==
    ASSUME FiledInv, [Next]_vars
    PROVE  FiledWhereAsked'
<1> DEFINE Earlier(q, s, x) ==
              \E k \in DOMAIN q : q[k].of = s /\ q[k].first[1] = s /\ q[k].first[2] < x[2]
<1>1. ASSUME NEW s, NEW x, Earlier(sockets, s, x) PROVE Earlier(sockets', s, x)
  BY <1>1, OriginsStay DEF FiledInv
<1> SUFFICES ASSUME NEW s \in Sessions, NEW i \in DOMAIN saved'[s], saved'[s][i][1] # s
             PROVE  Earlier(sockets', s, saved'[s][i])
  BY DEF FiledWhereAsked
<1>2. ASSUME i \in DOMAIN saved[s], saved'[s][i] = saved[s][i]
      PROVE  Earlier(sockets, s, saved'[s][i])
  BY <1>2 DEF FiledInv, FiledWhereAsked
<1>3. ASSUME NEW k \in DOMAIN sockets, sockets[k].asks # <<>>,
             saved' = [saved EXCEPT ![sockets[k].of] = Append(@, Head(sockets[k].asks))]
      PROVE  \/ i \in DOMAIN saved[s] /\ saved'[s][i] = saved[s][i]
             \/ Earlier(sockets, s, saved'[s][i])
  <2>1. /\ sockets[k].of \in Sessions /\ sockets[k].asks \in Seq(Exchanges)
        /\ saved \in [Sessions -> Seq(Exchanges)]
    BY SocketsTyped, SocketFields DEF FiledInv, TypeOK
  <2>2. CASE sockets[k].of # s
    BY <1>3, <2>1, <2>2
  <2>3. CASE sockets[k].of = s
    <3>1. saved'[s] = Append(saved[s], Head(sockets[k].asks)) /\ saved[s] \in Seq(Exchanges)
      BY <1>3, <2>1, <2>3
    <3>2. \/ i \in DOMAIN saved[s] /\ saved'[s][i] = saved[s][i]
          \/ saved'[s][i] = sockets[k].asks[1]
      BY <2>1, <3>1
    <3>3. 1 \in DOMAIN sockets[k].asks
      BY <1>3, <2>1
    <3>4. /\ sockets[k].first[1] = s
          /\ \/ sockets[k].asks[1] = sockets[k].first
             \/ sockets[k].first[2] < sockets[k].asks[1][2]
      BY <2>3, <3>3 DEF FiledInv, SocketOrigins
    <3> QED
      BY <2>3, <3>2, <3>4
  <2> QED
    BY <2>2, <2>3
<1> HIDE DEF Earlier
<1>4. CASE saved' = saved
  BY <1>1, <1>2, <1>4
<1>5. CASE saved' # saved
  <2>1. PICK k \in DOMAIN sockets :
           /\ sockets[k].asks # <<>>
           /\ saved' = [saved EXCEPT ![sockets[k].of] = Append(@, Head(sockets[k].asks))]
    BY <1>5, SavedSteps DEF FiledInv
  <2> QED
    BY <1>1, <1>2, <1>3, <2>1
<1> QED
  BY <1>4, <1>5

LEMMA SavedAskedStep ==
    ASSUME FiledInv, [Next]_vars
    PROVE  SavedAsked'
<1>1. asked \in Nat /\ (asked' = asked \/ asked' = asked + 1)
  BY AskedSteps, PageAssumption DEF FiledInv, TypeOK
<1>2. saved \in [Sessions -> Seq(Exchanges)]
  BY DEF FiledInv, TypeOK
<1> SUFFICES ASSUME NEW s \in Sessions, NEW i \in DOMAIN saved'[s]
             PROVE  saved'[s][i][2] <= asked'
  BY DEF SavedAsked
<1>3. ASSUME NEW x \in Exchanges, x[2] <= asked PROVE x[2] <= asked'
  <2>1. x[2] \in Int
    BY PageAssumption DEF Exchanges
  <2> QED
    BY <1>1, <1>3, <2>1
<1>4. ASSUME i \in DOMAIN saved[s], saved'[s][i] = saved[s][i] PROVE saved'[s][i][2] <= asked'
  <2>1. saved[s][i] \in Exchanges
    BY <1>2, <1>4
  <2> QED
    BY <1>3, <1>4, <2>1 DEF FiledInv, SavedAsked
<1>5. CASE saved' = saved
  BY <1>4, <1>5
<1>6. ASSUME NEW k \in DOMAIN sockets, sockets[k].asks # <<>>,
             saved' = [saved EXCEPT ![sockets[k].of] = Append(@, Head(sockets[k].asks))]
      PROVE  saved'[s][i][2] <= asked'
  <2>1. sockets[k].of \in Sessions /\ sockets[k].asks \in Seq(Exchanges)
    BY SocketsTyped, SocketFields DEF FiledInv
  <2>2. CASE sockets[k].of # s
    <3>1. saved'[s] = saved[s]
      BY <1>2, <1>6, <2>1, <2>2
    <3> QED
      BY <1>4, <3>1
  <2>3. CASE sockets[k].of = s
    <3>1. saved'[s] = Append(saved[s], Head(sockets[k].asks)) /\ saved[s] \in Seq(Exchanges)
      BY <1>2, <1>6, <2>1, <2>3
    <3>2. \/ i \in DOMAIN saved[s] /\ saved'[s][i] = saved[s][i]
          \/ saved'[s][i] = sockets[k].asks[1]
      BY <2>1, <3>1
    <3>3. 1 \in DOMAIN sockets[k].asks /\ sockets[k].asks[1] \in Exchanges
      BY <1>6, <2>1
    <3>4. sockets[k].asks[1][2] <= asked
      BY <3>3 DEF FiledInv, SocketOrigins
    <3> QED
      BY <1>3, <1>4, <3>2, <3>3, <3>4
  <2> QED
    BY <2>2, <2>3
<1> QED
  BY <1>5, <1>6, SavedSteps DEF FiledInv

LEMMA FiledInit == Init => FiledInv
<1> SUFFICES ASSUME Init PROVE SocketOrigins /\ FiledWhereAsked /\ SavedAsked
  BY TypeInit DEF FiledInv
<1>1. \A s \in Sessions : saved[s] = <<>> \/ saved[s] = <<<<s, 0>>>>
  BY DEF Init
<1>2. asked = 0 /\ sockets = <<>>
  BY DEF Init
<1> QED
  BY <1>1, <1>2 DEF SocketOrigins, FiledWhereAsked, SavedAsked

LEMMA FiledKept == FiledInv /\ [Next]_vars => FiledInv'
  BY TypeStep, OriginsStep, FiledStep, SavedAskedStep DEF FiledInv

\* However loads, sockets and sessions interleave, an exchange gets into another
\* session than it was asked in only over a socket opened there earlier
\* (useChatWebSocket.ts, send).
THEOREM ExchangesFiled == Spec => []FiledWhereAsked
<1>1. FiledInv => FiledWhereAsked
  BY DEF FiledInv
<1> QED
  BY <1>1, FiledInit, FiledKept, PTL DEF Spec

-----------------------------------------------------------------------------
(* The socket in use *)

Alive(k) == sockets[k].state \in {"connecting", "open"}

\* The socket in use is the only one alive, and while it is connecting, an answer
\* is awaited, so that no question opens another one.
OneInUse ==
    \A k \in DOMAIN sockets :
        /\ Alive(k) => mounted /\ wsRef = k
        /\ sockets[k].state = "connecting" => streaming

SocketInv == TypeOK /\ ("lateClose" \notin slips => OneInUse)

LEMMA SlipsStay ==
    ASSUME [Next]_vars, NEW r \in {"lateClose", "lateList"}, r \notin slips'
    PROVE  r \notin slips
<1> DEFINE Stays == r \in slips => r \in slips'
<1>1. ASSUME NEW ids \in Lists, ListArrives(ids) PROVE Stays
  BY <1>1 DEF ListArrives
<1>2. ASSUME NEW s \in Sessions, CreateNewSession(s) \/ SelectSession(s) PROVE Stays
  BY <1>2 DEF CreateNewSession, SelectSession
<1>3. ASSUME NEW i \in 1..MaxLoads, History(i) PROVE Stays
  <2>1. \/ slips' = slips \cup {"lateLoad"} \/ slips' = slips \ {"lateLoad", "lostLoad"}
        \/ slips' = slips \cup {"lostLoad"}
    <3>1. CASE HistoryArrives(i)
      BY <3>1 DEF HistoryArrives
    <3>2. CASE HistoryFails(i)
      BY <3>2 DEF HistoryFails
    <3> QED
      BY <1>3, <3>1, <3>2 DEF History
  <2> QED
    BY <2>1
<1>4. ASSUME NEW k \in 1..MaxSockets, Connection(k) \/ Server(k) PROVE Stays
  BY <1>4 DEF Connection, Open, Receive, NoticeEnd, Close,
              Server, ServerSaysChunk, ServerAnswers, ServerEnds
<1>5. ASSUME Send \/ Leave \/ UNCHANGED vars PROVE Stays
  BY <1>5 DEF Send, Leave, vars
<1> QED
  BY <1>1, <1>2, <1>3, <1>4, <1>5 DEF Next

\* OneInUse rests on the sockets' states, and these on few actions.
LEMMA SocketsUnused ==
    ASSUME OneInUse, UNCHANGED <<mounted, streaming, wsRef, sockets>>
    PROVE  OneInUse'
  BY DEF OneInUse, Alive

LEMMA SendUse ==
    ASSUME TypeOK, OneInUse, Send
    PROVE  OneInUse'
<1>1. mounted /\ mounted' = mounted /\ streaming' = TRUE /\ ~streaming
  BY DEF Send
<1>2. CASE IsOpen(wsRef)
  <2>1. /\ DOMAIN sockets' = DOMAIN sockets /\ wsRef' = wsRef
        /\ \A k \in DOMAIN sockets : sockets'[k].state = sockets[k].state
    <3>1. wsRef \in DOMAIN sockets
      BY <1>2 DEF TypeOK, IsOpen
    <3>2. sockets[wsRef] \in Sockets
      BY <3>1, SocketsTyped
    <3>3. PICK as : sockets' = [sockets EXCEPT ![wsRef].asks = as]
      BY <1>2, <3>1 DEF Send
    <3>4. wsRef' = wsRef
      BY <1>2 DEF Send
    <3> QED
      BY <3>1, <3>2, <3>3, <3>4 DEF Sockets, TypeOK
  <2> QED
    BY <1>1, <2>1 DEF OneInUse, Alive
<1>3. CASE ~IsOpen(wsRef)
  <2>1. sockets' = Append(sockets, NewSocket(activeId, Question)) /\ wsRef' = Len(sockets) + 1
    BY <1>3 DEF Send
  <2>2. ASSUME NEW k \in DOMAIN sockets PROVE ~Alive(k)
    <3>1. k # 0
      BY DEF TypeOK
    <3> QED
      BY <1>1, <1>3, <3>1 DEF OneInUse, Alive, IsOpen
  <2>3. ASSUME NEW k \in DOMAIN sockets'
        PROVE  (k \in DOMAIN sockets /\ sockets'[k] = sockets[k]) \/ k = Len(sockets) + 1
    BY <2>1 DEF TypeOK
  <2> QED
    BY <1>1, <2>1, <2>2, <2>3 DEF OneInUse, Alive
<1> QED
  BY <1>2, <1>3

LEMMA LeaveUse ==
    ASSUME TypeOK, OneInUse, Leave
    PROVE  OneInUse'
<1>1. CASE wsRef = 0
  <2>1. sockets' = sockets /\ \A k \in DOMAIN sockets : k # 0
    BY <1>1 DEF Leave, TypeOK
  <2> QED
    BY <1>1, <2>1 DEF OneInUse, Alive
<1>2. CASE wsRef # 0
  <2>1. wsRef \in DOMAIN sockets
    BY <1>2 DEF TypeOK
  <2>2. sockets[wsRef] \in Sockets
    BY <2>1, SocketsTyped
  <2> DEFINE c == sockets[wsRef].state
             st == IF c \in {"connecting", "open"} THEN "closing" ELSE c
  <2>3. sockets' = [sockets EXCEPT ![wsRef].state = st] /\ st \notin {"connecting", "open"}
    BY <1>2, <2>1 DEF Leave
  <2> HIDE DEF st
  <2>4. /\ DOMAIN sockets' = DOMAIN sockets /\ sockets'[wsRef].state = st
        /\ \A k \in DOMAIN sockets : k # wsRef => sockets'[k] = sockets[k]
    BY <2>1, <2>2, <2>3 DEF Sockets, TypeOK
  <2> QED
    BY <2>3, <2>4 DEF OneInUse, Alive
<1> QED
  BY <1>1, <1>2

LEMMA ServerUse ==
    ASSUME TypeOK, OneInUse, NEW k \in DOMAIN sockets, Server(k)
    PROVE  OneInUse'
<1>1. UNCHANGED <<mounted, streaming, wsRef>>
  BY DEF Server, ServerSaysChunk, ServerAnswers, ServerEnds
<1>2. sockets[k] \in Sockets
  BY SocketsTyped
<1>3. /\ DOMAIN sockets' = DOMAIN sockets
      /\ \A j \in DOMAIN sockets : sockets'[j].state = sockets[j].state
  <2>1. CASE ServerSaysChunk(k)
    <3>1. PICK fs : sockets' = [sockets EXCEPT ![k].frames = fs, ![k].said = TRUE]
      BY <2>1 DEF ServerSaysChunk
    <3> QED
      BY <1>2, <3>1 DEF Sockets, TypeOK
  <2>2. CASE ServerAnswers(k)
    <3>1. PICK f : sockets' = [sockets EXCEPT ![k].frames = Append(@, f), ![k].asks = Tail(@),
                                              ![k].said = FALSE]
      BY <2>2 DEF ServerAnswers
    <3> QED
      BY <1>2, <3>1 DEF Sockets, TypeOK
  <2>3. CASE ServerEnds(k)
    <3>1. sockets' = [sockets EXCEPT ![k].server = "ended", ![k].asks = <<>>]
      BY <2>3 DEF ServerEnds
    <3> QED
      BY <1>2, <3>1 DEF Sockets, TypeOK
  <2> QED
    BY <2>1, <2>2, <2>3 DEF Server
<1> QED
  BY <1>1, <1>3 DEF OneInUse, Alive

LEMMA ConnectionUse ==
    ASSUME TypeOK, OneInUse, NEW k \in DOMAIN sockets, Connection(k), "lateClose" \notin slips'
    PROVE  OneInUse'
<1>1. sockets[k] \in Sockets
  BY SocketsTyped
<1>2. CASE Open(k)
  <2>1. /\ DOMAIN sockets' = DOMAIN sockets /\ sockets'[k].state = "open"
        /\ \A j \in DOMAIN sockets : j # k => sockets'[j] = sockets[j]
    BY <1>1, <1>2 DEF Open, Sockets, TypeOK
  <2>2. Alive(k) /\ UNCHANGED <<mounted, streaming, wsRef>>
    BY <1>2 DEF Open, Alive, view
  <2> QED
    BY <2>1, <2>2 DEF OneInUse, Alive
<1>3. CASE Receive(k)
  <2>1. sockets' = [sockets EXCEPT ![k].frames = Tail(@)] /\ sockets[k].state = "open"
    BY <1>3 DEF Receive
  <2>2. /\ DOMAIN sockets' = DOMAIN sockets
        /\ \A j \in DOMAIN sockets : sockets'[j].state = sockets[j].state
    BY <1>1, <2>1 DEF Sockets, TypeOK
  <2>3. wsRef = k /\ UNCHANGED <<mounted, wsRef>>
    BY <1>3, <2>1 DEF OneInUse, Alive, Receive
  <2>4. \A j \in DOMAIN sockets : sockets[j].state # "connecting"
    BY <2>1, <2>3 DEF OneInUse, Alive
  <2> QED
    BY <2>2, <2>3, <2>4 DEF OneInUse, Alive
<1>4. CASE NoticeEnd(k)
  <2>1. /\ DOMAIN sockets' = DOMAIN sockets /\ sockets'[k].state = "closing"
        /\ \A j \in DOMAIN sockets : j # k => sockets'[j] = sockets[j]
    BY <1>1, <1>4 DEF NoticeEnd, Sockets, TypeOK
  <2>2. UNCHANGED <<mounted, streaming, wsRef>>
    BY <1>4 DEF NoticeEnd, view
  <2> QED
    BY <2>1, <2>2 DEF OneInUse, Alive
<1>5. CASE Close(k)
  <2>1. sockets' = [sockets EXCEPT ![k].state = "closed"]
    BY <1>5 DEF Close
  <2>2. /\ DOMAIN sockets' = DOMAIN sockets /\ sockets'[k].state = "closed"
        /\ \A j \in DOMAIN sockets : j # k => sockets'[j] = sockets[j]
    BY <1>1, <2>1 DEF Sockets, TypeOK
  <2>3. wsRef \in {0, k} /\ \A j \in DOMAIN sockets : j # 0
    BY <1>5 DEF Close, TypeOK
  <2>4. \A j \in DOMAIN sockets : j # k => ~Alive(j)
    BY <2>3 DEF OneInUse
  <2> QED
    BY <2>2, <2>4 DEF OneInUse, Alive
<1> QED
  BY <1>2, <1>3, <1>4, <1>5 DEF Connection

LEMMA SocketStep == SocketInv /\ [Next]_vars => SocketInv'
<1> SUFFICES ASSUME TypeOK, OneInUse, [Next]_vars, "lateClose" \notin slips' PROVE OneInUse'
  BY SlipsStay, TypeStep DEF SocketInv
<1>1. CASE UNCHANGED vars
  BY <1>1, SocketsUnused DEF vars
<1>2. ASSUME NEW ids \in Lists, ListArrives(ids) PROVE OneInUse'
  BY <1>2, SocketsUnused DEF ListArrives, stream
<1>3. ASSUME NEW s \in Sessions, CreateNewSession(s) \/ SelectSession(s) PROVE OneInUse'
  BY <1>3, SocketsUnused DEF CreateNewSession, SelectSession, stream
<1>4. ASSUME NEW i \in 1..MaxLoads, History(i) PROVE OneInUse'
  <2>1. UNCHANGED <<mounted, streaming, wsRef, sockets>>
    BY <1>4 DEF History, HistoryArrives, HistoryFails, stream
  <2> QED
    BY <2>1, SocketsUnused
<1>5. ASSUME NEW k \in 1..MaxSockets, Connection(k) \/ Server(k) PROVE OneInUse'
  BY <1>5, ConnectionUse, ServerUse DEF Connection, Server
<1> QED
  BY <1>1, <1>2, <1>3, <1>4, <1>5, SendUse, LeaveUse DEF Next

\* Whatever the user, the browser and the server do, the page has one socket at a
\* time and none after logout, unless the close event of an older socket made it
\* forget the one in use (useChatWebSocket.ts, onClose and closeConnection).
THEOREM OneSocketAtATime == Spec => []OneSocket
<1>1. Init => SocketInv
  BY TypeInit DEF SocketInv, OneInUse, Init
<1>2. SocketInv => OneSocket
  BY DEF SocketInv, OneInUse, Alive, OneSocket
<1> QED
  BY <1>1, <1>2, SocketStep, PTL DEF Spec

-----------------------------------------------------------------------------
(* What the page shows *)

\* The last question.
Now == <<activeId, asked>>

Quiet(c) == c.asks = <<>> /\ c.frames = <<>>

\* A socket carries nothing but question x and the frames of its answer.
Carries(c, x) ==
    /\ c.asks = <<>> \/ c.asks = <<x>>
    /\ \A i \in DOMAIN c.frames :
          /\ c.frames[i][2] = x
          /\ c.frames[i][1] # "chunk" => i = Len(c.frames) /\ c.asks = <<>>
    /\ c.state = "connecting" => Quiet(c) /\ c.server = "none" /\ c.first = x

Used(c) == c.state \in {"connecting", "open"}

\* What is under way is about the last question, and nothing is when no answer is
\* awaited.
StreamHolds ==
    /\ streaming => mounted /\ activeId # NoSession
    /\ \A k \in DOMAIN sockets : Used(sockets[k]) => Carries(sockets[k], Now)
    /\ ~streaming => \A k \in DOMAIN sockets : Used(sockets[k]) => Quiet(sockets[k])
    /\ ~streaming => streamContent = <<>>
    /\ \A i \in DOMAIN streamContent : streamContent[i] = Now

LEMMA QuietCarries ==
    ASSUME NEW c \in Sockets, NEW x, Quiet(c), c.state # "connecting"
    PROVE  Carries(c, x)
  BY DEF Quiet, Carries

LEMMA OpenCarries ==
    ASSUME NEW c \in Sockets, NEW x, Carries(c, x), c.state = "connecting"
    PROVE  Carries([c EXCEPT !.state = "open", !.server = "up", !.asks = <<c.first>>], x)
<1>1. c.frames = <<>> /\ c.first = x
  BY DEF Carries, Quiet
<1> DEFINE d == [c EXCEPT !.state = "open", !.server = "up", !.asks = <<c.first>>]
<1>2. d.state = "open" /\ d.asks = <<x>> /\ d.frames = <<>>
  BY <1>1 DEF Sockets
<1> QED
  BY <1>2 DEF Carries

LEMMA ReceiveCarries ==
    ASSUME NEW c \in Sockets, NEW x, Carries(c, x), c.state = "open", c.frames # <<>>
    PROVE  /\ Carries([c EXCEPT !.frames = Tail(c.frames)], x)
           /\ Head(c.frames)[2] = x
           /\ Head(c.frames)[1] # "chunk" => Quiet([c EXCEPT !.frames = Tail(c.frames)])
<1> DEFINE d == [c EXCEPT !.frames = Tail(c.frames)]
<1>1. c.frames \in Seq(Frames) /\ 1 \in DOMAIN c.frames /\ Head(c.frames) = c.frames[1]
  BY SocketFields
<1>2. d.asks = c.asks /\ d.frames = Tail(c.frames) /\ d.state = "open"
  BY DEF Sockets
<1> HIDE DEF d
<1>3. Head(c.frames)[2] = x
  BY <1>1 DEF Carries
<1>4. ASSUME NEW i \in DOMAIN d.frames
      PROVE  /\ d.frames[i][2] = x
             /\ d.frames[i][1] # "chunk" => i = Len(d.frames) /\ d.asks = <<>>
  <2>1. /\ i + 1 \in DOMAIN c.frames /\ d.frames[i] = c.frames[i + 1] /\ i \in Int
        /\ Len(d.frames) = Len(c.frames) - 1
    BY <1>1, <1>2
  <2> QED
    BY <1>1, <1>2, <2>1 DEF Carries
<1>5. ASSUME Head(c.frames)[1] # "chunk" PROVE Quiet(d)
  <2>1. Len(c.frames) = 1 /\ c.asks = <<>>
    BY <1>1, <1>5 DEF Carries
  <2>2. Tail(c.frames) \in Seq(Frames) /\ Len(Tail(c.frames)) = 0
    BY <1>1, <2>1
  <2>3. Tail(c.frames) = <<>>
    BY <2>2, EmptySeq
  <2>4. d.asks = <<>> /\ d.frames = <<>>
    BY <1>2, <2>1, <2>3, Zenon
  <2> QED
    BY <2>4, Zenon DEF Quiet
<1>6. Carries(d, x)
  BY <1>2, <1>4 DEF Carries
<1> QED
  BY <1>3, <1>5, <1>6 DEF d

\* A frame more, when the frames before it are chunks of the same answer.
LEMMA SaidCarries ==
    ASSUME NEW c \in Sockets, NEW d, NEW x, NEW kind, Carries(c, x), c.asks # <<>>,
           d.state = c.state, d.frames = Append(c.frames, <<kind, Head(c.asks)>>),
           c.state # "connecting",
           \/ kind = "chunk" /\ d.asks = c.asks
           \/ d.asks = Tail(c.asks)
    PROVE  Carries(d, x)
<1>1. c.frames \in Seq(Frames)
  BY SocketFields
<1>2. c.asks = <<x>> /\ Head(c.asks) = x /\ Tail(c.asks) = <<>>
  <2>1. c.asks = <<x>>
    BY DEF Carries
  <2> QED
    BY <2>1
<1> DEFINE f == <<kind, x>>
<1>3. d.frames = Append(c.frames, f) /\ f[1] = kind /\ f[2] = x
  BY <1>2
<1> HIDE DEF f
<1>4. ASSUME NEW i \in DOMAIN d.frames
      PROVE  /\ d.frames[i][2] = x
             /\ d.frames[i][1] # "chunk" => i = Len(d.frames) /\ d.asks = <<>>
  <2>1. Len(d.frames) = Len(c.frames) + 1
    BY <1>1, <1>3
  <2>2. \/ i \in DOMAIN c.frames /\ d.frames[i] = c.frames[i]
        \/ i = Len(c.frames) + 1 /\ d.frames[i] = f
    BY <1>1, <1>3
  <2> QED
    BY <1>2, <1>3, <2>1, <2>2 DEF Carries
<1>5. d.asks = <<>> \/ d.asks = <<x>>
  BY <1>2
<1> QED
  BY <1>4, <1>5 DEF Carries

LEMMA StreamKept ==
    ASSUME StreamHolds,
           UNCHANGED <<mounted, activeId, asked, streaming, streamContent, sockets>>
    PROVE  StreamHolds'
  BY DEF StreamHolds, Now

\* When no answer is awaited, another session may become active.
LEMMA SessionChosen ==
    ASSUME TypeOK, OneInUse, StreamHolds, ~streaming,
           UNCHANGED <<streaming, streamContent, sockets>>
    PROVE  StreamHolds'
<1>1. ASSUME NEW k \in DOMAIN sockets, Used(sockets[k])
      PROVE  Quiet(sockets[k]) /\ Carries(sockets[k], Now')
  <2>1. Quiet(sockets[k]) /\ sockets[k].state # "connecting"
    BY <1>1 DEF StreamHolds, OneInUse
  <2> QED
    BY <1>1, <2>1, SocketsTyped, QuietCarries
<1>2. ~streaming' /\ streamContent' = <<>> /\ sockets' = sockets
  BY DEF StreamHolds
<1> QED
  BY <1>1, <1>2 DEF StreamHolds

LEMMA SocketChanged ==
    ASSUME TypeOK, StreamHolds, NEW k \in DOMAIN sockets, NEW d,
           sockets' = [sockets EXCEPT ![k] = d],
           UNCHANGED <<mounted, activeId, asked, streaming, streamContent>>,
           Used(d) => Carries(d, Now) /\ (~streaming => Quiet(d))
    PROVE  StreamHolds'
<1>1. ASSUME NEW j \in DOMAIN sockets', Used(sockets'[j])
      PROVE  Carries(sockets'[j], Now) /\ (~streaming => Quiet(sockets'[j]))
  <2>1. j \in DOMAIN sockets /\ sockets'[j] = IF j = k THEN d ELSE sockets[j]
    BY DEF TypeOK
  <2> QED
    BY <1>1, <2>1 DEF StreamHolds
<1>2. Now' = Now
  BY DEF Now
<1> QED
  BY <1>1, <1>2 DEF StreamHolds

LEMMA ConnectionStream ==
    ASSUME TypeOK, OneInUse, StreamHolds, NEW k \in DOMAIN sockets,
           Open(k) \/ NoticeEnd(k) \/ Server(k)
    PROVE  StreamHolds'
<1> DEFINE c == sockets[k]
<1>1. c \in Sockets
  BY SocketsTyped
<1>2. UNCHANGED <<mounted, activeId, asked, streaming, streamContent>>
  BY DEF Open, NoticeEnd, Server, ServerSaysChunk, ServerAnswers, ServerEnds, view
<1>3. Used(c) => Carries(c, Now) /\ (~streaming => Quiet(c)) /\ (c.state = "connecting" => streaming)
  BY DEF StreamHolds, OneInUse
<1>4. ASSUME NEW d, sockets' = [sockets EXCEPT ![k] = d],
             Used(d) => Carries(d, Now) /\ (~streaming => Quiet(d))
      PROVE  StreamHolds'
  BY <1>2, <1>4, SocketChanged
<1>5. ASSUME Used(c), c.server = "up" PROVE c.state # "connecting"
  BY <1>3, <1>5 DEF Carries
<1>6. CASE Open(k)
  <2> DEFINE d == [c EXCEPT !.state = "open", !.server = "up", !.asks = <<c.first>>]
  <2>1. sockets' = [sockets EXCEPT ![k] = d] /\ c.state = "connecting"
    BY <1>6 DEF Open
  <2>2. Carries(d, Now)
    BY <1>1, <1>3, <2>1, OpenCarries DEF Used
  <2> HIDE DEF d, c
  <2> QED
    BY <1>3, <1>4, <2>1, <2>2 DEF Used
<1>7. CASE NoticeEnd(k)
  <2> DEFINE d == [c EXCEPT !.state = "closing"]
  <2>1. sockets' = [sockets EXCEPT ![k] = d]
    BY <1>7 DEF NoticeEnd
  <2>2. ~Used(d)
    BY <1>1 DEF Used, Sockets
  <2> HIDE DEF d
  <2> QED
    BY <1>4, <2>1, <2>2
<1>8. CASE ServerSaysChunk(k)
  <2> DEFINE d == [c EXCEPT !.frames = Append(c.frames, <<"chunk", Head(c.asks)>>), !.said = TRUE]
  <2>1. sockets' = [sockets EXCEPT ![k] = d] /\ c.asks # <<>> /\ c.server = "up"
    BY <1>8 DEF ServerSaysChunk
  <2>2. /\ d.state = c.state /\ d.asks = c.asks
        /\ d.frames = Append(c.frames, <<"chunk", Head(c.asks)>>)
    BY <1>1 DEF Sockets
  <2> HIDE DEF d
  <2>3. ASSUME Used(d) PROVE Carries(d, Now) /\ streaming
    <3>1. Used(c) /\ Carries(c, Now) /\ c.state # "connecting"
      BY <1>3, <1>5, <2>1, <2>2, <2>3 DEF Used
    <3>2. Carries(d, Now)
      BY <1>1, <2>1, <2>2, <3>1, SaidCarries
    <3> QED
      BY <1>3, <2>1, <3>1, <3>2 DEF Quiet
  <2> QED
    BY <1>4, <2>1, <2>3
<1>9. CASE ServerAnswers(k)
  <2>1. PICK kind \in {"done", "error"} :
           sockets' = [sockets EXCEPT ![k] = [c EXCEPT !.frames = Append(c.frames, <<kind, Head(c.asks)>>),
                                                       !.asks = Tail(c.asks), !.said = FALSE]]
    BY <1>9 DEF ServerAnswers
  <2> DEFINE d == [c EXCEPT !.frames = Append(c.frames, <<kind, Head(c.asks)>>),
                            !.asks = Tail(c.asks), !.said = FALSE]
  <2>2. c.asks # <<>> /\ c.server = "up"
    BY <1>9 DEF ServerAnswers
  <2>3. /\ d.state = c.state /\ d.asks = Tail(c.asks)
        /\ d.frames = Append(c.frames, <<kind, Head(c.asks)>>)
    BY <1>1 DEF Sockets
  <2>4. sockets' = [sockets EXCEPT ![k] = d]
    BY <2>1
  <2> HIDE DEF d
  <2>5. ASSUME Used(d) PROVE Carries(d, Now) /\ streaming
    <3>1. Used(c) /\ Carries(c, Now) /\ c.state # "connecting"
      BY <1>3, <1>5, <2>2, <2>3, <2>5 DEF Used
    <3>2. Carries(d, Now)
      BY <1>1, <2>2, <2>3, <3>1, SaidCarries
    <3> QED
      BY <1>3, <2>2, <3>1, <3>2 DEF Quiet
  <2> QED
    BY <1>4, <2>4, <2>5
<1>10. CASE ServerEnds(k)
  <2> DEFINE d == [c EXCEPT !.server = "ended", !.asks = <<>>]
  <2>1. sockets' = [sockets EXCEPT ![k] = d] /\ c.server = "up"
    BY <1>10 DEF ServerEnds
  <2>2. d.state = c.state /\ d.asks = <<>> /\ d.frames = c.frames
    BY <1>1 DEF Sockets
  <2> HIDE DEF d
  <2>3. ASSUME Used(d) PROVE Carries(d, Now) /\ (~streaming => Quiet(d))
    <3>1. Used(c) /\ Carries(c, Now) /\ (~streaming => Quiet(c)) /\ c.state # "connecting"
      BY <1>3, <1>5, <2>1, <2>2, <2>3 DEF Used
    <3> QED
      BY <2>2, <3>1 DEF Carries, Quiet
  <2> QED
    BY <1>4, <2>1, <2>3
<1> QED
  BY <1>6, <1>7, <1>8, <1>9, <1>10 DEF Server

LEMMA ReceiveStream ==
    ASSUME TypeOK, OneInUse, StreamHolds, NEW k \in DOMAIN sockets, Receive(k)
    PROVE  /\ StreamHolds'
           /\ streaming /\ Head(sockets[k].frames)[2] = Now
<1> DEFINE c == sockets[k]
           d == [c EXCEPT !.frames = Tail(c.frames)]
<1>1. c \in Sockets /\ c.state = "open" /\ c.frames # <<>>
  BY SocketsTyped DEF Receive
<1>2. sockets' = [sockets EXCEPT ![k] = d] /\ UNCHANGED <<mounted, activeId, asked>> /\ mounted
  BY DEF Receive
<1>3. Carries(c, Now) /\ streaming
  BY <1>1 DEF StreamHolds, Used, Quiet
<1>4. /\ Carries(d, Now)
      /\ Head(c.frames)[2] = Now
      /\ Head(c.frames)[1] # "chunk" => Quiet(d)
  BY <1>1, <1>3, ReceiveCarries
<1>5. ASSUME NEW j \in DOMAIN sockets', Used(sockets'[j])
      PROVE  j = k /\ sockets'[j] = d
  <2>1. /\ j \in DOMAIN sockets /\ sockets'[j] = IF j = k THEN d ELSE sockets[j]
        /\ d.state = c.state
    BY <1>1, <1>2 DEF TypeOK, Sockets
  <2>2. Alive(j) /\ Alive(k)
    BY <1>1, <1>5, <2>1 DEF Used, Alive
  <2> QED
    BY <2>1, <2>2 DEF OneInUse
<1>6. Now' = Now
  BY <1>2 DEF Now
<1> HIDE DEF d, c
<1>7. CASE /\ streamContent' = Append(streamContent, Head(c.frames)[2])
           /\ UNCHANGED <<messages, streaming>>
  <2>1. streamContent \in Seq(Exchanges)
    BY DEF TypeOK
  <2>2. \A i \in DOMAIN streamContent' : streamContent'[i] = Now
    BY <1>4, <1>7, <2>1 DEF StreamHolds
  <2>3. streaming' /\ mounted' /\ activeId' # NoSession
    BY <1>2, <1>3, <1>7 DEF StreamHolds
  <2>4. \A j \in DOMAIN sockets' : Used(sockets'[j]) => Carries(sockets'[j], Now)
    BY <1>4, <1>5
  <2> QED
    BY <1>3, <1>4, <1>6, <2>2, <2>3, <2>4 DEF StreamHolds, c
<1>8. CASE Head(c.frames)[1] # "chunk" /\ ~streaming' /\ streamContent' = <<>>
  <2>1. \A j \in DOMAIN sockets' : Used(sockets'[j]) => Carries(sockets'[j], Now) /\ Quiet(sockets'[j])
    BY <1>4, <1>5, <1>8
  <2> QED
    BY <1>3, <1>4, <1>6, <1>8, <2>1 DEF StreamHolds, c
<1>9. \/ /\ streamContent' = Append(streamContent, Head(c.frames)[2])
         /\ UNCHANGED <<messages, streaming>>
      \/ Head(c.frames)[1] # "chunk" /\ ~streaming' /\ streamContent' = <<>>
  BY DEF Receive, c
<1> QED
  BY <1>7, <1>8, <1>9

LEMMA SendStream ==
    ASSUME TypeOK, OneInUse, StreamHolds, Send
    PROVE  StreamHolds'
<1>1. /\ mounted' /\ activeId' # NoSession /\ streaming'
      /\ streamContent' = <<>> /\ Now' = Question
  BY DEF Send, Now, Question
<1>2. ASSUME NEW k \in DOMAIN sockets, Used(sockets[k])
      PROVE  /\ Quiet(sockets[k]) /\ sockets[k].state = "open" /\ wsRef = k
             /\ IsOpen(wsRef)
  <2>1. Quiet(sockets[k]) /\ sockets[k].state # "connecting" /\ wsRef = k
    BY <1>2 DEF StreamHolds, OneInUse, Used, Alive, Send
  <2>2. k # 0
    BY DEF TypeOK
  <2> QED
    BY <1>2, <2>1, <2>2 DEF Used, IsOpen
<1>3. ASSUME NEW k \in DOMAIN sockets', Used(sockets'[k])
      PROVE  Carries(sockets'[k], Question)
  <2>1. CASE IsOpen(wsRef)
    <3> DEFINE c == sockets[wsRef]
    <3>1. wsRef \in DOMAIN sockets
      BY <2>1 DEF IsOpen, TypeOK
    <3>2. c \in Sockets /\ c.asks = <<>> /\ c.frames = <<>> /\ c.state = "open"
      BY <1>2, <2>1, <3>1, SocketsTyped DEF IsOpen, Used, Quiet
    <3>3. PICK as : /\ as = c.asks \/ as = Append(c.asks, Question)
                    /\ sockets' = [sockets EXCEPT ![wsRef].asks = as]
      BY <2>1, <3>1 DEF Send
    <3>4. as = <<>> \/ as = <<Question>>
      <4>1. Append(<<>>, Question) = <<Question>>
        OBVIOUS
      <4> QED
        BY <3>2, <3>3, <4>1, Zenon
    <3>5. /\ k \in DOMAIN sockets
          /\ sockets'[k] = IF k = wsRef THEN [c EXCEPT !.asks = as] ELSE sockets[k]
      BY <3>1, <3>3 DEF TypeOK
    <3>6. k = wsRef
      BY <1>2, <1>3, <3>5
    <3> DEFINE d == [c EXCEPT !.asks = as]
    <3>7. d.asks = as /\ d.frames = <<>> /\ d.state = "open" /\ sockets'[k] = d
      BY <3>2, <3>5, <3>6 DEF Sockets
    <3> HIDE DEF d, c
    <3>8. DOMAIN d.frames = {}
      BY <3>7
    <3>9. d.asks = <<>> \/ d.asks = <<Question>>
      BY <3>4, <3>7
    <3>10. Carries(d, Question)
      BY <3>7, <3>8, <3>9, Zenon DEF Carries
    <3> QED
      BY <3>7, <3>10
  <2>2. CASE ~IsOpen(wsRef)
    <3>1. sockets' = Append(sockets, NewSocket(activeId, Question))
      BY <2>2 DEF Send
    <3>2. \/ k \in DOMAIN sockets /\ sockets'[k] = sockets[k]
          \/ sockets'[k] = NewSocket(activeId, Question)
      BY <3>1 DEF TypeOK
    <3>3. sockets'[k] = NewSocket(activeId, Question)
      BY <1>2, <1>3, <2>2, <3>2
    <3> QED
      BY <3>3 DEF NewSocket, Carries, Quiet
  <2> QED
    BY <2>1, <2>2
<1> QED
  BY <1>1, <1>3 DEF StreamHolds

\* When no socket is in use, what the sockets hold does not matter.
LEMMA NoneUsed ==
    ASSUME ~streaming', streamContent' = <<>>,
           \A k \in DOMAIN sockets' : ~Used(sockets'[k])
    PROVE  StreamHolds'
  BY DEF StreamHolds

LEMMA EndStream ==
    ASSUME TypeOK, OneInUse', OneInUse, Leave \/ \E k \in DOMAIN sockets : Close(k),
           "lateClose" \notin slips'
    PROVE  StreamHolds'
<1>1. CASE Leave
  <2>1. ~streaming' /\ streamContent' = <<>> /\ ~mounted'
    BY <1>1 DEF Leave
  <2> QED
    BY <2>1, NoneUsed DEF OneInUse, Used, Alive
<1>2. ASSUME NEW k \in DOMAIN sockets, Close(k) PROVE StreamHolds'
  <2>1. ~streaming' /\ streamContent' = <<>> /\ wsRef' = 0
    BY <1>2 DEF Close
  <2>2. \A j \in DOMAIN sockets' : j # 0
    BY <1>2 DEF Close, TypeOK
  <2> QED
    BY <2>1, <2>2, NoneUsed DEF OneInUse, Used, Alive
<1> QED
  BY <1>1, <1>2

\* Neither race that the stream cannot survive has happened.
Undisturbed == "lateClose" \notin slips /\ "lateList" \notin slips

LEMMA ListStream ==
    ASSUME TypeOK, OneInUse, StreamHolds, NEW ids \in Lists, ListArrives(ids),
           "lateList" \notin slips'
    PROVE  StreamHolds'
<1>1. UNCHANGED <<mounted, asked, streaming, streamContent, sockets>>
  BY DEF ListArrives, stream
<1>2. CASE activeId' = activeId
  BY <1>1, <1>2, StreamKept
<1>3. CASE activeId' # activeId
  <2>1. ~streaming
    BY <1>3 DEF ListArrives, StreamHolds
  <2> QED
    BY <1>1, <2>1, SessionChosen
<1> QED
  BY <1>2, <1>3

LEMMA StreamStep ==
    ASSUME TypeOK, OneInUse, OneInUse', StreamHolds, [Next]_vars, Undisturbed'
    PROVE  StreamHolds'
<1>1. CASE UNCHANGED vars
  BY <1>1, StreamKept DEF vars
<1>2. ASSUME NEW ids \in Lists, ListArrives(ids) PROVE StreamHolds'
  BY <1>2, ListStream DEF Undisturbed
<1>3. ASSUME NEW s \in Sessions, CreateNewSession(s) \/ SelectSession(s) PROVE StreamHolds'
  BY <1>3, SessionChosen DEF CreateNewSession, SelectSession, stream
<1>4. ASSUME NEW i \in 1..MaxLoads, History(i) PROVE StreamHolds'
  <2>1. UNCHANGED <<mounted, activeId, asked, streaming, streamContent, sockets>>
    BY <1>4 DEF History, HistoryArrives, HistoryFails, stream
  <2> QED
    BY <2>1, StreamKept
<1>5. ASSUME NEW k \in 1..MaxSockets, Connection(k) \/ Server(k) PROVE StreamHolds'
  <2>1. k \in DOMAIN sockets
    BY <1>5 DEF Connection, Server
  <2> QED
    BY <1>5, <2>1, ConnectionStream, ReceiveStream, EndStream DEF Connection, Undisturbed
<1> QED
  BY <1>1, <1>2, <1>3, <1>4, <1>5, SendStream, EndStream DEF Next, Undisturbed

\* Exchange x is in chat memory, which keeps answers only, and its question is not
\* among the messages m.
Alone(m, x) ==
    /\ backend = "cassandra"
    /\ \E s \in Sessions : \E j \in DOMAIN saved[s] : saved[s][j] = x
    /\ \A j \in DOMAIN m : m[j] # <<"user", x>>

\* Each answer is under its question, or alone.
InPlace(m) ==
    \A i \in DOMAIN m :
        m[i][1] = "agent" =>
            \/ i > 1 /\ m[i - 1] = <<"user", Exchange(m[i])>>
            \/ Alone(m, Exchange(m[i]))

\* Why the page may show exchange x.
Belongs(x) ==
    \/ x[1] = activeId
    \/ \E j \in DOMAIN loads : loads[j].pending /\ loads[j].of = activeId
    \/ \E j \in DOMAIN saved[activeId] : saved[activeId][j] = x

\* What the page shows is of its session, and the question that is being answered
\* is the last of it.
ViewHolds ==
    /\ activeId = NoSession => messages = <<>>
    /\ \A i \in DOMAIN messages : Belongs(Exchange(messages[i]))
    /\ InPlace(messages)
    /\ streaming => messages # <<>> /\ Last(messages) = <<"user", Now>>

LEMMA RowsInPlace ==
    ASSUME NEW h \in Seq(Exchanges)
    PROVE  /\ InPlace(Rows(h))
           /\ \A i \in DOMAIN Rows(h) : \E j \in DOMAIN h : Exchange(Rows(h)[i]) = h[j]
<1>1. DOMAIN Rows(h) = 1..(2 * Len(h)) /\ Len(h) \in Nat
  BY DEF Rows
<1>2. ASSUME NEW i \in 1..(2 * Len(h))
      PROVE  /\ (i + 1) \div 2 \in DOMAIN h
             /\ Exchange(Rows(h)[i]) = h[(i + 1) \div 2]
             /\ Rows(h)[i] = <<IF i % 2 = 1 THEN "user" ELSE "agent", h[(i + 1) \div 2]>>
  BY DEF Rows, Exchange
<1>3. ASSUME NEW i \in 1..(2 * Len(h)), Rows(h)[i][1] = "agent"
      PROVE  i > 1 /\ Rows(h)[i - 1] = <<"user", Exchange(Rows(h)[i])>>
  <2>1. i % 2 # 1
    BY <1>2, <1>3
  <2>2. i - 1 \in 1..(2 * Len(h)) /\ (i - 1) % 2 = 1 /\ i > 1
    BY <1>1, <2>1
  <2>3. ((i - 1) + 1) \div 2 = (i + 1) \div 2
    BY <2>1
  <2>4. Rows(h)[i - 1] = <<"user", h[(i + 1) \div 2]>>
    BY <1>2, <2>2, <2>3
  <2> QED
    BY <1>2, <2>2, <2>4
<1> QED
  BY <1>1, <1>2, <1>3 DEF InPlace

LEMMA AnswersInPlaceAlone ==
    ASSUME NEW h \in Seq(Exchanges), backend = "cassandra", NEW s \in Sessions,
           \A j \in DOMAIN h : \E n \in DOMAIN saved[s] : h[j] = saved[s][n]
    PROVE  /\ InPlace(Answers(h))
           /\ \A i \in DOMAIN Answers(h) : \E j \in DOMAIN h : Exchange(Answers(h)[i]) = h[j]
<1>1. DOMAIN Answers(h) = DOMAIN h
  BY DEF Answers
<1>2. \A i \in DOMAIN h :
         /\ Answers(h)[i] = <<"agent", h[i]>>
         /\ Exchange(Answers(h)[i]) = h[i]
  BY DEF Answers, Exchange
<1>3. ASSUME NEW i \in DOMAIN h PROVE Alone(Answers(h), h[i])
  <2>1. \A j \in DOMAIN h : Answers(h)[j] # <<"user", h[i]>>
    BY <1>2
  <2> QED
    BY <1>1, <2>1 DEF Alone
<1> QED
  BY <1>1, <1>2, <1>3 DEF InPlace

\* Chat memory goes on having what it has.
LEMMA BackendStays == [Next]_vars => backend' = backend
  BY DEF Next, ListArrives, CreateNewSession, SelectSession, History, HistoryArrives,
         HistoryFails, Send, Leave, Connection, Open, Receive, NoticeEnd, Close,
         Server, ServerSaysChunk, ServerAnswers, ServerEnds, vars

LEMMA SavedGrows ==
    ASSUME TypeOK, [Next]_vars, NEW s \in Sessions, NEW j \in DOMAIN saved[s]
    PROVE  j \in DOMAIN saved'[s] /\ saved'[s][j] = saved[s][j]
<1>1. CASE saved' = saved
  BY <1>1
<1>2. CASE \E k \in DOMAIN sockets :
              /\ sockets[k].asks # <<>>
              /\ saved' = [saved EXCEPT ![sockets[k].of] = Append(@, Head(sockets[k].asks))]
  <2>1. PICK t, x : saved' = [saved EXCEPT ![t] = Append(@, x)]
    BY <1>2
  <2>2. saved \in [Sessions -> Seq(Exchanges)]
    BY DEF TypeOK
  <2>3. saved'[s] = saved[s] \/ saved'[s] = Append(saved[s], x)
    BY <2>1, <2>2
  <2>4. saved[s] \in Seq(Exchanges)
    BY <2>2
  <2> QED
    BY <2>3, <2>4
<1> QED
  BY <1>1, <1>2, SavedSteps

LEMMA EmptyView ==
    ASSUME messages' = <<>>, ~streaming'
    PROVE  ViewHolds'
<1>1. DOMAIN messages' = {}
  OBVIOUS
<1> QED
  BY <1>1, Zenon DEF ViewHolds, InPlace

LEMMA ViewKept ==
    ASSUME TypeOK, [Next]_vars, ViewHolds, UNCHANGED <<messages, activeId, asked, loads>>,
           streaming' => streaming
    PROVE  ViewHolds'
<1>1. ASSUME NEW x, Belongs(x), activeId \in Sessions PROVE Belongs(x)'
  BY <1>1, SavedGrows DEF Belongs
<1>2. ASSUME NEW i \in DOMAIN messages' PROVE Belongs(Exchange(messages[i]))'
  <2>1. activeId \in Sessions /\ i \in DOMAIN messages
    BY <1>2 DEF ViewHolds, TypeOK
  <2> QED
    BY <1>1, <2>1 DEF ViewHolds
<1>3. InPlace(messages)'
  <2>1. ASSUME NEW x, Alone(messages, x) PROVE Alone(messages, x)'
    BY <2>1, BackendStays, SavedGrows DEF Alone
  <2>2. \A i \in DOMAIN messages :
           messages[i][1] = "agent" =>
               \/ i > 1 /\ messages[i - 1] = <<"user", Exchange(messages[i])>>
               \/ Alone(messages, Exchange(messages[i]))'
    BY <2>1 DEF ViewHolds, InPlace
  <2> QED
    BY <2>2 DEF InPlace
<1>4. streaming' => messages' # <<>> /\ Last(messages') = <<"user", Now'>>
  BY Zenon DEF ViewHolds, Now
<1> QED
  BY <1>2, <1>3, <1>4 DEF ViewHolds

\* A message about the active session is added.
LEMMA MessageAdded ==
    ASSUME TypeOK, ViewHolds, UNCHANGED <<activeId, loads, saved, backend>>,
           activeId # NoSession,
           NEW r \in {"user", "agent"}, NEW x \in Exchanges, x[1] = activeId,
           messages' = Append(messages, <<r, x>>),
           r = "agent" => messages # <<>> /\ Last(messages) = <<"user", x>>,
           r = "user" => \A s \in Sessions : \A j \in DOMAIN saved[s] : saved[s][j] # x,
           streaming' => r = "user" /\ Now' = x
    PROVE  ViewHolds'
<1> DEFINE m == <<r, x>>
<1>1. messages \in Seq(Messages) /\ m \in Messages /\ m[1] = r /\ Exchange(m) = x
  BY DEF TypeOK, Messages, Exchange
<1>2. messages' = Append(messages, m)
  OBVIOUS
<1> HIDE DEF m
<1>3. ASSUME NEW i \in DOMAIN messages'
      PROVE  \/ /\ i \in DOMAIN messages /\ messages'[i] = messages[i]
                /\ i - 1 \in DOMAIN messages => messages'[i - 1] = messages[i - 1]
             \/ /\ i = Len(messages) + 1 /\ messages'[i] = m
                /\ messages # <<>> => messages'[i - 1] = Last(messages) /\ i > 1
  BY <1>1, <1>2 DEF Last
<1>4. ASSUME NEW i \in DOMAIN messages' PROVE Belongs(Exchange(messages[i]))'
  BY <1>1, <1>3 DEF ViewHolds, Belongs
<1>5. InPlace(messages)'
  <2> SUFFICES ASSUME NEW i \in DOMAIN messages', messages'[i][1] = "agent"
               PROVE  \/ i > 1 /\ messages'[i - 1] = <<"user", Exchange(messages'[i])>>
                      \/ Alone(messages, Exchange(messages[i]))'
    BY DEF InPlace, Exchange
  <2>0. ASSUME NEW y, Alone(messages, y) PROVE Alone(messages, y)'
    <3>1. m # <<"user", y>>
      BY <2>0 DEF Alone, m
    <3>2. \A j \in DOMAIN messages' : messages'[j] # <<"user", y>>
      BY <1>3, <2>0, <3>1 DEF Alone
    <3> QED
      BY <2>0, <3>2 DEF Alone
  <2>1. CASE /\ i \in DOMAIN messages /\ messages'[i] = messages[i]
             /\ i - 1 \in DOMAIN messages => messages'[i - 1] = messages[i - 1]
    <3>1. CASE i > 1 /\ messages[i - 1] = <<"user", Exchange(messages[i])>>
      <4>1. i - 1 \in DOMAIN messages
        BY <1>1, <2>1, <3>1
      <4> QED
        BY <2>1, <3>1, <4>1
    <3>2. CASE Alone(messages, Exchange(messages[i]))
      <4>1. Alone(messages, Exchange(messages[i]))'
        BY <2>0, <2>1, <3>2
      <4> QED
        BY <4>1
    <3> QED
      BY <2>1, <3>1, <3>2 DEF ViewHolds, InPlace
  <2>2. CASE /\ i = Len(messages) + 1 /\ messages'[i] = m
             /\ messages # <<>> => messages'[i - 1] = Last(messages) /\ i > 1
    BY <1>1, <2>2
  <2> QED
    BY <1>3, <2>1, <2>2
<1>6. messages' # <<>> /\ Last(messages') = m
  <2>1. /\ Len(Append(messages, m)) = Len(messages) + 1
        /\ Append(messages, m)[Len(messages) + 1] = m
        /\ Append(messages, m) # <<>>
    BY <1>1, AppendProperties
  <2> QED
    BY <1>2, <2>1 DEF Last
<1>7. streaming' => messages' # <<>> /\ Last(messages') = <<"user", Now'>>
  BY <1>6 DEF m
<1> QED
  BY <1>4, <1>5, <1>7 DEF ViewHolds

LEMMA ReceiveView ==
    ASSUME TypeOK, OneInUse, StreamHolds, ViewHolds, [Next]_vars,
           NEW k \in DOMAIN sockets, Receive(k)
    PROVE  ViewHolds'
<1> DEFINE x == Head(sockets[k].frames)[2]
<1>1. streaming /\ x = Now /\ activeId # NoSession
  BY ReceiveStream DEF StreamHolds
<1>2. UNCHANGED <<activeId, asked, loads, saved, backend>>
  BY DEF Receive
<1>3. CASE UNCHANGED messages
  BY <1>1, <1>2, <1>3, ViewKept
<1>4. CASE messages' = Append(messages, <<"agent", x>>) /\ ~streaming'
  <2>1. x \in Exchanges /\ x[1] = activeId
    <3>1. Now \in Exchanges /\ Now[1] = activeId
      BY <1>1, PageAssumption DEF Now, Exchanges, TypeOK
    <3> QED
      BY <1>1, <3>1
  <2>2. messages # <<>> /\ Last(messages) = <<"user", x>>
    BY <1>1 DEF ViewHolds
  <2> HIDE DEF x
  <2> QED
    BY <1>1, <1>2, <1>4, <2>1, <2>2, MessageAdded
<1>5. UNCHANGED messages \/ (messages' = Append(messages, <<"agent", x>>) /\ ~streaming')
  BY DEF Receive
<1> QED
  BY <1>3, <1>4, <1>5

LEMMA SendView ==
    ASSUME TypeOK, SavedAsked, ViewHolds, Send
    PROVE  ViewHolds'
<1>1. Question \in Exchanges
  BY QuestionTyped DEF Send
<1>2. UNCHANGED <<activeId, loads, saved, backend>> /\ activeId # NoSession /\ Now' = Question
  BY DEF Send, Now, Question
<1>3. Question[1] = activeId
  BY DEF Question
<1>4. messages' = Append(messages, <<"user", Question>>)
  BY DEF Send
<1>5. \A s \in Sessions : \A j \in DOMAIN saved[s] : saved[s][j] # Question
  <2>1. asked \in Int /\ Question[2] = asked + 1 /\ ~(asked + 1 <= asked)
    BY PageAssumption DEF TypeOK, Question
  <2> QED
    BY <2>1 DEF SavedAsked
<1> QED
  BY <1>1, <1>2, <1>3, <1>4, <1>5, MessageAdded

LEMMA HistoryView ==
    ASSUME TypeOK, NEW i \in DOMAIN loads, HistoryArrives(i), slips' = {}
    PROVE  ViewHolds'
<1> DEFINE s == loads[i].of
<1>1. s \in Sessions /\ saved[s] \in Seq(Exchanges) /\ loads[i].from \in Nat
  <2>1. loads[i] \in Loads
    BY DEF TypeOK
  <2> QED
    BY <2>1 DEF TypeOK, Loads
<1>2. PICK k \in {0} \cup loads[i].from..Len(saved[s]) : messages' = Reply(SubSeq(saved[s], 1, k))
  BY DEF HistoryArrives
<1>3. s = activeId /\ ~streaming
  BY DEF HistoryArrives
<1>4. UNCHANGED <<activeId, streaming, saved, backend>>
  BY DEF HistoryArrives, stream
<1> DEFINE h == SubSeq(saved[s], 1, k)
<1>5. h \in Seq(Exchanges) /\ \A j \in DOMAIN h : j \in DOMAIN saved[s] /\ h[j] = saved[s][j]
  BY <1>1, <1>2
<1>6. messages' = Reply(h)
  BY <1>2
<1> HIDE DEF h
<1>7. PICK g \in Seq(Exchanges) :
         /\ \A j \in DOMAIN g : \E n \in DOMAIN h : g[j] = h[n]
         /\ \/ messages' = Rows(g)
            \/ backend = "cassandra" /\ messages' = Answers(g)
  BY <1>5, <1>6, ReplyParts
<1>8. \A j \in DOMAIN g : \E n \in DOMAIN saved[s] : g[j] = saved[s][n]
  BY <1>5, <1>7
<1>9. /\ InPlace(messages')
      /\ \A j \in DOMAIN messages' : \E n \in DOMAIN g : Exchange(messages'[j]) = g[n]
  BY <1>1, <1>7, <1>8, RowsInPlace, AnswersInPlaceAlone
<1>10. InPlace(messages)'
  BY <1>4, <1>9 DEF InPlace, Alone, Exchange
<1>11. ASSUME NEW j \in DOMAIN messages' PROVE Belongs(Exchange(messages[j]))'
  <2>1. PICK n \in DOMAIN saved[s] : Exchange(messages'[j]) = saved[s][n]
    BY <1>8, <1>9, <1>11
  <2>2. n \in DOMAIN saved'[activeId'] /\ saved'[activeId'][n] = Exchange(messages[j])'
    BY <1>3, <1>4, <2>1 DEF Exchange
  <2> QED
    BY <2>2 DEF Belongs
<1>12. activeId' # NoSession /\ ~streaming'
  BY <1>1, <1>3, <1>4, PageAssumption
<1> QED
  BY <1>10, <1>11, <1>12 DEF ViewHolds

LEMMA ListView ==
    ASSUME TypeOK, StreamHolds, ViewHolds, [Next]_vars, slips' = {},
           NEW ids \in Lists, ListArrives(ids)
    PROVE  ViewHolds'
<1>1. UNCHANGED <<asked, streaming, streamContent, saved>>
  BY DEF ListArrives, stream
<1>2. CASE UNCHANGED <<activeId, loads, messages>>
  BY <1>1, <1>2, ViewKept
<1>3. CASE activeId = NoSession /\ UNCHANGED messages
  <2>1. messages' = <<>> /\ ~streaming'
    BY <1>1, <1>3 DEF ViewHolds, StreamHolds
  <2> QED
    BY <2>1, EmptyView
<1>4. CASE messages' = <<>> /\ slips' = IF streaming THEN slips \cup {"lateList"} ELSE slips
  <2>1. ~streaming'
    BY <1>1, <1>4
  <2> QED
    BY <1>4, <2>1, EmptyView
<1> QED
  BY <1>2, <1>3, <1>4 DEF ListArrives

LEMMA SelectView ==
    ASSUME TypeOK, ViewHolds, NEW s \in Sessions, SelectSession(s)
    PROVE  ViewHolds'
<1>1. activeId' = s /\ UNCHANGED <<messages, streaming>> /\ ~streaming /\ Load(s)
  BY DEF SelectSession, stream
<1>2. Len(loads) + 1 \in DOMAIN loads' /\ loads'[Len(loads) + 1].pending
      /\ loads'[Len(loads) + 1].of = s
  BY <1>1 DEF Load, TypeOK
<1>3. \A x : Belongs(x)'
  BY <1>1, <1>2 DEF Belongs
<1>4. s # NoSession
  BY PageAssumption
<1>5. InPlace(messages)'
  <2>1. UNCHANGED <<messages, saved, backend>>
    BY DEF SelectSession, stream
  <2> QED
    BY <2>1 DEF ViewHolds, InPlace, Alone, Exchange
<1> QED
  BY <1>1, <1>3, <1>4, <1>5 DEF ViewHolds

\* With none of the races behind it, the page shows what it should; the two
\* kinds of step that can forget a race leave messages that are as they should be.
ViewInv == slips = {} => ViewHolds

LEMMA ViewStep ==
    ASSUME TypeOK, SavedAsked, OneInUse, StreamHolds, ViewInv, [Next]_vars, slips' = {}
    PROVE  ViewHolds'
<1>1. CASE UNCHANGED vars
  BY <1>1, ViewKept DEF vars, ViewInv
<1>2. ASSUME NEW ids \in Lists, ListArrives(ids) PROVE ViewHolds'
  <2>1. slips = {}
    BY <1>2 DEF ListArrives
  <2> QED
    BY <1>2, <2>1, ListView DEF ViewInv
<1>3. ASSUME NEW s \in Sessions, CreateNewSession(s) PROVE ViewHolds'
  BY <1>3, EmptyView DEF CreateNewSession, stream
<1>4. ASSUME NEW s \in Sessions, SelectSession(s) PROVE ViewHolds'
  BY <1>4, SelectView DEF SelectSession, ViewInv
<1>5. ASSUME NEW i \in 1..MaxLoads, History(i) PROVE ViewHolds'
  BY <1>5, HistoryView DEF History, HistoryFails
<1>6. ASSUME Send PROVE ViewHolds'
  BY <1>6, SendView DEF Send, ViewInv
<1>7. ASSUME Leave PROVE ViewHolds'
  BY <1>7, EmptyView DEF Leave
<1>8. ASSUME NEW k \in 1..MaxSockets, Connection(k) \/ Server(k) PROVE ViewHolds'
  <2>1. slips = {} /\ k \in DOMAIN sockets
    BY <1>8 DEF Connection, Open, Receive, NoticeEnd, Close,
                Server, ServerSaysChunk, ServerAnswers, ServerEnds
  <2>2. CASE Receive(k)
    BY <2>1, <2>2, ReceiveView DEF ViewInv
  <2>3. CASE ~Receive(k)
    <3>1. UNCHANGED <<messages, activeId, asked, loads>>
      BY <1>8, <2>3 DEF Connection, Open, NoticeEnd, Close,
                Server, ServerSaysChunk, ServerAnswers, ServerEnds, view
    <3>2. streaming' => streaming
      BY <1>8, <2>3, Zenon DEF Connection, Open, NoticeEnd, Close,
                Server, ServerSaysChunk, ServerAnswers, ServerEnds, view
    <3> QED
      BY <2>1, <3>1, <3>2, ViewKept DEF ViewInv
  <2> QED
    BY <2>2, <2>3
<1> QED
  BY <1>1, <1>2, <1>3, <1>4, <1>5, <1>6, <1>7, <1>8 DEF Next

PageInv == FiledInv /\ SocketInv /\ (Undisturbed => StreamHolds) /\ ViewInv

LEMMA PageInit == Init => PageInv
<1> SUFFICES ASSUME Init PROVE PageInv
  OBVIOUS
<1>1. SocketInv
  BY TypeInit DEF SocketInv, OneInUse, Init
<1>2. messages = <<>> /\ ~streaming /\ sockets = <<>> /\ streamContent = <<>>
  BY DEF Init
<1>3. DOMAIN messages = {} /\ DOMAIN sockets = {} /\ DOMAIN streamContent = {}
  BY <1>2
<1>4. StreamHolds
  BY <1>2, <1>3, Zenon DEF StreamHolds
<1>5. ViewHolds
  BY <1>2, <1>3, Zenon DEF ViewHolds, InPlace
<1> QED
  BY <1>1, <1>4, <1>5, FiledInit DEF PageInv, ViewInv

LEMMA PageStep == PageInv /\ [Next]_vars => PageInv'
<1> SUFFICES ASSUME PageInv, [Next]_vars PROVE PageInv'
  OBVIOUS
<1>1. TypeOK /\ SavedAsked /\ FiledInv' /\ SocketInv'
  BY FiledKept, SocketStep DEF PageInv, FiledInv, SocketInv
<1>2. ASSUME Undisturbed' PROVE Undisturbed /\ OneInUse /\ OneInUse' /\ StreamHolds
  BY <1>1, <1>2, SlipsStay DEF Undisturbed, PageInv, SocketInv
<1>3. ASSUME Undisturbed' PROVE StreamHolds'
  BY <1>1, <1>2, <1>3, StreamStep
<1>4. ASSUME slips' = {} PROVE ViewHolds'
  <2>1. Undisturbed'
    BY <1>4 DEF Undisturbed
  <2> QED
    BY <1>1, <1>2, <1>4, <2>1, ViewStep DEF PageInv
<1> QED
  BY <1>1, <1>3, <1>4 DEF PageInv, ViewInv

\* Whatever is loaded, asked and answered in whatever order, the page shows a
\* message of another session only while it waits for the history of its own, if
\* chat memory has it so, or after one of the races it has no guard against
\* (useMessages.ts, loadMessages; useChatSessions.ts, init).
THEOREM ViewIsOfSession == Spec => []ViewFollowsSession
<1>1. PageInv => ViewFollowsSession
  BY DEF PageInv, ViewInv, ViewHolds, Belongs, ViewFollowsSession
<1> QED
  BY <1>1, PageInit, PageStep, PTL DEF Spec

\* An answer stands under its own question, while it streams and when it is
\* complete, unless one of the races came between (useChatWebSocket.ts, onMessage,
\* which looks neither at the socket nor at the session a frame is from) or a
\* history from Cassandra brought it, where no question is (service.py, store.py).
THEOREM AnswersStandInPlace == Spec => []AnswersInPlace
<1>1. PageInv => AnswersInPlace
  <2> SUFFICES ASSUME PageInv, slips = {} PROVE AnswersInPlace
    BY DEF AnswersInPlace
  <2>1. StreamHolds /\ ViewHolds
    BY DEF PageInv, Undisturbed, ViewInv
  <2>2. ASSUME NEW i \in DOMAIN streamContent
        PROVE  messages # <<>> /\ Last(messages) = <<"user", streamContent[i]>>
    <3>1. streamContent[i] = Now
      BY <2>1 DEF StreamHolds
    <3>2. streaming
      BY <2>1, <2>2 DEF StreamHolds
    <3> QED
      BY <2>1, <3>1, <3>2 DEF ViewHolds
  <2> QED
    BY <2>1, <2>2 DEF ViewHolds, InPlace, Alone, AnswersInPlace
<1> QED
  BY <1>1, PageInit, PageStep, PTL DEF Spec

-----------------------------------------------------------------------------
(* No answer is awaited in vain *)

\* A socket that is open has been answered to, and ends what it has to say with
\* the end of an answer.
Speaks(c) ==
    c.state = "open" =>
        /\ c.server # "none"
        /\ c.server = "up" /\ c.asks = <<>> /\ c.frames # <<>> => Last(c.frames)[1] # "chunk"

\* There is still an event of socket c to come: open, message or close.
Underway(c) ==
    \/ c.state \in {"connecting", "closing"}
    \/ c.state = "open" /\ (c.server = "ended" \/ c.asks # <<>> \/ c.frames # <<>>)

AwaitsEvent ==
    streaming => mounted /\ wsRef \in DOMAIN sockets /\ Underway(sockets[wsRef])

AwaitInv == AwaitsEvent /\ \A k \in DOMAIN sockets : Speaks(sockets[k])

LEMMA AwaitKept ==
    ASSUME AwaitInv, UNCHANGED <<mounted, wsRef, sockets>>, streaming' => streaming
    PROVE  AwaitInv'
<1>1. AwaitsEvent'
  BY Zenon DEF AwaitInv, AwaitsEvent
<1> QED
  BY <1>1 DEF AwaitInv

LEMMA SocketSpeaks ==
    ASSUME TypeOK, AwaitInv, NEW k \in DOMAIN sockets, NEW d,
           sockets' = [sockets EXCEPT ![k] = d], Speaks(d),
           UNCHANGED <<mounted, wsRef>>,
           streaming' => streaming /\ (Underway(sockets[k]) => Underway(d))
    PROVE  AwaitInv'
<1>1. /\ DOMAIN sockets' = DOMAIN sockets
      /\ \A j \in DOMAIN sockets : sockets'[j] = IF j = k THEN d ELSE sockets[j]
  BY DEF TypeOK
<1>2. \A j \in DOMAIN sockets' : Speaks(sockets'[j])
  BY <1>1 DEF AwaitInv
<1>3. ASSUME streaming' PROVE mounted' /\ wsRef' \in DOMAIN sockets' /\ Underway(sockets'[wsRef'])
  BY <1>1, <1>3 DEF AwaitInv, AwaitsEvent
<1> QED
  BY <1>2, <1>3 DEF AwaitInv, AwaitsEvent

LEMMA ServerSpeaks ==
    ASSUME TypeOK, AwaitInv, NEW k \in DOMAIN sockets, Server(k)
    PROVE  AwaitInv'
<1> DEFINE c == sockets[k]
<1>1. c \in Sockets /\ Speaks(c) /\ c.asks \in Seq(Exchanges) /\ c.frames \in Seq(Frames)
  BY SocketsTyped, SocketFields DEF AwaitInv
<1>2. UNCHANGED <<mounted, wsRef, streaming>>
  BY DEF Server, ServerSaysChunk, ServerAnswers, ServerEnds
<1>3. ASSUME NEW d, sockets' = [sockets EXCEPT ![k] = d], Speaks(d), Underway(c) => Underway(d)
      PROVE  AwaitInv'
  BY <1>2, <1>3, SocketSpeaks
<1>4. CASE ServerSaysChunk(k)
  <2> DEFINE d == [c EXCEPT !.frames = Append(c.frames, <<"chunk", Head(c.asks)>>), !.said = TRUE]
  <2>1. sockets' = [sockets EXCEPT ![k] = d] /\ c.asks # <<>>
    BY <1>4 DEF ServerSaysChunk
  <2>2. d.state = c.state /\ d.asks = c.asks /\ d.server = c.server
    BY <1>1 DEF Sockets
  <2> HIDE DEF d
  <2>3. Speaks(d) /\ (Underway(c) => Underway(d))
    BY <1>1, <2>1, <2>2 DEF Speaks, Underway
  <2> QED
    BY <1>3, <2>1, <2>3
<1>5. CASE ServerAnswers(k)
  <2>1. PICK kind \in {"done", "error"} :
           sockets' = [sockets EXCEPT ![k] = [c EXCEPT !.frames = Append(c.frames, <<kind, Head(c.asks)>>),
                                                       !.asks = Tail(c.asks), !.said = FALSE]]
    BY <1>5 DEF ServerAnswers
  <2> DEFINE f == <<kind, Head(c.asks)>>
             d == [c EXCEPT !.frames = Append(c.frames, f), !.asks = Tail(c.asks), !.said = FALSE]
  <2>2. sockets' = [sockets EXCEPT ![k] = d]
    BY <2>1
  <2>3. d.state = c.state /\ d.server = c.server /\ d.frames = Append(c.frames, f)
    BY <1>1 DEF Sockets
  <2>4. f \in Frames /\ f[1] # "chunk"
    <3>1. c.asks # <<>>
      BY <1>5 DEF ServerAnswers
    <3>2. Head(c.asks) \in Exchanges
      BY <1>1, <3>1
    <3> QED
      BY <3>2 DEF Frames
  <2> HIDE DEF d, f
  <2>5. d.frames # <<>> /\ Last(d.frames) = f
    <3>1. /\ Append(c.frames, f) # <<>> /\ Len(Append(c.frames, f)) = Len(c.frames) + 1
          /\ Append(c.frames, f)[Len(c.frames) + 1] = f
      BY <1>1, <2>4, AppendProperties
    <3> QED
      BY <2>3, <3>1 DEF Last
  <2>6. Speaks(d) /\ (Underway(c) => Underway(d))
    BY <1>1, <2>3, <2>4, <2>5 DEF Speaks, Underway
  <2> QED
    BY <1>3, <2>2, <2>6
<1>6. CASE ServerEnds(k)
  <2> DEFINE d == [c EXCEPT !.server = "ended", !.asks = <<>>]
  <2>1. sockets' = [sockets EXCEPT ![k] = d]
    BY <1>6 DEF ServerEnds
  <2>2. d.state = c.state /\ d.server = "ended"
    BY <1>1 DEF Sockets
  <2> HIDE DEF d
  <2>3. Speaks(d) /\ (Underway(c) => Underway(d))
    BY <2>2 DEF Speaks, Underway
  <2> QED
    BY <1>3, <2>1, <2>3
<1> QED
  BY <1>4, <1>5, <1>6 DEF Server

LEMMA ConnectionSpeaks ==
    ASSUME TypeOK, AwaitInv, NEW k \in DOMAIN sockets, Open(k) \/ NoticeEnd(k) \/ Close(k)
    PROVE  AwaitInv'
<1> DEFINE c == sockets[k]
<1>1. c \in Sockets
  BY SocketsTyped
<1>2. CASE Open(k)
  <2> DEFINE d == [c EXCEPT !.state = "open", !.server = "up", !.asks = <<c.first>>]
  <2>1. sockets' = [sockets EXCEPT ![k] = d] /\ UNCHANGED <<mounted, wsRef, streaming>>
    BY <1>2 DEF Open
  <2>2. d.state = "open" /\ d.server = "up" /\ d.asks = <<c.first>>
    BY <1>1 DEF Sockets
  <2> HIDE DEF d
  <2>3. d.asks # <<>>
    BY <2>2
  <2>4. Speaks(d) /\ Underway(d)
    BY <2>2, <2>3 DEF Speaks, Underway
  <2> QED
    BY <2>1, <2>4, SocketSpeaks
<1>3. CASE NoticeEnd(k)
  <2> DEFINE d == [c EXCEPT !.state = "closing"]
  <2>1. sockets' = [sockets EXCEPT ![k] = d] /\ UNCHANGED <<mounted, wsRef, streaming>>
    BY <1>3 DEF NoticeEnd
  <2>2. d.state = "closing"
    BY <1>1 DEF Sockets
  <2> HIDE DEF d
  <2>3. Speaks(d) /\ Underway(d)
    BY <2>2 DEF Speaks, Underway
  <2> QED
    BY <2>1, <2>3, SocketSpeaks
<1>4. CASE Close(k)
  <2> DEFINE d == [c EXCEPT !.state = "closed"]
  <2>1. sockets' = [sockets EXCEPT ![k] = d] /\ ~streaming'
    BY <1>4 DEF Close
  <2>2. d.state = "closed"
    BY <1>1 DEF Sockets
  <2> HIDE DEF d
  <2>3. \A j \in DOMAIN sockets' : sockets'[j] = IF j = k THEN d ELSE sockets[j]
    BY <2>1 DEF TypeOK
  <2>4. \A j \in DOMAIN sockets' : Speaks(sockets'[j])
    <3>1. Speaks(d) /\ DOMAIN sockets' = DOMAIN sockets
      BY <2>1, <2>2 DEF Speaks
    <3> QED
      BY <2>3, <3>1 DEF AwaitInv
  <2> QED
    BY <2>1, <2>4 DEF AwaitInv, AwaitsEvent
<1> QED
  BY <1>2, <1>3, <1>4

LEMMA ReceiveSpeaks ==
    ASSUME TypeOK, AwaitInv, NEW k \in DOMAIN sockets, Receive(k)
    PROVE  AwaitInv'
<1> DEFINE c == sockets[k]
           d == [c EXCEPT !.frames = Tail(c.frames)]
<1>1. /\ c \in Sockets /\ Speaks(c) /\ c.frames \in Seq(Frames) /\ c.frames # <<>>
      /\ c.state = "open"
  BY SocketsTyped, SocketFields DEF AwaitInv, Receive
<1>2. sockets' = [sockets EXCEPT ![k] = d] /\ UNCHANGED <<mounted, wsRef>>
  BY DEF Receive
<1>3. d.state = "open" /\ d.server = c.server /\ d.asks = c.asks /\ d.frames = Tail(c.frames)
  BY <1>1 DEF Sockets
<1>4. streaming' => streaming /\ Head(c.frames)[1] = "chunk"
  <2>1. CASE streaming' = FALSE
    BY <2>1
  <2>2. CASE Head(c.frames)[1] = "chunk" /\ streaming' = streaming
    BY <2>2
  <2>3. streaming' = FALSE \/ (Head(c.frames)[1] = "chunk" /\ streaming' = streaming)
    BY DEF Receive
  <2> QED
    BY <2>1, <2>2, <2>3
<1> HIDE DEF c, d
<1>5. ASSUME d.frames # <<>> PROVE Last(d.frames) = Last(c.frames)
  <2>1. /\ Len(c.frames) \in Nat /\ Len(d.frames) = Len(c.frames) - 1 /\ Len(d.frames) \in Nat
        /\ \A i \in 1..Len(d.frames) : d.frames[i] = c.frames[i + 1]
    BY <1>1, <1>3
  <2>2. Len(d.frames) # 0
    <3>1. d.frames \in Seq(Frames)
      BY <1>1, <1>3
    <3> QED
      BY <1>5, <3>1, EmptySeq
  <2>3. /\ Len(d.frames) \in 1..Len(d.frames) /\ Len(d.frames) + 1 = Len(c.frames)
    <3> DEFINE n == Len(d.frames)
               m == Len(c.frames)
    <3>1. n \in Nat /\ m \in Nat /\ n = m - 1 /\ n # 0
      BY <2>1, <2>2
    <3> HIDE DEF n, m
    <3>2. n \in 1..n /\ n + 1 = m
      BY <3>1
    <3> QED
      BY <3>2 DEF n, m
  <2> QED
    BY <2>1, <2>3 DEF Last
<1>6. ASSUME d.frames = <<>> PROVE Head(c.frames) = Last(c.frames)
  <2>1. Len(Tail(c.frames)) = Len(c.frames) - 1 /\ Len(c.frames) \in Nat
    BY <1>1
  <2>2. Tail(c.frames) = <<>>
    BY <1>3, <1>6
  <2>3. Len(c.frames) = 1
    <3> DEFINE m == Len(c.frames)
               t == Len(Tail(c.frames))
    <3>1. t = Len(<<>>)
      BY <2>2, Zenon
    <3>2. Len(<<>>) = 0
      OBVIOUS
    <3>3. t = 0
      BY <3>1, <3>2, Zenon
    <3>4. t = m - 1 /\ m \in Nat
      BY <2>1
    <3> HIDE DEF m, t
    <3>5. m = 1
      BY <3>3, <3>4
    <3> QED
      BY <3>5 DEF m
  <2>4. Head(c.frames) = c.frames[1]
    BY <1>1
  <2> QED
    BY <2>3, <2>4, Zenon DEF Last
<1>7. Speaks(d)
  BY <1>1, <1>3, <1>5 DEF Speaks
<1>8. ASSUME Head(c.frames)[1] = "chunk" PROVE Underway(d)
  <2>1. CASE d.frames # <<>>
    BY <1>3, <2>1 DEF Underway
  <2>2. CASE d.frames = <<>>
    <3>1. c.server \in Ends
      BY <1>1, SocketFields
    <3>2. c.server = "ended" \/ c.asks # <<>>
      BY <1>1, <1>6, <1>8, <2>2, <3>1 DEF Speaks, Ends
    <3> QED
      BY <1>3, <3>2 DEF Underway
  <2> QED
    BY <2>1, <2>2
<1> QED
  BY <1>2, <1>4, <1>7, <1>8, SocketSpeaks DEF c

LEMMA SendSpeaks ==
    ASSUME TypeOK, AwaitInv, Send
    PROVE  AwaitInv'
<1>1. mounted'
  BY DEF Send
<1>2. CASE IsOpen(wsRef)
  <2> DEFINE c == sockets[wsRef]
             as == IF c.server = "up" THEN Append(c.asks, Question) ELSE c.asks
             d == [c EXCEPT !.asks = as]
  <2>1. wsRef \in DOMAIN sockets /\ c.state = "open"
    BY <1>2 DEF IsOpen, TypeOK
  <2>2. c \in Sockets /\ Speaks(c) /\ c.server \in Ends /\ c.asks \in Seq(Exchanges)
    BY <2>1, SocketsTyped, SocketFields DEF AwaitInv
  <2>3. sockets' = [sockets EXCEPT ![wsRef] = d] /\ wsRef' = wsRef
    BY <1>2, <2>1 DEF Send
  <2>4. d.state = "open" /\ d.server = c.server /\ d.asks = as
    BY <2>1, <2>2 DEF Sockets
  <2>5. Question \in Exchanges
    BY QuestionTyped DEF Send
  <2>6. Append(c.asks, Question) # <<>>
    BY <2>2, <2>5, AppendProperties
  <2>7. c.server = "ended" \/ as # <<>>
    BY <2>1, <2>2, <2>6 DEF Speaks, Ends
  <2>8. c.server = "up" => as # <<>>
    BY <2>6
  <2> HIDE DEF d, as
  <2>9. Speaks(d) /\ Underway(d)
    BY <2>1, <2>2, <2>4, <2>7, <2>8 DEF Speaks, Underway
  <2>10. /\ DOMAIN sockets' = DOMAIN sockets
         /\ \A j \in DOMAIN sockets : sockets'[j] = IF j = wsRef THEN d ELSE sockets[j]
    BY <2>1, <2>3 DEF TypeOK
  <2> QED
    BY <1>1, <2>1, <2>3, <2>9, <2>10 DEF AwaitInv, AwaitsEvent
<1>3. CASE ~IsOpen(wsRef)
  <2> DEFINE d == NewSocket(activeId, Question)
  <2>1. sockets' = Append(sockets, d) /\ wsRef' = Len(sockets) + 1
    BY <1>3 DEF Send
  <2>2. Speaks(d) /\ Underway(d)
    BY DEF NewSocket, Speaks, Underway
  <2> HIDE DEF d
  <2>3. /\ \A j \in DOMAIN sockets' :
              (j \in DOMAIN sockets /\ sockets'[j] = sockets[j]) \/ sockets'[j] = d
        /\ wsRef' \in DOMAIN sockets' /\ sockets'[wsRef'] = d
    BY <2>1 DEF TypeOK
  <2> QED
    BY <1>1, <2>2, <2>3 DEF AwaitInv, AwaitsEvent
<1> QED
  BY <1>2, <1>3

LEMMA LeaveSpeaks ==
    ASSUME TypeOK, AwaitInv, Leave
    PROVE  AwaitInv'
<1>1. ~streaming'
  BY DEF Leave
<1>2. CASE wsRef = 0
  BY <1>1, <1>2 DEF Leave, AwaitInv, AwaitsEvent
<1>3. CASE wsRef # 0
  <2>1. wsRef \in DOMAIN sockets
    BY <1>3 DEF TypeOK
  <2> DEFINE c == sockets[wsRef]
             st == IF c.state \in {"connecting", "open"} THEN "closing" ELSE c.state
             d == [c EXCEPT !.state = st]
  <2>2. c \in Sockets /\ st # "open"
    BY <2>1, SocketsTyped
  <2>3. sockets' = [sockets EXCEPT ![wsRef] = d]
    BY <1>3, <2>1 DEF Leave
  <2> HIDE DEF st
  <2>4. d.state = st
    BY <2>2 DEF Sockets
  <2> HIDE DEF d
  <2>5. Speaks(d)
    BY <2>2, <2>4 DEF Speaks
  <2>6. \A j \in DOMAIN sockets' : j \in DOMAIN sockets /\ sockets'[j] = IF j = wsRef THEN d ELSE sockets[j]
    BY <2>1, <2>3 DEF TypeOK
  <2> QED
    BY <1>1, <2>5, <2>6 DEF AwaitInv, AwaitsEvent
<1> QED
  BY <1>2, <1>3

LEMMA AwaitStep == TypeOK /\ AwaitInv /\ [Next]_vars => AwaitInv'
<1> SUFFICES ASSUME TypeOK, AwaitInv, [Next]_vars PROVE AwaitInv'
  OBVIOUS
<1>1. CASE UNCHANGED <<mounted, wsRef, sockets, streaming>>
  BY <1>1, AwaitKept
<1>2. ASSUME NEW k \in 1..MaxSockets, Connection(k) \/ Server(k) PROVE AwaitInv'
  BY <1>2, ServerSpeaks, ConnectionSpeaks, ReceiveSpeaks DEF Connection, Server
<1>3. CASE \/ \E ids \in Lists : ListArrives(ids)
           \/ \E s \in Sessions : CreateNewSession(s) \/ SelectSession(s)
           \/ \E i \in 1..MaxLoads : History(i)
           \/ UNCHANGED vars
  BY <1>1, <1>3 DEF ListArrives, CreateNewSession, SelectSession, History, HistoryArrives,
                    HistoryFails, stream, vars
<1> QED
  BY <1>2, <1>3, SendSpeaks, LeaveSpeaks DEF Next

\* The page never awaits an answer that nothing can bring: while it does, it has
\* a socket in use, of which an event is still to come, even if the question was
\* lost, the list came late, or an old socket's close event came in between
\* (useChatWebSocket.ts, send and onClose).  This is what StreamingEnds rests on.
THEOREM NeverStranded == Spec => []AwaitsEvent
<1>1. Init => AwaitInv
  BY DEF Init, AwaitInv, AwaitsEvent
<1>2. TypeOK /\ AwaitInv /\ [Next]_vars => AwaitInv'
  BY AwaitStep
<1>3. AwaitInv => AwaitsEvent
  BY DEF AwaitInv
<1> QED
  BY <1>1, <1>2, <1>3, TypeInit, TypeStep, PTL DEF Spec
===============================================================================
