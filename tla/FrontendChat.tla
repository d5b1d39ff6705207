----------------------------- MODULE FrontendChat -----------------------------
(***************************************************************************)
(* The chat page of the browser: sessions, history loads, one WebSocket.   *)
(*                                                                         *)
(* The page shows the messages of the active session.  A switch of session *)
(* asks for its history, whose reply replaces the messages whenever it     *)
(* comes.  A question goes over the socket that wsRef holds if that is     *)
(* open, over a new one otherwise; the session is told to the server only  *)
(* when a socket is opened.  A callback of the browser, with the renders   *)
(* and effects it causes, is one action.                                   *)
(*                                                                         *)
(* An exchange is named by the session in which it was asked and a number. *)
(* `slips' records which races have happened that the page has no guard    *)
(* against; no guard reads it.                                             *)
(***************************************************************************)
EXTENDS Integers, Sequences, SequencesExt

CONSTANTS
    Sessions,   \* session ids, old and new
    NoSession,  \* activeId before there is one
    Old,        \* sessions that have an exchange from an earlier visit
    Page,       \* half the rows of a history that the page asks for; 10
    MaxAsked,   \* bound: questions the user asks
    MaxLoads,   \* bound: history loads
    MaxSockets  \* bound: sockets the page opens

ASSUME PageAssumption ==
    /\ NoSession \notin Sessions
    /\ Old \subseteq Sessions
    /\ Page \in Nat
    /\ MaxAsked \in Nat /\ MaxLoads \in Nat /\ MaxSockets \in Nat

VARIABLES
    mounted,        \* the page is there; it goes at logout
    sessionIds,     \* the sidebar
    listed,         \* the reply to fetchSessions has come
    activeId,       \* the session selected
    messages,       \* what the page shows
    loads,          \* the calls of fetchMessages so far
    asked,          \* how many questions the user has asked
    streaming,      \* an answer is awaited
    streamContent,  \* exchanges whose chunks the page shows as the answer so far
    wsRef,          \* number of the socket in use, or 0
    sockets,        \* the sockets opened so far
    saved,          \* chat memory: the exchanges of each session
    backend,        \* what chat-api keeps them in
    slips           \* history: races that have happened

view   == <<sessionIds, listed, activeId, messages, loads>>
stream == <<asked, streaming, streamContent, wsRef, sockets>>
vars   == <<mounted, sessionIds, listed, activeId, messages, loads, asked,
            streaming, streamContent, wsRef, sockets, saved, backend, slips>>

Exchanges == Sessions \X (0..MaxAsked)
Messages  == {"user", "agent"} \X Exchanges
Frames    == {"chunk", "done", "error"} \X Exchanges
Loads     == [of : Sessions, from : Nat, pending : BOOLEAN]
Sockets   == [of : Sessions, first : Exchanges, state : {"connecting", "open", "closing", "closed"},
              server : {"none", "up", "ended"}, asks : Seq(Exchanges),
              frames : Seq(Frames), said : BOOLEAN]

\* Both rows of each exchange.
Rows(history) ==
    [i \in 1..(2 * Len(history)) |->
        <<IF i % 2 = 1 THEN "user" ELSE "agent", history[(i + 1) \div 2]>>]

\* In Cassandra the answer's row has overwritten the question's: they have the same
\* session and timestamp.
Answers(history) == [i \in 1..Len(history) |-> <<"agent", history[i]>>]

\* get_recent_messages: the last rows in memory, the first rows in Cassandra.
Reply(history) ==
    LET n == Len(history)
    IN  IF backend = "memory"
        THEN Rows(SubSeq(history, IF n > Page THEN n - Page + 1 ELSE 1, n))
        ELSE Answers(SubSeq(history, 1, IF n > 2 * Page THEN 2 * Page ELSE n))

Exchange(message) == message[2]

\* A session id that was never used, as generateSessionId makes one.
Unused(s) ==
    /\ s \notin sessionIds
    /\ saved[s] = <<>>
    /\ \A i \in DOMAIN loads : loads[i].of # s

\* The effect of a new activeId: loadMessages is called.
Load(s) == loads' = Append(loads, [of |-> s, from |-> Len(saved[s]), pending |-> TRUE])

Init ==
    /\ mounted = TRUE
    /\ sessionIds = {}
    /\ listed = FALSE
    /\ activeId = NoSession
    /\ messages = <<>>
    /\ loads = <<>>
    /\ asked = 0
    /\ streaming = FALSE
    /\ streamContent = <<>>
    /\ wsRef = 0
    /\ sockets = <<>>
    /\ saved = [s \in Sessions |-> IF s \in Old THEN <<<<s, 0>>>> ELSE <<>>]
    /\ backend \in {"cassandra", "memory"}
    /\ slips = {}

-----------------------------------------------------------------------------
(* Sessions *)

\* Mutant: an empty list leaves the page without a session.
ListArrivesAsIs(ids) ==
    /\ mounted
    /\ ~listed
    /\ Len(loads) < MaxLoads
    /\ listed' = TRUE
    /\ sessionIds' = ids
    /\ IF activeId = NoSession /\ ids # {}
       THEN \E s \in ids : activeId' = s /\ Load(s)
       ELSE UNCHANGED <<activeId, loads>>
    /\ UNCHANGED <<mounted, messages, stream, saved, backend, slips>>

\* fetchSessions returns: the list replaces the sidebar's, and the first of it
\* becomes active if no session is.  An empty list, or an answer that is not ok,
\* makes a new session active, whatever is active by then.
ListArrives(ids) ==
    /\ mounted
    /\ ~listed
    /\ Len(loads) < MaxLoads
    /\ listed' = TRUE
    /\ \/ /\ ids # {}
          /\ sessionIds' = ids
          /\ IF activeId = NoSession
             THEN \E s \in ids : activeId' = s /\ Load(s)
             ELSE UNCHANGED <<activeId, loads>>
          /\ UNCHANGED <<messages, slips>>
       \/ /\ ids = {}
          /\ \E s \in Sessions :
                /\ Unused(s)
                /\ sessionIds' = {s}
                /\ activeId' = s
                /\ Load(s)
          /\ messages' = <<>>
          /\ slips' = IF streaming THEN slips \cup {"lateList"} ELSE slips
    /\ UNCHANGED <<mounted, stream, saved, backend>>

\* createNewSession; the sidebar is disabled while an answer is awaited.
CreateNewSession(s) ==
    /\ mounted
    /\ ~streaming
    /\ Len(loads) < MaxLoads
    /\ Unused(s)
    /\ sessionIds' = sessionIds \cup {s}
    /\ activeId' = s
    /\ Load(s)
    /\ messages' = <<>>
    /\ slips' = slips \ {"lateLoad", "lostLoad"}
    /\ UNCHANGED <<mounted, listed, stream, saved, backend>>

\* Mutant: the effect does not depend on activeId.
SelectSessionNoLoad(s) ==
    /\ mounted
    /\ ~streaming
    /\ Len(loads) < MaxLoads
    /\ s \in sessionIds
    /\ s # activeId
    /\ activeId' = s
    /\ UNCHANGED <<mounted, sessionIds, listed, messages, loads, stream, saved, backend, slips>>

\* selectSession: the messages of the old session stay until the load returns.
SelectSession(s) ==
    /\ mounted
    /\ ~streaming
    /\ Len(loads) < MaxLoads
    /\ s \in sessionIds
    /\ s # activeId
    /\ activeId' = s
    /\ Load(s)
    /\ UNCHANGED <<mounted, sessionIds, listed, messages, stream, saved, backend, slips>>

\* loadMessages returns what was saved when the server read it, or nothing if
\* the answer was not ok.  It replaces the messages even if another session has
\* been selected, or a question asked, since; an answer that it already holds
\* will then be shown twice.  (An exchange of which Cassandra took only the first
\* INSERT is left out.)
HistoryArrives(i) ==
    /\ mounted
    /\ loads[i].pending
    /\ loads' = [loads EXCEPT ![i].pending = FALSE]
    /\ LET s == loads[i].of
       IN  /\ \E k \in {0} \cup loads[i].from..Len(saved[s]) :
                 messages' = Reply(SubSeq(saved[s], 1, k))
           /\ slips' = IF s # activeId \/ streaming
                       THEN slips \cup {"lateLoad"}
                       ELSE slips \ {"lateLoad", "lostLoad"}
    /\ UNCHANGED <<mounted, sessionIds, listed, activeId, stream, saved, backend>>

\* fetch rejects: the messages stay.
HistoryFails(i) ==
    /\ mounted
    /\ loads[i].pending
    /\ loads' = [loads EXCEPT ![i].pending = FALSE]
    /\ slips' = slips \cup {"lostLoad"}
    /\ UNCHANGED <<mounted, sessionIds, listed, activeId, messages, stream, saved, backend>>

-----------------------------------------------------------------------------
(* Questions and answers *)

Question == <<activeId, asked + 1>>

IsOpen(k) == k # 0 /\ sockets[k].state = "open"

NewSocket(s, x) ==
    [of |-> s, first |-> x, state |-> "connecting", server |-> "none",
     asks |-> <<>>, frames |-> <<>>, said |-> FALSE]

\* Mutant: every question opens a socket.
SendOverNewSocket ==
    /\ mounted
    /\ activeId # NoSession
    /\ ~streaming
    /\ asked < MaxAsked
    /\ asked' = asked + 1
    /\ messages' = Append(messages, <<"user", Question>>)
    /\ streaming' = TRUE
    /\ streamContent' = <<>>
    /\ Len(sockets) < MaxSockets
    /\ sockets' = Append(sockets, NewSocket(activeId, Question))
    /\ wsRef' = Len(sockets) + 1
    /\ UNCHANGED <<mounted, sessionIds, listed, activeId, loads, saved, backend, slips>>

\* Mutant: send still sees the session of an earlier render.
SendForOldSession ==
    /\ mounted
    /\ activeId # NoSession
    /\ ~streaming
    /\ asked < MaxAsked
    /\ asked' = asked + 1
    /\ messages' = Append(messages, <<"user", Question>>)
    /\ streaming' = TRUE
    /\ streamContent' = <<>>
    /\ ~IsOpen(wsRef) /\ Len(sockets) < MaxSockets
    /\ sockets' = Append(sockets, NewSocket(loads[1].of, Question))
    /\ wsRef' = Len(sockets) + 1
    /\ UNCHANGED <<mounted, sessionIds, listed, activeId, loads, saved, backend, slips>>

\* Mutant: neither handleSend nor send looks at streaming.
SendAnyTime ==
    /\ mounted
    /\ activeId # NoSession
    /\ asked < MaxAsked
    /\ asked' = asked + 1
    /\ messages' = Append(messages, <<"user", Question>>)
    /\ streaming' = TRUE
    /\ streamContent' = <<>>
    /\ \/ /\ IsOpen(wsRef)
          /\ sockets' = [sockets EXCEPT ![wsRef].asks =
                            IF sockets[wsRef].server = "up" THEN Append(@, Question) ELSE @]
          /\ UNCHANGED wsRef
       \/ /\ ~IsOpen(wsRef)
          /\ Len(sockets) < MaxSockets
          /\ sockets' = Append(sockets, NewSocket(activeId, Question))
          /\ wsRef' = Len(sockets) + 1
    /\ UNCHANGED <<mounted, sessionIds, listed, activeId, loads, saved, backend, slips>>

\* handleSend: the question is shown and goes over the open socket, where it is
\* lost if the server has ended it, or waits for a new one to open.
Send ==
    /\ mounted
    /\ activeId # NoSession
    /\ ~streaming
    /\ asked < MaxAsked
    /\ asked' = asked + 1
    /\ messages' = Append(messages, <<"user", Question>>)
    /\ streaming' = TRUE
    /\ streamContent' = <<>>
    /\ \/ /\ IsOpen(wsRef)
          /\ sockets' = [sockets EXCEPT ![wsRef].asks =
                            IF sockets[wsRef].server = "up" THEN Append(@, Question) ELSE @]
          /\ UNCHANGED wsRef
       \/ /\ ~IsOpen(wsRef)
          /\ Len(sockets) < MaxSockets
          /\ sockets' = Append(sockets, NewSocket(activeId, Question))
          /\ wsRef' = Len(sockets) + 1
    /\ UNCHANGED <<mounted, sessionIds, listed, activeId, loads, saved, backend, slips>>

\* The open event: the question that opened the socket is sent.
Open(k) ==
    /\ sockets[k].state = "connecting"
    /\ sockets' = [sockets EXCEPT ![k].state = "open", ![k].server = "up",
                                  ![k].asks = <<sockets[k].first>>]
    /\ UNCHANGED <<mounted, view, asked, streaming, streamContent, wsRef, saved, backend, slips>>

\* A message event.  The handler does not ask which socket it came from.
Receive(k) ==
    /\ mounted
    /\ sockets[k].state = "open"
    /\ sockets[k].frames # <<>>
    /\ sockets' = [sockets EXCEPT ![k].frames = Tail(@)]
    /\ LET kind == Head(sockets[k].frames)[1]
           x    == Head(sockets[k].frames)[2]
       IN  \/ /\ kind = "chunk"
              /\ streamContent' = Append(streamContent, x)
              /\ UNCHANGED <<messages, streaming>>
           \/ /\ kind = "done"
              /\ messages' = Append(messages, <<"agent", x>>)
              /\ streaming' = FALSE
              /\ streamContent' = <<>>
           \/ /\ kind = "error"
              /\ streaming' = FALSE
              /\ streamContent' = <<>>
              /\ UNCHANGED messages
    /\ UNCHANGED <<mounted, sessionIds, listed, activeId, loads, asked, wsRef, saved, backend, slips>>

\* The server's close frame, or the loss of the connection, is noticed after
\* the frames that came before it.
NoticeEnd(k) ==
    /\ sockets[k].state = "open"
    /\ sockets[k].server = "ended"
    /\ sockets[k].frames = <<>> \/ ~mounted
    /\ sockets' = [sockets EXCEPT ![k].state = "closing"]
    /\ UNCHANGED <<mounted, view, asked, streaming, streamContent, wsRef, saved, backend, slips>>

\* Mutant: onClose only forgets the socket.
CloseStillStreaming(k) ==
    /\ sockets[k].state \in {"connecting", "closing"}
    /\ sockets' = [sockets EXCEPT ![k].state = "closed"]
    /\ wsRef' = 0
    /\ slips' = IF wsRef \notin {0, k} THEN slips \cup {"lateClose"} ELSE slips
    /\ UNCHANGED <<mounted, view, asked, streaming, streamContent, saved, backend>>

\* The close event, also of a socket that could not be opened: onClose forgets
\* the socket in use, which by then may be another one.
Close(k) ==
    /\ sockets[k].state \in {"connecting", "closing"}
    /\ sockets' = [sockets EXCEPT ![k].state = "closed"]
    /\ wsRef' = 0
    /\ streaming' = FALSE
    /\ streamContent' = <<>>
    /\ slips' = IF wsRef \notin {0, k} THEN slips \cup {"lateClose"} ELSE slips
    /\ UNCHANGED <<mounted, view, asked, saved, backend>>

\* Logout: the page goes with its state, the replies still to come are ignored,
\* and closeConnection closes the socket in use.
Leave ==
    /\ mounted
    /\ mounted' = FALSE
    /\ sessionIds' = {}
    /\ listed' = FALSE
    /\ activeId' = NoSession
    /\ messages' = <<>>
    /\ loads' = <<>>
    /\ streaming' = FALSE
    /\ streamContent' = <<>>
    /\ wsRef' = 0
    /\ sockets' = IF wsRef = 0 THEN sockets
                  ELSE [sockets EXCEPT ![wsRef].state =
                           IF @ \in {"connecting", "open"} THEN "closing" ELSE @]
    /\ UNCHANGED <<asked, saved, backend, slips>>

-----------------------------------------------------------------------------
(* The server's end of a socket: gateway and chat-api *)

ServerSaysChunk(k) ==
    /\ sockets[k].server = "up"
    /\ sockets[k].asks # <<>>
    /\ ~sockets[k].said
    /\ sockets' = [sockets EXCEPT ![k].frames = Append(@, <<"chunk", Head(sockets[k].asks)>>),
                                  ![k].said = TRUE]
    /\ UNCHANGED <<mounted, view, asked, streaming, streamContent, wsRef, saved, backend, slips>>

\* The answer is complete: it is appended to the session of the socket, unless
\* chat memory fails, and announced; or the pipeline has failed.
ServerAnswers(k) ==
    /\ sockets[k].server = "up"
    /\ sockets[k].asks # <<>>
    /\ \E kind \in {"done", "error"} :
          LET x == Head(sockets[k].asks)
          IN  /\ sockets' = [sockets EXCEPT ![k].frames = Append(@, <<kind, x>>),
                                            ![k].asks = Tail(@), ![k].said = FALSE]
              /\ \/ /\ kind = "done"
                    /\ saved' = [saved EXCEPT ![sockets[k].of] = Append(@, x)]
                 \/ UNCHANGED saved
    /\ UNCHANGED <<mounted, view, asked, streaming, streamContent, wsRef, backend, slips>>

\* The connection ends, be it after an answer was saved and before it was sent.
ServerEnds(k) ==
    /\ sockets[k].server = "up"
    /\ sockets' = [sockets EXCEPT ![k].server = "ended", ![k].asks = <<>>]
    /\ \/ UNCHANGED saved
       \/ /\ sockets[k].asks # <<>>
          /\ saved' = [saved EXCEPT ![sockets[k].of] = Append(@, Head(sockets[k].asks))]
    /\ UNCHANGED <<mounted, view, asked, streaming, streamContent, wsRef, backend, slips>>

-----------------------------------------------------------------------------
Connection(k) ==
    k \in DOMAIN sockets /\ (Open(k) \/ Receive(k) \/ NoticeEnd(k) \/ Close(k))
Server(k) ==
    k \in DOMAIN sockets /\ (ServerSaysChunk(k) \/ ServerAnswers(k) \/ ServerEnds(k))
History(i) ==
    i \in DOMAIN loads /\ (HistoryArrives(i) \/ HistoryFails(i))

\* What fetchSessions may return: the sessions with a history, or nothing.  With
\* Cassandra it is always nothing, as Cassandra rejects the query.
Lists == {{}, {s \in Sessions : backend = "memory" /\ saved[s] # <<>>}}

Next ==
    \/ \E ids \in Lists : ListArrives(ids)
    \/ \E s \in Sessions : CreateNewSession(s) \/ SelectSession(s)
    \/ \E i \in 1..MaxLoads : History(i)
    \/ Send \/ Leave
    \/ \E k \in 1..MaxSockets : Connection(k) \/ Server(k)

Spec == Init /\ [][Next]_vars

\* The browser fires the events that are due, and the server answers or ends a
\* connection.  Nothing is assumed of the user or of history loads.
FairSpec ==
    /\ Spec
    /\ \A k \in 1..MaxSockets : WF_vars(Connection(k))
    /\ \A k \in 1..MaxSockets :
          WF_vars(k \in DOMAIN sockets /\ (ServerAnswers(k) \/ ServerEnds(k)))

-----------------------------------------------------------------------------
(* Properties *)

TypeOK ==
    /\ mounted \in BOOLEAN /\ listed \in BOOLEAN /\ streaming \in BOOLEAN
    /\ sessionIds \subseteq Sessions
    /\ activeId \in Sessions \cup {NoSession}
    /\ messages \in Seq(Messages)
    /\ loads \in Seq(Loads)
    /\ asked \in 0..MaxAsked
    /\ streamContent \in Seq(Exchanges)
    /\ sockets \in Seq(Sockets)
    /\ wsRef \in 0..Len(sockets)
    /\ saved \in [Sessions -> Seq(Exchanges)]
    /\ backend \in {"cassandra", "memory"}
    /\ slips \subseteq {"lateLoad", "lostLoad", "lateList", "lateClose"}
    /\ listed => activeId # NoSession

\* A socket that is connecting or open is the one in use, and none is after
\* logout; except that the close event of an older socket can make the page
\* forget the one in use (useChatWebSocket.ts, onClose).
OneSocket ==
    "lateClose" \notin slips =>
        \A k \in DOMAIN sockets :
            sockets[k].state \in {"connecting", "open"} => mounted /\ wsRef = k

\* An exchange is remembered in another session than it was asked in only if
\* the socket was opened in that session, for an earlier question, and reused.
FiledWhereAsked ==
    \A s \in Sessions : \A i \in DOMAIN saved[s] :
        saved[s][i][1] # s =>
            \E k \in DOMAIN sockets :
                /\ sockets[k].of = s
                /\ sockets[k].first[1] = s
                /\ sockets[k].first[2] < saved[s][i][2]

\* The page shows a message of another session only while the load of its own
\* is under way, or if that is how chat memory has it, or after one of the races:
\* a load of another session that came late, a load that failed, a list that
\* came late or a socket that was forgotten.
ViewFollowsSession ==
    \A i \in DOMAIN messages :
        LET x == Exchange(messages[i])
        IN  \/ x[1] = activeId
            \/ \E j \in DOMAIN loads : loads[j].pending /\ loads[j].of = activeId
            \/ \E j \in DOMAIN saved[activeId] : saved[activeId][j] = x
            \/ slips # {}

\* An answer is shown under its own question, while it streams and when it is
\* complete, unless one of the races has replaced the messages in between.  One
\* that has come back from Cassandra, which keeps no questions, is shown without
\* its question, and never with the question elsewhere.
AnswersInPlace ==
    slips = {} =>
        /\ \A i \in DOMAIN messages :
              messages[i][1] = "agent" =>
                  LET x == Exchange(messages[i])
                  IN  \/ i > 1 /\ messages[i - 1] = <<"user", x>>
                      \/ /\ backend = "cassandra"
                         /\ \E s \in Sessions : \E j \in DOMAIN saved[s] : saved[s][j] = x
                         /\ \A j \in DOMAIN messages : messages[j] # <<"user", x>>
        /\ \A i \in DOMAIN streamContent :
              messages # <<>> /\ Last(messages) = <<"user", streamContent[i]>>

\* The page does not wait for an answer for ever, wherever the question is lost.
StreamingEnds == streaming ~> ~streaming
=============================================================================
