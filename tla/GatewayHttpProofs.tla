--------------------------- MODULE GatewayHttpProofs ---------------------------
(***************************************************************************)
(* Proofs about GatewayHttp, for any requests, routes, number of           *)
(* connections and rate limit.                                             *)
(*                                                                         *)
(* What makes an answer the right one is that a connection which goes back *)
(* to the pool has nothing under way: Carried ties all that a connection   *)
(* carries to the request that holds it, and that request to one           *)
(* connection.                                                             *)
(***************************************************************************)
EXTENDS GatewayHttp, TLAPS

Carried ==
    \A c \in Conns :
        /\ conn[c].serves \in {NoOne, conn[c].user}
        /\ conn[c].reply \in {NoOne, conn[c].user}
        /\ conn[c].user # NoOne => state[conn[c].user] = "wait"
        /\ conn[c].serves # NoOne => conn[c].reply = NoOne
        /\ conn[c].reply # NoOne =>
              conn[c].reply \notin running /\ effects[conn[c].reply] = 1

HeldOnce ==
    \A c, d \in Conns : conn[c].user = conn[d].user /\ conn[c].user # NoOne => c = d

\* How often r can have taken effect, and where it may be at work.
Counted ==
    \A r \in Requests :
        /\ r \in running => effects[r] = 0 /\ state[r] \in {"wait", "500"}
        /\ effects[r] \in 0..1
        /\ effects[r] = 1 => state[r] \in {"wait", "500", "replied"}
        /\ state[r] = "replied" => r \notin running /\ effects[r] = 1

\* Without a subject only public requests get past the check.
Checked ==
    \A r \in Requests :
        state[r] \in {"body", "pool", "wait", "500", "replied"} => r \in Public \cup sub

HttpInv == TypeOK /\ Carried /\ HeldOnce /\ Counted /\ Checked /\ OwnAnswer

LEMMA InitInv == Init => HttpInv
<1> SUFFICES ASSUME Init PROVE HttpInv
  OBVIOUS
<1>1. NoConn \in Connections
  BY DEF NoConn, Connections
<1>2. TypeOK
  BY <1>1 DEF Init, TypeOK
<1>3. Carried /\ HeldOnce
  BY DEF Init, NoConn, Carried, HeldOnce
<1>4. Counted /\ Checked /\ OwnAnswer
  BY HttpAssumption DEF Init, Counted, Checked, OwnAnswer
<1> QED
  BY <1>2, <1>3, <1>4 DEF HttpInv

\* Steps before client.request, which touch neither connections nor services.
LEMMA EntryKeeps ==
    ASSUME HttpInv, NEW r \in Requests, Arrive(r) \/ Body(r)
    PROVE  HttpInv'
<1>1. /\ UNCHANGED <<conn, running, effects, answer>>
      /\ \E w \in {"here", "401", "429", "500", "body", "pool"} : state' = [state EXCEPT ![r] = w]
      /\ state[r] \in {"new", "body"}
  BY DEF Arrive, Pass, Verify, Body, Goes
<1>2. TypeOK'
  <2>1. hits' \in [DOMAIN Upstream -> Nat] /\ sub' \subseteq Requests
    BY HttpAssumption DEF Arrive, Pass, Verify, Body, HttpInv, TypeOK
  <2>2. state' \in [Requests -> {"new", "body", "pool", "wait"} \cup Final]
    BY <1>1 DEF HttpInv, TypeOK, Final
  <2> QED
    BY <1>1, <2>1, <2>2 DEF HttpInv, TypeOK
<1>3. Carried' /\ HeldOnce'
  BY <1>1 DEF HttpInv, TypeOK, Connections, Carried, HeldOnce
<1>4. Counted'
  BY <1>1 DEF HttpInv, TypeOK, Counted
<1>5. Checked'
  BY DEF Arrive, Pass, Verify, Body, Goes, HttpInv, TypeOK, Checked
<1>6. OwnAnswer'
  BY <1>1 DEF HttpInv, TypeOK, OwnAnswer
<1> QED
  BY <1>2, <1>3, <1>4, <1>5, <1>6 DEF HttpInv

\* A request goes out over connection c, which then carries it and nothing else.
LEMMA SendKeeps ==
    ASSUME HttpInv, NEW r \in Requests, state[r] = "pool", NEW c \in Conns,
           NEW before \in Connections, Send(r, c, before),
           before.serves = NoOne, before.reply = NoOne
    PROVE  HttpInv'
<1>1. /\ state' = [state EXCEPT ![r] = "wait"]
      /\ running' = IF before.open THEN running \cup {r} ELSE running
      /\ UNCHANGED <<sub, hits, effects, answer>>
  BY DEF Send, Goes
<1> DEFINE after == [before EXCEPT !.user = r,
                                   !.serves = IF @ = NoOne /\ before.open THEN r ELSE @]
<1>2. conn' = [conn EXCEPT ![c] = after]
  BY DEF Send
<1>3. after \in Connections /\ after.user = r /\ after.serves \in {NoOne, r} /\ after.reply = NoOne
  BY DEF Connections
<1> HIDE DEF after
<1>4. TypeOK'
  BY <1>1, <1>2, <1>3 DEF HttpInv, TypeOK
<1>5. /\ conn'[c] = after
      /\ \A d \in Conns \ {c} : conn'[d] = conn[d] /\ conn[d].user # r /\ conn[d].reply # r
  BY <1>2, HttpAssumption DEF HttpInv, TypeOK, Carried
<1>6. Carried'
  <2> SUFFICES ASSUME NEW d \in Conns
               PROVE  /\ conn'[d].serves \in {NoOne, conn'[d].user}
                      /\ conn'[d].reply \in {NoOne, conn'[d].user}
                      /\ conn'[d].user # NoOne => state'[conn'[d].user] = "wait"
                      /\ conn'[d].serves # NoOne => conn'[d].reply = NoOne
                      /\ conn'[d].reply # NoOne =>
                            conn'[d].reply \notin running' /\ effects'[conn'[d].reply] = 1
    BY DEF Carried
  <2>1. CASE d = c
    BY <1>1, <1>3, <1>5, <2>1 DEF HttpInv, TypeOK
  <2>2. CASE d # c
    BY <1>1, <1>5, <2>2 DEF HttpInv, TypeOK, Connections, Carried
  <2> QED
    BY <2>1, <2>2
<1>7. HeldOnce'
  BY <1>3, <1>5 DEF HttpInv, HeldOnce
<1>8. Counted' /\ Checked' /\ OwnAnswer'
  BY <1>1 DEF HttpInv, TypeOK, Counted, Checked, OwnAnswer
<1> QED
  BY <1>4, <1>6, <1>7, <1>8 DEF HttpInv

LEMMA FreshConnection ==
    ASSUME NEW r \in Requests
    PROVE  LET fresh == [NoConn EXCEPT !.to = Service(r), !.open = TRUE]
           IN  fresh \in Connections /\ fresh.serves = NoOne /\ fresh.reply = NoOne
  BY DEF NoConn, Connections, Services

LEMMA NoConnTyped ==
    /\ NoConn \in Connections /\ NoConn.user = NoOne
    /\ NoConn.serves = NoOne /\ NoConn.reply = NoOne
  BY DEF NoConn, Connections

\* A connection that is given up, or that is idle, carries nothing: it may be
\* closed, and the request that held it may fail.
LEMMA GiveUpKeeps ==
    ASSUME HttpInv, NEW c \in Conns, conn' = [conn EXCEPT ![c] = NoConn],
           UNCHANGED <<sub, hits, running, effects, answer>>,
           UNCHANGED state \/ \E r \in Requests : /\ state' = [state EXCEPT ![r] = "500"]
                                                  /\ conn[c].user = r \/ state[r] = "pool"
                                                  /\ state[r] \in {"pool", "wait"}
    PROVE  HttpInv'
<1>1. TypeOK'
  BY NoConnTyped DEF HttpInv, TypeOK, Final
<1>2. conn'[c] = NoConn /\ \A d \in Conns \ {c} : conn'[d] = conn[d]
  BY DEF HttpInv, TypeOK
<1>3. \A d \in Conns \ {c} : conn[d].user # NoOne => state'[conn[d].user] = "wait"
  BY DEF HttpInv, TypeOK, Connections, Carried, HeldOnce
<1>4. Carried' /\ HeldOnce'
  BY <1>2, <1>3, NoConnTyped DEF HttpInv, Carried, HeldOnce
<1>5. Counted' /\ Checked' /\ OwnAnswer'
  BY DEF HttpInv, TypeOK, Counted, Checked, OwnAnswer
<1> QED
  BY <1>1, <1>4, <1>5 DEF HttpInv

LEMMA ReceiveKeeps ==
    ASSUME HttpInv, NEW r \in Requests, NEW c \in Conns, Receive(r, c)
    PROVE  HttpInv'
<1>1. /\ conn[c].reply = r /\ conn[c].serves = NoOne /\ conn[c].user = r
      /\ r \notin running /\ effects[r] = 1 /\ state[r] = "wait"
  BY HttpAssumption DEF Receive, HttpInv, Carried
<1>2. /\ state' = [state EXCEPT ![r] = "replied"]
      /\ answer' = [answer EXCEPT ![r] = r]
      /\ conn' = [conn EXCEPT ![c] = [@ EXCEPT !.user = NoOne, !.reply = NoOne]]
      /\ UNCHANGED <<sub, hits, running, effects>>
  BY <1>1 DEF Receive, Goes
<1> DEFINE after == [conn[c] EXCEPT !.user = NoOne, !.reply = NoOne]
<1>a. conn' = [conn EXCEPT ![c] = after]
  BY <1>2 DEF HttpInv, TypeOK
<1>b. after \in Connections /\ after.user = NoOne /\ after.reply = NoOne /\ after.serves = NoOne
  <2>1. conn[c] \in Connections
    BY DEF HttpInv, TypeOK
  <2> QED
    BY <1>1, <2>1 DEF Connections
<1> HIDE DEF after
<1>3. /\ conn'[c] \in Connections
      /\ conn'[c].user = NoOne /\ conn'[c].reply = NoOne /\ conn'[c].serves = NoOne
      /\ \A d \in Conns \ {c} : conn'[d] = conn[d]
      /\ conn' \in [Conns -> Connections]
  BY <1>a, <1>b DEF HttpInv, TypeOK
<1>4. TypeOK'
  BY <1>2, <1>3 DEF HttpInv, TypeOK, Final
<1>5. \A d \in Conns \ {c} : conn[d].user # NoOne => state'[conn[d].user] = "wait"
  BY <1>1, <1>2 DEF HttpInv, TypeOK, Connections, Carried, HeldOnce
<1>6. Carried' /\ HeldOnce'
  BY <1>2, <1>3, <1>5 DEF HttpInv, Carried, HeldOnce
<1>7. Counted' /\ Checked' /\ OwnAnswer'
  BY <1>1, <1>2 DEF HttpInv, TypeOK, Counted, Checked, OwnAnswer
<1> QED
  BY <1>4, <1>6, <1>7 DEF HttpInv

\* A service is done with r, or dies at it.
LEMMA ServiceKeeps ==
    ASSUME HttpInv, NEW r \in Requests, Finish(r) \/ Dies(r)
    PROVE  HttpInv'
<1>1. /\ r \in running /\ running' = running \ {r} /\ effects[r] = 0
      /\ state[r] \in {"wait", "500"}
      /\ UNCHANGED <<state, sub, hits, answer>>
  BY DEF Finish, Dies, HttpInv, Counted
<1> DEFINE once == [effects EXCEPT ![r] = @ + 1]
<1>a. once \in [Requests -> Nat] /\ once[r] = 1 /\ \A q \in Requests \ {r} : once[q] = effects[q]
  BY <1>1 DEF HttpInv, TypeOK
<1>b. effects' \in {effects, once}
  BY DEF Finish, Dies
<1> HIDE DEF once
<1>2. effects' \in [Requests -> Nat] /\ effects'[r] \in 0..1
      /\ \A q \in Requests \ {r} : effects'[q] = effects[q]
  BY <1>1, <1>a, <1>b DEF HttpInv, TypeOK
<1> DEFINE done(d) == [conn[d] EXCEPT !.serves = NoOne, !.reply = r]
           dead(d) == [conn[d] EXCEPT !.serves = NoOne, !.open = FALSE]
<1>c. ASSUME NEW d \in Conns
      PROVE  /\ conn[d] \in Connections /\ done(d) \in Connections /\ dead(d) \in Connections
             /\ done(d).user = conn[d].user /\ done(d).serves = NoOne /\ done(d).reply = r
             /\ dead(d).user = conn[d].user /\ dead(d).serves = NoOne
             /\ dead(d).reply = conn[d].reply
  BY DEF HttpInv, TypeOK, Connections
<1>d. /\ DOMAIN conn' = Conns /\ conn' = [d \in Conns |-> conn'[d]]
      /\ \A d \in Conns :
            \/ conn[d].serves # r /\ conn'[d] = conn[d]
            \/ conn[d].serves = r /\ conn'[d] = done(d) /\ effects'[r] = 1
            \/ conn[d].serves = r /\ conn'[d] = dead(d)
  <2>1. CASE Finish(r)
    <3>1. effects' = once /\ conn' = [d \in Conns |-> IF conn[d].serves = r THEN done(d) ELSE conn[d]]
      BY <2>1 DEF Finish, once
    <3> QED
      BY <3>1, <1>a
  <2>2. CASE Dies(r)
    <3>1. conn' = [d \in Conns |-> IF conn[d].serves = r THEN dead(d) ELSE conn[d]]
      BY <2>2 DEF Dies
    <3> QED
      BY <3>1
  <2> QED
    BY <2>1, <2>2
<1> HIDE DEF done, dead
<1>3. conn' \in [Conns -> Connections]
  BY <1>c, <1>d
<1>4. TypeOK'
  BY <1>1, <1>2, <1>3 DEF HttpInv, TypeOK
<1>5. \A d \in Conns :
          /\ conn'[d].user = conn[d].user
          /\ conn'[d].serves = IF conn[d].serves = r THEN NoOne ELSE conn[d].serves
          /\ \/ conn'[d].reply = conn[d].reply
             \/ conn'[d].reply = r /\ conn[d].serves = r /\ effects'[r] = 1
  BY <1>c, <1>d
<1>6. \A d \in Conns : conn[d].reply # NoOne => conn[d].reply # r /\ conn[d].reply \in Requests
  BY <1>1 DEF HttpInv, TypeOK, Connections, Carried
<1>7. Carried'
  <2> SUFFICES ASSUME NEW d \in Conns
               PROVE  /\ conn'[d].serves \in {NoOne, conn'[d].user}
                      /\ conn'[d].reply \in {NoOne, conn'[d].user}
                      /\ conn'[d].user # NoOne => state'[conn'[d].user] = "wait"
                      /\ conn'[d].serves # NoOne => conn'[d].reply = NoOne
                      /\ conn'[d].reply # NoOne =>
                            conn'[d].reply \notin running' /\ effects'[conn'[d].reply] = 1
    BY DEF Carried
  <2>1. CASE conn'[d].reply = conn[d].reply
    BY <1>1, <1>2, <1>5, <1>6, <2>1 DEF HttpInv, Carried
  <2>2. CASE conn'[d].reply = r /\ conn[d].serves = r /\ effects'[r] = 1
    BY <1>1, <1>5, <2>2, HttpAssumption DEF HttpInv, Carried
  <2> QED
    BY <1>5, <2>1, <2>2
<1>8. HeldOnce'
  BY <1>5 DEF HttpInv, HeldOnce
<1>9. Counted' /\ Checked' /\ OwnAnswer'
  BY <1>1, <1>2 DEF HttpInv, TypeOK, Counted, Checked, OwnAnswer
<1> QED
  BY <1>4, <1>7, <1>8, <1>9 DEF HttpInv

LEMMA CloseIdleKeeps ==
    ASSUME HttpInv, NEW c \in Conns, CloseIdle(c)
    PROVE  HttpInv'
<1> DEFINE after == [conn[c] EXCEPT !.open = FALSE]
<1>a. conn' = [conn EXCEPT ![c] = after]
  BY DEF CloseIdle, HttpInv, TypeOK
<1>b. /\ after \in Connections /\ after.user = conn[c].user
      /\ after.serves = conn[c].serves /\ after.reply = conn[c].reply
  BY DEF HttpInv, TypeOK, Connections
<1> HIDE DEF after
<1>1. /\ conn' \in [Conns -> Connections]
      /\ \A d \in Conns : /\ conn'[d].user = conn[d].user /\ conn'[d].serves = conn[d].serves
                          /\ conn'[d].reply = conn[d].reply
      /\ UNCHANGED <<state, sub, hits, running, effects, answer>>
  BY <1>a, <1>b DEF CloseIdle, HttpInv, TypeOK
<1>2. TypeOK' /\ Carried' /\ HeldOnce'
  BY <1>1 DEF HttpInv, TypeOK, Carried, HeldOnce
<1>3. Counted' /\ Checked' /\ OwnAnswer'
  BY <1>1 DEF HttpInv, Counted, Checked, OwnAnswer
<1> QED
  BY <1>2, <1>3 DEF HttpInv

LEMMA StepInv == HttpInv /\ [Next]_vars => HttpInv'
<1> SUFFICES ASSUME HttpInv, [Next]_vars PROVE HttpInv'
  OBVIOUS
<1>1. CASE NewWindow
  <2>1. hits' \in [DOMAIN Upstream -> Nat] /\ UNCHANGED <<state, sub, conn, running, effects, answer>>
    BY <1>1 DEF NewWindow, HttpInv, TypeOK
  <2> QED
    BY <2>1 DEF HttpInv, TypeOK, Carried, HeldOnce, Counted, Checked, OwnAnswer
<1>2. ASSUME NEW r \in Requests, Arrive(r) \/ Body(r) PROVE HttpInv'
  BY <1>2, EntryKeeps
<1>3. ASSUME NEW r \in Requests, PoolTimeout(r) PROVE HttpInv'
  <2>1. state' = [state EXCEPT ![r] = "500"] /\ state[r] = "pool"
        /\ UNCHANGED <<sub, hits, conn, running, effects, answer>>
    BY <1>3 DEF PoolTimeout, Goes
  <2>2. TypeOK' /\ Counted' /\ Checked' /\ OwnAnswer'
    BY <2>1 DEF HttpInv, TypeOK, Final, Counted, Checked, OwnAnswer
  <2>3. Carried' /\ HeldOnce'
    BY <2>1 DEF HttpInv, TypeOK, Connections, Carried, HeldOnce
  <2> QED
    BY <2>2, <2>3 DEF HttpInv
<1>4. ASSUME NEW r \in Requests, NEW c \in Conns, Reuse(r, c) PROVE HttpInv'
  <2>1. conn[c] \in Connections /\ conn[c].serves = NoOne /\ conn[c].reply = NoOne
    BY <1>4 DEF Reuse, Idle, HttpInv, TypeOK, Carried
  <2> QED
    BY <1>4, <2>1, SendKeeps DEF Reuse
<1>5. ASSUME NEW r \in Requests, NEW c \in Conns, Connect(r, c) PROVE HttpInv'
  <2>1. CASE Send(r, c, [NoConn EXCEPT !.to = Service(r), !.open = TRUE])
    BY <1>5, <2>1, FreshConnection, SendKeeps DEF Connect
  <2>2. CASE ~Send(r, c, [NoConn EXCEPT !.to = Service(r), !.open = TRUE])
    BY <1>5, <2>2, GiveUpKeeps DEF Connect, Goes
  <2> QED
    BY <2>1, <2>2
<1>6. ASSUME NEW r \in Requests, NEW c \in Conns, Receive(r, c) PROVE HttpInv'
  BY <1>6, ReceiveKeeps
<1>7. ASSUME NEW r \in Requests, NEW c \in Conns, ReadError(r, c) \/ ReadTimeout(r, c) PROVE HttpInv'
  <2>1. state[r] = "wait"
    BY <1>7, HttpAssumption DEF ReadError, ReadTimeout, HttpInv, Carried
  <2> QED
    BY <1>7, <2>1, GiveUpKeeps DEF ReadError, ReadTimeout, Goes
<1>8. ASSUME NEW c \in Conns, DropIdle(c) PROVE HttpInv'
  BY <1>8, GiveUpKeeps DEF DropIdle
<1>9. ASSUME NEW r \in Requests, Finish(r) \/ Dies(r) PROVE HttpInv'
  BY <1>9, ServiceKeeps
<1>10. ASSUME NEW c \in Conns, CloseIdle(c) PROVE HttpInv'
  BY <1>10, CloseIdleKeeps
<1>11. CASE UNCHANGED vars
  BY <1>11 DEF vars, HttpInv, TypeOK, Carried, HeldOnce, Counted, Checked, OwnAnswer
<1> QED
  BY <1>1, <1>2, <1>3, <1>4, <1>5, <1>6, <1>7, <1>8, <1>9, <1>10, <1>11 DEF Next, Proceed

LEMMA HttpInvariant == Spec => []HttpInv
  BY InitInv, StepInv, PTL DEF Spec

\* Requests, counters and connections keep their types (main.py, http_proxy.py).
THEOREM TypeCorrect == Spec => []TypeOK
  BY HttpInvariant, PTL DEF HttpInv

\* However connections are shared and used again, a client gets the reply to its
\* own request (http_proxy.py).
THEOREM AnswersAreOwn == Spec => []OwnAnswer
  BY HttpInvariant, PTL DEF HttpInv

\* What clients are told agrees with what the services did: nothing for what was
\* refused, once for what was replied to, at most once for what failed.
THEOREM EffectsFit == Spec => []EffectsMatchAnswers
<1>1. HttpInv => EffectsMatchAnswers
  BY DEF HttpInv, TypeOK, Counted, Checked, EffectsMatchAnswers
<1> QED
  BY <1>1, HttpInvariant, PTL

-----------------------------------------------------------------------------
(* Who holds the connections *)

\* Only requests that are the gateway's own go no further.
Forwarded == \A r \in Requests : state[r] \in {"body", "pool", "wait"} => Service(r) # NoOne

\* A connection in use is to the service of the request that holds it.
ToItsService == \A c \in Conns : conn[c].user # NoOne => conn[c].to = Service(conn[c].user)

\* A request that waits for a service holds a connection.
Holding == \A r \in Requests : state[r] = "wait" => \E c \in Conns : conn[c].user = r

HoldInv == Forwarded /\ ToItsService /\ Holding

LEMMA ForwardedKept ==
    ASSUME HttpInv, Forwarded, [Next]_vars
    PROVE  Forwarded'
<1>1. \A r \in Requests : r \notin Public => Service(r) # NoOne
  BY HttpAssumption DEF Service
<1>2. ASSUME NEW r \in Requests, Arrive(r) \/ Body(r) PROVE Forwarded'
  <2>1. state \in [Requests -> {"new", "body", "pool", "wait"} \cup Final]
    BY DEF HttpInv, TypeOK
  <2>2. CASE Arrive(r)
    BY <1>1, <2>1, <2>2 DEF Arrive, Pass, Verify, Goes, Forwarded
  <2>3. CASE Body(r)
    BY <2>1, <2>3 DEF Body, Goes, Forwarded
  <2> QED
    BY <1>2, <2>2, <2>3
<1>3. ASSUME NEW r \in Requests, Proceed(r) PROVE Forwarded'
  <2>1. /\ state[r] \in {"pool", "wait"}
        /\ \E w \in {"wait", "500", "replied"} : state' = [state EXCEPT ![r] = w]
    <3>1. ASSUME NEW c \in Conns, conn[c].user = r PROVE state[r] = "wait"
      BY <3>1, HttpAssumption DEF HttpInv, Carried
    <3>2. CASE PoolTimeout(r)
      BY <3>2 DEF PoolTimeout, Goes
    <3>3. ASSUME NEW c \in Conns, Reuse(r, c) \/ Connect(r, c)
          PROVE  /\ state[r] = "pool"
                 /\ \E w \in {"wait", "500"} : state' = [state EXCEPT ![r] = w]
      BY <3>3 DEF Reuse, Connect, Send, Goes
    <3>4. ASSUME NEW c \in Conns, Receive(r, c) \/ ReadError(r, c) \/ ReadTimeout(r, c)
          PROVE  /\ conn[c].user = r
                 /\ \E w \in {"500", "replied"} : state' = [state EXCEPT ![r] = w]
      BY <3>4 DEF Receive, ReadError, ReadTimeout, Goes
    <3> QED
      BY <1>3, <3>1, <3>2, <3>3, <3>4 DEF Proceed
  <2> QED
    BY <2>1 DEF HttpInv, TypeOK, Forwarded
<1>4. CASE UNCHANGED state
  BY <1>4 DEF Forwarded
<1> QED
  BY <1>2, <1>3, <1>4 DEF Next, NewWindow, Finish, Dies, DropIdle, CloseIdle, vars

\* A step that leaves holders alone, and makes nobody wait.
LEMMA HoldersKept ==
    ASSUME HoldInv, NEW K \in SUBSET Conns,
           \A c \in K : conn[c].user = NoOne \/ state'[conn[c].user] # "wait",
           \A c \in K : conn'[c].user = NoOne,
           \A c \in Conns \ K : conn'[c].user = conn[c].user /\ conn'[c].to = conn[c].to,
           \A r \in Requests : state'[r] = "wait" => state[r] = "wait"
    PROVE  ToItsService' /\ Holding'
<1>1. ToItsService'
  BY DEF HoldInv, ToItsService
<1>2. Holding'
  <2> SUFFICES ASSUME NEW r \in Requests, state'[r] = "wait"
               PROVE  \E c \in Conns : conn'[c].user = r
    BY DEF Holding
  <2>1. PICK c \in Conns : conn[c].user = r
    BY DEF HoldInv, Holding
  <2>2. c \notin K
    BY <2>1, HttpAssumption
  <2> QED
    BY <2>1, <2>2
<1> QED
  BY <1>1, <1>2

LEMMA SendHolds ==
    ASSUME HttpInv, HoldInv, NEW r \in Requests, NEW c \in Conns, NEW b \in Connections,
           state[r] = "pool", conn[c].user = NoOne, b.to = Service(r), Send(r, c, b)
    PROVE  ToItsService' /\ Holding'
<1>1. /\ conn'[c].user = r /\ conn'[c].to = Service(r)
      /\ \A d \in Conns \ {c} : conn'[d] = conn[d]
      /\ state' = [state EXCEPT ![r] = "wait"]
  BY DEF Send, Goes, HttpInv, TypeOK, Connections
<1>2. ToItsService'
  BY <1>1 DEF HoldInv, ToItsService
<1>3. Holding'
  <2> SUFFICES ASSUME NEW q \in Requests, state'[q] = "wait", q # r
               PROVE  \E d \in Conns : conn'[d].user = q
    BY <1>1 DEF Holding
  <2>1. PICK d \in Conns : conn[d].user = q
    BY <1>1 DEF HoldInv, Holding, HttpInv, TypeOK
  <2>2. d # c
    BY <2>1, HttpAssumption
  <2> QED
    BY <1>1, <2>1, <2>2
<1> QED
  BY <1>2, <1>3

LEMMA HoldStep == HttpInv /\ HoldInv /\ [Next]_vars => HoldInv'
<1> SUFFICES ASSUME HttpInv, HoldInv, [Next]_vars PROVE ToItsService' /\ Holding'
  BY ForwardedKept DEF HoldInv
<1>1. state \in [Requests -> {"new", "body", "pool", "wait"} \cup Final] /\ conn \in [Conns -> Connections]
  BY DEF HttpInv, TypeOK
<1>2. CASE UNCHANGED <<conn, state>>
  BY <1>2 DEF HoldInv, ToItsService, Holding
<1>3. ASSUME NEW r \in Requests, Arrive(r) \/ Body(r) \/ PoolTimeout(r)
      PROVE  ToItsService' /\ Holding'
  <2>1. /\ UNCHANGED conn
        /\ \A q \in Requests : state'[q] = "wait" => state[q] = "wait"
    BY <1>1, <1>3 DEF Arrive, Pass, Verify, Body, PoolTimeout, Goes
  <2> QED
    BY <2>1, HoldersKept, {} \in SUBSET Conns
<1>4. ASSUME NEW r \in Requests, NEW c \in Conns, Reuse(r, c) PROVE ToItsService' /\ Holding'
  BY <1>1, <1>4, SendHolds DEF Reuse, Idle
<1>5. ASSUME NEW r \in Requests, NEW c \in Conns, Connect(r, c) PROVE ToItsService' /\ Holding'
  <2>1. state[r] = "pool" /\ Service(r) # NoOne
    BY <1>5 DEF Connect, HoldInv, Forwarded
  <2>2. conn[c].user = NoOne
    <3>1. CASE conn[c].to = NoOne
      <4>1. ASSUME conn[c].user # NoOne PROVE FALSE
        <5>1. conn[c].user \in Requests
          BY <1>1, <4>1 DEF Connections
        <5>2. state[conn[c].user] = "wait" /\ conn[c].to = Service(conn[c].user)
          BY <4>1 DEF HttpInv, Carried, HoldInv, ToItsService
        <5> QED
          BY <3>1, <5>1, <5>2 DEF HoldInv, Forwarded
      <4> QED
        BY <4>1
    <3> QED
      BY <1>5, <3>1 DEF Connect, Idle
  <2>3. CASE Send(r, c, [NoConn EXCEPT !.to = Service(r), !.open = TRUE])
    <3> DEFINE b == [NoConn EXCEPT !.to = Service(r), !.open = TRUE]
    <3>1. b \in Connections /\ b.to = Service(r)
      BY <2>1 DEF NoConn, Connections, Services
    <3> HIDE DEF b
    <3> QED
      BY <2>1, <2>2, <2>3, <3>1, SendHolds DEF b
  <2>4. CASE Goes(r, "500") /\ conn' = [conn EXCEPT ![c] = NoConn]
    <3>1. /\ conn'[c].user = NoOne /\ \A d \in Conns \ {c} : conn'[d] = conn[d]
          /\ \A q \in Requests : state'[q] = "wait" => state[q] = "wait"
      BY <1>1, <2>4 DEF Goes, NoConn
    <3> QED
      BY <2>2, <3>1, HoldersKept, {c} \in SUBSET Conns
  <2> QED
    BY <1>5, <2>3, <2>4 DEF Connect
<1>6. ASSUME NEW r \in Requests, NEW c \in Conns,
             Receive(r, c) \/ ReadError(r, c) \/ ReadTimeout(r, c)
      PROVE  ToItsService' /\ Holding'
  <2>1. /\ conn[c].user = r /\ state'[r] # "wait"
        /\ conn'[c].user = NoOne /\ \A d \in Conns \ {c} : conn'[d] = conn[d]
        /\ \A q \in Requests : state'[q] = "wait" => state[q] = "wait"
    <3>1. /\ conn[c].user = r
          /\ \E w \in {"500", "replied"} : state' = [state EXCEPT ![r] = w]
      BY <1>6 DEF Receive, ReadError, ReadTimeout, Goes
    <3>2. conn'[c].user = NoOne /\ \A d \in Conns \ {c} : conn'[d] = conn[d]
      <4>1. CASE Receive(r, c)
        BY <1>1, <4>1 DEF Receive, Connections
      <4>2. CASE conn' = [conn EXCEPT ![c] = NoConn]
        BY <1>1, <4>2 DEF NoConn
      <4> QED
        BY <1>6, <4>1, <4>2 DEF ReadError, ReadTimeout
    <3> QED
      BY <1>1, <3>1, <3>2
  <2> QED
    BY <2>1, HoldersKept, {c} \in SUBSET Conns
<1>7. ASSUME NEW c \in Conns, DropIdle(c) PROVE ToItsService' /\ Holding'
  <2>1. /\ conn[c].user = NoOne /\ UNCHANGED state
        /\ conn'[c].user = NoOne /\ \A d \in Conns \ {c} : conn'[d] = conn[d]
    BY <1>1, <1>7 DEF DropIdle, Idle, NoConn
  <2> QED
    BY <2>1, HoldersKept, {c} \in SUBSET Conns
<1>8. ASSUME NEW r \in Requests, Finish(r) \/ Dies(r) PROVE ToItsService' /\ Holding'
  <2>1. UNCHANGED state /\ \A d \in Conns : conn'[d].user = conn[d].user /\ conn'[d].to = conn[d].to
    <3> SUFFICES ASSUME NEW d \in Conns PROVE conn'[d].user = conn[d].user /\ conn'[d].to = conn[d].to
      BY <1>8 DEF Finish, Dies
    <3>1. conn[d] \in Connections
      BY <1>1
    <3>2. \/ conn'[d] = conn[d]
          \/ conn'[d] = [conn[d] EXCEPT !.serves = NoOne, !.reply = r]
          \/ conn'[d] = [conn[d] EXCEPT !.serves = NoOne, !.open = FALSE]
      BY <1>8, Zenon DEF Finish, Dies
    <3> QED
      BY <3>1, <3>2 DEF Connections
  <2> QED
    BY <2>1, HoldersKept, {} \in SUBSET Conns
<1>9. ASSUME NEW c \in Conns, CloseIdle(c) PROVE ToItsService' /\ Holding'
  <2>1. UNCHANGED state /\ \A d \in Conns : conn'[d].user = conn[d].user /\ conn'[d].to = conn[d].to
    BY <1>1, <1>9 DEF CloseIdle, Connections
  <2> QED
    BY <2>1, HoldersKept, {} \in SUBSET Conns
<1> QED
  BY <1>2, <1>3, <1>4, <1>5, <1>6, <1>7, <1>8, <1>9 DEF Next, Proceed, NewWindow, vars

\* No connection of the one pool is lost, whatever times out or breaks: those in
\* use are each held by one request, which still waits for the service the
\* connection is to, and each such request holds one.  So a request is kept
\* waiting by other requests only (lifespan, one client for all routes).
ConnectionsInUse ==
    /\ \A c \in Conns :
          conn[c].user # NoOne =>
              state[conn[c].user] = "wait" /\ conn[c].to = Service(conn[c].user)
    /\ \A r \in Requests :
          state[r] = "wait" =>
              \E c \in Conns : \A d \in Conns : conn[d].user = r <=> d = c

\* ConnectionsInUse holds throughout: the safety half of RequestsAreAnswered.
THEOREM NoConnectionIsLost == Spec => []ConnectionsInUse
<1>1. Init => HoldInv
  BY DEF Init, NoConn, HoldInv, Forwarded, ToItsService, Holding
<1>2. HttpInv /\ HoldInv => ConnectionsInUse
  <2> SUFFICES ASSUME HttpInv, HoldInv PROVE ConnectionsInUse
    OBVIOUS
  <2>1. ASSUME NEW c \in Conns, conn[c].user # NoOne
        PROVE  state[conn[c].user] = "wait" /\ conn[c].to = Service(conn[c].user)
    BY <2>1 DEF HttpInv, Carried, HoldInv, ToItsService
  <2>2. ASSUME NEW r \in Requests, state[r] = "wait"
        PROVE  \E c \in Conns : \A d \in Conns : conn[d].user = r <=> d = c
    BY <2>2, HttpAssumption DEF HoldInv, Holding, HttpInv, HeldOnce
  <2> QED
    BY <2>1, <2>2 DEF ConnectionsInUse
<1> QED
  BY <1>1, <1>2, HoldStep, HttpInvariant, PTL DEF Spec
===============================================================================
