----------------------------- MODULE GatewayHttp -----------------------------
(***************************************************************************)
(* The HTTP side of the API gateway: rate limit and JWT check (main.py,    *)
(* jwt.py), then the request goes to an upstream service over one          *)
(* httpx.AsyncClient, whose connections all routes share (http_proxy.py).  *)
(*                                                                         *)
(* A connection carries one request at a time and is kept for another one  *)
(* to the same service.  A request that fails is not repeated, and the     *)
(* service does not learn that the gateway has given up on it.             *)
(***************************************************************************)
EXTENDS Naturals, FiniteSets

CONSTANTS
    Requests,   \* the requests that clients make
    Route,      \* the route of each
    Upstream,   \* the service behind each route, or NoOne: answered here
    Public,     \* requests to a path with one of PUBLIC_PREFIXES, and "/"
    Conns,      \* connections the client may have (httpx: 100)
    RateLimit,  \* RATE_LIMIT_DEFAULT
    NoOne

ASSUME HttpAssumption ==
    /\ DOMAIN Route = Requests
    /\ \A r \in Requests : Route[r] \in DOMAIN Upstream
    /\ Public \subseteq Requests
    /\ \A r \in Requests : Upstream[Route[r]] = NoOne => r \in Public
    /\ RateLimit \in Nat \ {0}
    /\ NoOne \notin Requests

VARIABLES
    state,    \* where the request is, or how it was answered
    sub,      \* requests that carry the subject of their token to the service
    hits,     \* requests counted in this window (per client address: there is one)
    conn,     \* the connections
    running,  \* requests at work in their service
    effects,  \* how often each took effect there
    answer    \* the request that the reply sent to the client was for

vars == <<state, sub, hits, conn, running, effects, answer>>

Service(r) == Upstream[Route[r]]
Services   == {Service(r) : r \in Requests} \ {NoOne}

\* A connection: the service, the request of ours that holds it, the one that
\* the service is at work on for it, the reply under way, and whether the
\* service's end is open.
Connections ==
    [to: Services \cup {NoOne}, user: Requests \cup {NoOne},
     serves: Requests \cup {NoOne}, reply: Requests \cup {NoOne}, open: BOOLEAN]

NoConn == [to |-> NoOne, user |-> NoOne, serves |-> NoOne, reply |-> NoOne, open |-> FALSE]

Idle(c) == conn[c].to # NoOne /\ conn[c].user = NoOne

Init ==
    /\ state = [r \in Requests |-> "new"]
    /\ sub = {}
    /\ hits = [p \in DOMAIN Upstream |-> 0]
    /\ conn = [c \in Conns |-> NoConn]
    /\ running = {}
    /\ effects = [r \in Requests |-> 0]
    /\ answer = [r \in Requests |-> NoOne]

Goes(r, where) == state' = [state EXCEPT ![r] = where]

-----------------------------------------------------------------------------
(* Before the service *)

\* slowapi counts in windows of a fixed length; those of all routes end together
\* here, each has its own in slowapi.
NewWindow ==
    /\ \E p \in DOMAIN hits : hits[p] > 0
    /\ hits' = [p \in DOMAIN hits |-> 0]
    /\ UNCHANGED <<state, sub, conn, running, effects, answer>>

\* A public path: the gateway answers itself, or forwards without looking for a
\* token.
Pass(r) ==
    /\ r \in Public
    /\ Goes(r, IF Service(r) = NoOne THEN "here" ELSE "body")
    /\ UNCHANGED sub

\* Any other path: verify_token finds the subject of the token; or there is no
\* token, or it is bad or expired.
Verify(r) ==
    /\ r \notin Public
    /\ \/ Goes(r, "body") /\ sub' = sub \cup {r}
       \/ Goes(r, "401") /\ UNCHANGED sub

\* The limiter, then the route's handler up to its first await.
Arrive(r) ==
    /\ state[r] = "new"
    /\ \/ /\ hits[Route[r]] = RateLimit
          /\ Goes(r, "429")
          /\ UNCHANGED <<sub, hits>>
       \/ /\ hits[Route[r]] < RateLimit
          /\ hits' = [hits EXCEPT ![Route[r]] = @ + 1]
          /\ Pass(r) \/ Verify(r)
    /\ UNCHANGED <<conn, running, effects, answer>>

\* await request.body(): it arrives, or the client is gone.
Body(r) ==
    /\ state[r] = "body"
    /\ \/ Goes(r, "pool")
       \/ Goes(r, "500")
    /\ UNCHANGED <<sub, hits, conn, running, effects, answer>>

-----------------------------------------------------------------------------
(* client.request *)

\* The request is sent over connection c, which was `before' until then.  The
\* service may just have closed it; what it was doing there comes first.
Send(r, c, before) ==
    /\ Goes(r, "wait")
    /\ conn' = [conn EXCEPT ![c] =
                   [before EXCEPT !.user = r,
                                  !.serves = IF @ = NoOne /\ before.open THEN r ELSE @]]
    /\ running' = IF before.open THEN running \cup {r} ELSE running
    /\ UNCHANGED <<sub, hits, effects, answer>>

Reuse(r, c) ==
    /\ state[r] = "pool"
    /\ Idle(c) /\ conn[c].to = Service(r)
    /\ Send(r, c, conn[c])

\* A new connection, in the place of an idle one to another service if need be;
\* connecting may fail.
Connect(r, c) ==
    /\ state[r] = "pool"
    /\ ~\E d \in Conns : Idle(d) /\ conn[d].to = Service(r)
    /\ \/ conn[c].to = NoOne
       \/ Idle(c) /\ \A d \in Conns : conn[d].to # NoOne
    /\ \/ Send(r, c, [NoConn EXCEPT !.to = Service(r), !.open = TRUE])
       \/ /\ Goes(r, "500")
          /\ conn' = [conn EXCEPT ![c] = NoConn]
          /\ UNCHANGED <<sub, hits, running, effects, answer>>

\* No connection has become free in 60 seconds.
PoolTimeout(r) ==
    /\ state[r] = "pool"
    /\ \A c \in Conns : conn[c].user # NoOne
    /\ Goes(r, "500")
    /\ UNCHANGED <<sub, hits, conn, running, effects, answer>>

\* The reply: the connection goes back to the pool.
Receive(r, c) ==
    /\ conn[c].user = r
    /\ conn[c].reply # NoOne
    /\ Goes(r, "replied")
    /\ answer' = [answer EXCEPT ![r] = conn[c].reply]
    /\ conn' = [conn EXCEPT ![c] = [@ EXCEPT !.user = NoOne, !.reply = NoOne]]
    /\ UNCHANGED <<sub, hits, running, effects>>

\* Mutant: the request is made again.
RepeatRequest(r, c) ==
    /\ conn[c].user = r
    /\ conn[c].reply = NoOne /\ ~conn[c].open
    /\ Goes(r, "pool")
    /\ conn' = [conn EXCEPT ![c] = NoConn]
    /\ UNCHANGED <<sub, hits, running, effects, answer>>

\* The service has closed the connection: an exception that nobody catches.
ReadError(r, c) ==
    /\ conn[c].user = r
    /\ conn[c].reply = NoOne /\ ~conn[c].open
    /\ Goes(r, "500")
    /\ conn' = [conn EXCEPT ![c] = NoConn]
    /\ UNCHANGED <<sub, hits, running, effects, answer>>

\* Mutant: the connection goes back to the pool.
KeepAfterTimeout(r, c) ==
    /\ conn[c].user = r
    /\ Goes(r, "500")
    /\ conn' = [conn EXCEPT ![c].user = NoOne]
    /\ UNCHANGED <<sub, hits, running, effects, answer>>

\* Mutant: only a connection on which the service is not at work is given up.
TimeoutWhenIdle(r, c) ==
    /\ conn[c].user = r
    /\ r \notin running
    /\ Goes(r, "500")
    /\ conn' = [conn EXCEPT ![c] = NoConn]
    /\ UNCHANGED <<sub, hits, running, effects, answer>>

\* No byte for 60 seconds: the connection is closed, and the exception is not
\* caught either.  The service goes on with the request.
ReadTimeout(r, c) ==
    /\ conn[c].user = r
    /\ conn[c].reply = NoOne
    /\ Goes(r, "500")
    /\ conn' = [conn EXCEPT ![c] = NoConn]
    /\ UNCHANGED <<sub, hits, running, effects, answer>>

\* The pool closes an idle connection, because of its age or because it has
\* noticed that the service has.
DropIdle(c) ==
    /\ Idle(c)
    /\ conn' = [conn EXCEPT ![c] = NoConn]
    /\ UNCHANGED <<state, sub, hits, running, effects, answer>>

-----------------------------------------------------------------------------
(* The services *)

\* The service has done what r asked; the reply goes over r's connection if
\* that is still there.
Finish(r) ==
    /\ r \in running
    /\ running' = running \ {r}
    /\ effects' = [effects EXCEPT ![r] = @ + 1]
    /\ conn' = [c \in Conns |->
                   IF conn[c].serves = r
                   THEN [conn[c] EXCEPT !.serves = NoOne, !.reply = r] ELSE conn[c]]
    /\ UNCHANGED <<state, sub, hits, answer>>

\* It is killed at work on r, before or after that took effect.
Dies(r) ==
    /\ r \in running
    /\ running' = running \ {r}
    /\ effects' \in {effects, [effects EXCEPT ![r] = @ + 1]}
    /\ conn' = [c \in Conns |->
                   IF conn[c].serves = r
                   THEN [conn[c] EXCEPT !.serves = NoOne, !.open = FALSE] ELSE conn[c]]
    /\ UNCHANGED <<state, sub, hits, answer>>

\* It closes a connection on which it has nothing to do (uvicorn: after 5 s).
CloseIdle(c) ==
    /\ conn[c].open
    /\ conn[c].serves = NoOne
    /\ conn' = [conn EXCEPT ![c].open = FALSE]
    /\ UNCHANGED <<state, sub, hits, running, effects, answer>>

-----------------------------------------------------------------------------
Proceed(r) ==
    \/ PoolTimeout(r)
    \/ \E c \in Conns :
          Reuse(r, c) \/ Connect(r, c) \/ Receive(r, c) \/ ReadError(r, c) \/ ReadTimeout(r, c)

Next ==
    \/ NewWindow
    \/ \E r \in Requests : Arrive(r) \/ Body(r) \/ Proceed(r) \/ Finish(r) \/ Dies(r)
    \/ \E c \in Conns : DropIdle(c) \/ CloseIdle(c)

Spec == Init /\ [][Next]_vars

\* client.request ends, by its timeouts if not before.  Nothing is assumed of the
\* clients or of the services.
FairSpec == Spec /\ \A r \in Requests : WF_vars(Proceed(r))

-----------------------------------------------------------------------------
(* Properties *)

Final == {"here", "401", "429", "500", "replied"}

TypeOK ==
    /\ state \in [Requests -> {"new", "body", "pool", "wait"} \cup Final]
    /\ sub \subseteq Requests
    /\ hits \in [DOMAIN Upstream -> Nat]
    /\ conn \in [Conns -> Connections]
    /\ running \subseteq Requests
    /\ effects \in [Requests -> Nat]
    /\ answer \in [Requests -> Requests \cup {NoOne}]

\* The reply that a client gets is the one to its request, although connections
\* are used again and a service may answer after the gateway has given up
\* (http_proxy.py, one client for all requests).
OwnAnswer == \A r \in Requests : answer[r] \in {NoOne, r} /\ (state[r] = "replied" => answer[r] = r)

\* What the client is told agrees with what the service did: a request that was
\* refused never reached it, one with a reply took effect once, and one that
\* failed once at most, maybe later; and a service gets no request from outside
\* the public paths without the subject of a token (main.py, http_proxy.py).
EffectsMatchAnswers ==
    \A r \in Requests :
        /\ state[r] \in {"401", "429"} => r \notin running /\ effects[r] = 0
        /\ state[r] = "replied" => r \notin running /\ effects[r] = 1
        /\ state[r] = "500" => effects[r] + (IF r \in running THEN 1 ELSE 0) <= 1
        /\ effects[r] > 0 => r \in Public \cup sub

\* Every request whose body has arrived is answered, whether its service answers,
\* fails or hangs, and although the routes share one pool of connections (lifespan,
\* timeout=60.0).  A reply that trickles in is not covered: the timeout is per read,
\* and a reply is one step here.
RequestsAreAnswered == \A r \in Requests : state[r] = "pool" ~> state[r] \in Final
===============================================================================
