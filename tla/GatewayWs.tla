------------------------------ MODULE GatewayWs ------------------------------
(***************************************************************************)
(* One chat WebSocket through the api-gateway.                             *)
(*                                                                         *)
(* The gateway verifies the token, accepts the client, connects to         *)
(* chat-api, and runs two pumps under asyncio.gather: the up pump takes    *)
(* frames of the client to chat-api, the down pump those of chat-api to    *)
(* the client.  gather waits for both unless one raises; it then leaves    *)
(* the other pump running.  On the way out the gateway closes the          *)
(* connection to chat-api, then the client's with 1011.                    *)
(*                                                                         *)
(* A frame is received and written without an await in between, so a pump  *)
(* moves it in one step.  Frames are numbered in the order they are sent.  *)
(***************************************************************************)
EXTENDS Integers, Sequences

CONSTANTS
    MaxAsked,   \* bound: frames the client sends
    MaxSaid     \* bound: frames chat-api sends

ASSUME FrameAssumption == MaxAsked \in Nat /\ MaxSaid \in Nat

VARIABLES
    gw,         \* proxy_websocket: what it does next
    up,         \* client_to_backend
    down,       \* backend_to_client
    client,     \* the client's connection
    asked,      \* how many frames it has sent
    clientOut,  \* those the up pump has not received yet
    shown,      \* frames that have reached it
    backend,    \* the connection to chat-api
    said,       \* how many frames chat-api has sent on it
    backendOut, \* those the down pump has not received yet
    backendGot  \* frames that have reached chat-api

browser == <<client, asked, clientOut, shown>>
chatApi == <<backend, said, backendOut, backendGot>>
vars    == <<gw, up, down, client, asked, clientOut, shown,
             backend, said, backendOut, backendGot>>

Init ==
    /\ gw = "verify"
    /\ up = "off"
    /\ down = "off"
    /\ client = "pending"
    /\ asked = 0
    /\ clientOut = <<>>
    /\ shown = <<>>
    /\ backend = "none"
    /\ said = 0
    /\ backendOut = <<>>
    /\ backendGot = <<>>

-----------------------------------------------------------------------------
(* The two peers *)

ClientSends ==
    /\ client = "open"
    /\ asked < MaxAsked
    /\ asked' = asked + 1
    /\ clientOut' = Append(clientOut, asked + 1)
    /\ UNCHANGED <<gw, up, down, client, shown, chatApi>>

ClientLeaves ==
    /\ client = "open"
    /\ client' = "left"
    /\ UNCHANGED <<gw, up, down, asked, clientOut, shown, chatApi>>

\* A frame of an answer, or the error item that precedes a close.
BackendSays ==
    /\ backend = "open"
    /\ said < MaxSaid
    /\ said' = said + 1
    /\ backendOut' = Append(backendOut, said + 1)
    /\ UNCHANGED <<gw, up, down, browser, backend, backendGot>>

\* chat-api closes, crashes, or sends a frame above max_size.
BackendEnds ==
    /\ backend = "open"
    /\ backend' = "ended"
    /\ UNCHANGED <<gw, up, down, browser, said, backendOut, backendGot>>

-----------------------------------------------------------------------------
(* Setting up *)

\* No token, or one that verify_token rejects: close with 1008.
Refuse ==
    /\ gw = "verify"
    /\ client' = "refused"
    /\ gw' = "done"
    /\ UNCHANGED <<up, down, asked, clientOut, shown, chatApi>>

\* The client is accepted before chat-api is even asked.
Accept ==
    /\ gw = "verify"
    /\ client' = "open"
    /\ gw' = "connect"
    /\ UNCHANGED <<up, down, asked, clientOut, shown, chatApi>>

Connect ==
    /\ gw = "connect"
    /\ backend' = "open"
    /\ up' = "receive"
    /\ down' = "receive"
    /\ gw' = "relay"
    /\ UNCHANGED <<browser, said, backendOut, backendGot>>

\* chat-api refuses, is unreachable, or takes longer than open_timeout.
ConnectFails ==
    /\ gw = "connect"
    /\ gw' = "closing"
    /\ UNCHANGED <<up, down, browser, chatApi>>

-----------------------------------------------------------------------------
(* The pumps *)

\* Mutant: frames of the client are forwarded by tasks of their own.
ForwardUpInAnyOrder ==
    /\ up = "receive"
    /\ backend = "open"
    /\ \E i \in DOMAIN clientOut :
          /\ backendGot' = Append(backendGot, clientOut[i])
          /\ clientOut' = SubSeq(clientOut, 1, i - 1)
                          \o SubSeq(clientOut, i + 1, Len(clientOut))
    /\ UNCHANGED <<gw, up, down, client, asked, shown,
                   backend, said, backendOut>>

\* backend.send on a connection that chat-api has ended raises, or the frame
\* is lost as long as the gateway has not noticed.
ForwardUp ==
    /\ up = "receive"
    /\ clientOut # <<>>
    /\ clientOut' = Tail(clientOut)
    /\ \/ /\ backend = "open"
          /\ backendGot' = Append(backendGot, Head(clientOut))
          /\ UNCHANGED up
       \/ /\ backend = "ended"
          /\ down # "failed"
          /\ UNCHANGED <<up, backendGot>>
       \/ /\ backend = "ended"
          /\ up' = "failed"
          /\ UNCHANGED backendGot
    /\ UNCHANGED <<gw, down, client, asked, shown, backend, said, backendOut>>

\* receive() returns the disconnect after all frames: the pump returns, and
\* gather goes on waiting for the other one.
UpEnds ==
    /\ up = "receive"
    /\ clientOut = <<>>
    /\ client # "open"
    /\ up' = "ended"
    /\ UNCHANGED <<gw, down, browser, chatApi>>

\* Mutant: what cannot be shown any more is skipped.
ForwardDownQuietly ==
    /\ down = "receive"
    /\ backendOut # <<>>
    /\ backendOut' = Tail(backendOut)
    /\ shown' = IF client = "open" THEN Append(shown, Head(backendOut))
                                   ELSE shown
    /\ UNCHANGED <<gw, up, down, client, asked, clientOut,
                   backend, said, backendGot>>

\* The send to a client that has left is lost or raises; it does raise once
\* the up pump has received the disconnect or the gateway has closed.
ForwardDown ==
    /\ down = "receive"
    /\ backendOut # <<>>
    /\ backendOut' = Tail(backendOut)
    /\ \/ /\ client = "open"
          /\ shown' = Append(shown, Head(backendOut))
          /\ UNCHANGED down
       \/ /\ client = "left"
          /\ up # "ended"
          /\ gw # "done"
          /\ UNCHANGED <<down, shown>>
       \/ /\ client # "open"
          /\ down' = "failed"
          /\ UNCHANGED shown
    /\ UNCHANGED <<gw, up, client, asked, clientOut, backend, said, backendGot>>

\* Mutant: the pump looks at the connection's state before it calls recv().
DownFailsAtOnce ==
    /\ down = "receive"
    /\ backend = "ended"
    /\ down' = "failed"
    /\ UNCHANGED <<gw, up, browser, chatApi>>

\* recv() raises ConnectionClosed after the frames that came before the end.
DownFails ==
    /\ down = "receive"
    /\ backendOut = <<>>
    /\ backend = "ended"
    /\ down' = "failed"
    /\ UNCHANGED <<gw, up, browser, chatApi>>

-----------------------------------------------------------------------------
(* The way out *)

\* Mutant: the relay gives up on a connection where nothing moves.
RelayGivesUp ==
    /\ gw = "relay"
    /\ \/ "failed" \in {up, down}
       \/ clientOut = <<>> /\ backendOut = <<>>
    /\ gw' = "leaving"
    /\ UNCHANGED <<up, down, browser, chatApi>>

\* gather raises what the first failing pump raised.
RelayFails ==
    /\ gw = "relay"
    /\ "failed" \in {up, down}
    /\ gw' = "leaving"
    /\ UNCHANGED <<up, down, browser, chatApi>>

\* async with closes the connection to chat-api.
Leave ==
    /\ gw = "leaving"
    /\ backend' = "ended"
    /\ gw' = "closing"
    /\ UNCHANGED <<up, down, browser, said, backendOut, backendGot>>

\* Mutant: the exception is logged and the client's connection forgotten.
CloseNothing ==
    /\ gw = "closing"
    /\ gw' = "done"
    /\ UNCHANGED <<up, down, browser, chatApi>>

\* close(1011); that the client has left already is ignored.
CloseClient ==
    /\ gw = "closing"
    /\ client' = IF client = "open" THEN "closed" ELSE client
    /\ gw' = "done"
    /\ UNCHANGED <<up, down, asked, clientOut, shown, chatApi>>

-----------------------------------------------------------------------------
SetUp    == Refuse \/ Accept \/ Connect \/ ConnectFails
UpPump   == ForwardUp \/ UpEnds
DownPump == ForwardDown \/ DownFails
WayOut   == RelayFails \/ Leave \/ CloseClient

Next ==
    \/ ClientSends \/ ClientLeaves
    \/ BackendSays \/ BackendEnds
    \/ SetUp \/ UpPump \/ DownPump \/ WayOut

Spec == Init /\ [][Next]_vars

\* The gateway's event loop runs what is ready, and its calls have timeouts.
\* Nothing is assumed of the two peers.
FairSpec ==
    /\ Spec
    /\ WF_vars(SetUp)
    /\ WF_vars(UpPump)
    /\ WF_vars(DownPump)
    /\ WF_vars(WayOut)

-----------------------------------------------------------------------------
(* Properties *)

TypeOK ==
    /\ gw \in {"verify", "connect", "relay", "leaving", "closing", "done"}
    /\ up \in {"off", "receive", "ended", "failed"}
    /\ down \in {"off", "receive", "failed"}
    /\ client \in {"pending", "open", "left", "closed", "refused"}
    /\ asked \in 0..MaxAsked
    /\ clientOut \in Seq(1..MaxAsked)
    /\ shown \in Seq(1..MaxSaid)
    /\ backend \in {"none", "open", "ended"}
    /\ said \in 0..MaxSaid
    /\ backendOut \in Seq(1..MaxSaid)
    /\ backendGot \in Seq(1..MaxAsked)
    /\ (gw \in {"verify", "connect"}) => (backend = "none" /\ up = "off" /\ down = "off")

\* Either direction of the relay is a pipe: frames arrive in order and without
\* gaps until the receiving end is gone (client_to_backend, backend_to_client).
UpPipe   == INSTANCE FramePipe WITH
                sent <- asked, got <- backendGot, live <- backend # "ended"
DownPipe == INSTANCE FramePipe WITH
                sent <- said, got <- shown, live <- client \in {"pending", "open"}

RelayIsTwoPipes == UpPipe!Spec /\ DownPipe!Spec

\* A client whose connection the gateway closes has been shown all that
\* chat-api sent, unless a frame it sent after chat-api had ended made the up
\* pump fail first: gather then abandons what the down pump had still to read.
CutOffOnlyByLateSend ==
    (client = "closed" /\ Len(shown) < said) => (up = "failed" /\ Len(backendGot) < asked)

\* The gateway hangs up on chat-api only if the client has left or chat-api has
\* ended, and on a client only if chat-api is not there: an idle connection
\* stays (ping_interval=None), and no pump's end alone breaks the other's peer.
HangsUpForCause ==
    [][ /\ (gw = "leaving" /\ backend = "open" /\ backend' = "ended") => client = "left"
        /\ (client = "open" /\ client' = "closed") => backend # "open" ]_vars

\* The end of chat-api's connection, or the failure to reach it, ends the
\* client's.
EndReachesClient == (gw = "closing" \/ backend = "ended") ~> client # "open"

\* Once the relay is given up no pump is left behind, although gather does not
\* cancel the other one.
NoPumpLeftBehind == (gw = "leaving") ~> (up # "receive" /\ down # "receive")

\* One side's end is the end of all: of the other side's connection, of the pumps.
EndSpreads == EndReachesClient /\ NoPumpLeftBehind

\* After the client has left, the next frame of chat-api or its end frees both
\* connections.  (Silence of chat-api does not: see README.)
SpeechFreesRelay ==
    (client = "left" /\ up = "ended" /\ backendOut # <<>>) ~> (gw = "done")
=============================================================================
