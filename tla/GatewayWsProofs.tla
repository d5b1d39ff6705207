--------------------------- MODULE GatewayWsProofs ---------------------------
(***************************************************************************)
(* Proofs about GatewayWs, for any number of frames in either direction.   *)
(***************************************************************************)
EXTENDS GatewayWs, TLAPS

(* The inductive invariant *)

\* How far the proxy has come, and what there is of either connection then.
Stages ==
    /\ gw = "verify" <=> client = "pending"
    /\ gw = "verify" => asked = 0 /\ clientOut = <<>>
    /\ client \in {"closed", "refused"} => gw = "done"
    /\ backend = "none" => said = 0 /\ backendOut = <<>> /\ shown = <<>> /\ backendGot = <<>>
    /\ backend = "open" => gw \in {"relay", "leaving"}
    /\ gw \in {"relay", "leaving"} => backend # "none"

\* What is on its way to chat-api continues what has arrived there; once
\* chat-api has ended, frames may get lost.
UpFlow ==
    /\ Len(backendGot) + Len(clientOut) <= asked
    /\ backend # "ended" =>
          /\ Len(backendGot) + Len(clientOut) = asked
          /\ \A i \in 1..Len(clientOut) : clientOut[i] = Len(backendGot) + i

\* The same towards the client, until it is gone.
DownFlow ==
    client \in {"pending", "open"} =>
        /\ Len(shown) + Len(backendOut) = said
        /\ \A i \in 1..Len(backendOut) : backendOut[i] = Len(shown) + i

\* A pump fails when a peer of its own is gone: the up pump over a frame that
\* does not arrive, the down pump of a present client when all is shown.
Causes ==
    /\ up = "failed" => backend = "ended" /\ Len(backendGot) < asked
    /\ down = "failed" /\ client = "open" => backend = "ended" /\ Len(shown) = said
    /\ gw = "leaving" => "failed" \in {up, down}
    /\ gw = "closing" => backend = "none" \/ "failed" \in {up, down}

RelayInv == TypeOK /\ Stages /\ UpFlow /\ DownFlow /\ Causes /\ CutOffOnlyByLateSend

-----------------------------------------------------------------------------
(* Sequences *)

\* Taking the first number.
LEMMA TailNumber ==
    ASSUME NEW S, NEW s \in Seq(S), s # <<>>
    PROVE  /\ Head(s) \in S
           /\ Tail(s) \in Seq(S)
           /\ Len(Tail(s)) = Len(s) - 1
           /\ Len(s) >= 1
           /\ Head(s) = s[1]
           /\ \A i \in 1..Len(Tail(s)) : Tail(s)[i] = s[i + 1]
  OBVIOUS

-----------------------------------------------------------------------------
(* The invariant is inductive *)

\* Before the token is verified nothing has been moved.
LEMMA InitRelay == Init => RelayInv
  BY FrameAssumption
     DEF Init, RelayInv, TypeOK, Stages, UpFlow, DownFlow, Causes, CutOffOnlyByLateSend

\* The peers' own steps.
LEMMA PeersKeep ==
    RelayInv /\ (ClientSends \/ ClientLeaves \/ BackendSays \/ BackendEnds) => RelayInv'
<1> SUFFICES ASSUME RelayInv,
                    ClientSends \/ ClientLeaves \/ BackendSays \/ BackendEnds
             PROVE  RelayInv'
  OBVIOUS
<1> USE FrameAssumption
<1>1. CASE ClientSends
  <2>1. asked + 1 \in 1..MaxAsked
    BY <1>1 DEF ClientSends, RelayInv, TypeOK
  <2>2. clientOut' \in Seq(1..MaxAsked) /\ Len(clientOut') = Len(clientOut) + 1
    BY <1>1, <2>1 DEF ClientSends, RelayInv, TypeOK
  <2>3. TypeOK' /\ Stages'
    BY <1>1, <2>1, <2>2 DEF ClientSends, RelayInv, TypeOK, Stages, chatApi
  <2>4. UpFlow'
    <3>1. Len(backendGot) \in Nat /\ Len(clientOut) \in Nat /\ asked \in Nat
      BY DEF RelayInv, TypeOK
    <3>2. /\ Len(backendGot') + Len(clientOut') <= asked'
          /\ backend # "ended" => Len(backendGot') + Len(clientOut') = asked'
      BY <1>1, <2>2, <3>1 DEF ClientSends, RelayInv, UpFlow, chatApi
    <3>3. ASSUME backend # "ended", NEW i \in 1..Len(clientOut')
          PROVE  clientOut'[i] = Len(backendGot') + i
      <4>1. clientOut' = Append(clientOut, asked + 1) /\ clientOut \in Seq(1..MaxAsked)
        BY <1>1 DEF ClientSends, RelayInv, TypeOK
      <4>2. /\ \A j \in 1..Len(clientOut) : clientOut'[j] = clientOut[j]
            /\ clientOut'[Len(clientOut) + 1] = asked + 1
        BY <4>1
      <4>3. /\ Len(backendGot') = Len(backendGot)
            /\ Len(backendGot) + Len(clientOut) = asked
            /\ \A j \in 1..Len(clientOut) : clientOut[j] = Len(backendGot) + j
        BY <1>1, <3>3 DEF ClientSends, RelayInv, UpFlow, chatApi, browser
      <4>4. i \in 1..Len(clientOut) \/ i = Len(clientOut) + 1
        BY <2>2, <3>1, <3>3
      <4>5. QED
        BY <3>1, <4>2, <4>3, <4>4
    <3>4. QED
      BY <1>1, <3>2, <3>3 DEF UpFlow, ClientSends, chatApi
  <2>5. DownFlow' /\ Causes' /\ CutOffOnlyByLateSend'
    BY <1>1 DEF ClientSends, RelayInv, TypeOK, DownFlow, Causes, CutOffOnlyByLateSend, chatApi
  <2>6. QED
    BY <2>3, <2>4, <2>5 DEF RelayInv
<1>2. CASE ClientLeaves
  BY <1>2 DEF ClientLeaves, RelayInv, TypeOK, Stages, UpFlow, DownFlow, Causes,
              CutOffOnlyByLateSend, chatApi
<1>3. CASE BackendSays
  <2>1. said + 1 \in 1..MaxSaid
    BY <1>3 DEF BackendSays, RelayInv, TypeOK
  <2>2. backendOut' \in Seq(1..MaxSaid) /\ Len(backendOut') = Len(backendOut) + 1
    BY <1>3, <2>1 DEF BackendSays, RelayInv, TypeOK
  <2>3. TypeOK' /\ Stages'
    BY <1>3, <2>1, <2>2 DEF BackendSays, RelayInv, TypeOK, Stages, browser
  <2>4. DownFlow'
    <3>1. Len(shown) \in Nat /\ Len(backendOut) \in Nat /\ said \in Nat
      BY DEF RelayInv, TypeOK
    <3>2. client \in {"pending", "open"} => Len(shown') + Len(backendOut') = said'
      BY <1>3, <2>2, <3>1 DEF BackendSays, RelayInv, DownFlow, browser
    <3>3. ASSUME client \in {"pending", "open"}, NEW i \in 1..Len(backendOut')
          PROVE  backendOut'[i] = Len(shown') + i
      <4>1. backendOut' = Append(backendOut, said + 1) /\ backendOut \in Seq(1..MaxSaid)
        BY <1>3 DEF BackendSays, RelayInv, TypeOK
      <4>2. /\ \A j \in 1..Len(backendOut) : backendOut'[j] = backendOut[j]
            /\ backendOut'[Len(backendOut) + 1] = said + 1
        BY <4>1
      <4>3. /\ Len(shown') = Len(shown)
            /\ Len(shown) + Len(backendOut) = said
            /\ \A j \in 1..Len(backendOut) : backendOut[j] = Len(shown) + j
        BY <1>3, <3>3 DEF BackendSays, RelayInv, DownFlow, chatApi, browser
      <4>4. i \in 1..Len(backendOut) \/ i = Len(backendOut) + 1
        BY <2>2, <3>1, <3>3
      <4>5. QED
        BY <3>1, <4>2, <4>3, <4>4
    <3>4. QED
      BY <1>3, <3>2, <3>3 DEF DownFlow, BackendSays, browser
  <2>5. UpFlow' /\ Causes' /\ CutOffOnlyByLateSend'
    BY <1>3 DEF BackendSays, RelayInv, TypeOK, Stages, UpFlow, Causes,
                CutOffOnlyByLateSend, browser
  <2>6. QED
    BY <2>3, <2>4, <2>5 DEF RelayInv
<1>4. CASE BackendEnds
  BY <1>4 DEF BackendEnds, RelayInv, TypeOK, Stages, UpFlow, DownFlow, Causes,
              CutOffOnlyByLateSend, browser
<1>5. QED
  BY <1>1, <1>2, <1>3, <1>4

\* Setting up and the way out.
LEMMA GatewayKeeps == RelayInv /\ (SetUp \/ WayOut) => RelayInv'
<1> SUFFICES ASSUME RelayInv, SetUp \/ WayOut PROVE RelayInv'
  OBVIOUS
<1> USE FrameAssumption DEF RelayInv, TypeOK, Stages, UpFlow, DownFlow, Causes,
        CutOffOnlyByLateSend, browser, chatApi
<1>1. CASE Refuse
  BY <1>1 DEF Refuse
<1>2. CASE Accept
  BY <1>2 DEF Accept
<1>3. CASE Connect
  BY <1>3 DEF Connect
<1>4. CASE ConnectFails
  BY <1>4 DEF ConnectFails
<1>5. CASE RelayFails
  BY <1>5 DEF RelayFails
<1>6. CASE Leave
  BY <1>6 DEF Leave
<1>7. CASE CloseClient
  BY <1>7 DEF CloseClient
<1>8. QED
  BY <1>1, <1>2, <1>3, <1>4, <1>5, <1>6, <1>7 DEF SetUp, WayOut

\* A pump that moves a frame keeps the order of what is left and what arrived.
LEMMA ForwardUpKeeps == RelayInv /\ ForwardUp => RelayInv'
<1> SUFFICES ASSUME RelayInv, ForwardUp PROVE RelayInv'
  OBVIOUS
<1> USE FrameAssumption
<1>1. /\ Head(clientOut) \in 1..MaxAsked
      /\ clientOut' \in Seq(1..MaxAsked)
      /\ Len(clientOut') = Len(clientOut) - 1
      /\ Len(clientOut) >= 1
      /\ Head(clientOut) = clientOut[1]
      /\ \A i \in 1..Len(clientOut') : clientOut'[i] = clientOut[i + 1]
  <2>1. clientOut \in Seq(1..MaxAsked) /\ clientOut # <<>> /\ clientOut' = Tail(clientOut)
    BY DEF ForwardUp, RelayInv, TypeOK
  <2>2. QED
    BY <2>1
<1>2. \/ /\ backend = "open"
         /\ backendGot' \in Seq(1..MaxAsked)
         /\ Len(backendGot') = Len(backendGot) + 1
         /\ up' = up
      \/ /\ backend = "ended"
         /\ backendGot' = backendGot
         /\ up' \in {"receive", "failed"}
  <2>1. backendGot \in Seq(1..MaxAsked) /\ up = "receive"
    BY DEF ForwardUp, RelayInv, TypeOK
  <2>2. CASE backend = "open" /\ backendGot' = Append(backendGot, Head(clientOut)) /\ up' = up
    BY <2>1, <2>2, <1>1
  <2>3. QED
    BY <2>1, <2>2 DEF ForwardUp
<1>3. TypeOK' /\ Stages'
  <2>1. TypeOK'
    BY <1>1, <1>2 DEF ForwardUp, RelayInv, TypeOK
  <2>2. gw # "verify" /\ backend # "none"
    BY <1>2 DEF ForwardUp, RelayInv, TypeOK
  <2>3. Stages'
    BY <2>2 DEF ForwardUp, RelayInv, Stages
  <2>4. QED
    BY <2>1, <2>3
<1>4. UpFlow'
  <2>1. Len(backendGot) \in Nat /\ Len(clientOut) \in Nat /\ Len(clientOut') \in Nat
    BY <1>1 DEF RelayInv, TypeOK
  <2>2. CASE backend = "open" /\ Len(backendGot') = Len(backendGot) + 1
    <3>1. \A i \in 1..Len(clientOut') : clientOut'[i] = Len(backendGot') + i
      BY <2>1, <2>2, <1>1 DEF RelayInv, UpFlow
    <3>2. asked' = asked /\ asked \in Nat /\ Len(backendGot) + Len(clientOut) = asked
      BY <2>2 DEF RelayInv, TypeOK, UpFlow, ForwardUp
    <3>3. Len(backendGot') + Len(clientOut') = asked'
      <4>1. Len(clientOut') = Len(clientOut) - 1
        BY <1>1
      <4>2. QED
        BY <2>1, <2>2, <3>2, <4>1
    <3>4. Len(backendGot') + Len(clientOut') <= asked'
      BY <3>2, <3>3
    <3>5. QED
      BY <3>1, <3>3, <3>4 DEF UpFlow
  <2>3. CASE backend = "ended" /\ backendGot' = backendGot
    <3>1. backend' = backend /\ asked' = asked /\ asked \in Nat
      BY DEF ForwardUp, RelayInv, TypeOK
    <3>2. Len(backendGot) + Len(clientOut) <= asked
      BY DEF RelayInv, UpFlow
    <3>3. QED
      BY <2>1, <2>3, <1>1, <3>1, <3>2 DEF UpFlow
  <2>4. QED
    BY <1>2, <2>2, <2>3
<1>5. DownFlow'
  BY DEF ForwardUp, RelayInv, DownFlow
<1>6. Causes' /\ CutOffOnlyByLateSend'
  <2>1. Len(backendGot) < asked
    BY <1>1 DEF RelayInv, TypeOK, UpFlow
  <2>2. Causes'
    BY <2>1, <1>2 DEF ForwardUp, RelayInv, Causes
  <2>3. CutOffOnlyByLateSend'
    BY <2>1, <1>2 DEF ForwardUp, RelayInv, Stages, CutOffOnlyByLateSend
  <2>4. QED
    BY <2>2, <2>3
<1>7. QED
  BY <1>3, <1>4, <1>5, <1>6 DEF RelayInv

\* The same in the other direction.
LEMMA ForwardDownKeeps == RelayInv /\ ForwardDown => RelayInv'
<1> SUFFICES ASSUME RelayInv, ForwardDown PROVE RelayInv'
  OBVIOUS
<1> USE FrameAssumption
<1>1. /\ Head(backendOut) \in 1..MaxSaid
      /\ backendOut' \in Seq(1..MaxSaid)
      /\ Len(backendOut') = Len(backendOut) - 1
      /\ Len(backendOut) >= 1
      /\ Head(backendOut) = backendOut[1]
      /\ \A i \in 1..Len(backendOut') : backendOut'[i] = backendOut[i + 1]
  <2>1. backendOut \in Seq(1..MaxSaid) /\ backendOut # <<>> /\ backendOut' = Tail(backendOut)
    BY DEF ForwardDown, RelayInv, TypeOK
  <2>2. QED
    BY <2>1
<1>2. \/ /\ client = "open"
         /\ shown' \in Seq(1..MaxSaid)
         /\ Len(shown') = Len(shown) + 1
         /\ down' = down
      \/ /\ client # "open"
         /\ shown' = shown
         /\ down' \in {"receive", "failed"}
  <2>1. shown \in Seq(1..MaxSaid) /\ down = "receive"
    BY DEF ForwardDown, RelayInv, TypeOK
  <2>2. CASE client = "open" /\ shown' = Append(shown, Head(backendOut)) /\ down' = down
    BY <2>1, <2>2, <1>1
  <2>3. QED
    BY <2>1, <2>2 DEF ForwardDown
<1>3. TypeOK' /\ Stages'
  <2>1. TypeOK'
    BY <1>1, <1>2 DEF ForwardDown, RelayInv, TypeOK
  <2>2. gw # "verify" /\ backend # "none"
    BY DEF ForwardDown, RelayInv, TypeOK, Stages
  <2>3. Stages'
    BY <2>2 DEF ForwardDown, RelayInv, Stages
  <2>4. QED
    BY <2>1, <2>3
<1>4. DownFlow'
  <2>1. Len(shown) \in Nat /\ Len(backendOut) \in Nat /\ Len(backendOut') \in Nat
    BY <1>1 DEF RelayInv, TypeOK
  <2>2. CASE client = "open" /\ Len(shown') = Len(shown) + 1
    <3>1. \A i \in 1..Len(backendOut') : backendOut'[i] = Len(shown') + i
      BY <2>1, <2>2, <1>1 DEF RelayInv, DownFlow
    <3>2. Len(shown') + Len(backendOut') = said'
      BY <2>1, <2>2, <1>1 DEF RelayInv, DownFlow, ForwardDown
    <3>3. QED
      BY <3>1, <3>2 DEF DownFlow
  <2>3. CASE client # "open"
    <3>1. client # "pending"
      BY DEF ForwardDown, RelayInv, TypeOK, Stages
    <3>2. QED
      BY <2>3, <3>1 DEF ForwardDown, DownFlow
  <2>4. QED
    BY <1>2, <2>2, <2>3
<1>5. UpFlow'
  BY DEF ForwardDown, RelayInv, UpFlow
<1>6. Causes' /\ CutOffOnlyByLateSend'
  BY <1>2 DEF ForwardDown, RelayInv, TypeOK, Causes, CutOffOnlyByLateSend
<1>7. QED
  BY <1>3, <1>4, <1>5, <1>6 DEF RelayInv

\* The ends of the pumps.
LEMMA PumpEndsKeep == RelayInv /\ (UpEnds \/ DownFails) => RelayInv'
<1> SUFFICES ASSUME RelayInv, UpEnds \/ DownFails PROVE RelayInv'
  OBVIOUS
<1> USE DEF RelayInv, TypeOK, Stages, UpFlow, DownFlow, Causes, CutOffOnlyByLateSend,
            browser, chatApi
<1>1. CASE UpEnds
  BY <1>1 DEF UpEnds
<1>2. CASE DownFails
  BY <1>2 DEF DownFails
<1>3. QED
  BY <1>1, <1>2

\* Every step keeps the invariant.
LEMMA StepRelay == RelayInv /\ [Next]_vars => RelayInv'
<1>1. CASE UNCHANGED vars
  BY <1>1 DEF vars, RelayInv, TypeOK, Stages, UpFlow, DownFlow, Causes, CutOffOnlyByLateSend
<1>2. CASE Next
  BY <1>2, PeersKeep, GatewayKeeps, ForwardUpKeeps, ForwardDownKeeps, PumpEndsKeep
     DEF Next, UpPump, DownPump
<1>3. QED
  BY <1>1, <1>2

\* The state of the relay is sound at every step.
THEOREM RelayInvariant == Spec => []RelayInv
  BY InitRelay, StepRelay, PTL DEF Spec

-----------------------------------------------------------------------------
(* Results *)

\* Every variable keeps its type, and the pumps wait for the connection
\* (proxy_websocket).
THEOREM TypeCorrect == Spec => []TypeOK
<1>1. RelayInv => TypeOK
  BY DEF RelayInv
<1>2. QED
  BY <1>1, RelayInvariant, PTL

\* A client that the gateway closes has been shown all there was, unless a
\* frame it sent too late made the up pump fail (ws_proxy.py, gather).
THEOREM OnlyLateSendsCutOff == Spec => []CutOffOnlyByLateSend
<1>1. RelayInv => CutOffOnlyByLateSend
  BY DEF RelayInv
<1>2. QED
  BY <1>1, RelayInvariant, PTL

\* The gateway never hangs up on one peer while the other one is there
\* (ws_proxy.py, the way out of the relay).
THEOREM NoHangUpWithoutCause == Spec => HangsUpForCause
<1> DEFINE Caused ==
        /\ (gw = "leaving" /\ backend = "open" /\ backend' = "ended") => client = "left"
        /\ (client = "open" /\ client' = "closed") => backend # "open"
<1>1. ASSUME RelayInv, Next PROVE Caused
  <2>1. (gw = "leaving" /\ backend = "open") => client \notin {"pending", "closed", "refused"}
    BY <1>1 DEF RelayInv, Stages
  <2>2. (gw = "leaving" /\ backend = "open") => client # "open"
    BY <1>1 DEF RelayInv, Causes
  <2>3. (gw = "leaving" /\ backend = "open") => client = "left"
    BY <1>1, <2>1, <2>2 DEF RelayInv, TypeOK
  <2>4. (client = "open" /\ client' = "closed") => gw = "closing"
    BY <1>1 DEF Next, ClientSends, ClientLeaves, BackendSays, BackendEnds, SetUp, Refuse,
                Accept, Connect, ConnectFails, UpPump, ForwardUp, UpEnds, DownPump,
                ForwardDown, DownFails, WayOut, RelayFails, Leave, CloseClient, browser
  <2>5. QED
    BY <1>1, <2>3, <2>4 DEF RelayInv, Stages
<1>2. RelayInv /\ [Next]_vars => [Caused]_vars
  BY <1>1
<1>3. QED
  BY <1>2, RelayInvariant, PTL DEF Spec, HangsUpForCause

\* Either direction of the relay implements a pipe (FramePipe): a pump's step is
\* a delivery, a loss of the receiving end, or nothing to the pipe.
THEOREM RelayImplementsPipes == Spec => RelayIsTwoPipes
<1>1. Init => UpPipe!Init /\ DownPipe!Init
  BY DEF Init, UpPipe!Init, DownPipe!Init
<1>2. RelayInv /\ [Next]_vars => [UpPipe!Next]_(UpPipe!vars)
  <2> SUFFICES ASSUME RelayInv, [Next]_vars PROVE [UpPipe!Next]_(UpPipe!vars)
    OBVIOUS
  <2>1. CASE ClientSends
    BY <2>1 DEF ClientSends, chatApi, UpPipe!Next, UpPipe!Send
  <2>2. CASE ForwardUp
    <3>1. CASE backend = "open" /\ backendGot' = Append(backendGot, Head(clientOut))
      <4>1. Head(clientOut) = Len(backendGot) + 1 /\ Len(backendGot) < asked
        <5>1. Len(clientOut) >= 1 /\ Head(clientOut) = clientOut[1]
          BY <2>2, TailNumber DEF ForwardUp, RelayInv, TypeOK
        <5>2. QED
          BY <3>1, <5>1 DEF RelayInv, TypeOK, UpFlow
      <4>2. QED
        BY <2>2, <3>1, <4>1 DEF ForwardUp, UpPipe!Next, UpPipe!Deliver
    <3>2. CASE backendGot' = backendGot
      BY <2>2, <3>2 DEF ForwardUp, UpPipe!vars
    <3>3. QED
      BY <2>2, <3>1, <3>2 DEF ForwardUp
  <2>3. CASE BackendEnds \/ Leave
    BY <2>3 DEF BackendEnds, Leave, browser, UpPipe!Next, UpPipe!Cut, UpPipe!vars
  <2>4. CASE Connect
    BY <2>4 DEF Connect, browser, RelayInv, TypeOK, UpPipe!vars
  <2>5. CASE ClientLeaves \/ BackendSays \/ Refuse \/ Accept \/ ConnectFails \/ UpEnds
             \/ ForwardDown \/ DownFails \/ RelayFails \/ CloseClient
    BY <2>5 DEF ClientLeaves, BackendSays, Refuse, Accept, ConnectFails, UpEnds, ForwardDown,
                DownFails, RelayFails, CloseClient, browser, chatApi, UpPipe!vars
  <2>6. CASE UNCHANGED vars
    BY <2>6 DEF vars, UpPipe!vars
  <2>7. QED
    BY <2>1, <2>2, <2>3, <2>4, <2>5, <2>6 DEF Next, SetUp, UpPump, DownPump, WayOut
<1>3. RelayInv /\ [Next]_vars => [DownPipe!Next]_(DownPipe!vars)
  <2> SUFFICES ASSUME RelayInv, [Next]_vars PROVE [DownPipe!Next]_(DownPipe!vars)
    OBVIOUS
  <2>1. CASE BackendSays
    BY <2>1 DEF BackendSays, browser, DownPipe!Next, DownPipe!Send
  <2>2. CASE ForwardDown
    <3>1. CASE client = "open" /\ shown' = Append(shown, Head(backendOut))
      <4>1. Head(backendOut) = Len(shown) + 1 /\ Len(shown) < said
        <5>1. Len(backendOut) >= 1 /\ Head(backendOut) = backendOut[1]
          BY <2>2, TailNumber DEF ForwardDown, RelayInv, TypeOK
        <5>2. QED
          BY <3>1, <5>1 DEF RelayInv, TypeOK, DownFlow
      <4>2. QED
        BY <2>2, <3>1, <4>1 DEF ForwardDown, DownPipe!Next, DownPipe!Deliver
    <3>2. CASE shown' = shown
      BY <2>2, <3>2 DEF ForwardDown, DownPipe!vars
    <3>3. QED
      BY <2>2, <3>1, <3>2 DEF ForwardDown
  <2>3. CASE ClientLeaves \/ Refuse \/ CloseClient
    BY <2>3 DEF ClientLeaves, Refuse, CloseClient, chatApi, RelayInv, Stages,
                DownPipe!Next, DownPipe!Cut, DownPipe!vars
  <2>4. CASE Accept
    BY <2>4 DEF Accept, chatApi, RelayInv, Stages, DownPipe!vars
  <2>5. CASE ClientSends \/ BackendEnds \/ Connect \/ ConnectFails \/ ForwardUp \/ UpEnds
             \/ DownFails \/ RelayFails \/ Leave
    BY <2>5 DEF ClientSends, BackendEnds, Connect, ConnectFails, ForwardUp, UpEnds,
                DownFails, RelayFails, Leave, browser, chatApi, DownPipe!vars
  <2>6. CASE UNCHANGED vars
    BY <2>6 DEF vars, DownPipe!vars
  <2>7. QED
    BY <2>1, <2>2, <2>3, <2>4, <2>5, <2>6 DEF Next, SetUp, UpPump, DownPump, WayOut
<1>4. QED
  BY <1>1, <1>2, <1>3, RelayInvariant, PTL
     DEF Spec, RelayIsTwoPipes, UpPipe!Spec, DownPipe!Spec
=============================================================================
