---------------------------- MODULE MCGatewayHttp ----------------------------
(***************************************************************************)
(* Three requests of one client: two to chat-api and a public one to       *)
(* auth-api, over two connections; and one that the gateway answers.       *)
(***************************************************************************)
EXTENDS GatewayHttp, TLC

CONSTANTS r1, r2, r3, r4, c1, c2

MCRoute    == r1 :> "chat" @@ r2 :> "chat" @@ r3 :> "auth" @@ r4 :> "health"
MCUpstream == "chat" :> "chat-api" @@ "auth" :> "auth-api" @@ "health" :> NoOne
===============================================================================
