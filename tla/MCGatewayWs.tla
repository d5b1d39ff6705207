---------------------------- MODULE MCGatewayWs ----------------------------
(* One relayed connection with a few frames each way. *)
EXTENDS GatewayWs
=============================================================================
