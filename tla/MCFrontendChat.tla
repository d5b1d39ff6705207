---------------------------- MODULE MCFrontendChat ----------------------------
(* A small instance of FrontendChat. *)
EXTENDS FrontendChat
===============================================================================
