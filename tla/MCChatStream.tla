----------------------------- MODULE MCChatStream -----------------------------
(* Small instances of ChatStream. *)
EXTENDS ChatStream

TwoMessages == [c \in Conns |-> 2]
===============================================================================
