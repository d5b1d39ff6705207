----------------------------- MODULE MCChatMemory -----------------------------
(* Small instances of ChatMemory. *)
EXTENDS ChatMemory

Symmetry ==
    Permutations(Pods) \cup Permutations(Sessions) \cup Permutations(Exchanges)
===============================================================================
