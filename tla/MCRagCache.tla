------------------------------ MODULE MCRagCache ------------------------------
(* Small instances of RagCache. *)
EXTENDS RagCache, TLC

\* Three questions in a row: each is near its neighbour, the outer two are not
\* near each other.
MCDist ==
    [q \in Queries |-> [p \in Queries |-> IF q > p THEN q - p ELSE p - q]]

Symmetry == Permutations(Requests)
===============================================================================
