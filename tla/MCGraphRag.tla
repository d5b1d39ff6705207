------------------------------ MODULE MCGraphRag ------------------------------
(***************************************************************************)
(* Two sections that refer to each other, the first of which is published  *)
(* twice, the second time with a text of fewer chunks; two loads and two   *)
(* runs of the embedding worker.                                           *)
(***************************************************************************)
EXTENDS GraphRag, TLC

CONSTANTS s1, s2, l1, l2, r1, r2

MCRefers == {<<s1, s2>>, <<s2, s1>>}
MCPieces == s1 :> <<2, 1>> @@ s2 :> <<1>>

Working(l) == stage[l] # "idle"
Chunked    == \E s \in Sections : Embedded(s)

\* Bound: with both sections published, one run works at a time, the first section
\* is in the graph with its newest row and a reference, and rows of the second are
\* not cut short.
BothPublished ==
    corpus[s1] > 0 /\ corpus[s2] > 0 =>
        /\ nodesCsv[s1] = 2 /\ content[s1] = 2 /\ edges # {}
        /\ nodesCsv[s2] >= 0 /\ sync[r2] = "idle"

\* Bound: the second load overlaps only with the first, each of them loading nodes,
\* and with the XML script, before there are edges or chunks.
LoadsOverlap ==
    Working(l2) => /\ stage[l1] = "nodes" /\ stage[l2] = "nodes"
                   /\ corpus[s2] = 0 /\ edges = {} /\ ~Chunked
                   /\ \A r \in Runs : sync[r] = "idle"

\* Bound: a request is under way only while no run is, and once there are chunks
\* also no load; and not after editions were mixed.  All it sees of the worker is
\* whether there are chunks.
RequestsOverlap ==
    step # "idle" => /\ \A r \in Runs : sync[r] = "idle"
                     /\ mixed = {} /\ ~Working(l2) /\ (Chunked => ~Working(l1))

Bound == BothPublished /\ LoadsOverlap /\ RequestsOverlap
===============================================================================
