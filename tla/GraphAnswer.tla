----------------------------- MODULE GraphAnswer -----------------------------
(***************************************************************************)
(* LegalGrapRAGPipeline.answer of the chat service: route the query, fetch *)
(* a fixed section when the query asks for it, search the chunks, follow   *)
(* the references of the first candidate, and have the model answer from   *)
(* the texts found (rag_pipeline.py, graph_retriever.py, intent_router.py) *)
(*                                                                         *)
(* Each call to Neo4j or to the model is a step; the graph is read only.   *)
(***************************************************************************)
EXTENDS FiniteSets, Naturals

CONSTANTS
    Sections, MaxPieces,  \* as in GraphSync
    Root,           \* "/us/usc/t1/s1", the section that _direct_fetch gets
    MaxNeighbours   \* LIMIT of _simple_expand

VARIABLES
    nodes, content, edges, chunks,  \* the graph, as in GraphSync
    step,       \* where the request is, or how it ended
    found       \* the candidates: sections, and "chunks" for any chunks

graph == <<nodes, content, edges, chunks>>

Ended == {"idle", "unreadable"}

Init ==
    /\ step = "idle"
    /\ found = {}

Ask ==
    /\ step \in Ended
    /\ step' = "route"
    /\ UNCHANGED found

\* route_query; when it fails the intent is HYBRID.  Only a greeting matters, and
\* whether the query has the word "person" or "definition".
Route ==
    /\ step = "route"
    /\ step' \in {"greet", "fetch", "search"}
    /\ UNCHANGED found

Greet ==
    /\ step = "greet"
    /\ step' = "idle"
    /\ UNCHANGED found

\* A section whose content is NULL cannot be made a TextNode, which takes a string.
Readable(s) == content[s] > 0

\* Texts(S, next): the sections S join the candidates, or the request ends.
Texts(S, next) ==
    \/ /\ \A s \in S : Readable(s)
       /\ step' = next
       /\ found' = found \cup S
    \/ /\ \E s \in S : ~Readable(s)
       /\ step' = "unreadable"
       /\ found' = {}

\* _direct_fetch.
DirectFetch ==
    /\ step = "fetch"
    /\ Texts({Root} \cap nodes, "search")

\* index.as_retriever(...).retrieve: chunks, if there are any.
Search ==
    /\ step = "search"
    /\ \/ UNCHANGED found
       \/ /\ \E s \in Sections : \E i \in 1..MaxPieces : chunks[s][i] > 0
          /\ found' = found \cup {"chunks"}
    /\ step' = "expand"

\* LIMIT n: as many of S as there are, and n at most.
Limited(n, S) ==
    {T \in SUBSET S : Cardinality(T) = n \/ (Cardinality(S) < n /\ T = S)}

\* _simple_expand.  The first candidate is the section fetched or else a chunk;
\* the identifier of a chunk is no section's, so that nothing is found from it.
Expand ==
    /\ step = "expand"
    /\ \/ /\ found = {}
          /\ step' = "idle"
          /\ UNCHANGED found
       \/ /\ found # {} /\ Root \notin found
          /\ step' = "complete"
          /\ UNCHANGED found
       \/ /\ Root \in found
          /\ \E near \in Limited(MaxNeighbours, {e[2] : e \in {d \in edges : d[1] = Root}}) :
                Texts(near, "complete")

\* The model's answer from the texts of the candidates.
Complete ==
    /\ step = "complete"
    /\ step' = "idle"
    /\ found' = {}

\* A call to Neo4j or to the model raises; route_query has its own handler.
CallRaises ==
    /\ step \in {"greet", "fetch", "search", "expand", "complete"}
    /\ step' = "idle"
    /\ found' = {}

Next == /\ Ask \/ Route \/ Greet \/ DirectFetch \/ Search \/ Expand \/ Complete \/ CallRaises
        /\ UNCHANGED graph
===============================================================================
