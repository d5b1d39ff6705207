------------------------------- MODULE GraphRag -------------------------------
(***************************************************************************)
(* A request of the chat service (GraphAnswer) on the graph that the       *)
(* scripts of the ingestion worker are building (GraphSync).               *)
(***************************************************************************)
EXTENDS GraphSync

CONSTANTS Root, MaxNeighbours

VARIABLES step, found

Answer == INSTANCE GraphAnswer

RagInit == Init /\ Answer!Init

RagNext ==
    \/ Next /\ UNCHANGED <<step, found>>
    \/ Answer!Next /\ UNCHANGED <<corpus, xmlFiles, load, worker, history>>

RagSpec == RagInit /\ [][RagNext]_<<vars, step, found>>

FairRag == RagSpec /\ \A r \in Runs : WF_vars(Batches(r))

\* A request comes to "System Error" over a section without text only when that
\* section is a stub, made by load_edges as the target of a reference and never
\* loaded itself, or when the last row loaded of it had no text, so that it has a
\* title (content[s] < 0) and a NULL for content.  A section whose last row had a
\* text never does it, whatever the scripts are doing between the steps of the
\* request (load_nodes and load_edges in neo4j_ingestor.py; graph_retriever.py).
ErrorsHaveCause ==
    [][step' = "unreadable" /\ step # step' =>
          \E s \in nodes :
              /\ s = Root \/ <<Root, s>> \in edges
              /\ \/ content[s] < 0
                 \/ content[s] = 0 /\ \E e \in edges : e[2] = s]_<<vars, step>>
===============================================================================
