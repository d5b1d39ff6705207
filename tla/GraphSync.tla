------------------------------ MODULE GraphSync ------------------------------
(***************************************************************************)
(* The scripts of the ingestion worker that build the graph of US Code     *)
(* sections: XML files to CSV files (xml_processor.py), CSV files to nodes *)
(* and edges of Neo4j (neo4j_ingestor.py), and section texts to chunks     *)
(* with embeddings (embedding_worker.py).                                  *)
(*                                                                         *)
(* A text is its edition: the how-manieth publication of the section it is *)
(* of.  A row, and what is set from it, is the edition it is of, negated   *)
(* when it has no text, 0 when there is none.  A row has no text when the  *)
(* section has none, for an empty field of a CSV file is read as NULL, or  *)
(* when it was cut short; a text that is only part of one, or a row cut    *)
(* within its identifier, is not modelled.                                 *)
(*                                                                         *)
(* Loads and runs of the worker overlap with each other, with themselves   *)
(* and with the XML script, and may break off anywhere.  The XML script    *)
(* runs once at a time: two at once would write one file in each other's   *)
(* midst.                                                                  *)
(*                                                                         *)
(* No guard reads the history variables:                                   *)
(*   missed   sections that no run has embedded since a row of theirs was  *)
(*            last loaded, because it did not fetch them, skipped their    *)
(*            batch or broke off before it, or because another run still   *)
(*            had another edition when it fetched them                     *)
(*   mixed    sections of which two loads, or two runs, once had different *)
(*            editions under way                                           *)
(***************************************************************************)
EXTENDS Integers, FiniteSets, Sequences

CONSTANTS
    Sections,    \* section identifiers
    Refers,      \* the references of one section to another
    MaxPieces,   \* bound: chunks of one text
    Pieces,      \* Pieces[s][v]: how many chunks the splitter makes of edition
                 \* v of s, 0 if that has no text; bound: s is published
                 \* Len(Pieces[s]) times at most
    Limit,       \* total_limit of run_sync
    Batch,       \* batch_size of run_sync
    Loads,       \* bound: processes of neo4j_ingestor.py at a time
    Runs         \* bound: processes of embedding_worker.py at a time

ASSUME GraphAssumption ==
    /\ IsFiniteSet(Sections)
    /\ Refers \subseteq Sections \X Sections
    /\ MaxPieces \in Nat
    /\ Pieces \in [Sections -> Seq(0..MaxPieces)]
    /\ Limit \in Nat \ {0} /\ Batch \in Nat \ {0}

VARIABLES
    corpus,    \* the XML files: edition of each section's file, or 0
    nodesCsv,  \* the node row of each section
    edgesCsv,  \* the edge rows
    stage,     \* what each load does
    toMerge,   \* the row of each section that load_nodes has not merged yet
    toLink,    \* edge rows that load_edges has not merged yet
    nodes,     \* Neo4j: the Section nodes
    content,   \* the row that title and content of each were set from
    edges,     \* the REFERENCES edges
    chunks,    \* edition of each chunk node of each section, 0 if there is none
    sync,      \* what each run_sync does
    pending,   \* records fetched and not inserted yet: their edition, or 0
    batch,     \* the batch under way
    missed,    \* history
    mixed      \* history

xmlFiles == <<nodesCsv, edgesCsv>>
load     == <<stage, toMerge, toLink>>
neo4j    == <<nodes, content, edges, chunks>>
worker   == <<sync, pending, batch>>
history  == <<missed, mixed>>
vars     == <<corpus, nodesCsv, edgesCsv, stage, toMerge, toLink,
              nodes, content, edges, chunks, sync, pending, batch, missed, mixed>>

None == [s \in Sections |-> 0]

\* The edition a row is of.
Edition(row) == IF row < 0 THEN -row ELSE row

\* Sections of which two of those under way have different editions.
Rivals(held) ==
    {s \in Sections : \E a, b \in DOMAIN held :
        held[a][s] # 0 /\ held[b][s] # 0 /\ Edition(held[a][s]) # Edition(held[b][s])}

Init ==
    /\ corpus = None
    /\ nodesCsv = None
    /\ edgesCsv = {}
    /\ stage = [l \in Loads |-> "idle"]
    /\ toMerge = [l \in Loads |-> None]
    /\ toLink = [l \in Loads |-> {}]
    /\ nodes = {}
    /\ content = None
    /\ edges = {}
    /\ chunks = [s \in Sections |-> [i \in 1..MaxPieces |-> 0]]
    /\ sync = [r \in Runs |-> "idle"]
    /\ pending = [r \in Runs |-> None]
    /\ batch = [r \in Runs |-> {}]
    /\ missed = {}
    /\ mixed = {}

\* The operator puts a new file of the section in the input directory.
Publish(s) ==
    /\ corpus[s] < Len(Pieces[s])
    /\ corpus' = [corpus EXCEPT ![s] = @ + 1]
    /\ UNCHANGED <<xmlFiles, load, neo4j, worker, history>>

-----------------------------------------------------------------------------
(* XML to CSV *)

\* The row that _parse_file writes of a section.
Row(s) == IF Pieces[s][corpus[s]] = 0 THEN -corpus[s] ELSE corpus[s]

\* run, with _parse_file of every file, each of which has one section.  Without
\* input it returns and leaves the files of an earlier run; otherwise it opens both
\* for writing, which empties them.  A file that raises is left out from there on,
\* and the script may be killed when a buffer has just been written: any rows may
\* be missing, and one may be cut short.  A run under way looks the same, and going
\* on is another such step.
ParseXml ==
    /\ corpus # None
    /\ \E parsed \in SUBSET {s \in Sections : corpus[s] > 0} :
          /\ \E cut \in {{}} \cup {{s} : s \in parsed} :
                nodesCsv' = [s \in Sections |-> CASE s \in cut          -> -corpus[s]
                                                  [] s \in parsed \ cut -> Row(s)
                                                  [] OTHER              -> 0]
          /\ edgesCsv' \in SUBSET {e \in Refers : e[1] \in parsed}
    /\ UNCHANGED <<corpus, load, neo4j, worker, history>>

-----------------------------------------------------------------------------
(* CSV to Neo4j *)

\* run_pipeline: create_constraints, then load_nodes.
StartLoad(l) ==
    /\ stage[l] = "idle"
    /\ stage' = [stage EXCEPT ![l] = "nodes"]
    /\ toMerge' = [toMerge EXCEPT ![l] = nodesCsv]
    /\ mixed' = mixed \cup Rivals(toMerge')
    /\ UNCHANGED <<corpus, xmlFiles, toLink, neo4j, worker, missed>>

\* LOAD CSV reads the file as it goes: what the load has not merged yet may be
\* replaced by what is in the file now, and so may what it has merged, when the XML
\* script is writing the file anew.
ReadNodesOn(l, s) ==
    /\ stage[l] = "nodes"
    /\ toMerge' = [toMerge EXCEPT ![l] = [@ EXCEPT ![s] = nodesCsv[s]]]
    /\ mixed' = mixed \cup Rivals(toMerge')
    /\ UNCHANGED <<corpus, xmlFiles, stage, toLink, neo4j, worker, missed>>

ReadEdgesOn(l) ==
    /\ stage[l] = "edges"
    /\ toLink' = [toLink EXCEPT ![l] = edgesCsv]
    /\ UNCHANGED <<corpus, xmlFiles, stage, toMerge, neo4j, worker, history>>

\* Mutant: the node of a row is committed before its properties are set.
MergeNodeOnly(l, s) ==
    /\ toMerge[l][s] # 0
    /\ toMerge' = [toMerge EXCEPT ![l] = [@ EXCEPT ![s] = 0]]
    /\ nodes' = nodes \cup {s}
    /\ content' \in {content, [content EXCEPT ![s] = toMerge[l][s]]}
    /\ missed' = missed \cup {s}
    /\ UNCHANGED <<corpus, xmlFiles, stage, toLink, edges, chunks, worker, mixed>>

\* A row of load_nodes.  Batches of rows are committed together; the model
\* commits every row, which lets the load break off after any.
MergeNode(l, s) ==
    /\ toMerge[l][s] # 0
    /\ toMerge' = [toMerge EXCEPT ![l] = [@ EXCEPT ![s] = 0]]
    /\ nodes' = nodes \cup {s}
    /\ content' = [content EXCEPT ![s] = toMerge[l][s]]
    /\ missed' = missed \cup {s}
    /\ UNCHANGED <<corpus, xmlFiles, stage, toLink, edges, chunks, worker, mixed>>

StartEdges(l) ==
    /\ stage[l] = "nodes"
    /\ toMerge[l] = None
    /\ stage' = [stage EXCEPT ![l] = "edges"]
    /\ toLink' = [toLink EXCEPT ![l] = edgesCsv]
    /\ UNCHANGED <<corpus, xmlFiles, toMerge, neo4j, worker, history>>

\* Mutant: the target is created anew instead of merged.
MergeEdgeAndTarget(l, e) ==
    /\ e \in toLink[l]
    /\ toLink' = [toLink EXCEPT ![l] = @ \ {e}]
    /\ nodes' = nodes \cup {e[2]}
    /\ content' = [content EXCEPT ![e[2]] = 0]
    /\ edges' = edges \cup {e}
    /\ UNCHANGED <<corpus, xmlFiles, stage, toMerge, chunks, worker, history>>

\* A row of load_edges: without a source node it has no effect; a target that
\* is not there is created, with no title and no content.
MergeEdge(l, e) ==
    /\ e \in toLink[l]
    /\ toLink' = [toLink EXCEPT ![l] = @ \ {e}]
    /\ \/ /\ e[1] \in nodes
          /\ nodes' = nodes \cup {e[2]}
          /\ edges' = edges \cup {e}
       \/ /\ e[1] \notin nodes
          /\ UNCHANGED <<nodes, edges>>
    /\ UNCHANGED <<corpus, xmlFiles, stage, toMerge, content, chunks, worker, history>>

EndLoad(l) ==
    /\ stage[l] = "edges"
    /\ toLink[l] = {}
    /\ stage' = [stage EXCEPT ![l] = "idle"]
    /\ UNCHANGED <<corpus, xmlFiles, toMerge, toLink, neo4j, worker, history>>

\* _execute_query raises, or the script is killed: what was merged stays.
LoadDies(l) ==
    /\ stage[l] # "idle"
    /\ stage' = [stage EXCEPT ![l] = "idle"]
    /\ toMerge' = [toMerge EXCEPT ![l] = None]
    /\ toLink' = [toLink EXCEPT ![l] = {}]
    /\ UNCHANGED <<corpus, xmlFiles, neo4j, worker, history>>

-----------------------------------------------------------------------------
(* Embedding *)

\* As many of S as there are, and n at most.
UpTo(n, S) ==
    {T \in SUBSET S : Cardinality(T) = n \/ (Cardinality(S) < n /\ T = S)}

\* A node has embeddings if it has chunks.
Embedded(s) == \E i \in 1..MaxPieces : chunks[s][i] > 0

Unsynced(records) == {s \in Sections : records[s] > 0}

\* The loop of r with these records left: its next batch, or its end.
Loop(r, records) ==
    /\ pending' = [pending EXCEPT ![r] = records]
    /\ \/ /\ Unsynced(records) = {}
          /\ sync' = [sync EXCEPT ![r] = "idle"]
          /\ batch' = [batch EXCEPT ![r] = {}]
       \/ /\ Unsynced(records) # {}
          /\ sync' = [sync EXCEPT ![r] = "insert"]
          /\ \E some \in UpTo(Batch, Unsynced(records)) : batch' = [batch EXCEPT ![r] = some]

\* _fetch_pending_nodes: sections with content and without s.embedding, a
\* property that nothing sets, in no particular order.
Fetch(r, records) ==
    /\ sync[r] = "idle"
    /\ records # {}
    /\ records \in UpTo(Limit, {s \in nodes : content[s] > 0})
    /\ Loop(r, [s \in Sections |-> IF s \in records THEN content[s] ELSE 0])
    /\ missed' = (missed \ records) \cup Rivals(pending')
    /\ mixed' = mixed \cup Rivals(pending')
    /\ UNCHANGED <<corpus, xmlFiles, load, neo4j>>

\* The batch is over; its records are not looked at again.
Tick(r) == Loop(r, [s \in Sections |-> IF s \in batch[r] THEN 0 ELSE pending[r][s]])

\* Mutant: chunks are numbered from the end.
InsertFromTheEnd(r) ==
    chunks' = [s \in Sections |->
                  [i \in 1..MaxPieces |->
                      IF s \in batch[r] /\ i > MaxPieces - Pieces[s][pending[r][s]]
                      THEN pending[r][s] ELSE chunks[s][i]]]

\* insert_nodes: a chunk node is merged on its id, which is the section's and
\* its number, so that it takes the place of that chunk of another text.  (One
\* step; the library writes more than a thousand chunks in several.)
Insert(r) ==
    chunks' = [s \in Sections |->
                  [i \in 1..MaxPieces |->
                      IF s \in batch[r] /\ i <= Pieces[s][pending[r][s]]
                      THEN pending[r][s] ELSE chunks[s][i]]]

InsertBatch(r) ==
    /\ sync[r] # "idle"
    /\ Insert(r)
    /\ Tick(r)
    /\ UNCHANGED <<corpus, xmlFiles, load, nodes, content, edges, history>>

\* Mutant: after the pause the batch is not inserted again.
RateLimitedForGood(r) ==
    /\ sync[r] = "insert"
    /\ Tick(r)
    /\ UNCHANGED <<corpus, xmlFiles, load, neo4j, history>>

\* Mutant: the second try is rate-limited like the first.
RateLimitedAgain(r) ==
    /\ sync[r] # "idle"
    /\ sync' = [sync EXCEPT ![r] = IF @ = "insert" THEN "retry" ELSE "insert"]
    /\ UNCHANGED <<corpus, xmlFiles, load, neo4j, pending, batch, history>>

\* RateLimitError: sleep, and one more try.
RateLimited(r) ==
    /\ sync[r] = "insert"
    /\ sync' = [sync EXCEPT ![r] = "retry"]
    /\ UNCHANGED <<corpus, xmlFiles, load, neo4j, pending, batch, history>>

\* BadRequestError of a first try: the whole batch is skipped.
SkipBatch(r) ==
    /\ sync[r] = "insert"
    /\ Tick(r)
    /\ missed' = missed \cup batch[r]
    /\ UNCHANGED <<corpus, xmlFiles, load, neo4j, mixed>>

\* Any other exception, any of the second try, or the end of the process.
SyncDies(r) ==
    /\ sync[r] # "idle"
    /\ sync' = [sync EXCEPT ![r] = "idle"]
    /\ pending' = [pending EXCEPT ![r] = None]
    /\ batch' = [batch EXCEPT ![r] = {}]
    /\ missed' = missed \cup Unsynced(pending[r])
    /\ UNCHANGED <<corpus, xmlFiles, load, neo4j, mixed>>

-----------------------------------------------------------------------------
Load(l) ==
    \/ StartLoad(l) \/ StartEdges(l) \/ ReadEdgesOn(l) \/ EndLoad(l) \/ LoadDies(l)
    \/ \E s \in Sections : ReadNodesOn(l, s) \/ MergeNode(l, s)
    \/ \E e \in Refers : MergeEdge(l, e)

Batches(r) == InsertBatch(r) \/ RateLimited(r) \/ SkipBatch(r)

Next ==
    \/ \E s \in Sections : Publish(s)
    \/ ParseXml
    \/ \E l \in Loads : Load(l)
    \/ \E r \in Runs : Batches(r) \/ SyncDies(r)
    \/ \E r \in Runs, records \in SUBSET Sections : Fetch(r, records)

Spec == Init /\ [][Next]_vars

\* Each run_sync goes on: its calls return or raise.  Nothing is assumed of the
\* operator, nor of the other scripts.
FairSpec == Spec /\ \A r \in Runs : WF_vars(Batches(r))

-----------------------------------------------------------------------------
(* Properties *)

TypeOK ==
    /\ corpus \in [Sections -> Nat]
    /\ nodesCsv \in [Sections -> Int]
    /\ edgesCsv \subseteq Refers
    /\ stage \in [Loads -> {"idle", "nodes", "edges"}]
    /\ toMerge \in [Loads -> [Sections -> Int]]
    /\ toLink \in [Loads -> SUBSET Refers]
    /\ nodes \subseteq Sections
    /\ content \in [Sections -> Int]
    /\ edges \subseteq Refers
    /\ chunks \in [Sections -> [1..MaxPieces -> Nat]]
    /\ sync \in [Runs -> {"idle", "insert", "retry"}]
    /\ pending \in [Runs -> [Sections -> Nat]]
    /\ batch \in [Runs -> SUBSET Sections]
    /\ missed \subseteq Sections
    /\ mixed \subseteq Sections

\* The sections in Neo4j follow the XML files and the chunks follow the sections,
\* however often scripts break off, are run again, or overlap: none brings back an
\* older edition, except of a section of which two loads, or two runs of the worker,
\* had different editions under way at the same time (MERGE and SET in
\* neo4j_ingestor.py, chunk ids in embedding_worker.py).
TextCopy == INSTANCE LaggingCopy WITH
                Keys <- Sections, source <- corpus,
                copy <- [s \in Sections |-> Edition(content[s])], mixed <- mixed
ChunkCopy == INSTANCE LaggingCopy WITH
                Keys <- Sections \X (1..MaxPieces),
                source <- [k \in Sections \X (1..MaxPieces) |-> Edition(content[k[1]])],
                copy <- [k \in Sections \X (1..MaxPieces) |-> chunks[k[1]][k[2]]],
                mixed <- mixed \X (1..MaxPieces)
CopiesLag == TextCopy!Spec /\ ChunkCopy!Spec

\* Once a run of the worker has got past a section that it fetched, the chunks of
\* that section are those of its text, even with several runs at a time.  Excepted
\* are sections whose batch was skipped, whose run broke off first, of which another
\* row has been loaded since, and those that were fetched while another run still
\* had a different edition of them to insert.
SyncedAreCurrent ==
    \A s \in Sections \ missed :
        content[s] > 0 /\ (\A r \in Runs : pending[r][s] = 0) =>
            \A i \in 1..Pieces[s][content[s]] : chunks[s][i] = content[s]

\* A section's chunks hold one text from beginning to end; what is left of other,
\* longer texts comes after it (embedding_worker.py never deletes a chunk).
OnlyTailsAreOld ==
    \A s \in Sections :
        Embedded(s) => LET v == chunks[s][1]
                       IN  v > 0 /\ \A i \in 1..Pieces[s][v] : chunks[s][i] = v

\* Every run_sync comes to its end, however often it is rate-limited.
SyncEnds == \A r \in Runs : sync[r] # "idle" ~> sync[r] = "idle"
===============================================================================
