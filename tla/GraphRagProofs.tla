---------------------------- MODULE GraphRagProofs ----------------------------
(***************************************************************************)
(* Proofs about GraphSync and GraphRag, for any sections, references,      *)
(* texts and limits, and any number of loads and runs at a time.           *)
(*                                                                         *)
(* The inductive invariant GraphInv orders the editions of a section       *)
(* along the way of its text: XML file, CSV row, row being loaded, Neo4j,  *)
(* fetched record, chunks.  Every script copies one step further along     *)
(* that order, so that no older edition comes back as long as those at     *)
(* work on a section at the same time agree on its edition.                *)
(***************************************************************************)
EXTENDS GraphRag, SequenceTheorems, TLAPS

\* An edition that was published, and that has a text if it is given as one.
Known(s, row) == Edition(row) <= corpus[s] /\ (row > 0 => Pieces[s][row] > 0)

\* Nothing holds an edition of a section that was not published.
Texts ==
    \A s \in Sections :
        /\ corpus[s] <= Len(Pieces[s])
        /\ Known(s, nodesCsv[s]) /\ Known(s, content[s])
        /\ \A l \in Loads : Known(s, toMerge[l][s])
        /\ \A r \in Runs : Known(s, pending[r][s])
        /\ \A i \in 1..MaxPieces : Known(s, chunks[s][i])

\* Those at work on a section that was not mixed agree on its edition.
Agree ==
    \A s \in Sections \ mixed :
        /\ \A k, l \in Loads :
              toMerge[k][s] # 0 /\ toMerge[l][s] # 0
                  => Edition(toMerge[k][s]) = Edition(toMerge[l][s])
        /\ \A q, r \in Runs :
              pending[q][s] > 0 /\ pending[r][s] > 0 => pending[q][s] = pending[r][s]

\* The order of the editions of a section.
OrderedAt(s) ==
    /\ nodesCsv[s] # 0 => Edition(content[s]) <= Edition(nodesCsv[s])
    /\ \A l \in Loads :
          toMerge[l][s] # 0 =>
              /\ Edition(content[s]) <= Edition(toMerge[l][s])
              /\ nodesCsv[s] # 0 => Edition(toMerge[l][s]) <= Edition(nodesCsv[s])
    /\ \A r \in Runs : pending[r][s] <= Edition(content[s])
    /\ \A i \in 1..MaxPieces :
          /\ chunks[s][i] <= Edition(content[s])
          /\ \A r \in Runs : pending[r][s] > 0 => chunks[s][i] <= pending[r][s]
Ordered == \A s \in Sections \ mixed : OrderedAt(s)

\* A batch is made of fetched records, and between runs there are none.
Records ==
    \A r \in Runs : /\ batch[r] \subseteq Unsynced(pending[r])
                    /\ sync[r] = "idle" => Unsynced(pending[r]) = {}

\* What was fetched and not missed is the text of the section.
Fetched ==
    \A s \in Sections \ missed : \A r \in Runs : pending[r][s] > 0 => pending[r][s] = content[s]

\* References are to nodes, and a node without a row of its own is there for one.
Stubs ==
    /\ \A e \in edges : e[2] \in nodes
    /\ \A s \in nodes : content[s] = 0 => \E e \in edges : e[2] = s

GraphInv ==
    /\ TypeOK /\ Texts /\ Agree /\ Ordered /\ Records /\ Fetched /\ Stubs
    /\ SyncedAreCurrent /\ OnlyTailsAreOld

-----------------------------------------------------------------------------
(* Editions, texts and their chunks *)

LEMMA EditionFacts ==
    ASSUME NEW x \in Int
    PROVE  /\ Edition(x) \in Nat /\ Edition(x) >= x /\ Edition(-x) = Edition(x)
           /\ x >= 0 => Edition(x) = x
           /\ Edition(x) = 0 <=> x = 0
  BY DEF Edition

\* The pieces of an edition: none, or MaxPieces at most.
LEMMA PiecesOfText ==
    ASSUME NEW s \in Sections, NEW v \in Nat, 0 < v, v <= Len(Pieces[s])
    PROVE  Pieces[s][v] \in 0..MaxPieces
<1>1. Pieces[s] \in Seq(0..MaxPieces)
  BY GraphAssumption
<1>2. v \in 1..Len(Pieces[s])
  BY <1>1
<1> QED
  BY <1>1, <1>2, ElementOfSeq

LEMMA SectionsTyped ==
    ASSUME TypeOK, NEW s \in Sections
    PROVE  /\ corpus[s] \in Nat /\ nodesCsv[s] \in Int /\ content[s] \in Int
           /\ \A l \in Loads : toMerge[l][s] \in Int
           /\ \A r \in Runs : pending[r][s] \in Nat
           /\ \A i \in 1..MaxPieces : chunks[s][i] \in Nat
           /\ Len(Pieces[s]) \in Nat
<1>1. Len(Pieces[s]) \in Nat
  <2>1. Pieces[s] \in Seq(0..MaxPieces)
    BY GraphAssumption
  <2> QED
    BY <2>1, LenProperties
<1>2. corpus[s] \in Nat /\ nodesCsv[s] \in Int /\ content[s] \in Int
  BY DEF TypeOK
<1>3. \A l \in Loads : toMerge[l][s] \in Int
  BY DEF TypeOK
<1>4. (\A r \in Runs : pending[r][s] \in Nat) /\ (\A i \in 1..MaxPieces : chunks[s][i] \in Nat)
  BY DEF TypeOK
<1> QED
  BY <1>1, <1>2, <1>3, <1>4

\* The same for the editions that rows are of.
LEMMA EditionsTyped ==
    ASSUME TypeOK, NEW s \in Sections
    PROVE  /\ Edition(content[s]) \in Nat /\ Edition(nodesCsv[s]) \in Nat
           /\ \A l \in Loads : Edition(toMerge[l][s]) \in Nat
           /\ \A r \in Runs : Edition(pending[r][s]) = pending[r][s]
           /\ \A i \in 1..MaxPieces : Edition(chunks[s][i]) = chunks[s][i]
  BY SectionsTyped, EditionFacts

\* A text that is known has chunks.
LEMMA KnownPieces ==
    ASSUME GraphInv, NEW s \in Sections, NEW v \in Nat, 0 < v, Known(s, v)
    PROVE  v <= Len(Pieces[s]) /\ Pieces[s][v] \in 1..MaxPieces
<1>1. v <= corpus[s] /\ Pieces[s][v] > 0
  BY EditionFacts DEF Known
<1>2. v <= Len(Pieces[s])
  BY <1>1, SectionsTyped DEF GraphInv, Texts
<1>3. Pieces[s][v] \in 0..MaxPieces
  BY <1>2, PiecesOfText
<1> QED
  BY <1>1, <1>2, <1>3, GraphAssumption

LEMMA InitInv == Init => GraphInv
<1> SUFFICES ASSUME Init PROVE GraphInv
  OBVIOUS
<1>1. TypeOK
  BY DEF Init, None, TypeOK
<1>2. Texts
  BY <1>1, SectionsTyped DEF Init, None, Texts, Known, Edition
<1>3. Agree /\ Ordered
  BY DEF Init, None, Agree, Ordered, OrderedAt, Edition
<1>4. Records /\ Fetched /\ Stubs
  BY DEF Init, None, Records, Fetched, Stubs, Unsynced
<1>5. SyncedAreCurrent /\ OnlyTailsAreOld
  BY DEF Init, None, SyncedAreCurrent, OnlyTailsAreOld, Embedded
<1> QED
  BY <1>1, <1>2, <1>3, <1>4, <1>5 DEF GraphInv

-----------------------------------------------------------------------------
(* Steps that leave texts, chunks and records alone *)

QuietStep == UNCHANGED <<content, chunks, sync, pending, batch, missed>>

\* Such a step keeps what is said of texts and chunks.
LEMMA QuietKeeps ==
    ASSUME GraphInv, QuietStep
    PROVE  Fetched' /\ SyncedAreCurrent' /\ OnlyTailsAreOld' /\ Records'
  BY DEF QuietStep, GraphInv, Fetched, SyncedAreCurrent, OnlyTailsAreOld, Embedded, Records, Unsynced

LEMMA PublishKeeps ==
    ASSUME GraphInv, NEW s \in Sections, Publish(s)
    PROVE  GraphInv'
<1>1. /\ corpus' = [corpus EXCEPT ![s] = corpus[s] + 1] /\ corpus[s] < Len(Pieces[s])
      /\ UNCHANGED <<nodesCsv, edgesCsv, stage, toMerge, toLink, nodes, content, edges,
                     chunks, sync, pending, batch, missed, mixed>>
  BY DEF Publish, xmlFiles, load, neo4j, worker, history
<1>2. TypeOK'
  BY <1>1, SectionsTyped DEF GraphInv, TypeOK
<1>3. \A t \in Sections : /\ corpus'[t] \in Nat /\ corpus[t] <= corpus'[t]
                          /\ corpus'[t] <= Len(Pieces[t])
  BY <1>1, SectionsTyped DEF GraphInv, TypeOK, Texts
<1>4. ASSUME NEW t \in Sections, NEW row \in Int, Known(t, row)
      PROVE  Known(t, row)'
  BY <1>3, <1>4, SectionsTyped, EditionFacts DEF Known, GraphInv
<1>5. Texts'
  BY <1>1, <1>3, <1>4, SectionsTyped DEF GraphInv, Texts
<1>6. Agree' /\ Ordered' /\ Stubs'
  BY <1>1 DEF GraphInv, Agree, Ordered, OrderedAt, Stubs
<1> QED
  BY <1>1, <1>2, <1>5, <1>6, QuietKeeps DEF QuietStep, GraphInv

\* The rows of the XML script are of the editions published last.
LEMMA XmlKeeps ==
    ASSUME GraphInv, ParseXml
    PROVE  GraphInv'
<1>1. UNCHANGED <<corpus, stage, toMerge, toLink, nodes, content, edges, chunks,
                  sync, pending, batch, missed, mixed>>
  BY DEF ParseXml, load, neo4j, worker, history
<1>2. PICK parsed \in SUBSET {s \in Sections : corpus[s] > 0}, cut \in SUBSET Sections :
          /\ cut \subseteq parsed
          /\ nodesCsv' = [s \in Sections |-> CASE s \in cut          -> -corpus[s]
                                               [] s \in parsed \ cut -> Row(s)
                                               [] OTHER              -> 0]
  BY DEF ParseXml
<1>3. \A s \in Sections : nodesCsv'[s] \in {0, corpus[s], -corpus[s]}
  BY <1>2 DEF Row
<1>4. nodesCsv' \in [Sections -> Int]
  BY <1>2, SectionsTyped DEF Row, GraphInv
<1>5. TypeOK'
  BY <1>1, <1>4 DEF ParseXml, GraphInv, TypeOK
<1>6. \A s \in Sections : nodesCsv'[s] # 0 => Edition(nodesCsv'[s]) = corpus[s]
  BY <1>3, SectionsTyped, EditionFacts DEF GraphInv
<1>7. \A s \in Sections : Known(s, nodesCsv[s])'
  <2> TAKE s \in Sections
  <2>1. CASE nodesCsv'[s] <= 0
    <3>1. nodesCsv'[s] \in Int /\ corpus[s] \in Nat
      BY <1>4, SectionsTyped DEF GraphInv
    <3>2. Edition(nodesCsv'[s]) <= corpus[s]
      BY <1>6, <3>1, EditionFacts
    <3> QED
      BY <1>1, <2>1, <3>1, <3>2 DEF Known
  <2>2. CASE nodesCsv'[s] > 0
    <3>1. corpus[s] > 0 /\ nodesCsv'[s] = corpus[s]
      BY <1>3, <1>4, <2>2, SectionsTyped DEF GraphInv
    <3>2. nodesCsv'[s] = Row(s) \/ nodesCsv'[s] = -corpus[s]
      BY <1>2, <3>1, SectionsTyped DEF GraphInv
    <3>3. Pieces[s][corpus[s]] # 0
      BY <3>1, <3>2, SectionsTyped DEF Row, GraphInv
    <3>4. Pieces[s][corpus[s]] \in 0..MaxPieces
      BY <3>1, PiecesOfText, SectionsTyped DEF GraphInv, Texts
    <3>5. Pieces[s][corpus[s]] > 0
      BY <3>3, <3>4, GraphAssumption
    <3> QED
      BY <1>1, <1>6, <3>1, <3>5, SectionsTyped DEF Known, GraphInv
  <2> QED
    BY <1>4, <2>1, <2>2
<1>8. Texts'
  BY <1>1, <1>7 DEF GraphInv, Texts, Known
<1>9. Agree' /\ Stubs'
  BY <1>1 DEF GraphInv, Agree, Stubs
<1>10. Ordered'
  <2> SUFFICES ASSUME NEW s \in Sections \ mixed PROVE OrderedAt(s)'
    BY <1>1 DEF Ordered
  <2>1. OrderedAt(s) /\ Edition(content[s]) <= corpus[s] /\ \A l \in Loads : Edition(toMerge[l][s]) <= corpus[s]
    BY DEF GraphInv, Ordered, Texts, Known
  <2>2. nodesCsv'[s] # 0 => Edition(nodesCsv'[s]) = corpus[s]
    BY <1>6
  <2> QED
    BY <1>1, <2>1, <2>2 DEF OrderedAt
<1> QED
  BY <1>1, <1>5, <1>8, <1>9, <1>10, QuietKeeps DEF QuietStep, GraphInv
-----------------------------------------------------------------------------
(* Loads *)

\* A load changes the rows it has under way: drops them or reads them anew.
RowsStep ==
    /\ UNCHANGED <<corpus, nodesCsv, edgesCsv, nodes, content, edges,
                   chunks, sync, pending, batch, missed>>
    /\ stage' \in [Loads -> {"idle", "nodes", "edges"}]
    /\ toLink' \in [Loads -> SUBSET Refers]
    /\ toMerge' \in [Loads -> [Sections -> Int]]
    /\ \A l \in Loads, s \in Sections : toMerge'[l][s] \in {toMerge[l][s], nodesCsv[s], 0}

LEMMA RowsKeep ==
    ASSUME GraphInv, RowsStep, mixed' = mixed \cup Rivals(toMerge')
    PROVE  GraphInv'
<1>1. mixed' \subseteq Sections
  BY DEF GraphInv, TypeOK, Rivals
<1>2. TypeOK'
  BY <1>1 DEF RowsStep, GraphInv, TypeOK
<1>3. Texts'
  <2>1. ASSUME NEW s \in Sections, NEW l \in Loads
        PROVE  Known(s, toMerge[l][s])'
    <3>1. CASE toMerge'[l][s] = toMerge[l][s]
      BY <3>1 DEF RowsStep, GraphInv, Texts, Known
    <3>2. CASE toMerge'[l][s] = nodesCsv[s]
      BY <3>2 DEF RowsStep, GraphInv, Texts, Known
    <3>3. CASE toMerge'[l][s] = 0
      BY <3>3, SectionsTyped, EditionFacts DEF RowsStep, GraphInv, Known
    <3> QED
      BY <3>1, <3>2, <3>3 DEF RowsStep
  <2> QED
    BY <2>1 DEF RowsStep, GraphInv, Texts, Known
<1>4. Agree'
  <2> SUFFICES ASSUME NEW s \in Sections \ mixed'
               PROVE  /\ \A k, l \in Loads :
                            toMerge'[k][s] # 0 /\ toMerge'[l][s] # 0
                                => Edition(toMerge'[k][s]) = Edition(toMerge'[l][s])
                      /\ \A q, r \in Runs :
                            pending[q][s] > 0 /\ pending[r][s] > 0 => pending[q][s] = pending[r][s]
    BY DEF Agree, RowsStep
  <2>1. DOMAIN toMerge' = Loads
    BY DEF RowsStep
  <2>2. s \notin Rivals(toMerge')
    OBVIOUS
  <2> QED
    BY <2>1, <2>2 DEF Rivals, GraphInv, Agree
<1>5. Ordered'
  <2> SUFFICES ASSUME NEW s \in Sections \ mixed PROVE OrderedAt(s)'
    BY DEF Ordered
  <2>1. OrderedAt(s)
    BY DEF GraphInv, Ordered
  <2>2. \A l \in Loads : toMerge'[l][s] \in {toMerge[l][s], nodesCsv[s], 0}
    BY DEF RowsStep
  <2>3. Edition(nodesCsv[s]) \in Nat
    BY EditionsTyped DEF GraphInv
  <2> QED
    BY <2>1, <2>2, <2>3 DEF RowsStep, OrderedAt
<1>6. Stubs'
  BY DEF RowsStep, GraphInv, Stubs
<1> QED
  BY <1>2, <1>3, <1>4, <1>5, <1>6, QuietKeeps DEF QuietStep, RowsStep, GraphInv

\* Rows dropped or left as they are make nothing mixed.
LEMMA FewerRows ==
    ASSUME GraphInv, RowsStep, mixed' = mixed,
           \A l \in Loads, s \in Sections : toMerge'[l][s] \in {toMerge[l][s], 0}
    PROVE  GraphInv'
<1>1. Rivals(toMerge') \subseteq mixed
  <2>1. DOMAIN toMerge' = Loads
    BY DEF RowsStep
  <2> SUFFICES ASSUME NEW s \in Sections \ mixed PROVE s \notin Rivals(toMerge')
    BY DEF Rivals
  <2> QED
    BY <2>1 DEF Rivals, GraphInv, Agree
<1> QED
  BY <1>1, RowsKeep

LEMMA StagesKeep ==
    ASSUME GraphInv, NEW l \in Loads,
           \/ StartLoad(l) \/ StartEdges(l) \/ ReadEdgesOn(l) \/ EndLoad(l) \/ LoadDies(l)
           \/ \E s \in Sections : ReadNodesOn(l, s)
    PROVE  GraphInv'
<1>0. /\ stage \in [Loads -> {"idle", "nodes", "edges"}] /\ toLink \in [Loads -> SUBSET Refers]
      /\ toMerge \in [Loads -> [Sections -> Int]] /\ nodesCsv \in [Sections -> Int]
      /\ None \in [Sections -> Int] /\ edgesCsv \subseteq Refers
  BY DEF GraphInv, TypeOK, None
<1>1. CASE StartLoad(l)
  <2>1. RowsStep /\ mixed' = mixed \cup Rivals(toMerge')
    BY <1>0, <1>1 DEF StartLoad, RowsStep, xmlFiles, neo4j, worker
  <2> QED
    BY <2>1, RowsKeep
<1>2. ASSUME NEW s \in Sections, ReadNodesOn(l, s) PROVE GraphInv'
  <2> DEFINE new == [toMerge[l] EXCEPT ![s] = nodesCsv[s]]
  <2>1. new \in [Sections -> Int] /\ \A t \in Sections : new[t] = IF t = s THEN nodesCsv[s] ELSE toMerge[l][t]
    BY <1>0
  <2>2. toMerge' = [toMerge EXCEPT ![l] = new]
    BY <1>2 DEF ReadNodesOn
  <2> HIDE DEF new
  <2>3. /\ toMerge' \in [Loads -> [Sections -> Int]]
        /\ \A k \in Loads, t \in Sections : toMerge'[k][t] \in {toMerge[k][t], nodesCsv[t], 0}
    BY <1>0, <2>1, <2>2
  <2>4. RowsStep /\ mixed' = mixed \cup Rivals(toMerge')
    BY <1>0, <1>2, <2>3 DEF ReadNodesOn, RowsStep, xmlFiles, neo4j, worker
  <2> QED
    BY <2>4, RowsKeep
<1>3. CASE StartEdges(l) \/ ReadEdgesOn(l) \/ EndLoad(l)
  <2>1. RowsStep /\ UNCHANGED <<toMerge, mixed>>
    BY <1>0, <1>3 DEF StartEdges, ReadEdgesOn, EndLoad, RowsStep, xmlFiles, neo4j, worker, history
  <2> QED
    BY <2>1, FewerRows
<1>4. CASE LoadDies(l)
  <2>1. toMerge' = [toMerge EXCEPT ![l] = None] /\ mixed' = mixed
    BY <1>4 DEF LoadDies, history
  <2>2. /\ toMerge' \in [Loads -> [Sections -> Int]]
        /\ \A k \in Loads, t \in Sections : toMerge'[k][t] \in {toMerge[k][t], 0}
    BY <1>0, <2>1 DEF None
  <2>3. RowsStep
    BY <1>0, <1>4, <2>2 DEF LoadDies, RowsStep, xmlFiles, neo4j, worker, history
  <2> QED
    BY <2>1, <2>2, <2>3, FewerRows
<1> QED
  BY <1>1, <1>2, <1>3, <1>4

LEMMA LinkKeeps ==
    ASSUME GraphInv, NEW l \in Loads, NEW e \in Refers, MergeEdge(l, e)
    PROVE  GraphInv'
<1>1. /\ UNCHANGED <<corpus, nodesCsv, edgesCsv, stage, toMerge, content, chunks,
                     sync, pending, batch, missed, mixed>>
      /\ toLink' = [toLink EXCEPT ![l] = toLink[l] \ {e}]
      /\ \/ nodes' = nodes \cup {e[2]} /\ edges' = edges \cup {e}
         \/ UNCHANGED <<nodes, edges>>
  BY DEF MergeEdge, xmlFiles, worker, history
<1>2. e[2] \in Sections
  BY GraphAssumption
<1>3. TypeOK'
  BY <1>1, <1>2 DEF GraphInv, TypeOK
<1>4. Texts' /\ Agree' /\ Ordered'
  BY <1>1 DEF GraphInv, Texts, Known, Agree, Ordered, OrderedAt
<1>5. Stubs'
  BY <1>1 DEF GraphInv, Stubs
<1> QED
  BY <1>1, <1>3, <1>4, <1>5, QuietKeeps DEF QuietStep, GraphInv

\* The row of a section brings an edition that is as new as any in the graph, if
\* the loads agree on it.
LEMMA MergeKeeps ==
    ASSUME GraphInv, NEW l \in Loads, NEW s \in Sections, MergeNode(l, s)
    PROVE  GraphInv'
<1> DEFINE row == toMerge[l][s]
           new == [toMerge[l] EXCEPT ![s] = 0]
<1>1. /\ content' = [content EXCEPT ![s] = row] /\ row # 0
      /\ toMerge' = [toMerge EXCEPT ![l] = new]
      /\ missed' = missed \cup {s} /\ nodes' = nodes \cup {s}
      /\ UNCHANGED <<corpus, nodesCsv, edgesCsv, stage, toLink, edges, chunks,
                     sync, pending, batch, mixed>>
  BY DEF MergeNode, xmlFiles, worker
<1>2. toMerge \in [Loads -> [Sections -> Int]] /\ content \in [Sections -> Int] /\ row \in Int
  BY DEF GraphInv, TypeOK
<1>3. new \in [Sections -> Int] /\ \A t \in Sections : new[t] \in {toMerge[l][t], 0}
  BY <1>2
<1>4. /\ toMerge' \in [Loads -> [Sections -> Int]]
      /\ \A k \in Loads, t \in Sections : toMerge'[k][t] \in {toMerge[k][t], 0}
  <2> HIDE DEF new
  <2> QED
    BY <1>1, <1>2, <1>3
<1>5. content' \in [Sections -> Int] /\ \A t \in Sections : content'[t] = IF t = s THEN row ELSE content[t]
  BY <1>1, <1>2
<1>6. TypeOK'
  BY <1>1, <1>4, <1>5 DEF GraphInv, TypeOK
<1>7. Texts'
  <2>0. Known(s, row)
    BY DEF GraphInv, Texts
  <2>1. \A t \in Sections : Known(t, 0)
    BY SectionsTyped DEF GraphInv, Known, Edition
  <2>2. \A t \in Sections : Known(t, content'[t]) /\ \A k \in Loads : Known(t, toMerge'[k][t])
    BY <1>4, <1>5, <2>0, <2>1 DEF GraphInv, Texts
  <2> QED
    BY <1>1, <2>2 DEF GraphInv, Texts, Known
<1>8. Agree'
  BY <1>1, <1>4 DEF GraphInv, Agree
<1>9. Ordered'
  <2> SUFFICES ASSUME NEW t \in Sections \ mixed PROVE OrderedAt(t)'
    BY <1>1 DEF Ordered
  <2>1. OrderedAt(t)
    BY DEF GraphInv, Ordered
  <2>2. CASE t # s
    BY <1>1, <1>4, <1>5, <2>1, <2>2 DEF OrderedAt
  <2>3. CASE t = s
    <3>1. \A k \in Loads : toMerge[k][s] # 0 => Edition(toMerge[k][s]) = Edition(row)
      BY <1>1, <2>3 DEF GraphInv, Agree
    <3>2. /\ Edition(content[s]) <= Edition(row)
          /\ nodesCsv[s] # 0 => Edition(row) <= Edition(nodesCsv[s])
      BY <1>1, <2>1, <2>3 DEF OrderedAt
    <3>3. Edition(content[s]) \in Nat /\ Edition(row) \in Nat
          /\ (\A r \in Runs : pending[r][s] \in Nat) /\ (\A i \in 1..MaxPieces : chunks[s][i] \in Nat)
      BY SectionsTyped, EditionsTyped DEF GraphInv
    <3>4. \A k \in Loads : toMerge'[k][s] \in {toMerge[k][s], 0}
      BY <1>4
    <3>5. content'[s] = row
      BY <1>5
    <3> HIDE DEF row
    <3>6. /\ nodesCsv'[s] # 0 => Edition(content'[s]) <= Edition(nodesCsv'[s])
          /\ \A k \in Loads :
                toMerge'[k][s] # 0 =>
                    /\ Edition(content'[s]) <= Edition(toMerge'[k][s])
                    /\ nodesCsv'[s] # 0 => Edition(toMerge'[k][s]) <= Edition(nodesCsv'[s])
      BY <1>1, <3>1, <3>2, <3>3, <3>4, <3>5
    <3>7. \A r \in Runs : pending'[r][s] <= Edition(content'[s])
      BY <1>1, <2>1, <2>3, <3>2, <3>3, <3>5 DEF OrderedAt
    <3>8. \A i \in 1..MaxPieces :
              /\ chunks'[s][i] <= Edition(content'[s])
              /\ \A r \in Runs : pending'[r][s] > 0 => chunks'[s][i] <= pending'[r][s]
      BY <1>1, <2>1, <2>3, <3>2, <3>3, <3>5 DEF OrderedAt
    <3> QED
      BY <2>3, <3>6, <3>7, <3>8 DEF OrderedAt
  <2> QED
    BY <2>2, <2>3
<1>10. Records'
  BY <1>1 DEF GraphInv, Records, Unsynced
<1>11. Fetched' /\ Stubs'
  BY <1>1, <1>5 DEF GraphInv, Fetched, Stubs
<1>12. SyncedAreCurrent' /\ OnlyTailsAreOld'
  BY <1>1, <1>5 DEF GraphInv, SyncedAreCurrent, OnlyTailsAreOld, Embedded
<1> QED
  BY <1>6, <1>7, <1>8, <1>9, <1>10, <1>11, <1>12 DEF GraphInv

-----------------------------------------------------------------------------
(* The embedding worker *)

\* What the next turn of the loop of r does with the records that are left.
LEMMA LoopKeeps ==
    ASSUME GraphInv, NEW r \in Runs, NEW records \in [Sections -> Nat], Loop(r, records)
    PROVE  /\ pending' = [pending EXCEPT ![r] = records] /\ pending' \in [Runs -> [Sections -> Nat]]
           /\ Records'
           /\ sync' \in [Runs -> {"idle", "insert", "retry"}] /\ batch' \in [Runs -> SUBSET Sections]
<1>0. /\ pending \in [Runs -> [Sections -> Nat]] /\ batch \in [Runs -> SUBSET Sections]
      /\ sync \in [Runs -> {"idle", "insert", "retry"}]
  BY DEF GraphInv, TypeOK
<1>1. PICK new \in SUBSET Unsynced(records), next \in {"idle", "insert"} :
          /\ pending' = [pending EXCEPT ![r] = records]
          /\ batch' = [batch EXCEPT ![r] = new]
          /\ sync' = [sync EXCEPT ![r] = next]
          /\ next = "idle" => Unsynced(records) = {}
  BY DEF Loop, UpTo
<1>2. /\ pending' \in [Runs -> [Sections -> Nat]] /\ batch' \in [Runs -> SUBSET Sections]
      /\ sync' \in [Runs -> {"idle", "insert", "retry"}]
  BY <1>0, <1>1 DEF Unsynced
<1>3. ASSUME NEW q \in Runs
      PROVE  batch'[q] \subseteq Unsynced(pending'[q]) /\ (sync'[q] = "idle" => Unsynced(pending'[q]) = {})
  <2>1. CASE q = r
    BY <1>0, <1>1, <2>1
  <2>2. CASE q # r
    <3>1. batch'[q] = batch[q] /\ pending'[q] = pending[q] /\ sync'[q] = sync[q]
      BY <1>0, <1>1, <2>2
    <3> QED
      BY <3>1 DEF GraphInv, Records
  <2> QED
    BY <2>1, <2>2
<1>4. Records'
  BY <1>3 DEF Records, Unsynced
<1> QED
  BY <1>1, <1>2, <1>4

\* Only texts fetched come to be pending, and they are the current ones.
LEMMA FetchKeeps ==
    ASSUME GraphInv, NEW r \in Runs, NEW records \in SUBSET Sections, Fetch(r, records)
    PROVE  GraphInv'
<1> DEFINE new == [s \in Sections |-> IF s \in records THEN content[s] ELSE 0]
<1>1. /\ UNCHANGED <<corpus, nodesCsv, edgesCsv, stage, toMerge, toLink, nodes, content, edges, chunks>>
      /\ missed' = (missed \ records) \cup Rivals(pending')
      /\ mixed' = mixed \cup Rivals(pending')
      /\ Loop(r, new) /\ sync[r] = "idle"
      /\ \A s \in records : content[s] > 0
  BY DEF Fetch, UpTo, xmlFiles, load, neo4j
<1>2. new \in [Sections -> Nat]
  BY <1>1, SectionsTyped DEF GraphInv
<1>3. /\ pending' = [pending EXCEPT ![r] = new] /\ pending' \in [Runs -> [Sections -> Nat]]
      /\ Records' /\ sync' \in [Runs -> {"idle", "insert", "retry"}] /\ batch' \in [Runs -> SUBSET Sections]
  <2> HIDE DEF new
  <2> QED
    BY <1>1, <1>2, LoopKeeps
<1>4. /\ \A s \in Sections : pending'[r][s] = IF s \in records THEN content[s] ELSE 0
      /\ \A q \in Runs \ {r} : pending'[q] = pending[q]
  BY <1>3 DEF GraphInv, TypeOK
<1>5. \A s \in Sections \ Rivals(pending') : \A p, q \in Runs :
          pending'[p][s] > 0 /\ pending'[q][s] > 0 => pending'[p][s] = pending'[q][s]
  <2>1. DOMAIN pending' = Runs
    BY <1>3
  <2>2. \A p \in Runs, s \in Sections : pending'[p][s] \in Nat
    BY <1>3
  <2> QED
    BY <2>1, <2>2 DEF Rivals, Edition
<1>6. TypeOK'
  <2>1. mixed' \subseteq Sections /\ missed' \subseteq Sections
    BY <1>1 DEF Rivals, GraphInv, TypeOK
  <2> QED
    BY <1>1, <1>3, <2>1 DEF GraphInv, TypeOK
<1>7. Texts'
  <2>1. \A s \in Sections, q \in Runs : Known(s, pending'[q][s])
    <3> TAKE s \in Sections, q \in Runs
    <3>1. Known(s, content[s]) /\ Known(s, pending[q][s])
      BY DEF GraphInv, Texts
    <3>2. Known(s, 0)
      BY SectionsTyped DEF GraphInv, Known, Edition
    <3> QED
      BY <1>4, <3>1, <3>2
  <2> QED
    BY <1>1, <2>1 DEF GraphInv, Texts, Known
<1>8. Agree'
  BY <1>1, <1>5 DEF GraphInv, Agree
<1>9. Ordered'
  <2> SUFFICES ASSUME NEW s \in Sections \ mixed PROVE OrderedAt(s)'
    BY <1>1 DEF Ordered
  <2>1. OrderedAt(s)
    BY DEF GraphInv, Ordered
  <2>2. s \in records => content[s] > 0 /\ Edition(content[s]) = content[s]
    BY <1>1, SectionsTyped, EditionFacts DEF GraphInv
  <2>3. Edition(content[s]) \in Nat
    BY EditionsTyped DEF GraphInv
  <2>4. \A q \in Runs : pending'[q][s] <= Edition(content[s])
    BY <1>4, <2>1, <2>2, <2>3 DEF OrderedAt
  <2>5. \A i \in 1..MaxPieces, q \in Runs : pending'[q][s] > 0 => chunks[s][i] <= pending'[q][s]
    BY <1>4, <2>1, <2>2 DEF OrderedAt
  <2> QED
    BY <1>1, <2>1, <2>4, <2>5 DEF OrderedAt
<1>10. Stubs'
  BY <1>1 DEF GraphInv, Stubs
<1>11. Fetched'
  <2> SUFFICES ASSUME NEW s \in Sections \ missed', NEW q \in Runs, pending'[q][s] > 0
               PROVE  pending'[q][s] = content[s]
    BY <1>1 DEF Fetched
  <2>1. CASE s \in records
    <3>1. pending'[r][s] = content[s] /\ content[s] > 0
      BY <1>1, <1>4, <2>1
    <3>2. s \notin Rivals(pending')
      BY <1>1
    <3> QED
      BY <1>5, <3>1, <3>2
  <2>2. CASE s \notin records
    <3>1. pending'[q][s] = pending[q][s] /\ s \notin missed
      BY <1>1, <1>4, <2>2
    <3> QED
      BY <3>1 DEF GraphInv, Fetched
  <2> QED
    BY <2>1, <2>2
<1>12. SyncedAreCurrent'
  <2> SUFFICES ASSUME NEW s \in Sections \ missed', content[s] > 0, \A q \in Runs : pending'[q][s] = 0
               PROVE  \A i \in 1..Pieces[s][content[s]] : chunks[s][i] = content[s]
    BY <1>1 DEF SyncedAreCurrent
  <2>1. s \notin records /\ s \notin missed
    BY <1>1, <1>4, SectionsTyped DEF GraphInv
  <2>2. pending[r][s] = 0
    BY <1>1, SectionsTyped DEF GraphInv, Records, Unsynced
  <2>3. \A q \in Runs : pending[q][s] = 0
    BY <1>4, <2>2
  <2> QED
    BY <2>1, <2>3 DEF GraphInv, SyncedAreCurrent
<1>13. OnlyTailsAreOld'
  BY <1>1 DEF GraphInv, OnlyTailsAreOld, Embedded
<1> QED
  BY <1>3, <1>6, <1>7, <1>8, <1>9, <1>10, <1>11, <1>12, <1>13 DEF GraphInv

\* A step of the loop, with the records it gives up (`lost') without inserting them.
Passed(lost) ==
    /\ UNCHANGED <<corpus, nodesCsv, edgesCsv, stage, toMerge, toLink, nodes, content, edges, mixed>>
    /\ pending' \in [Runs -> [Sections -> Nat]]
    /\ \A q \in Runs, s \in Sections : pending'[q][s] \in {0, pending[q][s]}
    /\ Records'
    /\ sync' \in [Runs -> {"idle", "insert", "retry"}] /\ batch' \in [Runs -> SUBSET Sections]
    /\ missed' = missed \cup lost /\ lost \subseteq Sections

\* What holds of records and texts goes on to hold with fewer records.
LEMMA PassedTexts ==
    ASSUME GraphInv, NEW lost, Passed(lost)
    PROVE  /\ \A s \in Sections, q \in Runs : Known(s, pending'[q][s])
           /\ (\A s \in Sections : \A i \in 1..MaxPieces : Known(s, chunks'[s][i])) => Texts'
           /\ Agree' /\ Stubs' /\ Fetched'
<1>1. \A s \in Sections, q \in Runs : Known(s, pending'[q][s])
  <2> TAKE s \in Sections, q \in Runs
  <2>1. Known(s, pending[q][s])
    BY DEF GraphInv, Texts
  <2>2. Known(s, 0)
    BY SectionsTyped DEF GraphInv, Known, Edition
  <2> QED
    BY <2>1, <2>2 DEF Passed
<1>2. (\A s \in Sections : \A i \in 1..MaxPieces : Known(s, chunks'[s][i])) => Texts'
  BY <1>1 DEF GraphInv, Texts, Known, Passed
<1>3. Agree'
  BY DEF GraphInv, Agree, Passed
<1>4. Stubs' /\ Fetched'
  BY DEF GraphInv, Stubs, Fetched, Passed
<1> QED
  BY <1>1, <1>2, <1>3, <1>4

\* Records no more pending that were not inserted are missed.
LEMMA PassedKeeps ==
    ASSUME GraphInv, NEW lost, Passed(lost), UNCHANGED chunks,
           \A q \in Runs, s \in Sections : pending'[q][s] = pending[q][s] \/ s \in lost
    PROVE  GraphInv'
<1>1. TypeOK'
  BY DEF GraphInv, TypeOK, Passed
<1>2. Texts' /\ Agree' /\ Stubs' /\ Fetched'
  BY PassedTexts DEF GraphInv, Texts
<1>3. Ordered'
  <2> SUFFICES ASSUME NEW s \in Sections \ mixed PROVE OrderedAt(s)'
    BY DEF Ordered, Passed
  <2>1. OrderedAt(s) /\ Edition(content[s]) \in Nat
    BY EditionsTyped DEF GraphInv, Ordered
  <2> QED
    BY <2>1 DEF OrderedAt, Passed
<1>4. SyncedAreCurrent'
  <2> SUFFICES ASSUME NEW s \in Sections \ missed', content[s] > 0, \A q \in Runs : pending'[q][s] = 0
               PROVE  \A i \in 1..Pieces[s][content[s]] : chunks[s][i] = content[s]
    BY DEF SyncedAreCurrent, Passed
  <2>1. s \notin missed /\ s \notin lost
    BY DEF Passed
  <2>2. \A q \in Runs : pending[q][s] = 0
    BY <2>1
  <2> QED
    BY <2>1, <2>2 DEF GraphInv, SyncedAreCurrent
<1>5. OnlyTailsAreOld' /\ Records'
  BY DEF GraphInv, OnlyTailsAreOld, Embedded, Passed
<1> QED
  BY <1>1, <1>2, <1>3, <1>4, <1>5 DEF GraphInv

LEMMA TickPasses ==
    ASSUME GraphInv, NEW r \in Runs, Tick(r)
    PROVE  /\ pending' \in [Runs -> [Sections -> Nat]]
           /\ \A s \in Sections : pending'[r][s] = IF s \in batch[r] THEN 0 ELSE pending[r][s]
           /\ \A q \in Runs \ {r} : pending'[q] = pending[q]
           /\ Records'
           /\ sync' \in [Runs -> {"idle", "insert", "retry"}] /\ batch' \in [Runs -> SUBSET Sections]
<1> DEFINE new == [s \in Sections |-> IF s \in batch[r] THEN 0 ELSE pending[r][s]]
<1>1. new \in [Sections -> Nat]
  BY SectionsTyped DEF GraphInv
<1>2. Loop(r, new)
  BY DEF Tick
<1> HIDE DEF new
<1>3. /\ pending' = [pending EXCEPT ![r] = new] /\ pending' \in [Runs -> [Sections -> Nat]]
      /\ Records'
      /\ sync' \in [Runs -> {"idle", "insert", "retry"}] /\ batch' \in [Runs -> SUBSET Sections]
  BY <1>1, <1>2, LoopKeeps
<1>4. pending'[r] = new /\ \A q \in Runs \ {r} : pending'[q] = pending[q]
  BY <1>3 DEF GraphInv, TypeOK
<1> USE DEF new
<1> QED
  BY <1>3, <1>4

\* A batch that is inserted: the first chunks of its sections hold their texts.
LEMMA InsertKeeps ==
    ASSUME GraphInv, NEW r \in Runs, InsertBatch(r)
    PROVE  GraphInv'
<1>0. MaxPieces \in Nat
  BY GraphAssumption
<1>1. /\ UNCHANGED <<corpus, nodesCsv, edgesCsv, stage, toMerge, toLink, nodes, content, edges, mixed, missed>>
      /\ Insert(r) /\ Tick(r)
  BY DEF InsertBatch, xmlFiles, load, history
<1>2. \A q \in Runs, s \in Sections :
          pending'[q][s] = IF q = r /\ s \in batch[r] THEN 0 ELSE pending[q][s]
  BY <1>1, TickPasses
<1>3. Passed({})
  BY <1>1, <1>2, TickPasses DEF Passed
<1>4. \A s \in batch[r] : /\ s \in Sections /\ pending[r][s] \in Nat /\ 0 < pending[r][s]
                          /\ Known(s, pending[r][s])
  BY SectionsTyped DEF GraphInv, Records, Unsynced, Texts
<1>5. \A s \in batch[r] : Pieces[s][pending[r][s]] \in 1..MaxPieces
  BY <1>4, KnownPieces
<1>6. \A s \in Sections, i \in 1..MaxPieces :
          chunks'[s][i] = IF s \in batch[r] /\ i <= Pieces[s][pending[r][s]]
                          THEN pending[r][s] ELSE chunks[s][i]
  BY <1>1 DEF Insert
<1>7. chunks' \in [Sections -> [1..MaxPieces -> Nat]]
  BY <1>1, SectionsTyped DEF Insert, GraphInv
<1>8. TypeOK'
  BY <1>1, <1>3, <1>7 DEF GraphInv, TypeOK, Passed
<1>9. Texts' /\ Agree' /\ Stubs' /\ Fetched'
  <2>1. \A s \in Sections : \A i \in 1..MaxPieces : Known(s, chunks'[s][i])
    BY <1>4, <1>6 DEF GraphInv, Texts
  <2> QED
    BY <1>3, <2>1, PassedTexts
<1>10. Ordered'
  <2> SUFFICES ASSUME NEW s \in Sections \ mixed PROVE OrderedAt(s)'
    BY <1>1 DEF Ordered
  <2>1. OrderedAt(s)
    BY DEF GraphInv, Ordered
  <2>2. Edition(content[s]) \in Nat
    BY EditionsTyped DEF GraphInv
  <2>3. \A q \in Runs : pending'[q][s] <= Edition(content[s])
    BY <1>2, <2>1, <2>2 DEF OrderedAt
  <2>4. \A i \in 1..MaxPieces : chunks'[s][i] <= Edition(content[s])
    BY <1>6, <2>1 DEF OrderedAt
  <2>5. ASSUME NEW i \in 1..MaxPieces, NEW q \in Runs, pending'[q][s] > 0
        PROVE  chunks'[s][i] <= pending'[q][s]
    <3>1. pending'[q][s] = pending[q][s] /\ pending[q][s] > 0 /\ pending[q][s] \in Nat
      BY <1>2, <2>5, SectionsTyped DEF GraphInv
    <3>2. s \in batch[r] => pending[r][s] = pending[q][s]
      BY <1>4, <3>1 DEF GraphInv, Agree
    <3> QED
      BY <1>6, <2>1, <3>1, <3>2 DEF OrderedAt
  <2> QED
    BY <1>1, <2>1, <2>3, <2>4, <2>5 DEF OrderedAt
<1>11. SyncedAreCurrent'
  <2> SUFFICES ASSUME NEW s \in Sections \ missed, content[s] > 0, \A q \in Runs : pending'[q][s] = 0,
                      NEW i \in 1..Pieces[s][content[s]]
               PROVE  chunks'[s][i] = content[s]
    BY <1>1 DEF SyncedAreCurrent
  <2>1. Pieces[s][content[s]] \in 1..MaxPieces
    BY KnownPieces, SectionsTyped DEF GraphInv, Texts
  <2>2. i \in 1..MaxPieces
    BY <1>0, <2>1
  <2>3. CASE s \in batch[r]
    <3>1. pending[r][s] = content[s]
      BY <1>4, <2>3 DEF GraphInv, Fetched
    <3> QED
      BY <1>6, <2>1, <2>2, <2>3, <3>1
  <2>4. CASE s \notin batch[r]
    <3>1. \A q \in Runs : pending[q][s] = 0
      BY <1>2, <2>4
    <3>2. chunks[s][i] = content[s]
      BY <3>1 DEF GraphInv, SyncedAreCurrent
    <3> QED
      BY <1>6, <2>2, <2>4, <3>2
  <2> QED
    BY <2>3, <2>4
<1>12. OnlyTailsAreOld'
  <2> SUFFICES ASSUME NEW s \in Sections, Embedded(s)'
               PROVE  /\ chunks'[s][1] > 0
                      /\ \A i \in 1..Pieces[s][chunks'[s][1]] : chunks'[s][i] = chunks'[s][1]
    BY DEF OnlyTailsAreOld
  <2>1. CASE s \in batch[r]
    <3> DEFINE v == pending[r][s]
    <3>1. v \in Nat /\ 0 < v /\ Pieces[s][v] \in 1..MaxPieces
      BY <1>4, <1>5, <2>1
    <3>2. \A i \in 1..Pieces[s][v] : i \in 1..MaxPieces /\ i <= Pieces[s][v]
      BY <1>0, <3>1
    <3>3. \A i \in 1..Pieces[s][v] : chunks'[s][i] = v
      BY <1>6, <2>1, <3>2
    <3>4. 1 \in 1..Pieces[s][v]
      BY <1>0, <3>1
    <3>5. chunks'[s][1] = v
      BY <3>3, <3>4
    <3> HIDE DEF v
    <3> QED
      BY <3>1, <3>3, <3>5
  <2>2. CASE s \notin batch[r]
    <3>1. \A i \in 1..MaxPieces : chunks'[s][i] = chunks[s][i]
      BY <1>6, <2>2
    <3>2. Embedded(s)
      BY <3>1 DEF Embedded
    <3>3. /\ chunks[s][1] > 0
          /\ \A i \in 1..Pieces[s][chunks[s][1]] : chunks[s][i] = chunks[s][1]
      BY <3>2 DEF GraphInv, OnlyTailsAreOld
    <3>4. 1 \in 1..MaxPieces
      BY <3>2, GraphAssumption DEF Embedded
    <3>5. chunks[s][1] \in Nat /\ Known(s, chunks[s][1])
      BY <3>4, SectionsTyped DEF GraphInv, Texts
    <3>6. Pieces[s][chunks[s][1]] \in 1..MaxPieces
      BY <3>3, <3>5, KnownPieces
    <3>7. \A i \in 1..Pieces[s][chunks[s][1]] : i \in 1..MaxPieces
      BY <1>0, <3>6
    <3> QED
      BY <3>1, <3>3, <3>4, <3>7
  <2> QED
    BY <2>1, <2>2
<1>13. Records'
  BY <1>3 DEF Passed
<1> QED
  BY <1>8, <1>9, <1>10, <1>11, <1>12, <1>13 DEF GraphInv

LEMMA WorkerKeeps ==
    ASSUME GraphInv, NEW r \in Runs, Batches(r) \/ SyncDies(r)
    PROVE  GraphInv'
<1>0. /\ pending \in [Runs -> [Sections -> Nat]] /\ batch \in [Runs -> SUBSET Sections]
      /\ sync \in [Runs -> {"idle", "insert", "retry"}]
  BY DEF GraphInv, TypeOK
<1>1. CASE InsertBatch(r)
  BY <1>1, InsertKeeps
<1>2. CASE RateLimited(r)
  <2>1. /\ sync' = [sync EXCEPT ![r] = "retry"]
        /\ UNCHANGED <<corpus, nodesCsv, edgesCsv, stage, toMerge, toLink, nodes, content, edges,
                       chunks, pending, batch, missed, mixed>>
    BY <1>2 DEF RateLimited, xmlFiles, load, neo4j, history
  <2>2. Records'
    BY <1>0, <2>1 DEF GraphInv, Records, Unsynced
  <2>3. Passed({})
    BY <1>0, <2>1, <2>2 DEF Passed
  <2> QED
    BY <2>1, <2>3, PassedKeeps
<1>3. CASE SkipBatch(r)
  <2>1. /\ UNCHANGED <<corpus, nodesCsv, edgesCsv, stage, toMerge, toLink, nodes, content, edges,
                       chunks, mixed>>
        /\ missed' = missed \cup batch[r] /\ Tick(r)
    BY <1>3 DEF SkipBatch, xmlFiles, load, neo4j
  <2>2. \A q \in Runs, s \in Sections :
            pending'[q][s] = IF q = r /\ s \in batch[r] THEN 0 ELSE pending[q][s]
    BY <2>1, TickPasses
  <2>3. Passed(batch[r])
    BY <1>0, <2>1, <2>2, TickPasses DEF Passed
  <2> QED
    BY <2>1, <2>2, <2>3, PassedKeeps
<1>4. CASE SyncDies(r)
  <2>1. /\ UNCHANGED <<corpus, nodesCsv, edgesCsv, stage, toMerge, toLink, nodes, content, edges,
                       chunks, mixed>>
        /\ sync' = [sync EXCEPT ![r] = "idle"] /\ batch' = [batch EXCEPT ![r] = {}]
        /\ pending' = [pending EXCEPT ![r] = None]
        /\ missed' = missed \cup Unsynced(pending[r])
    BY <1>4 DEF SyncDies, xmlFiles, load, neo4j
  <2>2. None \in [Sections -> Nat]
    BY DEF None
  <2>3. \A q \in Runs, s \in Sections : pending'[q][s] = IF q = r THEN 0 ELSE pending[q][s]
    BY <1>0, <2>1 DEF None
  <2>4. /\ pending' \in [Runs -> [Sections -> Nat]] /\ batch' \in [Runs -> SUBSET Sections]
        /\ sync' \in [Runs -> {"idle", "insert", "retry"}]
    BY <1>0, <2>1, <2>2
  <2>5. Records'
    <3>1. ASSUME NEW q \in Runs
          PROVE  batch'[q] \subseteq Unsynced(pending'[q]) /\ (sync'[q] = "idle" => Unsynced(pending'[q]) = {})
      <4>1. CASE q = r
        BY <1>0, <2>1, <2>3, <4>1 DEF Unsynced
      <4>2. CASE q # r
        <5>1. batch'[q] = batch[q] /\ pending'[q] = pending[q] /\ sync'[q] = sync[q]
          BY <1>0, <2>1, <4>2
        <5> QED
          BY <5>1 DEF GraphInv, Records
      <4> QED
        BY <4>1, <4>2
    <3> QED
      BY <3>1 DEF Records, Unsynced
  <2>6. Passed(Unsynced(pending[r]))
    BY <2>1, <2>3, <2>4, <2>5 DEF Passed, Unsynced
  <2>7. \A q \in Runs, s \in Sections : pending'[q][s] = pending[q][s] \/ s \in Unsynced(pending[r])
    BY <2>3, SectionsTyped DEF Unsynced, GraphInv
  <2> QED
    BY <2>1, <2>6, <2>7, PassedKeeps
<1> QED
  BY <1>1, <1>2, <1>3, <1>4 DEF Batches

-----------------------------------------------------------------------------
(* The theorems of GraphSync *)

LEMMA StepInv == GraphInv /\ [Next]_vars => GraphInv'
<1> SUFFICES ASSUME GraphInv, [Next]_vars PROVE GraphInv'
  OBVIOUS
<1>1. CASE \E s \in Sections : Publish(s)
  BY <1>1, PublishKeeps
<1>2. CASE ParseXml
  BY <1>2, XmlKeeps
<1>3. CASE \E l \in Loads : Load(l)
  BY <1>3, StagesKeep, LinkKeeps, MergeKeeps DEF Load
<1>4. CASE \E r \in Runs : Batches(r) \/ SyncDies(r)
  BY <1>4, WorkerKeeps
<1>5. CASE \E r \in Runs, records \in SUBSET Sections : Fetch(r, records)
  BY <1>5, FetchKeeps
<1>6. CASE UNCHANGED vars
  <2>1. TypeOK' /\ Stubs'
    BY <1>6 DEF vars, GraphInv, TypeOK, Stubs
  <2>2. Texts' /\ Agree' /\ Ordered'
    BY <1>6 DEF vars, GraphInv, Texts, Known, Agree, Ordered, OrderedAt
  <2> QED
    BY <1>6, <2>1, <2>2, QuietKeeps DEF vars, QuietStep, GraphInv
<1> QED
  BY <1>1, <1>2, <1>3, <1>4, <1>5, <1>6 DEF Next

LEMMA GraphInvariant == Spec => []GraphInv
  BY InitInv, StepInv, PTL DEF Spec

\* The scripts keep the types of files, graph and worker (xml_processor.py,
\* neo4j_ingestor.py, embedding_worker.py).
THEOREM TypeCorrect == Spec => []TypeOK
  BY GraphInvariant, PTL DEF GraphInv

\* However many runs of the worker overlap, what all of them got past is embedded
\* with its current text, unless it is known to have been missed: skipped, broken
\* off, loaded again, or fetched while another run had an edition of it that was no
\* longer in the graph (run_sync of embedding_worker.py).
THEOREM SyncedStayCurrent == Spec => []SyncedAreCurrent
  BY GraphInvariant, PTL DEF GraphInv

\* The chunks of a section begin with all of one text; older ones come after
\* it (insert_nodes with ids by number, embedding_worker.py).
THEOREM TailsOnly == Spec => []OnlyTailsAreOld
  BY GraphInvariant, PTL DEF GraphInv

-----------------------------------------------------------------------------
(* The copies lag *)

\* No step but these two changes the files or what the graph has of them.
LEMMA OnlyMerges ==
    [Next]_vars =>
        \/ UNCHANGED <<corpus, content>>
        \/ \E s \in Sections : Publish(s)
        \/ \E l \in Loads, s \in Sections : MergeNode(l, s)
  BY DEF Next, vars, ParseXml, Load, StartLoad, StartEdges, ReadNodesOn, ReadEdgesOn, EndLoad,
         LoadDies, MergeEdge, Batches, InsertBatch, RateLimited, SkipBatch, SyncDies, Fetch, neo4j

\* What was mixed up once counts as such for good.
LEMMA MixedGrows == [Next]_vars => mixed \subseteq mixed'
  BY DEF Next, vars, Publish, ParseXml, Load, StartLoad, StartEdges, ReadNodesOn, ReadEdgesOn,
         EndLoad, LoadDies, MergeNode, MergeEdge, Batches, InsertBatch, RateLimited, SkipBatch,
         SyncDies, Fetch, history

\* A row brings an edition that is at least as new as the one in the graph.
LEMMA StepText == GraphInv /\ [Next]_vars => TextCopy!Next
<1> SUFFICES ASSUME GraphInv, [Next]_vars PROVE TextCopy!Next
  OBVIOUS
<1>1. mixed \subseteq mixed'
  BY MixedGrows
<1>2. \A s \in Sections : /\ corpus'[s] >= corpus[s]
                          /\ s \notin mixed' => Edition(content'[s]) >= Edition(content[s])
                          /\ Edition(content'[s]) <= corpus[s]
  <2> TAKE s \in Sections
  <2>1. Edition(content[s]) \in Nat /\ corpus[s] \in Nat /\ Edition(content[s]) <= corpus[s]
    BY SectionsTyped, EditionsTyped DEF GraphInv, Texts, Known
  <2>2. CASE UNCHANGED <<corpus, content>>
    BY <2>1, <2>2
  <2>3. ASSUME NEW t \in Sections, Publish(t)
        PROVE  /\ corpus'[s] >= corpus[s] /\ UNCHANGED content
    BY <2>1, <2>3 DEF Publish, neo4j, GraphInv, TypeOK
  <2>4. ASSUME NEW l \in Loads, NEW t \in Sections, MergeNode(l, t)
        PROVE  /\ UNCHANGED corpus /\ content'[s] \in {content[s], toMerge[l][s]}
               /\ content'[s] # content[s] => toMerge[l][s] # 0
    BY <2>4 DEF MergeNode, GraphInv, TypeOK
  <2>5. \A l \in Loads : /\ Edition(toMerge[l][s]) <= corpus[s]
                         /\ s \notin mixed' /\ toMerge[l][s] # 0 =>
                                Edition(content[s]) <= Edition(toMerge[l][s])
    BY <1>1 DEF GraphInv, Texts, Known, Ordered, OrderedAt
  <2>6. \A l \in Loads : Edition(toMerge[l][s]) \in Nat
    BY EditionsTyped DEF GraphInv
  <2>7. ASSUME NEW l \in Loads, NEW t \in Sections, MergeNode(l, t)
        PROVE  /\ corpus'[s] >= corpus[s]
               /\ s \notin mixed' => Edition(content'[s]) >= Edition(content[s])
               /\ Edition(content'[s]) <= corpus[s]
    <3>1. CASE content'[s] = content[s]
      BY <2>1, <2>4, <2>7, <3>1
    <3>2. CASE content'[s] # content[s]
      <4>1. content'[s] = toMerge[l][s] /\ toMerge[l][s] # 0 /\ UNCHANGED corpus
        BY <2>4, <2>7, <3>2
      <4> QED
        BY <2>1, <2>5, <2>6, <4>1
    <3> QED
      BY <3>1, <3>2
  <2> QED
    BY <2>1, <2>2, <2>3, <2>7, OnlyMerges
<1> QED
  BY <1>1, <1>2 DEF TextCopy!Next, TextCopy!SourceGoesOn, TextCopy!CopyFollows

\* A chunk is replaced by one of a text that is at least as new, and no newer than
\* the edition in the graph.
LEMMA StepChunks == GraphInv /\ [Next]_vars => ChunkCopy!Next
<1> SUFFICES ASSUME GraphInv, [Next]_vars PROVE ChunkCopy!Next
  OBVIOUS
<1>1. mixed \subseteq mixed'
  BY MixedGrows
<1>2. \A s \in Sections \ mixed' : Edition(content'[s]) >= Edition(content[s])
  BY StepText DEF TextCopy!Next, TextCopy!CopyFollows
<1>3. \A s \in Sections \ mixed', i \in 1..MaxPieces :
          chunks'[s][i] >= chunks[s][i] /\ chunks'[s][i] <= Edition(content[s])
  <2> TAKE s \in Sections \ mixed', i \in 1..MaxPieces
  <2>1. OrderedAt(s) /\ chunks[s][i] \in Nat
    BY <1>1, SectionsTyped DEF GraphInv, Ordered
  <2>2. CASE UNCHANGED chunks
    BY <2>1, <2>2 DEF OrderedAt
  <2>3. ASSUME NEW r \in Runs, InsertBatch(r)
        PROVE  chunks'[s][i] >= chunks[s][i] /\ chunks'[s][i] <= Edition(content[s])
    <3>1. chunks'[s][i] = IF s \in batch[r] /\ i <= Pieces[s][pending[r][s]]
                          THEN pending[r][s] ELSE chunks[s][i]
      BY <2>3 DEF InsertBatch, Insert
    <3>2. s \in batch[r] => pending[r][s] > 0
      BY DEF GraphInv, Records, Unsynced
    <3> QED
      BY <2>1, <3>1, <3>2 DEF OrderedAt
  <2>4. UNCHANGED chunks \/ \E r \in Runs : InsertBatch(r)
    BY DEF Next, vars, Publish, ParseXml, Load, StartLoad, StartEdges, ReadNodesOn, ReadEdgesOn,
           EndLoad, LoadDies, MergeNode, MergeEdge, Batches, RateLimited, SkipBatch, SyncDies,
           Fetch, neo4j
  <2> QED
    BY <2>2, <2>3, <2>4
<1>4. mixed \X (1..MaxPieces) \subseteq mixed' \X (1..MaxPieces)
  BY <1>1
<1>5. \A k \in (Sections \X (1..MaxPieces)) \ (mixed' \X (1..MaxPieces)) :
          k[1] \in Sections \ mixed' /\ k[2] \in 1..MaxPieces
  OBVIOUS
<1>6. ChunkCopy!SourceGoesOn
  BY <1>2, <1>5 DEF ChunkCopy!SourceGoesOn
<1>7. ChunkCopy!CopyFollows
  BY <1>3, <1>5 DEF ChunkCopy!CopyFollows
<1> QED
  BY <1>4, <1>6, <1>7 DEF ChunkCopy!Next

\* However the scripts and runs of the worker overlap, the graph follows the files
\* and the chunks the graph, and neither goes back, but for sections of which two of
\* them had different editions under way at the same time (CopiesLag).
THEOREM TextsNeverGoBack == Spec => CopiesLag
<1>1. Init => TextCopy!Init
  BY DEF Init, None, TextCopy!Init, Edition
<1>2. Init => ChunkCopy!Init
  <2> SUFFICES ASSUME Init PROVE ChunkCopy!Init
    OBVIOUS
  <2>1. mixed \X (1..MaxPieces) = {}
    BY DEF Init
  <2> QED
    BY <2>1 DEF Init, None, ChunkCopy!Init, Edition
<1> QED
  BY <1>1, <1>2, GraphInvariant, StepText, StepChunks, PTL
     DEF Spec, CopiesLag, TextCopy!Spec, ChunkCopy!Spec

-----------------------------------------------------------------------------
(* Requests *)

\* A request changes nothing of the graph's making.
LEMMA RagStepIsStep == [RagNext]_<<vars, step, found>> => [Next]_vars
  BY DEF RagNext, Answer!Next, Answer!graph, vars, xmlFiles, load, worker, history

LEMMA RagInvariant == RagSpec => []GraphInv
<1>1. RagInit => Init
  BY DEF RagInit
<1> QED
  BY <1>1, InitInv, StepInv, RagStepIsStep, PTL DEF RagSpec

\* With requests the graph is made as without them.
THEOREM RagImplementsSync == RagSpec => Spec
<1>1. RagInit => Init
  BY DEF RagInit
<1> QED
  BY <1>1, RagStepIsStep, PTL DEF RagSpec, Spec

\* The section that breaks an answer is the one asked for or one it refers to, and
\* has no text for one of two reasons: nobody loaded it and another refers to it, or
\* its last row had none (graph_retriever.py, neo4j_ingestor.py).
THEOREM OnlyTextlessBreakAnswers == RagSpec => ErrorsHaveCause
<1> DEFINE Cause == step' = "unreadable" /\ step # step' =>
                        \E s \in nodes :
                            /\ s = Root \/ <<Root, s>> \in edges
                            /\ \/ content[s] < 0
                               \/ content[s] = 0 /\ \E e \in edges : e[2] = s
<1>1. GraphInv /\ [RagNext]_<<vars, step, found>> => [Cause]_<<vars, step>>
  <2> SUFFICES ASSUME GraphInv, Answer!Next, step' = "unreadable", step # step'
               PROVE  Cause
    BY DEF RagNext
  <2>1. \A s \in nodes : ~Answer!Readable(s) =>
            content[s] < 0 \/ (content[s] = 0 /\ \E e \in edges : e[2] = s)
    <3> TAKE s \in nodes
    <3>1. content[s] \in Int /\ (content[s] = 0 => \E e \in edges : e[2] = s)
      BY DEF GraphInv, TypeOK, Stubs
    <3> QED
      BY <3>1 DEF Answer!Readable
  <2>2. CASE Answer!DirectFetch
    <3>1. Root \in nodes /\ ~Answer!Readable(Root)
      BY <2>2 DEF Answer!DirectFetch, Answer!Texts
    <3> QED
      BY <2>1, <3>1
  <2>3. CASE Answer!Expand
    <3>1. PICK e \in edges : e[1] = Root /\ ~Answer!Readable(e[2])
      BY <2>3 DEF Answer!Expand, Answer!Texts, Answer!Limited
    <3>2. e[2] \in nodes /\ e \in Sections \X Sections
      BY GraphAssumption DEF GraphInv, Stubs, TypeOK
    <3>3. <<Root, e[2]>> \in edges
      BY <3>1, <3>2
    <3> QED
      BY <2>1, <3>1, <3>2, <3>3
  <2> QED
    BY <2>2, <2>3 DEF Answer!Next, Answer!Ask, Answer!Route, Answer!Greet, Answer!Search,
                      Answer!Complete, Answer!CallRaises
<1> QED
  BY <1>1, RagInvariant, PTL DEF RagSpec, ErrorsHaveCause
===============================================================================
