------------------------- MODULE SourceGraphProofs -------------------------
(***************************************************************************)
(* Theorems about SourceGraph: whatever ingests, deletions and calls of    *)
(* GraphSync interleave over a source's files, and whatever the files      *)
(* contain.                                                                *)
(***************************************************************************)
EXTENDS SourceGraph, WellFoundedInduction, TLAPS, FiniteSetTheorems

-----------------------------------------------------------------------------
(* What the extractors of CodeRelations return.                            *)

LEMMA LinkParts ==
    ASSUME NEW from, NEW targets, NEW label, NEW l \in Links(from, targets, label)
    PROVE  l.source = from /\ l.target \in targets /\ l.label = label
  BY DEF Links

LEMMA ChainLabels ==
    ASSUME NEW batch, NEW l \in ChainLinks(batch)
    PROVE  l.label = "NEXT_CHUNK"
  BY LinkParts DEF ChainLinks

LEMMA ReferenceLabels ==
    ASSUME NEW code, NEW c, NEW l \in ReferenceLinks(code, c)
    PROVE  l.label \in {"CALLS", "INHERITS", "IMPORTS", "TYPE_REF", "INSTANTIATES", "DECORATES"}
  <1> DEFINE found == {"CALLS", "INHERITS", "IMPORTS", "TYPE_REF", "INSTANTIATES", "DECORATES"}
  <1>1. \E targets, label : l \in Links(c.id, targets, label) /\ label \in found
    BY DEF ReferenceLinks
  <1> QED
    BY <1>1, LinkParts

LEMMA CodeLabels ==
    ASSUME NEW batch, NEW l \in CodeLinks(batch)
    PROVE  l.label \in Labels
  <1> DEFINE code == RestrictValues(batch, IsCode)
  <1>1. PICK i \in DOMAIN code :
           \/ l \in ReferenceLinks(code, code[i]) \/ l \in ImplementsLinks(code, code[i])
           \/ l \in MethodLinks(code, code[i]) \/ l \in DefinedInLinks(code, code[i])
    BY Zenon DEF CodeLinks
  <1> HIDE DEF code
  <1>2. CASE l \in ReferenceLinks(code, code[i])
    BY <1>2, ReferenceLabels DEF Labels
  <1>3. CASE l \in ImplementsLinks(code, code[i])
    <2>1. l.label = "IMPLEMENTS"
      BY <1>3, LinkParts DEF ImplementsLinks
    <2> QED
      BY <2>1 DEF Labels
  <1>4. CASE l \in MethodLinks(code, code[i])
    <2>1. l.label = "CONTAINS_METHOD"
      BY <1>4, LinkParts DEF MethodLinks
    <2> QED
      BY <2>1 DEF Labels
  <1>5. CASE l \in DefinedInLinks(code, code[i])
    <2>1. l.label = "DEFINED_IN"
      BY <1>5, LinkParts DEF DefinedInLinks
    <2> QED
      BY <2>1 DEF Labels
  <1> QED
    BY <1>1, <1>2, <1>3, <1>4, <1>5

LEMMA QueriedLabels ==
    ASSUME NEW chunks, NEW graph, NEW l \in QueriedLinks(chunks, graph)
    PROVE  l.label \in {"CALLS", "TYPE_REF", "IMPORTS"}
  BY LinkParts DEF QueriedLinks

(* SymbolIndex relates chunks it was given, and says nothing of structure. *)
SymbolLabels == {"CALLS", "INSTANTIATES", "TYPE_REF", "IMPORTS", "INHERITS", "IMPLEMENTS",
                 "DECORATES", "REFERENCES"}

LEMMA UnambiguousChunk ==
    ASSUME NEW chunks, NEW n, NEW id,
           \/ id \in Unambiguous(chunks, FunctionDefs(chunks, n))
           \/ id \in Unambiguous(chunks, ClassDefs(chunks, n))
    PROVE  \E i \in DOMAIN chunks : id = chunks[i].id
  <1>1. \A d \in FunctionDefs(chunks, n) \cup ClassDefs(chunks, n) : d[1] \in DOMAIN chunks
    BY DEF FunctionDefs, ClassDefs
  <1>2. \E d \in FunctionDefs(chunks, n) \cup ClassDefs(chunks, n) : id = chunks[d[1]].id
    BY DEF Unambiguous
  <1> QED
    BY <1>1, <1>2

LEMMA SymbolLinksEnds ==
    ASSUME NEW chunks, NEW l \in SymbolLinks(chunks)
    PROVE  /\ \E i \in DOMAIN chunks : l.source = chunks[i].id
           /\ \E j \in DOMAIN chunks : l.target = chunks[j].id
           /\ l.label \in SymbolLabels
  <1>1. PICK i \in DOMAIN chunks : l \in ResolvedLinks(chunks, chunks[i])
    BY Zenon DEF SymbolLinks
  <1> DEFINE function(n) == Unambiguous(chunks, FunctionDefs(chunks, n))
             class(n) == Unambiguous(chunks, ClassDefs(chunks, n))
             modules(n) == ModuleChunks(chunks, n)
             decorator(n) == IF FunctionDefs(chunks, n) # {} THEN function(n) ELSE class(n)
  <1> DEFINE c == chunks[i]
  <1>2. \/ \E n, label : l \in Links(c.id, function(n), label) /\ label \in SymbolLabels
        \/ \E n, label : l \in Links(c.id, class(n), label) /\ label \in SymbolLabels
        \/ \E n, label : l \in Links(c.id, modules(n), label) /\ label \in SymbolLabels
        \/ \E n, label : l \in Links(c.id, decorator(n), label) /\ label \in SymbolLabels
    <2>1. /\ "CALLS" \in SymbolLabels /\ "INSTANTIATES" \in SymbolLabels
          /\ "TYPE_REF" \in SymbolLabels /\ "IMPORTS" \in SymbolLabels
          /\ "INHERITS" \in SymbolLabels /\ "IMPLEMENTS" \in SymbolLabels
          /\ "DECORATES" \in SymbolLabels /\ "REFERENCES" \in SymbolLabels
      BY DEF SymbolLabels
    <2> QED
      BY <1>1, <2>1 DEF ResolvedLinks
  <1>3. \A n, id : id \in function(n) \/ id \in class(n) \/ id \in decorator(n)
           => \E j \in DOMAIN chunks : id = chunks[j].id
    BY UnambiguousChunk
  <1>4. \A n, id : id \in modules(n) => \E j \in DOMAIN chunks : id = chunks[j].id
    BY DEF ModuleChunks
  <1> HIDE DEF function, class, modules, decorator
  <1> QED
    BY <1>2, <1>3, <1>4, LinkParts
-----------------------------------------------------------------------------
(* What is written for a batch, and what GraphSync writes.                 *)

(* The relationships of a batch join chunks of the batch, which are all of *)
(* one file.                                                               *)
LEMMA BatchLinksOfFile ==
    ASSUME NEW f \in Files, NEW v \in Versions[f], NEW graph,
           NEW l \in BatchLinks(Batch(f, v), graph)
    PROVE  /\ l \in Relationship
           /\ l.source \in KeysOf(Batch(f, v)) /\ l.target \in KeysOf(Batch(f, v))
           /\ l.source \in Keys /\ FileOf[l.source] = f
           /\ l.target \in Keys /\ FileOf[l.target] = f
  <1> DEFINE batch == Batch(f, v)
  <1>1. \A i \in DOMAIN batch : i \in DOMAIN v /\ batch[i] = v[i]
    BY DEF Batch, Restrict
  <1>2. \A i \in DOMAIN batch : /\ batch[i].id[1] = batch[i].key
                                /\ batch[i].key \in Keys /\ FileOf[batch[i].key] = f
    BY <1>1, SourceGraphAssumption
  <1> HIDE DEF batch
  <1>3. PICK m \in ChainLinks(batch) \cup CodeLinks(batch) \cup SymbolLinks(batch)
                     \cup QueriedLinks(batch, graph) :
           /\ m.source \in IdsOf(batch) /\ m.target \in IdsOf(batch)
           /\ l = [source |-> m.source[1], target |-> m.target[1], label |-> m.label]
    BY DEF BatchLinks, Ends, batch
  <1>4. m.label \in Labels
    BY <1>3, ChainLabels, CodeLabels, SymbolLinksEnds, QueriedLabels DEF Labels, SymbolLabels
  <1>5. PICK i \in DOMAIN batch, j \in DOMAIN batch : m.source = batch[i].id /\ m.target = batch[j].id
    BY <1>3 DEF IdsOf
  <1>6. l.source = batch[i].key /\ l.target = batch[j].key /\ l.label = m.label
    BY <1>2, <1>3, <1>5
  <1>7. l.source \in KeysOf(batch) /\ l.target \in KeysOf(batch)
    BY <1>6 DEF KeysOf
  <1>8. l \in Relationship
    BY <1>2, <1>3, <1>4, <1>5, <1>6 DEF Relationship, Places
  <1> QED
    BY <1>2, <1>6, <1>7, <1>8 DEF batch

(* A nonempty set of positions has a last one. *)
LEMMA LastIndexOf ==
    ASSUME NEW n \in Nat, NEW S \in SUBSET (1 .. n), S # {}
    PROVE  (CHOOSE i \in S : \A j \in S : j <= i) \in S
  <1> DEFINE T == {m \in Nat : \E k \in S : m = n - k}
  <1>1. \A k \in S : n - k \in T
    OBVIOUS
  <1>2. T \subseteq Nat /\ T # {}
    BY <1>1
  <1>3. \A m \in T : \E k \in S : m = n - k
    OBVIOUS
  <1> HIDE DEF T
  <1>4. PICK x \in T : \A y \in T : ~(<<y, x>> \in OpToRel(<, Nat))
    BY <1>2, WFMin, NatLessThanWellFounded, Zenon
  <1>5. \A y \in T : ~(y < x)
    BY <1>2, <1>4 DEF OpToRel
  <1>6. PICK k \in S : x = n - k
    BY <1>3
  <1>7. \A j \in S : ~(n - j < n - k)
    BY <1>1, <1>5, <1>6
  <1>8. \A j \in S : j <= k
    BY <1>7
  <1> QED
    BY <1>8

(* Of some rows, one comes last. *)
LEMMA LastRow ==
    ASSUME NEW rank \in RowOrders, NEW S \in SUBSET Keys, S # {}
    PROVE  \E k \in S : \A l \in S : rank[l] <= rank[k]
  <1>1. Cardinality(Keys) \in Nat
    BY SourceGraphAssumption, FS_CardinalityType
  <1> DEFINE N == Cardinality(Keys)
  <1>2. \A k \in Keys : rank[k] \in 1 .. N
    BY SourceGraphAssumption DEF Injection
  <1> HIDE DEF N
  <1> DEFINE T == {m \in Nat : \E k \in S : m = N - rank[k]}
  <1>3. \A k \in S : N - rank[k] \in T
    BY <1>1, <1>2 DEF N
  <1>4. T \subseteq Nat /\ T # {}
    BY <1>3
  <1>5. \A m \in T : \E k \in S : m = N - rank[k]
    OBVIOUS
  <1> HIDE DEF T
  <1>6. PICK x \in T : \A y \in T : ~(<<y, x>> \in OpToRel(<, Nat))
    BY <1>4, WFMin, NatLessThanWellFounded, Zenon
  <1>7. \A y \in T : ~(y < x)
    BY <1>4, <1>6 DEF OpToRel
  <1>8. PICK k \in S : x = N - rank[k]
    BY <1>5
  <1>9. \A l \in S : ~(N - rank[l] < N - rank[k])
    BY <1>3, <1>7, <1>8
  <1> QED
    BY <1>1, <1>2, <1>9 DEF N

(* What the id of a chunk that GraphSync read stands for. *)
LEMMA CompositeRead ==
    ASSUME NEW rank \in RowOrders, NEW k \in Stored
    PROVE  /\ typed => Composite(rank, ChunkId(k)) = Blank
           /\ ~typed => /\ Composite(rank, ChunkId(k)) \in Stored
                        /\ ~uuid => Composite(rank, ChunkId(k)) = k
                        /\ uuid => Composite(rank, ChunkId(k)) = Composite(rank, SourceId)
  <1> DEFINE same == {l \in Stored : ChunkId(l) = ChunkId(k)}
  <1>1. \E l \in same : \A m \in same : rank[m] <= rank[l]
    BY LastRow DEF Stored
  <1>2. ~typed => /\ Composite(rank, ChunkId(k)) \in Stored
                  /\ ChunkId(Composite(rank, ChunkId(k))) = ChunkId(k)
    BY <1>1 DEF Composite
  <1>3. typed => Composite(rank, ChunkId(k)) = Blank
    BY DEF Composite
  <1>4. ~typed /\ uuid => ChunkId(k) = SourceId
    BY DEF ChunkId
  <1>5. ~typed /\ ~uuid => \A l : ChunkId(l) = l
    BY DEF ChunkId
  <1> QED
    BY <1>2, <1>3, <1>4, <1>5

Structure == {"NEXT_CHUNK", "PARENT_OF", "DEFINED_IN"}

(* What GraphSync writes joins two chunks it read; the edges of structure  *)
(* join two that it takes for chunks of one file.                          *)
LEMMA SyncLinkEnds ==
    ASSUME NEW rank, NEW e \in SyncLinks(rank)
    PROVE  \E k, m \in Stored :
              /\ e = [source |-> Composite(rank, ChunkId(k)),
                      target |-> Composite(rank, ChunkId(m)), label |-> e.label]
              /\ e.label \in Labels
              /\ e.label \in Structure => FileSeen(k) = FileSeen(m)
  <1> DEFINE rows(k, ls, label) ==
                {[source |-> ChunkId(k), target |-> ChunkId(l), label |-> label] : l \in ls}
             next == UNION {rows(k, NextRow(rank, k), "NEXT_CHUNK") : k \in Stored}
             parent == UNION {rows(k, RowsAfter(rank, k), "PARENT_OF") : k \in FirstRows(rank)}
  <1>1. PICK r \in SymbolLinks(SyncChunks) \cup next \cup parent :
           e = [source |-> Composite(rank, r.source), target |-> Composite(rank, r.target),
                label |-> r.label]
    BY DEF SyncLinks
  <1>2. e.label = r.label
    BY <1>1
  <1>3. \E k, m \in Stored : /\ r.source = ChunkId(k) /\ r.target = ChunkId(m)
                             /\ r.label \in Labels
                             /\ r.label \in Structure => FileSeen(k) = FileSeen(m)
    <2>1. CASE r \in SymbolLinks(SyncChunks)
      <3>1. DOMAIN SyncChunks = Stored /\ \A k \in Stored : SyncChunks[k].id = ChunkId(k)
        BY DEF SyncChunks
      <3>2. r.label \in Labels /\ r.label \notin Structure
        BY <2>1, SymbolLinksEnds DEF SymbolLabels, Labels, Structure
      <3> QED
        BY <2>1, <3>1, <3>2, SymbolLinksEnds
    <2>2. CASE r \in next
      <3>1. PICK k \in Stored : \E m \in NextRow(rank, k) :
               r = [source |-> ChunkId(k), target |-> ChunkId(m), label |-> "NEXT_CHUNK"]
        BY <2>2
      <3>2. \A m \in NextRow(rank, k) : m \in Stored /\ FileSeen(m) = FileSeen(k)
        BY DEF NextRow, RowsAfter
      <3> QED
        BY <3>1, <3>2 DEF Labels
    <2>3. CASE r \in parent
      <3>1. PICK k \in FirstRows(rank) : \E m \in RowsAfter(rank, k) :
               r = [source |-> ChunkId(k), target |-> ChunkId(m), label |-> "PARENT_OF"]
        BY <2>3
      <3>2. \A m \in RowsAfter(rank, k) : m \in Stored /\ FileSeen(m) = FileSeen(k)
        BY DEF RowsAfter
      <3> QED
        BY <3>1, <3>2 DEF Labels, FirstRows
    <2> HIDE DEF next, parent
    <2> QED
      BY <1>1, <2>1, <2>2, <2>3
  <1> QED
    BY <1>1, <1>2, <1>3
-----------------------------------------------------------------------------
(* The actions, by what they leave in the graph.                           *)

(* What is stored for a batch: a chunk of the batch under each of its keys. *)
LEMMA StoredBatch ==
    ASSUME NEW f \in Files, NEW v \in Versions[f], NEW graph, NEW k \in DOMAIN graph
    PROVE  LET batch == Batch(f, v)
           IN  /\ k \notin KeysOf(batch) => StoredIn(graph, batch)[k] = graph[k]
               /\ k \in KeysOf(batch) =>
                     \E i \in DOMAIN v : /\ v[i].key = k
                                         /\ StoredIn(graph, batch)[k] = NodeOf(v[i])
  <1> DEFINE batch == Batch(f, v)
             at == {i \in DOMAIN batch : batch[i].key = k}
             last == CHOOSE i \in at : \A j \in at : j <= i
  <1>1. \A i \in DOMAIN batch : i \in DOMAIN v /\ batch[i] = v[i]
    BY DEF Batch, Restrict
  <1>2. Len(v) \in Nat /\ DOMAIN v = 1 .. Len(v)
    BY SourceGraphAssumption
  <1>3. StoredIn(graph, batch)[k] = IF at = {} THEN graph[k] ELSE NodeOf(batch[last])
    BY DEF StoredIn
  <1>4. at \subseteq 1 .. Len(v)
    BY <1>1, <1>2
  <1>5. at # {} => last \in at
    <2> HIDE DEF at
    <2> QED
      BY <1>2, <1>4, LastIndexOf
  <1>6. (k \in KeysOf(batch)) <=> at # {}
    BY DEF KeysOf
  <1> HIDE DEF batch, last
  <1> QED
    BY <1>1, <1>3, <1>5, <1>6 DEF batch

(* Every relationship that is due joins places of the graph. *)
LEMMA DueTyped ==
    ASSUME TypeOK
    PROVE  Due \subseteq Relationship /\ Ends(Due) \subseteq Places
  BY DEF TypeOK, Due, Ends, Relationship

(* store_relationship for a link that is due. *)
Writes(link) == WriteLink(link) \/ WriteFails

LEMMA WriteEffect ==
    ASSUME TypeOK, NEW link \in Due, Writes(link)
    PROVE  /\ DOMAIN nodes' = Places
           /\ \A k \in Places : \/ nodes'[k] = nodes[k]
                                \/ nodes[k] = None /\ nodes'[k] = Bare /\ k \in Ends(Due)
           /\ Stored' = Stored
           /\ edges' = edges \/ edges' = edges \cup {link}
           /\ edges' \in SUBSET Relationship
           /\ fresh' => edges' = edges \cup {link} /\ fresh
  <1>1. Ends({link}) \subseteq Ends(Due) /\ link \in Relationship
    BY DueTyped DEF Ends
  <1>2. /\ DOMAIN nodes' = Places
        /\ \A k \in Places : \/ nodes'[k] = nodes[k]
                             \/ nodes[k] = None /\ nodes'[k] = Bare /\ k \in Ends(Due)
    BY <1>1 DEF Writes, WriteLink, WriteFails, graphVars, TypeOK
  <1>3. Stored' = Stored
    BY <1>2 DEF Stored, HasContent, Places
  <1> QED
    BY <1>1, <1>2, <1>3 DEF Writes, WriteLink, WriteFails, graphVars, TypeOK

(* The two actions that write take a due link off their list. *)
LEMMA WriteSteps ==
    ASSUME TypeOK
    PROVE  /\ \A f \in Files : StoreRelationship(f) =>
                 \E link \in relating[f] :
                    /\ Writes(link) /\ link \in Due
                    /\ relating' = [relating EXCEPT ![f] = @ \ {link}]
                    /\ UNCHANGED <<settings, indexVars, syncing, events, syncs, adrift>>
           /\ SyncWrite =>
                 \E link \in syncing :
                    /\ Writes(link) /\ link \in Due
                    /\ syncing' = syncing \ {link}
                    /\ UNCHANGED <<settings, indexVars, relating, events, syncs, adrift>>
  <1>1. \A f \in Files : relating[f] \subseteq Due
    BY DEF Due
  <1>2. syncing \subseteq Due
    BY DEF Due
  <1>3. \A f \in Files : relating[f] # {} => (CHOOSE l \in relating[f] : TRUE) \in relating[f]
    OBVIOUS
  <1>4. syncing # {} => (CHOOSE l \in syncing : TRUE) \in syncing
    OBVIOUS
  <1> QED
    BY <1>1, <1>2, <1>3, <1>4 DEF StoreRelationship, SyncWrite, Writes

-----------------------------------------------------------------------------
(* Type correctness.                                                       *)

LEMMA ContentsTyped ==
    ASSUME TypeOK, NEW f \in Files, NEW v \in Versions[f], NEW keys \in SUBSET Keys,
           nodes' = StoredIn(Deleted(keys), Batch(f, v))
    PROVE  /\ DOMAIN nodes' = Places
           /\ \A k \in Keys : HasContent(k)' =>
                 \E w \in Versions[FileOf[k]] : nodes'[k].content \in IdsOf(w)
  <1>1. DOMAIN nodes = Places
    BY DEF TypeOK
  <1>2. DOMAIN Deleted(keys) = Places
    BY <1>1 DEF Deleted
  <1>3. DOMAIN nodes' = Places
    BY <1>2 DEF StoredIn
  <1>4. ASSUME NEW k \in Keys, HasContent(k)'
        PROVE  \E w \in Versions[FileOf[k]] : nodes'[k].content \in IdsOf(w)
    <2>1. k \in Places
      BY DEF Places
    <2>2. CASE nodes'[k] = Deleted(keys)[k]
      <3>1. nodes'[k] = None \/ nodes'[k] = nodes[k]
        BY <1>1, <2>1, <2>2 DEF Deleted
      <3> QED
        BY <1>4, <3>1 DEF TypeOK, HasContent
    <2>3. ASSUME NEW i \in DOMAIN v, v[i].key = k, nodes'[k] = NodeOf(v[i])
          PROVE  \E w \in Versions[FileOf[k]] : nodes'[k].content \in IdsOf(w)
      <3>1. FileOf[k] = f
        BY <2>3, SourceGraphAssumption
      <3>2. nodes'[k].content = v[i].id
        BY <2>3 DEF NodeOf
      <3> QED
        BY <3>1, <3>2 DEF IdsOf
    <2> QED
      BY <1>2, <2>1, <2>2, <2>3, StoredBatch
  <1> QED
    BY <1>3, <1>4

LEMMA SyncLinksTyped ==
    ASSUME NEW rank \in RowOrders, NEW e \in SyncLinks(rank)
    PROVE  e \in Relationship
  <1>1. PICK k \in Stored, m \in Stored :
           /\ e = [source |-> Composite(rank, ChunkId(k)),
                   target |-> Composite(rank, ChunkId(m)), label |-> e.label]
           /\ e.label \in Labels
    BY SyncLinkEnds
  <1>2. Composite(rank, ChunkId(k)) \in Places /\ Composite(rank, ChunkId(m)) \in Places
    BY CompositeRead DEF Places, Stored
  <1> DEFINE s == Composite(rank, ChunkId(k))
             g == Composite(rank, ChunkId(m))
  <1> HIDE DEF s, g
  <1>3. e = [source |-> s, target |-> g, label |-> e.label]
    BY Zenon, <1>1 DEF s, g
  <1>4. [source |-> s, target |-> g, label |-> e.label] \in Relationship
    BY <1>1, <1>2 DEF Relationship, s, g
  <1> QED
    BY Zenon, <1>3, <1>4

LEMMA InitTypeOK == Init => TypeOK
  <1> SUFFICES ASSUME Init PROVE TypeOK
    OBVIOUS
  <1>1. typed \in BOOLEAN /\ uuid \in BOOLEAN
    BY SourceGraphAssumption DEF Init
  <1>2. DOMAIN recorded = Files /\ \A f \in Files : recorded[f] = {}
    BY DEF Init
  <1>3. IdsOf(<<>>) = {}
    BY DEF IdsOf
  <1>4. \A f \in Files : \E v \in Versions[f] \cup {<<>>} : recorded[f] = IdsOf(v)
    BY <1>2, <1>3
  <1>5. DOMAIN nodes = Places /\ \A k \in Keys : ~HasContent(k)
    BY DEF Init, HasContent, Places
  <1>6. /\ known \in [Files -> SUBSET Keys]
        /\ relating \in [Files -> SUBSET Relationship]
        /\ edges = {} /\ syncing = {} /\ adrift = {}
    BY DEF Init
  <1> QED
    BY <1>1, <1>2, <1>4, <1>5, <1>6 DEF TypeOK

LEMMA NextTypeOK == TypeOK /\ [Next]_vars => TypeOK'
  <1> SUFFICES ASSUME TypeOK, [Next]_vars PROVE TypeOK'
    OBVIOUS
  <1>1. ASSUME NEW f \in Files, NEW v \in Versions[f], ProcessFile(f, v) PROVE TypeOK'
    <2> DEFINE gone == known[f] \ KeysOf(v)
    <2>1. gone \in SUBSET Keys /\ KeysOf(v) \subseteq Keys
      BY SourceGraphAssumption DEF TypeOK, KeysOf
    <2>2. /\ DOMAIN nodes' = Places
          /\ \A k \in Keys : HasContent(k)' =>
                \E w \in Versions[FileOf[k]] : nodes'[k].content \in IdsOf(w)
      BY <1>1, <2>1, ContentsTyped DEF ProcessFile
    <2>3. BatchLinks(Batch(f, v), nodes') \in SUBSET Relationship
      BY BatchLinksOfFile
    <2>4. /\ relating' \in [Files -> SUBSET Relationship]
          /\ known' \in [Files -> SUBSET Keys]
          /\ adrift' \in SUBSET Places
      BY <1>1, <2>1, <2>3 DEF ProcessFile, TypeOK, CutAdrift, Places
    <2>5. /\ DOMAIN recorded' = Files
          /\ \A g \in Files : \E w \in Versions[g] \cup {<<>>} : recorded'[g] = IdsOf(w)
      BY <1>1 DEF ProcessFile, TypeOK
    <2>6. edges' \in SUBSET Relationship /\ UNCHANGED <<typed, uuid, syncing>>
      BY <1>1 DEF ProcessFile, TypeOK, Detached, settings
    <2> QED
      BY <2>2, <2>4, <2>5, <2>6 DEF TypeOK
  <1>2. ASSUME NEW f \in Files, DeleteFile(f) PROVE TypeOK'
    <2> DEFINE gone == {k \in Stored : FileOf[k] = f}
    <2>1. DOMAIN nodes' = Places /\ \A k \in Places : nodes'[k] = nodes[k] \/ nodes'[k] = None
      BY <1>2 DEF DeleteFile, Deleted, TypeOK
    <2>2. \A k \in Keys : HasContent(k)' => HasContent(k) /\ nodes'[k] = nodes[k]
      BY <2>1 DEF HasContent, Places
    <2>3. adrift' \in SUBSET Places
      BY <1>2 DEF DeleteFile, CutAdrift, Stored, TypeOK, Places
    <2>4. edges' \in SUBSET Relationship
      BY <1>2 DEF DeleteFile, Detached, TypeOK
    <2>5. UNCHANGED <<typed, uuid, recorded, known, relating, syncing>>
      BY <1>2 DEF DeleteFile, settings, indexVars
    <2> QED
      BY <2>1, <2>2, <2>3, <2>4, <2>5 DEF TypeOK
  <1>3. ASSUME NEW link \in Due, Writes(link), UNCHANGED <<settings, indexVars, adrift>>,
               relating' \in [Files -> SUBSET Relationship], syncing' \in SUBSET Relationship
        PROVE  TypeOK'
    <2>1. \A k \in Keys : HasContent(k)' => HasContent(k) /\ nodes'[k] = nodes[k]
      BY <1>3, WriteEffect DEF HasContent, Places
    <2>2. DOMAIN nodes' = Places /\ edges' \in SUBSET Relationship
      BY <1>3, WriteEffect
    <2> QED
      BY <1>3, <2>1, <2>2 DEF TypeOK, settings, indexVars
  <1>4. ASSUME NEW f \in Files, StoreRelationship(f) PROVE TypeOK'
    <2>1. PICK link \in relating[f] :
             /\ Writes(link) /\ link \in Due
             /\ relating' = [relating EXCEPT ![f] = @ \ {link}]
             /\ UNCHANGED <<settings, indexVars, syncing, events, syncs, adrift>>
      BY <1>4, WriteSteps
    <2>2. relating' \in [Files -> SUBSET Relationship] /\ syncing' \in SUBSET Relationship
      BY <2>1 DEF TypeOK
    <2> QED
      BY <1>3, <2>1, <2>2
  <1>5. ASSUME SyncWrite PROVE TypeOK'
    <2>1. PICK link \in syncing :
             /\ Writes(link) /\ link \in Due
             /\ syncing' = syncing \ {link}
             /\ UNCHANGED <<settings, indexVars, relating, events, syncs, adrift>>
      BY <1>5, WriteSteps
    <2>2. relating' \in [Files -> SUBSET Relationship] /\ syncing' \in SUBSET Relationship
      BY <2>1 DEF TypeOK
    <2> QED
      BY <1>3, <2>1, <2>2
  <1>6. CASE SyncRead
    <2>1. syncing' \in SUBSET Relationship
      BY <1>6, SyncLinksTyped DEF SyncRead, TypeOK
    <2>2. UNCHANGED <<settings, indexVars, graphVars, relating, adrift>>
      BY <1>6 DEF SyncRead
    <2> QED
      BY <2>1, <2>2 DEF TypeOK, HasContent, settings, indexVars, graphVars
  <1>7. CASE UNCHANGED vars
    BY <1>7 DEF vars, settings, indexVars, graphVars, TypeOK, HasContent
  <1> QED
    BY <1>1, <1>2, <1>4, <1>5, <1>6, <1>7 DEF Next

(* Every relationship written or due joins places of the graph and has a   *)
(* label of the schema, and every node with content holds a chunk of a     *)
(* version of its own file.                                                *)
THEOREM SpecTypeOK == Spec => []TypeOK
  BY InitTypeOK, NextTypeOK, PTL DEF Spec
-----------------------------------------------------------------------------
(* The edges of a file's structure stay within the file: those in the      *)
(* graph and, for the invariant, those that are still to be written.       *)

WithinFile(e) ==
    (e.label \in Structure /\ Ends({e}) \subseteq Keys) => FileOf[e.source] = FileOf[e.target]

StructureInv == TypeOK /\ \A e \in edges \cup Due : WithinFile(e)

LEMMA SyncLinksWithinFile ==
    ASSUME NEW rank \in RowOrders, NEW e \in SyncLinks(rank)
    PROVE  WithinFile(e)
  <1>1. PICK k \in Stored, m \in Stored :
           /\ e = [source |-> Composite(rank, ChunkId(k)),
                   target |-> Composite(rank, ChunkId(m)), label |-> e.label]
           /\ e.label \in Structure => FileSeen(k) = FileSeen(m)
    BY SyncLinkEnds
  <1>2. e.source = Composite(rank, ChunkId(k)) /\ e.target = Composite(rank, ChunkId(m))
    BY <1>1
  <1>3. CASE typed
    <2>1. e.source = Blank
      BY <1>2, <1>3, CompositeRead
    <2> QED
      BY <2>1, SourceGraphAssumption DEF WithinFile, Ends
  <1>4. CASE ~typed /\ uuid
    <2>1. e.source = e.target
      BY <1>2, <1>4, CompositeRead
    <2> QED
      BY <2>1 DEF WithinFile
  <1>5. CASE ~typed /\ ~uuid
    <2>1. e.source = k /\ e.target = m
      BY <1>2, <1>5, CompositeRead
    <2> QED
      BY <1>1, <1>5, <2>1 DEF WithinFile, FileSeen
  <1> QED
    BY <1>3, <1>4, <1>5

LEMMA NextStructureInv == StructureInv /\ [Next]_vars => StructureInv'
  <1> SUFFICES ASSUME StructureInv, [Next]_vars PROVE StructureInv'
    OBVIOUS
  <1>1. TypeOK /\ TypeOK'
    BY NextTypeOK DEF StructureInv
  <1>2. ASSUME NEW e \in edges' \cup Due' PROVE WithinFile(e)
    <2>1. ASSUME e \in edges \cup Due PROVE WithinFile(e)
      BY <2>1 DEF StructureInv
    <2>2. ASSUME NEW f \in Files, NEW v \in Versions[f], ProcessFile(f, v) PROVE WithinFile(e)
      <3>1. edges' \subseteq edges
        BY <2>2 DEF ProcessFile, Detached
      <3>2. /\ relating' = [relating EXCEPT ![f] = BatchLinks(Batch(f, v), nodes')]
            /\ syncing' = syncing
        BY <2>2 DEF ProcessFile
      <3>3. Due' \subseteq Due \cup BatchLinks(Batch(f, v), nodes')
        BY <1>1, <3>2 DEF Due, TypeOK
      <3>4. e \in BatchLinks(Batch(f, v), nodes') => WithinFile(e)
        BY BatchLinksOfFile DEF WithinFile
      <3> QED
        BY <1>2, <2>1, <3>1, <3>3, <3>4
    <2>3. ASSUME NEW f \in Files, DeleteFile(f) PROVE WithinFile(e)
      BY <1>2, <2>1, <2>3 DEF DeleteFile, Detached, Due
    <2>4. ASSUME NEW f \in Files, StoreRelationship(f) PROVE WithinFile(e)
      <3>1. PICK link \in relating[f] :
               /\ Writes(link) /\ link \in Due
               /\ relating' = [relating EXCEPT ![f] = @ \ {link}]
               /\ UNCHANGED <<settings, indexVars, syncing, events, syncs, adrift>>
        BY <1>1, <2>4, WriteSteps
      <3>2. Due' \subseteq Due
        BY <1>1, <3>1 DEF Due, TypeOK
      <3>3. edges' \subseteq edges \cup Due
        BY <1>1, <3>1, WriteEffect
      <3> QED
        BY <1>2, <2>1, <3>2, <3>3
    <2>5. CASE SyncWrite
      <3>1. PICK link \in syncing :
               /\ Writes(link) /\ link \in Due
               /\ syncing' = syncing \ {link}
               /\ UNCHANGED <<settings, indexVars, relating, events, syncs, adrift>>
        BY <1>1, <2>5, WriteSteps
      <3>2. Due' \subseteq Due
        BY <3>1 DEF Due
      <3>3. edges' \subseteq edges \cup Due
        BY <1>1, <3>1, WriteEffect
      <3> QED
        BY <1>2, <2>1, <3>2, <3>3
    <2>6. CASE SyncRead
      <3>1. \/ syncing' = syncing
            \/ \E rank \in RowOrders : syncing' = SyncLinks(rank)
        BY <2>6 DEF SyncRead
      <3>2. edges' = edges /\ relating' = relating
        BY <2>6 DEF SyncRead, graphVars
      <3>3. e \in syncing' => e \in Due \/ WithinFile(e)
        BY <3>1, SyncLinksWithinFile DEF Due
      <3>4. e \in edges \cup Due \cup syncing'
        BY <1>2, <3>2 DEF Due
      <3> QED
        BY <2>1, <3>3, <3>4
    <2>7. CASE UNCHANGED vars
      BY <1>2, <2>1, <2>7 DEF vars, graphVars, Due
    <2> QED
      BY <2>2, <2>3, <2>4, <2>5, <2>6, <2>7 DEF Next
  <1> QED
    BY <1>1, <1>2 DEF StructureInv, WithinFile, Ends

(* No edge of a file's structure joins chunks of two files, whatever       *)
(* ingests, deletions and calls of GraphSync interleave: GraphSync groups  *)
(* the rows it reads by the file their id names, and when it cannot read   *)
(* the ids it relates no chunk at all.                                     *)
THEOREM SpecStructureWithinFile == Spec => []StructureWithinFile
  <1>1. Init => StructureInv
    BY InitTypeOK DEF Init, StructureInv, Due
  <1>2. StructureInv => StructureWithinFile
    BY DEF StructureInv, StructureWithinFile, WithinFile, Structure
  <1> QED
    BY <1>1, <1>2, NextStructureInv, PTL DEF Spec

-----------------------------------------------------------------------------
(* A relationship that is due has its ends in the graph, unless they were  *)
(* deleted while it waited.                                                *)

EndsInv ==
    /\ TypeOK
    /\ ~typed =>
          /\ \A k \in Places : nodes[k] = Bare => k \in adrift
          /\ \A k \in Ends(Due) : nodes[k] # None \/ k \in adrift

LEMMA SettingsKept ==
    ASSUME [Next]_vars
    PROVE  typed' = typed /\ uuid' = uuid
  <1>1. ASSUME NEW f \in Files, StoreRelationship(f) \/ DeleteFile(f) PROVE UNCHANGED settings
    BY <1>1 DEF StoreRelationship, DeleteFile
  <1>2. ASSUME NEW f \in Files, NEW v, ProcessFile(f, v) PROVE UNCHANGED settings
    BY <1>2 DEF ProcessFile
  <1>3. SyncRead \/ SyncWrite \/ UNCHANGED vars => UNCHANGED settings
    BY DEF SyncRead, SyncWrite, vars
  <1> QED
    BY <1>1, <1>2, <1>3 DEF Next, settings

LEMMA NextEndsInv == EndsInv /\ [Next]_vars => EndsInv'
  <1> SUFFICES ASSUME EndsInv, [Next]_vars, ~typed' PROVE EndsInv'
    BY NextTypeOK DEF EndsInv
  <1>1. TypeOK /\ TypeOK'
    BY NextTypeOK DEF EndsInv
  <1>2. ~typed
    BY SettingsKept
  <1>3. /\ \A k \in Places : nodes[k] = Bare => k \in adrift
        /\ \A k \in Ends(Due) : nodes[k] # None \/ k \in adrift
    BY <1>2 DEF EndsInv
  <1> DEFINE Goal == /\ \A k \in Places : nodes'[k] = Bare => k \in adrift'
                     /\ \A k \in Ends(Due') : nodes'[k] # None \/ k \in adrift'
  <1>4. ASSUME NEW f \in Files, NEW v \in Versions[f], ProcessFile(f, v) PROVE Goal
    <2> DEFINE gone == known[f] \ KeysOf(v)
               batch == Batch(f, v)
               new == BatchLinks(batch, nodes')
    <2>1. /\ nodes' = StoredIn(Deleted(gone), batch)
          /\ adrift' = adrift \cup ({k \in gone : nodes[k] # None} \cap Ends(Due))
          /\ relating' = [relating EXCEPT ![f] = new] /\ syncing' = syncing
      BY <1>4 DEF ProcessFile, CutAdrift
    <2>2. Ends(Due') \subseteq Ends(Due) \cup Ends(new)
      <3>1. Due' \subseteq Due \cup new
        BY <1>1, <2>1 DEF Due, TypeOK
      <3> QED
        BY <3>1 DEF Ends
    <2>3. Ends(new) \subseteq KeysOf(batch)
      BY BatchLinksOfFile DEF Ends
    <2>4. DOMAIN Deleted(gone) = Places
      BY <1>1 DEF Deleted, TypeOK
    <2>5. \A k \in Places : k \in KeysOf(batch) =>
             \E i \in DOMAIN v : nodes'[k] = NodeOf(v[i])
      BY <2>1, <2>4, StoredBatch
    <2>6. \A k \in Places : k \in KeysOf(batch) => nodes'[k] # Bare /\ nodes'[k] # None
      <3>1. \A i \in DOMAIN v : NodeOf(v[i]) # None
        BY NodeAssumption
      <3>2. \A i \in DOMAIN v : NodeOf(v[i]) # Bare
        BY DEF NodeOf, Bare
      <3> QED
        BY <2>5, <3>1, <3>2
    <2>7. \A k \in Places : k \notin KeysOf(batch) =>
             nodes'[k] = IF k \in gone THEN None ELSE nodes[k]
      BY <1>1, <2>1, <2>4, StoredBatch DEF Deleted, TypeOK
    <2>8. Ends(Due) \subseteq Places /\ Ends(Due') \subseteq Places
      BY <1>1, DueTyped DEF Due, Ends, TypeOK, Relationship
    <2>9. ASSUME NEW k \in Places, nodes'[k] = Bare PROVE k \in adrift'
      <3>1. k \notin KeysOf(batch)
        BY <2>6, <2>9
      <3>2. nodes[k] = Bare
        BY <2>7, <2>9, <3>1, NodeAssumption
      <3> QED
        BY <1>3, <2>1, <3>2
    <2>10. ASSUME NEW k \in Ends(Due'), nodes'[k] = None PROVE k \in adrift'
      <3>1. k \in Places /\ k \notin KeysOf(batch) /\ k \in Ends(Due)
        BY <2>2, <2>3, <2>6, <2>8, <2>10
      <3>2. nodes[k] = None \/ k \in gone
        BY <2>7, <2>10, <3>1
      <3> QED
        BY <1>3, <2>1, <3>1, <3>2
    <2> QED
      BY <2>9, <2>10
  <1>5. ASSUME NEW f \in Files, DeleteFile(f) PROVE Goal
    <2> DEFINE gone == {k \in Stored : FileOf[k] = f}
    <2>1. /\ nodes' = Deleted(gone)
          /\ adrift' = adrift \cup (gone \cap Ends(Due))
          /\ Due' = Due
      BY <1>5 DEF DeleteFile, CutAdrift, Due
    <2>2. \A k \in Places : nodes'[k] = IF k \in gone THEN None ELSE nodes[k]
      BY <1>1, <2>1 DEF Deleted, TypeOK
    <2>3. \A k \in Places : nodes'[k] = Bare => nodes[k] = Bare
      BY <2>2, NodeAssumption
    <2>4. \A k \in Ends(Due) : k \in Places
      BY <1>1, DueTyped
    <2> HIDE DEF gone
    <2>5. \A k \in Places : nodes'[k] = Bare => k \in adrift'
      BY <1>3, <2>1, <2>3
    <2>6. \A k \in Ends(Due') : nodes'[k] # None \/ k \in adrift'
      BY <1>3, <2>1, <2>2, <2>4
    <2> QED
      BY <2>5, <2>6
  <1>6. ASSUME NEW link \in Due, Writes(link), Due' \subseteq Due, adrift' = adrift PROVE Goal
    <2>1. \A k \in Places : \/ nodes'[k] = nodes[k]
                            \/ nodes[k] = None /\ nodes'[k] = Bare /\ k \in Ends(Due)
      BY <1>1, <1>6, WriteEffect
    <2>2. Ends(Due') \subseteq Ends(Due) /\ Ends(Due) \subseteq Places
      BY <1>1, <1>6, DueTyped DEF Ends
    <2>3. \A k \in Places : nodes'[k] = Bare => k \in adrift'
      BY <1>3, <1>6, <2>1
    <2>4. \A k \in Ends(Due') : nodes'[k] # None \/ k \in adrift'
      BY <1>3, <1>6, <2>1, <2>2
    <2> QED
      BY <2>3, <2>4
  <1>7. ASSUME NEW f \in Files, StoreRelationship(f) PROVE Goal
    <2>1. PICK link \in relating[f] :
             /\ Writes(link) /\ link \in Due
             /\ relating' = [relating EXCEPT ![f] = @ \ {link}]
             /\ UNCHANGED <<settings, indexVars, syncing, events, syncs, adrift>>
      BY <1>1, <1>7, WriteSteps
    <2>2. Due' \subseteq Due
      BY <1>1, <2>1 DEF Due, TypeOK
    <2> QED
      BY <1>6, <2>1, <2>2
  <1>8. ASSUME SyncWrite PROVE Goal
    <2>1. PICK link \in syncing :
             /\ Writes(link) /\ link \in Due
             /\ syncing' = syncing \ {link}
             /\ UNCHANGED <<settings, indexVars, relating, events, syncs, adrift>>
      BY <1>1, <1>8, WriteSteps
    <2>2. Due' \subseteq Due
      BY <2>1 DEF Due
    <2> QED
      BY <1>6, <2>1, <2>2
  <1>9. ASSUME SyncRead PROVE Goal
    <2>1. nodes' = nodes /\ relating' = relating /\ adrift' = adrift
      BY <1>9 DEF SyncRead, graphVars
    <2>2. syncing' = syncing \/ \E rank \in RowOrders : syncing' = SyncLinks(rank)
      BY <1>9 DEF SyncRead
    <2>3. ASSUME NEW rank \in RowOrders, NEW e \in SyncLinks(rank)
          PROVE  nodes[e.source] # None /\ nodes[e.target] # None
      <3>1. PICK k \in Stored, m \in Stored :
               e = [source |-> Composite(rank, ChunkId(k)),
                    target |-> Composite(rank, ChunkId(m)), label |-> e.label]
        BY SyncLinkEnds
      <3>2. e.source \in Stored /\ e.target \in Stored
        BY <1>2, <3>1, CompositeRead
      <3> QED
        BY <3>2 DEF Stored, HasContent
    <2>4. \A k \in Ends(Due') : k \in Ends(Due) \/ nodes[k] # None
      BY <2>1, <2>2, <2>3 DEF Due, Ends
    <2> QED
      BY <1>3, <2>1, <2>4
  <1>10. ASSUME UNCHANGED vars PROVE Goal
    BY <1>3, <1>10 DEF vars, graphVars, Due
  <1> QED
    BY <1>1, <1>4, <1>5, <1>7, <1>8, <1>9, <1>10 DEF Next, EndsInv

(* When replies come in plain cells, a node without content stands only    *)
(* for a chunk that was deleted while a relationship that names it waited  *)
(* to be written.                                                          *)
THEOREM SpecBareNodesWereDeleted == Spec => []BareNodesWereDeleted
  <1>1. Init => EndsInv
    BY InitTypeOK, NodeAssumption DEF Init, EndsInv, Due, Ends, Places
  <1>2. EndsInv => BareNodesWereDeleted
    BY DEF EndsInv, BareNodesWereDeleted
  <1> QED
    BY <1>1, <1>2, NextEndsInv, PTL DEF Spec

-----------------------------------------------------------------------------
(* While nothing interferes, what GraphSync found of imports is written or *)
(* still to be written.                                                    *)

Importing(k, l) ==
    /\ k # l
    /\ nodes[k].metadata # None
    /\ \E n \in nodes[k].metadata.imports : <<n, FileOf[l]>> \in Denotes

ImportLink(k, l) == [source |-> k, target |-> l, label |-> "IMPORTS"]

ImportsInv ==
    /\ TypeOK
    /\ (fresh /\ ~uuid /\ ~typed) =>
          \A k, l \in Stored : Importing(k, l) => ImportLink(k, l) \in edges \cup syncing

LEMMA SyncFindsImports ==
    ASSUME NEW rank \in RowOrders, ~uuid, ~typed,
           NEW k \in Stored, NEW l \in Stored, Importing(k, l)
    PROVE  ImportLink(k, l) \in SyncLinks(rank)
  <1> DEFINE chunks == SyncChunks
  <1>1. /\ DOMAIN chunks = Stored
        /\ \A m \in Stored : chunks[m].id = m /\ chunks[m].path = FileOf[m]
                             /\ chunks[m].sig = nodes[m].metadata
        /\ chunks[k].indexed
    BY DEF SyncChunks, ChunkId, Importing
  <1> HIDE DEF chunks
  <1>2. PICK n \in nodes[k].metadata.imports : <<n, FileOf[l]>> \in Denotes
    BY DEF Importing
  <1>3. l \in ModuleChunks(chunks, n)
    BY <1>1, <1>2 DEF ModuleChunks
  <1>4. ImportLink(k, l) \in Links(k, ModuleChunks(chunks, n), "IMPORTS")
    BY <1>3 DEF Links, ImportLink, Importing
  <1>5. ImportLink(k, l) \in ResolvedLinks(chunks, chunks[k])
    BY <1>1, <1>2, <1>4 DEF ResolvedLinks
  <1>6. ImportLink(k, l) \in SymbolLinks(chunks)
    BY <1>1, <1>5 DEF SymbolLinks
  <1>7. Composite(rank, k) = k /\ Composite(rank, l) = l
    <2>1. ChunkId(k) = k /\ ChunkId(l) = l
      BY DEF ChunkId
    <2> QED
      BY <2>1, CompositeRead
  <1>8. [source |-> Composite(rank, ImportLink(k, l).source),
         target |-> Composite(rank, ImportLink(k, l).target),
         label |-> ImportLink(k, l).label] \in SyncLinks(rank)
    BY <1>6 DEF SyncLinks, chunks
  <1> QED
    BY <1>7, <1>8 DEF ImportLink

LEMMA NextImportsInv == ImportsInv /\ [Next]_vars => ImportsInv'
  <1> SUFFICES ASSUME ImportsInv, [Next]_vars, fresh', ~uuid', ~typed',
                      NEW k \in Stored', NEW l \in Stored', Importing(k, l)'
               PROVE  ImportLink(k, l) \in edges' \cup syncing'
    BY NextTypeOK DEF ImportsInv, ImportLink
  <1>1. TypeOK
    BY DEF ImportsInv
  <1>2. ~uuid /\ ~typed
    BY SettingsKept
  <1>3. ASSUME nodes' = nodes PROVE k \in Stored /\ l \in Stored /\ Importing(k, l)
    BY <1>3 DEF Stored, HasContent, Importing
  <1>4. ASSUME NEW link \in Due, Writes(link)
        PROVE  /\ k \in Stored /\ l \in Stored /\ Importing(k, l)
               /\ fresh /\ edges' = edges \cup {link}
    <2>1. Stored' = Stored /\ fresh /\ edges' = edges \cup {link}
      BY <1>1, <1>4, WriteEffect
    <2>2. nodes'[k] = nodes[k]
      BY <1>1, <1>4, <2>1, WriteEffect DEF Stored, HasContent, Places
    <2> QED
      BY <2>1, <2>2 DEF Importing
  <1>5. ASSUME NEW f \in Files, StoreRelationship(f)
        PROVE  ImportLink(k, l) \in edges' \cup syncing'
    <2>1. PICK link \in relating[f] : Writes(link) /\ link \in Due /\ syncing' = syncing
      BY <1>1, <1>5, WriteSteps
    <2> QED
      BY <1>2, <1>4, <2>1 DEF ImportsInv
  <1>6. CASE SyncWrite
    <2>1. PICK link \in syncing : Writes(link) /\ link \in Due /\ syncing' = syncing \ {link}
      BY <1>1, <1>6, WriteSteps
    <2> QED
      BY <1>2, <1>4, <2>1 DEF ImportsInv
  <1>7. CASE SyncRead
    <2>1. nodes' = nodes /\ edges' = edges
      BY <1>7 DEF SyncRead, graphVars
    <2>2. CASE syncing' = syncing /\ fresh
      BY <1>2, <1>3, <2>1, <2>2 DEF ImportsInv
    <2>3. ASSUME NEW rank \in RowOrders, syncing' = SyncLinks(rank)
          PROVE  ImportLink(k, l) \in syncing'
      BY <1>2, <1>3, <2>1, <2>3, SyncFindsImports
    <2> QED
      BY <1>7, <2>2, <2>3 DEF SyncRead
  <1>8. CASE UNCHANGED vars
    BY <1>2, <1>3, <1>8 DEF vars, graphVars, ImportsInv
  <1> QED
    BY <1>5, <1>6, <1>7, <1>8 DEF Next, ProcessFile, DeleteFile

(* Once GraphSync has run and nothing interfered, a chunk that imports a   *)
(* file of the source is related to each of the file's chunks, in whatever *)
(* order the query returned the rows and the files came.                   *)
THEOREM SpecImportsRelated == Spec => []ImportsRelated
  <1>1. Init => ImportsInv
    BY InitTypeOK DEF Init, ImportsInv
  <1>2. ImportsInv => ImportsRelated
    BY DEF ImportsInv, ImportsRelated, Importing, ImportLink
  <1> QED
    BY <1>1, <1>2, NextImportsInv, PTL DEF Spec
=============================================================================
