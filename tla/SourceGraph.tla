----------------------------- MODULE SourceGraph -----------------------------
(***************************************************************************)
(* The relationships in one user's graph of one source with several files: *)
(* extract_and_store_relationships writes those of a batch when a version  *)
(* of a file is ingested, and GraphSync (src/infra/storage.rs) reads the   *)
(* whole source back and writes those between its files.  Both write one   *)
(* relationship per call, next to each other and to deletions.             *)
(*                                                                         *)
(* The diff, the rows and the nodes of an ingest are those of              *)
(* IngestPipeline; here they are one step, by what they come to without    *)
(* failures: nodes of keys that have gone are deleted, chunks whose hash   *)
(* is not on record are stored and form the batch.  The order in which the *)
(* relationships of a batch are written makes no difference and is fixed.  *)
(* A content occurs under one key, and once in a version; what the diff    *)
(* makes of the others is in IngestPipeline too.                           *)
(***************************************************************************)
EXTENDS CodeRelations

CONSTANTS
    Files,
    Keys,        \* keys of chunks
    FileOf,      \* key -> file: the second part of the key
    Versions,    \* file -> the sequences of chunks it may consist of
    SourceId,    \* the source's id, and what GraphSync takes for a chunk's
    RowOrders,   \* orders a query may return nodes in: key -> position
    Replies,     \* subset of BOOLEAN: whether reply cells are wrapped in a type
    SourceUuids, \* subset of BOOLEAN: whether the source's id is a UUID
    Blank,       \* the empty id, read from a cell that was wrapped
    MaxEvents,   \* bound: versions and deletions handled
    MaxSyncs,    \* bound: calls of GraphSync
    MaxFaults    \* bound: failed calls

ASSUME SourceGraphAssumption ==
    /\ FileOf \in [Keys -> Files]
    /\ \A f \in Files : \A v \in Versions[f] : \A i \in DOMAIN v :
          /\ v[i].key \in Keys /\ FileOf[v[i].key] = f /\ v[i].file = f
          /\ v[i].id = <<v[i].key, v[i].hash>>
    /\ \A f \in Files : \A v \in Versions[f] : Len(v) \in Nat /\ DOMAIN v = 1 .. Len(v)
    /\ \A f \in Files : \A v, w \in Versions[f] : \A i \in DOMAIN v, j \in DOMAIN w :
          v[i].hash = w[j].hash => v[i].id = w[j].id /\ (v = w => i = j)
    /\ \A rank \in RowOrders : rank \in Injection(Keys, 1 .. Cardinality(Keys))
    /\ IsFiniteSet(Keys)
    /\ Replies \subseteq BOOLEAN /\ SourceUuids \subseteq BOOLEAN
    /\ Blank \notin Keys
    /\ SourceId \notin Keys
    /\ MaxEvents \in Nat /\ MaxSyncs \in Nat /\ MaxFaults \in Nat

VARIABLES
    typed,      \* whether this FalkorDB wraps the cells of its replies
    uuid,       \* whether this source's id is a UUID
    recorded,   \* per file: the ids on record as live
    known,      \* per file: the keys on record, tombstones included
    nodes,      \* key -> node or None
    edges,      \* relationships in the graph
    relating,   \* per file: relationships of its batch still to be written
    syncing,    \* relationships of GraphSync still to be written
    events, syncs, failures,
    fresh,      \* history: nothing was stored, deleted or lost since GraphSync read
    adrift      \* history: keys deleted while a write that names them was due

indexVars == <<recorded, known>>
graphVars == <<nodes, edges>>
settings == <<typed, uuid>>
counters == <<events, syncs, failures>>
vars == <<settings, indexVars, graphVars, relating, syncing, counters, fresh, adrift>>

(* A node that a relationship created has its id only. *)
Bare == [id |-> "only"]
NodeOf(c) == [content |-> c.id, metadata |-> IF c.indexed THEN c.sig ELSE None]
ASSUME NodeAssumption ==
    /\ Bare # None
    /\ \A f \in Files : \A v \in Versions[f] : \A i \in DOMAIN v : NodeOf(v[i]) # None

HasContent(k) == nodes[k] # None /\ nodes[k] # Bare
Stored == {k \in Keys : HasContent(k)}

Init ==
    /\ typed \in Replies
    /\ uuid \in SourceUuids
    /\ recorded = [f \in Files |-> {}]
    /\ known = [f \in Files |-> {}]
    /\ nodes = [k \in Keys \cup {Blank} |-> None]
    /\ edges = {}
    /\ relating = [f \in Files |-> {}]
    /\ syncing = {}
    /\ events = 0 /\ syncs = 0 /\ failures = 0
    /\ fresh = FALSE
    /\ adrift = {}

-----------------------------------------------------------------------------
(* Writing.                                                                *)

Ends(links) == {l.source : l \in links} \cup {l.target : l \in links}

Due == syncing \cup UNION {relating[f] : f \in Files}

(* DETACH DELETE. *)
Deleted(keys) == [k \in DOMAIN nodes |-> IF k \in keys THEN None ELSE nodes[k]]
Detached(keys) == {e \in edges : Ends({e}) \cap keys = {}}
CutAdrift(keys) == adrift' = adrift \cup (keys \cap Ends(Due))

(* store_relationship: MERGE of both ends and of the relationship. *)
WriteLink(link) ==
    /\ nodes' = [k \in DOMAIN nodes |->
                    IF k \in Ends({link}) /\ nodes[k] = None THEN Bare ELSE nodes[k]]
    /\ edges' = edges \cup {link}
    /\ UNCHANGED <<failures, fresh>>

(* A call that fails is logged and the next one made. *)
WriteFails ==
    /\ failures < MaxFaults
    /\ failures' = failures + 1
    /\ fresh' = FALSE
    /\ UNCHANGED graphVars

-----------------------------------------------------------------------------
(* Ingest.                                                                 *)

KeysOf(v) == {v[i].key : i \in DOMAIN v}
IdsOf(v) == {v[i].id : i \in DOMAIN v}

(* chunks_to_process: those whose chunk_hash is not on record, each at its *)
(* place in the version.                                                   *)
Batch(f, v) == Restrict(v, {i \in DOMAIN v : v[i].hash \notin {id[2] : id \in recorded[f]}})

(* uuid_to_composite and the loop over the relationships: one whose end is *)
(* not a chunk of the batch is dropped.                                    *)
BatchLinks_ByUuid(batch, graph) ==
    ChainLinks(batch) \cup CodeLinks(batch)
BatchLinks(batch, graph) ==
    LET inBatch == {l \in ChainLinks(batch) \cup CodeLinks(batch)
                          \cup SymbolLinks(batch) \cup QueriedLinks(batch, graph) :
                       Ends({l}) \subseteq IdsOf(batch)}
    IN  {[source |-> l.source[1], target |-> l.target[1], label |-> l.label] : l \in inBatch}

(* Two chunks with one key are stored one after the other in one node. *)
StoredIn_Indexed(graph, batch) ==
    [k \in DOMAIN graph |->
        LET at == {i \in DOMAIN batch : batch[i].key = k /\ batch[i].indexed}
        IN  IF at = {} THEN graph[k] ELSE NodeOf(batch[CHOOSE i \in at : TRUE])]
StoredIn(graph, batch) ==
    [k \in DOMAIN graph |->
        LET at == {i \in DOMAIN batch : batch[i].key = k}
        IN  IF at = {} THEN graph[k]
            ELSE NodeOf(batch[CHOOSE i \in at : \A j \in at : j <= i])]

ProcessFile(f, v) ==
    /\ relating[f] = {}
    /\ events < MaxEvents
    /\ LET gone == known[f] \ KeysOf(v)
           batch == Batch(f, v)
       IN  /\ nodes' = StoredIn(Deleted(gone), batch)
           /\ edges' = Detached(gone)
           /\ CutAdrift({k \in gone : nodes[k] # None})
           /\ relating' = [relating EXCEPT ![f] = BatchLinks(batch, nodes')]
    /\ recorded' = [recorded EXCEPT ![f] = IdsOf(v)]
    /\ known' = [known EXCEPT ![f] = @ \cup KeysOf(v)]
    /\ events' = events + 1
    /\ fresh' = FALSE
    /\ UNCHANGED <<settings, syncing, syncs, failures>>

StoreRelationship(f) ==
    /\ relating[f] # {}
    /\ LET link == CHOOSE l \in relating[f] : TRUE
       IN  /\ WriteLink(link) \/ WriteFails
           /\ relating' = [relating EXCEPT ![f] = @ \ {link}]
    /\ UNCHANGED <<settings, indexVars, syncing, events, syncs, adrift>>

(* delete_file: the nodes of the source whose id ends with the file's path; *)
(* the rows stay.                                                           *)
DeleteFile(f) ==
    /\ events < MaxEvents
    /\ LET gone == {k \in Stored : FileOf[k] = f}
       IN  /\ nodes' = Deleted(gone)
           /\ edges' = Detached(gone)
           /\ CutAdrift(gone)
    /\ events' = events + 1
    /\ fresh' = FALSE
    /\ UNCHANGED <<settings, indexVars, relating, syncing, syncs, failures>>

-----------------------------------------------------------------------------
(* GraphSync.  A row's id is its node's key: source|path|signature|path.   *)

(* The first part of the id is taken for the chunk's UUID, if it is one; a *)
(* chunk without has a new UUID of its own, here its key.                  *)
ChunkId(k) == IF uuid /\ ~typed THEN SourceId ELSE k

(* The file is the second part of the id. *)
FileSeen_FirstPart(k) == IF typed THEN "unknown" ELSE SourceId
FileSeen(k) == IF typed THEN "unknown" ELSE FileOf[k]

SyncChunks ==
    [k \in Stored |->
        [id |-> ChunkId(k),
         path |-> IF typed THEN None ELSE FileOf[k],
         indexed |-> nodes[k].metadata # None /\ ~typed,
         sig |-> nodes[k].metadata]]

(* chunk_map: of the rows with one UUID the last one is found. *)
Composite(rank, id) ==
    IF typed THEN Blank
    ELSE CHOOSE k \in Stored : /\ ChunkId(k) = id
                               /\ \A l \in Stored : ChunkId(l) = id => rank[l] <= rank[k]

(* The rows of a file, in the order of the query. *)
RowsAfter(rank, k) == {l \in Stored : FileSeen(l) = FileSeen(k) /\ rank[k] < rank[l]}
NextRow(rank, k) ==
    {l \in RowsAfter(rank, k) : \A m \in RowsAfter(rank, k) : rank[l] <= rank[m]}
FirstRows(rank) ==
    {k \in Stored : \A l \in Stored : FileSeen(l) = FileSeen(k) => rank[k] <= rank[l]}

SyncLinks(rank) ==
    LET rows(k, ls, label) ==
            {[source |-> ChunkId(k), target |-> ChunkId(l), label |-> label] : l \in ls}
        next == UNION {rows(k, NextRow(rank, k), "NEXT_CHUNK") : k \in Stored}
        parent == UNION {rows(k, RowsAfter(rank, k), "PARENT_OF") : k \in FirstRows(rank)}
        links == SymbolLinks(SyncChunks) \cup next \cup parent
    IN  {[source |-> Composite(rank, l.source), target |-> Composite(rank, l.target),
          label |-> l.label] : l \in links}

(* trigger_relationship_building: the query; its error ends the call. *)
SyncRead ==
    /\ syncing = {}
    /\ syncs < MaxSyncs
    /\ syncs' = syncs + 1
    /\ \/ \E rank \in RowOrders :
             /\ syncing' = SyncLinks(rank)
             /\ fresh' = TRUE
             /\ UNCHANGED failures
       \/ /\ failures < MaxFaults
          /\ failures' = failures + 1
          /\ UNCHANGED <<syncing, fresh>>
    /\ UNCHANGED <<settings, indexVars, graphVars, relating, events, adrift>>

SyncWrite ==
    /\ syncing # {}
    /\ LET link == CHOOSE l \in syncing : TRUE
       IN  /\ WriteLink(link) \/ WriteFails
           /\ syncing' = syncing \ {link}
    /\ UNCHANGED <<settings, indexVars, relating, events, syncs, adrift>>

Next ==
    \/ \E f \in Files : \E v \in Versions[f] : ProcessFile(f, v)
    \/ \E f \in Files : StoreRelationship(f) \/ DeleteFile(f)
    \/ SyncRead
    \/ SyncWrite

Spec == Init /\ [][Next]_vars

-----------------------------------------------------------------------------
(* Properties.                                                             *)

Labels == {"NEXT_CHUNK", "CALLS", "INHERITS", "IMPLEMENTS", "IMPORTS", "CONTAINS_METHOD",
           "TYPE_REF", "INSTANTIATES", "DECORATES", "DEFINED_IN", "REFERENCES", "PARENT_OF"}
Places == Keys \cup {Blank}
Relationship == [source : Places, target : Places, label : Labels]

TypeOK ==
    /\ typed \in BOOLEAN /\ uuid \in BOOLEAN
    /\ DOMAIN recorded = Files
    /\ \A f \in Files : \E v \in Versions[f] \cup {<<>>} : recorded[f] = IdsOf(v)
    /\ known \in [Files -> SUBSET Keys]
    /\ relating \in [Files -> SUBSET Relationship]
    /\ DOMAIN nodes = Places
    /\ \A k \in Keys : HasContent(k) =>
          \E v \in Versions[FileOf[k]] : nodes[k].content \in IdsOf(v)
    /\ edges \in SUBSET Relationship
    /\ syncing \in SUBSET Relationship
    /\ adrift \in SUBSET Places

Resting == Due = {}

(* Whatever ingests, deletions and calls of GraphSync interleave, the      *)
(* edges of a file's structure never join chunks of two files.             *)
StructureWithinFile ==
    \A e \in edges :
        (e.label \in {"NEXT_CHUNK", "PARENT_OF", "DEFINED_IN"} /\ Ends({e}) \subseteq Keys) =>
            FileOf[e.source] = FileOf[e.target]

(* A relationship brings a node without content into the graph only for a  *)
(* chunk that was deleted while the relationship was waiting to be         *)
(* written, if replies come in plain cells.                                *)
BareNodesWereDeleted ==
    ~typed => \A k \in Places : nodes[k] = Bare => k \in adrift

(* Once GraphSync has run and nothing interfered, every chunk that imports *)
(* a file of the source is related to each of the file's chunks, in        *)
(* whatever order the two files came.                                      *)
ImportsRelated ==
    (fresh /\ syncing = {} /\ ~uuid /\ ~typed) =>
        \A k, l \in Stored :
            (/\ k # l
             /\ nodes[k].metadata # None
             /\ \E n \in nodes[k].metadata.imports : <<n, FileOf[l]>> \in Denotes) =>
                [source |-> k, target |-> l, label |-> "IMPORTS"] \in edges

(* SymbolIndex: "Resolve function calls, instantiations, and type          *)
(* references into cross-chunk relationships".  Asked of a function that   *)
(* one definition chunk of the source defines: once GraphSync has run and  *)
(* nothing interfered, each other definition that calls it is related to   *)
(* it.                                                                     *)
Defining(n) ==
    {k \in Stored : /\ nodes[k].metadata # None
                    /\ n \in Range(nodes[k].metadata.functions)
                    /\ \E v \in Versions[FileOf[k]] : \E i \in DOMAIN v :
                          v[i].id = nodes[k].content /\ v[i].kind = "Function"}
CallsRelated ==
    (fresh /\ Resting /\ ~uuid /\ ~typed) =>
        \A k \in Stored :
            nodes[k].metadata # None =>
                \A n \in nodes[k].metadata.calls :
                    Cardinality(Defining(n)) = 1 =>
                        \A l \in Defining(n) :
                            k = l \/ [source |-> k, target |-> l, label |-> "CALLS"] \in edges

(* HierarchicalExtractor: the links "guarantee perfect reading order with  *)
(* linear connections".  Asked before any GraphSync: at rest, no chunk has *)
(* two next ones.                                                          *)
ReadingOrder ==
    (Resting /\ syncs = 0) =>
        \A d, e \in edges :
            (d.label = "NEXT_CHUNK" /\ e.label = "NEXT_CHUNK" /\ d.source = e.source) => d = e
=============================================================================
