--------------------------- MODULE IngestPipeline ---------------------------
(***************************************************************************)
(* The ingest path of repo-uni-proc: UnifiedProcessor::process_file and    *)
(* UnifiedProcessor::delete_file (src/core/orchestrator.rs), run by one    *)
(* tokio task per Kafka message (src/graph/consumer.rs), for one           *)
(* (source_id, filename).  Chunk keys, row ids and node ids all carry the  *)
(* source and the file, so the tables of two files never touch and one     *)
(* file is enough.                                                         *)
(*                                                                         *)
(* Three stores are written one after the other, with no transaction that  *)
(* spans them: the chunk_snapshot table in Postgres, the per-user graph in *)
(* FalkorDB, and the chunk cache in memory.  Every step below is the code  *)
(* between two awaits, so tasks interleave at exactly the points at which  *)
(* the tasks of the program do.                                            *)
(*                                                                         *)
(* A definition named Op_Slip is Op with one plausible slip in it.  No     *)
(* action uses it: putting it in the place of Op shows which property      *)
(* would notice that bug.                                                  *)
(***************************************************************************)
EXTENDS Naturals, Sequences, FiniteSets

CONSTANTS
    Users,        \* owners; each has a FalkorDB graph of its own
    Handlers,     \* tasks that may run at the same time
    Keys,         \* chunk keys, within the file
    Hashes,       \* chunk hashes; a chunk's content is named by its hash
    RangeKeys,    \* the keys of raw chunks, named by byte range
    Position,     \* the start position of each key's chunk
    Versions,     \* the chunk lists that the contents of the file yield
    Operations,   \* subset of {"process", "delete"}
    Faults,       \* the external calls that may fail
    MaxEvents,    \* bound: messages delivered
    MaxFaults,    \* bound: calls that fail
    MaxCrashes,   \* bound: process restarts
    BatchSize,    \* chunks per Kafka message (10 in the code)
    CacheCrowded, \* whether other files' chunks fill the cache past its limit
    ProducerReady, \* whether the Kafka producer could be created at the start
    None          \* no row, no node, no content, no job, no owner

Chunk == [key : Keys, hash : Hashes]

(***************************************************************************)
(* Chunk::new_stable derives the id of an AST chunk from its signature and *)
(* hash, Chunk::new_deterministic that of a raw chunk from its byte range. *)
(***************************************************************************)
IdOf(c) == <<c.key, IF c.key \in RangeKeys THEN None ELSE c.hash>>
KeyOf(id) == id[1]
Ids == Keys \X (Hashes \cup {None})

Row == [hash : Hashes, tombstone : BOOLEAN]
Node == [content : Hashes \cup {None}, embeddings : Hashes \cup {None}]

Job == [op : {"process"}, user : Users, chunks : Versions]
         \cup [op : {"delete"}, user : Users, chunks : {<<>>}]

(* A SimplifiedChunkRawEvent: which chunks of the version were sent. *)
Message == {m \in [user : Users, chunks : Versions \cup {<<>>}, sent : SUBSET Nat] :
                m.sent \subseteq DOMAIN m.chunks}

Calls == {"read_snapshots", "mark_deleted", "delete_orphans", "replace",
          "store", "relate", "publish", "store_metadata", "delete_nodes",
          "delete_metadata"}

ASSUME ConstantsAssumption ==
    /\ RangeKeys \subseteq Keys
    /\ Position \in [Keys -> Nat]
    /\ Versions \subseteq Seq(Chunk)
    /\ Operations \subseteq {"process", "delete"}
    /\ Faults \subseteq Calls
    /\ MaxEvents \in Nat /\ MaxFaults \in Nat /\ MaxCrashes \in Nat
    /\ BatchSize \in Nat \ {0}
    /\ CacheCrowded \in BOOLEAN /\ ProducerReady \in BOOLEAN
    /\ None \notin Users \cup Hashes \cup Row \cup Node \cup Job

VARIABLES
    chunk_snapshot,  \* Postgres: row by id, or None
    file_metadata,   \* Postgres: the user_id of the file's row, or None
    nodes,           \* FalkorDB: per user, Vector_Chunk node by key, or None
    edges,           \* FalkorDB: per user, NEXT_CHUNK edges between keys
    cache,           \* chunk_content_cache: content by key, or None
    chunks_raw,      \* Kafka: chunk batches for the embeddings service, in order
    pc,              \* per task: the await it is at
    job,             \* per task: the event it handles, or None
    work,            \* per task: its locals
    delivered,       \* history: the events delivered, oldest first
    troubled,        \* history: tasks whose last run met a failure or a crash
    failures,        \* number of failed calls, up to MaxFaults
    crashes          \* number of restarts, up to MaxCrashes

pgVars == <<chunk_snapshot, file_metadata>>
graphVars == <<nodes, edges>>
taskVars == <<pc, job, work>>
faultVars == <<troubled, failures>>
vars == <<pgVars, graphVars, cache, chunks_raw, taskVars, delivered,
          faultVars, crashes>>

-----------------------------------------------------------------------------
(* Locals of a task.  Chunks are named by their index in job[t].chunks.    *)

Work == [clean      : SUBSET Nat,      \* chunks with is_dirty = false
         to_mark    : SUBSET Keys,     \* old keys still to be tombstoned
         orphans    : SUBSET Keys,     \* chunks_to_delete_from_db
         to_process : SUBSET Nat,      \* chunks_to_process
         to_delete  : SUBSET Ids,      \* to_delete_uuids
         left       : SUBSET Nat,      \* chunks still to store or publish
         links      : SUBSET (Keys \X Keys)] \* relationships still to store

NoWork == [clean |-> {}, to_mark |-> {}, orphans |-> {}, to_process |-> {},
           to_delete |-> {}, left |-> {}, links |-> {}]

PCs == {"idle", "first_diff", "mark", "delete_orphans", "second_diff",
        "replace", "cache", "store", "relate", "publish", "metadata",
        "delete_nodes", "delete_metadata"}

Goto(t, p) == pc' = [pc EXCEPT ![t] = p]

Remember(t, w) == work' = [work EXCEPT ![t] = w]

Finish(t) ==
    /\ Goto(t, "idle")
    /\ job' = [job EXCEPT ![t] = None]
    /\ Remember(t, NoWork)

(* A call fails only if Faults names it and the budget allows.  Where the  *)
(* code only logs the error and goes on, a call that took effect and whose *)
(* reply was lost is its success case.                                     *)
Fails(t, call) ==
    /\ call \in Faults
    /\ failures < MaxFaults
    /\ failures' = failures + 1
    /\ troubled' = troubled \cup {t}

Succeeds == UNCHANGED faultVars

KeysOf(chunks) == {chunks[i].key : i \in DOMAIN chunks}
HashesOf(chunks) == {chunks[i].hash : i \in DOMAIN chunks}

(* The last of a set of indices. *)
LastOf(indices) == CHOOSE i \in indices : \A j \in indices : j <= i

-----------------------------------------------------------------------------
(* The chunk_snapshot table.                                               *)

Recorded(rows) == {id \in Ids : rows[id] # None}
Live(rows) == {id \in Recorded(rows) : ~rows[id].tombstone}

(* UPDATE chunk_snapshot SET tombstone = TRUE WHERE id IN ids *)
Tombstoned_Removed(rows, ids) == [id \in Ids |-> IF id \in ids THEN None ELSE rows[id]]
Tombstoned(rows, ids) ==
    [id \in Ids |-> IF id \in ids /\ rows[id] # None
                    THEN [rows[id] EXCEPT !.tombstone = TRUE]
                    ELSE rows[id]]

(* INSERT ... ON CONFLICT (id) DO UPDATE, for one chunk of the batch after *)
(* the other: of the chunks with one id, the last is kept.                 *)
Upserted_HashOfId(rows, chunks, batch) ==
    [id \in Ids |-> IF id \in {IdOf(chunks[i]) : i \in batch}
                    THEN [hash |-> id[2], tombstone |-> FALSE] ELSE rows[id]]
Upserted(rows, chunks, batch) ==
    [id \in Ids |->
        LET same == {i \in batch : IdOf(chunks[i]) = id}
        IN  IF same = {} THEN rows[id]
            ELSE [hash |-> chunks[LastOf(same)].hash, tombstone |-> FALSE]]

(* atomic_replace_file_chunks: one transaction, tombstones first *)
Replaced_InsertFirst(rows, gone, chunks, batch) ==
    Tombstoned(Upserted(rows, chunks, batch), gone)
Replaced(rows, gone, chunks, batch) ==
    Upserted(Tombstoned(rows, gone), chunks, batch)

(* The rows the first diff of process_file looks at: all of the file's.    *)
DiffRows_Live(rows) == Live(rows)
DiffRows(rows) == Recorded(rows)

(* The maps the first diff may build by inserting those rows under their   *)
(* chunk_key: the SELECT is unordered, and the last row of a key stays.    *)
SnapshotMaps(rows) ==
    {m \in [{KeyOf(id) : id \in DiffRows(rows)} -> DiffRows(rows)] :
        \A k \in DOMAIN m : KeyOf(m[k]) = k}

(* The maps the second diff may build from the live rows by chunk_hash. *)
ExistingMaps_Tombstones(rows) ==
    {m \in [{rows[id].hash : id \in Recorded(rows)} -> Recorded(rows)] :
        \A h \in DOMAIN m : rows[m[h]].hash = h}
ExistingMaps(rows) ==
    {m \in [{rows[id].hash : id \in Live(rows)} -> Live(rows)] :
        \A h \in DOMAIN m : rows[m[h]].hash = h}

(* The first diff: chunks whose key is on record with the same hash. *)
CleanChunks_ByKey(chunks, rows, snapshot_map) ==
    {i \in DOMAIN chunks : chunks[i].key \in DOMAIN snapshot_map}
CleanChunks(chunks, rows, snapshot_map) ==
    {i \in DOMAIN chunks : /\ chunks[i].key \in DOMAIN snapshot_map
                           /\ rows[snapshot_map[chunks[i].key]].hash
                                = chunks[i].hash}

(* The second diff: a chunk is unchanged when its hash is still in the map *)
(* (existing_map.remove), so only the first chunk of a hash can be.        *)
ChunksToProcess(chunks, existing_map) ==
    {i \in DOMAIN chunks :
        \/ chunks[i].hash \notin DOMAIN existing_map
        \/ \E j \in DOMAIN chunks : j < i /\ chunks[j].hash = chunks[i].hash}

(* What the second diff leaves in the map. *)
ToDelete(chunks, existing_map) ==
    {existing_map[h] : h \in DOMAIN existing_map \ HashesOf(chunks)}

-----------------------------------------------------------------------------
(* The user's graph.                                                       *)

Phantom == [content |-> None, embeddings |-> None]

(* MERGE (c {id}) SET c.content ...: no embedding clause, so a node that   *)
(* is already there keeps its embeddings.                                  *)
MergeNode_OnCreate(graph, c) ==
    [graph EXCEPT ![c.key] =
        IF @ = None THEN [content |-> c.hash, embeddings |-> None] ELSE @]
MergeNode(graph, c) ==
    [graph EXCEPT ![c.key] =
        [content |-> c.hash,
         embeddings |-> IF @ = None THEN None ELSE @.embeddings]]

(* MERGE (a {id}) MERGE (b {id}): an end that is missing is created with   *)
(* no property but its id.                                                 *)
MergeEnds(graph, link) ==
    [k \in Keys |-> IF k \in {link[1], link[2]} /\ graph[k] = None
                    THEN Phantom ELSE graph[k]]

(* with_user_graph: the graph a task reads and writes is its user's. *)
UserGraph_Metadata(t) == IF file_metadata = None THEN job[t].user ELSE file_metadata
UserGraph(t) == job[t].user

DetachDelete(u, keys) ==
    /\ nodes' = [nodes EXCEPT ![u] =
                    [k \in Keys |-> IF k \in keys THEN None ELSE nodes[u][k]]]
    /\ edges' = [edges EXCEPT ![u] =
                    {e \in @ : e[1] \notin keys /\ e[2] \notin keys}]

(* HierarchicalExtractor: the chunks of the batch in order of position,    *)
(* each linked to the next.                                                *)
Before(chunks, i, j) ==
    LET pi == Position[chunks[i].key]
        pj == Position[chunks[j].key]
    IN  pi < pj \/ (pi = pj /\ i < j)

ChainLinks(chunks, batch) ==
    {link \in Keys \X Keys : \E i, j \in batch :
        /\ link = <<chunks[i].key, chunks[j].key>>
        /\ IdOf(chunks[i]) # IdOf(chunks[j])
        /\ Before(chunks, i, j)
        /\ \A m \in batch : ~(Before(chunks, i, m) /\ Before(chunks, m, j))}

-----------------------------------------------------------------------------
Init ==
    /\ chunk_snapshot = [id \in Ids |-> None]
    /\ file_metadata = None
    /\ nodes = [u \in Users |-> [k \in Keys |-> None]]
    /\ edges = [u \in Users |-> {}]
    /\ cache = [k \in Keys |-> None]
    /\ chunks_raw = <<>>
    /\ pc = [t \in Handlers |-> "idle"]
    /\ job = [t \in Handlers |-> None]
    /\ work = [t \in Handlers |-> NoWork]
    /\ delivered = <<>>
    /\ troubled = {}
    /\ failures = 0
    /\ crashes = 0

(***************************************************************************)
(* EventConsumer::consume spawns a task for the next StreamedFileEvent and *)
(* does not wait for it; handle_event picks the operation.  A redelivered  *)
(* message is one more delivery of the same job.                           *)
(***************************************************************************)
Deliver(t, e) ==
    /\ pc[t] = "idle"
    /\ Len(delivered) < MaxEvents
    /\ e.op \in Operations
    /\ Goto(t, IF e.op = "delete" THEN "delete_nodes" ELSE "first_diff")
    /\ job' = [job EXCEPT ![t] = e]
    /\ delivered' = Append(delivered, e)
    /\ troubled' = troubled \ {t}
    /\ UNCHANGED <<pgVars, graphVars, cache, chunks_raw, work, failures, crashes>>

(* store_and_publish_chunks returns at once when there is no chunk. *)
AfterFirstDiff_UntilClean(t) ==
    IF work[t].orphans # {} THEN "first_diff"
    ELSE IF job[t].chunks = <<>> THEN "metadata" ELSE "second_diff"
AfterFirstDiff(t) ==
    IF job[t].chunks = <<>> THEN "metadata" ELSE "second_diff"

(* process_file: diff by chunk_key against every row of the file. *)
FirstDiff(t) ==
    /\ pc[t] = "first_diff"
    /\ \/ /\ Succeeds
          /\ \E m \in SnapshotMaps(chunk_snapshot) :
                LET gone == DOMAIN m \ KeysOf(job[t].chunks)
                    clean == CleanChunks(job[t].chunks, chunk_snapshot, m)
                IN  /\ Remember(t, [work[t] EXCEPT !.clean = clean,
                                                   !.to_mark = gone,
                                                   !.orphans = gone])
                    /\ Goto(t, IF gone = {} THEN AfterFirstDiff(t) ELSE "mark")
       \/ /\ Fails(t, "read_snapshots")
          /\ Goto(t, AfterFirstDiff(t))
          /\ UNCHANGED work
    /\ UNCHANGED <<pgVars, graphVars, cache, chunks_raw, job, delivered, crashes>>

(* One mark_chunks_deleted per old key, in hash-map order; its error is    *)
(* dropped and the key stays in chunks_to_delete_from_db.                  *)
MarkDeleted(t) ==
    /\ pc[t] = "mark"
    /\ \E k \in work[t].to_mark :
        /\ \/ /\ Succeeds
              /\ chunk_snapshot' =
                    Tombstoned(chunk_snapshot, {id \in Ids : KeyOf(id) = k})
           \/ Fails(t, "mark_deleted") /\ UNCHANGED chunk_snapshot
        /\ Remember(t, [work[t] EXCEPT !.to_mark = @ \ {k}])
        /\ Goto(t, IF work[t].to_mark = {k} THEN "delete_orphans" ELSE "mark")
    /\ UNCHANGED <<file_metadata, graphVars, cache, chunks_raw, job, delivered, crashes>>

(* MATCH (c) WHERE c.id IN [...] DETACH DELETE c; an error is logged. *)
DeleteOrphans(t) ==
    /\ pc[t] = "delete_orphans"
    /\ \/ Succeeds /\ DetachDelete(UserGraph(t), work[t].orphans)
       \/ Fails(t, "delete_orphans") /\ UNCHANGED graphVars
    /\ Goto(t, AfterFirstDiff(t))
    /\ UNCHANGED <<pgVars, cache, chunks_raw, job, work, delivered, crashes>>

(* store_and_publish_chunks: diff by chunk_hash against the live rows; a   *)
(* failed read counts as no rows.                                          *)
SecondDiff(t) ==
    /\ pc[t] = "second_diff"
    /\ \E m \in ExistingMaps(chunk_snapshot) \cup {<<>>} :
        /\ \/ Succeeds /\ m \in ExistingMaps(chunk_snapshot)
           \/ Fails(t, "read_snapshots") /\ m = <<>>
        /\ LET batch == ChunksToProcess(job[t].chunks, m)
               gone == ToDelete(job[t].chunks, m)
           IN  /\ Remember(t, [work[t] EXCEPT !.to_process = batch,
                                              !.to_delete = gone])
               /\ Goto(t, IF batch = {} /\ gone = {} THEN "metadata" ELSE "replace")
    /\ UNCHANGED <<pgVars, graphVars, cache, chunks_raw, job, delivered, crashes>>

(* The transaction; an error is logged and the task goes on.  The          *)
(* delete_chunks_by_ids that follows asks for nodes whose id is a row's    *)
(* UUID; node ids are "chunk_key|file_path", so it deletes nothing.        *)
Replace(t) ==
    /\ pc[t] = "replace"
    /\ \/ /\ Succeeds
          /\ chunk_snapshot' = Replaced(chunk_snapshot, work[t].to_delete,
                                        job[t].chunks, work[t].to_process)
       \/ Fails(t, "replace") /\ UNCHANGED chunk_snapshot
    /\ Goto(t, "cache")
    /\ UNCHANGED <<file_metadata, graphVars, cache, chunks_raw, job, work,
                   delivered, crashes>>

(* The chunks of a batch with key k: the last of them is written last. *)
WithKey(chunks, batch, k) == {i \in batch : chunks[i].key = k}

(* Under the cache's mutex: evict when over the limit, then insert. *)
CacheChunks_SendFirst(t) ==
    /\ pc[t] = "cache"
    /\ LET batch == work[t].to_process
       IN  /\ cache' = [k \in Keys |->
                    LET same == WithKey(job[t].chunks, batch, k)
                    IN  IF same = {} THEN cache[k]
                        ELSE job[t].chunks[LastOf(same)].hash]
           /\ Remember(t, [work[t] EXCEPT !.left = batch \ work[t].clean])
           /\ Goto(t, IF batch \subseteq work[t].clean THEN "metadata" ELSE "publish")
    /\ UNCHANGED <<pgVars, graphVars, chunks_raw, job, delivered, faultVars, crashes>>
CacheChunks(t) ==
    /\ pc[t] = "cache"
    /\ \E evicted \in IF CacheCrowded THEN SUBSET Keys ELSE {{}} :
        cache' = [k \in Keys |->
                    LET same == WithKey(job[t].chunks, work[t].to_process, k)
                    IN  IF same # {} THEN job[t].chunks[LastOf(same)].hash
                        ELSE IF k \in evicted THEN None ELSE cache[k]]
    /\ LET batch == work[t].to_process
       IN  Remember(t, [work[t] EXCEPT !.left = batch,
                                       !.links = ChainLinks(job[t].chunks, batch)])
    /\ Goto(t, IF work[t].to_process = {} THEN "metadata" ELSE "store")
    /\ UNCHANGED <<pgVars, graphVars, chunks_raw, job, delivered, faultVars, crashes>>

(* Only the chunks that are still dirty are sent on. *)
ToPublish(t) == work[t].to_process \ work[t].clean

AfterStore(t) ==
    IF work[t].links # {} THEN "relate"
    ELSE IF ToPublish(t) # {} THEN "publish" ELSE "metadata"

(* store_chunk_with_embedding for the next chunk; an error is logged. *)
StoreNode(t) ==
    /\ pc[t] = "store"
    /\ \E i \in work[t].left :
        /\ \A j \in work[t].left : i <= j
        /\ \/ /\ Succeeds
              /\ nodes' = [nodes EXCEPT ![UserGraph(t)] = MergeNode(@, job[t].chunks[i])]
           \/ Fails(t, "store") /\ UNCHANGED nodes
        /\ LET rest == work[t].left \ {i}
           IN  /\ Remember(t, [work[t] EXCEPT !.left = IF rest = {} THEN ToPublish(t) ELSE rest])
               /\ Goto(t, IF rest = {} THEN AfterStore(t) ELSE "store")
    /\ UNCHANGED <<pgVars, edges, cache, chunks_raw, job, delivered, crashes>>

(* store_relationship for the next link; an error is logged.  The links of *)
(* SymbolIndex and CodeExtractor join two different chunks of the batch,   *)
(* and both are ends of the chain too; only the chain is kept.             *)
StoreLink(t) ==
    /\ pc[t] = "relate"
    /\ \E link \in work[t].links :
        /\ \/ /\ Succeeds
              /\ nodes' = [nodes EXCEPT ![UserGraph(t)] = MergeEnds(@, link)]
              /\ edges' = [edges EXCEPT ![UserGraph(t)] = @ \cup {link}]
           \/ Fails(t, "relate") /\ UNCHANGED graphVars
        /\ Remember(t, [work[t] EXCEPT !.links = @ \ {link}])
        /\ Goto(t, IF work[t].links # {link} THEN "relate"
                   ELSE IF work[t].left # {} THEN "publish" ELSE "metadata")
    /\ UNCHANGED <<pgVars, cache, chunks_raw, job, delivered, crashes>>

(* The first BatchSize of the indices left. *)
NextBatch(left) ==
    {i \in left : Cardinality({j \in left : j <= i}) <= BatchSize}

(* publish_chunks for the next batch; without a producer it sends nothing  *)
(* and succeeds.  When it fails, all its attempts having failed, the loop  *)
(* breaks; an attempt reported as failed may still have reached the        *)
(* broker.  A message that the retries send twice is one message that is   *)
(* answered more than once.                                                *)
Publish(t) ==
    /\ pc[t] = "publish"
    /\ LET sent == NextBatch(work[t].left)
           message == [user |-> job[t].user, chunks |-> job[t].chunks, sent |-> sent]
       IN  \/ /\ Succeeds
              /\ chunks_raw' = IF ProducerReady THEN Append(chunks_raw, message)
                               ELSE chunks_raw
              /\ Remember(t, [work[t] EXCEPT !.left = @ \ sent])
              /\ Goto(t, IF work[t].left = sent THEN "metadata" ELSE "publish")
           \/ /\ ProducerReady
              /\ Fails(t, "publish")
              /\ chunks_raw' \in {chunks_raw, Append(chunks_raw, message)}
              /\ Remember(t, [work[t] EXCEPT !.left = {}])
              /\ Goto(t, "metadata")
    /\ UNCHANGED <<pgVars, graphVars, cache, job, delivered, crashes>>

(* store_file_metadata: the upsert leaves user_id as the first insert set  *)
(* it.  Its error is process_file's result; the task ends either way.      *)
StoreMetadata(t) ==
    /\ pc[t] = "metadata"
    /\ \/ /\ Succeeds
          /\ file_metadata' = IF file_metadata = None THEN job[t].user
                              ELSE file_metadata
       \/ Fails(t, "store_metadata") /\ UNCHANGED file_metadata
    /\ Finish(t)
    /\ UNCHANGED <<chunk_snapshot, graphVars, cache, chunks_raw, delivered, crashes>>

(* MATCH (c) WHERE c.source_id = ... AND c.id ENDS WITH ...: a phantom has *)
(* no source_id and is not matched.                                        *)
FileNodes_Embedded(graph) ==
    {k \in Keys : graph[k] # None /\ graph[k].embeddings # None}
FileNodes(graph) == {k \in Keys : graph[k] # None /\ graph[k].content # None}

(* delete_file: an error of the graph ends the task, also when it is the   *)
(* reply to the deletion that was lost.                                    *)
DeleteNodes(t) ==
    /\ pc[t] = "delete_nodes"
    /\ \/ /\ Succeeds
          /\ DetachDelete(UserGraph(t), FileNodes(nodes[UserGraph(t)]))
          /\ Goto(t, "delete_metadata")
          /\ UNCHANGED <<job, work>>
       \/ /\ Fails(t, "delete_nodes")
          /\ Finish(t)
          /\ \/ DetachDelete(UserGraph(t), FileNodes(nodes[UserGraph(t)]))
             \/ UNCHANGED graphVars
    /\ UNCHANGED <<pgVars, cache, chunks_raw, delivered, crashes>>

(* delete_file_metadata; an error is logged. *)
DeleteMetadata(t) ==
    /\ pc[t] = "delete_metadata"
    /\ \/ Succeeds /\ file_metadata' = None
       \/ Fails(t, "delete_metadata") /\ UNCHANGED file_metadata
    /\ Finish(t)
    /\ UNCHANGED <<chunk_snapshot, graphVars, cache, chunks_raw, delivered, crashes>>

(* Tasks of other files fill the cache past its limit and evict what they  *)
(* find in it, this file's chunks included.                                *)
CrowdOut ==
    /\ CacheCrowded
    /\ \E k \in Keys : /\ cache[k] # None
                      /\ cache' = [cache EXCEPT ![k] = None]
    /\ UNCHANGED <<pgVars, graphVars, chunks_raw, taskVars, delivered, faultVars,
                   crashes>>

(***************************************************************************)
(* The process dies and is started again.  Offsets are stored and          *)
(* committed whether or not the spawned tasks have ended, so their         *)
(* messages may not come back; if they do, that is a Deliver.              *)
(***************************************************************************)
Crash ==
    /\ crashes < MaxCrashes
    /\ crashes' = crashes + 1
    /\ pc' = [t \in Handlers |-> "idle"]
    /\ job' = [t \in Handlers |-> None]
    /\ work' = [t \in Handlers |-> NoWork]
    /\ cache' = [k \in Keys |-> None]
    /\ troubled' = troubled \cup {t \in Handlers : pc[t] # "idle"}
    /\ UNCHANGED <<pgVars, graphVars, chunks_raw, delivered, failures>>

Step(t) ==
    \/ FirstDiff(t)
    \/ MarkDeleted(t)
    \/ DeleteOrphans(t)
    \/ SecondDiff(t)
    \/ Replace(t)
    \/ CacheChunks(t)
    \/ StoreNode(t)
    \/ StoreLink(t)
    \/ Publish(t)
    \/ StoreMetadata(t)
    \/ DeleteNodes(t)
    \/ DeleteMetadata(t)

Next ==
    \/ \E t \in Handlers : Step(t)
    \/ \E t \in Handlers, e \in Job : Deliver(t, e)
    \/ CrowdOut
    \/ Crash

Spec == Init /\ [][Next]_vars

(* A spawned task is polled until it ends; nothing makes a message arrive. *)
FairSpec == Spec /\ \A t \in Handlers : WF_vars(Step(t))

-----------------------------------------------------------------------------
(* Properties.                                                             *)

TypeOK ==
    /\ chunk_snapshot \in [Ids -> Row \cup {None}]
    /\ file_metadata \in Users \cup {None}
    /\ nodes \in [Users -> [Keys -> Node \cup {None}]]
    /\ edges \in [Users -> SUBSET (Keys \X Keys)]
    /\ cache \in [Keys -> Hashes \cup {None}]
    /\ chunks_raw \in Seq(Message)
    /\ pc \in [Handlers -> PCs]
    /\ job \in [Handlers -> Job \cup {None}]
    /\ work \in [Handlers -> Work]
    /\ delivered \in Seq(Job)
    /\ troubled \subseteq Handlers
    /\ failures \in Nat
    /\ crashes \in Nat

Quiescent == \A t \in Handlers : pc[t] = "idle"

EventsOf(u) == {n \in DOMAIN delivered : delivered[n].user = u}

(* The chunks of the last version delivered for u; none after a deletion. *)
Requested(u) ==
    IF EventsOf(u) = {} THEN <<>>
    ELSE delivered[CHOOSE n \in EventsOf(u) :
                        \A m \in EventsOf(u) : m <= n].chunks

Wanted(u) == {<<c.key, c.hash>> : c \in {Requested(u)[i] : i \in DOMAIN Requested(u)}}

NodeKeys(u) == {k \in Keys : nodes[u][k] # None}
Contents(u) == {<<k, nodes[u][k].content>> : k \in NodeKeys(u)}

(* When no task is left, every node of the user's graph holds a chunk of   *)
(* the last version delivered, and its content in that version: no key is  *)
(* left over and no content is out of date, deletions in between included. *)
(* Asked of states before any failure or crash.                            *)
NothingStale ==
    (Quiescent /\ failures = 0 /\ crashes = 0) =>
        \A u \in Users : Contents(u) \subseteq Wanted(u)

(* When no task is left, the live rows of chunk_snapshot are exactly the   *)
(* chunks of the last version: what the next diff will call unchanged.     *)
SnapshotMatchesRequest ==
    Quiescent =>
        \A u \in Users : EventsOf(u) # {} =>
            {<<KeyOf(id), chunk_snapshot[id].hash>> : id \in Live(chunk_snapshot)}
                = Wanted(u)

(* No node of a graph is unknown to chunk_snapshot: rows are committed     *)
(* before nodes are written and are only ever tombstoned, so whatever      *)
(* crashes, races or failed deletions leave behind, a later first diff     *)
(* finds its key and deletes it.                                           *)
NodesTracked ==
    \A u \in Users : \A k \in NodeKeys(u) :
        \E id \in Recorded(chunk_snapshot) : KeyOf(id) = k

(* A run of process_file in which no call failed leaves no node of another *)
(* version in its user's graph, whatever earlier runs left there: the      *)
(* first diff also looks at tombstoned rows (DiffRows).                    *)
OrphansPurged ==
    Quiescent =>
        \A u \in Users :
            (troubled = {} /\ Requested(u) # <<>>)
                => NodeKeys(u) \subseteq KeysOf(Requested(u))

(* A user's graph holds only chunks of versions that were delivered for    *)
(* that user: every write goes through with_user_graph, though the rows    *)
(* and the cache the tasks work from are shared by all users.              *)
GraphHoldsOwnRequests ==
    \A u \in Users : \A k \in NodeKeys(u) :
        nodes[u][k].content # None =>
            \E n \in EventsOf(u) : \E i \in DOMAIN delivered[n].chunks :
                delivered[n].chunks[i] = [key |-> k, hash |-> nodes[u][k].content]

(* Every delivered event is handled to its end: each call returns, with or *)
(* without an error, and no loop of the tasks waits for another task.      *)
EveryEventHandled == \A t \in Handlers : pc[t] # "idle" ~> pc[t] = "idle"

(* docs/ARCHITECTURE.md, Storage Layer: "It stores Vector_Chunk nodes for  *)
(* every extracted chunk."  Asked only once every task has ended and the   *)
(* last run of each met no failure.                                        *)
EveryChunkStored ==
    (Quiescent /\ troubled = {}) =>
        \A u \in Users : Wanted(u) \subseteq Contents(u)

(* The comment of delete_file: "Delete a file's chunks from FalkorDB when  *)
(* a deletion event is received."  A node that a failed store left without *)
(* a source is not found by it, so this too is asked before any failure.   *)
DeletionEmptiesGraph ==
    (Quiescent /\ delivered # <<>> /\ failures = 0 /\ crashes = 0) =>
        LET last == delivered[Len(delivered)]
        IN  last.op = "delete" => NodeKeys(last.user) = {}
=============================================================================
